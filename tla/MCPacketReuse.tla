--------------------------- MODULE MCPacketReuse ----------------------------
(* PacketReuse for TLC: one restart, and three chunks for both lives.       *)
EXTENDS PacketReuse

MCMaxChunks == 3
MCStashLimit == 3
=============================================================================
