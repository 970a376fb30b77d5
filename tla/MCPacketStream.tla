--------------------------- MODULE MCPacketStream ---------------------------
(* PacketStream for TLC.  Five chunks and a stash of three: a gap can open,*)
(* close again, or fill the stash, with a packet to spare.                  *)
EXTENDS PacketStream

MCMaxChunks == 5
MCStashLimit == 3
=============================================================================
