----------------------------- MODULE PacketReuse -----------------------------
(***************************************************************************)
(* A client process that restarts and takes the ids of its connections     *)
(* again, with a server that does not restart: the counter behind the ids  *)
(* lives in the client's memory (tcp_tunnel_abc.py,                        *)
(* GlobalConnectionCounter), the buffers under them in the server's.       *)
(*                                                                         *)
(* The receiver is PacketStream's, on the server.  The id is taken again   *)
(* only after the server's old connection of that id has gone, and what    *)
(* the old client still had under way goes with its link.                  *)
(***************************************************************************)
EXTENDS PacketStream

CONSTANT MaxRestarts  \* bound: restarts of the client

VARIABLES
    restarts,
    lifeStart  \* history: chunks read by the connections of earlier lives

reuseVars == <<vars, restarts, lifeStart>>

ReuseInit ==
    /\ Init
    /\ restarts = 0
    /\ lifeStart = 0

(* The next connection of this id: a sender that counts from one, and a     *)
(* receiver with a new TunnelProtocol and what _connectionDataBuffers holds.*)
Reuse ==
    /\ connection = "gone"
    /\ restarts < MaxRestarts
    /\ restarts' = restarts + 1
    /\ lifeStart' = read
    /\ sendPacketSequence' = 1
    /\ skipped' = {}
    /\ dropped' = {}
    /\ inFlight' = {}
    /\ connection' = "pending"
    /\ receivedPacketSequence' = 1
    /\ receivedDataBySequence' = {}
    /\ written' = <<>>
    /\ closing' = FALSE
    /\ UNCHANGED <<read, connectionDataBuffer>>

ReuseNext == Reuse \/ (Next /\ UNCHANGED <<restarts, lifeStart>>)

ReuseSpec == ReuseInit /\ [][ReuseNext]_reuseVars

-----------------------------------------------------------------------------
(* A TCP connection is given the data of its own application only           *)
(* (GlobalConnectionCounter: "to ensure unique connection IDs across all    *)
(* tunnels").                                                               *)
NoForeignData == \A i \in 1..Len(written) : written[i] > lifeStart
=============================================================================
