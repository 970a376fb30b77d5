---------------------------- MODULE PacketStream ----------------------------
(***************************************************************************)
(* One direction of one tunnelled TCP connection, from the chunks its      *)
(* TunnelProtocol reads on one side (dataReceived) to the bytes written to *)
(* the TCP connection of the other side: sequence numbers, the buffer for  *)
(* a connection that is still being made, the stash that puts packets back *)
(* in order, and how the receiving connection comes and goes               *)
(* (tcp_tunnel/tunnel_protocol.py, tcp_tunnel/tcp_tunnel_abc.py).          *)
(*                                                                         *)
(* The transport is VortexPy, outside this repository.  The code calls it  *)
(* "the potentially unordered WebSocket transport layer", so any packet    *)
(* in flight may be the next to arrive.                                    *)
(***************************************************************************)
EXTENDS Naturals, Sequences, FiniteSets

CONSTANTS
    MaxChunks,   \* bound: chunks read from the sender's TCP connection
    StashLimit,  \* 100 in the code
    Copies,      \* times each packet is processed (2: a leaked PayloadEndpoint)
    SendMayRaise \* may sending raise an exception in dataReceived?

ASSUME PacketStreamAssumption ==
    /\ MaxChunks \in Nat
    /\ StashLimit \in Nat \ {0}
    /\ Copies \in Nat
    /\ SendMayRaise \in BOOLEAN

Chunk == 1..MaxChunks
Packet == [seq : 1..MaxChunks, chunk : Chunk]

VARIABLES
    (* the sender *)
    read,                    \* chunks dataReceived was called with: 1, 2, ..., read
    sendPacketSequence,
    skipped,                 \* history: chunks whose sending raised
    dropped,                 \* history: sequence numbers used but sent to nobody
    (* the transport *)
    inFlight,                \* <<packet, copy>> pairs not processed yet
    (* the receiver *)
    connection,              \* "pending": not connected, "open": in _activeConnections,
                             \* "closed": taken out of it and told to close,
                             \* "gone": connectionLost was called, or the connect failed
    connectionDataBuffer,    \* _connectionDataBuffers[connectionId]
    receivedPacketSequence,  \* the sequence number expected next
    receivedDataBySequence,  \* the stash
    written,                 \* chunks written to the receiver's TCP connection
    closing                  \* has transport.loseConnection been called?

sender == <<read, sendPacketSequence, skipped, dropped>>
protocol == <<receivedPacketSequence, receivedDataBySequence, written, closing>>
vars == <<sender, inFlight, connection, connectionDataBuffer, protocol>>

TypeOK ==
    /\ read \in 0..MaxChunks
    /\ sendPacketSequence \in 1..(MaxChunks + 1)
    /\ skipped \subseteq Chunk
    /\ dropped \subseteq 1..MaxChunks
    /\ inFlight \subseteq Packet \X (1..Copies)
    /\ connection \in {"pending", "open", "closed", "gone"}
    /\ connectionDataBuffer \in Seq(Packet)
    /\ receivedPacketSequence \in 1..(MaxChunks + 1)
    /\ receivedDataBySequence \subseteq Packet
    /\ written \in Seq(Chunk)
    /\ closing \in BOOLEAN

Init ==
    /\ read = 0
    /\ sendPacketSequence = 1
    /\ skipped = {}
    /\ dropped = {}
    /\ inFlight = {}
    /\ connection = "pending"
    /\ connectionDataBuffer = <<>>
    /\ receivedPacketSequence = 1
    /\ receivedDataBySequence = {}
    /\ written = <<>>
    /\ closing = FALSE

-----------------------------------------------------------------------------
(* dataReceived, through _processFromTcp and _send *)

(* The next chunk is sent under the next sequence number. *)
DataReceived ==
    /\ read < MaxChunks
    /\ read' = read + 1
    /\ inFlight' = inFlight
         \cup {[seq |-> sendPacketSequence, chunk |-> read + 1]} \X (1..Copies)
    /\ sendPacketSequence' = sendPacketSequence + 1
    /\ UNCHANGED <<skipped, dropped, connection, connectionDataBuffer, protocol>>

(* _send finds no active remote and only warns: the number is used up. *)
DataReceivedNoRemote ==
    /\ read < MaxChunks
    /\ read' = read + 1
    /\ dropped' = dropped \cup {sendPacketSequence}
    /\ sendPacketSequence' = sendPacketSequence + 1
    /\ UNCHANGED <<skipped, inFlight, connection, connectionDataBuffer, protocol>>

(* The first-data callback or the sending raises: dataReceived logs it, and *)
(* the next chunk gets the number this one would have had.                  *)
NumberUsedOnRetry ==
    /\ SendMayRaise
    /\ read < MaxChunks
    /\ sendPacketSequence' = sendPacketSequence + 1
    /\ UNCHANGED <<read, skipped, dropped, inFlight, connection,
                   connectionDataBuffer, protocol>>

DataReceivedRaises ==
    /\ SendMayRaise
    /\ read < MaxChunks
    /\ read' = read + 1
    /\ skipped' = skipped \cup {read + 1}
    /\ UNCHANGED <<sendPacketSequence, dropped, inFlight, connection,
                   connectionDataBuffer, protocol>>

-----------------------------------------------------------------------------
(* TunnelProtocol.write *)

Stashed(stash, seq) == \E q \in stash : q.seq = seq

(* The stash with p in it; a packet of the same number is overwritten. *)
WithPacket(p) == {q \in receivedDataBySequence : q.seq # p.seq} \cup {p}

(* Everything from the expected number up to the first one missing goes to  *)
(* the TCP connection in order; a stash that then holds StashLimit packets  *)
(* makes the receiver give the connection up.                               *)
WriteWithoutDraining(p) ==
    /\ receivedPacketSequence' =
           IF p.seq = receivedPacketSequence THEN p.seq + 1 ELSE receivedPacketSequence
    /\ receivedDataBySequence' =
           IF p.seq = receivedPacketSequence THEN receivedDataBySequence ELSE WithPacket(p)
    /\ written' = IF p.seq = receivedPacketSequence
                    THEN Append(written, p.chunk) ELSE written
    /\ closing' = (closing \/ Cardinality(receivedDataBySequence') = StashLimit)

WriteAsArrived(p) ==
    /\ receivedPacketSequence' = IF p.seq >= receivedPacketSequence
                                   THEN p.seq + 1 ELSE receivedPacketSequence
    /\ written' = Append(written, p.chunk)
    /\ UNCHANGED <<receivedDataBySequence, closing>>

WriteUnlessLate(p) ==
    /\ receivedPacketSequence' = IF p.seq >= receivedPacketSequence
                                   THEN p.seq + 1 ELSE receivedPacketSequence
    /\ written' = IF p.seq >= receivedPacketSequence
                    THEN Append(written, p.chunk) ELSE written
    /\ UNCHANGED <<receivedDataBySequence, closing>>

GiveUpTooLate(p) ==
    \E missing \in receivedPacketSequence..(MaxChunks + 1) :
        LET stash == WithPacket(p)
            ready == receivedPacketSequence..(missing - 1)
        IN  /\ \A seq \in ready : Stashed(stash, seq)
            /\ ~Stashed(stash, missing)
            /\ receivedPacketSequence' = missing
            /\ receivedDataBySequence' = {q \in stash : q.seq \notin ready}
            /\ written' = written \o
                   [i \in 1..(missing - receivedPacketSequence) |->
                       (CHOOSE q \in stash : q.seq = receivedPacketSequence + i - 1).chunk]
            /\ closing' = (closing \/ Cardinality(receivedDataBySequence') > StashLimit)

Write(p) ==
    \E missing \in receivedPacketSequence..(MaxChunks + 1) :
        LET stash == WithPacket(p)
            ready == receivedPacketSequence..(missing - 1)
        IN  /\ \A seq \in ready : Stashed(stash, seq)
            /\ ~Stashed(stash, missing)
            /\ receivedPacketSequence' = missing
            /\ receivedDataBySequence' = {q \in stash : q.seq \notin ready}
            /\ written' = written \o
                   [i \in 1..(missing - receivedPacketSequence) |->
                       (CHOOSE q \in stash : q.seq = receivedPacketSequence + i - 1).chunk]
            /\ closing' = (closing \/ Cardinality(receivedDataBySequence') = StashLimit)

-----------------------------------------------------------------------------
(* The receiver's tunnel *)

(* _localConnectionMade writes the buffered packets in the turn in which    *)
(* the connection opens: until it has, the receiver does nothing else.      *)
Flushing == connection = "open" /\ connectionDataBuffer # <<>>

(* _processFromVortex of a data packet: to the connection, or to the buffer *)
(* of a connection that is not (or no longer) registered.                   *)
ProcessFromVortex(p, copy) ==
    /\ <<p, copy>> \in inFlight
    /\ ~Flushing
    /\ inFlight' = inFlight \ {<<p, copy>>}
    /\ IF connection = "open"
         THEN Write(p) /\ UNCHANGED connectionDataBuffer
         ELSE /\ connectionDataBuffer' = Append(connectionDataBuffer, p)
              /\ UNCHANGED protocol
    /\ UNCHANGED <<sender, connection>>

LocalConnectionMade ==
    /\ connection = "pending"
    /\ connection' = "open"
    /\ UNCHANGED <<sender, inFlight, connectionDataBuffer, protocol>>

FlushFirstOnly ==
    /\ Flushing
    /\ Write(Head(connectionDataBuffer))
    /\ connectionDataBuffer' = <<>>
    /\ UNCHANGED <<sender, inFlight, connection>>

FlushOne ==
    /\ Flushing
    /\ Write(Head(connectionDataBuffer))
    /\ connectionDataBuffer' = Tail(connectionDataBuffer)
    /\ UNCHANGED <<sender, inFlight, connection>>

(* The connect side's endpoint.connect fails or times out:                  *)
(* _localConnectionLost(failedToConnect=True).                              *)
ConnectFailed ==
    /\ connection = "pending"
    /\ connection' = "gone"
    /\ connectionDataBuffer' = <<>>
    /\ UNCHANGED <<sender, inFlight, protocol>>

(* A kill signal, a listener that shuts down or the other side's "lost":    *)
(* _closeConnection, _remoteConnectionLost.                                 *)
CloseConnection ==
    /\ connection = "open" /\ ~Flushing
    /\ connection' = "closed"
    /\ connectionDataBuffer' = <<>>
    /\ closing' = TRUE
    /\ UNCHANGED <<sender, inFlight, receivedPacketSequence,
                   receivedDataBySequence, written>>

(* connectionLost and _localConnectionLost: the peer closed or reset the    *)
(* connection, or loseConnection has done its work.                         *)
ConnectionLost ==
    /\ connection \in {"open", "closed"} /\ ~Flushing
    /\ connection' = "gone"
    /\ connectionDataBuffer' = <<>>
    /\ UNCHANGED <<sender, inFlight, protocol>>

Next ==
    \/ DataReceived
    \/ DataReceivedNoRemote
    \/ DataReceivedRaises
    \/ \E p \in Packet, copy \in 1..Copies : ProcessFromVortex(p, copy)
    \/ LocalConnectionMade
    \/ FlushOne
    \/ ConnectFailed
    \/ CloseConnection
    \/ ConnectionLost

(* The transport delivers what it was given, a connect ends (it has a       *)
(* timeout of three seconds), the flush loop runs on, and a connection told *)
(* to close does.  Neither the sender's data nor a close is promised.       *)
Fairness ==
    /\ WF_vars(\E p \in Packet, copy \in 1..Copies : ProcessFromVortex(p, copy))
    /\ WF_vars(LocalConnectionMade \/ ConnectFailed)
    /\ WF_vars(FlushOne)
    /\ WF_vars(closing /\ ConnectionLost)

Spec == Init /\ [][Next]_vars
FairSpec == Spec /\ Fairness

-----------------------------------------------------------------------------
(* The receiver's TCP connection gets the chunks in the order in which the  *)
(* sender read them and none twice, whatever order the packets arrive in    *)
(* ("Packet sequencing ensures ordered TCP data delivery").                 *)
InOrder ==
    \A i, j \in 1..Len(written) : i < j => written[i] < written[j]

(* Unless the sending of a chunk raised, the receiver's TCP connection gets *)
(* an unbroken prefix of the stream: no chunk is missing from the middle.   *)
NoHole ==
    skipped = {} => \A i \in 1..Len(written) : written[i] = i

(* A packet is kept back only for a number that is still missing: every one *)
(* in the stash lies beyond the expected number.  (With each packet         *)
(* processed once; a second copy would stay in the stash for good and count *)
(* towards the limit.)                                                      *)
StashBeyondGap ==
    Copies = 1 => \A q \in receivedDataBySequence : q.seq > receivedPacketSequence

(* A receiver that holds StashLimit packets for one that has not turned up  *)
(* gives the connection up instead of stalling for ever.                    *)
GapClosesConnection ==
    Cardinality(receivedDataBySequence) >= StashLimit ~> connection = "gone"

(* When nothing was dropped or raised, every chunk read reaches the other   *)
(* side's TCP connection or that connection goes.                           *)
DeliveredOrGone ==
    \A n \in Chunk :
        read >= n ~> \/ Len(written) >= n
                     \/ connection \in {"closed", "gone"}
                     \/ skipped # {} \/ dropped # {}
=============================================================================
