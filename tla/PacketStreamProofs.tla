------------------------- MODULE PacketStreamProofs -------------------------
(***************************************************************************)
(* Theorems about PacketStream, for any number of chunks, stash limit and  *)
(* number of copies, and for every order of delivery: what is written to   *)
(* the receiver's TCP connection is in order and, unless a send raised,    *)
(* without a hole; a full stash has closed the connection, and nothing is  *)
(* kept back once nothing is under way.                                    *)
(***************************************************************************)
EXTENDS PacketStream, FiniteSetTheorems, SequenceTheorems, TLAPS

(* Every packet that may still be written: in flight, buffered or stashed.  *)
Flying == {x[1] : x \in inFlight}
Buffered == {connectionDataBuffer[i] : i \in 1..Len(connectionDataBuffer)}
Pending == Flying \cup Buffered \cup receivedDataBySequence

(* The order of the sequence numbers is the order of the chunks, among      *)
(* pending packets and between them and what has been written; and what has *)
(* been written is what lay below the expected number, one chunk each.      *)
PacketsOrdered ==
    \A p, q \in Pending : p.seq < q.seq => p.chunk < q.chunk

WrittenBelow ==
    /\ Len(written) = receivedPacketSequence - 1
    /\ \A i \in 1..Len(written), p \in Pending : p.seq > i => p.chunk > written[i]

SentOnly ==
    /\ receivedPacketSequence <= sendPacketSequence
    /\ \A p \in Pending : p.seq < sendPacketSequence /\ p.chunk <= read
    /\ \A i \in 1..Len(written) : written[i] <= read
    /\ sendPacketSequence <= read + 1

NumbersAreChunks ==
    skipped = {} => /\ sendPacketSequence = read + 1
                    /\ \A p \in Pending : p.chunk = p.seq

OrderInv ==
    /\ TypeOK
    /\ PacketsOrdered
    /\ WrittenBelow
    /\ SentOnly
    /\ NumbersAreChunks
    /\ InOrder
    /\ NoHole

-----------------------------------------------------------------------------
LEMMA PendingType == TypeOK => Pending \subseteq Packet
<1> SUFFICES ASSUME TypeOK PROVE Pending \subseteq Packet
  OBVIOUS
<1>1. Flying \subseteq Packet
  BY DEF TypeOK, Flying
<1>2. Buffered \subseteq Packet
  BY ElementOfSeq DEF TypeOK, Buffered
<1> QED
  BY <1>1, <1>2 DEF TypeOK, Pending

(* What write() does, whatever it drains: the expected number moves up to   *)
(* some missing one, and the chunks of the packets in between are appended  *)
(* one by one.                                                              *)
LEMMA WriteEffect ==
    ASSUME TypeOK, NEW p \in Packet, Write(p)
    PROVE  LET stash == WithPacket(p)
               n == receivedPacketSequence' - receivedPacketSequence
           IN  /\ receivedPacketSequence' \in receivedPacketSequence..(MaxChunks + 1)
               /\ receivedDataBySequence' \subseteq receivedDataBySequence \cup {p}
               /\ \A q \in receivedDataBySequence' :
                     q.seq \notin receivedPacketSequence..(receivedPacketSequence' - 1)
               /\ written' \in Seq(Chunk)
               /\ Len(written') = Len(written) + n
               /\ \A i \in 1..Len(written) : written'[i] = written[i]
               /\ \A i \in 1..n : \E q \in receivedDataBySequence \cup {p} :
                     /\ q.seq = receivedPacketSequence + i - 1
                     /\ written'[Len(written) + i] = q.chunk
               /\ closing' \in BOOLEAN
<1> DEFINE stash == WithPacket(p)
           first == receivedPacketSequence
<1>1. PICK missing \in first..(MaxChunks + 1) :
        /\ \A seq \in first..(missing - 1) : Stashed(stash, seq)
        /\ receivedPacketSequence' = missing
        /\ receivedDataBySequence' = {q \in stash : q.seq \notin first..(missing - 1)}
        /\ written' = written \o
              [i \in 1..(missing - first) |->
                  (CHOOSE q \in stash : q.seq = first + i - 1).chunk]
        /\ closing' \in BOOLEAN
  BY DEF Write, TypeOK
<1> DEFINE picked(i) == CHOOSE q \in stash : q.seq = first + i - 1
           drained == [i \in 1..(missing - first) |-> picked(i).chunk]
<1>2. /\ first \in Nat /\ missing \in Nat /\ missing - first \in Nat
      /\ stash \subseteq receivedDataBySequence \cup {p}
      /\ stash \subseteq Packet
  BY <1>1, PacketStreamAssumption DEF TypeOK, WithPacket, PacketStreamAssumption
<1>3. \A i \in 1..(missing - first) : picked(i) \in stash /\ picked(i).seq = first + i - 1
  <2> SUFFICES ASSUME NEW i \in 1..(missing - first)
               PROVE  picked(i) \in stash /\ picked(i).seq = first + i - 1
    OBVIOUS
  <2>1. first + i - 1 \in first..(missing - 1)
    BY <1>2
  <2>2. \E q \in stash : q.seq = first + i - 1
    BY <1>1, <2>1 DEF Stashed
  <2> QED
    BY <2>2
<1> HIDE DEF picked, stash
<1>4. drained \in Seq(Chunk) /\ Len(drained) = missing - first
  <2>1. \A i \in 1..(missing - first) : picked(i).chunk \in Chunk
    BY <1>2, <1>3 DEF Packet
  <2>2. drained \in [1..(missing - first) -> Chunk]
    BY <2>1
  <2>3. drained \in Seq(Chunk)
    BY <1>2, <2>2, SeqDef
  <2>4. DOMAIN drained = 1..(missing - first) /\ DOMAIN drained = 1..Len(drained)
    BY <2>3, LenProperties
  <2>5. Len(drained) \in Nat
    BY <2>3, LenProperties
  <2> QED
    BY <1>2, <2>3, <2>4, <2>5
<1>5. written \in Seq(Chunk) /\ Len(written) \in Nat /\ written' = written \o drained
  BY <1>1, LenProperties DEF TypeOK, picked
<1> HIDE DEF drained, first
<1>6. /\ written' \in Seq(Chunk)
      /\ Len(written') = Len(written) + (missing - first)
      /\ \A i \in 1..(Len(written) + (missing - first)) :
            written'[i] = IF i <= Len(written) THEN written[i]
                          ELSE drained[i - Len(written)]
  <2>1. /\ written \o drained \in Seq(Chunk)
        /\ Len(written \o drained) = Len(written) + Len(drained)
        /\ \A i \in 1..(Len(written) + Len(drained)) :
              (written \o drained)[i] = IF i <= Len(written) THEN written[i]
                                        ELSE drained[i - Len(written)]
    BY <1>4, <1>5, ConcatProperties
  <2> QED
    BY <1>4, <1>5, <2>1
<1>7. \A i \in 1..(missing - first) : written'[Len(written) + i] = picked(i).chunk
  <2> SUFFICES ASSUME NEW i \in 1..(missing - first)
               PROVE  written'[Len(written) + i] = picked(i).chunk
    OBVIOUS
  <2>1. /\ Len(written) + i \in 1..(Len(written) + (missing - first))
        /\ ~(Len(written) + i <= Len(written))
        /\ (Len(written) + i) - Len(written) = i
    BY <1>2, <1>5
  <2>2. drained[i] = picked(i).chunk
    BY DEF drained
  <2> QED
    BY <1>6, <2>1, <2>2
<1>8. \A i \in 1..Len(written) : written'[i] = written[i]
  BY <1>2, <1>5, <1>6
<1> QED
  BY <1>1, <1>2, <1>3, <1>6, <1>7, <1>8 DEF first, stash

(* write() of a pending packet keeps the order, if nothing becomes pending. *)
LEMMA WriteKeepsOrder ==
    ASSUME OrderInv, TypeOK', NEW p \in Pending, Write(p),
           Pending' \subseteq Pending, UNCHANGED sender
    PROVE  OrderInv'
<1>1. /\ Pending \subseteq Packet
      /\ p \in Packet
      /\ receivedDataBySequence \cup {p} \subseteq Pending
  BY PendingType DEF OrderInv, Pending
<1> DEFINE first == receivedPacketSequence
           next == receivedPacketSequence'
           n == next - first
           old == Len(written)
           new == Len(written')
<1>2. /\ next \in first..(MaxChunks + 1)
      /\ written' \in Seq(Chunk)
      /\ new = old + n
      /\ \A i \in 1..old : written'[i] = written[i]
      /\ \A i \in 1..n : \E q \in receivedDataBySequence \cup {p} :
            q.seq = first + i - 1 /\ written'[old + i] = q.chunk
  BY <1>1, WriteEffect DEF OrderInv
<1>3. /\ first \in Nat \ {0} /\ n \in Nat /\ old = first - 1 /\ next \in Nat
      /\ new = next - 1
      /\ read \in Nat /\ sendPacketSequence \in Nat /\ MaxChunks \in Nat
      /\ new \in Nat
  <2>1. MaxChunks \in Nat /\ read \in Nat
    BY PacketStreamAssumption DEF PacketStreamAssumption, OrderInv, TypeOK
  <2>2. first \in 1..(MaxChunks + 1) /\ sendPacketSequence \in 1..(MaxChunks + 1)
    BY DEF OrderInv, TypeOK
  <2>3. old = first - 1
    BY DEF OrderInv, WrittenBelow
  <2> HIDE DEF first, next, old, new
  <2>4. n \in Nat /\ next \in Nat
    BY <1>2, <2>1, <2>2
  <2> QED
    BY <1>2, <2>1, <2>2, <2>3, <2>4
<1>4. /\ \A q \in Pending : q.seq \in Nat /\ q.chunk \in Nat
      /\ \A i \in 1..new : written'[i] \in Nat
  <2>1. \A i \in 1..new : written'[i] \in Chunk
    BY <1>2, ElementOfSeq
  <2>2. Chunk \subseteq Nat
    BY <1>3 DEF Chunk
  <2>3. \A q \in Packet : q.seq \in Chunk /\ q.chunk \in Chunk
    BY DEF Packet, Chunk
  <2> QED
    BY <1>1, <2>1, <2>2, <2>3
(* What the invariant says of the state before the step, number by number.  *)
<1>5. /\ \A q, r \in Pending : q.seq < r.seq => q.chunk < r.chunk
      /\ \A i \in 1..old, q \in Pending : q.seq > i => q.chunk > written[i]
      /\ first <= sendPacketSequence /\ sendPacketSequence <= read + 1
      /\ \A q \in Pending : q.seq < sendPacketSequence /\ q.chunk <= read
      /\ \A i \in 1..old : written[i] <= read
      /\ skipped = {} => \A q \in Pending : q.chunk = q.seq
      /\ \A i, j \in 1..old : i < j => written[i] < written[j]
      /\ skipped = {} => \A i \in 1..old : written[i] = i
  BY DEF OrderInv, PacketsOrdered, WrittenBelow, SentOnly, NumbersAreChunks,
         InOrder, NoHole
<1> HIDE DEF first, next, old, new
(* A chunk is old, or it was pending under the number it is written at. *)
<1>a. ASSUME NEW j \in 1..new
      PROVE  \/ j \in 1..old /\ written'[j] = written[j]
             \/ j > old /\ \E q \in Pending : q.seq = j /\ written'[j] = q.chunk
  <2>1. CASE j <= old
    BY <2>1, <1>2, <1>3
  <2>2. CASE j > old
    <3> DEFINE i == j - old
    <3>1. i \in 1..n /\ old + i = j /\ first + i - 1 = j
      BY <2>2, <1>2, <1>3
    <3> HIDE DEF i
    <3>2. PICK q \in receivedDataBySequence \cup {p} :
              q.seq = first + i - 1 /\ written'[old + i] = q.chunk
      BY <1>2, <3>1
    <3> QED
      BY <1>1, <2>2, <3>1, <3>2
  <2> QED
    BY <1>3, <2>1, <2>2
<1>6. PacketsOrdered'
  BY <1>5 DEF PacketsOrdered
<1>7. WrittenBelow'
  <2>1. \A j \in 1..new, r \in Pending : r.seq > j => r.chunk > written'[j]
    <3> SUFFICES ASSUME NEW j \in 1..new, NEW r \in Pending, r.seq > j
                 PROVE  r.chunk > written'[j]
      OBVIOUS
    <3>1. CASE j \in 1..old /\ written'[j] = written[j]
      BY <3>1, <1>5
    <3>2. CASE \E q \in Pending : q.seq = j /\ written'[j] = q.chunk
      BY <3>2, <1>4, <1>5
    <3> QED
      BY <1>a, <3>1, <3>2
  <2> QED
    BY <2>1, <1>3 DEF WrittenBelow, new, next
<1>8. InOrder'
  <2>1. \A i, j \in 1..new : i < j => written'[i] < written'[j]
    <3> SUFFICES ASSUME NEW i \in 1..new, NEW j \in 1..new, i < j
                 PROVE  written'[i] < written'[j]
      OBVIOUS
    <3>1. CASE j \in 1..old /\ written'[j] = written[j]
      <4>1. i \in 1..old /\ written'[i] = written[i]
        BY <3>1, <1>2, <1>3
      <4> QED
        BY <3>1, <4>1, <1>5
    <3>2. CASE \E q \in Pending : q.seq = j /\ written'[j] = q.chunk
      <4>1. CASE i \in 1..old /\ written'[i] = written[i]
        BY <3>2, <4>1, <1>4, <1>5
      <4>2. CASE \E q \in Pending : q.seq = i /\ written'[i] = q.chunk
        BY <3>2, <4>2, <1>4, <1>5
      <4> QED
        BY <1>a, <4>1, <4>2
    <3> QED
      BY <1>a, <3>1, <3>2
  <2> QED
    BY <2>1 DEF InOrder, new
<1>9. SentOnly'
  <2>1. next <= sendPacketSequence
    <3>1. CASE n = 0
      BY <3>1, <1>2, <1>3, <1>5
    <3>2. CASE n > 0
      <4>1. new \in 1..new /\ new > old
        BY <3>2, <1>2, <1>3
      <4>2. PICK q \in Pending : q.seq = new
        BY <4>1, <1>3, <1>a
      <4> QED
        BY <4>2, <1>3, <1>4, <1>5
    <3> QED
      BY <1>3, <3>1, <3>2
  <2>2. \A j \in 1..new : written'[j] <= read
    BY <1>5, <1>a
  <2> QED
    BY <1>5, <2>1, <2>2 DEF SentOnly, sender, new, next
<1>10. NumbersAreChunks'
  BY DEF OrderInv, NumbersAreChunks, sender
<1>11. NoHole'
  <2>1. skipped = {} => \A j \in 1..new : written'[j] = j
    BY <1>5, <1>a
  <2> QED
    BY <2>1 DEF NoHole, sender, new
<1> QED
  BY <1>6, <1>7, <1>8, <1>9, <1>10, <1>11 DEF OrderInv

(* A step that writes nothing and only takes packets away keeps the order.  *)
LEMMA FewerPending ==
    ASSUME OrderInv, TypeOK', Pending' \subseteq Pending,
           UNCHANGED <<sender, written, receivedPacketSequence>>
    PROVE  OrderInv'
BY DEF OrderInv, PacketsOrdered, WrittenBelow, SentOnly, NumbersAreChunks,
       InOrder, NoHole, sender

-----------------------------------------------------------------------------
(* Type correctness *)

LEMMA WriteType ==
    ASSUME TypeOK, NEW p \in Packet, Write(p)
    PROVE  /\ receivedPacketSequence' \in 1..(MaxChunks + 1)
           /\ receivedDataBySequence' \subseteq Packet
           /\ written' \in Seq(Chunk)
           /\ closing' \in BOOLEAN
BY WriteEffect, PacketStreamAssumption DEF TypeOK, PacketStreamAssumption

LEMMA HeadTail ==
    ASSUME TypeOK, Flushing
    PROVE  /\ Head(connectionDataBuffer) \in Buffered
           /\ Head(connectionDataBuffer) \in Packet
           /\ Tail(connectionDataBuffer) \in Seq(Packet)
           /\ {Tail(connectionDataBuffer)[i] : i \in 1..Len(Tail(connectionDataBuffer))}
                 \subseteq Buffered
<1>1. connectionDataBuffer \in Seq(Packet) /\ connectionDataBuffer # <<>>
  BY DEF TypeOK, Flushing
<1> QED
  BY <1>1, HeadTailProperties, ElementOfSeq, LenProperties DEF Buffered

(* TypeOK is not inductive alone: that the sequence number stays in range   *)
(* needs that there are no more numbers used than chunks read.              *)
NumbersUsed == sendPacketSequence <= read + 1

LEMMA TypeInit == Init => TypeOK /\ NumbersUsed
<1>1. <<>> \in Seq(Packet) /\ <<>> \in Seq(Chunk)
  BY EmptySeq
<1>2. 0 \in 0..MaxChunks /\ 1 \in 1..(MaxChunks + 1) /\ 1 <= 0 + 1
  BY PacketStreamAssumption DEF PacketStreamAssumption
<1> QED
  BY <1>1, <1>2 DEF Init, TypeOK, NumbersUsed

LEMMA NumbersStep == TypeOK /\ NumbersUsed /\ [Next]_vars => NumbersUsed'
<1> SUFFICES ASSUME TypeOK, NumbersUsed, [Next]_vars PROVE NumbersUsed'
  OBVIOUS
<1>1. read \in Nat /\ sendPacketSequence \in Nat
  BY PacketStreamAssumption DEF TypeOK, PacketStreamAssumption
<1>2. CASE DataReceived \/ DataReceivedNoRemote \/ DataReceivedRaises
  BY <1>1, <1>2 DEF DataReceived, DataReceivedNoRemote, DataReceivedRaises, NumbersUsed
<1>3. CASE UNCHANGED sender
  BY <1>3 DEF sender, NumbersUsed
<1>4. [Next]_vars => \/ DataReceived \/ DataReceivedNoRemote \/ DataReceivedRaises
                     \/ UNCHANGED sender
  BY DEF Next, vars, ProcessFromVortex, LocalConnectionMade, FlushOne,
         ConnectFailed, CloseConnection, ConnectionLost
<1> QED
  BY <1>2, <1>3, <1>4

LEMMA TypeStep == TypeOK /\ NumbersUsed /\ [Next]_vars => TypeOK'
<1> SUFFICES ASSUME TypeOK, NumbersUsed, [Next]_vars PROVE TypeOK'
  OBVIOUS
<1>a. /\ read \in 0..MaxChunks /\ sendPacketSequence \in 1..(MaxChunks + 1)
      /\ MaxChunks \in Nat /\ Copies \in Nat
      /\ read < MaxChunks => sendPacketSequence \in 1..MaxChunks
  BY PacketStreamAssumption DEF TypeOK, NumbersUsed, PacketStreamAssumption
<1>1. CASE DataReceived
  BY <1>1, <1>a DEF DataReceived, TypeOK, protocol, Packet, Chunk
<1>2. CASE DataReceivedNoRemote
  BY <1>2, <1>a DEF DataReceivedNoRemote, TypeOK, protocol
<1>3. CASE DataReceivedRaises
  BY <1>3, <1>a DEF DataReceivedRaises, TypeOK, protocol, Chunk
<1>4. ASSUME NEW p \in Packet, NEW copy \in 1..Copies, ProcessFromVortex(p, copy)
      PROVE  TypeOK'
  <2>1. inFlight' \subseteq Packet \X (1..Copies) /\ UNCHANGED <<sender, connection>>
    BY <1>4 DEF ProcessFromVortex, TypeOK
  <2>2. CASE connection = "open"
    BY <1>4, <2>1, <2>2, WriteType DEF ProcessFromVortex, TypeOK, sender
  <2>3. CASE connection # "open"
    <3>1. Append(connectionDataBuffer, p) \in Seq(Packet)
      BY DEF TypeOK
    <3> QED
      BY <1>4, <2>1, <2>3, <3>1 DEF ProcessFromVortex, TypeOK, sender, protocol
  <2> QED
    BY <2>2, <2>3
<1>5. CASE LocalConnectionMade
  BY <1>5 DEF LocalConnectionMade, TypeOK, sender, protocol
<1>6. CASE FlushOne
  BY <1>6, HeadTail, WriteType DEF FlushOne, TypeOK, sender
<1>7. CASE ConnectFailed
  BY <1>7 DEF ConnectFailed, TypeOK, sender, protocol
<1>8. CASE CloseConnection
  BY <1>8 DEF CloseConnection, TypeOK, sender
<1>9. CASE ConnectionLost
  BY <1>9 DEF ConnectionLost, TypeOK, sender, protocol
<1>10. CASE UNCHANGED vars
  BY <1>10 DEF vars, TypeOK, sender, protocol
<1> QED
  BY <1>1, <1>2, <1>3, <1>4, <1>5, <1>6, <1>7, <1>8, <1>9, <1>10 DEF Next

(* The stream's state keeps its types: in particular no sequence number     *)
(* beyond the chunks read is ever used or expected.                         *)
THEOREM TypeCorrect == Spec => []TypeOK
BY TypeInit, TypeStep, NumbersStep, PTL DEF Spec

-----------------------------------------------------------------------------
(* The invariant is kept, action by action *)

(* A chunk that is read gets a number above all numbers used before, and is *)
(* itself beyond all chunks read before.                                    *)
LEMMA NewPacket ==
    ASSUME OrderInv, TypeOK', DataReceived
    PROVE  OrderInv'
<1> DEFINE new == [seq |-> sendPacketSequence, chunk |-> read + 1]
<1>1. Pending' \subseteq Pending \cup {new}
  BY DEF DataReceived, Pending, Flying, Buffered, protocol
<1>2. /\ Pending \subseteq Packet /\ MaxChunks \in Nat /\ read \in Nat
      /\ sendPacketSequence \in Nat
  BY PendingType, PacketStreamAssumption DEF OrderInv, TypeOK, PacketStreamAssumption
<1>3. \A q \in Pending : q.seq \in Nat /\ q.chunk \in Nat
  BY <1>2 DEF Packet, Chunk
<1>4. /\ written \in Seq(Chunk) /\ \A i \in 1..Len(written) : written[i] \in Nat
      /\ Len(written) \in Nat
  <2>1. Chunk \subseteq Nat /\ written \in Seq(Chunk)
    BY <1>2 DEF Chunk, OrderInv, TypeOK
  <2> QED
    BY <2>1, ElementOfSeq, LenProperties
<1>5. /\ read' = read + 1 /\ sendPacketSequence' = sendPacketSequence + 1
      /\ UNCHANGED <<skipped, protocol>>
  BY DEF DataReceived
<1>6. PacketsOrdered'
  BY <1>1, <1>2, <1>3 DEF OrderInv, PacketsOrdered, SentOnly
<1>7. WrittenBelow'
  <2>1. \A i \in 1..Len(written), r \in Pending' : r.seq > i => r.chunk > written[i]
    BY <1>1, <1>2, <1>4 DEF OrderInv, WrittenBelow, SentOnly
  <2> QED
    BY <1>5, <2>1 DEF OrderInv, WrittenBelow, protocol
<1>8. SentOnly'
  <2>1. receivedPacketSequence \in Nat
    BY <1>2 DEF OrderInv, TypeOK
  <2> QED
    BY <1>1, <1>2, <1>3, <1>4, <1>5, <2>1 DEF OrderInv, SentOnly, protocol
<1>9. NumbersAreChunks'
  BY <1>1, <1>2, <1>5 DEF OrderInv, NumbersAreChunks
<1>10. InOrder' /\ NoHole'
  BY <1>5 DEF OrderInv, InOrder, NoHole, protocol
<1> QED
  BY <1>6, <1>7, <1>8, <1>9, <1>10 DEF OrderInv

(* A chunk that is not sent, with or without using a number up. *)
LEMMA NoPacket ==
    ASSUME OrderInv, TypeOK', DataReceivedNoRemote \/ DataReceivedRaises
    PROVE  OrderInv'
<1>1. Pending' = Pending
  BY DEF DataReceivedNoRemote, DataReceivedRaises, Pending, Flying, Buffered, protocol
<1>2. /\ MaxChunks \in Nat /\ read \in Nat /\ sendPacketSequence \in Nat
      /\ receivedPacketSequence \in Nat /\ Pending \subseteq Packet
  BY PendingType, PacketStreamAssumption DEF OrderInv, TypeOK, PacketStreamAssumption
<1>3. \A q \in Pending : q.seq \in Nat /\ q.chunk \in Nat
  BY <1>2 DEF Packet, Chunk
<1>4. \A i \in 1..Len(written) : written[i] \in Nat
  <2>1. Chunk \subseteq Nat /\ written \in Seq(Chunk)
    BY <1>2 DEF Chunk, OrderInv, TypeOK
  <2> QED
    BY <2>1, ElementOfSeq
<1>5. /\ read' = read + 1
      /\ \/ sendPacketSequence' = sendPacketSequence + 1 /\ skipped' = skipped
         \/ sendPacketSequence' = sendPacketSequence /\ skipped' # {}
      /\ UNCHANGED protocol
  BY DEF DataReceivedNoRemote, DataReceivedRaises
<1>6. PacketsOrdered' /\ WrittenBelow' /\ InOrder'
  BY <1>1, <1>5 DEF OrderInv, PacketsOrdered, WrittenBelow, InOrder, protocol
<1>7. SentOnly'
  BY <1>1, <1>2, <1>3, <1>4, <1>5 DEF OrderInv, SentOnly, protocol
<1>8. NumbersAreChunks'
  BY <1>1, <1>2, <1>5 DEF OrderInv, NumbersAreChunks
<1>9. NoHole'
  <2>1. skipped' = {} => skipped = {}
    BY <1>5
  <2> QED
    BY <1>5, <2>1 DEF OrderInv, NoHole, protocol
<1> QED
  BY <1>6, <1>7, <1>8, <1>9 DEF OrderInv

LEMMA PacketProcessed ==
    ASSUME OrderInv, TypeOK', NEW p \in Packet, NEW copy \in 1..Copies,
           ProcessFromVortex(p, copy)
    PROVE  OrderInv'
<1>1. p \in Flying /\ p \in Pending
  BY DEF ProcessFromVortex, Flying, Pending
<1>2. Flying' \subseteq Flying /\ UNCHANGED sender
  BY DEF ProcessFromVortex, Flying
<1>3. CASE connection = "open"
  <2>1. Write(p) /\ UNCHANGED connectionDataBuffer
    BY <1>3 DEF ProcessFromVortex
  <2>2. receivedDataBySequence' \subseteq receivedDataBySequence \cup {p}
    BY <2>1, WriteEffect DEF OrderInv
  <2>3. Pending' \subseteq Pending
    BY <1>1, <1>2, <2>1, <2>2 DEF Pending, Buffered
  <2> QED
    BY <1>1, <1>2, <2>1, <2>3, WriteKeepsOrder
<1>4. CASE connection # "open"
  <2>1. connectionDataBuffer' = Append(connectionDataBuffer, p) /\ UNCHANGED protocol
    BY <1>4 DEF ProcessFromVortex
  <2>2. Buffered' \subseteq Buffered \cup {p}
    BY <2>1 DEF Buffered, OrderInv, TypeOK
  <2>3. Pending' \subseteq Pending
    BY <1>1, <1>2, <2>1, <2>2 DEF Pending, protocol
  <2> QED
    BY <1>2, <2>1, <2>3, FewerPending DEF protocol
<1> QED
  BY <1>3, <1>4

LEMMA Flushed ==
    ASSUME OrderInv, TypeOK', FlushOne
    PROVE  OrderInv'
<1> DEFINE p == Head(connectionDataBuffer)
<1>1. /\ Write(p) /\ connectionDataBuffer' = Tail(connectionDataBuffer)
      /\ UNCHANGED <<sender, inFlight>>
      /\ Flushing
  BY DEF FlushOne
<1>2. p \in Buffered /\ p \in Packet /\ Buffered' \subseteq Buffered
  BY <1>1, HeadTail DEF OrderInv, Buffered
<1> HIDE DEF p
<1>3. receivedDataBySequence' \subseteq receivedDataBySequence \cup {p}
  BY <1>1, <1>2, WriteEffect DEF OrderInv
<1>4. p \in Pending /\ Pending' \subseteq Pending
  BY <1>1, <1>2, <1>3 DEF Pending, Flying
<1> QED
  BY <1>1, <1>4, WriteKeepsOrder

LEMMA EmptyBuffer ==
    ASSUME OrderInv, TypeOK', connectionDataBuffer' = <<>>,
           UNCHANGED <<sender, inFlight, receivedPacketSequence,
                       receivedDataBySequence, written>>
    PROVE  OrderInv'
<1>1. Buffered' = {}
  BY EmptySeq DEF Buffered
<1>2. Pending' \subseteq Pending
  BY <1>1 DEF Pending, Flying
<1> QED
  BY <1>2, FewerPending

LEMMA OrderStep == OrderInv /\ [Next]_vars => OrderInv'
<1> SUFFICES ASSUME OrderInv, [Next]_vars PROVE OrderInv'
  OBVIOUS
<1>a. TypeOK'
  BY TypeStep DEF OrderInv, SentOnly, NumbersUsed
<1>1. CASE DataReceived
  BY <1>a, <1>1, NewPacket
<1>2. CASE DataReceivedNoRemote \/ DataReceivedRaises
  BY <1>a, <1>2, NoPacket
<1>3. ASSUME NEW p \in Packet, NEW copy \in 1..Copies, ProcessFromVortex(p, copy)
      PROVE  OrderInv'
  BY <1>a, <1>3, PacketProcessed
<1>4. CASE LocalConnectionMade
  <2>1. Pending' = Pending /\ UNCHANGED <<sender, protocol>>
    BY <1>4 DEF LocalConnectionMade, Pending, Flying, Buffered, protocol
  <2> QED
    BY <1>a, <2>1, FewerPending DEF protocol
<1>5. CASE FlushOne
  BY <1>a, <1>5, Flushed
<1>6. CASE ConnectFailed
  BY <1>a, <1>6, EmptyBuffer DEF ConnectFailed, protocol
<1>7. CASE CloseConnection
  BY <1>a, <1>7, EmptyBuffer DEF CloseConnection
<1>8. CASE ConnectionLost
  BY <1>a, <1>8, EmptyBuffer DEF ConnectionLost, protocol
<1>9. CASE UNCHANGED vars
  <2>1. Pending' = Pending /\ UNCHANGED <<sender, protocol>>
    BY <1>9 DEF vars, Pending, Flying, Buffered, protocol
  <2> QED
    BY <1>a, <2>1, FewerPending DEF protocol
<1> QED
  BY <1>1, <1>2, <1>3, <1>4, <1>5, <1>6, <1>7, <1>8, <1>9 DEF Next

THEOREM OrderInvariant == Spec => []OrderInv
<1>1. Init => TypeOK /\ written = <<>> /\ Pending = {}
  BY TypeInit, EmptySeq DEF Init, Pending, Flying, Buffered
<1>2. Init => OrderInv
  BY <1>1, EmptySeq
  DEF Init, OrderInv, PacketsOrdered, WrittenBelow, SentOnly, NumbersAreChunks,
      InOrder, NoHole
<1> QED
  BY <1>2, OrderStep, PTL DEF Spec

(* The receiver's TCP connection gets the chunks in the order they were     *)
(* read, each at most once, however the transport reorders packets and      *)
(* however many times each of them is processed.                            *)
THEOREM DeliveryInOrder == Spec => []InOrder
<1>1. OrderInv => InOrder
  BY DEF OrderInv
<1> QED
  BY <1>1, OrderInvariant, PTL

(* Unless sending a chunk raised, what the receiver's TCP connection got is *)
(* an unbroken prefix of what the sender's TCP connection gave.             *)
THEOREM DeliveryWithoutHole == Spec => []NoHole
<1>1. OrderInv => NoHole
  BY DEF OrderInv
<1> QED
  BY <1>1, OrderInvariant, PTL
-----------------------------------------------------------------------------
(* With each packet processed once, a number is under way, buffered or      *)
(* stashed in one place only, and no such number has been passed: what is   *)
(* in the stash then lies beyond the number that is missing.                *)

(* The packet r can come after everything processed so far. *)
Ahead(r) ==
    /\ r.seq >= receivedPacketSequence
    /\ \A q \in receivedDataBySequence : q.seq # r.seq

FlyingAhead ==
    /\ \A x \in inFlight : Ahead(x[1])
    /\ \A x, y \in inFlight : x[1].seq = y[1].seq => x = y
    /\ \A x \in inFlight, i \in 1..Len(connectionDataBuffer) :
          x[1].seq # connectionDataBuffer[i].seq

BufferAhead ==
    /\ \A i \in 1..Len(connectionDataBuffer) : Ahead(connectionDataBuffer[i])
    /\ \A i, j \in 1..Len(connectionDataBuffer) :
          connectionDataBuffer[i].seq = connectionDataBuffer[j].seq => i = j

BeyondGap == \A q \in receivedDataBySequence : q.seq > receivedPacketSequence

OnceInv == FlyingAhead /\ BufferAhead /\ BeyondGap

(* write() of a packet that is ahead leaves the stash beyond the new gap,   *)
(* and every other packet that was ahead, ahead.                            *)
LEMMA WriteLeavesAhead ==
    ASSUME TypeOK, BeyondGap, NEW p \in Packet, Ahead(p), Write(p)
    PROVE  /\ BeyondGap'
           /\ \A r \in Packet : Ahead(r) /\ r.seq # p.seq => Ahead(r)'
<1> DEFINE first == receivedPacketSequence
<1>1. PICK missing \in first..(MaxChunks + 1) :
        /\ \A seq \in first..(missing - 1) : Stashed(WithPacket(p), seq)
        /\ ~Stashed(WithPacket(p), missing)
        /\ receivedPacketSequence' = missing
        /\ receivedDataBySequence' =
              {q \in WithPacket(p) : q.seq \notin first..(missing - 1)}
  BY DEF Write
<1>2. /\ first \in Nat /\ missing \in Nat /\ first <= missing
      /\ WithPacket(p) \subseteq receivedDataBySequence \cup {p}
      /\ receivedDataBySequence \subseteq Packet
      /\ \A q \in Packet : q.seq \in Nat
  BY <1>1, PacketStreamAssumption DEF TypeOK, WithPacket, PacketStreamAssumption, Packet
<1>3. ASSUME NEW q \in receivedDataBySequence' PROVE q.seq > missing
  <2>1. q \in WithPacket(p) /\ q.seq \notin first..(missing - 1) /\ q.seq # missing
    BY <1>1, <1>3 DEF Stashed
  <2>2. q.seq >= first /\ q.seq \in Nat
    BY <1>2, <2>1 DEF Ahead, BeyondGap
  <2> QED
    BY <1>2, <2>1, <2>2
<1>4. ASSUME NEW r \in Packet, Ahead(r), r.seq # p.seq PROVE Ahead(r)'
  <2>1. \A q \in WithPacket(p) : q.seq # r.seq
    BY <1>2, <1>4 DEF Ahead
  <2>2. r.seq \notin first..(missing - 1)
    BY <1>1, <2>1 DEF Stashed
  <2>3. r.seq >= missing
    BY <1>2, <1>4, <2>2 DEF Ahead
  <2>4. \A q \in receivedDataBySequence' : q.seq # r.seq
    BY <1>1, <2>1
  <2> QED
    BY <1>1, <2>3, <2>4 DEF Ahead
<1> QED
  BY <1>1, <1>3, <1>4 DEF BeyondGap

(* What is under way or buffered are packets. *)
LEMMA QueuedType ==
    ASSUME TypeOK
    PROVE  /\ \A x \in inFlight : x[1] \in Packet
           /\ \A i \in 1..Len(connectionDataBuffer) : connectionDataBuffer[i] \in Packet
           /\ Len(connectionDataBuffer) \in Nat
<1>1. connectionDataBuffer \in Seq(Packet)
  BY DEF TypeOK
<1> QED
  BY <1>1, ElementOfSeq, LenProperties DEF TypeOK

(* The new packet's number is larger than all under way, buffered, stashed. *)
LEMMA OnceSent ==
    ASSUME Copies = 1, OrderInv, OnceInv, DataReceived
    PROVE  OnceInv'
<1>a. PICK new : new = [seq |-> sendPacketSequence, chunk |-> read + 1]
  OBVIOUS
<1>1. /\ inFlight' = inFlight \cup {<<new, 1>>}
      /\ UNCHANGED <<connectionDataBuffer, protocol>>
  <2>1. {new} \X (1..Copies) = {<<new, 1>>}
    OBVIOUS
  <2> QED
    BY <1>a, <2>1 DEF DataReceived
<1>2. \A x \in inFlight : x[1] \in Pending
  BY DEF Pending, Flying
<1>3. \A i \in 1..Len(connectionDataBuffer) : connectionDataBuffer[i] \in Pending
  BY DEF Pending, Buffered
<1>4. /\ \A q \in Pending : q.seq \in Nat /\ q.seq < sendPacketSequence
      /\ sendPacketSequence \in Nat /\ receivedPacketSequence \in Nat
      /\ receivedPacketSequence <= sendPacketSequence
      /\ receivedDataBySequence \subseteq Pending
  BY PendingType, PacketStreamAssumption
  DEF OrderInv, SentOnly, TypeOK, PacketStreamAssumption, Packet, Pending
<1>5. \A r : Ahead(r) => Ahead(r)'
  BY <1>1 DEF Ahead, protocol
<1>6. Ahead(new)'
  BY <1>a, <1>1, <1>4 DEF Ahead, protocol
<1>7. FlyingAhead'
  <2>1. /\ \A x \in inFlight : x[1].seq # new.seq
        /\ \A i \in 1..Len(connectionDataBuffer) : connectionDataBuffer[i].seq # new.seq
    BY <1>a, <1>2, <1>3, <1>4
  <2>2. \A x \in inFlight' : x \in inFlight \/ (x = <<new, 1>> /\ x[1] = new)
    BY <1>1
  <2> QED
    BY <1>1, <1>5, <1>6, <2>1, <2>2 DEF OnceInv, FlyingAhead
<1>8. BufferAhead' /\ BeyondGap'
  BY <1>1, <1>5 DEF OnceInv, BufferAhead, BeyondGap, protocol
<1> QED
  BY <1>7, <1>8 DEF OnceInv

LEMMA OnceProcessed ==
    ASSUME Copies = 1, TypeOK, OnceInv, NEW p \in Packet, NEW copy \in 1..Copies,
           ProcessFromVortex(p, copy)
    PROVE  OnceInv'
<1>1. /\ <<p, copy>> \in inFlight
      /\ inFlight' = inFlight \ {<<p, copy>>}
      /\ Ahead(p)
      /\ \A x \in inFlight' : x \in inFlight /\ x[1].seq # p.seq
      /\ \A i \in 1..Len(connectionDataBuffer) : connectionDataBuffer[i].seq # p.seq
  BY DEF ProcessFromVortex, OnceInv, FlyingAhead
<1>2. CASE connection = "open"
  <2>1. Write(p) /\ UNCHANGED connectionDataBuffer
    BY <1>2 DEF ProcessFromVortex
  <2>2. BeyondGap' /\ \A r \in Packet : Ahead(r) /\ r.seq # p.seq => Ahead(r)'
    BY <1>1, <2>1, WriteLeavesAhead DEF OnceInv
  <2>3. FlyingAhead'
    BY <1>1, <2>1, <2>2, QueuedType DEF OnceInv, FlyingAhead
  <2>4. BufferAhead'
    BY <1>1, <2>1, <2>2, QueuedType DEF OnceInv, BufferAhead
  <2> QED
    BY <2>2, <2>3, <2>4 DEF OnceInv
<1>3. CASE connection # "open"
  <2>1. /\ connectionDataBuffer' = Append(connectionDataBuffer, p)
        /\ UNCHANGED protocol
    BY <1>3 DEF ProcessFromVortex
  <2>2. /\ connectionDataBuffer \in Seq(Packet)
        /\ Len(connectionDataBuffer) \in Nat
    BY QueuedType DEF TypeOK
  <2>3. /\ Len(connectionDataBuffer') = Len(connectionDataBuffer) + 1
        /\ \A i \in 1..Len(connectionDataBuffer) :
              connectionDataBuffer'[i] = connectionDataBuffer[i]
        /\ connectionDataBuffer'[Len(connectionDataBuffer) + 1] = p
    BY <2>1, <2>2, AppendProperties
  <2>4. \A r : Ahead(r) => Ahead(r)'
    BY <2>1 DEF Ahead, protocol
  <2>5. \A i \in 1..Len(connectionDataBuffer') :
            \/ i \in 1..Len(connectionDataBuffer)
                  /\ connectionDataBuffer'[i] = connectionDataBuffer[i]
            \/ i = Len(connectionDataBuffer) + 1 /\ connectionDataBuffer'[i] = p
    BY <2>2, <2>3
  <2>6. FlyingAhead'
    BY <1>1, <2>4, <2>5 DEF OnceInv, FlyingAhead
  <2>7. BufferAhead'
    BY <1>1, <2>4, <2>5 DEF OnceInv, BufferAhead
  <2>8. BeyondGap'
    BY <2>1 DEF OnceInv, BeyondGap, protocol
  <2> QED
    BY <2>6, <2>7, <2>8 DEF OnceInv
<1> QED
  BY <1>2, <1>3

LEMMA OnceFlushed ==
    ASSUME TypeOK, OnceInv, FlushOne
    PROVE  OnceInv'
<1> DEFINE p == Head(connectionDataBuffer)
<1>1. /\ Write(p) /\ connectionDataBuffer' = Tail(connectionDataBuffer)
      /\ UNCHANGED inFlight
      /\ connectionDataBuffer \in Seq(Packet) /\ connectionDataBuffer # <<>>
  BY DEF FlushOne, Flushing, TypeOK
<1>2. /\ Len(connectionDataBuffer) \in Nat \ {0} /\ p = connectionDataBuffer[1]
      /\ Len(connectionDataBuffer') = Len(connectionDataBuffer) - 1
      /\ \A i \in 1..Len(connectionDataBuffer') :
            connectionDataBuffer'[i] = connectionDataBuffer[i + 1]
      /\ p \in Packet
  BY <1>1, HeadTailProperties, LenProperties, EmptySeq, ElementOfSeq
<1> HIDE DEF p
<1>3. Ahead(p)
  BY <1>2 DEF OnceInv, BufferAhead
<1>4. BeyondGap' /\ \A r \in Packet : Ahead(r) /\ r.seq # p.seq => Ahead(r)'
  BY <1>1, <1>2, <1>3, WriteLeavesAhead DEF OnceInv
<1>5. \A i \in 1..Len(connectionDataBuffer') :
          /\ i + 1 \in 2..Len(connectionDataBuffer)
          /\ connectionDataBuffer[i + 1].seq # p.seq
  BY <1>2 DEF OnceInv, BufferAhead
<1>6. FlyingAhead'
  BY <1>1, <1>2, <1>4, <1>5, QueuedType DEF OnceInv, FlyingAhead
<1>7. BufferAhead'
  BY <1>1, <1>2, <1>4, <1>5, QueuedType DEF OnceInv, BufferAhead
<1> QED
  BY <1>4, <1>6, <1>7 DEF OnceInv

(* A step of the connection's life: the buffer stays, or is emptied.        *)
LEMMA OnceKept ==
    ASSUME OnceInv, connectionDataBuffer' \in {connectionDataBuffer, <<>>},
           UNCHANGED <<inFlight, receivedPacketSequence, receivedDataBySequence>>
    PROVE  OnceInv'
<1>1. \A r : Ahead(r) => Ahead(r)'
  BY DEF Ahead
<1>2. \A i \in 1..Len(connectionDataBuffer') :
          i \in 1..Len(connectionDataBuffer)
             /\ connectionDataBuffer'[i] = connectionDataBuffer[i]
  BY EmptySeq
<1> QED
  BY <1>1, <1>2 DEF OnceInv, FlyingAhead, BufferAhead, BeyondGap

LEMMA OnceStep ==
    ASSUME Copies = 1
    PROVE  OrderInv /\ OnceInv /\ [Next]_vars => OnceInv'
<1> SUFFICES ASSUME OrderInv, OnceInv, [Next]_vars PROVE OnceInv'
  OBVIOUS
<1>1. CASE DataReceived
  BY <1>1, OnceSent
<1>2. CASE DataReceivedNoRemote \/ DataReceivedRaises
  BY <1>2, OnceKept DEF DataReceivedNoRemote, DataReceivedRaises, protocol
<1>3. ASSUME NEW p \in Packet, NEW copy \in 1..Copies, ProcessFromVortex(p, copy)
      PROVE  OnceInv'
  BY <1>3, OnceProcessed DEF OrderInv
<1>4. CASE LocalConnectionMade
  BY <1>4, OnceKept DEF LocalConnectionMade, protocol
<1>5. CASE FlushOne
  BY <1>5, OnceFlushed DEF OrderInv
<1>6. CASE ConnectFailed \/ CloseConnection \/ ConnectionLost
  BY <1>6, OnceKept DEF ConnectFailed, CloseConnection, ConnectionLost, protocol
<1>7. CASE UNCHANGED vars
  BY <1>7, OnceKept DEF vars, protocol
<1> QED
  BY <1>1, <1>2, <1>3, <1>4, <1>5, <1>6, <1>7 DEF Next

(* A packet is kept back only while an earlier one is missing, as long as   *)
(* each is processed once: nothing stays in the stash for good and counts   *)
(* towards the limit.                                                       *)
THEOREM KeptBackForGap == Spec => []StashBeyondGap
<1>1. CASE Copies = 1
  <2>1. Init => OnceInv
    BY EmptySeq DEF Init, OnceInv, FlyingAhead, BufferAhead, BeyondGap
  <2>2. OrderInv /\ OnceInv /\ [Next]_vars => OnceInv'
    BY <1>1, OnceStep
  <2>3. OnceInv => StashBeyondGap
    BY DEF OnceInv, BeyondGap, StashBeyondGap
  <2> QED
    BY <2>1, <2>2, <2>3, OrderInvariant, PTL DEF Spec
<1>2. CASE Copies # 1
  <2>1. StashBeyondGap
    BY <1>2 DEF StashBeyondGap
  <2> QED
    BY <2>1, PTL
<1> QED
  BY <1>1, <1>2

-----------------------------------------------------------------------------
(* What is left of GapClosesConnection and DeliveredOrGone once liveness    *)
(* is set aside: a full stash has closed the connection, and what has not   *)
(* been written is still to come.                                           *)

FullStashCloses == Cardinality(receivedDataBySequence) >= StashLimit => closing

(* Every number used and not passed yet has its packet under way, buffered  *)
(* or stashed, until the connection goes.                                   *)
NothingVanishes ==
    connection \in {"pending", "open"} /\ dropped = {} /\ Copies > 0 =>
        \A n \in receivedPacketSequence..(sendPacketSequence - 1) :
            \E p \in Pending : p.seq = n

NextIsMissing == ~Stashed(receivedDataBySequence, receivedPacketSequence)

(* With nothing under way or buffered, all that was read is written.        *)
AllDelivered ==
    connection = "open" /\ inFlight = {} /\ connectionDataBuffer = <<>>
        /\ skipped = {} /\ dropped = {} /\ Copies > 0 => Len(written) = read

KeptInv ==
    /\ IsFiniteSet(receivedDataBySequence) /\ FullStashCloses
    /\ NothingVanishes /\ NextIsMissing

(* write() adds one packet to the stash at most, and loses no number it has *)
(* not passed.                                                              *)
LEMMA WriteKeeps ==
    ASSUME TypeOK, NEW p \in Packet, Write(p)
    PROVE  /\ receivedDataBySequence' \subseteq receivedDataBySequence \cup {p}
           /\ NextIsMissing'
           /\ \A n \in Nat : n >= receivedPacketSequence'
                 /\ (\E q \in receivedDataBySequence \cup {p} : q.seq = n)
                     => \E q \in receivedDataBySequence' : q.seq = n
           /\ closing' = (closing \/ Cardinality(receivedDataBySequence') = StashLimit)
           /\ receivedPacketSequence' \in Nat
           /\ receivedPacketSequence' >= receivedPacketSequence
<1> DEFINE first == receivedPacketSequence
<1>1. PICK missing \in first..(MaxChunks + 1) :
        /\ ~Stashed(WithPacket(p), missing)
        /\ receivedPacketSequence' = missing
        /\ receivedDataBySequence' =
              {q \in WithPacket(p) : q.seq \notin first..(missing - 1)}
        /\ closing' = (closing \/ Cardinality(receivedDataBySequence') = StashLimit)
  BY DEF Write
<1>2. first \in Nat /\ missing \in Nat /\ first <= missing
  BY <1>1, PacketStreamAssumption DEF TypeOK, PacketStreamAssumption
<1>3. receivedDataBySequence' \subseteq receivedDataBySequence \cup {p}
  BY <1>1 DEF WithPacket
<1>4. NextIsMissing'
  BY <1>1 DEF NextIsMissing, Stashed
<1>5. ASSUME NEW n \in Nat, n >= missing,
             NEW q \in receivedDataBySequence \cup {p}, q.seq = n
      PROVE  \E r \in receivedDataBySequence' : r.seq = n
  <2>1. n \notin first..(missing - 1)
    BY <1>2, <1>5
  <2>2. CASE q.seq = p.seq
    <3>1. p \in WithPacket(p)
      BY DEF WithPacket
    <3> QED
      BY <1>1, <1>5, <2>1, <2>2, <3>1
  <2>3. CASE q.seq # p.seq
    <3>1. q \in WithPacket(p)
      BY <2>3 DEF WithPacket
    <3> QED
      BY <1>1, <1>5, <2>1, <3>1
  <2> QED
    BY <2>2, <2>3
<1> QED
  BY <1>1, <1>2, <1>3, <1>4, <1>5

(* A packet that is written was the only one to go, and the stash that was  *)
(* short of the limit is full at most.                                      *)
LEMMA WriteKept ==
    ASSUME OrderInv, KeptInv, NEW p \in Pending, Write(p),
           UNCHANGED <<sender, connection>>,
           Pending \ ({p} \cup receivedDataBySequence) \subseteq Pending',
           receivedDataBySequence' \subseteq Pending'
    PROVE  KeptInv'
<1>0. p \in Packet /\ TypeOK
  BY PendingType DEF OrderInv
<1>1. /\ receivedDataBySequence' \subseteq receivedDataBySequence \cup {p}
      /\ NextIsMissing'
      /\ \A n \in Nat : n >= receivedPacketSequence'
            /\ (\E q \in receivedDataBySequence \cup {p} : q.seq = n)
                => \E q \in receivedDataBySequence' : q.seq = n
      /\ closing' = (closing \/ Cardinality(receivedDataBySequence') = StashLimit)
      /\ receivedPacketSequence' \in Nat
      /\ receivedPacketSequence' >= receivedPacketSequence
  BY <1>0, WriteKeeps
<1>2. IsFiniteSet(receivedDataBySequence')
  <2>1. IsFiniteSet(receivedDataBySequence \cup {p})
    BY FS_AddElement DEF KeptInv
  <2> QED
    BY <1>1, <2>1, FS_Subset
<1>3. FullStashCloses'
  <2>1. /\ Cardinality(receivedDataBySequence) \in Nat
        /\ Cardinality(receivedDataBySequence') \in Nat
    BY <1>2, FS_CardinalityType DEF KeptInv
  <2>2. Cardinality(receivedDataBySequence') <= Cardinality(receivedDataBySequence) + 1
    <3>1. IsFiniteSet(receivedDataBySequence \cup {p})
      BY FS_AddElement DEF KeptInv
    <3>2. Cardinality(receivedDataBySequence') <= Cardinality(receivedDataBySequence \cup {p})
      BY <1>1, <3>1, FS_Subset
    <3>3. Cardinality(receivedDataBySequence \cup {p})
              = IF p \in receivedDataBySequence THEN Cardinality(receivedDataBySequence)
                ELSE Cardinality(receivedDataBySequence) + 1
      BY FS_AddElement DEF KeptInv
    <3> QED
      BY <2>1, <3>2, <3>3
  <2>3. Cardinality(receivedDataBySequence) >= StashLimit => closing
    BY DEF KeptInv, FullStashCloses
  <2>4. StashLimit \in Nat
    BY PacketStreamAssumption DEF PacketStreamAssumption
  <2>5. ASSUME Cardinality(receivedDataBySequence') >= StashLimit, ~closing
        PROVE  Cardinality(receivedDataBySequence') = StashLimit
    <3>1. ~(Cardinality(receivedDataBySequence) >= StashLimit)
      BY <2>3, <2>5
    <3> QED
      BY <2>1, <2>2, <2>4, <2>5, <3>1
  <2>6. closing \/ Cardinality(receivedDataBySequence') = StashLimit => closing'
    BY <1>1, Zenon
  <2> QED
    BY <2>5, <2>6, Zenon DEF FullStashCloses
<1>4. NothingVanishes'
  <2>1. ASSUME connection \in {"pending", "open"}, dropped = {}, Copies > 0,
               NEW n \in receivedPacketSequence'..(sendPacketSequence - 1)
        PROVE  \E q \in Pending' : q.seq = n
    <3>1. receivedPacketSequence \in Nat /\ sendPacketSequence \in Nat
      BY <1>0, PacketStreamAssumption DEF TypeOK, PacketStreamAssumption
    <3>2. n \in receivedPacketSequence..(sendPacketSequence - 1) /\ n \in Nat
      BY <1>1, <2>1, <3>1
    <3>3. PICK q \in Pending : q.seq = n
      BY <2>1, <3>2 DEF KeptInv, NothingVanishes
    <3>4. CASE q \in receivedDataBySequence \cup {p}
      BY <1>1, <2>1, <3>2, <3>3, <3>4
    <3>5. CASE q \notin receivedDataBySequence \cup {p}
      BY <3>3, <3>5
    <3> QED
      BY <3>4, <3>5
  <2> QED
    BY <2>1 DEF NothingVanishes, sender
<1> QED
  BY <1>1, <1>2, <1>3, <1>4 DEF KeptInv

(* A step that writes nothing: what was pending still is, or the connection *)
(* has gone.                                                                *)
LEMMA NothingWritten ==
    ASSUME KeptInv, UNCHANGED <<receivedPacketSequence, receivedDataBySequence>>,
           closing => closing',
           connection' \in {"pending", "open"} =>
               /\ connection \in {"pending", "open"}
               /\ Pending \subseteq Pending'
               /\ dropped' = {} => dropped = {} /\ sendPacketSequence' = sendPacketSequence
    PROVE  KeptInv'
<1>1. NothingVanishes'
  BY DEF KeptInv, NothingVanishes
<1> QED
  BY <1>1 DEF KeptInv, FullStashCloses, NextIsMissing

LEMMA KeptStep == OrderInv /\ KeptInv /\ [Next]_vars => KeptInv'
<1> SUFFICES ASSUME OrderInv, KeptInv, [Next]_vars PROVE KeptInv'
  OBVIOUS
<1>1. CASE DataReceived
  <2>1. PICK new : new = [seq |-> sendPacketSequence, chunk |-> read + 1]
    OBVIOUS
  <2>2. /\ inFlight' = inFlight \cup {new} \X (1..Copies)
        /\ sendPacketSequence' = sendPacketSequence + 1
        /\ UNCHANGED <<dropped, connection, connectionDataBuffer, protocol>>
    BY <1>1, <2>1 DEF DataReceived
  <2>3. Pending \subseteq Pending'
    BY <2>2 DEF Pending, Flying, Buffered, protocol
  <2>4. Copies > 0 => new \in Pending'
    <3>1. Copies > 0 => 1 \in 1..Copies
      BY PacketStreamAssumption DEF PacketStreamAssumption
    <3>2. Copies > 0 => <<new, 1>> \in inFlight'
      BY <2>2, <3>1
    <3> QED
      BY <3>2 DEF Pending, Flying
  <2>5. sendPacketSequence \in Nat /\ receivedPacketSequence \in Nat
    BY PacketStreamAssumption DEF OrderInv, TypeOK, PacketStreamAssumption
  <2>6. \A n \in receivedPacketSequence..(sendPacketSequence' - 1) :
            n \in receivedPacketSequence..(sendPacketSequence - 1) \/ n = new.seq
    BY <2>1, <2>2, <2>5
  <2>7. NothingVanishes'
    BY <2>2, <2>3, <2>4, <2>6 DEF KeptInv, NothingVanishes, protocol
  <2> QED
    BY <2>2, <2>7 DEF KeptInv, FullStashCloses, NextIsMissing, protocol
<1>2. CASE DataReceivedNoRemote
  <2>1. dropped' # {}
    BY <1>2 DEF DataReceivedNoRemote
  <2> QED
    BY <1>2, <2>1 DEF DataReceivedNoRemote, protocol, KeptInv, FullStashCloses,
                      NothingVanishes, NextIsMissing
<1>3. CASE DataReceivedRaises
  <2>1. Pending' = Pending
    BY <1>3 DEF DataReceivedRaises, protocol, Pending, Flying, Buffered
  <2> QED
    BY <1>3, <2>1, NothingWritten DEF DataReceivedRaises, protocol
<1>4. ASSUME NEW p \in Packet, NEW copy \in 1..Copies, ProcessFromVortex(p, copy)
      PROVE  KeptInv'
  <2>1. /\ <<p, copy>> \in inFlight /\ inFlight' = inFlight \ {<<p, copy>>}
        /\ UNCHANGED <<sender, connection>>
    BY <1>4 DEF ProcessFromVortex
  <2>2. p \in Pending /\ Flying \ {p} \subseteq Flying'
    <3>1. p \in Pending
      BY <2>1 DEF Pending, Flying
    <3>2. ASSUME NEW q \in Flying, q # p PROVE q \in Flying'
      <4>1. PICK x \in inFlight : x[1] = q
        BY DEF Flying
      <4>2. x \in inFlight'
        BY <2>1, <3>2, <4>1
      <4> QED
        BY <4>1, <4>2 DEF Flying
    <3> QED
      BY <3>1, <3>2
  <2>3. CASE connection = "open"
    <3>1. Write(p) /\ UNCHANGED connectionDataBuffer
      BY <1>4, <2>3 DEF ProcessFromVortex
    <3>2. /\ Pending \ ({p} \cup receivedDataBySequence) \subseteq Pending'
          /\ receivedDataBySequence' \subseteq Pending'
      BY <2>2, <3>1 DEF Pending, Buffered
    <3> QED
      BY <2>1, <2>2, <3>1, <3>2, WriteKept
  <2>4. CASE connection # "open"
    <3>1. connectionDataBuffer' = Append(connectionDataBuffer, p) /\ UNCHANGED protocol
      BY <1>4, <2>4 DEF ProcessFromVortex
    <3>2. Buffered \cup {p} \subseteq Buffered'
      <4>1. connectionDataBuffer \in Seq(Packet)
        BY DEF OrderInv, TypeOK
      <4>2. /\ Len(connectionDataBuffer) \in Nat
            /\ Len(connectionDataBuffer') = Len(connectionDataBuffer) + 1
            /\ \A i \in 1..Len(connectionDataBuffer) :
                  connectionDataBuffer'[i] = connectionDataBuffer[i]
            /\ connectionDataBuffer'[Len(connectionDataBuffer) + 1] = p
        BY <3>1, <4>1, AppendProperties, LenProperties
      <4> QED
        BY <4>2 DEF Buffered
    <3>3. Pending \subseteq Pending'
      BY <2>2, <3>1, <3>2 DEF Pending, protocol
    <3> QED
      BY <2>1, <3>1, <3>3, NothingWritten DEF sender, protocol
  <2> QED
    BY <2>3, <2>4
<1>5. CASE LocalConnectionMade
  <2>1. Pending' = Pending
    BY <1>5 DEF LocalConnectionMade, protocol, Pending, Flying, Buffered
  <2> QED
    BY <1>5, <2>1, NothingWritten DEF LocalConnectionMade, sender, protocol
<1>6. CASE FlushOne
  <2> DEFINE p == Head(connectionDataBuffer)
  <2>1. /\ Write(p) /\ connectionDataBuffer' = Tail(connectionDataBuffer)
        /\ UNCHANGED <<sender, inFlight, connection>> /\ Flushing
    BY <1>6 DEF FlushOne
  <2>2. p \in Pending /\ Buffered \ {p} \subseteq Buffered'
    <3>1. /\ Len(connectionDataBuffer) \in Nat \ {0} /\ p = connectionDataBuffer[1]
          /\ Len(connectionDataBuffer') = Len(connectionDataBuffer) - 1
          /\ \A i \in 1..Len(connectionDataBuffer') :
                connectionDataBuffer'[i] = connectionDataBuffer[i + 1]
      BY <2>1, HeadTailProperties, LenProperties, EmptySeq DEF Flushing, OrderInv, TypeOK
    <3> HIDE DEF p
    <3>2. ASSUME NEW i \in 1..Len(connectionDataBuffer), connectionDataBuffer[i] # p
          PROVE  connectionDataBuffer[i] \in Buffered'
      <4>1. i - 1 \in 1..Len(connectionDataBuffer') /\ (i - 1) + 1 = i
        BY <3>1, <3>2
      <4>2. connectionDataBuffer'[i - 1] = connectionDataBuffer[i]
        BY <3>1, <4>1
      <4> QED
        BY <4>1, <4>2 DEF Buffered
    <3> QED
      BY <3>1, <3>2 DEF Buffered, Pending
  <2> HIDE DEF p
  <2>3. /\ Pending \ ({p} \cup receivedDataBySequence) \subseteq Pending'
        /\ receivedDataBySequence' \subseteq Pending'
    BY <2>1, <2>2 DEF Pending, Flying
  <2> QED
    BY <2>1, <2>2, <2>3, WriteKept
<1>7. CASE ConnectFailed \/ CloseConnection \/ ConnectionLost
  BY <1>7, NothingWritten DEF ConnectFailed, CloseConnection, ConnectionLost, protocol
<1>8. CASE UNCHANGED vars
  <2>1. Pending' = Pending
    BY <1>8 DEF vars, protocol, Pending, Flying, Buffered
  <2> QED
    BY <1>8, <2>1, NothingWritten DEF vars, sender, protocol
<1> QED
  BY <1>1, <1>2, <1>3, <1>4, <1>5, <1>6, <1>7, <1>8 DEF Next

LEMMA KeptAlways == Spec => [](OrderInv /\ KeptInv)
<1>1. Init => KeptInv
  <2>1. StashLimit \in Nat \ {0}
    BY PacketStreamAssumption DEF PacketStreamAssumption
  <2>2. IsFiniteSet({}) /\ Cardinality({}) = 0
    BY FS_EmptySet
  <2> QED
    BY <2>1, <2>2
    DEF Init, KeptInv, FullStashCloses, NothingVanishes, NextIsMissing, Stashed
<1> QED
  BY <1>1, KeptStep, OrderInvariant, PTL DEF Spec

(* The code compares the size of the stash with the limit for equality,     *)
(* when a packet is written: the stash never steps over the limit without   *)
(* the connection having been told to close (tunnel_protocol.py, write).    *)
THEOREM FullStashAlwaysCloses == Spec => []FullStashCloses
<1>1. KeptInv => FullStashCloses
  BY DEF KeptInv
<1> QED
  BY <1>1, KeptAlways, PTL

(* Whatever order the packets came in, when none is left under way or in    *)
(* the buffer of an open connection and none was sent to nobody, everything *)
(* read has been written: nothing is held back in the stash for ever.       *)
THEOREM DeliveryIsComplete == Spec => []AllDelivered
<1>1. ASSUME OrderInv, KeptInv, connection = "open", inFlight = {},
             connectionDataBuffer = <<>>, skipped = {}, dropped = {}, Copies > 0
      PROVE  Len(written) = read
  <2>1. Pending = receivedDataBySequence
    BY <1>1, EmptySeq DEF Pending, Flying, Buffered
  <2>2. /\ receivedPacketSequence \in Nat /\ sendPacketSequence \in Nat /\ read \in Nat
        /\ receivedPacketSequence <= sendPacketSequence
        /\ sendPacketSequence = read + 1
        /\ Len(written) = receivedPacketSequence - 1
    BY <1>1, PacketStreamAssumption
    DEF OrderInv, TypeOK, SentOnly, WrittenBelow, NumbersAreChunks, PacketStreamAssumption
  <2>3. receivedPacketSequence \notin receivedPacketSequence..(sendPacketSequence - 1)
    BY <1>1, <2>1 DEF KeptInv, NothingVanishes, NextIsMissing, Stashed
  <2> QED
    BY <2>2, <2>3
<1>2. OrderInv /\ KeptInv => AllDelivered
  BY <1>1 DEF AllDelivered
<1> QED
  BY <1>2, KeptAlways, PTL
=============================================================================
