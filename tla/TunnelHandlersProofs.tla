------------------------ MODULE TunnelHandlersProofs ------------------------
(***************************************************************************)
(* What starting and stopping tunnels preserves, for any number of listen  *)
(* tunnels: the lemmas the proofs about ClientNode and ServerNode share.   *)
(***************************************************************************)
EXTENDS TunnelHandlers, TLAPS

(* The stopper is at the one port that is closing, and all before it are    *)
(* closed.                                                                  *)
StopperAt ==
    stopper # "none" => /\ stopAt \in Listen
                        /\ port[stopAt] = "closing"
                        /\ \A t \in 1..(stopAt - 1) : port[t] = "closed"

ClosingAt ==
    \A t \in Listen : port[t] = "closing" => stopper # "none" /\ t = stopAt

HandlersInv ==
    /\ HandlersTypeOK
    /\ StopperAt
    /\ ClosingAt
    /\ ConnectionsNeedPort
    /\ OpenIsServed

(* Starts: no port is opened whose tunnel has not been registered. *)
LEMMA StartKeeps ==
    ASSUME HandlersInv, stopper = "none", waiting' \in Nat,
           StartListenTunnels \/ StartTunnels,
           UNCHANGED <<connected, completed, stopper, stopAt>>
    PROVE  HandlersInv'
<1> USE TunnelHandlersAssumption DEF Listen, Owner
<1> DEFINE owners == IF StartListenTunnels THEN Reached
                     ELSE {Controllers} \cup Reached \cup IF AllClosed THEN {Connect} ELSE {}
<1>1. Register(owners) /\ OpenListenPorts /\ Reached \subseteq owners
  BY DEF StartListenTunnels, StartTunnels
<1>2. endpoint' \in [Owner -> BOOLEAN] /\ leaked' \in [Owner -> Nat]
  BY <1>1 DEF Register, HandlersInv, HandlersTypeOK
<1>3. port' \in [Listen -> {"closed", "open", "closing"}]
  BY <1>1 DEF OpenListenPorts, HandlersInv, HandlersTypeOK
<1>4. HandlersTypeOK'
  BY <1>2, <1>3 DEF HandlersInv, HandlersTypeOK
<1>5. \A t \in Listen : port'[t] = port[t] \/ (t \in Reached /\ port'[t] = "open")
  BY <1>1 DEF OpenListenPorts
<1>6. \A o \in Owner : o \in owners \/ endpoint[o] => endpoint'[o]
  BY <1>1 DEF Register
<1>7. OpenIsServed'
  <2>1. \A t \in Listen : t \in Owner
    OBVIOUS
  <2> QED
    BY <1>1, <1>5, <1>6, <2>1 DEF HandlersInv, OpenIsServed
<1>8. ConnectionsNeedPort' /\ ClosingAt' /\ StopperAt'
  BY <1>5 DEF HandlersInv, ConnectionsNeedPort, ClosingAt, StopperAt
<1> QED
  BY <1>4, <1>7, <1>8 DEF HandlersInv

(* The stopping loop from a tunnel on, when nothing before it is open.  The *)
(* connections of the port that has just closed go.                         *)
LEMMA StopFromKeeps ==
    ASSUME HandlersInv, NEW from \in 1..(N + 1), NEW who \in {"listens", "all"},
           StopFrom(from, who),
           NoneOpen(1..(from - 1)),
           leaked' = leaked,
           connected' \in [Listen -> BOOLEAN],
           \A t \in Listen : connected'[t] => connected[t] /\ port[t] # "closing"
    PROVE  HandlersInv' /\ (stopper' = "none" => AllClosed')
<1> USE TunnelHandlersAssumption DEF Listen, Owner
<1>1. CASE StopNext(from, who)
  <2>1. PICK t \in NextOpen(from) :
            /\ ClosePort({t})
            /\ Unregister(from..t)
            /\ stopper' = who
            /\ stopAt' = t
            /\ UNCHANGED <<completed, waiting>>
    BY <1>1 DEF StopNext
  <2>2. t \in Listen /\ port[t] = "open" /\ \A u \in 1..(t - 1) : port[u] # "open"
    BY DEF NextOpen, NoneOpen
  <2>3. \A u \in Listen : port'[u] = IF u = t THEN "closing"
                                     ELSE IF port[u] = "closing" THEN "closed"
                                     ELSE port[u]
    BY <2>1 DEF ClosePort
  <2>4. \A o \in Owner : endpoint[o] /\ o \notin from..t => endpoint'[o]
    BY <2>1 DEF Unregister
  <2>5. HandlersTypeOK'
    <3>1. port' \in [Listen -> {"closed", "open", "closing"}]
      BY <2>1 DEF ClosePort, HandlersInv, HandlersTypeOK
    <3>2. endpoint' \in [Owner -> BOOLEAN]
      BY <2>1 DEF Unregister
    <3> QED
      BY <2>1, <2>2, <3>1, <3>2 DEF HandlersInv, HandlersTypeOK
  <2>6. StopperAt' /\ ClosingAt'
    BY <2>1, <2>2, <2>3 DEF HandlersInv, HandlersTypeOK, StopperAt, ClosingAt
  <2>7. ConnectionsNeedPort'
    BY <2>2, <2>3 DEF HandlersInv, ConnectionsNeedPort
  <2>8. OpenIsServed'
    <3>1. \A u \in Listen : port'[u] = "open" => port[u] = "open" /\ u \notin from..t
      BY <2>1, <2>2, <2>3 DEF NextOpen, NoneOpen
    <3> QED
      BY <2>4, <3>1 DEF HandlersInv, OpenIsServed
  <2> QED
    BY <2>1, <2>5, <2>6, <2>7, <2>8 DEF HandlersInv
<1>2. CASE ~StopNext(from, who)
  <2>1. /\ NoneOpen(from..N)
        /\ ClosePort({})
        /\ stopper' = "none"
        /\ stopAt' = 0
        /\ waiting' \in {waiting, waiting + 1}
        /\ completed' \in {completed, TRUE}
        /\ \E owners \in SUBSET Owner : Unregister(owners)
    <3>1. {Connect, Controllers} \subseteq Owner /\ from..N \subseteq Owner
      BY DEF Connect, Controllers
    <3> QED
      BY <1>2, <3>1 DEF StopFrom
  <2>2. \A t \in Listen : port'[t] = IF port[t] = "closing" THEN "closed" ELSE port[t]
    BY <2>1 DEF ClosePort
  <2>3. \A t \in Listen : port[t] # "open"
    BY <2>1 DEF NoneOpen
  <2>4. \A t \in Listen : port'[t] = "closed"
    BY <2>2, <2>3 DEF HandlersInv, HandlersTypeOK
  <2>5. HandlersTypeOK'
    <3>1. port' \in [Listen -> {"closed", "open", "closing"}]
      BY <2>1 DEF ClosePort, HandlersInv, HandlersTypeOK
    <3>2. endpoint' \in [Owner -> BOOLEAN]
      BY <2>1 DEF Unregister
    <3>3. waiting' \in Nat
      BY <2>1 DEF HandlersInv, HandlersTypeOK
    <3>4. completed' \in BOOLEAN
      BY <2>1, Zenon DEF HandlersInv, HandlersTypeOK
    <3> QED
      BY <2>1, <3>1, <3>2, <3>3, <3>4 DEF HandlersInv, HandlersTypeOK
  <2>6. ConnectionsNeedPort'
    BY <2>2, <2>3 DEF HandlersInv, ConnectionsNeedPort
  <2> QED
    BY <2>1, <2>4, <2>5, <2>6
    DEF HandlersInv, StopperAt, ClosingAt, OpenIsServed, AllClosed
<1> QED
  BY <1>1, <1>2

(* A stop of either kind: it raises, or runs the loop from the start. *)
LEMMA StopKeeps ==
    ASSUME HandlersInv, NEW who \in {"listens", "all"}, Stop(who),
           UNCHANGED <<connected, leaked>>
    PROVE  HandlersInv' /\ (stopper' = "none" => AllClosed')
<1>1. CASE StopRaises
  BY <1>1 DEF Stop, StopRaises, HandlersInv, HandlersTypeOK, StopperAt, ClosingAt,
              ConnectionsNeedPort, OpenIsServed
<1>2. CASE ~StopRaises
  <2>1. StopFrom(1, who)
    BY <1>2 DEF Stop
  <2>2. \A t \in Listen : port[t] # "closing"
    BY <1>2 DEF StopRaises, HandlersInv, ClosingAt
  <2>3. NoneOpen(1..(1 - 1)) /\ 1 \in 1..(N + 1)
    BY TunnelHandlersAssumption DEF NoneOpen
  <2>4. connected' \in [Listen -> BOOLEAN]
    BY DEF HandlersInv, HandlersTypeOK
  <2> QED
    BY <2>1, <2>2, <2>3, <2>4, StopFromKeeps
<1> QED
  BY <1>1, <1>2

(* The port is closed, its connections with it, and the loop goes on. *)
LEMMA PortClosedKeeps ==
    ASSUME HandlersInv, PortClosed
    PROVE  HandlersInv' /\ (stopper' = "none" => AllClosed')
<1> USE TunnelHandlersAssumption DEF Listen
<1>1. /\ stopAt \in Listen
      /\ \A t \in 1..(stopAt - 1) : port[t] = "closed"
      /\ port[stopAt] = "closing"
      /\ stopper \in {"listens", "all"}
  BY DEF PortClosed, HandlersInv, HandlersTypeOK, StopperAt
<1>2. stopAt + 1 \in 1..(N + 1) /\ NoneOpen(1..((stopAt + 1) - 1))
  BY <1>1 DEF NoneOpen
<1>3. connected' \in [Listen -> BOOLEAN]
  BY DEF PortClosed, HandlersInv, HandlersTypeOK
<1>4. \A t \in Listen : connected'[t] => connected[t] /\ port[t] # "closing"
  BY <1>1 DEF PortClosed, HandlersInv, HandlersTypeOK, ClosingAt
<1>5. StopFrom(stopAt + 1, stopper) /\ leaked' = leaked
  BY DEF PortClosed
<1> QED
  BY <1>1, <1>2, <1>3, <1>4, <1>5, StopFromKeeps

(* Stopping the listen tunnels leaves the controllers and the connect       *)
(* tunnels registered; a start that finds all ports closed registers them.  *)
Registered == endpoint[Controllers] /\ endpoint[Connect]

LEMMA ListensStopLeavesOthers ==
    ASSUME HandlersInv, NEW from \in 1..(N + 1), StopFrom(from, "listens")
    PROVE  /\ Registered => Registered'
           /\ stopper' \in {"none", "listens"}
<1> USE TunnelHandlersAssumption DEF Owner
<1>1. Controllers \in Owner /\ Connect \in Owner
  BY DEF Controllers, Connect
<1>2. PICK last \in Nat : last <= N /\ Unregister(from..last)
  <2>1. CASE StopNext(from, "listens")
    <3>1. PICK t \in NextOpen(from) : Unregister(from..t)
      BY <2>1 DEF StopNext
    <3>2. t \in Nat /\ t <= N
      BY DEF NextOpen
    <3> QED
      BY <3>1, <3>2
  <2>2. CASE ~StopNext(from, "listens")
    BY <2>2 DEF StopFrom
  <2> QED
    BY <2>1, <2>2
<1>3. Controllers \notin from..last /\ Connect \notin from..last
  BY <1>2 DEF Controllers, Connect
<1>4. endpoint[Controllers] => endpoint'[Controllers]
  BY <1>1, <1>2, <1>3 DEF Unregister
<1>5. endpoint[Connect] => endpoint'[Connect]
  BY <1>1, <1>2, <1>3 DEF Unregister
<1>6. stopper' \in {"none", "listens"}
  BY DEF StopFrom, StopNext
<1> QED
  BY <1>4, <1>5, <1>6 DEF Registered, Controllers, Connect

LEMMA StartRegisters ==
    ASSUME StartListenTunnels \/ StartTunnels
    PROVE  /\ Registered => Registered'
           /\ StartTunnels /\ AllClosed => Registered'
<1> USE TunnelHandlersAssumption DEF Owner
<1>1. Controllers \in Owner /\ Connect \in Owner
  BY DEF Controllers, Connect
<1>2. Registered => Registered'
  BY <1>1 DEF StartListenTunnels, StartTunnels, Register, Registered, Controllers, Connect
<1>3. ASSUME StartTunnels, AllClosed PROVE Registered'
  <2>1. PICK owners : Register(owners) /\ Controllers \in owners /\ Connect \in owners
    BY <1>3 DEF StartTunnels
  <2> QED
    BY <1>1, <2>1 DEF Register, Registered, Controllers, Connect
<1> QED
  BY <1>2, <1>3

(* Applications come and go at open ports. *)
LEMMA ApplicationsKeep ==
    ASSUME HandlersInv, NEW t \in Listen, Accept(t) \/ ConnectionsEnd(t)
    PROVE  HandlersInv'
<1>1. /\ connected' \in [Listen -> BOOLEAN]
      /\ \A u \in Listen : connected'[u] => connected[u] \/ port[u] = "open"
  BY DEF Accept, ConnectionsEnd, HandlersInv, HandlersTypeOK
<1>2. UNCHANGED <<port, endpoints, completed, stopper, stopAt, waiting>>
  BY DEF Accept, ConnectionsEnd
<1> QED
  BY <1>1, <1>2 DEF endpoints, HandlersInv, HandlersTypeOK, StopperAt, ClosingAt,
                    ConnectionsNeedPort, OpenIsServed

LEMMA HandlersUnchanged ==
    ASSUME HandlersInv, UNCHANGED handlers
    PROVE  HandlersInv'
BY DEF handlers, sockets, endpoints, HandlersInv, HandlersTypeOK, StopperAt,
       ClosingAt, ConnectionsNeedPort, OpenIsServed

LEMMA InitKeeps == HandlersInit => HandlersInv /\ AllClosed
<1> SUFFICES ASSUME HandlersInit PROVE HandlersInv /\ AllClosed
  OBVIOUS
<1>1. HandlersTypeOK
  <2>1. stopAt \in Owner
    BY TunnelHandlersAssumption DEF HandlersInit, Owner
  <2>2. completed \in BOOLEAN
    BY Zenon DEF HandlersInit
  <2> QED
    BY <2>1, <2>2 DEF HandlersInit, HandlersTypeOK
<1> QED
  BY <1>1 DEF HandlersInit, HandlersInv, StopperAt, ClosingAt,
              ConnectionsNeedPort, OpenIsServed, AllClosed

-----------------------------------------------------------------------------
(* Stops leave no mixture of open and closed ports behind: at rest all are  *)
(* open or all closed, and ahead of a stop all are open.                    *)
Uniform ==
    IF stopper = "none" THEN AllOpen \/ AllClosed
                        ELSE \A t \in Listen : t > stopAt => port[t] = "open"

(* A start that finds them alike leaves all open: either every port can be  *)
(* opened, or the first is in use and so are the others.                    *)
LEMMA StartOpensAll ==
    ASSUME AllOpen \/ AllClosed, StartListenTunnels \/ StartTunnels
    PROVE  AllOpen'
<1>1. \A t \in Listen : port'[t] = IF t \in Reached /\ port[t] = "closed"
                                    THEN "open" ELSE port[t]
  BY DEF StartListenTunnels, StartTunnels, OpenListenPorts
<1>2. CASE AllOpen
  BY <1>1, <1>2 DEF AllOpen
<1>3. CASE AllClosed
  <2>1. \A t \in Listen : t \in Reached
    BY <1>3, TunnelHandlersAssumption DEF AllClosed, Reached, Listen
  <2> QED
    BY <1>1, <1>3, <2>1 DEF AllOpen, AllClosed
<1> QED
  BY <1>2, <1>3

(* The loop takes the ports in order, from where they are open on. *)
LEMMA StopFromUniform ==
    ASSUME NEW from \in 1..(N + 1), NEW who \in {"listens", "all"}, StopFrom(from, who),
           stopper' = "none" => AllClosed',
           AllClosed \/ \A t \in Listen : t >= from => port[t] = "open"
    PROVE  Uniform'
<1> USE TunnelHandlersAssumption DEF Listen
<1>1. CASE StopNext(from, who)
  <2>1. PICK t \in NextOpen(from) : ClosePort({t}) /\ stopper' = who /\ stopAt' = t
    BY <1>1 DEF StopNext
  <2>2. t \in Listen /\ t >= from /\ port[t] = "open"
    BY DEF NextOpen
  <2>3. \A u \in Listen : u >= from => port[u] = "open"
    BY <2>2 DEF AllClosed
  <2>4. \A u \in Listen : u > t => port'[u] = port[u]
    BY <2>1, <2>2, <2>3 DEF ClosePort
  <2> QED
    BY <2>1, <2>2, <2>3, <2>4 DEF Uniform
<1>2. CASE ~StopNext(from, who)
  <2>1. stopper' = "none"
    BY <1>2 DEF StopFrom
  <2> QED
    BY <2>1 DEF Uniform
<1> QED
  BY <1>1, <1>2

LEMMA StopUniform ==
    ASSUME HandlersInv, Uniform, NEW who \in {"listens", "all"}, Stop(who),
           stopper' = "none" => AllClosed'
    PROVE  Uniform'
<1>1. CASE StopRaises
  BY <1>1 DEF Stop, StopRaises, Uniform
<1>2. CASE ~StopRaises
  <2>1. StopFrom(1, who) /\ 1 \in 1..(N + 1)
    BY <1>2, TunnelHandlersAssumption DEF Stop
  <2>2. AllClosed \/ \A t \in Listen : t >= 1 => port[t] = "open"
    BY <1>2 DEF StopRaises, Uniform, AllOpen
  <2> QED
    BY <2>1, <2>2, StopFromUniform
<1> QED
  BY <1>1, <1>2

LEMMA PortClosedUniform ==
    ASSUME HandlersInv, Uniform, PortClosed, stopper' = "none" => AllClosed'
    PROVE  Uniform'
<1>1. stopAt \in Listen /\ stopper \in {"listens", "all"} /\ stopper # "none"
  BY DEF PortClosed, HandlersInv, HandlersTypeOK, StopperAt
<1>2. stopAt \in Nat /\ stopAt + 1 \in 1..(N + 1)
  BY <1>1, TunnelHandlersAssumption DEF Listen
<1>3. StopFrom(stopAt + 1, stopper)
  BY DEF PortClosed
<1>4. \A t \in Listen : t >= stopAt + 1 => port[t] = "open"
  BY <1>1, <1>2 DEF Uniform, Listen
<1> QED
  BY <1>1, <1>2, <1>3, <1>4, StopFromUniform

(* A stop of the listen tunnels that has come to its end waits. *)
LEMMA StopEndsInWait ==
    ASSUME HandlersInv, NEW from, StopFrom(from, "listens"), stopper' = "none"
    PROVE  waiting' = waiting + 1
BY DEF StopFrom, StopNext
=============================================================================
