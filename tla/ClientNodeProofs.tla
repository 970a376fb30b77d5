-------------------------- MODULE ClientNodeProofs --------------------------
(***************************************************************************)
(* Theorems about ClientNode, for any number of listen tunnels, reconnects *)
(* and signals.                                                            *)
(***************************************************************************)
EXTENDS ClientNode, TunnelHandlersProofs

(* All tunnels are only ever stopped while the server is offline. *)
ClientInv ==
    /\ HandlersInv
    /\ TypeOK
    /\ stopper = "all" => ~serverOnline
    /\ serverOnline => Registered
    /\ OfflineMeansClosed

-----------------------------------------------------------------------------
LEMMA ClientInit == Init => ClientInv
<1> SUFFICES ASSUME Init PROVE ClientInv
  OBVIOUS
<1>1. HandlersInv /\ AllClosed
  BY InitKeeps DEF Init
<1>2. TypeOK
  <2>1. serverOnline \in BOOLEAN
    BY Zenon DEF Init
  <2> QED
    BY <1>1, <2>1, ClientNodeAssumption DEF Init, TypeOK, HandlersInv
<1> QED
  BY <1>1, <1>2 DEF Init, HandlersInit, ClientInv, OfflineMeansClosed

LEMMA OnlineKeeps ==
    ASSUME ClientInv, ServerOnline
    PROVE  ClientInv'
<1>1. /\ serverOnline' = TRUE /\ stopper = "none" /\ StartTunnels
      /\ UNCHANGED <<connected, completed, stopper, stopAt, waiting, transitions, later,
                     signalCount>>
  BY DEF ServerOnline, scheduled
<1>2. AllClosed
  BY DEF ServerOnline, ClientInv, OfflineMeansClosed
<1>3. waiting' \in Nat
  BY <1>1 DEF ClientInv, HandlersInv, HandlersTypeOK
<1>4. HandlersInv' /\ Registered'
  BY <1>1, <1>2, <1>3, StartKeeps, StartRegisters DEF ClientInv
<1>5. onlineCount' \in 0..MaxOnline
  BY ClientNodeAssumption DEF ServerOnline, ClientInv, TypeOK
<1>6. TypeOK'
  BY <1>1, <1>4, <1>5 DEF ClientInv, TypeOK, HandlersInv
<1> QED
  BY <1>1, <1>4, <1>6 DEF ClientInv, OfflineMeansClosed

LEMMA OfflineKeeps ==
    ASSUME ClientInv, ServerOffline
    PROVE  ClientInv'
<1>1. /\ serverOnline' = FALSE /\ Stop("all")
      /\ UNCHANGED <<connected, leaked, transitions, later, onlineCount, signalCount>>
  BY DEF ServerOffline, counters, scheduled
<1>2. HandlersInv' /\ (stopper' = "none" => AllClosed')
  BY <1>1, StopKeeps DEF ClientInv
<1>3. TypeOK'
  BY <1>1, <1>2 DEF ClientInv, TypeOK, HandlersInv
<1> QED
  BY <1>1, <1>2, <1>3 DEF ClientInv, OfflineMeansClosed

LEMMA SignalKeeps ==
    ASSUME ClientInv, ActiveSignal
    PROVE  ClientInv'
<1>1. UNCHANGED <<handlers, serverOnline, onlineCount>>
  BY DEF ActiveSignal
<1>2. HandlersInv'
  BY <1>1, HandlersUnchanged DEF ClientInv
<1>3. signalCount' \in 0..MaxSignals
  BY ClientNodeAssumption DEF ActiveSignal, ClientInv, TypeOK
<1>4. transitions' \in Nat /\ later' \in Nat
  <2>1. leaked[Controllers] \in Nat
    BY TunnelHandlersAssumption
    DEF ClientInv, HandlersInv, HandlersTypeOK, Owner, Controllers
  <2> QED
    BY <2>1 DEF ActiveSignal, ClientInv, TypeOK
<1>5. TypeOK'
  BY <1>1, <1>2, <1>3, <1>4 DEF ClientInv, TypeOK, HandlersInv
<1> QED
  BY <1>1, <1>2, <1>5
  DEF ClientInv, OfflineMeansClosed, AllClosed, Registered,
      handlers, sockets, endpoints

LEMMA TransitionKeeps ==
    ASSUME ClientInv, StandbyTransition
    PROVE  ClientInv'
<1>1. /\ transitions > 0 /\ transitions' = transitions - 1
      /\ Stop("listens")
      /\ UNCHANGED <<serverOnline, later, connected, leaked, onlineCount, signalCount>>
  BY DEF StandbyTransition, counters
<1>2. HandlersInv' /\ (stopper' = "none" => AllClosed')
  BY <1>1, StopKeeps DEF ClientInv
<1>3. TypeOK'
  BY <1>1, <1>2 DEF ClientInv, TypeOK, HandlersInv
<1>4. CASE StopRaises
  BY <1>1, <1>2, <1>3, <1>4 DEF Stop, ClientInv, OfflineMeansClosed, Registered
<1>5. CASE ~StopRaises
  <2>1. StopFrom(1, "listens") /\ 1 \in 1..(N + 1)
    BY <1>1, <1>5, TunnelHandlersAssumption DEF Stop
  <2>2. (Registered => Registered') /\ stopper' \in {"none", "listens"}
    BY <2>1, ListensStopLeavesOthers DEF ClientInv
  <2> QED
    BY <1>1, <1>2, <1>3, <2>2 DEF ClientInv, OfflineMeansClosed
<1> QED
  BY <1>4, <1>5

LEMMA ClosingKeeps ==
    ASSUME ClientInv, ClosingPort
    PROVE  ClientInv'
<1>1. PortClosed /\ UNCHANGED <<serverOnline, onlineCount, signalCount>>
  BY DEF ClosingPort, counters
<1>2. HandlersInv' /\ (stopper' = "none" => AllClosed')
  BY <1>1, PortClosedKeeps DEF ClientInv
<1>3. TypeOK'
  BY <1>1, <1>2 DEF ClosingPort, ClientInv, TypeOK, HandlersInv
<1>4. stopAt + 1 \in 1..(N + 1) /\ StopFrom(stopAt + 1, stopper)
  BY <1>1, TunnelHandlersAssumption DEF PortClosed, ClientInv, HandlersInv, StopperAt, Listen
<1>5. stopper \in {"listens", "all"}
  BY <1>1 DEF PortClosed, ClientInv, HandlersInv, HandlersTypeOK
<1>6. CASE stopper = "listens"
  <2>1. (Registered => Registered') /\ stopper' \in {"none", "listens"}
    BY <1>4, <1>6, ListensStopLeavesOthers DEF ClientInv
  <2> QED
    BY <1>1, <1>2, <1>3, <2>1 DEF ClientInv, OfflineMeansClosed
<1>7. CASE stopper = "all"
  <2>1. ~serverOnline'
    BY <1>1, <1>7 DEF ClientInv
  <2> QED
    BY <1>2, <1>3, <2>1 DEF ClientInv, OfflineMeansClosed
<1> QED
  BY <1>5, <1>6, <1>7

LEMMA WaitKeeps ==
    ASSUME ClientInv, WaitEnds
    PROVE  ClientInv'
<1>1. WaitOver /\ UNCHANGED <<serverOnline, transitions, later, onlineCount, signalCount>>
  BY DEF WaitEnds, counters, scheduled
<1>2. /\ waiting' \in Nat /\ stopper = "none"
      /\ UNCHANGED <<connected, completed, stopper, stopAt>>
  BY <1>1 DEF WaitOver, ClientInv, HandlersInv, HandlersTypeOK
<1>3. CASE serverOnline
  <2>1. StartListenTunnels
    BY <1>3 DEF WaitEnds
  <2>2. HandlersInv' /\ (Registered => Registered')
    BY <1>2, <2>1, StartKeeps, StartRegisters DEF ClientInv
  <2>3. TypeOK'
    BY <1>1, <2>2 DEF ClientInv, TypeOK, HandlersInv
  <2> QED
    BY <1>1, <1>2, <1>3, <2>2, <2>3 DEF ClientInv, OfflineMeansClosed
<1>4. CASE ~serverOnline
  <2>1. UNCHANGED <<port, endpoint, leaked>>
    BY <1>4 DEF WaitEnds, endpoints
  <2>2. HandlersInv'
    BY <1>2, <2>1 DEF ClientInv, HandlersInv, HandlersTypeOK, StopperAt, ClosingAt,
                      ConnectionsNeedPort, OpenIsServed
  <2>3. TypeOK'
    BY <1>1, <2>2 DEF ClientInv, TypeOK, HandlersInv
  <2> QED
    BY <1>1, <1>2, <1>4, <2>1, <2>2, <2>3
    DEF ClientInv, OfflineMeansClosed, AllClosed
<1> QED
  BY <1>3, <1>4

LEMMA ApplicationKeeps ==
    ASSUME ClientInv, NEW t \in Listen, Accept(t) \/ ConnectionsEnd(t),
           UNCHANGED <<serverOnline, scheduled, counters>>
    PROVE  ClientInv'
<1>1. HandlersInv'
  BY ApplicationsKeep DEF ClientInv
<1>2. UNCHANGED <<port, endpoint, stopper>>
  BY DEF Accept, ConnectionsEnd, endpoints
<1>3. TypeOK'
  BY <1>1 DEF ClientInv, TypeOK, HandlersInv, counters, scheduled
<1> QED
  BY <1>1, <1>2, <1>3 DEF ClientInv, OfflineMeansClosed, AllClosed, Registered

LEMMA ClientStep == ClientInv /\ [Next]_vars => ClientInv'
<1> SUFFICES ASSUME ClientInv, [Next]_vars PROVE ClientInv'
  OBVIOUS
<1>1. CASE UNCHANGED vars
  <2>1. HandlersInv'
    BY <1>1, HandlersUnchanged DEF ClientInv, vars
  <2>2. TypeOK'
    BY <1>1, <2>1 DEF ClientInv, TypeOK, HandlersInv, vars, counters, scheduled
  <2> QED
    BY <1>1, <2>1, <2>2
    DEF ClientInv, OfflineMeansClosed, AllClosed, Registered,
        vars, handlers, sockets, endpoints
<1>2. CASE Next
  BY <1>2, OnlineKeeps, OfflineKeeps, SignalKeeps, TransitionKeeps, ClosingKeeps,
     WaitKeeps, ApplicationKeeps
  DEF Next
<1> QED
  BY <1>1, <1>2

-----------------------------------------------------------------------------
(* The invariant holds in every state of a client process. *)
THEOREM ClientInvariant == Spec => []ClientInv
  BY ClientInit, ClientStep, PTL DEF Spec

(* The types of the client's variables. *)
THEOREM TypeCorrect == Spec => []TypeOK
<1>1. ClientInv => TypeOK
  BY DEF ClientInv
<1> QED
  BY <1>1, ClientInvariant, PTL

(* A client that has lost the server and finished stopping listens nowhere, *)
(* whatever standby transitions were waiting or being scheduled.            *)
THEOREM PortsNeedServer == Spec => []OfflineMeansClosed
<1>1. ClientInv => OfflineMeansClosed
  BY DEF ClientInv
<1> QED
  BY <1>1, ClientInvariant, PTL

(* No overlap of standby transitions, stops and starts leaves an open port, *)
(* or a client that has the server, without its endpoints.                  *)
THEOREM ClientServes == Spec => []OnlineIsServed
<1>1. ClientInv => OnlineIsServed
  BY DEF ClientInv, HandlersInv, OnlineIsServed, Registered
<1> QED
  BY <1>1, ClientInvariant, PTL

(* No connection accepted by the client outlives its port. *)
THEOREM ClientConnectionsNeedPort == Spec => []ConnectionsNeedPort
<1>1. ClientInv => ConnectionsNeedPort
  BY DEF ClientInv, HandlersInv
<1> QED
  BY <1>1, ClientInvariant, PTL

-----------------------------------------------------------------------------
(* What is left of PortsReopen once liveness is set aside: with nothing     *)
(* stopping or waiting, a client that has the server listens everywhere.    *)
PortsAreOpen ==
    serverOnline /\ stopper = "none" /\ waiting = 0 => AllOpen

PortsInv == Uniform /\ PortsAreOpen

LEMMA PortsStep ==
    ClientInv /\ PortsInv /\ [Next]_vars => PortsInv'
<1> SUFFICES ASSUME ClientInv, PortsInv, [Next]_vars PROVE PortsInv'
  OBVIOUS
<1>1. HandlersInv /\ waiting \in Nat /\ Uniform
  BY DEF ClientInv, HandlersInv, HandlersTypeOK, PortsInv
<1>2. CASE ServerOnline
  <2>1. /\ AllOpen \/ AllClosed
        /\ StartTunnels /\ stopper' = "none"
    BY <1>1, <1>2 DEF ServerOnline, Uniform
  <2> QED
    BY <2>1, StartOpensAll DEF PortsInv, Uniform, PortsAreOpen
<1>3. CASE ServerOffline
  <2>1. Stop("all") /\ UNCHANGED <<connected, leaked>> /\ ~serverOnline'
    BY <1>3 DEF ServerOffline
  <2>2. stopper' = "none" => AllClosed'
    BY <1>1, <2>1, StopKeeps
  <2> QED
    BY <1>1, <2>1, <2>2, StopUniform DEF PortsInv, PortsAreOpen
<1>4. CASE StandbyTransition
  <2>1. Stop("listens") /\ UNCHANGED <<connected, leaked>>
    BY <1>4 DEF StandbyTransition
  <2>2. stopper' = "none" => AllClosed'
    BY <1>1, <2>1, StopKeeps
  <2>3. Uniform'
    BY <1>1, <2>1, <2>2, StopUniform
  <2>4. ASSUME stopper' = "none" PROVE waiting' = waiting + 1
    <3>1. StopFrom(1, "listens")
      BY <2>1, <2>4 DEF Stop, StopRaises
    <3> QED
      BY <1>1, <2>4, <3>1, StopEndsInWait
  <2> QED
    BY <1>1, <2>3, <2>4 DEF PortsInv, PortsAreOpen
<1>5. CASE ClosingPort
  <2>1. PortClosed /\ serverOnline' = serverOnline
    BY <1>5 DEF ClosingPort
  <2>2. stopper' = "none" => AllClosed'
    BY <1>1, <2>1, PortClosedKeeps
  <2>3. Uniform'
    BY <1>1, <2>1, <2>2, PortClosedUniform
  <2>4. ASSUME serverOnline', stopper' = "none" PROVE waiting' = waiting + 1
    <3>1. stopper = "listens"
      BY <2>1, <2>4 DEF PortClosed, ClientInv, HandlersInv, HandlersTypeOK
    <3>2. StopFrom(stopAt + 1, "listens")
      BY <2>1, <3>1 DEF PortClosed
    <3> QED
      BY <1>1, <2>4, <3>2, StopEndsInWait
  <2> QED
    BY <1>1, <2>3, <2>4 DEF PortsInv, PortsAreOpen
<1>6. CASE WaitEnds
  <2>1. /\ stopper = "none" /\ UNCHANGED <<stopper, stopAt, serverOnline>>
        /\ AllOpen \/ AllClosed
    BY <1>1, <1>6 DEF WaitEnds, WaitOver, Uniform
  <2>2. CASE serverOnline
    <3>1. StartListenTunnels
      BY <1>6, <2>2 DEF WaitEnds
    <3> QED
      BY <2>1, <3>1, StartOpensAll DEF PortsInv, Uniform, PortsAreOpen
  <2>3. CASE ~serverOnline
    <3>1. port' = port
      BY <1>6, <2>3 DEF WaitEnds
    <3> QED
      BY <2>1, <2>3, <3>1 DEF PortsInv, Uniform, PortsAreOpen, AllOpen, AllClosed
  <2> QED
    BY <2>2, <2>3
<1>7. ASSUME UNCHANGED <<port, stopper, stopAt, serverOnline, waiting>> PROVE PortsInv'
  BY <1>7 DEF PortsInv, Uniform, PortsAreOpen, AllOpen, AllClosed
<1>8. CASE ActiveSignal
  BY <1>7, <1>8 DEF ActiveSignal, handlers, sockets
<1>9. ASSUME NEW t \in Listen, Accept(t) \/ ConnectionsEnd(t),
             UNCHANGED <<serverOnline, scheduled, counters>>
      PROVE  PortsInv'
  BY <1>7, <1>9 DEF Accept, ConnectionsEnd
<1>10. CASE UNCHANGED vars
  BY <1>7, <1>10 DEF vars, handlers, sockets
<1> QED
  BY <1>2, <1>3, <1>4, <1>5, <1>6, <1>8, <1>9, <1>10 DEF Next

(* Whatever standby transitions, stops and starts overlap, a client that    *)
(* has the server listens on all its ports or has a stop or a wait before   *)
(* it, at the end of which _handleStandbyTransition opens them.             *)
THEOREM OnlinePortsOpen == Spec => []PortsAreOpen
<1>1. Init => PortsInv
  BY DEF Init, HandlersInit, PortsInv, Uniform, PortsAreOpen, AllClosed
<1>2. PortsInv => PortsAreOpen
  BY DEF PortsInv
<1> QED
  BY <1>1, <1>2, PortsStep, ClientInvariant, PTL DEF Spec
=============================================================================
