-------------------------- MODULE ServerNodeProofs --------------------------
(***************************************************************************)
(* Theorems about ServerNode, for any number of listen tunnels, clients'   *)
(* arrivals and signals.                                                   *)
(***************************************************************************)
EXTENDS ServerNode, TunnelHandlersProofs

USE DEF Client, None, AC!Client, AC!None

(* All tunnels are only ever stopped with no client online, and the active  *)
(* client is online.                                                        *)
ServerInv ==
    /\ HandlersInv
    /\ TypeOK
    /\ active \in online \cup {None}
    /\ stopper = "all" => online = {}
    /\ online # {} => Registered
    /\ NoClientMeansClosed
    /\ OneCoordination

-----------------------------------------------------------------------------
LEMMA ServerInit == Init => ServerInv
<1> SUFFICES ASSUME Init PROVE ServerInv
  OBVIOUS
<1>1. HandlersInv /\ AllClosed
  BY InitKeeps DEF Init
<1>2. TypeOK
  BY <1>1, ServerNodeAssumption DEF Init, AC!Init, TypeOK, HandlersInv
<1> QED
  BY <1>1, <1>2 DEF Init, AC!Init, HandlersInit, ServerInv, NoClientMeansClosed,
                    OneCoordination

LEMMA OnlineKeeps ==
    ASSUME ServerInv, NEW c \in Client, ClientOnline(c)
    PROVE  ServerInv'
<1>1. /\ online' = online \cup {c} /\ active' = active
      /\ UNCHANGED <<connected, completed, stopper, stopAt, waiting, changes,
                     failover, signalCount>>
  BY DEF ClientOnline, AC!Connect
<1>2. HandlersInv' /\ Registered'
  <2>1. CASE online = {}
    <3>1. StartTunnels /\ stopper = "none"
      BY <2>1 DEF ClientOnline
    <3>2. AllClosed
      BY <2>1, <3>1 DEF ServerInv, NoClientMeansClosed
    <3>3. waiting' \in Nat
      BY <1>1 DEF ServerInv, HandlersInv, HandlersTypeOK
    <3> QED
      BY <1>1, <3>1, <3>2, <3>3, StartKeeps, StartRegisters DEF ServerInv
  <2>2. CASE online # {}
    <3>1. UNCHANGED handlers
      BY <1>1, <2>2 DEF ClientOnline, handlers, sockets, endpoints
    <3> QED
      BY <2>2, <3>1, HandlersUnchanged
      DEF ServerInv, Registered, handlers, endpoints
  <2> QED
    BY <2>1, <2>2
<1>3. onlineCount' \in 0..MaxOnline
  BY ServerNodeAssumption DEF ClientOnline, ServerInv, TypeOK
<1>4. TypeOK'
  BY <1>1, <1>2, <1>3 DEF ServerInv, TypeOK, HandlersInv
<1>5. stopper # "all"
  BY <1>1 DEF ClientOnline, ServerInv
<1> QED
  BY <1>1, <1>2, <1>4, <1>5 DEF ServerInv, NoClientMeansClosed, OneCoordination

(* A change that is emitted names a client; sequences of them stay so.      *)
LEMMA EmitType ==
    ASSUME changes \in Seq(Client), active' \in Client \cup {None}, EmitChange
    PROVE  changes' \in Seq(Client)
BY DEF EmitChange

LEMMA OfflineKeeps ==
    ASSUME ServerInv, NEW c \in Client, ClientOffline(c)
    PROVE  ServerInv'
<1>1. /\ online' = online \ {c}
      /\ active' = IF active # c THEN active
                   ELSE IF AC!Other(c) \in online THEN AC!Other(c) ELSE None
      /\ c \in online
      /\ UNCHANGED <<failover, counters>>
  BY DEF ClientOffline, AC!Disconnect
<1>2. active' \in online' \cup {None}
  BY <1>1 DEF ServerInv, AC!Other
<1>3. online' \subseteq Client
  BY <1>1 DEF ServerInv, TypeOK
<1>4. changes' \in Seq(Client)
  <2>1. active' \in Client \cup {None}
    BY <1>2, <1>3
  <2> QED
    BY <2>1, EmitType DEF ClientOffline, ServerInv, TypeOK
<1>5. CASE online = {c}
  <2>1. online' = {}
    BY <1>1, <1>5
  <2>2. Stop("all") /\ UNCHANGED <<connected, leaked>>
    BY <1>5 DEF ClientOffline
  <2>3. HandlersInv' /\ (stopper' = "none" => AllClosed')
    BY <2>2, StopKeeps DEF ServerInv
  <2>4. TypeOK'
    BY <1>1, <1>2, <1>3, <1>4, <2>3 DEF ServerInv, TypeOK, HandlersInv, counters
  <2>5. OneCoordination'
    <3>1. waiting \in Nat /\ stopper \in {"none", "listens", "all"}
      BY DEF ServerInv, HandlersInv, HandlersTypeOK
    <3>2. waiting' = waiting /\ (stopper' = "listens" <=> stopper = "listens")
      BY <2>2, <3>1 DEF Stop, StopRaises, StopFrom, StopNext
    <3> QED
      BY <1>1, <3>2 DEF ServerInv, OneCoordination
  <2> QED
    BY <1>2, <2>1, <2>3, <2>4, <2>5 DEF ServerInv, NoClientMeansClosed
<1>6. CASE online # {c}
  <2>1. UNCHANGED handlers
    BY <1>6 DEF ClientOffline
  <2>2. HandlersInv'
    BY <2>1, HandlersUnchanged DEF ServerInv
  <2>3. TypeOK'
    BY <1>1, <1>2, <1>3, <1>4, <2>2 DEF ServerInv, TypeOK, HandlersInv, counters
  <2>4. online # {} /\ online' # {}
    BY <1>1, <1>6
  <2> QED
    BY <1>1, <1>2, <2>1, <2>2, <2>3, <2>4
    DEF ServerInv, NoClientMeansClosed, OneCoordination, Registered,
        handlers, sockets, endpoints
<1> QED
  BY <1>5, <1>6

LEMMA SignalKeeps ==
    ASSUME ServerInv, NEW c \in Client, ConnectionSignal(c)
    PROVE  ServerInv'
<1>1. /\ c \in online /\ active' = c
      /\ UNCHANGED <<handlers, online, failover, onlineCount>>
  BY DEF ConnectionSignal, AC!Activate
<1>2. HandlersInv'
  BY <1>1, HandlersUnchanged DEF ServerInv
<1>3. changes' \in Seq(Client)
  BY <1>1, EmitType DEF ConnectionSignal, ServerInv, TypeOK
<1>4. signalCount' \in 0..MaxSignals
  BY ServerNodeAssumption DEF ConnectionSignal, ServerInv, TypeOK
<1>5. TypeOK'
  BY <1>1, <1>2, <1>3, <1>4 DEF ServerInv, TypeOK, HandlersInv
<1> QED
  BY <1>1, <1>2, <1>5
  DEF ServerInv, NoClientMeansClosed, OneCoordination, Registered, AllClosed,
      handlers, sockets, endpoints

LEMMA CoordinationKeeps ==
    ASSUME ServerInv, HandleActiveClientChange
    PROVE  ServerInv'
<1>1. changes' \in Seq(Client) /\ Head(changes) \in Client
  BY DEF HandleActiveClientChange, ServerInv, TypeOK
<1>2. UNCHANGED <<active, online, onlineCount, signalCount>>
  BY DEF HandleActiveClientChange, clients, counters
<1>3. CASE failover # None
  <2>1. UNCHANGED <<handlers, failover>>
    BY <1>3 DEF HandleActiveClientChange
  <2>2. HandlersInv'
    BY <2>1, HandlersUnchanged DEF ServerInv
  <2>3. TypeOK'
    BY <1>1, <1>2, <2>1, <2>2 DEF ServerInv, TypeOK, HandlersInv
  <2> QED
    BY <1>2, <2>1, <2>2, <2>3
    DEF ServerInv, NoClientMeansClosed, OneCoordination, Registered, AllClosed,
        handlers, sockets, endpoints
<1>4. CASE failover = None
  <2>1. /\ Stop("listens") /\ UNCHANGED <<connected, leaked>>
        /\ failover' = IF StopRaises THEN None ELSE Head(changes)
    BY <1>4 DEF HandleActiveClientChange
  <2>2. HandlersInv' /\ (stopper' = "none" => AllClosed')
    BY <2>1, StopKeeps DEF ServerInv
  <2>3. TypeOK'
    BY <1>1, <1>2, <2>1, <2>2 DEF ServerInv, TypeOK, HandlersInv
  <2>4. waiting = 0 /\ stopper # "listens"
    BY <1>4 DEF ServerInv, OneCoordination, HandlersInv, HandlersTypeOK
  <2>5. CASE StopRaises
    BY <1>2, <1>4, <2>1, <2>2, <2>3, <2>5
    DEF Stop, ServerInv, NoClientMeansClosed, OneCoordination, Registered
  <2>6. CASE ~StopRaises
    <3>1. StopFrom(1, "listens") /\ 1 \in 1..(N + 1)
      BY <2>1, <2>6, TunnelHandlersAssumption DEF Stop
    <3>2. (Registered => Registered') /\ stopper' \in {"none", "listens"}
      BY <3>1, ListensStopLeavesOthers DEF ServerInv
    <3>3. waiting' = IF stopper' = "listens" THEN waiting ELSE waiting + 1
      BY <3>1 DEF StopFrom, StopNext
    <3>4. OneCoordination'
      BY <1>1, <2>1, <2>4, <2>6, <3>2, <3>3 DEF OneCoordination
    <3> QED
      BY <1>2, <2>2, <2>3, <3>2, <3>4 DEF ServerInv, NoClientMeansClosed
  <2> QED
    BY <2>5, <2>6
<1> QED
  BY <1>3, <1>4

LEMMA ClosingKeeps ==
    ASSUME ServerInv, ClosingPort
    PROVE  ServerInv'
<1>1. PortClosed /\ UNCHANGED <<active, online, changes, failover, onlineCount, signalCount>>
  BY DEF ClosingPort, clients, counters
<1>2. HandlersInv' /\ (stopper' = "none" => AllClosed')
  BY <1>1, PortClosedKeeps DEF ServerInv
<1>3. TypeOK'
  BY <1>1, <1>2 DEF ServerInv, TypeOK, HandlersInv
<1>4. stopAt + 1 \in 1..(N + 1) /\ StopFrom(stopAt + 1, stopper)
  BY <1>1, TunnelHandlersAssumption DEF PortClosed, ServerInv, HandlersInv, StopperAt, Listen
<1>5. stopper \in {"listens", "all"} /\ waiting \in Nat
  BY <1>1 DEF PortClosed, ServerInv, HandlersInv, HandlersTypeOK
<1>6. CASE stopper = "listens"
  <2>1. (Registered => Registered') /\ stopper' \in {"none", "listens"}
    BY <1>4, <1>6, ListensStopLeavesOthers DEF ServerInv
  <2>2. waiting' = IF stopper' = "listens" THEN waiting ELSE waiting + 1
    BY <1>4, <1>6 DEF StopFrom, StopNext
  <2>3. OneCoordination'
    BY <1>1, <1>5, <1>6, <2>1, <2>2 DEF ServerInv, OneCoordination
  <2> QED
    BY <1>1, <1>2, <1>3, <2>1, <2>3 DEF ServerInv, NoClientMeansClosed
<1>7. CASE stopper = "all"
  <2>1. stopper' \in {"none", "all"} /\ waiting' = waiting
    BY <1>4, <1>7 DEF StopFrom, StopNext
  <2>2. online' = {}
    BY <1>1, <1>7 DEF ServerInv
  <2>3. OneCoordination'
    BY <1>1, <1>7, <2>1 DEF ServerInv, OneCoordination
  <2> QED
    BY <1>1, <1>2, <1>3, <2>1, <2>2, <2>3 DEF ServerInv, NoClientMeansClosed
<1> QED
  BY <1>5, <1>6, <1>7

LEMMA WaitKeeps ==
    ASSUME ServerInv, WaitEnds
    PROVE  ServerInv'
<1>1. /\ WaitOver /\ failover' = None
      /\ UNCHANGED <<active, online, changes, onlineCount, signalCount>>
  BY DEF WaitEnds, clients, counters
<1>2. /\ waiting \in Nat /\ waiting > 0 /\ waiting' = waiting - 1 /\ stopper = "none"
      /\ UNCHANGED <<connected, completed, stopper, stopAt>>
  BY <1>1 DEF WaitOver, ServerInv, HandlersInv, HandlersTypeOK
<1>3. OneCoordination'
  BY <1>1, <1>2 DEF ServerInv, OneCoordination
<1>4. CASE active # None
  <2>1. StartListenTunnels
    BY <1>4 DEF WaitEnds
  <2>2. HandlersInv' /\ (Registered => Registered')
    BY <1>2, <2>1, StartKeeps, StartRegisters DEF ServerInv
  <2>3. TypeOK'
    BY <1>1, <2>2 DEF ServerInv, TypeOK, HandlersInv
  <2>4. online # {}
    BY <1>4 DEF ServerInv
  <2> QED
    BY <1>1, <1>2, <1>3, <2>2, <2>3, <2>4 DEF ServerInv, NoClientMeansClosed
<1>5. CASE active = None
  <2>1. UNCHANGED <<port, endpoint, leaked>>
    BY <1>5 DEF WaitEnds, endpoints
  <2>2. HandlersInv'
    BY <1>2, <2>1 DEF ServerInv, HandlersInv, HandlersTypeOK, StopperAt, ClosingAt,
                      ConnectionsNeedPort, OpenIsServed
  <2>3. TypeOK'
    BY <1>1, <2>2 DEF ServerInv, TypeOK, HandlersInv
  <2> QED
    BY <1>1, <1>2, <1>3, <2>1, <2>2, <2>3
    DEF ServerInv, NoClientMeansClosed, AllClosed, Registered
<1> QED
  BY <1>4, <1>5

LEMMA ApplicationKeeps ==
    ASSUME ServerInv, NEW t \in Listen, Accept(t) \/ ConnectionsEnd(t),
           UNCHANGED <<clients, changes, failover, counters>>
    PROVE  ServerInv'
<1>1. HandlersInv'
  BY ApplicationsKeep DEF ServerInv
<1>2. UNCHANGED <<port, endpoint, stopper, waiting>>
  BY DEF Accept, ConnectionsEnd, endpoints
<1>3. TypeOK'
  BY <1>1 DEF ServerInv, TypeOK, HandlersInv, clients, counters
<1> QED
  BY <1>1, <1>2, <1>3
  DEF ServerInv, NoClientMeansClosed, AllClosed, OneCoordination, Registered, clients

LEMMA ServerStep == ServerInv /\ [Next]_vars => ServerInv'
<1> SUFFICES ASSUME ServerInv, [Next]_vars PROVE ServerInv'
  OBVIOUS
<1>1. CASE UNCHANGED vars
  <2>1. HandlersInv'
    BY <1>1, HandlersUnchanged DEF ServerInv, vars
  <2>2. TypeOK'
    BY <1>1, <2>1 DEF ServerInv, TypeOK, HandlersInv, vars, clients, counters
  <2> QED
    BY <1>1, <2>1, <2>2
    DEF ServerInv, NoClientMeansClosed, AllClosed, OneCoordination, Registered,
        vars, clients, handlers, sockets, endpoints
<1>2. CASE Next
  BY <1>2, OnlineKeeps, OfflineKeeps, SignalKeeps, CoordinationKeeps, ClosingKeeps,
     WaitKeeps, ApplicationKeeps
  DEF Next
<1> QED
  BY <1>1, <1>2

-----------------------------------------------------------------------------
(* The invariant holds in every state of the server process. *)
THEOREM ServerInvariant == Spec => []ServerInv
  BY ServerInit, ServerStep, PTL DEF Spec

(* The types of the server's variables. *)
THEOREM TypeCorrect == Spec => []TypeOK
<1>1. ServerInv => TypeOK
  BY DEF ServerInv
<1> QED
  BY <1>1, ServerInvariant, PTL

(* handleActiveClientChange runs once at a time: what stops the server's    *)
(* listen tunnels, or waits to start them, is the coordination the flag     *)
(* _failoverInProgress stands for.                                          *)
THEOREM CoordinationsExclude == Spec => []OneCoordination
<1>1. ServerInv => OneCoordination
  BY DEF ServerInv
<1> QED
  BY <1>1, ServerInvariant, PTL

(* The server never listens without a client to tunnel to. *)
THEOREM PortsNeedClient == Spec => []NoClientMeansClosed
<1>1. ServerInv => NoClientMeansClosed
  BY DEF ServerInv
<1> QED
  BY <1>1, ServerInvariant, PTL

(* No overlap of status changes and coordinations leaves an open port or an *)
(* online client without its endpoints.                                     *)
THEOREM ServerServes == Spec => []OnlineIsServed
<1>1. ServerInv => OnlineIsServed
  BY DEF ServerInv, HandlersInv, OnlineIsServed, Registered
<1> QED
  BY <1>1, ServerInvariant, PTL

(* No connection accepted by the server outlives its port. *)
THEOREM ServerConnectionsNeedPort == Spec => []ConnectionsNeedPort
<1>1. ServerInv => ConnectionsNeedPort
  BY DEF ServerInv, HandlersInv
<1> QED
  BY <1>1, ServerInvariant, PTL

-----------------------------------------------------------------------------
(* What is left of PortsReopen once liveness is set aside: outside          *)
(* coordinations the server listens everywhere while a client is online.    *)
PortsAreOpen ==
    online # {} /\ stopper = "none" /\ failover = None => AllOpen

(* While nobody is active, although a client is online, no coordination     *)
(* stops the tunnels that the first client has started: at the end of a     *)
(* wait there is nothing to reopen.                                         *)
NobodyToCoordinate ==
    online # {} /\ active = None => AllOpen /\ stopper = "none" /\ changes = <<>>

PortsInv == Uniform /\ PortsAreOpen /\ NobodyToCoordinate

LEMMA PortsStep ==
    ServerInv /\ ServerInv' /\ PortsInv /\ [Next]_vars => PortsInv'
<1> SUFFICES ASSUME ServerInv, ServerInv', PortsInv, [Next]_vars PROVE PortsInv'
  OBVIOUS
<1>1. HandlersInv /\ waiting \in Nat /\ Uniform
  BY DEF ServerInv, HandlersInv, HandlersTypeOK, PortsInv
<1>2. ASSUME UNCHANGED <<port, stopper, stopAt, failover>>,
             online' # {} => online # {},
             online' # {} /\ active' = None => active = None /\ changes' = changes
      PROVE  PortsInv'
  BY <1>2 DEF PortsInv, Uniform, PortsAreOpen, NobodyToCoordinate, AllOpen, AllClosed
<1>3. ASSUME NEW c \in Client, ClientOnline(c) PROVE PortsInv'
  <2>1. CASE online = {}
    <3>1. /\ AllOpen \/ AllClosed
          /\ StartTunnels /\ stopper' = "none" /\ changes' = <<>>
      BY <1>1, <1>3, <2>1 DEF ClientOnline, Uniform
    <3> QED
      BY <3>1, StartOpensAll DEF PortsInv, Uniform, PortsAreOpen, NobodyToCoordinate
  <2>2. CASE online # {}
    BY <1>2, <1>3, <2>2 DEF ClientOnline, AC!Connect
  <2> QED
    BY <2>1, <2>2
<1>4. ASSUME NEW c \in Client, ClientOffline(c) PROVE PortsInv'
  <2>1. online' = online \ {c} /\ c \in online /\ failover' = failover
    BY <1>4 DEF ClientOffline, AC!Disconnect
  <2>2. CASE online = {c}
    <3>1. Stop("all") /\ UNCHANGED <<connected, leaked>> /\ online' = {}
      BY <1>4, <2>1, <2>2 DEF ClientOffline
    <3>2. stopper' = "none" => AllClosed'
      BY <1>1, <3>1, StopKeeps
    <3> QED
      BY <1>1, <3>1, <3>2, StopUniform DEF PortsInv, PortsAreOpen, NobodyToCoordinate
  <2>3. CASE online # {c}
    <3>1. UNCHANGED <<port, stopper, stopAt>>
      BY <1>4, <2>3 DEF ClientOffline, handlers, sockets
    <3>2. ASSUME active' = None PROVE active = None /\ changes' = changes
      <4>1. AC!Other(c) \in online
        BY <2>1, <2>3 DEF ServerInv, TypeOK, AC!Other
      <4>2. AC!Other(c) # None
        BY DEF AC!Other
      <4> QED
        BY <1>4, <3>2, <4>1, <4>2 DEF ClientOffline, AC!Disconnect, EmitChange
    <3> QED
      BY <1>2, <2>1, <3>1, <3>2
  <2> QED
    BY <2>2, <2>3
<1>5. ASSUME NEW c \in Client, ConnectionSignal(c) PROVE PortsInv'
  BY <1>2, <1>5 DEF ConnectionSignal, AC!Activate, handlers, sockets
<1>6. CASE HandleActiveClientChange
  <2>1. UNCHANGED <<active, online>> /\ changes # <<>>
    BY <1>6 DEF HandleActiveClientChange, clients
  <2>2. ~(online # {} /\ active = None)
    BY <2>1 DEF PortsInv, NobodyToCoordinate
  <2>3. CASE failover # None
    BY <1>2, <1>6, <2>1, <2>2, <2>3 DEF HandleActiveClientChange, handlers, sockets
  <2>4. CASE failover = None
    <3>1. /\ Stop("listens") /\ UNCHANGED <<connected, leaked>>
          /\ failover' = IF StopRaises THEN None ELSE Head(changes)
      BY <1>6, <2>4 DEF HandleActiveClientChange
    <3>2. stopper' = "none" => AllClosed'
      BY <1>1, <3>1, StopKeeps
    <3>3. Uniform'
      BY <1>1, <3>1, <3>2, StopUniform
    <3>4. Head(changes) \in Client
      BY <2>1 DEF ServerInv, TypeOK
    <3>5. ASSUME stopper' = "none" PROVE failover' # None
      <4>1. ~StopRaises
        BY <3>1, <3>5 DEF Stop, StopRaises
      <4> QED
        BY <3>1, <3>4, <4>1
    <3> QED
      BY <2>1, <2>2, <3>3, <3>5 DEF PortsInv, PortsAreOpen, NobodyToCoordinate
  <2> QED
    BY <2>3, <2>4
<1>7. CASE ClosingPort
  <2>1. PortClosed /\ UNCHANGED <<active, online, changes, failover>> /\ stopper # "none"
    BY <1>7 DEF ClosingPort, clients, PortClosed
  <2>2. stopper' = "none" => AllClosed'
    BY <1>1, <2>1, PortClosedKeeps
  <2>3. Uniform'
    BY <1>1, <2>1, <2>2, PortClosedUniform
  <2>4. ASSUME online # {} PROVE failover # None
    <3>1. stopper = "listens"
      BY <2>1, <2>4 DEF ServerInv, HandlersInv, HandlersTypeOK
    <3> QED
      BY <1>1, <3>1 DEF ServerInv, OneCoordination
  <2> QED
    BY <2>1, <2>3, <2>4 DEF PortsInv, PortsAreOpen, NobodyToCoordinate
<1>8. CASE WaitEnds
  <2>1. /\ stopper = "none" /\ UNCHANGED <<stopper, stopAt, active, online, changes>>
        /\ AllOpen \/ AllClosed
    BY <1>1, <1>8 DEF WaitEnds, WaitOver, Uniform, clients
  <2>2. CASE active # None
    <3>1. StartListenTunnels
      BY <1>8, <2>2 DEF WaitEnds
    <3> QED
      BY <2>1, <2>2, <3>1, StartOpensAll
      DEF PortsInv, Uniform, PortsAreOpen, NobodyToCoordinate
  <2>3. CASE active = None
    <3>1. port' = port
      BY <1>8, <2>3 DEF WaitEnds
    <3> QED
      BY <2>1, <2>3, <3>1
      DEF PortsInv, Uniform, PortsAreOpen, NobodyToCoordinate, AllOpen, AllClosed
  <2> QED
    BY <2>2, <2>3
<1>9. ASSUME NEW t \in Listen, Accept(t) \/ ConnectionsEnd(t),
             UNCHANGED <<clients, changes, failover, counters>>
      PROVE  PortsInv'
  BY <1>2, <1>9 DEF Accept, ConnectionsEnd, clients
<1>10. CASE UNCHANGED vars
  BY <1>2, <1>10 DEF vars, handlers, sockets, clients
<1> QED
  BY <1>3, <1>4, <1>5, <1>6, <1>7, <1>8, <1>9, <1>10 DEF Next

(* Whatever failovers, stops and starts overlap, the server listens on all  *)
(* its ports while a client is online, or a coordination is in progress, at *)
(* the end of which handleActiveClientChange opens them.                    *)
THEOREM ServerPortsOpen == Spec => []PortsAreOpen
<1>1. Init => PortsInv
  BY DEF Init, AC!Init, HandlersInit, PortsInv, Uniform, PortsAreOpen,
         NobodyToCoordinate, AllClosed
<1>2. PortsInv => PortsAreOpen
  BY DEF PortsInv
<1> QED
  BY <1>1, <1>2, PortsStep, ServerInvariant, PTL DEF Spec
=============================================================================
