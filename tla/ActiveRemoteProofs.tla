------------------------- MODULE ActiveRemoteProofs -------------------------
(***************************************************************************)
(* Theorems about ActiveRemote, for any tunnels, connection ids and        *)
(* cooldown, and for every use of the class (ApiSpec).                     *)
(***************************************************************************)
EXTENDS ActiveRemote, TLAPS

USE DEF Client, None

(* What every signal the controller sends consists of: the values of sent'  *)
(* in a step that switches the active client are sets of signals.           *)
LEMMA SwitchSignalsType ==
    ASSUME TypeOK, NEW new \in Client, NEW online \in [Client -> BOOLEAN]
    PROVE  SwitchSignals(new, online) \in [Client -> SUBSET Signal]
<1>1. ASSUME NEW d \in Client PROVE NotifyTo(d, new, online) \subseteq Signal
  BY DEF NotifyTo, ActiveSignal, Signal
<1>2. ASSUME NEW d \in Client PROVE KillClientTunnels(d, online) \subseteq Signal
  <2>1. activeConnections[d] \subseteq Connection
    BY DEF TypeOK
  <2>2. \A conn \in Connection : KillSignal(conn) \in Signal
    BY DEF KillSignal, Signal
  <2> QED
    BY <2>1, <2>2 DEF KillClientTunnels
<1> QED
  BY <1>1, <1>2 DEF SwitchSignals

(* A switch leaves the controller's own variables well typed, and leaves    *)
(* the new client active.                                                   *)
LEMMA SwitchType ==
    ASSUME TypeOK, NEW new \in Client, NEW online \in [Client -> BOOLEAN],
           NEW tunnels \in [Client -> SUBSET Tunnel],
           NEW connections \in [Client -> SUBSET Connection],
           SwitchActiveClient(new, online, tunnels, connections)
    PROVE  /\ activeClientId' = new
           /\ activeTunnels' \in [Client -> SUBSET Tunnel]
           /\ activeConnections' \in [Client -> SUBSET Connection]
           /\ sinceFailover' \in 0..Cooldown
           /\ sent' \in [Client -> SUBSET Signal]
           /\ emitted' \in SUBSET (Client \cup {None})
<1>1. sent' \in [Client -> SUBSET Signal]
  BY SwitchSignalsType DEF SwitchActiveClient
<1> QED
  BY <1>1, ActiveRemoteAssumption
  DEF SwitchActiveClient, NoTracking, Emit, ActiveRemoteAssumption

(* What is recorded of a new connection is well typed.                      *)
LEMMA RecordedType ==
    ASSUME TypeOK, NEW c \in Client, NEW t \in Tunnel, NEW ids \in SUBSET ConnectionId
    PROVE  /\ [activeTunnels EXCEPT ![c] = @ \cup {t}] \in [Client -> SUBSET Tunnel]
           /\ [activeConnections EXCEPT ![c] = @ \cup ({t} \X ids)]
                 \in [Client -> SUBSET Connection]
<1>1. {t} \X ids \subseteq Connection
  BY DEF Connection
<1> QED
  BY <1>1 DEF TypeOK

(* Type correctness *)
LEMMA RecordType ==
    ASSUME TypeOK, NEW c \in Client, NEW t \in Tunnel, NEW ids \in SUBSET ConnectionId,
           RecordTunnelConnection(c, t, ids),
           UNCHANGED <<clientOnlineState, lifecycle>>
    PROVE  TypeOK'
<1> DEFINE tunnels == [activeTunnels EXCEPT ![c] = @ \cup {t}]
           connections == [activeConnections EXCEPT ![c] = @ \cup ({t} \X ids)]
<1>1. /\ tunnels \in [Client -> SUBSET Tunnel]
      /\ connections \in [Client -> SUBSET Connection]
  BY RecordedType
<1>2. clientOnlineState \in [Client -> BOOLEAN]
  BY DEF TypeOK
<1>3. CASE SwitchActiveClient(c, clientOnlineState, tunnels, connections)
  <2> HIDE DEF tunnels, connections
  <2> QED
    BY <1>1, <1>2, <1>3, SwitchType DEF TypeOK, lifecycle
<1>4. CASE ~SwitchActiveClient(c, clientOnlineState, tunnels, connections)
  <2>1. /\ activeTunnels' = tunnels
        /\ activeConnections' = connections
        /\ Quiet
        /\ UNCHANGED <<activeClientId, sinceFailover>>
    BY <1>4 DEF RecordTunnelConnection
  <2> QED
    BY <1>1, <2>1 DEF TypeOK, lifecycle, Quiet, NoSignals
<1> QED
  BY <1>3, <1>4

LEMMA SetRemoteOnlineType ==
    ASSUME TypeOK, NEW c \in Client, NEW online \in BOOLEAN, SetRemoteOnline(c, online)
    PROVE  /\ activeClientId' \in Client \cup {None}
           /\ clientOnlineState' \in [Client -> BOOLEAN]
           /\ activeTunnels' \in [Client -> SUBSET Tunnel]
           /\ activeConnections' \in [Client -> SUBSET Connection]
           /\ sinceFailover' \in 0..Cooldown
           /\ sent' \in [Client -> SUBSET Signal]
           /\ emitted' \in SUBSET (Client \cup {None})
<1>1. clientOnlineState' \in [Client -> BOOLEAN]
  BY DEF TypeOK, SetRemoteOnline
<1>2. Other(c) \in Client
  BY DEF Other
<1>3. CASE SwitchActiveClient(Other(c), clientOnlineState', activeTunnels, activeConnections)
  BY <1>1, <1>2, <1>3, SwitchType DEF TypeOK
<1>4. CASE ~SwitchActiveClient(Other(c), clientOnlineState', activeTunnels, activeConnections)
  BY <1>1, <1>4 DEF SetRemoteOnline, TypeOK, Quiet, NoSignals, Emit, tracking
<1> QED
  BY <1>3, <1>4

LEMMA TypeStep == TypeOK /\ [ApiNext]_vars => TypeOK'
<1> SUFFICES ASSUME TypeOK, [ApiNext]_vars PROVE TypeOK'
  OBVIOUS
<1>1. ASSUME NEW c \in Client, NEW nowOnline \in BOOLEAN,
             HandleClientStatusChange(c, nowOnline)
      PROVE  TypeOK'
  <2>1. tunnelsStarted' \in BOOLEAN /\ signalEndpoint' \in BOOLEAN /\ completed' \in BOOLEAN
    BY <1>1 DEF HandleClientStatusChange, TypeOK, Other
  <2> QED
    BY <1>1, <2>1, SetRemoteOnlineType DEF HandleClientStatusChange, TypeOK
<1>2. CASE TunnelsStopped
  BY <1>2 DEF TunnelsStopped, TypeOK, tracking, Quiet, NoSignals
<1>3. ASSUME NEW c \in Client, NEW t \in Tunnel, NEW k \in ConnectionId,
             ProcessConnectionSignal(c, t, k)
      PROVE  TypeOK'
  BY <1>3, RecordType DEF ProcessConnectionSignal
<1>4. CASE Tick
  BY <1>4, ActiveRemoteAssumption
  DEF Tick, TypeOK, tracking, lifecycle, Quiet, NoSignals, ActiveRemoteAssumption
<1>5. ASSUME NEW c \in Client, TriggerFailover(c) PROVE TypeOK'
  <2>1. /\ clientOnlineState \in [Client -> BOOLEAN]
        /\ activeTunnels \in [Client -> SUBSET Tunnel]
        /\ activeConnections \in [Client -> SUBSET Connection]
        /\ SwitchActiveClient(c, clientOnlineState, activeTunnels, activeConnections)
        /\ UNCHANGED <<clientOnlineState, lifecycle>>
    BY <1>5 DEF TypeOK, TriggerFailover
  <2> QED
    BY <2>1, SwitchType DEF TypeOK, lifecycle
<1>6. ASSUME NEW c \in Client, NEW t \in Tunnel, RecordWithoutId(c, t) PROVE TypeOK'
  BY <1>6, RecordType DEF RecordWithoutId
<1>7. ASSUME NEW c \in Client, NEW t \in Tunnel, RemoveTunnel(c, t) PROVE TypeOK'
  BY <1>7 DEF RemoveTunnel, TypeOK, lifecycle, Quiet, NoSignals
<1>8. ASSUME NEW c \in Client, NEW t \in Tunnel, NEW k \in ConnectionId,
             RemoveTunnelConnection(c, t, k)
      PROVE  TypeOK'
  BY <1>8 DEF RemoveTunnelConnection, TypeOK, lifecycle, Quiet, NoSignals
<1>9. CASE UNCHANGED vars
  BY <1>9 DEF vars, tracking, lifecycle, TypeOK
<1> QED
  BY <1>1, <1>2, <1>3, <1>4, <1>5, <1>6, <1>7, <1>8, <1>9 DEF ApiNext, Next

(* The controller's state keeps its types, whatever its callers do.         *)
THEOREM TypeCorrect == ApiSpec => []TypeOK
<1>1. ASSUME NEW S PROVE [c \in Client |-> {}] \in [Client -> SUBSET S]
  OBVIOUS
<1>2. Cooldown \in 0..Cooldown
  BY ActiveRemoteAssumption DEF ActiveRemoteAssumption
<1>3. Init => TypeOK
  BY <1>1, <1>2 DEF Init, TypeOK, NoTracking, NoSignals
<1> QED
  BY <1>3, TypeStep, PTL DEF ApiSpec

-----------------------------------------------------------------------------
(* Only the active client's connections are tracked *)

LEMMA RecordTracks ==
    ASSUME TypeOK, TrackedOnlyForActive, NEW c \in Client, NEW t \in Tunnel,
           NEW ids \in SUBSET ConnectionId, RecordTunnelConnection(c, t, ids)
    PROVE  TrackedOnlyForActive'
<1>1. CASE activeClientId = None \/ (ids # {} /\ activeClientId # c)
  BY <1>1 DEF RecordTunnelConnection, SwitchActiveClient, TrackedOnlyForActive, NoTracking
<1>2. CASE ~(activeClientId = None \/ (ids # {} /\ activeClientId # c))
  <2>1. /\ activeConnections' = [activeConnections EXCEPT ![c] = @ \cup ({t} \X ids)]
        /\ activeClientId' = activeClientId
    BY <1>2 DEF RecordTunnelConnection
  <2>2. CASE activeClientId = c
    BY <2>1, <2>2 DEF TypeOK, TrackedOnlyForActive
  <2>3. CASE ids = {}
    BY <2>1, <2>3 DEF TypeOK, TrackedOnlyForActive
  <2> QED
    BY <1>2, <2>2, <2>3
<1> QED
  BY <1>1, <1>2

LEMMA TrackedStep ==
    TypeOK /\ TrackedOnlyForActive /\ [ApiNext]_vars => TrackedOnlyForActive'
<1> SUFFICES ASSUME TypeOK, TrackedOnlyForActive, [ApiNext]_vars
             PROVE  TrackedOnlyForActive'
  OBVIOUS
<1>1. ASSUME NEW c \in Client, NEW nowOnline \in BOOLEAN,
             HandleClientStatusChange(c, nowOnline)
      PROVE  TrackedOnlyForActive'
  <2>1. SetRemoteOnline(c, nowOnline)
    BY <1>1 DEF HandleClientStatusChange
  <2>2. CASE nowOnline \/ activeClientId # c
    BY <2>1, <2>2 DEF SetRemoteOnline, TrackedOnlyForActive, tracking
  <2>3. CASE ~(nowOnline \/ activeClientId # c) /\ clientOnlineState[Other(c)]
    BY <2>1, <2>3
    DEF SetRemoteOnline, SwitchActiveClient, TrackedOnlyForActive, NoTracking, Other
  <2>4. CASE ~(nowOnline \/ activeClientId # c) /\ ~clientOnlineState[Other(c)]
    BY <2>1, <2>4 DEF SetRemoteOnline, TrackedOnlyForActive, tracking
  <2> QED
    BY <2>2, <2>3, <2>4
<1>2. CASE TunnelsStopped
  BY <1>2 DEF TunnelsStopped, TrackedOnlyForActive, tracking
<1>3. ASSUME NEW c \in Client, NEW t \in Tunnel, NEW k \in ConnectionId,
             ProcessConnectionSignal(c, t, k)
      PROVE  TrackedOnlyForActive'
  BY <1>3, RecordTracks DEF ProcessConnectionSignal
<1>4. CASE Tick
  BY <1>4 DEF Tick, TrackedOnlyForActive, tracking
<1>5. ASSUME NEW c \in Client, TriggerFailover(c) PROVE TrackedOnlyForActive'
  BY <1>5 DEF TriggerFailover, SwitchActiveClient, TrackedOnlyForActive, NoTracking
<1>6. ASSUME NEW c \in Client, NEW t \in Tunnel, RecordWithoutId(c, t)
      PROVE  TrackedOnlyForActive'
  BY <1>6, RecordTracks DEF RecordWithoutId
<1>7. ASSUME NEW c \in Client, NEW t \in Tunnel, RemoveTunnel(c, t)
      PROVE  TrackedOnlyForActive'
  BY <1>7 DEF RemoveTunnel, TrackedOnlyForActive, TypeOK
<1>8. ASSUME NEW c \in Client, NEW t \in Tunnel, NEW k \in ConnectionId,
             RemoveTunnelConnection(c, t, k)
      PROVE  TrackedOnlyForActive'
  BY <1>8 DEF RemoveTunnelConnection, TrackedOnlyForActive, TypeOK
<1>9. CASE UNCHANGED vars
  BY <1>9 DEF vars, tracking, TrackedOnlyForActive
<1> QED
  BY <1>1, <1>2, <1>3, <1>4, <1>5, <1>6, <1>7, <1>8, <1>9 DEF ApiNext, Next

(* No connection of the standby client is ever tracked, so no kill signal   *)
(* of a failover can be meant for a connection of the client it promotes.   *)
THEOREM OnlyActiveTracked == ApiSpec => []TrackedOnlyForActive
<1>1. Init => TrackedOnlyForActive
  BY DEF Init, TrackedOnlyForActive, NoTracking
<1> QED
  BY <1>1, TypeCorrect, TrackedStep, PTL DEF ApiSpec

-----------------------------------------------------------------------------
(* The active client is online.  A connection signal is then a sign of life: *)
(* this needs the transport to deliver none after its sender's offline event.*)

LEMMA RecordOnline ==
    ASSUME TypeOK, ActiveIsOnline, NEW c \in Client, clientOnlineState[c],
           NEW t \in Tunnel, NEW ids, RecordTunnelConnection(c, t, ids),
           UNCHANGED clientOnlineState
    PROVE  ActiveIsOnline' /\ activeClientId' \in {activeClientId, c}
BY DEF RecordTunnelConnection, SwitchActiveClient, ActiveIsOnline

LEMMA OnlineStep ==
    ASSUME ~LateSignals
    PROVE  TypeOK /\ ActiveIsOnline /\ [ApiNext]_vars => ActiveIsOnline'
<1> SUFFICES ASSUME TypeOK, ActiveIsOnline, [ApiNext]_vars PROVE ActiveIsOnline'
  OBVIOUS
<1>1. ASSUME NEW c \in Client, NEW nowOnline \in BOOLEAN,
             HandleClientStatusChange(c, nowOnline)
      PROVE  ActiveIsOnline'
  <2>1. /\ SetRemoteOnline(c, nowOnline)
        /\ clientOnlineState' = [clientOnlineState EXCEPT ![c] = nowOnline]
        /\ clientOnlineState \in [Client -> BOOLEAN]
        /\ activeClientId \in Client \cup {None}
    BY <1>1 DEF HandleClientStatusChange, SetRemoteOnline, TypeOK
  <2>2. CASE nowOnline \/ activeClientId # c
    <3>1. activeClientId' = activeClientId
      BY <2>1, <2>2 DEF SetRemoteOnline
    <3> QED
      BY <2>1, <2>2, <3>1 DEF ActiveIsOnline
  <2>3. CASE ~(nowOnline \/ activeClientId # c) /\ clientOnlineState[Other(c)]
    <3>1. activeClientId' = Other(c)
      BY <2>1, <2>3 DEF SetRemoteOnline, SwitchActiveClient
    <3> QED
      BY <2>1, <2>3, <3>1 DEF ActiveIsOnline, Other
  <2>4. CASE ~(nowOnline \/ activeClientId # c) /\ ~clientOnlineState[Other(c)]
    BY <2>1, <2>4 DEF SetRemoteOnline, ActiveIsOnline
  <2> QED
    BY <2>2, <2>3, <2>4
<1>2. CASE TunnelsStopped
  BY <1>2 DEF TunnelsStopped, ActiveIsOnline
<1>3. ASSUME NEW c \in Client, NEW t \in Tunnel, NEW k \in ConnectionId,
             ProcessConnectionSignal(c, t, k)
      PROVE  ActiveIsOnline'
  BY <1>3, RecordOnline DEF ProcessConnectionSignal
<1>4. CASE Tick
  BY <1>4 DEF Tick, ActiveIsOnline
<1>5. ASSUME NEW c \in Client, TriggerFailover(c) PROVE ActiveIsOnline'
  BY <1>5 DEF TriggerFailover, SwitchActiveClient, ActiveIsOnline
<1>6. ASSUME NEW c \in Client, NEW t \in Tunnel, RecordWithoutId(c, t)
      PROVE  ActiveIsOnline'
  BY <1>6, RecordOnline DEF RecordWithoutId
<1>7. ASSUME NEW c \in Client, NEW t \in Tunnel, RemoveTunnel(c, t)
      PROVE  ActiveIsOnline'
  BY <1>7 DEF RemoveTunnel, ActiveIsOnline
<1>8. ASSUME NEW c \in Client, NEW t \in Tunnel, NEW k \in ConnectionId,
             RemoveTunnelConnection(c, t, k)
      PROVE  ActiveIsOnline'
  BY <1>8 DEF RemoveTunnelConnection, ActiveIsOnline
<1>9. CASE UNCHANGED vars
  BY <1>9 DEF vars, ActiveIsOnline
<1> QED
  BY <1>1, <1>2, <1>3, <1>4, <1>5, <1>6, <1>7, <1>8, <1>9 DEF ApiNext, Next

(* getActiveRemoteVortexName never names a client that has gone offline.    *)
THEOREM ActiveAlwaysOnline == ASSUME ~LateSignals PROVE ApiSpec => []ActiveIsOnline
<1>1. Init => ActiveIsOnline
  BY DEF Init, ActiveIsOnline
<1>2. TypeOK /\ ActiveIsOnline /\ [ApiNext]_vars => ActiveIsOnline'
  BY OnlineStep
<1> QED
  BY <1>1, <1>2, TypeCorrect, PTL DEF ApiSpec

-----------------------------------------------------------------------------
(* The two dictionaries of the tracking agree *)

LEMMA RecordAgrees ==
    ASSUME TypeOK, TrackedTunnels, NEW c \in Client, NEW t \in Tunnel,
           NEW ids \in SUBSET ConnectionId, RecordTunnelConnection(c, t, ids)
    PROVE  TrackedTunnels'
<1> DEFINE tunnels == [activeTunnels EXCEPT ![c] = @ \cup {t}]
           connections == [activeConnections EXCEPT ![c] = @ \cup ({t} \X ids)]
<1>1. \A d \in Client : \A conn \in connections[d] : conn[1] \in tunnels[d]
  BY DEF TypeOK, TrackedTunnels
<1>2. CASE SwitchActiveClient(c, clientOnlineState, tunnels, connections)
  BY <1>1, <1>2 DEF SwitchActiveClient, NoTracking, TrackedTunnels
<1>3. CASE activeTunnels' = tunnels /\ activeConnections' = connections
  BY <1>1, <1>3 DEF TrackedTunnels
<1> QED
  BY <1>2, <1>3 DEF RecordTunnelConnection

LEMMA AgreementStep == TypeOK /\ TrackedTunnels /\ [ApiNext]_vars => TrackedTunnels'
<1> SUFFICES ASSUME TypeOK, TrackedTunnels, [ApiNext]_vars PROVE TrackedTunnels'
  OBVIOUS
<1>1. ASSUME NEW c \in Client, NEW nowOnline \in BOOLEAN,
             HandleClientStatusChange(c, nowOnline)
      PROVE  TrackedTunnels'
  <2>1. SetRemoteOnline(c, nowOnline)
    BY <1>1 DEF HandleClientStatusChange
  <2>2. CASE UNCHANGED tracking
    BY <2>2 DEF tracking, TrackedTunnels
  <2>3. CASE SwitchActiveClient(Other(c), clientOnlineState', activeTunnels, activeConnections)
    BY <2>3 DEF SwitchActiveClient, NoTracking, TrackedTunnels
  <2> QED
    BY <2>1, <2>2, <2>3 DEF SetRemoteOnline, tracking
<1>2. CASE TunnelsStopped
  BY <1>2 DEF TunnelsStopped, TrackedTunnels, tracking
<1>3. ASSUME NEW c \in Client, NEW t \in Tunnel, NEW k \in ConnectionId,
             ProcessConnectionSignal(c, t, k)
      PROVE  TrackedTunnels'
  BY <1>3, RecordAgrees DEF ProcessConnectionSignal
<1>4. CASE Tick
  BY <1>4 DEF Tick, TrackedTunnels, tracking
<1>5. ASSUME NEW c \in Client, TriggerFailover(c) PROVE TrackedTunnels'
  BY <1>5 DEF TriggerFailover, SwitchActiveClient, TrackedTunnels, NoTracking
<1>6. ASSUME NEW c \in Client, NEW t \in Tunnel, RecordWithoutId(c, t)
      PROVE  TrackedTunnels'
  BY <1>6, RecordAgrees DEF RecordWithoutId
<1>7. ASSUME NEW c \in Client, NEW t \in Tunnel, RemoveTunnel(c, t)
      PROVE  TrackedTunnels'
  BY <1>7 DEF RemoveTunnel, TrackedTunnels, TypeOK
<1>8. ASSUME NEW c \in Client, NEW t \in Tunnel, NEW k \in ConnectionId,
             RemoveTunnelConnection(c, t, k)
      PROVE  TrackedTunnels'
  <2> DEFINE rest == activeConnections[c] \ {<<t, k>>}
  <2>1. /\ activeConnections' = [activeConnections EXCEPT ![c] = rest]
        /\ activeTunnels' = [activeTunnels EXCEPT ![c] =
                                IF \E i \in ConnectionId : <<t, i>> \in rest
                                  THEN @ ELSE @ \ {t}]
    BY <1>8 DEF RemoveTunnelConnection
  <2>2. ASSUME NEW conn \in rest PROVE conn[1] \in activeTunnels'[c]
    <3>1. conn \in Connection /\ conn[1] \in activeTunnels[c]
      BY <2>2 DEF TypeOK, TrackedTunnels
    <3>2. conn = <<conn[1], conn[2]>> /\ conn[2] \in ConnectionId
      BY <3>1 DEF Connection
    <3>3. conn[1] = t => \E i \in ConnectionId : <<t, i>> \in rest
      BY <2>2, <3>2
    <3> QED
      BY <2>1, <3>1, <3>3 DEF TypeOK
  <2>3. ASSUME NEW d \in Client \ {c}, NEW conn \in activeConnections'[d]
        PROVE  conn[1] \in activeTunnels'[d]
    BY <2>1, <2>3 DEF TypeOK, TrackedTunnels
  <2>4. activeConnections'[c] = rest
    BY <2>1 DEF TypeOK
  <2> QED
    BY <2>2, <2>3, <2>4 DEF TrackedTunnels
<1>9. CASE UNCHANGED vars
  BY <1>9 DEF vars, tracking, TrackedTunnels
<1> QED
  BY <1>1, <1>2, <1>3, <1>4, <1>5, <1>6, <1>7, <1>8, <1>9 DEF ApiNext, Next

(* A connection recorded with its id adds its tunnel to both. *)
LEMMA RecordTables ==
    ASSUME TypeOK, TablesAgree, NEW c \in Client, NEW t \in Tunnel,
           NEW k \in ConnectionId, RecordTunnelConnection(c, t, {k})
    PROVE  TablesAgree'
<1> DEFINE tunnels == [activeTunnels EXCEPT ![c] = @ \cup {t}]
           connections == [activeConnections EXCEPT ![c] = @ \cup ({t} \X {k})]
<1>1. ASSUME NEW d \in Client
      PROVE  tunnels[d] = {conn[1] : conn \in connections[d]}
  <2>1. activeTunnels[d] = {conn[1] : conn \in activeConnections[d]}
    BY DEF TablesAgree
  <2>2. CASE d # c
    BY <2>1, <2>2 DEF TypeOK
  <2>3. CASE d = c
    <3>1. /\ tunnels[d] = activeTunnels[d] \cup {t}
          /\ connections[d] = activeConnections[d] \cup {<<t, k>>}
      BY <2>3 DEF TypeOK
    <3>2. <<t, k>>[1] = t
      OBVIOUS
    <3> HIDE DEF tunnels, connections
    <3> QED
      BY <2>1, <3>1, <3>2
  <2> QED
    BY <2>2, <2>3
<1>2. CASE SwitchActiveClient(c, clientOnlineState, tunnels, connections)
  <2>1. CASE c = activeClientId
    <3>1. activeTunnels' = tunnels /\ activeConnections' = connections
      BY <1>2, <2>1 DEF SwitchActiveClient
    <3> QED
      BY <1>1, <3>1 DEF TablesAgree
  <2>2. CASE c # activeClientId
    BY <1>2, <2>2 DEF SwitchActiveClient, NoTracking, TablesAgree
  <2> QED
    BY <2>1, <2>2
<1>3. CASE activeTunnels' = tunnels /\ activeConnections' = connections
  BY <1>1, <1>3 DEF TablesAgree
<1> QED
  BY <1>2, <1>3 DEF RecordTunnelConnection

LEMMA TablesStep == TypeOK /\ TablesAgree /\ [Next]_vars => TablesAgree'
<1> SUFFICES ASSUME TypeOK, TablesAgree, [Next]_vars PROVE TablesAgree'
  OBVIOUS
<1>1. ASSUME UNCHANGED tracking PROVE TablesAgree'
  BY <1>1 DEF tracking, TablesAgree
<1>2. ASSUME NEW c \in Client, NEW nowOnline \in BOOLEAN,
             HandleClientStatusChange(c, nowOnline)
      PROVE  TablesAgree'
  <2>1. SetRemoteOnline(c, nowOnline)
    BY <1>2 DEF HandleClientStatusChange
  <2>2. CASE activeClientId = c /\ SwitchActiveClient(Other(c), clientOnlineState',
                                        activeTunnels, activeConnections)
    <3>1. activeTunnels' = NoTracking /\ activeConnections' = NoTracking
      BY <2>2 DEF SwitchActiveClient, Other, Client
    <3> QED
      BY <3>1 DEF NoTracking, TablesAgree
  <2> QED
    BY <1>1, <2>1, <2>2 DEF SetRemoteOnline
<1>3. ASSUME NEW c \in Client, NEW t \in Tunnel, NEW k \in ConnectionId,
             ProcessConnectionSignal(c, t, k)
      PROVE  TablesAgree'
  BY <1>3, RecordTables DEF ProcessConnectionSignal
<1>4. CASE TunnelsStopped \/ Tick \/ UNCHANGED vars
  BY <1>1, <1>4 DEF TunnelsStopped, Tick, vars
<1> QED
  BY <1>2, <1>3, <1>4 DEF Next

(* As the program uses the class, recording, switching and losing clients,  *)
(* the active tunnels are exactly those of the tracked connections; and     *)
(* with the methods nothing calls, recorded and removed in whatever order,  *)
(* still no connection is tracked without its tunnel.                       *)
THEOREM TrackingAgrees ==
    /\ Spec => []TablesAgree
    /\ ApiSpec => []TrackedTunnels
<1>1. Init => TrackedTunnels /\ TablesAgree
  BY DEF Init, TrackedTunnels, TablesAgree, NoTracking
<1>2. Spec => []TypeOK
  <2>1. [Next]_vars => [ApiNext]_vars
    BY DEF ApiNext
  <2> QED
    BY <2>1, TypeCorrect, PTL DEF Spec, ApiSpec
<1>3. Spec => []TablesAgree
  BY <1>1, <1>2, TablesStep, PTL DEF Spec
<1>4. ApiSpec => []TrackedTunnels
  BY <1>1, TypeCorrect, AgreementStep, PTL DEF ApiSpec
<1> QED
  BY <1>3, <1>4

-----------------------------------------------------------------------------
(* What a change of the active client sends and emits *)

(* A switch emits the new client unless the observables are completed, and  *)
(* its kill signals are for the tracked connections of a client it demotes. *)
LEMMA SwitchKills ==
    ASSUME TypeOK, NEW new \in Client, NEW online \in [Client -> BOOLEAN],
           NEW tunnels, NEW connections,
           SwitchActiveClient(new, online, tunnels, connections),
           NEW d \in Client
    PROVE  {s \in sent'[d] : s.type = "kill"} =
               IF activeClientId = d /\ activeClientId' = Other(d) /\ online[d]
                 THEN {KillSignal(conn) : conn \in activeConnections[d]}
                 ELSE {}
<1>1. /\ activeClientId' = new
      /\ sent'[d] = NotifyTo(d, new, online)
                       \cup IF d = activeClientId /\ d # new
                              THEN KillClientTunnels(d, online) ELSE {}
  BY DEF SwitchActiveClient, SwitchSignals
<1>2. d # new <=> new = Other(d)
  BY DEF Other
<1>3. \A s \in NotifyTo(d, new, online) : s.type # "kill"
  BY DEF NotifyTo, ActiveSignal
<1>4. \A s \in KillClientTunnels(d, online) : s.type = "kill"
  BY DEF KillClientTunnels, KillSignal
<1>5. KillClientTunnels(d, online) =
          IF online[d] THEN {KillSignal(conn) : conn \in activeConnections[d]} ELSE {}
  BY DEF KillClientTunnels
<1> HIDE DEF Client, None
<1> QED
  BY <1>1, <1>2, <1>3, <1>4, <1>5

(* A step that sends nothing and leaves the active client, or gives it up,  *)
(* kills nothing and demotes nobody.                                        *)
LEMMA QuietKills ==
    ASSUME sent' = NoSignals, activeClientId' \in {activeClientId, None}, NEW d \in Client
    PROVE  {s \in sent'[d] : s.type = "kill"} =
               IF activeClientId = d /\ activeClientId' = Other(d) /\ clientOnlineState'[d]
                 THEN {KillSignal(conn) : conn \in activeConnections[d]}
                 ELSE {}
<1>1. ~(activeClientId = d /\ activeClientId' = Other(d))
  BY DEF Other
<1>2. sent'[d] = {}
  BY DEF NoSignals
<1> QED
  BY <1>1, <1>2

(* Every step is a switch to a client, or sends nothing and leaves the      *)
(* active one, or gives it up with no client left online.                   *)
SwitchStep ==
    \E new \in Client : \E tunnels, connections :
        SwitchActiveClient(new, clientOnlineState', tunnels, connections)

QuietStep ==
    /\ sent' = NoSignals
    /\ \/ activeClientId' = activeClientId
       \/ /\ activeClientId' = None /\ Emit(None)
          /\ \A d \in Client : ~clientOnlineState'[d]

LEMMA RecordSwitches ==
    ASSUME NEW c \in Client, NEW t, NEW ids, RecordTunnelConnection(c, t, ids),
           UNCHANGED clientOnlineState
    PROVE  SwitchStep \/ QuietStep
BY DEF RecordTunnelConnection, SwitchStep, QuietStep, Quiet

LEMMA EveryStep ==
    ASSUME TypeOK, ApiNext
    PROVE  SwitchStep \/ QuietStep
<1>1. ASSUME NEW c \in Client, NEW nowOnline \in BOOLEAN,
             HandleClientStatusChange(c, nowOnline)
      PROVE  SwitchStep \/ QuietStep
  <2>1. SetRemoteOnline(c, nowOnline) /\ Other(c) \in Client
    BY <1>1 DEF HandleClientStatusChange, Other
  <2>2. CASE nowOnline \/ activeClientId # c
    BY <2>1, <2>2 DEF SetRemoteOnline, QuietStep, Quiet
  <2>3. CASE ~(nowOnline \/ activeClientId # c) /\ clientOnlineState[Other(c)]
    BY <2>1, <2>3 DEF SetRemoteOnline, SwitchStep
  <2>4. CASE ~(nowOnline \/ activeClientId # c) /\ ~clientOnlineState[Other(c)]
    <3>1. /\ activeClientId' = None /\ Emit(None) /\ sent' = NoSignals
          /\ clientOnlineState' = [clientOnlineState EXCEPT ![c] = FALSE]
      BY <2>1, <2>4 DEF SetRemoteOnline
    <3>2. \A d \in Client : ~clientOnlineState'[d]
      BY <2>4, <3>1 DEF TypeOK, Other
    <3> QED
      BY <3>1, <3>2 DEF QuietStep
  <2> QED
    BY <2>2, <2>3, <2>4
<1>2. CASE TunnelsStopped
  BY <1>2 DEF TunnelsStopped, QuietStep, Quiet
<1>3. ASSUME NEW c \in Client, NEW t \in Tunnel, NEW k \in ConnectionId,
             ProcessConnectionSignal(c, t, k)
      PROVE  SwitchStep \/ QuietStep
  BY <1>3, RecordSwitches DEF ProcessConnectionSignal
<1>4. CASE Tick
  BY <1>4 DEF Tick, QuietStep, Quiet
<1>5. ASSUME NEW c \in Client, TriggerFailover(c) PROVE SwitchStep
  BY <1>5 DEF TriggerFailover, SwitchStep
<1>6. ASSUME NEW c \in Client, NEW t \in Tunnel, RecordWithoutId(c, t)
      PROVE  SwitchStep \/ QuietStep
  BY <1>6, RecordSwitches DEF RecordWithoutId
<1>7. ASSUME NEW c \in Client, NEW t \in Tunnel, RemoveTunnel(c, t)
      PROVE  QuietStep
  BY <1>7 DEF RemoveTunnel, QuietStep, Quiet
<1>8. ASSUME NEW c \in Client, NEW t \in Tunnel, NEW k \in ConnectionId,
             RemoveTunnelConnection(c, t, k)
      PROVE  QuietStep
  BY <1>8 DEF RemoveTunnelConnection, QuietStep, Quiet
<1> QED
  BY <1>1, <1>2, <1>3, <1>4, <1>5, <1>6, <1>7, <1>8 DEF ApiNext, Next

(* Kill signals go to the demoted client alone, and for every connection    *)
(* tracked: no other step of the class sends one, to anybody.               *)
THEOREM KillsReachOnlyDemoted == ApiSpec => KillOnlyDemoted
<1>1. ASSUME TypeOK, TypeOK', ApiNext, NEW c \in Client
      PROVE  {s \in sent'[c] : s.type = "kill"} =
                 IF activeClientId = c /\ activeClientId' = Other(c) /\ clientOnlineState'[c]
                   THEN {KillSignal(conn) : conn \in activeConnections[c]}
                   ELSE {}
  <2>1. CASE SwitchStep
    <3>1. clientOnlineState' \in [Client -> BOOLEAN]
      BY <1>1 DEF TypeOK
    <3> QED
      BY <1>1, <2>1, <3>1, SwitchKills DEF SwitchStep
  <2>2. CASE QuietStep
    BY <2>2, QuietKills DEF QuietStep
  <2> QED
    BY <1>1, <2>1, <2>2, EveryStep
<1>2. TypeOK /\ TypeOK' /\ [ApiNext]_vars
          => [\A c \in Client :
                 {s \in sent'[c] : s.type = "kill"} =
                     IF activeClientId = c /\ activeClientId' = Other(c)
                           /\ clientOnlineState'[c]
                       THEN {KillSignal(conn) : conn \in activeConnections[c]}
                       ELSE {}]_vars
  BY <1>1
<1> QED
  BY <1>2, TypeCorrect, PTL DEF ApiSpec, KillOnlyDemoted

(* As long as nothing has completed the observable, nobody misses a change  *)
(* of the active client.                                                    *)
THEOREM EveryChangeIsEmitted == ApiSpec => ChangesEmitted
<1>1. ASSUME TypeOK, ApiNext, ~completed, activeClientId' # activeClientId
      PROVE  emitted' = {activeClientId'}
  BY <1>1, EveryStep DEF SwitchStep, QuietStep, SwitchActiveClient, Emit
<1>2. TypeOK /\ [ApiNext]_vars
          => [~completed /\ activeClientId' # activeClientId
                  => emitted' = {activeClientId'}]_vars
  BY <1>1
<1> QED
  BY <1>2, TypeCorrect, PTL DEF ApiSpec, ChangesEmitted

-----------------------------------------------------------------------------
(* Refinement *)

LEMMA OnlineSetChange ==
    ASSUME TypeOK, NEW c \in Client, NEW nowOnline \in BOOLEAN,
           clientOnlineState' = [clientOnlineState EXCEPT ![c] = nowOnline]
    PROVE  {d \in Client : clientOnlineState[d]}' =
               IF nowOnline THEN {d \in Client : clientOnlineState[d]} \cup {c}
                            ELSE {d \in Client : clientOnlineState[d]} \ {c}
BY DEF TypeOK

(* A status change is a step of the abstract client's connecting or going.  *)
LEMMA StatusRefines ==
    ASSUME TypeOK, NEW c \in Client, NEW nowOnline \in BOOLEAN,
           SetRemoteOnline(c, nowOnline)
    PROVE  AC!Next
<1>1. /\ clientOnlineState' = [clientOnlineState EXCEPT ![c] = nowOnline]
      /\ clientOnlineState \in [Client -> BOOLEAN]
      /\ Other(c) \in Client /\ Other(c) = AC!Other(c)
  BY DEF SetRemoteOnline, TypeOK, Other, AC!Other
<1>2. CASE nowOnline
  <2>1. activeClientId' = activeClientId
    BY <1>2 DEF SetRemoteOnline
  <2>2. AC!Connect(c)
    BY <1>1, <1>2, <2>1, OnlineSetChange DEF AC!Connect
  <2> QED
    BY <2>2 DEF AC!Next, AC!Client
<1>3. CASE ~nowOnline
  <2>1. activeClientId' = IF activeClientId # c THEN activeClientId
                          ELSE IF Other(c) \in {d \in Client : clientOnlineState[d]}
                                 THEN Other(c) ELSE None
    BY <1>1, <1>3 DEF SetRemoteOnline, SwitchActiveClient
  <2>2. {d \in Client : clientOnlineState[d]}' = {d \in Client : clientOnlineState[d]} \ {c}
    BY <1>1, <1>3, OnlineSetChange
  <2>3. AC!Disconnect(c)
    BY <1>1, <2>1, <2>2 DEF AC!Disconnect, AC!None
  <2> QED
    BY <2>3 DEF AC!Next, AC!Client
<1> QED
  BY <1>2, <1>3

(* A choice of an online client, or none at all. *)
LEMMA ChoiceRefines ==
    ASSUME NEW c \in Client, clientOnlineState[c],
           activeClientId' \in {activeClientId, c},
           UNCHANGED clientOnlineState
    PROVE  [AC!Next]_AC!vars
<1>1. CASE activeClientId' = c
  BY <1>1 DEF AC!Next, AC!Activate, AC!Client
<1>2. CASE activeClientId' = activeClientId
  BY <1>2 DEF AC!vars
<1> QED
  BY <1>1, <1>2

LEMMA StepRefines ==
    ASSUME ~LateSignals
    PROVE  TypeOK /\ ActiveIsOnline /\ [ApiNext]_vars => [AC!Next]_AC!vars
<1> SUFFICES ASSUME TypeOK, ActiveIsOnline, [ApiNext]_vars PROVE [AC!Next]_AC!vars
  OBVIOUS
<1>1. ASSUME NEW c \in Client, NEW nowOnline \in BOOLEAN,
             HandleClientStatusChange(c, nowOnline)
      PROVE  [AC!Next]_AC!vars
  BY <1>1, StatusRefines DEF HandleClientStatusChange
<1>2. CASE TunnelsStopped
  BY <1>2 DEF TunnelsStopped, AC!vars
<1>3. ASSUME NEW c \in Client, NEW t \in Tunnel, NEW k \in ConnectionId,
             ProcessConnectionSignal(c, t, k)
      PROVE  [AC!Next]_AC!vars
  BY <1>3, RecordOnline, ChoiceRefines DEF ProcessConnectionSignal
<1>4. CASE Tick
  BY <1>4 DEF Tick, AC!vars
<1>5. ASSUME NEW c \in Client, TriggerFailover(c) PROVE [AC!Next]_AC!vars
  BY <1>5, ChoiceRefines DEF TriggerFailover, SwitchActiveClient
<1>6. ASSUME NEW c \in Client, NEW t \in Tunnel, RecordWithoutId(c, t)
      PROVE  [AC!Next]_AC!vars
  BY <1>6, RecordOnline, ChoiceRefines DEF RecordWithoutId
<1>7. ASSUME NEW c \in Client, NEW t \in Tunnel, RemoveTunnel(c, t)
      PROVE  [AC!Next]_AC!vars
  BY <1>7 DEF RemoveTunnel, AC!vars
<1>8. ASSUME NEW c \in Client, NEW t \in Tunnel, NEW k \in ConnectionId,
             RemoveTunnelConnection(c, t, k)
      PROVE  [AC!Next]_AC!vars
  BY <1>8 DEF RemoveTunnelConnection, AC!vars
<1>9. CASE UNCHANGED vars
  BY <1>9 DEF vars, AC!vars
<1> QED
  BY <1>1, <1>2, <1>3, <1>4, <1>5, <1>6, <1>7, <1>8, <1>9 DEF ApiNext, Next

(* The controller implements the abstract choice of the active client: it   *)
(* only ever chooses an online client, and gives the role up without a      *)
(* successor only when the other client is offline too.                     *)
THEOREM Implementation == ASSUME ~LateSignals PROVE ApiSpec => ImplementsActiveClient
<1>1. Init => AC!Init
  BY DEF Init, AC!Init, AC!None
<1>2. TypeOK /\ ActiveIsOnline /\ [ApiNext]_vars => [AC!Next]_AC!vars
  BY StepRefines
<1> QED
  BY <1>1, <1>2, TypeCorrect, ActiveAlwaysOnline, PTL
  DEF ApiSpec, ImplementsActiveClient, AC!Spec
=============================================================================
