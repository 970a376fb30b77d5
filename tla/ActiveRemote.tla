---------------------------- MODULE ActiveRemote ----------------------------
(***************************************************************************)
(* The server's ActiveRemoteController: which of the two clients is the    *)
(* active one, what it tracks of their tunnel connections, and the signals *)
(* it sends when the active client changes                                 *)
(* (controllers/active_remote_controller.py), with the two callers that    *)
(* drive it: WebsocketServerController.handleClientStatusChange and        *)
(* TunnelConnectionController._processConnectionSignal.                    *)
(*                                                                         *)
(* Every handler runs to its end in one turn of the Twisted reactor, so    *)
(* each is one action, and so is the one coroutine that is not: stopping   *)
(* the tunnels waits for the listening ports to close, hence the action    *)
(* TunnelsStopped, a later step than the disconnect that asks for it.      *)
(***************************************************************************)
EXTENDS Naturals

CONSTANTS
    Tunnel,        \* names of the tunnels whose listen side is on the clients
    ConnectionId,  \* ids of a client's connections ("C1.7": the client is the key)
    Cooldown,      \* _failoverCooldownSecs
    LateSignals    \* may a connection signal be processed while its sender is not
                   \* online to the server?  The code does not check.

ASSUME ActiveRemoteAssumption ==
    /\ Cooldown \in Nat
    /\ LateSignals \in BOOLEAN

Client == {1, 2}
None == 0
Other(c) == IF c = 1 THEN 2 ELSE 1

Connection == Tunnel \X ConnectionId

KillSignal(conn) == [type |-> "kill", connection |-> conn]
ActiveSignal(c) == [type |-> "active", client |-> c]
Signal == [type : {"kill"}, connection : Connection]
              \cup [type : {"active"}, client : Client]

VARIABLES
    activeClientId,     \* the active client, or None
    clientOnlineState,  \* the clients' vortex status
    activeTunnels,      \* per client, the tunnels it reported a connection on
    activeConnections,  \* per client, the connections it reported, by tunnel
    sinceFailover,      \* time since _lastFailoverTime, up to Cooldown
    tunnelsStarted,     \* WebsocketServerController.tunnelsStarted
    signalEndpoint,     \* is the connection-signal endpoint registered?
    completed,          \* has shutdown() completed the observables?
    sent,               \* per client, the signals the last step sent to it
    emitted             \* what the last step made activeClientObservable emit

tracking == <<activeTunnels, activeConnections>>
lifecycle == <<tunnelsStarted, signalEndpoint, completed>>
vars == <<activeClientId, clientOnlineState, tracking, sinceFailover,
          lifecycle, sent, emitted>>

TypeOK ==
    /\ activeClientId \in Client \cup {None}
    /\ clientOnlineState \in [Client -> BOOLEAN]
    /\ activeTunnels \in [Client -> SUBSET Tunnel]
    /\ activeConnections \in [Client -> SUBSET Connection]
    /\ sinceFailover \in 0..Cooldown
    /\ tunnelsStarted \in BOOLEAN
    /\ signalEndpoint \in BOOLEAN
    /\ completed \in BOOLEAN
    /\ sent \in [Client -> SUBSET Signal]
    /\ emitted \in SUBSET (Client \cup {None})

NoSignals == [c \in Client |-> {}]
NoTracking == [c \in Client |-> {}]

Init ==
    /\ activeClientId = None
    /\ clientOnlineState = [c \in Client |-> FALSE]
    /\ activeTunnels = NoTracking
    /\ activeConnections = NoTracking
    /\ sinceFailover = Cooldown          \* _lastFailoverTime is 0, long ago
    /\ tunnelsStarted = FALSE
    /\ signalEndpoint = FALSE
    /\ completed = FALSE
    /\ sent = NoSignals
    /\ emitted = {}

-----------------------------------------------------------------------------
(* on_next of the active client subject: a completed subject drops it. *)
Emit(value) == emitted' = IF completed THEN {} ELSE {value}

Quiet == sent' = NoSignals /\ emitted' = {}

(* _killClientTunnels: one kill signal for each tracked connection, unless *)
(* the client is offline.                                                   *)
KillEvenOffline(c, online) == {KillSignal(conn) : conn \in activeConnections[c]}

KillClientTunnels(c, online) ==
    IF online[c] THEN {KillSignal(conn) : conn \in activeConnections[c]} ELSE {}

(* _notifyClientActive: every online client is told, the standby too. *)
NotifyOnlyNew(d, new, online) ==
    IF d = new /\ online[d] THEN {ActiveSignal(new)} ELSE {}

NotifyTo(d, new, online) == IF online[d] THEN {ActiveSignal(new)} ELSE {}

SwitchSignals(new, online) ==
    [d \in Client |-> NotifyTo(d, new, online)
                         \cup IF d = activeClientId /\ d # new
                                THEN KillClientTunnels(d, online) ELSE {}]

(* _switchActiveClient(new), called with the tracking and the online state  *)
(* as the caller has left them.  A change of client clears the tracking of  *)
(* both clients, the connection that caused the change included.            *)
ClearOnlyTheKilled(new, online, tunnels, connections) ==
    /\ activeClientId' = new
    /\ sinceFailover' = 0
    /\ activeTunnels' = [d \in Client |->
            IF d = Other(new) /\ online[d] THEN {} ELSE tunnels[d]]
    /\ activeConnections' = [d \in Client |->
            IF d = Other(new) /\ online[d] THEN {} ELSE connections[d]]
    /\ sent' = SwitchSignals(new, online)
    /\ Emit(new)

ClearOnlyTunnels(new, online, tunnels, connections) ==
    /\ activeClientId' = new
    /\ sinceFailover' = 0
    /\ activeTunnels' = IF new = activeClientId THEN tunnels ELSE NoTracking
    /\ activeConnections' = [connections EXCEPT ![Other(new)] = {}]
    /\ sent' = SwitchSignals(new, online)
    /\ Emit(new)

SwitchActiveClient(new, online, tunnels, connections) ==
    /\ activeClientId' = new
    /\ sinceFailover' = 0
    /\ activeTunnels' = IF new = activeClientId THEN tunnels ELSE NoTracking
    /\ activeConnections' = IF new = activeClientId THEN connections ELSE NoTracking
    /\ sent' = SwitchSignals(new, online)
    /\ Emit(new)

(* setRemoteOnline on the server.  Only the active client's loss changes    *)
(* who is active; a client that comes online is not made active.            *)
GiveUpAtOnce(c, online) ==
    /\ clientOnlineState' = [clientOnlineState EXCEPT ![c] = online]
    /\ IF ~online /\ activeClientId = c
         THEN /\ activeClientId' = None
              /\ Emit(None)
              /\ sent' = NoSignals
              /\ UNCHANGED <<tracking, sinceFailover>>
         ELSE /\ Quiet
              /\ UNCHANGED <<activeClientId, tracking, sinceFailover>>

SwitchRegardless(c, online) ==
    /\ clientOnlineState' = [clientOnlineState EXCEPT ![c] = online]
    /\ IF ~online /\ activeClientId = c
         THEN SwitchActiveClient(Other(c), clientOnlineState',
                                 activeTunnels, activeConnections)
         ELSE /\ Quiet
              /\ UNCHANGED <<activeClientId, tracking, sinceFailover>>

GiveUpSilently(c, online) ==
    /\ clientOnlineState' = [clientOnlineState EXCEPT ![c] = online]
    /\ IF online \/ activeClientId # c
         THEN /\ Quiet
              /\ UNCHANGED <<activeClientId, tracking, sinceFailover>>
         ELSE IF clientOnlineState[Other(c)]
         THEN SwitchActiveClient(Other(c), clientOnlineState',
                                 activeTunnels, activeConnections)
         ELSE /\ activeClientId' = None
              /\ Quiet
              /\ UNCHANGED <<tracking, sinceFailover>>

SetRemoteOnline(c, online) ==
    /\ clientOnlineState' = [clientOnlineState EXCEPT ![c] = online]
    /\ IF online \/ activeClientId # c
         THEN /\ Quiet
              /\ UNCHANGED <<activeClientId, tracking, sinceFailover>>
         ELSE IF clientOnlineState[Other(c)]
         THEN SwitchActiveClient(Other(c), clientOnlineState',
                                 activeTunnels, activeConnections)
         ELSE /\ activeClientId' = None
              /\ Emit(None)
              /\ sent' = NoSignals
              /\ UNCHANGED <<tracking, sinceFailover>>

(* recordTunnelConnection; ids is the connection's id as a singleton, or    *)
(* the empty set for connectionId=None.                                     *)
RecordFirstOnly(c, t, ids) ==
    LET tunnels == [activeTunnels EXCEPT ![c] = @ \cup {t}]
        connections == [activeConnections EXCEPT ![c] =
                            IF \E conn \in @ : conn[1] = t THEN @ ELSE @ \cup ({t} \X ids)]
    IN  IF \/ activeClientId = None
           \/ ids # {} /\ activeClientId # c
          THEN SwitchActiveClient(c, clientOnlineState, tunnels, connections)
          ELSE /\ activeTunnels' = tunnels
               /\ activeConnections' = connections
               /\ Quiet
               /\ UNCHANGED <<activeClientId, sinceFailover>>

RecordIdOnly(c, t, ids) ==
    LET tunnels == [activeTunnels EXCEPT ![c] = @ \cup {t}]
        connections == [activeConnections EXCEPT ![c] = @ \cup ids]
    IN  IF \/ activeClientId = None
           \/ ids # {} /\ activeClientId # c
          THEN SwitchActiveClient(c, clientOnlineState, tunnels, connections)
          ELSE /\ activeTunnels' = tunnels
               /\ activeConnections' = connections
               /\ Quiet
               /\ UNCHANGED <<activeClientId, sinceFailover>>

RecordTunnelConnection(c, t, ids) ==
    LET tunnels == [activeTunnels EXCEPT ![c] = @ \cup {t}]
        connections == [activeConnections EXCEPT ![c] = @ \cup ({t} \X ids)]
    IN  IF \/ activeClientId = None
           \/ ids # {} /\ activeClientId # c
          THEN SwitchActiveClient(c, clientOnlineState, tunnels, connections)
          ELSE /\ activeTunnels' = tunnels
               /\ activeConnections' = connections
               /\ Quiet
               /\ UNCHANGED <<activeClientId, sinceFailover>>

-----------------------------------------------------------------------------
(* handleClientStatusChange(c, nowOnline): the first client online starts   *)
(* the tunnels, the last one offline begins to stop them.  A client that    *)
(* returns does so after the listening ports have closed (one reactor turn).*)
HandleClientStatusChange(c, nowOnline) ==
    LET anyOnline == nowOnline \/ clientOnlineState[Other(c)]
    IN  /\ anyOnline => (tunnelsStarted \/ ~signalEndpoint)
        /\ SetRemoteOnline(c, nowOnline)
        /\ tunnelsStarted' = anyOnline
        /\ signalEndpoint' = (signalEndpoint \/ anyOnline)
        /\ UNCHANGED completed

(* The end of stopTunnels: both controllers shut down, which completes the  *)
(* observables for good.                                                    *)
TunnelsStopped ==
    /\ signalEndpoint /\ ~tunnelsStarted
    /\ signalEndpoint' = FALSE
    /\ completed' = TRUE
    /\ Quiet
    /\ UNCHANGED <<activeClientId, clientOnlineState, tracking, sinceFailover,
                   tunnelsStarted>>

(* _processConnectionSignal: a client tells of the first data received on   *)
(* one of its listen connections.                                           *)
SignalWithoutId(c, t, k) ==
    /\ signalEndpoint
    /\ LateSignals \/ clientOnlineState[c]
    /\ RecordTunnelConnection(c, t, {})
    /\ UNCHANGED <<clientOnlineState, lifecycle>>

ProcessConnectionSignal(c, t, k) ==
    /\ signalEndpoint
    /\ LateSignals \/ clientOnlineState[c]
    /\ RecordTunnelConnection(c, t, {k})
    /\ UNCHANGED <<clientOnlineState, lifecycle>>

(* Time passes; beyond the cooldown it makes no difference. *)
Tick ==
    /\ sinceFailover < Cooldown
    /\ sinceFailover' = sinceFailover + 1
    /\ Quiet
    /\ UNCHANGED <<activeClientId, clientOnlineState, tracking, lifecycle>>

-----------------------------------------------------------------------------
(* Public methods of the controller that nothing in the program calls.      *)

(* triggerFailover: refused for an offline client and within the cooldown.  *)
TriggerFailover(c) ==
    /\ clientOnlineState[c]
    /\ sinceFailover >= Cooldown
    /\ SwitchActiveClient(c, clientOnlineState, activeTunnels, activeConnections)
    /\ UNCHANGED <<clientOnlineState, lifecycle>>

(* recordTunnelConnection without an id: makes the client active only if no *)
(* client is.                                                               *)
RecordWithoutId(c, t) ==
    /\ LateSignals \/ clientOnlineState[c]
    /\ RecordTunnelConnection(c, t, {})
    /\ UNCHANGED <<clientOnlineState, lifecycle>>

(* removeTunnelConnection with an id: a tunnel that loses its last          *)
(* connection is dropped, and so is a tunnel that had none.                 *)
RemoveTunnelConnection(c, t, k) ==
    LET rest == activeConnections[c] \ {<<t, k>>}
    IN  /\ activeConnections' = [activeConnections EXCEPT ![c] = rest]
        /\ activeTunnels' = [activeTunnels EXCEPT ![c] =
                                IF \E i \in ConnectionId : <<t, i>> \in rest
                                  THEN @ ELSE @ \ {t}]
        /\ Quiet
        /\ UNCHANGED <<activeClientId, clientOnlineState, sinceFailover, lifecycle>>

(* removeTunnelConnection without an id: the whole tunnel goes. *)
RemoveTunnel(c, t) ==
    /\ activeConnections' = [activeConnections EXCEPT ![c] =
                                {conn \in @ : conn[1] # t}]
    /\ activeTunnels' = [activeTunnels EXCEPT ![c] = @ \ {t}]
    /\ Quiet
    /\ UNCHANGED <<activeClientId, clientOnlineState, sinceFailover, lifecycle>>

-----------------------------------------------------------------------------
(* What the program does... *)
Next ==
    \/ \E c \in Client, nowOnline \in BOOLEAN : HandleClientStatusChange(c, nowOnline)
    \/ TunnelsStopped
    \/ \E c \in Client, t \in Tunnel, k \in ConnectionId : ProcessConnectionSignal(c, t, k)
    \/ Tick

(* ... and what a user of the whole class may do. *)
ApiNext ==
    \/ Next
    \/ \E c \in Client : TriggerFailover(c)
    \/ \E c \in Client, t \in Tunnel : RecordWithoutId(c, t) \/ RemoveTunnel(c, t)
    \/ \E c \in Client, t \in Tunnel, k \in ConnectionId : RemoveTunnelConnection(c, t, k)

Spec == Init /\ [][Next]_vars
ApiSpec == Init /\ [][ApiNext]_vars

-----------------------------------------------------------------------------
(* Only the active client's connections are tracked: a kill signal at the   *)
(* next failover can then only reach connections of the client demoted by   *)
(* it.  (With no client active the last one's tracking stays.)              *)
TrackedOnlyForActive ==
    \A c \in Client : activeConnections[c] # {} => activeClientId \in {c, None}

(* Every tracked connection's tunnel is among the client's active tunnels,  *)
(* however _activeTunnels and _activeConnections are updated.  The reverse  *)
(* does not hold of the class: a tunnel recorded without a connection id    *)
(* has no connections.                                                      *)
TrackedTunnels ==
    \A c \in Client : \A conn \in activeConnections[c] : conn[1] \in activeTunnels[c]

(* As the program uses the class, the two dictionaries agree: the active    *)
(* tunnels are those of the tracked connections.                            *)
TablesAgree ==
    \A c \in Client : activeTunnels[c] = {conn[1] : conn \in activeConnections[c]}

(* The active client is online, so getActiveRemoteVortexName never routes   *)
(* to a client that has gone.                                               *)
ActiveIsOnline == activeClientId # None => clientOnlineState[activeClientId]

(* The controller implements the abstract choice of the active client. *)
AC == INSTANCE ActiveClient
          WITH active <- activeClientId,
               online <- {c \in Client : clientOnlineState[c]}

ImplementsActiveClient == AC!Spec

(* A client is sent kill signals only by the step that makes it standby     *)
(* while it stays online, and then for exactly the connections tracked.     *)
KillOnlyDemoted ==
    [][\A c \in Client :
          {s \in sent'[c] : s.type = "kill"} =
              IF activeClientId = c /\ activeClientId' = Other(c) /\ clientOnlineState'[c]
                THEN {KillSignal(conn) : conn \in activeConnections[c]}
                ELSE {}]_vars

(* Until the tunnels have been stopped once, every change of the active     *)
(* client is emitted on activeClientObservable ("Emits the active client ID *)
(* (1, 2, or None) when it changes").                                       *)
ChangesEmitted ==
    [][~completed /\ activeClientId' # activeClientId
           => emitted' = {activeClientId'}]_vars
=============================================================================
