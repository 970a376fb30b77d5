----------------------------- MODULE ServerNode -----------------------------
(***************************************************************************)
(* The server process: its tunnels as clients come and go and as the       *)
(* active client changes.  Two coroutines of WebsocketServerController     *)
(* work on the same handlers,                                              *)
(*   handleClientStatusChange  start all tunnels with the first client,    *)
(*                             stop them with the last,                    *)
(*   handleActiveClientChange  the failover coordination: stop the listen  *)
(*                             tunnels, wait, start them again,            *)
(* of which _failoverInProgress keeps two of the second apart, and nothing *)
(* the first from the second.  Who is active is ActiveClient's choice,     *)
(* which ActiveRemote is shown to implement.                               *)
(***************************************************************************)
EXTENDS TunnelHandlers, Sequences

CONSTANTS
    MaxOnline,   \* bound: times a client comes online
    MaxSignals   \* bound: connection signals that change the active client

ASSUME ServerNodeAssumption == {MaxOnline, MaxSignals} \subseteq Nat

VARIABLES
    active,       \* the active client, or None
    online,       \* the clients online; the tunnels are started if there is one
    changes,      \* activeClientObservable's emissions scheduled (callLater(0, ...))
    failover,     \* the client of the coordination in progress, or None
    onlineCount,  \* times a client came online so far
    signalCount   \* signals so far

AC == INSTANCE ActiveClient
Client == AC!Client
None == AC!None

clients == <<active, online>>
counters == <<onlineCount, signalCount>>
vars == <<handlers, clients, changes, failover, counters>>

TypeOK ==
    /\ HandlersTypeOK
    /\ active \in Client \cup {None}
    /\ online \subseteq Client
    /\ changes \in Seq(Client)
    /\ failover \in Client \cup {None}
    /\ onlineCount \in 0..MaxOnline
    /\ signalCount \in 0..MaxSignals

Init ==
    /\ HandlersInit
    /\ AC!Init
    /\ changes = <<>>
    /\ failover = None
    /\ onlineCount = 0
    /\ signalCount = 0

-----------------------------------------------------------------------------
(* activeClientObservable: a change to None is emitted too, and ignored by  *)
(* handleActiveClientChange; a completed subject emits nothing.             *)
EmitChange ==
    changes' = IF active' \in {active, None} \/ completed THEN changes
               ELSE Append(changes, active')

(* handleClientStatusChange(c, True).  The first client finds the tunnels   *)
(* at rest: a reconnect takes longer than a few reactor turns.              *)
ClientOnline(c) ==
    /\ c \notin online /\ onlineCount < MaxOnline
    /\ onlineCount' = onlineCount + 1
    /\ AC!Connect(c)
    /\ IF online = {}
         THEN /\ stopper = "none" /\ changes = <<>>
              /\ StartTunnels
         ELSE UNCHANGED <<port, endpoints>>
    /\ UNCHANGED <<connected, completed, stopper, stopAt, waiting, changes,
                   failover, signalCount>>

(* handleClientStatusChange(c, False) *)
ClientOffline(c) ==
    /\ c \in online
    /\ AC!Disconnect(c)
    /\ EmitChange
    /\ IF online = {c}
         THEN Stop("all") /\ UNCHANGED <<connected, leaked>>
         ELSE UNCHANGED handlers
    /\ UNCHANGED <<failover, counters>>

(* _processConnectionSignal of a client that is not the active one. *)
ConnectionSignal(c) ==
    /\ endpoint[Controllers]
    /\ active # c /\ signalCount < MaxSignals
    /\ signalCount' = signalCount + 1
    /\ AC!Activate(c)
    /\ EmitChange
    /\ UNCHANGED <<handlers, failover, onlineCount>>

(* handleActiveClientChange, up to its first yield.  A stop that raises     *)
(* ends it, and "finally" the coordination is no longer in progress.        *)
CoordinateAlways ==
    /\ changes # <<>>
    /\ changes' = Tail(changes)
    /\ Stop("listens")
    /\ failover' = IF StopRaises THEN None ELSE Head(changes)
    /\ UNCHANGED <<connected, leaked, clients, counters>>

CoordinateWithoutFinally ==
    /\ changes # <<>>
    /\ changes' = Tail(changes)
    /\ IF failover # None
         THEN UNCHANGED <<handlers, failover>>
         ELSE /\ Stop("listens")
              /\ failover' = Head(changes)
              /\ UNCHANGED <<connected, leaked>>
    /\ UNCHANGED <<clients, counters>>

HandleActiveClientChange ==
    /\ changes # <<>>
    /\ changes' = Tail(changes)
    /\ IF failover # None
         THEN UNCHANGED <<handlers, failover>>
         ELSE /\ Stop("listens")
              /\ failover' = IF StopRaises THEN None ELSE Head(changes)
              /\ UNCHANGED <<connected, leaked>>
    /\ UNCHANGED <<clients, counters>>

(* ... and from the end of its wait: the ports open for the client that is  *)
(* active by now, the coordination's own or another.                        *)
ReopenRegardless ==
    /\ WaitOver
    /\ failover' = None
    /\ StartListenTunnels
    /\ UNCHANGED <<clients, changes, counters>>

ReopenIfUnchanged ==
    /\ WaitOver
    /\ failover' = None
    /\ IF active = failover
         THEN StartListenTunnels
         ELSE UNCHANGED <<port, endpoints>>
    /\ UNCHANGED <<clients, changes, counters>>

NotAwaited ==
    /\ failover # None
    /\ stopper = "none"
    /\ waiting' = waiting - 1
    /\ StartListenTunnels
    /\ UNCHANGED <<connected, completed, stopper, stopAt, failover, clients,
                   changes, counters>>

WaitEnds ==
    /\ WaitOver
    /\ failover' = None
    /\ IF active # None
         THEN StartListenTunnels
         ELSE UNCHANGED <<port, endpoints>>
    /\ UNCHANGED <<clients, changes, counters>>

ClosingPort == PortClosed /\ UNCHANGED <<clients, changes, failover, counters>>

Next ==
    \/ \E c \in Client : ClientOnline(c)
    \/ \E c \in Client : ClientOffline(c)
    \/ \E c \in Client : ConnectionSignal(c)
    \/ HandleActiveClientChange
    \/ ClosingPort
    \/ WaitEnds
    \/ \E t \in Listen : /\ Accept(t) \/ ConnectionsEnd(t)
                         /\ UNCHANGED <<clients, changes, failover, counters>>

(* The reactor runs what is scheduled and its timers fire. *)
Fairness ==
    /\ WF_vars(HandleActiveClientChange)
    /\ WF_vars(ClosingPort)
    /\ WF_vars(WaitEnds)

Spec == Init /\ [][Next]_vars
FairSpec == Spec /\ Fairness

-----------------------------------------------------------------------------
(* Without a client the server has no port open, once its stop is done.     *)
NoClientMeansClosed ==
    online = {} /\ stopper = "none" => AllClosed

(* While a client is online the controllers and the connect tunnels are     *)
(* registered for its messages, and so is every tunnel whose port is open.  *)
OnlineIsServed ==
    /\ online # {} => endpoint[Controllers] /\ endpoint[Connect]
    /\ OpenIsServed

(* One coordination at a time: what stops the listen tunnels or waits to    *)
(* start them again is the one in progress.                                 *)
OneCoordination ==
    waiting + (IF stopper = "listens" THEN 1 ELSE 0) = IF failover = None THEN 0 ELSE 1

(* Whatever failovers, stops and starts overlap, all ports are open again   *)
(* while a client is online.                                                *)
PortsReopen ==
    online # {} ~> AllOpen \/ online = {}

(* A coordination ends, so later changes of the active client are not       *)
(* ignored for ever.                                                        *)
CoordinationEnds ==
    failover # None ~> failover = None
=============================================================================
