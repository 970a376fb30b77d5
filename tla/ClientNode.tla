----------------------------- MODULE ClientNode -----------------------------
(***************************************************************************)
(* A client process: its tunnels as its link to the server comes and goes  *)
(* and as it is told that the other client has become active.  Two         *)
(* coroutines of WebsocketClientController work on the same handlers,      *)
(*   _handleUpDownTunnels      start or stop all tunnels,                  *)
(*   _handleStandbyTransition  stop the listen tunnels, wait               *)
(*                             standbySocketCloseDurationSecs, start them, *)
(* and nothing keeps them, or two of the second, apart.  The actions are   *)
(* the stretches they run without yielding.                                *)
(*                                                                         *)
(* A standby transition and the closing of a port are both callLater(0),   *)
(* which the reactor runs in the order they were asked for: a transition   *)
(* is ahead of the close that is pending, or behind it.                    *)
(***************************************************************************)
EXTENDS TunnelHandlers

CONSTANTS
    MaxOnline,    \* bound: times the server comes online
    MaxSignals    \* bound: active signals received naming the other client

ASSUME ClientNodeAssumption == {MaxOnline, MaxSignals} \subseteq Nat

VARIABLES
    serverOnline,    \* ActiveRemoteController._serverOnline
    transitions,     \* standby transitions scheduled (callLater(0, ...)) ...
    later,           \* ... and those scheduled behind the port that is closing
    onlineCount,     \* times online so far
    signalCount      \* signals so far

counters == <<onlineCount, signalCount>>
scheduled == <<transitions, later>>
vars == <<handlers, serverOnline, scheduled, counters>>

TypeOK ==
    /\ HandlersTypeOK
    /\ serverOnline \in BOOLEAN
    /\ transitions \in Nat
    /\ later \in Nat
    /\ onlineCount \in 0..MaxOnline
    /\ signalCount \in 0..MaxSignals

Init ==
    /\ HandlersInit
    /\ serverOnline = FALSE
    /\ transitions = 0
    /\ later = 0
    /\ onlineCount = 0
    /\ signalCount = 0

-----------------------------------------------------------------------------
(* _handleUpDownTunnels(True).  A reconnect takes longer than the few       *)
(* reactor turns of what is scheduled and of a stop.                        *)
ServerOnline ==
    /\ ~serverOnline /\ stopper = "none" /\ transitions = 0 /\ later = 0
    /\ onlineCount < MaxOnline
    /\ onlineCount' = onlineCount + 1
    /\ serverOnline' = TRUE
    /\ StartTunnels
    /\ UNCHANGED <<connected, completed, stopper, stopAt, waiting, scheduled,
                   signalCount>>

(* _handleUpDownTunnels(False) *)
ServerOffline ==
    /\ serverOnline
    /\ serverOnline' = FALSE
    /\ Stop("all")
    /\ UNCHANGED <<connected, leaked, scheduled, counters>>

(* _processActiveSignalClient, naming the other client: every endpoint      *)
(* registered for it makes the standby subject emit, unless the subject is  *)
(* completed; each event is scheduled for the next turn.                    *)
ActiveSignal ==
    /\ serverOnline
    /\ signalCount < MaxSignals
    /\ signalCount' = signalCount + 1
    /\ LET events == IF completed THEN 0
                     ELSE leaked[Controllers] + IF endpoint[Controllers] THEN 1 ELSE 0
       IN  IF stopper = "none"
             THEN /\ transitions' = transitions + events
                  /\ UNCHANGED later
             ELSE /\ later' = later + events
                  /\ UNCHANGED transitions
    /\ UNCHANGED <<handlers, serverOnline, onlineCount>>

(* _handleStandbyTransition, up to its first yield *)
TransitionAnyTime ==
    /\ transitions' = transitions - 1
    /\ Stop("listens")
    /\ UNCHANGED <<serverOnline, later, connected, leaked, counters>>

StandbyTransition ==
    /\ transitions > 0
    /\ transitions' = transitions - 1
    /\ Stop("listens")
    /\ UNCHANGED <<serverOnline, later, connected, leaked, counters>>

(* ... and from the end of its wait. *)
ReopenRegardless ==
    /\ WaitOver
    /\ StartListenTunnels
    /\ UNCHANGED <<serverOnline, scheduled, counters>>

StayClosed ==
    /\ WaitOver
    /\ UNCHANGED <<port, endpoints, serverOnline, scheduled, counters>>

WaitEnds ==
    /\ WaitOver
    /\ IF serverOnline
         THEN StartListenTunnels
         ELSE UNCHANGED <<port, endpoints>>
    /\ UNCHANGED <<serverOnline, scheduled, counters>>

(* The port told to close does, after the transitions asked for before it.  *)
ClosingPort ==
    /\ transitions = 0
    /\ PortClosed
    /\ transitions' = later
    /\ later' = 0
    /\ UNCHANGED <<serverOnline, counters>>

Next ==
    \/ ServerOnline
    \/ ServerOffline
    \/ ActiveSignal
    \/ StandbyTransition
    \/ ClosingPort
    \/ WaitEnds
    \/ \E t \in Listen : /\ Accept(t) \/ ConnectionsEnd(t)
                         /\ UNCHANGED <<serverOnline, scheduled, counters>>

(* The reactor runs what is scheduled and its timers fire. *)
Fairness ==
    /\ WF_vars(StandbyTransition)
    /\ WF_vars(ClosingPort)
    /\ WF_vars(WaitEnds)

Spec == Init /\ [][Next]_vars
FairSpec == Spec /\ Fairness

-----------------------------------------------------------------------------
Idle == stopper = "none" /\ transitions = 0 /\ later = 0 /\ waiting = 0

(* A client without the server has no port open, once its stop is done: an  *)
(* application that connected would be talking to nobody.                   *)
OfflineMeansClosed ==
    ~serverOnline /\ stopper = "none" => AllClosed

(* While the server is online the connect tunnels and the controller are    *)
(* registered for its messages, and so is every tunnel whose port is open:  *)
(* no overlap of stops, waits and starts leaves a tunnel deaf.              *)
OnlineIsServed ==
    /\ serverOnline => endpoint[Controllers] /\ endpoint[Connect]
    /\ OpenIsServed

(* Whatever standby waits and reconnects overlap, all ports are open again  *)
(* while the server is online.                                              *)
PortsReopen ==
    serverOnline ~> AllOpen \/ ~serverOnline

(* While a standby transition waits, the listening ports stay closed        *)
(* (standbySocketCloseDurationSecs: "the standby client will close its      *)
(* listening sockets for this duration").                                   *)
ClosedDuringStandby ==
    waiting > 0 => \A t \in Listen : port[t] # "open"

(* After the tunnels have been stopped none of their endpoints is still     *)
(* registered (_shutdown: "Shutdown the tunnel endpoint and clean up        *)
(* resources").                                                             *)
ShutdownUnregisters ==
    ~serverOnline /\ Idle => \A t \in Listen : leaked[t] = 0 /\ ~endpoint[t]
=============================================================================
