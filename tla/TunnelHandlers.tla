--------------------------- MODULE TunnelHandlers ---------------------------
(***************************************************************************)
(* The tunnels of one process as its controllers start and stop them       *)
(* (TunnelController with TcpTunnelListen and TcpTunnelConnect): listening *)
(* ports, the TCP connections accepted on them and the endpoints that      *)
(* receive their messages.  ClientNode and ServerNode add the coroutines   *)
(* that call it.                                                           *)
(*                                                                         *)
(* Nothing keeps one coroutine from starting tunnels another is stopping,  *)
(* or has stopped and will start.                                          *)
(***************************************************************************)
EXTENDS Naturals

CONSTANT N   \* number of listen tunnels

ASSUME TunnelHandlersAssumption == N \in Nat

(* The tunnels, in the order of TunnelController.tunnelHandlers: listen     *)
(* tunnels 1..N, then the connect tunnels, which start and stop together.   *)
Listen == 1..N
Connect == N + 1
Controllers == 0            \* the controllers' own endpoints
Owner == 0..(N + 1)

VARIABLES
    port,            \* per listen tunnel: "closed", "open", or "closing" for the
                     \* turn that stopListening takes
    connected,       \* per listen tunnel: has it open TCP connections?
    endpoint,        \* per owner: does it hold a PayloadEndpoint?
    leaked,          \* per owner: endpoints registered that it no longer holds
    completed,       \* has ActiveRemoteController.shutdown completed its subjects?
    stopper,         \* what is inside stopListening: "none", "listens"
                     \* (stopListenTunnels) or "all" (stopTunnels)
    stopAt,          \* the listen tunnel it is at
    waiting          \* coroutines in the wait that follows stopListenTunnels

sockets == <<port, connected>>
endpoints == <<endpoint, leaked>>
handlers == <<sockets, endpoints, completed, stopper, stopAt, waiting>>

HandlersTypeOK ==
    /\ port \in [Listen -> {"closed", "open", "closing"}]
    /\ connected \in [Listen -> BOOLEAN]
    /\ endpoint \in [Owner -> BOOLEAN]
    /\ leaked \in [Owner -> Nat]
    /\ completed \in BOOLEAN
    /\ stopper \in {"none", "listens", "all"}
    /\ stopAt \in Owner
    /\ waiting \in Nat

HandlersInit ==
    /\ port = [t \in Listen |-> "closed"]
    /\ connected = [t \in Listen |-> FALSE]
    /\ endpoint = [o \in Owner |-> FALSE]
    /\ leaked = [o \in Owner |-> 0]
    /\ completed = FALSE
    /\ stopper = "none"
    /\ stopAt = 0
    /\ waiting = 0

-----------------------------------------------------------------------------
(* Starting.  Each start() registers new endpoints over the ones its owner  *)
(* may still hold, and only then opens the port: the first port that is     *)
(* still in use raises CannotListenError and ends the whole start.          *)

AllClosed == \A t \in Listen : port[t] = "closed"

(* The listen tunnels a start gets to: those no port in use comes before.   *)
Reached == {t \in Listen : \A u \in 1..(t - 1) : port[u] = "closed"}

Register(owners) ==
    /\ endpoint' = [o \in Owner |-> o \in owners \/ endpoint[o]]
    /\ leaked' = [o \in Owner |-> leaked[o] + IF o \in owners /\ endpoint[o] THEN 1 ELSE 0]

OpenListenPorts ==
    port' = [t \in Listen |-> IF t \in Reached /\ port[t] = "closed"
                                THEN "open" ELSE port[t]]

StartListenTunnels ==
    /\ Register(Reached)
    /\ OpenListenPorts

StartTunnels ==
    /\ Register({Controllers} \cup Reached \cup IF AllClosed THEN {Connect} ELSE {})
    /\ OpenListenPorts

-----------------------------------------------------------------------------
(* Stopping.  A tunnel gives up its endpoints, then its port takes one turn *)
(* of the reactor to close; a tunnel without a port is passed in the same   *)
(* turn.  StopFrom(t, who) runs the loop from tunnel t to the next port     *)
(* that has to close, or to the end.                                        *)

NoneOpen(tunnels) == \A t \in tunnels : port[t] # "open"

NextOpen(from) == {t \in from..N : port[t] = "open" /\ NoneOpen(from..(t - 1))}

Unregister(owners) ==
    endpoint' = [o \in Owner |-> endpoint[o] /\ o \notin owners]

(* The port just stopped is closed and tunnel t's, if any, begins to be.    *)
ClosePort(closing) ==
    port' = [t \in Listen |-> IF t \in closing THEN "closing"
                              ELSE IF port[t] = "closing" THEN "closed"
                              ELSE port[t]]

StopNext(from, who) ==
    \E t \in NextOpen(from) :
        /\ ClosePort({t})
        /\ Unregister(from..t)
        /\ stopper' = who
        /\ stopAt' = t
        /\ UNCHANGED <<completed, waiting>>

StopEverything(from, who) ==
    \/ StopNext(from, who)
    \/ /\ NoneOpen(from..N)
       /\ ClosePort({})
       /\ stopper' = "none"
       /\ stopAt' = 0
       /\ Unregister((from..N) \cup {Connect, Controllers})
       /\ completed' = TRUE
       /\ waiting' = waiting + IF who = "all" THEN 0 ELSE 1

StopFrom(from, who) ==
    \/ StopNext(from, who)
    \/ /\ NoneOpen(from..N)
       /\ ClosePort({})
       /\ stopper' = "none"
       /\ stopAt' = 0
       /\ IF who = "all"
            THEN /\ Unregister((from..N) \cup {Connect, Controllers})
                 /\ completed' = TRUE
                 /\ UNCHANGED waiting
            ELSE /\ Unregister(from..N)
                 /\ waiting' = waiting + 1
                 /\ UNCHANGED completed

(* A stop that meets a port another stop is closing calls stopListening     *)
(* again: the second clean-up of the same socket raises and ends it.  All   *)
(* it could have stopped before that port has been stopped already.         *)
StopRaises == stopper # "none"

Stop(who) ==
    IF StopRaises
      THEN UNCHANGED <<port, endpoint, stopper, stopAt, waiting, completed>>
      ELSE StopFrom(1, who)

(* stopListening is done: the tunnel closes its TCP connections             *)
(* (_closeAllConnections) and the loop goes on.                             *)
LeaveConnections ==
    /\ stopper # "none"
    /\ StopFrom(stopAt + 1, stopper)
    /\ UNCHANGED <<connected, leaked>>

PortClosed ==
    /\ stopper # "none"
    /\ connected' = [connected EXCEPT ![stopAt] = FALSE]
    /\ StopFrom(stopAt + 1, stopper)
    /\ UNCHANGED leaked

(* The wait after stopListenTunnels ends: after seconds, and not within the *)
(* few reactor turns in which another stop closes ports.                    *)
WaitOver ==
    /\ waiting > 0 /\ stopper = "none"
    /\ waiting' = waiting - 1
    /\ UNCHANGED <<connected, completed, stopper, stopAt>>

(* An application connects to a listening port; all of a tunnel's           *)
(* connections end (closed by the application, or killed).                  *)
Accept(t) ==
    /\ port[t] = "open" /\ ~connected[t]
    /\ connected' = [connected EXCEPT ![t] = TRUE]
    /\ UNCHANGED <<port, endpoints, completed, stopper, stopAt, waiting>>

ConnectionsEnd(t) ==
    /\ connected[t]
    /\ connected' = [connected EXCEPT ![t] = FALSE]
    /\ UNCHANGED <<port, endpoints, completed, stopper, stopAt, waiting>>

-----------------------------------------------------------------------------
AllOpen == \A t \in Listen : port[t] = "open"
(* No TCP connection outlives its listening port: whatever closes the port  *)
(* for a failover also closes the connections accepted on it.               *)
ConnectionsNeedPort ==
    \A t \in Listen : connected[t] => port[t] # "closed"

(* A tunnel whose port is open is registered for its messages.              *)
OpenIsServed ==
    \A t \in Listen : port[t] = "open" => endpoint[t]
=============================================================================
