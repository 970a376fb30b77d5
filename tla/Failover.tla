------------------------------ MODULE Failover ------------------------------
(***************************************************************************)
(* Server and clients together: how the data of an application moves the   *)
(* active role from one client to the other, and what the other client     *)
(* does when it hears of it.  The server is ActiveRemote.  A client is its *)
(* listening port (with the websocket's comings and goings and the standby *)
(* wait), its connections, and the connection signals it sends.  The       *)
(* transport is "potentially unordered" (TunnelProtocol): a link delivers  *)
(* what it carries in any order while it is up, and loses it when it goes. *)
(* Each process hears of its links by itself, through events that          *)
(* callLater(0, ...) makes it handle in order, so that data of a client    *)
(* may reach the server before the server knows the client.                *)
(*                                                                         *)
(* A client stops its listen tunnels in one step here, and has one port    *)
(* for all of them: the reactor turns of a stop are ClientNode's.          *)
(***************************************************************************)
EXTENDS ActiveRemote, Sequences, FiniteSets

CONSTANTS
    MaxConnections,  \* bound: per client, connections accepted
    MaxLosses        \* bound: times a link goes down

(* The server's process has no check of who is online (LateSignals). *)
ASSUME FailoverAssumption ==
    /\ LateSignals
    /\ MaxConnections \in [Client -> Nat]
    /\ \A c \in Client : 1..MaxConnections[c] \subseteq ConnectionId
    /\ MaxLosses \in Nat

VARIABLES
    link,          \* per client: is its websocket to the server up?
    toServer,      \* per client: connection signals on their way
    toClient,      \* per client: how many of each signal are on their way to it
    serverNews,    \* per client: status changes of its link the server will handle
    clientNews,    \* per client: status changes the client itself will handle
    serverOnline,  \* per client: ActiveRemoteController._serverOnline
    port,          \* per client: is it listening?
    standbyDone,   \* per client: is _standbyTransitionSubject completed?
    transitions,   \* per client: standby transitions scheduled (callLater(0, ...))
    waiting,       \* per client: standby transitions in their wait
    counter,       \* per client: GlobalConnectionCounter._counter
    open,          \* per client: connections accepted and not ended
    speaking,      \* ... those of them that have sent data (_hasSentData)
    scheduled,     \* per client: signals that will be sent 0.1 s after the data
    losses,        \* times a link went down so far
    early,         \* history: per client, connections the server was told of while
                   \* it did not know the client to be online
    reports,       \* history: connections that have sent data
    failovers      \* history: times a client was made active that was not

news == <<serverNews, clientNews>>
network == <<link, toServer, toClient, news, losses>>
listener == <<serverOnline, port, standbyDone, transitions, waiting>>
connections == <<counter, open, speaking, scheduled>>
clients == <<listener, connections>>
history == <<early, reports, failovers>>
failoverVars == <<vars, network, clients, history>>

Status == {"online", "offline"}
NothingSent == [s \in Signal |-> 0]

FailoverTypeOK ==
    /\ TypeOK
    /\ link \in [Client -> BOOLEAN]
    /\ toServer \in [Client -> SUBSET Connection]
    /\ toClient \in [Client -> [Signal -> Nat]]
    /\ serverNews \in [Client -> Seq(Status)]
    /\ clientNews \in [Client -> Seq(Status)]
    /\ serverOnline \in [Client -> BOOLEAN]
    /\ port \in [Client -> BOOLEAN]
    /\ standbyDone \in [Client -> BOOLEAN]
    /\ transitions \in [Client -> Nat]
    /\ waiting \in [Client -> Nat]
    /\ \A c \in Client : counter[c] \in 0..MaxConnections[c]
    /\ open \in [Client -> SUBSET Connection]
    /\ speaking \in [Client -> SUBSET Connection]
    /\ scheduled \in [Client -> SUBSET Connection]
    /\ losses \in 0..MaxLosses
    /\ early \in [Client -> SUBSET Connection]
    /\ reports \in Nat
    /\ failovers \in Nat

FailoverInit ==
    /\ Init
    /\ link = [c \in Client |-> FALSE]
    /\ toServer = [c \in Client |-> {}]
    /\ toClient = [c \in Client |-> NothingSent]
    /\ serverNews = [c \in Client |-> <<>>]
    /\ clientNews = [c \in Client |-> <<>>]
    /\ serverOnline = [c \in Client |-> FALSE]
    /\ port = [c \in Client |-> FALSE]
    /\ standbyDone = [c \in Client |-> FALSE]
    /\ transitions = [c \in Client |-> 0]
    /\ waiting = [c \in Client |-> 0]
    /\ counter = [c \in Client |-> 0]
    /\ open = [c \in Client |-> {}]
    /\ speaking = [c \in Client |-> {}]
    /\ scheduled = [c \in Client |-> {}]
    /\ losses = 0
    /\ early = [c \in Client |-> {}]
    /\ reports = 0
    /\ failovers = 0

-----------------------------------------------------------------------------
(* The links *)

(* A client connects again after both ends have handled that it had gone,   *)
(* and after the reactor turn of what the client had scheduled.             *)
LinkUp(c) ==
    /\ ~link[c] /\ transitions[c] = 0
    /\ ~clientOnlineState[c] /\ serverNews[c] = <<>>
    /\ ~serverOnline[c] /\ clientNews[c] = <<>>
    /\ link' = [link EXCEPT ![c] = TRUE]
    /\ serverNews' = [serverNews EXCEPT ![c] = <<"online">>]
    /\ clientNews' = [clientNews EXCEPT ![c] = <<"online">>]
    /\ UNCHANGED <<vars, toServer, toClient, losses, clients, history>>

LinkLost(c) ==
    /\ link[c] /\ losses < MaxLosses
    /\ losses' = losses + 1
    /\ link' = [link EXCEPT ![c] = FALSE]
    /\ toServer' = [toServer EXCEPT ![c] = {}]
    /\ toClient' = [toClient EXCEPT ![c] = NothingSent]
    /\ serverNews' = [serverNews EXCEPT ![c] = Append(@, "offline")]
    /\ clientNews' = [clientNews EXCEPT ![c] = Append(@, "offline")]
    /\ UNCHANGED <<vars, clients, history>>

-----------------------------------------------------------------------------
(* The server: ActiveRemote's steps, and what they send *)

Posted ==
    /\ toClient' = [d \in Client |-> [s \in Signal |->
                       IF s \in sent'[d] /\ link[d] THEN toClient[d][s] + 1
                       ELSE toClient[d][s]]]
    /\ failovers' = IF activeClientId' \in {activeClientId, None}
                      THEN failovers ELSE failovers + 1
    /\ UNCHANGED <<link, losses, clientNews, clients, reports>>

(* A status change, in the order of the changes. *)
ServerNotices(c) ==
    /\ serverNews[c] # <<>>
    /\ serverNews' = [serverNews EXCEPT ![c] = Tail(@)]
    /\ HandleClientStatusChange(c, Head(serverNews[c]) = "online")
    /\ Posted
    /\ UNCHANGED <<toServer, early>>

ServerStopped ==
    /\ TunnelsStopped
    /\ Posted
    /\ UNCHANGED <<toServer, serverNews, early>>

(* The server takes a connection signal off the link. *)
Taken(c, conn) ==
    /\ toServer' = [toServer EXCEPT ![c] = @ \ {conn}]
    /\ early' = [early EXCEPT ![c] = IF clientOnlineState[c] THEN @ ELSE @ \cup {conn}]
    /\ UNCHANGED serverNews

(* It is processed if there is an endpoint for it, whether or not the       *)
(* server knows the client to be online ...                                 *)
ServerReceives(c) ==
    \E conn \in toServer[c] :
        /\ Taken(c, conn)
        /\ ProcessConnectionSignal(c, conn[1], conn[2])
        /\ Posted

(* ... and lost if there is none: the client will not send it again. *)
SignalDropped(c) ==
    /\ ~signalEndpoint
    /\ \E conn \in toServer[c] : Taken(c, conn)
    /\ UNCHANGED <<vars, link, toClient, clientNews, losses, clients, reports, failovers>>

-----------------------------------------------------------------------------
(* A client's link and port *)

(* TcpTunnelListen.shutdown: no port, and no connection left. *)
StopListening(c) ==
    /\ port' = [port EXCEPT ![c] = FALSE]
    /\ open' = [open EXCEPT ![c] = {}]
    /\ speaking' = [speaking EXCEPT ![c] = {}]
    /\ UNCHANGED <<counter, scheduled>>

(* _handleUpDownTunnels(True) *)
ClientOnline(c) ==
    /\ clientNews[c] # <<>> /\ Head(clientNews[c]) = "online"
    /\ clientNews' = [clientNews EXCEPT ![c] = Tail(@)]
    /\ serverOnline' = [serverOnline EXCEPT ![c] = TRUE]
    /\ port' = [port EXCEPT ![c] = TRUE]
    /\ UNCHANGED <<vars, link, toServer, toClient, serverNews, losses, standbyDone,
                   transitions, waiting, connections, history>>

(* _handleUpDownTunnels(False), which ends in shutdown of the controller. *)
ClientOffline(c) ==
    /\ clientNews[c] # <<>> /\ Head(clientNews[c]) = "offline"
    /\ clientNews' = [clientNews EXCEPT ![c] = Tail(@)]
    /\ serverOnline' = [serverOnline EXCEPT ![c] = FALSE]
    /\ standbyDone' = [standbyDone EXCEPT ![c] = TRUE]
    /\ StopListening(c)
    /\ UNCHANGED <<vars, link, toServer, toClient, serverNews, losses,
                   transitions, waiting, history>>

(* A message of the server.  A kill signal ends its connection, an active   *)
(* signal that names the other client schedules a standby transition; a     *)
(* client that has not noticed its link has no endpoint for either.         *)
ClientReceives(c) ==
    /\ \E s \in Signal :
        /\ toClient[c][s] > 0
        /\ toClient' = [toClient EXCEPT ![c][s] = @ - 1]
        /\ LET killed == {conn \in open[c] : serverOnline[c] /\ s = KillSignal(conn)}
           IN  /\ open' = [open EXCEPT ![c] = @ \ killed]
               /\ speaking' = [speaking EXCEPT ![c] = @ \ killed]
        /\ transitions' = [transitions EXCEPT ![c] =
               IF serverOnline[c] /\ s = ActiveSignal(Other(c)) /\ ~standbyDone[c]
                 THEN @ + 1 ELSE @]
    /\ UNCHANGED <<vars, link, toServer, news, losses, serverOnline, port, standbyDone,
                   waiting, counter, scheduled, history>>

(* _handleStandbyTransition, up to its wait ... *)
StandbyTransition(c) ==
    /\ transitions[c] > 0
    /\ transitions' = [transitions EXCEPT ![c] = @ - 1]
    /\ waiting' = [waiting EXCEPT ![c] = @ + 1]
    /\ StopListening(c)
    /\ UNCHANGED <<vars, network, serverOnline, standbyDone, history>>

(* ... and from its end. *)
StayClosed(c) ==
    /\ waiting[c] > 0
    /\ waiting' = [waiting EXCEPT ![c] = @ - 1]
    /\ UNCHANGED <<vars, network, port, serverOnline, standbyDone, transitions,
                   connections, history>>

WaitEnds(c) ==
    /\ waiting[c] > 0
    /\ waiting' = [waiting EXCEPT ![c] = @ - 1]
    /\ port' = [port EXCEPT ![c] = @ \/ serverOnline[c]]
    /\ UNCHANGED <<vars, network, serverOnline, standbyDone, transitions,
                   connections, history>>

-----------------------------------------------------------------------------
(* A client's connections *)

Accept(c, t) ==
    /\ port[c]
    /\ counter[c] < MaxConnections[c]
    /\ counter' = [counter EXCEPT ![c] = @ + 1]
    /\ open' = [open EXCEPT ![c] = @ \cup {<<t, counter[c] + 1>>}]
    /\ UNCHANGED <<vars, network, listener, speaking, scheduled, history>>

ConnectionEnds(c, conn) ==
    /\ conn \in open[c]
    /\ open' = [open EXCEPT ![c] = @ \ {conn}]
    /\ speaking' = [speaking EXCEPT ![c] = @ \ {conn}]
    /\ UNCHANGED <<vars, network, listener, counter, scheduled, history>>

(* The first data of a connection: _sendConnectionSignal looks for the      *)
(* server at once and sends 0.1 s later.                                    *)
EveryDataReported(c, conn) ==
    /\ conn \in open[c]
    /\ speaking' = [speaking EXCEPT ![c] = @ \cup {conn}]
    /\ scheduled' = [scheduled EXCEPT ![c] = IF serverOnline[c] THEN @ \cup {conn} ELSE @]
    /\ reports' = IF conn \in speaking[c] THEN reports ELSE reports + 1
    /\ UNCHANGED <<vars, network, listener, counter, open, early, failovers>>

FirstDataReceived(c, conn) ==
    /\ conn \in open[c] \ speaking[c]
    /\ speaking' = [speaking EXCEPT ![c] = @ \cup {conn}]
    /\ scheduled' = [scheduled EXCEPT ![c] = IF serverOnline[c] THEN @ \cup {conn} ELSE @]
    /\ reports' = reports + 1
    /\ UNCHANGED <<vars, network, listener, counter, open, early, failovers>>

(* Whatever has become of the connection and of the link meanwhile. *)
SignalSwapped(c, conn) ==
    /\ conn \in scheduled[c]
    /\ scheduled' = [scheduled EXCEPT ![c] = @ \ {conn}]
    /\ toServer' = [toServer EXCEPT ![c] = IF link[c] THEN @ \cup {<<conn[2], conn[1]>>} ELSE @]
    /\ UNCHANGED <<vars, link, toClient, news, losses, listener, counter, open,
                   speaking, history>>

SendConnectionSignal(c, conn) ==
    /\ conn \in scheduled[c]
    /\ scheduled' = [scheduled EXCEPT ![c] = @ \ {conn}]
    /\ toServer' = [toServer EXCEPT ![c] = IF link[c] THEN @ \cup {conn} ELSE @]
    /\ UNCHANGED <<vars, link, toClient, news, losses, listener, counter, open,
                   speaking, history>>

(* What a process does by itself, and what its users and the network do. *)
ServerStep ==
    \/ ServerStopped
    \/ \E c \in Client : ServerNotices(c) \/ ServerReceives(c) \/ SignalDropped(c)

ClientStep(c) ==
    \/ ClientOnline(c) \/ ClientOffline(c) \/ ClientReceives(c)
    \/ StandbyTransition(c) \/ WaitEnds(c)
    \/ \E conn \in Connection : SendConnectionSignal(c, conn)

Environment(c) ==
    \/ LinkUp(c) \/ LinkLost(c)
    \/ \E t \in Tunnel : Accept(c, t)
    \/ \E conn \in Connection : ConnectionEnds(c, conn) \/ FirstDataReceived(c, conn)

FailoverNext == ServerStep \/ \E c \in Client : ClientStep(c) \/ Environment(c)

(* The reactors go on: they run what is scheduled, notice what has become   *)
(* of a link and process what it delivers.  Nothing is assumed of links and *)
(* applications.                                                            *)
Fairness ==
    /\ WF_failoverVars(ServerStep)
    /\ \A c \in Client : WF_failoverVars(ClientStep(c))

FailoverSpec == FailoverInit /\ [][FailoverNext]_failoverVars /\ Fairness

-----------------------------------------------------------------------------
(* Nothing is under way, and every event has been handled. *)
Settled ==
    \A c \in Client :
        /\ toServer[c] = {} /\ toClient[c] = NothingSent
        /\ serverNews[c] = <<>> /\ clientNews[c] = <<>>
        /\ scheduled[c] = {} /\ transitions[c] = 0

(* Once all signals have been worked off, a connection that has sent data   *)
(* is on the active client: of two clients with traffic one has given its   *)
(* connections up (tcp_tunnel_listen.py, _onFirstDataReceived; failover by  *)
(* kill and active signals).  Left out are connections the server was told  *)
(* of before it knew their client, which it may have dropped ("Delay signal *)
(* slightly to ensure server tunnel handlers are ready" is all there is     *)
(* against that, tunnel_connection_controller.py:102), and a client that    *)
(* has been offline before, which no longer hears that it is standby.       *)
TrafficIsOnActive ==
    Settled => \A c \in Client :
        speaking[c] \ early[c] # {} /\ ~standbyDone[c] => activeClientId = c

(* The same of a client that has been offline before, when the server was   *)
(* told of nothing too early (_switchActiveClient: "Switch the active       *)
(* client and kill tunnels on the old active client").                      *)
NoTrafficOnStandby ==
    Settled /\ (\A c \in Client : early[c] = {})
        => \A c \in Client : speaking[c] # {} => activeClientId = c

(* Failovers do not set off failovers: each is the doing of one connection  *)
(* that has begun to send or of one link that was lost, although nothing    *)
(* slows recordTunnelConnection down as triggerFailover is.                 *)
FailoversHaveCause == failovers <= reports + losses

(* Data on a client that the server knows to be online makes it active     *)
(* while its link stays up ("When the first data is sent to a standby       *)
(* client's listening socket, that client becomes active", README.md:167),  *)
(* also after a time with no client active.                                 *)
DataMakesActive ==
    \A c \in Client :
        scheduled[c] # {} /\ clientOnlineState[c] ~> activeClientId = c \/ ~link[c]

(* The active client comes to listen, also when it became active in the     *)
(* middle of its own standby wait.                                          *)
ActiveListens ==
    \A c \in Client : activeClientId = c ~> port[c] \/ activeClientId # c \/ ~link[c]
=============================================================================
