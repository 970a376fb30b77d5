-------------------------- MODULE TunnelConnection --------------------------
(***************************************************************************)
(* The life of one tunnelled connection: the connection an application     *)
(* opens at the listen side (TcpTunnelListen), the connection to a backend *)
(* the connect side makes for it (TcpTunnelConnect), and the messages that *)
(* tie them together, while links go and the active client changes         *)
(* (tcp_tunnel/tcp_tunnel_{abc,listen,connect}.py).                        *)
(*                                                                         *)
(* home is where it was accepted.  The connection "C1.n" of client 1 has   *)
(* its connect side on the server, which answers the client named in the   *)
(* id.  A connection "S.n" of the server has connect sides on both         *)
(* clients, and whatever it says goes to the client active at the time.    *)
(*                                                                         *)
(* The transport is "potentially unordered" (TunnelProtocol): a link       *)
(* delivers what it carries in any order, and only data is numbered, so    *)
(* "made" and "lost" may overtake it and be overtaken.  It loses only what *)
(* is under way when it goes down.  What write() does with the numbers is  *)
(* PacketStream's matter: a chunk handed to it counts as written here.     *)
(* Both ends notice a loss at once; that they do so apart is Failover's.   *)
(***************************************************************************)
EXTENDS Naturals

CONSTANTS
    MaxData,    \* bound: chunks read from the application, and from the backend
    MaxChanges, \* bound: changes of the active client while both stay online
    MaxLosses   \* bound: times a link goes down

ASSUME TunnelConnectionAssumption == {MaxData, MaxChanges, MaxLosses} \subseteq Nat

None == 0
Client == {1, 2}
Other(c) == IF c = 1 THEN 2 ELSE 1
Server == 3
Process == Client \cup {Server}
Message == {"made", "data", "lost"}
Empty == [m \in Message |-> 0]

VARIABLES
    home,        \* the process with the listen side: the server, or client 1
    listenConn,  \* the application's connection: "none", "open", "closed" (taken
                 \* out of _activeConnections and told to close), "gone" (connectionLost)
    backend,     \* per process, the connect side's: the same, and "connecting"
    route,       \* _connectionClients[connectionId] on the server, or None
    online,      \* per client: is its link up?
    active,      \* the server's active client, or None
    toServer,    \* per client, how many of each message its link carries to the server
    toClient,    \* per client, how many of each its link carries to it
    sent,        \* chunks the application gave to the listen side
    replied,     \* chunks a backend gave to a connect side
    buffered,    \* per process, chunks in the connect side's _connectionDataBuffers
    got,         \* per process, chunks written to the backend
    confirmed,   \* history: has the listen side heard of a backend connection?
    overtaken,   \* history: what the last "lost" a connect side heard has overtaken
    changes,     \* changes of the active client so far
    losses       \* losses of a link so far

listener == <<home, listenConn, sent, confirmed>>
connector == <<backend, buffered, got, replied>>
links == <<online, active, changes, losses>>
carried == <<toServer, toClient>>
vars == <<listener, connector, route, overtaken, links, carried>>

ConnectSide == IF home = Server THEN Client ELSE {Server}

TypeOK ==
    /\ home \in {1, Server}
    /\ listenConn \in {"none", "open", "closed", "gone"}
    /\ backend \in [Process -> {"none", "connecting", "open", "closed", "gone"}]
    /\ route \in Client \cup {None}
    /\ online \in [Client -> BOOLEAN]
    /\ active \in Client \cup {None}
    /\ toServer \in [Client -> [Message -> Nat]]
    /\ toClient \in [Client -> [Message -> Nat]]
    /\ {sent, replied} \subseteq 0..MaxData
    /\ buffered \in [Process -> 0..MaxData]
    /\ got \in [Process -> 0..MaxData]
    /\ confirmed \in BOOLEAN
    /\ overtaken \in [Message -> Nat]
    /\ changes \in 0..MaxChanges
    /\ losses \in 0..MaxLosses

Init ==
    /\ home \in {1, Server}
    /\ listenConn = "none"
    /\ backend = [p \in Process |-> "none"]
    /\ route = None
    /\ online = [c \in Client |-> TRUE]
    /\ active \in Client \cup {None}
    /\ toServer = [c \in Client |-> Empty]
    /\ toClient = [c \in Client |-> Empty]
    /\ sent = 0
    /\ replied = 0
    /\ buffered = [p \in Process |-> 0]
    /\ got = [p \in Process |-> 0]
    /\ confirmed = FALSE
    /\ overtaken = Empty
    /\ changes = 0
    /\ losses = 0

-----------------------------------------------------------------------------
(* Sending.  What is sent to nobody, or over a link that is down, is lost.  *)

With(bag, m) == [bag EXCEPT ![m] = @ + 1]
Without(bag, m) == [bag EXCEPT ![m] = @ - 1]

SendToServer(c, m) ==
    /\ toServer' = [toServer EXCEPT ![c] = IF online[c] THEN With(@, m) ELSE @]
    /\ UNCHANGED toClient

SendToClient(target, m) ==
    /\ toClient' = [c \in Client |-> IF c = target /\ online[c]
                                       THEN With(toClient[c], m) ELSE toClient[c]]
    /\ UNCHANGED toServer

(* TcpTunnelABC._send, by the listen side: to the server, or from the       *)
(* server to the active client of the moment.                               *)
ListenSends(m) ==
    IF home = Server THEN SendToClient(active, m) ELSE SendToServer(home, m)

(* TcpTunnelConnect._send.  The server answers the client the connection is *)
(* cached for, else the active client, which is then cached.                *)
AnswerActive(p, m) ==
    /\ IF p = Server THEN SendToClient(active, m) ELSE SendToServer(p, m)
    /\ UNCHANGED route

ConnectSends(p, m) ==
    IF p # Server
      THEN SendToServer(p, m) /\ UNCHANGED route
      ELSE LET target == IF route # None THEN route ELSE active
           IN  /\ route' = target
               /\ SendToClient(target, m)

(* A message on the link of client c, any of them, reaches process p. *)
Receive(p, c, m) ==
    IF p = Server
      THEN /\ toServer[c][m] > 0
           /\ toServer' = [toServer EXCEPT ![c] = Without(@, m)]
           /\ UNCHANGED toClient
      ELSE /\ p = c
           /\ toClient[c][m] > 0
           /\ toClient' = [toClient EXCEPT ![c] = Without(@, m)]
           /\ UNCHANGED toServer

(* What is on its way to the connect side p *)
InBox(p) == IF p = Server THEN toServer[home] ELSE toClient[p]

-----------------------------------------------------------------------------
(* The listen side *)

(* An application connects: _localConnectionMade.  The port is open only    *)
(* while the client has its server, or the server a client.                 *)
ListenMade ==
    /\ listenConn = "none"
    /\ \E c \in Client : online[c] /\ home \in {c, Server}
    /\ listenConn' = "open"
    /\ ListenSends("made")
    /\ UNCHANGED <<home, sent, confirmed, connector, route, overtaken, links>>

(* A connection told to close may hand over what the reactor had already    *)
(* polled for it.                                                           *)
ListenData ==
    /\ listenConn \in {"open", "closed"} /\ sent < MaxData
    /\ sent' = sent + 1
    /\ ListenSends("data")
    /\ UNCHANGED <<home, listenConn, confirmed, connector, route, overtaken, links>>

(* A kill signal, or the listening port is closed: _closeConnection. *)
ListenClose ==
    /\ listenConn = "open"
    /\ listenConn' = "closed"
    /\ UNCHANGED <<home, sent, confirmed, connector, route, overtaken, links, carried>>

(* connectionLost, because the application closed or after a close from     *)
(* this side: _localConnectionLost tells the other side in either case.     *)
LostUnlessClosed ==
    /\ listenConn \in {"open", "closed"}
    /\ listenConn' = "gone"
    /\ IF listenConn = "open" THEN ListenSends("lost") ELSE UNCHANGED carried
    /\ UNCHANGED <<home, sent, confirmed, connector, route, overtaken, links>>

ListenLost ==
    /\ listenConn \in {"open", "closed"}
    /\ listenConn' = "gone"
    /\ ListenSends("lost")
    /\ UNCHANGED <<home, sent, confirmed, connector, route, overtaken, links>>

(* _processFromVortex at a listen side.  "made" changes nothing, data is    *)
(* written or buffered, "lost" closes the connection if it is its own.      *)
ListenReceives(p, c, m) ==
    /\ (p = Server) = (home = Server)
    /\ Receive(p, c, m)
    /\ listenConn' = IF p = home /\ m = "lost" /\ listenConn = "open"
                       THEN "closed" ELSE listenConn
    /\ confirmed' = (confirmed \/ (p = home /\ m = "made" /\ listenConn = "open"))
    /\ UNCHANGED <<home, sent, connector, route, overtaken, links>>

-----------------------------------------------------------------------------
(* The connect side *)

(* _remoteConnectionMade: on the server the route is the client named in    *)
(* the id; the connect to the backend begins.                               *)
ConnectReceivesMade(p, c) ==
    /\ p \in ConnectSide
    /\ Receive(p, c, "made")
    /\ route' = IF p = Server THEN home ELSE route
    /\ backend' = [backend EXCEPT ![p] = "connecting"]
    /\ UNCHANGED <<listener, buffered, got, replied, overtaken, links>>

DataProcessedTwice(p, c) ==
    /\ p \in ConnectSide
    /\ Receive(p, c, "data")
    /\ IF backend[p] = "open"
         THEN got' = [got EXCEPT ![p] = @ + 2] /\ UNCHANGED buffered
         ELSE buffered' = [buffered EXCEPT ![p] = @ + 2] /\ UNCHANGED got
    /\ UNCHANGED <<listener, backend, replied, route, overtaken, links>>

ConnectReceivesData(p, c) ==
    /\ p \in ConnectSide
    /\ Receive(p, c, "data")
    /\ IF backend[p] = "open"
         THEN got' = [got EXCEPT ![p] = @ + 1] /\ UNCHANGED buffered
         ELSE buffered' = [buffered EXCEPT ![p] = @ + 1] /\ UNCHANGED got
    /\ UNCHANGED <<listener, backend, replied, route, overtaken, links>>

(* _remoteConnectionLost, then _closeClient, which forgets the route.  A    *)
(* connect that is still under way is not stopped.                          *)
ConnectReceivesLost(p, c) ==
    /\ p \in ConnectSide
    /\ Receive(p, c, "lost")
    /\ route' = IF p = Server THEN None ELSE route
    /\ IF backend[p] = "open"
         THEN /\ backend' = [backend EXCEPT ![p] = "closed"]
              /\ buffered' = [buffered EXCEPT ![p] = 0]
         ELSE UNCHANGED <<backend, buffered>>
    /\ UNCHANGED <<listener, got, replied, links>>
    /\ overtaken' = InBox(p)'

(* The connect succeeds: _localConnectionMade writes what was buffered.     *)
ConnectWithoutFlush(p) ==
    /\ backend[p] = "connecting"
    /\ backend' = [backend EXCEPT ![p] = "open"]
    /\ buffered' = [buffered EXCEPT ![p] = 0]
    /\ ConnectSends(p, "made")
    /\ UNCHANGED <<listener, got, replied, overtaken, links>>

FlushKeepingBuffer(p) ==
    /\ backend[p] = "connecting"
    /\ backend' = [backend EXCEPT ![p] = "open"]
    /\ got' = [got EXCEPT ![p] = @ + buffered[p]]
    /\ ConnectSends(p, "made")
    /\ UNCHANGED <<listener, buffered, replied, overtaken, links>>

ConnectSucceeds(p) ==
    /\ backend[p] = "connecting"
    /\ backend' = [backend EXCEPT ![p] = "open"]
    /\ got' = [got EXCEPT ![p] = @ + buffered[p]]
    /\ buffered' = [buffered EXCEPT ![p] = 0]
    /\ ConnectSends(p, "made")
    /\ UNCHANGED <<listener, replied, overtaken, links>>

(* It is refused or times out: _localConnectionLost(failedToConnect=True).  *)
FailSilently(p) ==
    /\ backend[p] = "connecting"
    /\ backend' = [backend EXCEPT ![p] = "gone"]
    /\ buffered' = [buffered EXCEPT ![p] = 0]
    /\ UNCHANGED <<listener, got, replied, route, overtaken, links, carried>>

ConnectFails(p) ==
    /\ backend[p] = "connecting"
    /\ backend' = [backend EXCEPT ![p] = "gone"]
    /\ buffered' = [buffered EXCEPT ![p] = 0]
    /\ ConnectSends(p, "lost")
    /\ UNCHANGED <<listener, got, replied, overtaken, links>>

(* The backend answers; as on the listen side, perhaps after the close was  *)
(* asked for.                                                               *)
BackendData(p) ==
    /\ backend[p] \in {"open", "closed"} /\ replied < MaxData
    /\ replied' = replied + 1
    /\ ConnectSends(p, "data")
    /\ UNCHANGED <<listener, backend, buffered, got, overtaken, links>>

(* connectionLost: the backend closed, or the close has been carried out.   *)
BackendLost(p) ==
    /\ backend[p] \in {"open", "closed"}
    /\ backend' = [backend EXCEPT ![p] = "gone"]
    /\ buffered' = [buffered EXCEPT ![p] = 0]
    /\ ConnectSends(p, "lost")
    /\ UNCHANGED <<listener, got, replied, overtaken, links>>

-----------------------------------------------------------------------------
(* The active client and the links *)

(* Another connection's first data makes its client active. *)
ActiveChanges ==
    /\ changes < MaxChanges
    /\ changes' = changes + 1
    /\ active' \in {c \in Client : online[c]} \ {active}
    /\ UNCHANGED <<listener, connector, route, overtaken, online, losses, carried>>

(* A client without the server, and a server without a client, stop all     *)
(* their tunnels: TcpTunnelListen.shutdown, TcpTunnelConnect.shutdown       *)
(* (_closeAllClients, which a connect under way escapes).  The server       *)
(* chooses the other client, if there is one.                               *)
LinkLost(c) ==
    LET others == {d \in Client \ {c} : online[d]}
        stopping == {c} \cup IF others = {} THEN {Server} ELSE {}
    IN  /\ online[c] /\ losses < MaxLosses
        /\ losses' = losses + 1
        /\ online' = [online EXCEPT ![c] = FALSE]
        /\ active' = IF active # c THEN active
                     ELSE IF others # {} THEN Other(c) ELSE None
        /\ toServer' = [toServer EXCEPT ![c] = Empty]
        /\ toClient' = [toClient EXCEPT ![c] = Empty]
        /\ listenConn' = IF home \in stopping /\ listenConn = "open"
                           THEN "closed" ELSE listenConn
        /\ backend' = [p \in Process |-> IF p \in stopping /\ backend[p] = "open"
                                           THEN "closed" ELSE backend[p]]
        /\ route' = IF Server \in stopping /\ backend[Server] = "open"
                      THEN None ELSE route
        /\ UNCHANGED <<home, sent, confirmed, buffered, got, replied, overtaken,
                       changes>>

LinkUp(c) ==
    /\ ~online[c]
    /\ online' = [online EXCEPT ![c] = TRUE]
    /\ UNCHANGED <<listener, connector, route, overtaken, active, changes, losses,
                   carried>>

Next ==
    \/ ListenMade \/ ListenData \/ ListenClose \/ ListenLost
    \/ \E p \in Process, c \in Client, m \in Message : ListenReceives(p, c, m)
    \/ \E p \in Process, c \in Client :
          \/ ConnectReceivesMade(p, c)
          \/ ConnectReceivesData(p, c)
          \/ ConnectReceivesLost(p, c)
    \/ \E p \in Process :
          \/ ConnectSucceeds(p) \/ ConnectFails(p)
          \/ BackendData(p) \/ BackendLost(p)
    \/ ActiveChanges
    \/ \E c \in Client : LinkLost(c) \/ LinkUp(c)

(* Messages arrive, a connect ends (after three seconds at the latest), and *)
(* a connection that has been told to close does.                           *)
Fairness ==
    /\ \A p \in Process :
        /\ WF_vars(\E c \in Client, m \in Message : ListenReceives(p, c, m))
        /\ WF_vars(\E c \in Client : \/ ConnectReceivesMade(p, c)
                                     \/ ConnectReceivesData(p, c)
                                     \/ ConnectReceivesLost(p, c))
        /\ WF_vars(ConnectSucceeds(p) \/ ConnectFails(p))
        /\ WF_vars(backend[p] = "closed" /\ BackendLost(p))
    /\ WF_vars(listenConn = "closed" /\ ListenLost)

Spec == Init /\ [][Next]_vars
FairSpec == Spec /\ Fairness

-----------------------------------------------------------------------------
(* As long as the application's connection to a client is open, everything  *)
(* the server has to say of it goes to that client, whichever has become    *)
(* active meanwhile (_send: "use the connection id (C1.123, C2.123) to      *)
(* match that to the vortex name to send the data back").                   *)
RepliesGoHome ==
    home # Server /\ listenConn = "open" =>
        toClient[Other(home)] = Empty /\ route \in {None, home}

(* When the connect side closes a connection because the application's has  *)
(* gone, it has written all the application sent but the chunks that its    *)
(* unnumbered "lost" has overtaken on the link: none that came earlier is   *)
(* left in a buffer, however long the connect took, and none is missing if  *)
(* the link keeps order (_remoteConnectionLost, _localConnectionMade).  On  *)
(* the server's own connections as long as the active client is the same.   *)
OnlyOvertakenIsMissing ==
    losses = 0 /\ (home = Server => changes = 0) =>
        \A p \in ConnectSide :
            backend[p] = "closed" => got[p] + overtaken["data"] = sent

(* The chunks that have come as far as the link to the connect side p: on   *)
(* their way, in the buffer or written.                                     *)
Arrived(p) == got[p] + buffered[p] + InBox(p)["data"]

(* No chunk is written twice or out of thin air: those in the buffers, on   *)
(* the way and written are at most those the application sent, and all of   *)
(* them while the client's link lasts.                                      *)
DataAccounted ==
    IF home = Server
      THEN Arrived(1) + Arrived(2) <= sent
      ELSE /\ Arrived(Server) <= sent
           /\ losses = 0 /\ backend[Server] # "gone" => Arrived(Server) = sent

(* A backend that cannot be reached, or that closes, takes the              *)
(* application's connection with it; with a connection of the server, as    *)
(* long as no link is lost.                                                 *)
BackendEndsListen ==
    \A p \in Process :
        backend[p] = "gone" ~> listenConn = "gone" \/ (home = Server /\ losses > 0)

(* A connection that both sides know of ends on both: when the              *)
(* application's has gone and a connect side has heard all that was said of *)
(* it, the backend's is not left open; with a client's connection whatever  *)
(* failovers there were, with the server's while the active client stays.   *)
EstablishedEnds ==
    losses = 0 /\ (home = Server => changes = 0) /\ confirmed /\ listenConn = "gone" =>
        \A p \in ConnectSide : InBox(p) = Empty => backend[p] # "open"

(* When a client's connection has gone and the server has heard of it, in   *)
(* the order it was told, the connection to the backend is not left open    *)
(* (_remoteConnectionLost: "Closes the corresponding local TCP connection   *)
(* when the remote endpoint reports connection termination").               *)
NoOrphan ==
    home # Server /\ listenConn = "gone" /\ toServer[home] = Empty /\ overtaken = Empty =>
        backend[Server] # "open"

(* The same of a connection of the server that both sides know of           *)
(* (_localConnectionLost: "Cleans up connection state and notifies remote   *)
(* endpoint about the connection closure").                                 *)
NotStranded ==
    home = Server /\ losses = 0 /\ confirmed /\ listenConn = "gone"
        /\ (\A c \in Client : toClient[c] = Empty) =>
            \A c \in Client : backend[c] # "open"
=============================================================================
