# A TLA+ model of TCP over WebSocket

This directory holds a verification project for `tcp_over_websocket`, the service
that tunnels TCP connections between one server and two high-availability clients
over websockets. It consists of TLA+ modules translated from the Python source, TLC
configurations that check them on small instances, and theorems proved with TLAPS.
`PROJECT.json` maps every definition to the lines it stands for, and lists the runs,
a mutant for each property (a plausible bug the property catches), the findings, the
hazards and the theorems.

## The system

One process is the *server*, two are *clients* 1 and 2. Each client keeps a websocket
to the server. A *tunnel* has a name, a *listen* side, which accepts TCP connections,
and a *connect* side, which opens a TCP connection to a backend for each of them. A
tunnel's listen side is on the clients and its connect side on the server, or the
reverse. At most one client is *active*: the server's tunnels talk to it, and the
other client is on standby.

Everything runs in one thread per process, in a Twisted reactor: a handler runs until
it returns or yields a deferred that has not fired. What crosses a process boundary
goes through VortexPy (messages to a named process, delivered to every
`PayloadEndpoint` registered for their filter, and an on/offline status for each
remote). VortexPy, Rx and Twisted are not in the repository; they are modelled from how
the code uses them.

| Component | State | Operations | Talks to |
|---|---|---|---|
| `ActiveRemoteController`, server | active client, online states, tracked tunnels and connections, time of last failover, observables | `setRemoteOnline`, `recordTunnelConnection`, `removeTunnelConnection`, `triggerFailover`, `_switchActiveClient`, `start`, `shutdown` | sends kill and active signals to the clients; emits to the server controller |
| `ActiveRemoteController`, client | server online, observables | `setRemoteOnline`, `_processActiveSignalClient` | emits standby transitions to the client controller |
| `TunnelConnectionController` | its endpoint | client: report a connection's first data; server: pass the report on | client to server, then `recordTunnelConnection` |
| `WebsocketServerController` | online states, tunnels started, failover in progress | `handleClientStatusChange`, `handleActiveClientChange` | starts and stops the tunnels |
| `WebsocketClientController` | none but its coroutines | `_handleUpDownTunnels`, `_handleStandbyTransition` | starts and stops the tunnels |
| `TunnelController` | list of tunnel handlers | start and stop all, or the listen handlers only | tunnel handlers |
| `TcpTunnelABC`, `TcpTunnelListen`, `TcpTunnelConnect` | active connections, buffered data, listening port, routing of replies | local and remote "made"/"lost", data each way, kill signals, start, shutdown | its peer tunnel, through VortexPy |
| `TunnelProtocol` | send and receive sequence numbers, stash | `dataReceived`, `write`, `connectionLost` | its tunnel |
| Configuration, entry point, Windows service, restart, logging | - | - | - |

What makes it hard:

* *Two coroutines, no lock.* On a client, the handling of the link and the standby
  transition both stop and start the same tunnels and both yield half way. The server
  has the same pair.
* *Order of messages.* The protocol numbers packets because the transport may reorder
  them; "made", "lost", kill and active signals carry no number.
* *State read before a yield and used after it*: a standby wait of tens of seconds, a
  connect of up to three seconds, a message scheduled 0.1 s ahead.
* *Failure of one step*: a send without a remote, an exception in a callback, a connect
  that is refused, a listening port in use.
* *Lifecycles that do not match*: observables complete at the first shutdown, endpoints
  are registered by start, route entries are made by sending.

What correctness means for each component:

* server's controller: an active client is online; tracking concerns the active client
  only; kill signals go to the client being demoted, for all it has reported; clients
  never believe in an earlier failover;
* the three processes together: data makes its client active, traffic ends up on the
  active client alone, failovers do not breed failovers;
* packet stream: order, no hole, no stall for ever, data for its own connection only;
* connection: it ends on both sides, replies reach the client it is on, data is written
  before the close unless the close has overtaken it;
* client: ports are closed without the server and open with it, connections do not
  outlive their port, a served port has its message endpoints.

## The modules

### ActiveClient, ActiveRemote, ActiveRemoteHistory and their proofs

`ActiveClient` is the abstract specification: a set of online clients and an active one,
which changes when it goes (to the other if that is online, else to none) or when an
online client is chosen. `ActiveRemote` is the server's `ActiveRemoteController` with its
two callers; each handler runs in one reactor turn and is one action.

| Definition | Code |
|---|---|
| `SwitchActiveClient`, `SwitchSignals`, `KillClientTunnels`, `NotifyTo`, `Emit` | `_switchActiveClient`, `_killClientTunnels`, `_notifyClientActive`, `on_next` |
| `SetRemoteOnline`, in `HandleClientStatusChange` | `setRemoteOnline`, called by the server controller's `handleClientStatusChange` |
| `RecordTunnelConnection`, in `ProcessConnectionSignal` | `recordTunnelConnection`, called by `_processConnectionSignal` |
| `TunnelsStopped` | the end of `stopTunnels`, one reactor turn or more later |
| `TriggerFailover`, `RecordWithoutId`, `RemoveTunnelConnection`, `RemoveTunnel` | public methods nothing calls |

`sent` and `emitted` hold what the last step sent and emitted. `Next` is what the program
does; `ApiNext` adds the methods it never calls, so that what holds of `ApiSpec` holds
of the class however it is used. `_lastConnectionTime` is written and never read, and
is left out. Two assumptions: a client that comes back does so after the stop begun when
the last one went has finished (a few reactor turns against a reconnect), and, with
`LateSignals = FALSE`, a client's connection signal is processed while the server takes
the client to be online. The code does not check the second; without it an offline client can become
active (hazard at `active_remote_controller.py:233`). `ActiveIsOnline` and
`ImplementsActiveClient` are claims about that restricted environment; `Failover` is not
restricted.

`TrackedTunnels` says that no connection is tracked without its tunnel, whatever methods
are called. The reverse, and with it that the two tables agree (`TablesAgree`), holds only
as the program uses the class: a tunnel recorded without a connection id has none.

`ActiveRemoteHistory` adds what clients were told and what they reported.

### Failover, FailoverProofs

The composition: `ActiveRemote` as the server, both clients, and the links between
them. `ServerNotices`, `ServerReceives` and `ServerStopped` are ActiveRemote's actions
with what they send put on the links (`Posted`). A client is its port
(`ClientOnline`, `ClientOffline`, `StandbyTransition`, `WaitEnds`), its connections
(`Accept`, `ConnectionEnds`) and its reports: `FirstDataReceived` looks for the server and
schedules, `SendConnectionSignal` sends 0.1 s later whatever has happened meanwhile.
`ClientReceives` takes a message of the server: a kill signal ends its connection, an
active signal that names the other client schedules a standby transition unless the
subject is completed (`standbyDone`). Links deliver in any order, since
`tunnel_protocol.py:16` calls the transport "potentially unordered" and none of these
signals carries a number. A link that goes takes what is under way with it (`LinkLost`).

Each process hears of its links by itself: `serverNews` and `clientNews` are the status
changes VortexPy has scheduled for it, which `callLater(0, ...)` runs in order. A report may
therefore reach the server before the server has handled its client's arrival. Then the
code drops it if no endpoint is registered (`SignalDropped`; with it the connection's only
report, for `_hasSentData` is set), and otherwise processes it at once, although the
client counts as offline (`ServerReceives`). The history `early` records these
connections. The code promises nothing for them, so they are left out of
`TrafficIsOnActive`; `NoTrafficOnStandby` presumes that there were none, so that its
counterexample has another cause, and `DataMakesActive` presumes that the server knows
the client. `TrafficIsOnActive` also leaves out a client that has been offline
(`standbyDone`), which is the subject of the `failover_stale` finding.

A stop of a client's listen tunnels is one step and the tunnels of a client share one
port; the reactor turns in between are ClientNode's. `LinkUp` waits until both ends have
handled the loss and the client has run what it had scheduled for the next turn: a
reconnect takes longer than that.

### PacketStream, PacketReuse, PacketStreamProofs

One direction of one connection. `DataReceived`, `DataReceivedNoRemote` and
`DataReceivedRaises` are the outcomes of `dataReceived` with `_send`; `inFlight` is the
transport, from which any packet may come next; `Write` is `TunnelProtocol.write`;
`ProcessFromVortex`, `LocalConnectionMade` and `FlushOne`, `CloseConnection`,
`ConnectFailed` and `ConnectionLost` are the receiving tunnel's handlers. The flush of
the buffer runs in one turn in the code: it is one action for each packet here, and
`Flushing` keeps every other action of the receiver out meanwhile. A chunk stands for
its bytes, chunk *n* being the *n*-th read. `Copies` is the number of times each packet
is processed, 2 when a leaked endpoint is registered (see ClientNode). Left out is the
case that `transport.write` itself raises (`tunnel_protocol.py:133-137`), which logs,
closes and goes on: Twisted's `write` only appends to a buffer.

`PacketReuse` adds a restart of the sending client, whose connection counter begins again
at one: `Reuse` is the next connection of the same id, with a new `TunnelProtocol` at each
end and the buffer the server holds for that id.

### TunnelConnection, TunnelConnectionProofs

One connection, its connect sides, and the messages between them. `home` says where it
was accepted: `C1.n` on client 1, with one connect side, on the server; `S.n` on the
server, with a connect side on each client, either of which may hear of it. The
definitions named `Listen...` are `TcpTunnelListen`'s and those named `Connect...` and
`Backend...` `TcpTunnelConnect`'s, for whichever process `p` runs them; `ListenSends` and
`ConnectSends` are the two `_send` methods, the second with the server's routing cache.
"closed" means taken out of `_activeConnections` and told to close, "gone" that
`connectionLost` has been called. A link is a bag of messages and delivers any of them next: only data is
numbered, so that a "lost" may pass data, or its own "made", on the way. `overtaken` is
what was on the link to the connect side when it heard the "lost". A link may go, with
what is under way, and then whoever has no remote left closes what it has (`LinkLost`).
Both ends notice at once here (apart, in Failover), and the packets' numbers are
PacketStream's: a chunk handed to `write()` counts as written. The findings' properties
leave reordering out, which would be a second way to the same state: `NoOrphan` asks
that the "lost" overtook nothing, `NotStranded` that the listen side had heard "made".

### TunnelHandlers, ClientNode, ServerNode and their proofs

`TunnelHandlers` is what `TunnelController` and the tunnels do to start and stop, at the
grain of the coroutines' yields; both processes extend it. Handlers are numbered in the
order of `tunnelHandlers`. `Stop`, `StopFrom` and `PortClosed` are the loop over
`shutdown()`: a tunnel gives up its endpoints, then its port takes one turn to close,
then its connections are closed and the loop goes on. `StartTunnels` and
`StartListenTunnels` run in one turn; the first port still in use raises and ends them,
after the endpoints of its tunnel have been registered over those it held (`leaked`).
A second `stopListening` on a port that is closing raises in Twisted's second clean-up of
the socket, at the end of the same turn, and ends that coroutine; the model ends it at
once (`StopRaises`).

`ClientNode` adds the client controller: `ServerOnline` and `ServerOffline` are
`_handleUpDownTunnels`, `StandbyTransition` and `WaitEnds` the two halves of
`_handleStandbyTransition`. A standby transition and the closing of a port are both
`callLater(0, ...)`, which the reactor runs in the order asked for: a transition asked for
while a port is closing (`later`) comes behind it, an earlier one (`transitions`) before
it. `ServerNode` adds the server controller: `ClientOnline` and
`ClientOffline` are `handleClientStatusChange`, `HandleActiveClientChange` and `WaitEnds`
the two halves of `handleActiveClientChange`, and `changes` the emissions between the
controller and it. Who is active is taken from `ActiveClient`, whose actions it
uses; the theorem `Implementation` justifies that, under its assumption on late signals.
When the emissions run relative to the closing ports is left open there, which allows
more than the reactor does: its run has no counterexample, so nothing rests on it.

Assumptions, both of scale: a reconnect takes longer than what is scheduled for the next
turn and than a stop (on the server, the return of a first client after the last has
gone), and a wait of seconds does not end within the turns of another coroutine's stop.
That the last client goes while a coordination is closing the ports is not excluded: the
loss of both clients at once does just that.

## The runs

| Run | Instance | Shows |
|---|---|---|
| `active_remote` | 2 tunnels, 2 ids, cooldown 2; 8 328 states | the types; only the active client's connections are tracked; no connection is tracked without its tunnel; the active client is online; no online client was left with the news of an earlier failover; kill signals go to the demoted client only, and to all it reported while active; changes are emitted until the subjects complete; the controller implements `ActiveClient` |
| `failover` | 1 tunnel, 2 connections of client 1 and 1 of client 2, 1 lost link; 348 915 states | the types; traffic ends up on the active client; each failover has its own connection or lost link behind it; data makes its client active; the active client comes to listen |
| `failover_stale` | the same | finding: a client that was offline once is demoted and keeps its traffic |
| `packet_stream` | 5 chunks, stash 3; 37 339 states | the types; order; no hole; the stash lies beyond the gap; a full stash ends the connection; what is read is written or the connection goes |
| `packet_stream_reuse` | 3 chunks, 1 restart | finding: data kept for a connection that has gone is written to the next of its id |
| `client_node` | 2 listen tunnels, 3 connects, 3 signals; 2 327 states | the types; no connection without its port; no port without the server; a served port has its endpoints; ports reopen |
| `client_node_ports` | the same | finding: ports open during a standby wait |
| `client_node_leak` | the same | finding: an endpoint outlives the shutdown of its tunnel |
| `server_node` | 2 listen tunnels, 4 arrivals of clients, 3 signals; 10 664 states | the types; no connection without its port; no port without a client; open ports and online clients have their endpoints; one coordination at a time; ports reopen; a coordination ends |
| `tunnel_connection` | 2 chunks each way, 2 changes of client, 2 lost links; 619 229 states | the types; replies go to the connection's client; when the end closes the backend's connection, only what it has overtaken is missing; no chunk is lost or doubled; a connection both sides know of ends on both, unless a link is lost; the backend's end ends the application's connection |
| `tunnel_connection_orphan` | the same | finding: a backend connection opens after its application has gone |
| `tunnel_connection_stranded` | the same | finding: the end of a server's connection is told to the wrong client |

A passing run checks its whole state space. A finding's run checks one statement taken
from a comment, a docstring or the README, quoted in `PROJECT.json`, and TLC's
counterexample is a run of the code.

**Bounds.** Two connection ids on each of two tunnels are the least with which a tunnel
can lose one connection and keep another while a second tunnel is tracked; ids beyond
that behave the same, and the theorems hold for any number. Five chunks against a stash
of three (100 in the code) let a gap open, close, or fill the stash with a packet to
spare. Two listen tunnels let a stop be met half way; three connects and three signals
let two reconnects and a further transition fall into one standby wait; four arrivals
and three signals on the server let both clients come, go and come again around a
coordination. Two chunks let one be buffered while another follows; two changes of the active client lead
away from the connection's client and back, and two lost links take both clients, or one
twice. In `failover` two connections of one client and one of the other let the role move
there and back, and one lost link lets it move by itself, or return to a client that has
been away; bounds one higher on either side leave the run's five minutes, and
the safety properties are proved without them. The counters that bound the
environment (`MaxChunks`, `MaxOnline`, `MaxSignals`, `MaxData`, `MaxChanges`, `MaxLosses`,
`MaxConnections`, `MaxRestarts`) occur in guards only, and stop the input, never a
reaction. When they are used up a model may
rest, hence `CHECK_DEADLOCK FALSE` in these runs; `ActiveRemote` has no such counter and
is checked for deadlock.

**Fairness.** Weak fairness is assumed of what the reactor or a timer does by itself:
scheduled calls run, timers fire, a port told to close does, a connect succeeds or fails
within its timeout of three seconds, a connection told to close is lost, and, in
`PacketStream` and `TunnelConnection`, a message given to the transport is processed. In
`Failover` each process goes on with what it has to do (`ServerStep`, `ClientStep`), in
any order: notice a link, take a message, run what is scheduled, end a wait.
Nothing is assumed of applications, backends' data, links or failovers.

## The proofs

`tlapm` proves the following for every value of the constants.

* `ActiveRemoteProofs!TypeCorrect` and `OnlyActiveTracked`: types and
  `TrackedOnlyForActive` are inductive together. The second needs that whatever changes
  the active client from one client to the other clears both trackings; lemma
  `RecordTracks` covers the connection that is recorded just before the switch.
* `ActiveRemoteProofs!ActiveAlwaysOnline`, assuming `~LateSignals`: `ActiveIsOnline` is
  inductive; the assumption is used in the step that processes a connection signal, and
  nowhere else.
* `ActiveRemoteProofs!Implementation`, under the same assumption: every step of
  `ApiSpec` is a step of `ActiveClient` or leaves its variables alone, with the online
  clients for `online`. The invariant above is what makes an activation legal.
* `ActiveRemoteProofs!TrackingAgrees`: `TablesAgree` as the program uses the class, and
  `TrackedTunnels` for every use of it, each inductive with the types.
* `ActiveRemoteProofs!KillsReachOnlyDemoted` and `EveryChangeIsEmitted`, for every use of
  the class, are action properties: lemmas `SwitchStep` and `QuietStep` say of a step
  that it is a switch, with what a switch sends and emits, or that the active client
  stays.
* `ActiveRemoteHistoryProofs!AnnouncementsAreCurrent` and `DemotionKillsReported`. The
  first is inductive because a switch tells all who are online and a client that returns
  has been told nothing; the second needs that what an active client has reported is
  tracked, which holds because a switch clears both the tracking and the reports.
* `FailoverProofs!FailoverTypes`, `FailoverUsesController` (each step of the composition
  is a step of `ActiveRemote` or leaves its variables alone, so that what is proved of it above
  without `~LateSignals` holds there), and `EveryFailoverCaused`. `FailoversHaveCause` is not inductive: the
  invariant (`CauseInv`) counts the causes still to take effect, a report scheduled or
  on its way and a link lost whose loss the server has not handled, and says that
  failovers and these together are at most the reports and losses so far. Each failover uses one of them up, and
  signals the server sends never make one.
* `FailoverProofs!OnlineClientListens`: a client that knows itself online has its port
  open or is in a standby wait, the safety core of `ActiveListens`. Inductive together
  with the fact that a client that knows itself offline has nothing open (`PortInv`).
* `FailoverProofs!TrafficEndsUpOnActive`: `TrafficIsOnActive`. It speaks of the states in
  which all is worked off; the invariant (`SpeakerIsHeard`) says of every state that a
  connection with traffic, the server not having been told of it too early, is on the
  active client while the server knows that one, or has its report scheduled or on its
  way, or its client has the news of the other's activation on its way or the transition
  scheduled (`Heard`, `ToStandBy`). `HeardStep` has a lemma for each step that matters:
  the server takes a report (`HeardReceives`), so that the other client, if known to be
  online, is sent the news; it drops one (`HeardDropped`), which `OnlineHasEndpoint` says
  happens only to a client it does not know; it handles a status change (`HeardNotices`),
  and gives its active client up only if the link is gone; a client takes a message
  (`HeardClientReceives`), and loses the news only to schedule the transition. `NewsInv`
  is what the third needs: a process knows the state of a link but for the changes it
  still has to handle.
* `TunnelConnectionProofs!RepliesComeHome`, from `HomeInv`, about the connections of a
  client: the route is set to the client before the connect begins and only a "lost" or a
  stop of the server removes it, and neither can happen while the connection is open
  (`OpenIsRouted`).
* `TunnelConnectionProofs!TypeCorrect`, `DataAlwaysAccounted` and
  `OnlyOvertakenIsLost`, for the connections of clients and of the server, from
  `FlowInv`. `NothingDoubled` counts the chunks on a link with those buffered and
  written; `EndSaidOnce` says that a "lost" on a link is the only one and comes of a
  connection that has gone, `OpenIsFlushed` that an open connection has nothing buffered,
  and `NothingSaid` and `MadeIsNew` that a process which has heard nothing has nothing.
  While links last and, on the server, the active client stays, everything goes to one
  process (`Addressee`), which has, buffers or is on its way to exactly what was sent
  (`SteadyFlow`); so that when the "lost" closes its backend's connection, all but what is
  still on the link has been written (`ClosedByEnd`).
* `TunnelConnectionProofs!EstablishedAlwaysEnds` and `BackendEndAlwaysTold`, from `EndInv`:
  a connect side says "made" only of what it has made (`AnsweredIsMade`), so that what the
  listen side has had confirmed is not connecting again (`HeardIsMade`), and its "lost" is
  on its way to an open connection (`EndIsOnItsWay`). In the other direction the "lost" of
  a backend that has gone is on its way to an open application (`BackendEndIsTold`).
* `PacketStreamProofs!FullStashAlwaysCloses` and `DeliveryIsComplete`, from `KeptInv`:
  `write()` compares the size of its stash with the limit for equality, and the theorem
  is that the size never steps over it; and every number sent and not yet passed has its
  packet under way, buffered or stashed (`NothingVanishes`), with the expected one never in
  the stash (`NextIsMissing`), so that with nothing under way nothing is held back.
* `PacketStreamProofs!KeptBackForGap`: what `write()` keeps lies beyond the gap.
* `PacketStreamProofs!TypeCorrect`, `DeliveryInOrder` and `DeliveryWithoutHole`, from the
  inductive invariant `OrderInv` (`OrderInvariant`). `InOrder` by itself is not inductive:
  one must know that the packets still to come have, for a higher number, a later chunk
  (`PacketsOrdered`), that exactly one chunk was written for each number below the
  expected one, and that every packet above has a later chunk (`WrittenBelow`), and that
  no packet carries a number or a chunk not used yet (`SentOnly`). Lemma `WriteEffect`
  states what one `write()` appends; `WriteKeepsOrder` is the core of the argument. The
  theorems hold for any number of copies of each packet and any stash limit.
* `TunnelHandlersProofs` holds what starting and stopping preserve, whoever calls them:
  `HandlersInv`. A loop that stops tunnels is at the one port that is closing, and all
  ports before it are closed (`StopperAt`, `ClosingAt`); without that one cannot know that
  nothing is open when the loop ends, nor that the second stop to come along finds nothing
  left to do (`StopRaises`). Lemma `StopFromKeeps` is the loop, from any tunnel on;
  `StartKeeps` a start; `ListensStopLeavesOthers` says that stopping the listen tunnels
  leaves the other endpoints registered.
* `ServerNodeProofs!PortsNeedClient`, `ServerServes`, `ServerConnectionsNeedPort`,
  `CoordinationsExclude` and `TypeCorrect`, from `ServerInv` (`ServerInvariant`): all
  tunnels are only stopped while no client is online, so that a coordination's wait opens
  ports only if a client is still active, hence online; a first client finds every port
  closed, hence registers everything; and the flag `_failoverInProgress` stands for one
  loop or one wait.
* `ClientNodeProofs!PortsNeedServer`, `ClientServes`, `ClientConnectionsNeedPort` and
  `TypeCorrect`, from `ClientInv`, by the same argument with the server online for a
  client online, but for any number of overlapping standby transitions, which nothing
  keeps apart.
* `ClientNodeProofs!OnlinePortsOpen` and `ServerNodeProofs!ServerPortsOpen`, the safety
  core of `PortsReopen`: with nothing stopping or waiting, all ports are open while the
  server, or a client, is online. Both need that a start finds the ports all open or all
  closed (`Uniform`), because the first port in use ends it (`StartOpensAll`); a stop
  takes them in order from there (`StopFromUniform`). The server reopens at the end of a
  coordination only if somebody is active; when nobody is, although a client is online, no
  coordination has closed anything (`NobodyToCoordinate`).

Every invariant and action property of a passing run is proved. Only model-checked is
liveness (`GapClosesConnection`, `DeliveredOrGone`, `PortsReopen`, `BackendEndsListen`,
`CoordinationEnds`, `DataMakesActive`, `ActiveListens`), which TLAPS does not reach. Of
`GapClosesConnection`, `DeliveredOrGone`, `PortsReopen`, `BackendEndsListen` and
`ActiveListens` the safety core is proved: what the awaited step must find, or what
remains to be delivered for it, is there. `OneCoordination` is that of `CoordinationEnds`.

## Not modelled

* restarts of the server: it keeps nothing, and its clients see a lost link;
* two connections of one id at the same time on the server, after a client's restart that
  the server has not noticed (hazard at `tcp_tunnel_abc.py:273`);
* the turns of a stop and the data of connections in one model: ClientNode and
  ServerNode have the turns, Failover and TunnelConnection the messages;
* configuration, entry point, Windows service, restart and logging utilities: no
  behaviour over time;
* `TunnelFactory` beyond `buildProtocol`, `TunnelProtocol.close`,
  `startConnectTunnels`, `stopConnectTunnels`: no callers;
* the websocket itself, TLS and the message encoding: VortexPy.

## Plan

1. `ActiveClient`, `ActiveRemote` and their proofs: who is active. *(done)*
2. `PacketStream` and its proofs: order of the data. *(done)*
3. `ClientNode` and its proofs: ports and endpoints of a client. *(done)*
4. `TunnelConnection` and its proofs: one connection from end to end, accepted on a
   client or on the server, with lost links. *(done)*
5. `ServerNode` and its proofs: ports, endpoints and failover coordination of the
   server. *(done)*
6. `PacketReuse`: ids used again after a restart of a client. *(done)*
7. `Failover` and its proofs: server and both clients composed. *(done)*
8. Proofs: every invariant of the passing runs. *(done)*
9. Proofs: the safety cores of the liveness properties, as far as an invariant states
   them. *(done, but for `DataMakesActive`)*
