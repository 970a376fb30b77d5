----------------------- MODULE TunnelConnectionProofs -----------------------
(***************************************************************************)
(* Theorems about one connection, for any amount of data, of failovers and *)
(* of lost links: where its replies go, what becomes of the data that was  *)
(* sent, and that the end of either side is told to the other.             *)
(***************************************************************************)
EXTENDS TunnelConnection, TLAPS

USE DEF Client, Process, Server, None

Bag == [Message -> Nat]

(* Is there an m on the link q, and is there one "made" at most? *)
On(m, q) == m \in Message /\ q[m] > 0
OneMade(q) == q["made"] <= 1

LEMMA Sending ==
    ASSUME NEW q \in Bag, NEW x \in Message
    PROVE  /\ With(q, x) \in Bag /\ With(q, x) # q
           /\ \A m \in Message : With(q, x)[m] = q[m] + IF m = x THEN 1 ELSE 0
           /\ \A m : On(m, With(q, x)) <=> On(m, q) \/ m = x
           /\ OneMade(q) /\ (x = "made" => ~On("made", q)) => OneMade(With(q, x))
<1>1. /\ With(q, x) \in Bag
      /\ \A m \in Message : With(q, x)[m] = q[m] + IF m = x THEN 1 ELSE 0
  BY DEF With, Bag
<1>2. \A m \in Message : q[m] \in Nat
  BY DEF Bag
<1>3. With(q, x)[x] # q[x]
  BY <1>1, <1>2
<1>4. \A m : On(m, With(q, x)) <=> On(m, q) \/ m = x
  BY <1>1, <1>2 DEF On
<1>5. OneMade(q) /\ (x = "made" => ~On("made", q)) => OneMade(With(q, x))
  BY <1>1, <1>2 DEF On, OneMade, Message
<1> QED
  BY <1>1, <1>3, <1>4, <1>5

LEMMA Taking ==
    ASSUME NEW q \in Bag, NEW x \in Message, q[x] > 0
    PROVE  /\ Without(q, x) \in Bag
           /\ \A m \in Message : q[m] = Without(q, x)[m] + IF m = x THEN 1 ELSE 0
           /\ \A m : On(m, q) <=> m = x \/ On(m, Without(q, x))
           /\ OneMade(q) => /\ OneMade(Without(q, x))
                            /\ x = "made" => ~On("made", Without(q, x))
<1>1. \A m \in Message : q[m] \in Nat
  BY DEF Bag
<1>2. \A m \in Message : Without(q, x)[m] = IF m = x THEN q[m] - 1 ELSE q[m]
  BY DEF Without, Bag
<1>3. \A m \in Message : Without(q, x)[m] \in Nat
  BY <1>1, <1>2
<1>4. Without(q, x) \in Bag
  BY <1>3 DEF Without, Bag
<1>5. \A m \in Message : q[m] = Without(q, x)[m] + IF m = x THEN 1 ELSE 0
  BY <1>1, <1>2
<1>6. \A m : On(m, q) <=> m = x \/ On(m, Without(q, x))
  BY <1>1, <1>2 DEF On
<1>7. OneMade(q) => /\ OneMade(Without(q, x))
                    /\ x = "made" => ~On("made", Without(q, x))
  BY <1>1, <1>2 DEF On, OneMade, Message
<1> QED
  BY <1>4, <1>5, <1>6, <1>7

LEMMA Nothing ==
    /\ Empty \in Bag /\ OneMade(Empty)
    /\ \A m \in Message : Empty[m] = 0
    /\ \A m : ~On(m, Empty)
BY DEF Empty, Bag, On, OneMade, Message

-----------------------------------------------------------------------------
(* Types, without the bounds of the counters *)

Status == {"none", "connecting", "open", "closed", "gone"}

Typed ==
    /\ home \in {1, Server}
    /\ listenConn \in Status
    /\ backend \in [Process -> Status]
    /\ route \in Client \cup {None}
    /\ online \in [Client -> BOOLEAN]
    /\ active \in Client \cup {None}
    /\ toServer \in [Client -> Bag]
    /\ toClient \in [Client -> Bag]
    /\ confirmed \in BOOLEAN
    /\ overtaken \in Bag
    /\ losses \in Nat

(* What a message that is sent adds to each link *)
LEMMA SendQueues ==
    ASSUME Typed, NEW m \in Message
    PROVE  /\ \A c, d \in Client : SendToServer(c, m) =>
                  /\ toServer'[d] = IF d = c /\ online[c] THEN With(toServer[d], m)
                                                        ELSE toServer[d]
                  /\ toClient' = toClient
           /\ \A c \in Client \cup {None}, d \in Client : SendToClient(c, m) =>
                  /\ toClient'[d] = IF d = c /\ online[d] THEN With(toClient[d], m)
                                                        ELSE toClient[d]
                  /\ toServer' = toServer
<1>1. \A c, d \in Client : SendToServer(c, m) =>
          /\ toServer'[d] = IF d = c /\ online[c] THEN With(toServer[d], m)
                                                ELSE toServer[d]
          /\ toClient' = toClient
  BY DEF SendToServer, Typed
<1>2. \A c \in Client \cup {None}, d \in Client : SendToClient(c, m) =>
          /\ toClient'[d] = IF d = c /\ online[d] THEN With(toClient[d], m)
                                                ELSE toClient[d]
          /\ toServer' = toServer
  BY DEF SendToClient, Typed
<1> QED
  BY <1>1, <1>2

LEMMA SendType ==
    ASSUME Typed, NEW m \in Message
    PROVE  /\ \A c \in Client : SendToServer(c, m) =>
                  /\ toServer' \in [Client -> Bag]
                  /\ toClient' \in [Client -> Bag]
           /\ \A c \in Client \cup {None} : SendToClient(c, m) =>
                  /\ toServer' \in [Client -> Bag]
                  /\ toClient' \in [Client -> Bag]
<1>1. \A c \in Client : /\ With(toServer[c], m) \in Bag
                        /\ With(toClient[c], m) \in Bag
                        /\ toServer[c] \in Bag
                        /\ toClient[c] \in Bag
  BY Sending DEF Typed
<1>2. ASSUME NEW c \in Client, SendToServer(c, m)
      PROVE  /\ toServer' \in [Client -> Bag]
             /\ toClient' \in [Client -> Bag]
  <2>1. toServer' = [d \in Client |-> IF d = c
                        THEN IF online[c] THEN With(toServer[d], m) ELSE toServer[d]
                        ELSE toServer[d]]
    BY <1>2 DEF SendToServer, Typed
  <2> QED
    BY <1>1, <1>2, <2>1 DEF SendToServer, Typed
<1>3. ASSUME NEW c \in Client \cup {None}, SendToClient(c, m)
      PROVE  /\ toServer' \in [Client -> Bag]
             /\ toClient' \in [Client -> Bag]
  BY <1>1, <1>3 DEF SendToClient, Typed
<1> QED
  BY <1>2, <1>3

LEMMA ConnectSendsType ==
    ASSUME Typed, NEW m \in Message, NEW p \in Process, ConnectSends(p, m)
    PROVE  /\ toServer' \in [Client -> Bag]
           /\ toClient' \in [Client -> Bag]
           /\ route' \in Client \cup {None}
<1>1. CASE p # Server
  BY <1>1, SendType DEF ConnectSends, Typed
<1>2. CASE p = Server
  <2> DEFINE target == IF route # None THEN route ELSE active
  <2>1. target \in Client \cup {None}
    BY DEF Typed
  <2>2. route' = target /\ SendToClient(target, m)
    BY <1>2 DEF ConnectSends
  <2> HIDE DEF target
  <2> QED
    BY <2>1, <2>2, SendType
<1> QED
  BY <1>1, <1>2

LEMMA ReceiveType ==
    ASSUME Typed, NEW p \in Process, NEW c \in Client, NEW m \in Message,
           Receive(p, c, m)
    PROVE  /\ toServer' \in [Client -> Bag]
           /\ toClient' \in [Client -> Bag]
<1>1. \A d \in Client : /\ toServer[d][m] > 0 => Without(toServer[d], m) \in Bag
                        /\ toClient[d][m] > 0 => Without(toClient[d], m) \in Bag
  BY Taking DEF Typed
<1> QED
  BY <1>1 DEF Receive, Typed

LEMMA TypedStep == Typed /\ [Next]_vars => Typed'
<1> SUFFICES ASSUME Typed, [Next]_vars PROVE Typed'
  OBVIOUS
<1>0. "made" \in Message /\ "data" \in Message /\ "lost" \in Message
  BY DEF Message
<1>a. ASSUME NEW m \in Message, ListenSends(m)
      PROVE  /\ toServer' \in [Client -> Bag]
             /\ toClient' \in [Client -> Bag]
  BY <1>a, SendType DEF ListenSends, Typed
<1>1. CASE ListenMade
  BY <1>0, <1>1, <1>a DEF ListenMade, Typed, connector, links, Status
<1>2. CASE ListenData
  BY <1>0, <1>2, <1>a DEF ListenData, Typed, connector, links
<1>3. CASE ListenClose
  BY <1>3 DEF ListenClose, Typed, connector, links, carried, Status
<1>4. CASE ListenLost
  BY <1>0, <1>4, <1>a DEF ListenLost, Typed, connector, links, Status
<1>5. ASSUME NEW p \in Process, NEW c \in Client, NEW m \in Message,
             ListenReceives(p, c, m)
      PROVE  Typed'
  <2>1. /\ toServer' \in [Client -> Bag]
        /\ toClient' \in [Client -> Bag]
    BY <1>5, ReceiveType DEF ListenReceives
  <2>2. confirmed' \in BOOLEAN /\ listenConn' \in Status
    BY <1>5 DEF ListenReceives, Typed, Status
  <2> QED
    BY <1>5, <2>1, <2>2 DEF ListenReceives, Typed, connector, links
<1>6. ASSUME NEW p \in Process, NEW c \in Client,
             \/ ConnectReceivesMade(p, c)
             \/ ConnectReceivesData(p, c)
             \/ ConnectReceivesLost(p, c)
      PROVE  Typed'
  <2>1. /\ toServer' \in [Client -> Bag]
        /\ toClient' \in [Client -> Bag]
    BY <1>0, <1>6, ReceiveType
    DEF ConnectReceivesMade, ConnectReceivesData, ConnectReceivesLost
  <2>2. route' \in Client \cup {None}
    BY <1>6 DEF ConnectReceivesMade, ConnectReceivesData, ConnectReceivesLost, Typed,
                ConnectSide
  <2>3. backend' \in [Process -> Status]
    BY <1>6 DEF ConnectReceivesMade, ConnectReceivesData, ConnectReceivesLost, Typed,
                Status
  <2>4. overtaken' \in Bag
    <3>1. p \in ConnectSide /\ home' = home
      BY <1>6 DEF ConnectReceivesMade, ConnectReceivesData, ConnectReceivesLost, listener
    <3>2. InBox(p)' \in Bag
      BY <2>1, <3>1 DEF InBox, ConnectSide, Typed
    <3> QED
      BY <1>6, <3>2
      DEF ConnectReceivesMade, ConnectReceivesData, ConnectReceivesLost, Typed
  <2>5. UNCHANGED <<listener, links>>
    BY <1>6 DEF ConnectReceivesMade, ConnectReceivesData, ConnectReceivesLost
  <2> QED
    BY <2>1, <2>2, <2>3, <2>4, <2>5 DEF Typed, listener, links
<1>7. ASSUME NEW p \in Process,
             ConnectSucceeds(p) \/ ConnectFails(p) \/ BackendData(p) \/ BackendLost(p)
      PROVE  Typed'
  <2>1. /\ \E m \in Message : ConnectSends(p, m)
        /\ UNCHANGED <<listener, overtaken, links>>
    BY <1>0, <1>7 DEF ConnectSucceeds, ConnectFails, BackendData, BackendLost
  <2>2. backend' \in [Process -> Status]
    BY <1>7 DEF ConnectSucceeds, ConnectFails, BackendData, BackendLost, Typed, Status
  <2> QED
    BY <2>1, <2>2, ConnectSendsType DEF Typed, listener, links
<1>8. CASE ActiveChanges
  BY <1>8 DEF ActiveChanges, Typed, listener, connector, carried
<1>9. ASSUME NEW c \in Client, LinkLost(c) PROVE Typed'
  <2>1. /\ toServer' \in [Client -> Bag]
        /\ toClient' \in [Client -> Bag]
    BY <1>9, Nothing DEF LinkLost, Typed
  <2>2. /\ active' \in Client \cup {None}
        /\ online' \in [Client -> BOOLEAN]
        /\ losses' \in Nat
    BY <1>9 DEF LinkLost, Typed, Other
  <2>3. /\ backend' \in [Process -> Status]
        /\ listenConn' \in Status
        /\ route' \in Client \cup {None}
        /\ UNCHANGED <<home, confirmed, overtaken>>
    BY <1>9 DEF LinkLost, Typed, Status
  <2> QED
    BY <2>1, <2>2, <2>3 DEF Typed
<1>10. ASSUME NEW c \in Client, LinkUp(c) PROVE Typed'
  BY <1>10 DEF LinkUp, Typed, listener, connector, carried
<1>11. CASE UNCHANGED vars
  BY <1>11 DEF vars, Typed, listener, connector, links, carried
<1> QED
  BY <1>1, <1>2, <1>3, <1>4, <1>5, <1>6, <1>7, <1>8, <1>9, <1>10, <1>11 DEF Next

LEMMA TypedInit == Init => Typed
<1> SUFFICES ASSUME Init PROVE Typed
  OBVIOUS
<1>1. /\ toServer \in [Client -> Bag]
      /\ toClient \in [Client -> Bag]
  BY Nothing DEF Init
<1>2. /\ backend \in [Process -> Status]
      /\ online \in [Client -> BOOLEAN]
  BY DEF Init, Status
<1>3. home \in {1, Server} /\ active \in Client \cup {None}
  BY DEF Init
<1>4. listenConn \in Status /\ route \in Client \cup {None}
  BY DEF Init, Status
<1>5. confirmed \in BOOLEAN /\ losses \in Nat /\ overtaken \in Bag
  BY Nothing DEF Init
<1> QED
  BY <1>1, <1>2, <1>3, <1>4, <1>5 DEF Typed

-----------------------------------------------------------------------------
(* The connections of client 1 *)

(* A client makes no backend connection for them, so the other client says  *)
(* nothing.                                                                 *)
OthersSilent == backend[1] = "none" /\ backend[2] = "none" /\ toServer[2] = Empty

(* Nothing has happened before the application connects. *)
NothingBefore ==
    listenConn = "none" =>
        /\ toServer[1] = Empty /\ toClient[1] = Empty /\ toClient[2] = Empty
        /\ backend[Server] = "none" /\ route = None

(* While the application's connection is open its client is online, has     *)
(* announced no end, and is the client the server answers.                  *)
OpenIsRouted ==
    listenConn = "open" =>
        /\ online[1]
        /\ ~On("lost", toServer[1])
        /\ toClient[2] = Empty
        /\ route \in {None, 1}
        /\ backend[Server] \in {"connecting", "open", "closed"} => route = 1

HomeInv ==
    home = 1 => OthersSilent /\ NothingBefore /\ OpenIsRouted

LEMMA HomeInit == Init => HomeInv
<1> SUFFICES ASSUME Init, home = 1 PROVE HomeInv
  BY DEF HomeInv
<1>1. /\ \A c \in Client : toServer[c] = Empty /\ toClient[c] = Empty
      /\ \A p \in Process : backend[p] = "none"
      /\ listenConn = "none" /\ route = None
  BY DEF Init
<1> QED
  BY <1>1 DEF HomeInv, OthersSilent, NothingBefore, OpenIsRouted

(* What the listen side of client 1 sends *)
LEMMA HomeListenSends ==
    ASSUME Typed, home = 1, NEW m \in Message, ListenSends(m)
    PROVE  /\ toClient' = toClient
           /\ toServer'[2] = toServer[2]
           /\ toServer'[1] = IF online[1] THEN With(toServer[1], m) ELSE toServer[1]
<1>1. SendToServer(1, m)
  BY DEF ListenSends
<1> QED
  BY <1>1, SendQueues

(* What the connect side sends: only the server's does, and to client 1     *)
(* while the connection is open.                                            *)
LEMMA HomeConnectSends ==
    ASSUME Typed, home = 1, HomeInv, NEW m \in Message, NEW p \in Process,
           backend[p] \in {"connecting", "open", "closed"}, ConnectSends(p, m)
    PROVE  /\ p = Server
           /\ toServer' = toServer
           /\ listenConn # "none"
           /\ listenConn = "open" => toClient'[2] = Empty /\ route' = 1
<1>1. p = Server
  BY DEF HomeInv, OthersSilent
<1>2. listenConn # "none"
  BY <1>1 DEF HomeInv, NothingBefore
<1>3. PICK target \in Client \cup {None} :
          /\ target = IF route # None THEN route ELSE active
          /\ route' = target
          /\ SendToClient(target, m)
  BY <1>1 DEF ConnectSends, Typed
<1>4. /\ toServer' = toServer
      /\ \A d \in Client : toClient'[d] = IF d = target /\ online[d]
                                THEN With(toClient[d], m) ELSE toClient[d]
  BY <1>3, SendQueues
<1>5. listenConn = "open" => target = 1 /\ toClient[2] = Empty
  BY <1>1, <1>3 DEF HomeInv, OpenIsRouted
<1>6. listenConn = "open" => toClient'[2] = Empty /\ route' = 1
  <2>1. target # 2 => toClient'[2] = toClient[2]
    BY <1>4
  <2> QED
    BY <1>3, <1>5, <2>1
<1> QED
  BY <1>1, <1>2, <1>4, <1>6

(* What receiving takes off a link *)
LEMMA HomeReceive ==
    ASSUME Typed, NEW p \in Process, NEW c \in Client, NEW m \in Message,
           Receive(p, c, m)
    PROVE  \/ /\ p = Server
              /\ m \in Message /\ toServer[c][m] > 0
              /\ toServer'[c] = Without(toServer[c], m)
              /\ \A d \in Client \ {c} : toServer'[d] = toServer[d]
              /\ toClient' = toClient
           \/ /\ p = c
              /\ m \in Message /\ toClient[c][m] > 0
              /\ toClient'[c] = Without(toClient[c], m)
              /\ \A d \in Client \ {c} : toClient'[d] = toClient[d]
              /\ toServer' = toServer
BY DEF Receive, Typed

-----------------------------------------------------------------------------
(* The steps, one by one *)

LEMMA HomeListenMade ==
    ASSUME Typed, home = 1, HomeInv, ListenMade PROVE HomeInv'
<1>1. "made" \in Message
  BY DEF Message
<1>2. /\ online[1] /\ listenConn = "none" /\ listenConn' = "open"
      /\ ListenSends("made")
      /\ UNCHANGED <<home, backend, route, online>>
  BY DEF ListenMade, connector, links
<1>3. /\ toClient' = toClient
      /\ toServer'[2] = toServer[2]
      /\ toServer'[1] = With(toServer[1], "made")
      /\ toServer[1] = Empty /\ Empty \in Bag
  BY <1>1, <1>2, HomeListenSends, Nothing DEF HomeInv, NothingBefore
<1>4. \A m : On(m, toServer'[1]) => m = "made"
  <2>1. \A m : On(m, With(Empty, "made")) <=> On(m, Empty) \/ m = "made"
    BY <1>1, <1>3, Sending, Zenon
  <2>2. \A m : ~On(m, Empty)
    BY Nothing
  <2> QED
    BY <1>3, <2>1, <2>2
<1>5. OthersSilent' /\ NothingBefore'
  BY <1>2, <1>3 DEF HomeInv, OthersSilent, NothingBefore
<1>6. OpenIsRouted'
  BY <1>2, <1>3, <1>4 DEF HomeInv, OpenIsRouted, NothingBefore
<1> QED
  BY <1>5, <1>6 DEF HomeInv

(* Data, or the end, of the application's connection *)
LEMMA HomeListenSays ==
    ASSUME Typed, home = 1, HomeInv, NEW m \in {"data", "lost"},
           ListenSends(m),
           listenConn \in {"open", "closed"}, listenConn' \in {listenConn, "gone"},
           m = "lost" <=> listenConn' = "gone",
           UNCHANGED <<home, backend, route, online>>
    PROVE  HomeInv'
<1>1. m \in Message
  BY DEF Message
<1>2. /\ toClient' = toClient
      /\ toServer'[2] = toServer[2]
      /\ toServer'[1] = IF online[1] THEN With(toServer[1], m) ELSE toServer[1]
  BY <1>1, HomeListenSends
<1>3. toServer[1] \in Bag
  BY DEF Typed
<1>4. \A n : On(n, toServer'[1]) <=> On(n, toServer[1]) \/ (online[1] /\ n = m)
  BY <1>1, <1>2, <1>3, Sending
<1>5. OthersSilent' /\ NothingBefore'
  BY <1>2 DEF HomeInv, OthersSilent, NothingBefore
<1>6. OpenIsRouted'
  BY <1>2, <1>4 DEF HomeInv, OpenIsRouted
<1> QED
  BY <1>5, <1>6 DEF HomeInv

LEMMA HomeListenClose ==
    ASSUME Typed, home = 1, HomeInv, ListenClose PROVE HomeInv'
BY DEF ListenClose, connector, links, carried, HomeInv, OthersSilent, NothingBefore,
       OpenIsRouted

LEMMA HomeListenReceives ==
    ASSUME Typed, home = 1, HomeInv, NEW p \in Process, NEW c \in Client,
           NEW m \in Message, ListenReceives(p, c, m)
    PROVE  HomeInv'
<1>0. Empty[m] = 0
  BY Nothing
<1>1. /\ p = c
      /\ m \in Message /\ toClient[c][m] > 0
      /\ toClient'[c] = Without(toClient[c], m)
      /\ \A d \in Client \ {c} : toClient'[d] = toClient[d]
      /\ toServer' = toServer
  BY HomeReceive DEF ListenReceives
<1>2. /\ listenConn' = IF p = home /\ m = "lost" /\ listenConn = "open"
                         THEN "closed" ELSE listenConn
      /\ UNCHANGED <<home, backend, route, online>>
  BY DEF ListenReceives, connector, links
<1>3. OthersSilent' /\ NothingBefore'
  BY <1>0, <1>1, <1>2 DEF HomeInv, OthersSilent, NothingBefore
<1>4. OpenIsRouted'
  BY <1>0, <1>1, <1>2 DEF HomeInv, OpenIsRouted
<1> QED
  BY <1>3, <1>4 DEF HomeInv

LEMMA HomeConnectReceives ==
    ASSUME Typed, home = 1, HomeInv, NEW p \in Process, NEW c \in Client,
           \/ ConnectReceivesMade(p, c)
           \/ ConnectReceivesData(p, c)
           \/ ConnectReceivesLost(p, c)
    PROVE  HomeInv'
<1>1. PICK m \in Message :
          /\ Receive(p, c, m)
          /\ m = "made" => ConnectReceivesMade(p, c)
          /\ m = "data" => ConnectReceivesData(p, c)
          /\ m = "lost" => ConnectReceivesLost(p, c)
  BY DEF ConnectReceivesMade, ConnectReceivesData, ConnectReceivesLost, Message, Receive
<1>2. p = Server /\ UNCHANGED <<home, listenConn, online>>
  BY DEF ConnectReceivesMade, ConnectReceivesData, ConnectReceivesLost, ConnectSide,
         listener, links
<1>3. /\ m \in Message /\ toServer[c][m] > 0
      /\ toServer'[c] = Without(toServer[c], m)
      /\ \A d \in Client \ {c} : toServer'[d] = toServer[d]
      /\ toClient' = toClient
  BY <1>1, <1>2, HomeReceive
<1>4. c = 1 /\ listenConn # "none"
  BY <1>3, Nothing DEF HomeInv, OthersSilent, NothingBefore
<1>5. \A n : On(n, toServer[1]) <=> n = m \/ On(n, toServer'[1])
  <2>1. toServer[1] \in Bag /\ toServer[1][m] > 0
    BY <1>3, <1>4 DEF Typed
  <2>2. \A n : On(n, toServer[1]) <=> n = m \/ On(n, Without(toServer[1], m))
    BY <2>1, Taking, Zenon
  <2> QED
    BY <1>3, <1>4, <2>2
<1>6. \A q \in Client : backend'[q] = backend[q]
  BY <1>2 DEF ConnectReceivesMade, ConnectReceivesData, ConnectReceivesLost, Typed
<1>7. /\ m = "made" => backend'[Server] = "connecting" /\ route' = 1
      /\ m = "data" => backend'[Server] = backend[Server] /\ route' = route
      /\ m = "lost" => /\ route' = None
                      /\ backend'[Server] = IF backend[Server] = "open" THEN "closed"
                                            ELSE backend[Server]
  BY <1>1, <1>2 DEF ConnectReceivesMade, ConnectReceivesData, ConnectReceivesLost, Typed
<1>8. m = "lost" => listenConn # "open"
  BY <1>5 DEF HomeInv, OpenIsRouted
<1>9. m \in {"made", "data", "lost"}
  BY DEF Message
<1>10. OthersSilent' /\ NothingBefore'
  BY <1>2, <1>3, <1>4, <1>6 DEF HomeInv, OthersSilent, NothingBefore
<1>11. OpenIsRouted'
  BY <1>2, <1>3, <1>5, <1>7, <1>8, <1>9 DEF HomeInv, OpenIsRouted
<1> QED
  BY <1>10, <1>11 DEF HomeInv

LEMMA HomeConnectSays ==
    ASSUME Typed, home = 1, HomeInv, NEW p \in Process,
           ConnectSucceeds(p) \/ ConnectFails(p) \/ BackendData(p) \/ BackendLost(p)
    PROVE  HomeInv'
<1>1. PICK m \in Message :
          ConnectSends(p, m) /\ backend[p] \in {"connecting", "open", "closed"}
  BY DEF ConnectSucceeds, ConnectFails, BackendData, BackendLost, Message
<1>2. /\ UNCHANGED <<home, listenConn, online>>
      /\ \A q \in Process \ {p} : backend'[q] = backend[q]
  BY DEF ConnectSucceeds, ConnectFails, BackendData, BackendLost, listener, links, Typed
<1>3. /\ p = Server
      /\ toServer' = toServer
      /\ listenConn # "none"
      /\ listenConn = "open" => toClient'[2] = Empty /\ route' = 1
  BY <1>1, HomeConnectSends
<1>4. OthersSilent' /\ NothingBefore' /\ OpenIsRouted'
  BY <1>2, <1>3 DEF HomeInv, OthersSilent, NothingBefore, OpenIsRouted
<1> QED
  BY <1>2, <1>4 DEF HomeInv

LEMMA HomeLinkLost ==
    ASSUME Typed, home = 1, HomeInv, NEW c \in Client, LinkLost(c) PROVE HomeInv'
<1>1. /\ toServer'[c] = Empty /\ toClient'[c] = Empty
      /\ \A d \in Client \ {c} : toServer'[d] = toServer[d] /\ toClient'[d] = toClient[d]
      /\ online' = [online EXCEPT ![c] = FALSE]
      /\ home' = home
  BY DEF LinkLost, Typed
<1>2. listenConn' = IF c = 1 /\ listenConn = "open" THEN "closed" ELSE listenConn
  BY DEF LinkLost
<1>3. \A p \in Process : \/ backend'[p] = backend[p]
                         \/ backend[p] = "open" /\ backend'[p] = "closed"
  BY DEF LinkLost
<1>4. route' \in {route, None} /\ (c = 2 /\ online[1] => route' = route)
  BY DEF LinkLost
<1>5. OthersSilent'
  BY <1>1, <1>3 DEF HomeInv, OthersSilent
<1>6. NothingBefore'
  BY <1>1, <1>2, <1>3, <1>4 DEF HomeInv, NothingBefore
<1>7. ASSUME listenConn' = "open"
      PROVE  c = 2 /\ listenConn = "open" /\ online[1] /\ route' = route
  BY <1>2, <1>4, <1>7 DEF HomeInv, OpenIsRouted
<1>8. OpenIsRouted'
  BY <1>1, <1>3, <1>7 DEF HomeInv, OpenIsRouted, Typed
<1> QED
  BY <1>5, <1>6, <1>8 DEF HomeInv

LEMMA HomeStep == Typed /\ HomeInv /\ [Next]_vars => HomeInv'
<1> SUFFICES ASSUME Typed, HomeInv, [Next]_vars, home' = 1 PROVE HomeInv'
  BY DEF HomeInv
<1>0. home = 1
  BY DEF Next, vars, ListenMade, ListenData, ListenClose, ListenLost, ListenReceives,
         ConnectReceivesMade, ConnectReceivesData, ConnectReceivesLost, ConnectSucceeds,
         ConnectFails, BackendData, BackendLost, ActiveChanges, LinkLost, LinkUp, listener
<1>1. CASE ListenMade
  BY <1>0, <1>1, HomeListenMade
<1>2. CASE ListenData
  <2>1. /\ ListenSends("data") /\ listenConn \in {"open", "closed"}
        /\ UNCHANGED <<home, listenConn, backend, route, online>>
    BY <1>2 DEF ListenData, connector, links
  <2> QED
    BY <1>0, <2>1, HomeListenSays
<1>3. CASE ListenClose
  BY <1>0, <1>3, HomeListenClose
<1>4. CASE ListenLost
  <2>1. /\ ListenSends("lost") /\ listenConn \in {"open", "closed"}
        /\ listenConn' = "gone"
        /\ UNCHANGED <<home, backend, route, online>>
    BY <1>4 DEF ListenLost, connector, links
  <2> QED
    BY <1>0, <2>1, HomeListenSays
<1>5. CASE \E p \in Process, c \in Client, m \in Message : ListenReceives(p, c, m)
  BY <1>0, <1>5, HomeListenReceives
<1>6. CASE \E p \in Process, c \in Client :
             \/ ConnectReceivesMade(p, c)
             \/ ConnectReceivesData(p, c)
             \/ ConnectReceivesLost(p, c)
  BY <1>0, <1>6, HomeConnectReceives
<1>7. CASE \E p \in Process :
             \/ ConnectSucceeds(p) \/ ConnectFails(p)
             \/ BackendData(p) \/ BackendLost(p)
  BY <1>0, <1>7, HomeConnectSays
<1>8. CASE ActiveChanges
  BY <1>8 DEF ActiveChanges, listener, connector, carried, HomeInv, OthersSilent,
       NothingBefore, OpenIsRouted
<1>9. CASE \E c \in Client : LinkLost(c)
  BY <1>0, <1>9, HomeLinkLost
<1>10. CASE \E c \in Client : LinkUp(c)
  <2>1. PICK c \in Client : LinkUp(c)
    BY <1>10
  <2>2. /\ UNCHANGED <<home, listenConn, backend, route, toServer, toClient>>
        /\ \A d \in Client : online[d] => online'[d]
    BY <2>1 DEF LinkUp, listener, connector, carried, Typed
  <2> QED
    BY <2>2 DEF HomeInv, OthersSilent, NothingBefore, OpenIsRouted
<1>11. CASE UNCHANGED vars
  BY <1>11 DEF vars, listener, connector, links, carried, HomeInv, OthersSilent,
       NothingBefore, OpenIsRouted
<1> QED
  BY <1>1, <1>2, <1>3, <1>4, <1>5, <1>6, <1>7, <1>8, <1>9, <1>10, <1>11 DEF Next

LEMMA HomeAlways == Spec => [](Typed /\ HomeInv)
<1>1. Init => Typed /\ HomeInv
  BY TypedInit, HomeInit
<1>2. Typed /\ HomeInv /\ [Next]_vars => (Typed /\ HomeInv)'
  BY TypedStep, HomeStep
<1> QED
  BY <1>1, <1>2, PTL DEF Spec

-----------------------------------------------------------------------------
(* What the server says of a client's open connection goes to that client,  *)
(* through any failovers and losses of links (tcp_tunnel_connect.py, _send).*)
THEOREM RepliesComeHome == Spec => []RepliesGoHome
<1>1. Typed /\ HomeInv => RepliesGoHome
  BY DEF Typed, HomeInv, OpenIsRouted, RepliesGoHome, Other
<1> QED
  BY <1>1, HomeAlways, PTL

-----------------------------------------------------------------------------
(* From the application to the backend, wherever the listen side is         *)

Counted ==
    /\ listenConn # "connecting"
    /\ sent \in 0..MaxData
    /\ replied \in 0..MaxData
    /\ buffered \in [Process -> Nat]
    /\ got \in [Process -> Nat]
    /\ changes \in 0..MaxChanges
    /\ losses \in 0..MaxLosses

(* The connect side the listen side speaks to: any, one or none of them.    *)
Addressee == IF home = Server THEN active ELSE Server

(* As long as nothing happens that may lose data *)
Steady == losses = 0 /\ (home = Server => changes = 0)

(* Only the connect sides connect, and only client 1 has the listen side.   *)
OneWay ==
    /\ \A p \in Process \ ConnectSide : backend[p] = "none" /\ got[p] = 0 /\ buffered[p] = 0
    /\ home = 1 => toServer[2] = Empty

OpenIsFlushed == \A p \in Process : backend[p] = "open" => buffered[p] = 0

(* The end of the application's connection is said once, when it has gone.  *)
EndSaidOnce ==
    \A p \in ConnectSide :
        On("lost", InBox(p)) => listenConn = "gone" /\ InBox(p)["lost"] = 1

(* A connection is announced once, to a connect side that has not connected *)
(* for it.                                                                  *)
NothingSaid ==
    listenConn = "none" => \A p \in ConnectSide : InBox(p) = Empty /\ backend[p] = "none"

MadeIsNew ==
    \A p \in ConnectSide :
        OneMade(InBox(p)) /\ (On("made", InBox(p)) => backend[p] = "none")

(* No chunk is at two places. *)
NothingDoubled ==
    IF home = Server THEN Arrived(1) + Arrived(2) <= sent ELSE Arrived(Server) <= sent

(* What the application's end has closed lacks only what that overtook.     *)
ClosedByEnd(p) ==
    listenConn = "gone" /\ ~On("lost", InBox(p)) /\ got[p] + overtaken["data"] = sent

(* Until a link is lost or, for the server's own connections, the active    *)
(* client changes, all data goes one way and none of it is lost; and what   *)
(* has been closed was closed by the end of the application's connection.   *)
SteadyFlow ==
    Steady =>
        /\ \A c \in Client : online[c]
        /\ \A p \in ConnectSide :
              /\ p # Addressee => InBox(p) = Empty /\ backend[p] = "none"
              /\ p = Addressee /\ backend[p] # "gone" => Arrived(p) = sent
              /\ backend[p] = "closed" => ClosedByEnd(p)

FlowInv ==
    /\ OneWay /\ OpenIsFlushed /\ EndSaidOnce /\ NothingSaid /\ MadeIsNew
    /\ NothingDoubled /\ SteadyFlow

LEMMA InBoxType ==
    Typed /\ Counted => \A p \in ConnectSide :
        InBox(p) \in Bag /\ InBox(p)["data"] \in Nat /\ Arrived(p) \in Nat
<1> SUFFICES ASSUME Typed, Counted, NEW p \in ConnectSide
             PROVE  InBox(p) \in Bag /\ InBox(p)["data"] \in Nat /\ Arrived(p) \in Nat
  OBVIOUS
<1>1. InBox(p) \in Bag
  BY DEF Typed, ConnectSide, InBox
<1>2. InBox(p)["data"] \in Nat
  BY <1>1 DEF Bag, Message
<1>3. p \in Process
  BY DEF ConnectSide
<1> QED
  BY <1>1, <1>2, <1>3 DEF Arrived, Counted

-----------------------------------------------------------------------------
(* Types of the counters *)

LEMMA CountedStep == Typed /\ Counted /\ [Next]_vars => Counted'
<1> SUFFICES ASSUME Typed, Counted, [Next]_vars PROVE Counted'
  OBVIOUS
<1>0. MaxData \in Nat /\ MaxChanges \in Nat /\ MaxLosses \in Nat
  BY TunnelConnectionAssumption DEF TunnelConnectionAssumption
<1>1. CASE ListenMade \/ ListenData \/ ListenClose \/ ListenLost
  BY <1>0, <1>1 DEF ListenMade, ListenData, ListenClose, ListenLost, Counted, connector, links
<1>2. CASE \E p \in Process, c \in Client, m \in Message : ListenReceives(p, c, m)
  BY <1>2 DEF ListenReceives, Counted, connector, links
<1>3. ASSUME NEW p \in Process, NEW c \in Client,
             \/ ConnectReceivesMade(p, c)
             \/ ConnectReceivesData(p, c)
             \/ ConnectReceivesLost(p, c)
      PROVE  Counted'
  <2>1. UNCHANGED <<listenConn, sent, replied, changes, losses>>
    BY <1>3 DEF ConnectReceivesMade, ConnectReceivesData, ConnectReceivesLost, listener, links
  <2>2. buffered' \in [Process -> Nat] /\ got' \in [Process -> Nat]
    BY <1>3 DEF ConnectReceivesMade, ConnectReceivesData, ConnectReceivesLost, Counted
  <2> QED
    BY <2>1, <2>2 DEF Counted
<1>4. ASSUME NEW p \in Process,
             ConnectSucceeds(p) \/ ConnectFails(p) \/ BackendData(p) \/ BackendLost(p)
      PROVE  Counted'
  <2>1. UNCHANGED <<listenConn, sent, changes, losses>>
    BY <1>4 DEF ConnectSucceeds, ConnectFails, BackendData, BackendLost, listener, links
  <2>2. replied' \in 0..MaxData
    BY <1>0, <1>4 DEF ConnectSucceeds, ConnectFails, BackendData, BackendLost, Counted
  <2>3. buffered' \in [Process -> Nat] /\ got' \in [Process -> Nat]
    BY <1>4 DEF ConnectSucceeds, ConnectFails, BackendData, BackendLost, Counted
  <2> QED
    BY <2>1, <2>2, <2>3 DEF Counted
<1>5. CASE ActiveChanges
  BY <1>0, <1>5 DEF ActiveChanges, Counted, listener, connector
<1>6. ASSUME NEW c \in Client, LinkLost(c) PROVE Counted'
  <2>1. losses' \in 0..MaxLosses /\ listenConn' # "connecting"
    BY <1>0, <1>6 DEF LinkLost, Counted
  <2>2. UNCHANGED <<sent, replied, buffered, got, changes>>
    BY <1>6 DEF LinkLost
  <2> QED
    BY <2>1, <2>2 DEF Counted
<1>7. CASE \E c \in Client : LinkUp(c)
  BY <1>7 DEF LinkUp, Counted, listener, connector
<1>8. CASE UNCHANGED vars
  BY <1>8 DEF vars, Counted, listener, connector, links
<1> QED
  BY <1>1, <1>2, <1>3, <1>4, <1>5, <1>6, <1>7, <1>8 DEF Next

-----------------------------------------------------------------------------
(* What the steps do to what is on its way to the connect sides *)

(* The listen side's words go to the addressee, if its link is up. *)
LEMMA FlowListenSends ==
    ASSUME Typed, NEW m \in Message, ListenSends(m), home' = home
    PROVE  /\ \A p \in ConnectSide :
                 /\ p # Addressee => InBox(p)' = InBox(p)
                 /\ p = Addressee => \/ InBox(p)' = With(InBox(p), m)
                                     \/ InBox(p)' = InBox(p) /\ \E c \in Client : ~online[c]
           /\ home = 1 => toServer'[2] = toServer[2]
<1>1. CASE home = Server
  <2>1. \A d \in Client : toClient'[d] = IF d = active /\ online[d]
                              THEN With(toClient[d], m) ELSE toClient[d]
    BY <1>1, SendQueues DEF ListenSends, Typed
  <2>2. \A p \in Client : InBox(p) = toClient[p] /\ InBox(p)' = toClient'[p]
    BY DEF InBox
  <2>3. ConnectSide = Client /\ Addressee = active
    BY <1>1 DEF ConnectSide, Addressee
  <2>4. ASSUME NEW p \in ConnectSide
        PROVE  /\ p # Addressee => InBox(p)' = InBox(p)
               /\ p = Addressee => \/ InBox(p)' = With(InBox(p), m)
                                   \/ InBox(p)' = InBox(p) /\ \E c \in Client : ~online[c]
    <3>1. p \in Client /\ InBox(p) = toClient[p] /\ InBox(p)' = toClient'[p]
      BY <2>2, <2>3
    <3> QED
      BY <2>1, <2>3, <3>1
  <2> QED
    BY <1>1, <2>4
<1>2. CASE home = 1
  <2>1. \A d \in Client : toServer'[d] = IF d = 1 /\ online[1]
                              THEN With(toServer[d], m) ELSE toServer[d]
    BY <1>2, SendQueues DEF ListenSends, Typed
  <2>2. InBox(Server) = toServer[1] /\ InBox(Server)' = toServer'[1]
    BY <1>2 DEF InBox
  <2>3. ConnectSide = {Server} /\ Addressee = Server
    BY <1>2 DEF ConnectSide, Addressee
  <2>4. ASSUME NEW p \in ConnectSide
        PROVE  /\ p = Addressee
               /\ \/ InBox(p)' = With(InBox(p), m)
                  \/ InBox(p)' = InBox(p) /\ \E c \in Client : ~online[c]
    <3>1. p = Server /\ InBox(p) = toServer[1] /\ InBox(p)' = toServer'[1]
      BY <2>2, <2>3
    <3> QED
      BY <2>1, <2>3, <3>1
  <2> QED
    BY <2>1, <2>4
<1> QED
  BY <1>1, <1>2 DEF Typed

(* The connect sides' words go the other way, ... *)
LEMMA FlowConnectSends ==
    ASSUME Typed, OneWay, NEW m \in Message, NEW p \in Process, backend[p] # "none",
           ConnectSends(p, m), home' = home
    PROVE  /\ p \in ConnectSide
           /\ \A q \in ConnectSide : InBox(q)' = InBox(q)
           /\ home = 1 => toServer'[2] = toServer[2]
<1>1. p \in ConnectSide
  BY DEF OneWay
<1>2. CASE home = Server
  <2>1. p \in Client /\ SendToServer(p, m)
    BY <1>1, <1>2 DEF ConnectSide, ConnectSends
  <2> QED
    BY <1>1, <1>2, <2>1 DEF SendToServer, ConnectSide, InBox
<1>3. CASE home = 1
  <2>1. p = Server
    BY <1>1, <1>3 DEF ConnectSide
  <2>2. toServer' = toServer
    BY <2>1 DEF ConnectSends, SendToClient
  <2> QED
    BY <1>1, <1>3, <2>2 DEF ConnectSide, InBox
<1> QED
  BY <1>2, <1>3 DEF Typed

(* ... and what the listen side takes off came that way. *)
LEMMA FlowListenReceives ==
    ASSUME Typed, NEW p \in Process, NEW c \in Client, NEW m \in Message,
           ListenReceives(p, c, m)
    PROVE  /\ \A q \in ConnectSide : InBox(q)' = InBox(q)
           /\ home = 1 => toServer'[2] = toServer[2]
<1>1. (p = Server) = (home = Server) /\ home' = home
  BY DEF ListenReceives
<1>2. CASE home = Server
  BY <1>1, <1>2 DEF ListenReceives, Receive, ConnectSide, InBox
<1>3. CASE home = 1
  BY <1>1, <1>3 DEF ListenReceives, Receive, ConnectSide, InBox
<1> QED
  BY <1>2, <1>3 DEF Typed

(* A connect side takes off a message that is on its way to it.             *)
LEMMA FlowConnectReceives ==
    ASSUME Typed, OneWay, NEW p \in ConnectSide, NEW c \in Client, NEW m \in Message,
           Receive(p, c, m), home' = home
    PROVE  /\ m \in Message /\ InBox(p)[m] > 0
           /\ InBox(p)' = Without(InBox(p), m)
           /\ \A q \in ConnectSide \ {p} : InBox(q)' = InBox(q)
           /\ home = 1 => toServer'[2] = toServer[2]
<1>0. p \in Process
  BY DEF ConnectSide
<1>1. CASE home = Server
  BY <1>0, <1>1, HomeReceive DEF ConnectSide, InBox
<1>2. CASE home = 1
  <2>1. p = Server
    BY <1>2 DEF ConnectSide
  <2>2. /\ m \in Message /\ toServer[c][m] > 0
        /\ toServer'[c] = Without(toServer[c], m)
        /\ \A d \in Client \ {c} : toServer'[d] = toServer[d]
    BY <1>0, <2>1, HomeReceive
  <2>3. c = 1
    BY <1>2, <2>2, Nothing DEF OneWay
  <2> QED
    BY <1>2, <2>1, <2>2, <2>3 DEF ConnectSide, InBox
<1> QED
  BY <1>1, <1>2 DEF Typed

-----------------------------------------------------------------------------
(* The steps of the flow of data, one by one *)

LEMMA NotDoubled ==
    ASSUME Typed, Counted, Typed', Counted', NothingDoubled, home' = home, sent' = sent,
           \A p \in ConnectSide : Arrived(p)' \in Nat /\ Arrived(p)' <= Arrived(p)
    PROVE  NothingDoubled'
<1>1. sent \in Nat /\ \A p \in ConnectSide : Arrived(p) \in Nat
  BY InBoxType, TunnelConnectionAssumption DEF Counted, TunnelConnectionAssumption
<1>2. CASE home = Server
  <2>1. 1 \in ConnectSide /\ 2 \in ConnectSide
    BY <1>2 DEF ConnectSide
  <2>2. Arrived(1) + Arrived(2) <= sent
    BY <1>2 DEF NothingDoubled
  <2>3. Arrived(1)' + Arrived(2)' <= sent
    BY <1>1, <2>1, <2>2
  <2> QED
    BY <1>2, <2>3 DEF NothingDoubled
<1>3. CASE home = 1
  <2>1. Server \in ConnectSide
    BY <1>3 DEF ConnectSide
  <2>2. Arrived(Server) <= sent
    BY <1>3 DEF NothingDoubled
  <2>3. Arrived(Server)' <= sent
    BY <1>1, <2>1, <2>2
  <2> QED
    BY <1>3, <2>3 DEF NothingDoubled
<1> QED
  BY <1>2, <1>3 DEF Typed

(* The application's connection is made, sends or ends. *)
LEMMA FlowListenSays ==
    ASSUME Typed, Counted, Typed', Counted', FlowInv, NEW m \in Message,
           ListenSends(m), listenConn # "gone", listenConn' # "none",
           m = "made" => listenConn = "none", m = "lost" => listenConn' = "gone",
           sent' = sent + (IF m = "data" THEN 1 ELSE 0),
           UNCHANGED <<home, backend, buffered, got, overtaken, online, active, changes,
                       losses>>
    PROVE  FlowInv'
<1> DEFINE more == IF m = "data" THEN 1 ELSE 0
<1>1. /\ \A p \in ConnectSide :
            /\ p # Addressee => InBox(p)' = InBox(p)
            /\ p = Addressee => \/ InBox(p)' = With(InBox(p), m)
                                \/ InBox(p)' = InBox(p) /\ \E c \in Client : ~online[c]
      /\ home = 1 => toServer'[2] = toServer[2]
  BY FlowListenSends
<1>2. /\ ConnectSide' = ConnectSide /\ Addressee' = Addressee /\ (Steady' <=> Steady)
      /\ sent \in Nat /\ more \in Nat /\ sent' = sent + more
  BY TunnelConnectionAssumption
  DEF ConnectSide, Addressee, Steady, Counted, TunnelConnectionAssumption
<1>3. OneWay' /\ OpenIsFlushed'
  BY <1>1, <1>2 DEF FlowInv, OneWay, OpenIsFlushed
<1>4. ASSUME NEW p \in ConnectSide, On("lost", InBox(p)')
      PROVE  listenConn' = "gone" /\ InBox(p)'["lost"] = 1
  <2>1. InBox(p) \in Bag /\ ~On("lost", InBox(p))
    BY InBoxType DEF FlowInv, EndSaidOnce
  <2>2. InBox(p)' = With(InBox(p), m)
    BY <1>1, <1>4, <2>1
  <2>3. /\ \A n : On(n, With(InBox(p), m)) <=> On(n, InBox(p)) \/ n = m
        /\ \A n \in Message :
              With(InBox(p), m)[n] = InBox(p)[n] + IF n = m THEN 1 ELSE 0
    BY <2>1, Sending, Zenon
  <2>4. m = "lost" /\ InBox(p)["lost"] = 0
    BY <1>4, <2>1, <2>2, <2>3 DEF On, Bag, Message
  <2> QED
    BY <2>2, <2>3, <2>4 DEF Message
<1>5. EndSaidOnce'
  BY <1>2, <1>4 DEF EndSaidOnce
<1>6. ASSUME NEW p \in ConnectSide
      PROVE  /\ Arrived(p) \in Nat /\ Arrived(p)' \in Nat
             /\ p # Addressee => Arrived(p)' = Arrived(p)
             /\ p = Addressee => Arrived(p)' <= Arrived(p) + more
             /\ p = Addressee /\ (\A c \in Client : online[c])
                    => Arrived(p)' = Arrived(p) + more
  <2>1. /\ InBox(p) \in Bag
        /\ InBox(p)["data"] \in Nat /\ Arrived(p) \in Nat
        /\ got[p] \in Nat /\ buffered[p] \in Nat
    BY InBoxType DEF Counted, ConnectSide
  <2>2. /\ Arrived(p) = got[p] + buffered[p] + InBox(p)["data"]
        /\ Arrived(p)' = got[p] + buffered[p] + InBox(p)'["data"]
    BY DEF Arrived
  <2>3. With(InBox(p), m)["data"] = InBox(p)["data"] + more
    BY <2>1, Sending DEF Message
  <2>4. CASE InBox(p)' = InBox(p)
    <3>1. Arrived(p)' = Arrived(p)
      BY <2>2, <2>4
    <3>2. p = Addressee => (\E c \in Client : ~online[c]) \/ InBox(p) = With(InBox(p), m)
      BY <1>1, <2>4
    <3>3. InBox(p) # With(InBox(p), m)
      BY <2>1, Sending
    <3>4. Arrived(p)' \in Nat /\ Arrived(p)' <= Arrived(p) + more
      BY <1>2, <2>1, <3>1
    <3>5. ~(p = Addressee /\ \A c \in Client : online[c])
      BY <3>2, <3>3
    <3> QED
      BY <2>1, <3>1, <3>4, <3>5
  <2>5. CASE InBox(p)' = With(InBox(p), m)
    <3>1. Arrived(p)' = Arrived(p) + more
      <4>1. InBox(p)'["data"] = InBox(p)["data"] + more
        BY <2>3, <2>5
      <4> HIDE DEF more
      <4> QED
        BY <1>2, <2>1, <2>2, <4>1
    <3>2. p = Addressee
      <4>1. InBox(p) # With(InBox(p), m)
        BY <2>1, Sending
      <4> QED
        BY <1>1, <2>5, <4>1
    <3> QED
      BY <1>2, <2>1, <3>1, <3>2
  <2> QED
    BY <1>1, <2>4, <2>5
<1>7. NothingDoubled'
  <2>1. CASE home = Server
    <3>1. 1 \in ConnectSide /\ 2 \in ConnectSide
      BY <2>1 DEF ConnectSide
    <3>2. Arrived(1) + Arrived(2) <= sent
      BY <2>1 DEF FlowInv, NothingDoubled
    <3>3. Arrived(1)' + Arrived(2)' <= sent + more
      <4> HIDE DEF more
      <4> QED
        BY <1>2, <1>6, <3>1, <3>2
    <3> QED
      BY <1>2, <2>1, <3>3 DEF NothingDoubled
  <2>2. CASE home = 1
    <3>1. Server \in ConnectSide
      BY <2>2 DEF ConnectSide
    <3>2. Arrived(Server) <= sent
      BY <2>2 DEF FlowInv, NothingDoubled
    <3>3. Arrived(Server)' <= sent + more
      <4> HIDE DEF more
      <4> QED
        BY <1>2, <1>6, <3>1, <3>2
    <3> QED
      BY <1>2, <2>2, <3>3 DEF NothingDoubled
  <2> QED
    BY <2>1, <2>2 DEF Typed
<1>8. NothingSaid' /\ MadeIsNew'
  <2>1. ASSUME NEW p \in ConnectSide
        PROVE  OneMade(InBox(p)') /\ (On("made", InBox(p)') => backend[p] = "none")
    <3>1. /\ OneMade(InBox(p)) /\ (On("made", InBox(p)) => backend[p] = "none")
          /\ m = "made" => ~On("made", InBox(p)) /\ backend[p] = "none"
      BY Nothing DEF FlowInv, MadeIsNew, NothingSaid
    <3>2. InBox(p) \in Bag
      BY InBoxType
    <3>3. CASE InBox(p)' = InBox(p)
      BY <3>1, <3>3
    <3>4. CASE InBox(p)' = With(InBox(p), m)
      <4>1. /\ \A n : On(n, With(InBox(p), m)) <=> On(n, InBox(p)) \/ n = m
            /\ OneMade(InBox(p)) /\ (m = "made" => ~On("made", InBox(p)))
                   => OneMade(With(InBox(p), m))
        BY <3>2, Sending, Zenon
      <4> QED
        BY <3>1, <3>4, <4>1, Zenon
    <3> QED
      BY <1>1, <3>3, <3>4
  <2> QED
    BY <1>2, <2>1 DEF NothingSaid, MadeIsNew
<1>9. SteadyFlow'
  <2>1. SUFFICES ASSUME Steady, NEW p \in ConnectSide
                 PROVE  /\ \A c \in Client : online'[c]
                        /\ p # Addressee => InBox(p)' = Empty /\ backend'[p] = "none"
                        /\ p = Addressee /\ backend'[p] # "gone" => Arrived(p)' = sent'
                        /\ backend'[p] # "closed"
    <3>1. \E p : p \in ConnectSide
      BY DEF ConnectSide
    <3> QED
      BY <1>2, <2>1, <3>1 DEF SteadyFlow
  <2>2. /\ \A c \in Client : online[c]
        /\ p # Addressee => InBox(p) = Empty /\ backend[p] = "none"
        /\ p = Addressee /\ backend[p] # "gone" => Arrived(p) = sent
        /\ backend[p] # "closed"
    BY <2>1 DEF FlowInv, SteadyFlow, ClosedByEnd
  <2> HIDE DEF more
  <2> QED
    BY <1>1, <1>2, <1>6, <2>2
<1> QED
  BY <1>3, <1>5, <1>7, <1>8, <1>9 DEF FlowInv

(* A step that moves no data and tells no connect side anything. *)
LEMMA FlowQuiet ==
    ASSUME Typed, Counted, Typed', Counted', FlowInv,
           \A p \in ConnectSide : InBox(p)' = InBox(p),
           home = 1 => toServer'[2] = toServer[2],
           UNCHANGED <<home, sent, backend, buffered, got, overtaken>>,
           listenConn = "gone" => listenConn' = "gone",
           listenConn' = "none" => listenConn = "none",
           \A c \in Client : online[c] => online'[c],
           Steady' => Steady /\ Addressee' = Addressee
    PROVE  FlowInv'
<1>1. ConnectSide' = ConnectSide
  BY DEF ConnectSide
<1>2. \A p \in ConnectSide : Arrived(p)' = Arrived(p) /\ Arrived(p) \in Nat
  BY InBoxType DEF Arrived
<1>3. OneWay' /\ OpenIsFlushed'
  BY <1>1 DEF FlowInv, OneWay, OpenIsFlushed
<1>4. EndSaidOnce'
  BY <1>1 DEF FlowInv, EndSaidOnce
<1>5. NothingDoubled'
  BY <1>2, NotDoubled DEF FlowInv
<1>6. SteadyFlow'
  BY <1>1, <1>2 DEF FlowInv, SteadyFlow, ClosedByEnd
<1>7. NothingSaid' /\ MadeIsNew'
  BY <1>1 DEF FlowInv, NothingSaid, MadeIsNew
<1> QED
  BY <1>3, <1>4, <1>5, <1>6, <1>7 DEF FlowInv

(* A backend connection is made, fails or is lost. *)
LEMMA FlowBackend ==
    ASSUME Typed, Counted, Typed', Counted', FlowInv, NEW p \in Process,
           ConnectSucceeds(p) \/ ConnectFails(p) \/ BackendLost(p)
    PROVE  FlowInv'
<1>0. "made" \in Message /\ "lost" \in Message
  BY DEF Message
<1>1. PICK m \in Message : ConnectSends(p, m)
  BY <1>0 DEF ConnectSucceeds, ConnectFails, BackendLost
<1>2. /\ backend[p] \in {"connecting", "open", "closed"}
      /\ UNCHANGED <<home, listenConn, sent, overtaken, online, active, changes, losses>>
  BY DEF ConnectSucceeds, ConnectFails, BackendLost, listener, links
<1>3. /\ p \in ConnectSide
      /\ \A q \in ConnectSide : InBox(q)' = InBox(q)
      /\ home = 1 => toServer'[2] = toServer[2]
  BY <1>1, <1>2, FlowConnectSends DEF FlowInv
<1>4. /\ ConnectSide' = ConnectSide /\ Addressee' = Addressee /\ (Steady' <=> Steady)
      /\ ConnectSide \subseteq Process
  BY <1>2 DEF ConnectSide, Addressee, Steady
<1>5. /\ backend'[p] \in {"open", "gone"} /\ buffered'[p] = 0
      /\ \A q \in Process \ {p} : /\ backend'[q] = backend[q]
                                  /\ buffered'[q] = buffered[q]
                                  /\ got'[q] = got[q]
      /\ backend'[p] = "open" => got'[p] = got[p] + buffered[p]
      /\ backend'[p] # "open" => got'[p] = got[p]
  BY DEF ConnectSucceeds, ConnectFails, BackendLost, Typed, Counted
<1>6. ASSUME NEW q \in ConnectSide
      PROVE  /\ Arrived(q)' \in Nat /\ Arrived(q)' <= Arrived(q)
             /\ backend'[q] # "gone" => Arrived(q)' = Arrived(q)
  <2>1. /\ Arrived(q) = got[q] + buffered[q] + InBox(q)["data"]
        /\ Arrived(q)' = got'[q] + buffered'[q] + InBox(q)'["data"]
        /\ InBox(q)' = InBox(q)
    BY <1>3 DEF Arrived
  <2>2. /\ got[q] \in Nat /\ buffered[q] \in Nat /\ InBox(q)["data"] \in Nat
    BY <1>4, InBoxType DEF Counted
  <2>3. CASE q = p
    BY <1>5, <2>1, <2>2, <2>3
  <2>4. CASE q # p
    BY <1>4, <1>5, <2>1, <2>2, <2>4
  <2> QED
    BY <2>3, <2>4
<1>7. OneWay' /\ OpenIsFlushed'
  BY <1>2, <1>3, <1>4, <1>5 DEF FlowInv, OneWay, OpenIsFlushed
<1>8. EndSaidOnce'
  BY <1>2, <1>3, <1>4 DEF FlowInv, EndSaidOnce
<1>9. NothingDoubled'
  BY <1>2, <1>6, NotDoubled DEF FlowInv
<1>10. ASSUME Steady, NEW q \in ConnectSide
       PROVE  /\ \A c \in Client : online'[c]
              /\ q # Addressee => InBox(q)' = Empty /\ backend'[q] = "none"
              /\ q = Addressee /\ backend'[q] # "gone" => Arrived(q)' = sent'
              /\ backend'[q] = "closed" => ClosedByEnd(q)'
  <2>1. /\ \A c \in Client : online[c]
        /\ q # Addressee => InBox(q) = Empty /\ backend[q] = "none"
        /\ q = Addressee /\ backend[q] # "gone" => Arrived(q) = sent
        /\ backend[q] = "closed" => ClosedByEnd(q)
    BY <1>10 DEF FlowInv, SteadyFlow
  <2>2. CASE q = p
    BY <1>2, <1>3, <1>5, <1>6, <2>1, <2>2
  <2>3. CASE q # p
    BY <1>2, <1>3, <1>4, <1>5, <1>6, <2>1, <2>3 DEF ClosedByEnd
  <2> QED
    BY <2>2, <2>3
<1>11. SteadyFlow'
  BY <1>3, <1>4, <1>10 DEF SteadyFlow
<1>12. NothingSaid' /\ MadeIsNew'
  <2>1. ~On("made", InBox(p)) /\ listenConn # "none"
    BY <1>2, <1>3 DEF FlowInv, NothingSaid, MadeIsNew
  <2>2. \A q \in ConnectSide \ {p} : backend'[q] = backend[q]
    BY <1>4, <1>5
  <2> QED
    BY <1>2, <1>3, <1>4, <2>1, <2>2 DEF FlowInv, NothingSaid, MadeIsNew
<1> QED
  BY <1>7, <1>8, <1>9, <1>11, <1>12 DEF FlowInv

(* A connect side takes a message that is on its way to it. *)
LEMMA FlowTakes ==
    ASSUME Typed, Counted, Typed', Counted', FlowInv, NEW p \in Process, NEW c \in Client,
           \/ ConnectReceivesMade(p, c)
           \/ ConnectReceivesData(p, c)
           \/ ConnectReceivesLost(p, c)
    PROVE  FlowInv'
<1>1. PICK m \in Message :
          /\ Receive(p, c, m)
          /\ m = "made" => ConnectReceivesMade(p, c)
          /\ m = "data" => ConnectReceivesData(p, c)
          /\ m = "lost" => ConnectReceivesLost(p, c)
  BY DEF ConnectReceivesMade, ConnectReceivesData, ConnectReceivesLost, Message, Receive
<1>2. /\ p \in ConnectSide
      /\ UNCHANGED <<home, listenConn, sent, online, active, changes, losses>>
  BY DEF ConnectReceivesMade, ConnectReceivesData, ConnectReceivesLost, listener, links
<1>3. /\ m \in Message /\ InBox(p)[m] > 0
      /\ InBox(p)' = Without(InBox(p), m)
      /\ \A q \in ConnectSide \ {p} : InBox(q)' = InBox(q)
      /\ home = 1 => toServer'[2] = toServer[2]
  BY <1>1, <1>2, FlowConnectReceives DEF FlowInv
<1>4. /\ ConnectSide' = ConnectSide /\ Addressee' = Addressee /\ (Steady' <=> Steady)
      /\ ConnectSide \subseteq Process
  BY <1>2 DEF ConnectSide, Addressee, Steady
<1>5. \A q \in Process \ {p} : /\ backend'[q] = backend[q]
                               /\ buffered'[q] = buffered[q]
                               /\ got'[q] = got[q]
  BY DEF ConnectReceivesMade, ConnectReceivesData, ConnectReceivesLost, Typed, Counted
<1>6. m = "made" => /\ backend'[p] = "connecting"
                    /\ buffered'[p] = buffered[p] /\ got'[p] = got[p]
  BY <1>1 DEF ConnectReceivesMade, Typed, Counted
<1>7. m = "data" => /\ backend'[p] = backend[p]
                    /\ backend[p] = "open" => got'[p] = got[p] + 1
                                                /\ buffered'[p] = buffered[p]
                    /\ backend[p] # "open" => got'[p] = got[p]
                                                /\ buffered'[p] = buffered[p] + 1
  BY <1>1 DEF ConnectReceivesData, Typed, Counted
<1>8. m = "lost" => /\ got'[p] = got[p]
                    /\ backend[p] = "open" => backend'[p] = "closed" /\ buffered'[p] = 0
                    /\ backend[p] # "open" => backend'[p] = backend[p]
                                                /\ buffered'[p] = buffered[p]
  BY <1>1 DEF ConnectReceivesLost, Typed, Counted
<1>0. /\ m # "lost" => overtaken' = overtaken
      /\ m = "lost" => overtaken' = InBox(p)'
  BY <1>1 DEF ConnectReceivesMade, ConnectReceivesData, ConnectReceivesLost, Message
<1>9. m \in {"made", "data", "lost"}
  BY DEF Message
<1>10. backend[p] = "open" => buffered[p] = 0
  BY <1>2, <1>4 DEF FlowInv, OpenIsFlushed
<1>11. /\ InBox(p) \in Bag
       /\ got[p] \in Nat /\ buffered[p] \in Nat
       /\ InBox(p)["data"] = InBox(p)'["data"] + IF m = "data" THEN 1 ELSE 0
       /\ InBox(p)' \in Bag /\ InBox(p)'["data"] \in Nat
  <2>1. InBox(p) \in Bag
    BY <1>2, InBoxType
  <2>2. InBox(p)' \in Bag
    BY <1>3, <2>1, Taking
  <2>3. InBox(p)["data"] = InBox(p)'["data"] + IF m = "data" THEN 1 ELSE 0
    BY <1>3, <2>1, Taking DEF Message
  <2>4. InBox(p)'["data"] \in Nat
    BY <2>2 DEF Bag, Message
  <2> QED
    BY <1>2, <1>4, <2>1, <2>2, <2>3, <2>4 DEF Counted
<1>12. Arrived(p)' = Arrived(p)
  <2>1. /\ Arrived(p) = got[p] + buffered[p] + InBox(p)["data"]
        /\ Arrived(p)' = got'[p] + buffered'[p] + InBox(p)'["data"]
    BY DEF Arrived
  <2>2. CASE m = "made"
    BY <1>6, <1>11, <2>1, <2>2
  <2>3. CASE m = "data"
    <3>1. InBox(p)["data"] = InBox(p)'["data"] + 1
      BY <1>11, <2>3
    <3>2. got'[p] + buffered'[p] = got[p] + buffered[p] + 1
      <4>1. got[p] \in Nat /\ buffered[p] \in Nat
        BY <1>11
      <4>2. \/ got'[p] = got[p] + 1 /\ buffered'[p] = buffered[p]
            \/ got'[p] = got[p] /\ buffered'[p] = buffered[p] + 1
        BY <1>7, <2>3, Zenon
      <4> QED
        BY <4>1, <4>2
    <3>3. got'[p] \in Nat /\ buffered'[p] \in Nat
      BY <1>2, <1>4 DEF Counted
    <3>4. got[p] \in Nat /\ buffered[p] \in Nat /\ InBox(p)'["data"] \in Nat
      BY <1>11
    <3> QED
      BY <2>1, <3>1, <3>2, <3>3, <3>4
  <2>4. CASE m = "lost"
    BY <1>8, <1>10, <1>11, <2>1, <2>4
  <2> QED
    BY <1>9, <2>2, <2>3, <2>4
<1>13. \A q \in ConnectSide : Arrived(q)' = Arrived(q) /\ Arrived(q) \in Nat
  <2>1. ASSUME NEW q \in ConnectSide, q # p PROVE Arrived(q)' = Arrived(q)
    BY <1>3, <1>4, <1>5, <2>1 DEF Arrived
  <2> QED
    BY <1>12, <2>1, InBoxType
<1>14. /\ m = "made" => backend[p] = "none"
       /\ OneMade(InBox(p)')
       /\ On("made", InBox(p)') => m # "made" /\ backend[p] = "none"
  <2>1. OneMade(InBox(p)) /\ (On("made", InBox(p)) => backend[p] = "none")
    BY <1>2 DEF FlowInv, MadeIsNew
  <2>2. /\ \A n : On(n, InBox(p)) <=> n = m \/ On(n, Without(InBox(p), m))
        /\ OneMade(InBox(p)) => /\ OneMade(Without(InBox(p), m))
                                /\ m = "made" => ~On("made", Without(InBox(p), m))
    BY <1>3, <1>11, Taking, Zenon
  <2> QED
    BY <1>3, <2>1, <2>2, Zenon
<1>15. OneWay'
  BY <1>2, <1>3, <1>4, <1>5 DEF FlowInv, OneWay
<1>16. OpenIsFlushed'
  BY <1>5, <1>6, <1>7, <1>8, <1>9, <1>10 DEF FlowInv, OpenIsFlushed
<1>17. /\ On("lost", InBox(p)') => listenConn' = "gone" /\ InBox(p)'["lost"] = 1
       /\ m = "lost" => listenConn = "gone" /\ ~On("lost", InBox(p)')
       /\ On("lost", InBox(p)') => On("lost", InBox(p))
  <2>1. On("lost", InBox(p)) => listenConn = "gone" /\ InBox(p)["lost"] = 1
    BY <1>2 DEF FlowInv, EndSaidOnce
  <2>0. /\ \A n : On(n, InBox(p)) <=> n = m \/ On(n, Without(InBox(p), m))
        /\ \A n \in Message :
              InBox(p)[n] = Without(InBox(p), m)[n] + IF n = m THEN 1 ELSE 0
    BY <1>3, <1>11, Taking, Zenon
  <2>2. \A n : On(n, InBox(p)) <=> n = m \/ On(n, InBox(p)')
    BY <1>3, <2>0
  <2>3. \A n \in Message : InBox(p)[n] = InBox(p)'[n] + IF n = m THEN 1 ELSE 0
    BY <1>3, <2>0
  <2>4. "lost" \in Message /\ InBox(p)'["lost"] \in Nat
    BY <1>11 DEF Bag, Message
  <2>5. m = "lost" => InBox(p)'["lost"] = 0
    BY <2>1, <2>2, <2>3, <2>4
  <2>6. On("lost", InBox(p)') => InBox(p)'["lost"] = InBox(p)["lost"]
    BY <2>3, <2>4, <2>5 DEF On
  <2> QED
    BY <1>2, <2>1, <2>2, <2>5, <2>6 DEF On
<1>18. EndSaidOnce'
  BY <1>2, <1>3, <1>4, <1>17 DEF FlowInv, EndSaidOnce
<1>19. NothingDoubled'
  BY <1>2, <1>13, NotDoubled DEF FlowInv
<1>20. ASSUME Steady
       PROVE  p = Addressee /\ (backend'[p] = "closed" => ClosedByEnd(p)')
  <2>1. /\ p # Addressee => InBox(p) = Empty
        /\ backend[p] = "closed" => ClosedByEnd(p)
        /\ p = Addressee /\ backend[p] # "gone" => Arrived(p) = sent
    BY <1>2, <1>20 DEF FlowInv, SteadyFlow
  <2>2. p = Addressee
    BY <1>3, <2>1, Nothing
  <2>3. ASSUME m = "data", backend'[p] = "closed" PROVE ClosedByEnd(p)'
    BY <1>0, <1>2, <1>7, <1>17, <2>1, <2>3 DEF ClosedByEnd
  <2>4. ASSUME m = "lost", backend'[p] = "closed" PROVE ClosedByEnd(p)'
    <3>1. On("lost", InBox(p))
      BY <1>3, <2>4 DEF On
    <3>2. backend[p] = "open"
      BY <1>8, <2>1, <2>4, <3>1 DEF ClosedByEnd
    <3>3. /\ Arrived(p)' = sent /\ buffered'[p] = 0 /\ got'[p] = got[p]
          /\ Arrived(p)' = got'[p] + buffered'[p] + InBox(p)'["data"]
      BY <1>8, <1>12, <2>1, <2>2, <2>4, <3>2 DEF Arrived
    <3>4. got'[p] + overtaken'["data"] = sent'
      BY <1>0, <1>2, <1>11, <2>4, <3>3
    <3> QED
      BY <1>2, <1>17, <2>4, <3>4 DEF ClosedByEnd
  <2>5. m = "made" => backend'[p] # "closed"
    BY <1>6
  <2> QED
    BY <1>9, <2>2, <2>3, <2>4, <2>5
<1>21. ASSUME Steady, NEW q \in ConnectSide
       PROVE  /\ \A d \in Client : online'[d]
              /\ q # Addressee => InBox(q)' = Empty /\ backend'[q] = "none"
              /\ q = Addressee /\ backend'[q] # "gone" => Arrived(q)' = sent'
              /\ backend'[q] = "closed" => ClosedByEnd(q)'
  <2>1. /\ \A d \in Client : online[d]
        /\ q # Addressee => InBox(q) = Empty /\ backend[q] = "none"
        /\ q = Addressee /\ backend[q] # "gone" => Arrived(q) = sent
        /\ backend[q] = "closed" => ClosedByEnd(q)
    BY <1>21 DEF FlowInv, SteadyFlow
  <2>2. CASE q = p
    <3>1. backend[p] = "gone" => backend'[p] = "gone"
      BY <1>6, <1>7, <1>8, <1>9, <1>14
    <3> QED
      BY <1>2, <1>12, <1>20, <1>21, <2>1, <2>2, <3>1
  <2>3. CASE q # p
    <3>1. q # Addressee
      BY <1>20, <1>21, <2>3
    <3> QED
      BY <1>2, <1>3, <1>4, <1>5, <1>21, <2>1, <2>3, <3>1
  <2> QED
    BY <2>2, <2>3
<1>22. SteadyFlow'
  BY <1>2, <1>4, <1>21 DEF SteadyFlow
<1>23. NothingSaid' /\ MadeIsNew'
  <2>1. listenConn # "none"
    BY <1>2, <1>3, Nothing DEF FlowInv, NothingSaid
  <2>2. \A q \in ConnectSide \ {p} : backend'[q] = backend[q]
    BY <1>4, <1>5
  <2>3. On("made", InBox(p)') => backend'[p] = "none"
    BY <1>7, <1>8, <1>9, <1>14
  <2> QED
    BY <1>2, <1>3, <1>4, <1>14, <2>1, <2>2, <2>3 DEF FlowInv, NothingSaid, MadeIsNew
<1> QED
  BY <1>15, <1>16, <1>18, <1>19, <1>22, <1>23 DEF FlowInv

(* A link goes down, and with it what was on its way. *)
LEMMA FlowLinkLost ==
    ASSUME Typed, Counted, Typed', Counted', FlowInv, NEW c \in Client, LinkLost(c)
    PROVE  FlowInv'
<1>1. /\ UNCHANGED <<home, sent, buffered, got>> /\ losses' = losses + 1
      /\ ConnectSide' = ConnectSide /\ ConnectSide \subseteq Process
  BY DEF LinkLost, ConnectSide
<1>2. \A p \in Process : \/ backend'[p] = backend[p]
                         \/ backend[p] = "open" /\ backend'[p] = "closed"
  BY DEF LinkLost
<1>3. /\ \A p \in ConnectSide : InBox(p)' = InBox(p) \/ InBox(p)' = Empty
      /\ home = 1 /\ toServer[2] = Empty => toServer'[2] = Empty
  <2>1. /\ \A d \in Client : toServer'[d] = toServer[d] \/ toServer'[d] = Empty
        /\ \A d \in Client : toClient'[d] = toClient[d] \/ toClient'[d] = Empty
    BY DEF LinkLost, Typed
  <2>2. ASSUME NEW p \in ConnectSide PROVE InBox(p)' = InBox(p) \/ InBox(p)' = Empty
    <3>1. CASE p = Server
      BY <1>1, <2>1, <3>1 DEF InBox, ConnectSide, Typed
    <3>2. CASE p # Server
      BY <2>1, <3>2 DEF InBox, ConnectSide
    <3> QED
      BY <3>1, <3>2
  <2> QED
    BY <2>1, <2>2
<1>4. /\ listenConn = "gone" => listenConn' = "gone"
      /\ listenConn' = "none" => listenConn = "none"
  BY DEF LinkLost
<1>5. ASSUME NEW p \in ConnectSide
      PROVE  Arrived(p)' \in Nat /\ Arrived(p)' <= Arrived(p)
  <2>1. /\ Arrived(p) = got[p] + buffered[p] + InBox(p)["data"]
        /\ Arrived(p)' = got[p] + buffered[p] + InBox(p)'["data"]
    BY <1>1 DEF Arrived
  <2>2. /\ got[p] \in Nat /\ buffered[p] \in Nat
        /\ InBox(p)["data"] \in Nat /\ Arrived(p) \in Nat
    BY <1>1, InBoxType DEF Counted
  <2>3. CASE InBox(p)' = InBox(p)
    BY <2>1, <2>2, <2>3
  <2>4. CASE InBox(p)' = Empty
    <3>1. InBox(p)'["data"] = 0
      BY <2>4, Nothing DEF Message
    <3> QED
      BY <2>1, <2>2, <3>1
  <2> QED
    BY <1>3, <2>3, <2>4
<1>6. OneWay' /\ OpenIsFlushed'
  BY <1>1, <1>2, <1>3 DEF FlowInv, OneWay, OpenIsFlushed
<1>7. EndSaidOnce'
  <2>1. ASSUME NEW p \in ConnectSide, On("lost", InBox(p)')
        PROVE  listenConn' = "gone" /\ InBox(p)'["lost"] = 1
    <3>1. InBox(p)' = InBox(p)
      BY <1>3, <2>1, Nothing, Zenon
    <3> QED
      BY <1>4, <2>1, <3>1 DEF FlowInv, EndSaidOnce
  <2> QED
    BY <1>1, <2>1 DEF EndSaidOnce
<1>8. NothingDoubled'
  BY <1>1, <1>5, NotDoubled DEF FlowInv
<1>9. SteadyFlow'
  BY <1>1 DEF SteadyFlow, Steady, Counted
<1>10. NothingSaid'
  BY <1>1, <1>2, <1>3, <1>4 DEF FlowInv, NothingSaid
<1>11. MadeIsNew'
  <2>1. ASSUME NEW p \in ConnectSide
        PROVE  OneMade(InBox(p)') /\ (On("made", InBox(p)') => backend'[p] = "none")
    <3>1. OneMade(InBox(p)) /\ (On("made", InBox(p)) => backend[p] = "none")
      BY DEF FlowInv, MadeIsNew
    <3>2. backend[p] = "none" => backend'[p] = "none"
      BY <1>1, <1>2
    <3>3. CASE InBox(p)' = InBox(p)
      BY <3>1, <3>2, <3>3
    <3>4. CASE InBox(p)' = Empty
      BY <3>4, Nothing, Zenon
    <3> QED
      BY <1>3, <3>3, <3>4
  <2> QED
    BY <1>1, <2>1 DEF MadeIsNew
<1> QED
  BY <1>6, <1>7, <1>8, <1>9, <1>10, <1>11 DEF FlowInv

LEMMA FlowStep ==
    ASSUME Typed, Counted, Typed', Counted', FlowInv, [Next]_vars
    PROVE  FlowInv'
<1>1. CASE ListenMade
  <2>1. ListenSends("made") /\ listenConn = "none" /\ listenConn' = "open"
    BY <1>1 DEF ListenMade
  <2>2. /\ sent' = sent /\ sent' = sent + 0 /\ "made" \in Message
        /\ UNCHANGED <<home, backend, buffered, got, overtaken, online, active, changes,
                       losses>>
    BY <1>1, TunnelConnectionAssumption
    DEF ListenMade, connector, links, Message, Counted, TunnelConnectionAssumption
  <2> QED
    BY <2>1, <2>2, FlowListenSays
<1>2. CASE ListenData
  <2>1. ListenSends("data") /\ listenConn \in {"open", "closed"} /\ listenConn' = listenConn
    BY <1>2 DEF ListenData
  <2>2. /\ sent' = sent + 1 /\ "data" \in Message
        /\ UNCHANGED <<home, backend, buffered, got, overtaken, online, active, changes,
                       losses>>
    BY <1>2 DEF ListenData, connector, links, Message
  <2> QED
    BY <2>1, <2>2, FlowListenSays
<1>3. CASE ListenLost
  <2>1. ListenSends("lost") /\ listenConn \in {"open", "closed"} /\ listenConn' = "gone"
    BY <1>3 DEF ListenLost
  <2>2. /\ sent' = sent /\ sent' = sent + 0 /\ "lost" \in Message
        /\ UNCHANGED <<home, backend, buffered, got, overtaken, online, active, changes,
                       losses>>
    BY <1>3, TunnelConnectionAssumption
    DEF ListenLost, connector, links, Message, Counted, TunnelConnectionAssumption
  <2> QED
    BY <2>1, <2>2, FlowListenSays
<1>4. CASE ListenClose
  <2>1. \A q \in ConnectSide : InBox(q)' = InBox(q)
    BY <1>4 DEF ListenClose, carried, InBox
  <2> QED
    BY <1>4, <2>1, FlowQuiet DEF ListenClose, connector, links, carried, Steady, Addressee
<1>5. ASSUME NEW p \in Process, NEW c \in Client, NEW m \in Message, ListenReceives(p, c, m)
      PROVE  FlowInv'
  <2>1. /\ \A q \in ConnectSide : InBox(q)' = InBox(q)
        /\ home = 1 => toServer'[2] = toServer[2]
    BY <1>5, FlowListenReceives
  <2>2. /\ UNCHANGED <<home, sent, backend, buffered, got, overtaken, online, active, changes,
                       losses>>
        /\ listenConn = "gone" => listenConn' = "gone"
        /\ listenConn' = "none" => listenConn = "none"
    BY <1>5 DEF ListenReceives, connector, links
  <2> QED
    BY <2>1, <2>2, FlowQuiet DEF Steady, Addressee
<1>6. ASSUME NEW p \in Process, NEW c \in Client,
             \/ ConnectReceivesMade(p, c)
             \/ ConnectReceivesData(p, c)
             \/ ConnectReceivesLost(p, c)
      PROVE  FlowInv'
  BY <1>6, FlowTakes
<1>7. ASSUME NEW p \in Process, ConnectSucceeds(p) \/ ConnectFails(p) \/ BackendLost(p)
      PROVE  FlowInv'
  BY <1>7, FlowBackend
<1>8. ASSUME NEW p \in Process, BackendData(p) PROVE FlowInv'
  <2>1. /\ ConnectSends(p, "data") /\ backend[p] # "none" /\ "data" \in Message
        /\ UNCHANGED <<home, sent, listenConn, backend, buffered, got, overtaken,
                       online, active, changes, losses>>
    BY <1>8 DEF BackendData, listener, links, Message
  <2>2. /\ \A q \in ConnectSide : InBox(q)' = InBox(q)
        /\ home = 1 => toServer'[2] = toServer[2]
    BY <2>1, FlowConnectSends DEF FlowInv
  <2> QED
    BY <2>1, <2>2, FlowQuiet DEF Steady, Addressee
<1>9. CASE ActiveChanges
  <2>1. /\ UNCHANGED <<home, sent, listenConn, backend, buffered, got, overtaken, online,
                       losses, toServer, toClient>>
        /\ changes' = changes + 1
    BY <1>9 DEF ActiveChanges, listener, connector, carried
  <2>2. Steady' => Steady /\ Addressee' = Addressee
    BY <2>1 DEF Steady, Addressee, Counted
  <2>3. \A q \in ConnectSide : InBox(q)' = InBox(q)
    BY <2>1 DEF InBox
  <2> QED
    BY <2>1, <2>2, <2>3, FlowQuiet
<1>10. ASSUME NEW c \in Client, LinkLost(c) PROVE FlowInv'
  BY <1>10, FlowLinkLost
<1>11. ASSUME NEW c \in Client, LinkUp(c) PROVE FlowInv'
  <2>1. /\ UNCHANGED <<home, sent, listenConn, backend, buffered, got, overtaken, active,
                       changes, losses, toServer, toClient>>
        /\ \A d \in Client : online[d] => online'[d]
    BY <1>11 DEF LinkUp, listener, connector, carried, Typed
  <2>2. \A q \in ConnectSide : InBox(q)' = InBox(q)
    BY <2>1 DEF InBox
  <2> QED
    BY <2>1, <2>2, FlowQuiet DEF Steady, Addressee
<1>12. CASE UNCHANGED vars
  <2>1. UNCHANGED <<home, sent, listenConn, backend, buffered, got, overtaken, online, active,
                    changes, losses, toServer, toClient>>
    BY <1>12 DEF vars, listener, connector, links, carried
  <2>2. \A q \in ConnectSide : InBox(q)' = InBox(q)
    BY <2>1 DEF InBox
  <2> QED
    BY <2>1, <2>2, FlowQuiet DEF Steady, Addressee
<1> QED
  BY <1>1, <1>2, <1>3, <1>4, <1>5, <1>6, <1>7, <1>8, <1>9, <1>10, <1>11, <1>12 DEF Next

LEMMA FlowInit == Init => Counted /\ FlowInv
<1> SUFFICES ASSUME Init PROVE Counted /\ FlowInv
  OBVIOUS
<1>0. MaxData \in Nat /\ MaxChanges \in Nat /\ MaxLosses \in Nat
  BY TunnelConnectionAssumption DEF TunnelConnectionAssumption
<1>1. Counted
  BY <1>0 DEF Init, Counted
<1>2. /\ \A p \in Process : backend[p] = "none" /\ got[p] = 0 /\ buffered[p] = 0
      /\ \A p \in ConnectSide : InBox(p) = Empty
      /\ ConnectSide \subseteq Process
      /\ home \in {1, Server} /\ sent = 0 /\ listenConn = "none"
      /\ \A c \in Client : online[c] /\ toServer[c] = Empty
  BY DEF Init, ConnectSide, InBox
<1>3. \A p \in ConnectSide : Arrived(p) = 0
  BY <1>2, Nothing DEF Arrived, Message
<1>4. OneWay /\ OpenIsFlushed
  BY <1>2 DEF OneWay, OpenIsFlushed
<1>5. EndSaidOnce
  BY <1>2, Nothing, Zenon DEF EndSaidOnce
<1>6. NothingSaid /\ MadeIsNew
  <2>1. OneMade(Empty) /\ ~On("made", Empty)
    BY Nothing, Zenon
  <2> QED
    BY <1>2, <2>1 DEF NothingSaid, MadeIsNew
<1>7. NothingDoubled
  BY <1>2, <1>3 DEF NothingDoubled, ConnectSide
<1>8. SteadyFlow
  BY <1>2, <1>3 DEF SteadyFlow
<1> QED
  BY <1>1, <1>4, <1>5, <1>6, <1>7, <1>8 DEF FlowInv

LEMMA FlowAlways == Spec => [](Typed /\ Counted /\ FlowInv)
<1>1. Init => Typed /\ Counted /\ FlowInv
  BY TypedInit, FlowInit
<1>2. Typed /\ Counted /\ FlowInv /\ [Next]_vars => (Typed /\ Counted /\ FlowInv)'
  BY TypedStep, CountedStep, FlowStep
<1> QED
  BY <1>1, <1>2, PTL DEF Spec

-----------------------------------------------------------------------------
(* Every variable keeps its type; the chunks buffered at a connect side and *)
(* written to its backend never outnumber those read from the application.  *)
THEOREM TypeCorrect == Spec => []TypeOK
<1>1. ASSUME Typed, Counted, FlowInv PROVE TypeOK
  <2>0. MaxData \in Nat /\ sent \in 0..MaxData
    BY <1>1, TunnelConnectionAssumption DEF TunnelConnectionAssumption, Counted
  <2>1. ASSUME NEW p \in Process PROVE got[p] \in 0..MaxData /\ buffered[p] \in 0..MaxData
    <3>1. CASE p \in ConnectSide
      <4>1. /\ Arrived(p) = got[p] + buffered[p] + InBox(p)["data"]
            /\ InBox(p)["data"] \in Nat /\ got[p] \in Nat /\ buffered[p] \in Nat
        BY <1>1, <3>1, InBoxType DEF Arrived, Counted
      <4>2. Arrived(p) <= sent
        <5>1. CASE home = Server
          <6>1. /\ Arrived(1) + Arrived(2) <= sent /\ Arrived(1) \in Nat /\ Arrived(2) \in Nat
                /\ p = 1 \/ p = 2
            BY <1>1, <3>1, <5>1, InBoxType DEF FlowInv, NothingDoubled, ConnectSide
          <6> QED
            BY <2>0, <6>1
        <5>2. CASE home = 1
          BY <1>1, <3>1, <5>2 DEF FlowInv, NothingDoubled, ConnectSide
        <5> QED
          BY <1>1, <5>1, <5>2 DEF Typed
      <4> QED
        BY <2>0, <4>1, <4>2
    <3>2. CASE p \notin ConnectSide
      BY <1>1, <2>0, <3>2 DEF FlowInv, OneWay
    <3> QED
      BY <3>1, <3>2
  <2>2. buffered \in [Process -> 0..MaxData] /\ got \in [Process -> 0..MaxData]
    BY <1>1, <2>1 DEF Counted
  <2>3. listenConn \in {"none", "open", "closed", "gone"}
    BY <1>1 DEF Typed, Counted, Status
  <2> QED
    BY <1>1, <2>0, <2>2, <2>3 DEF TypeOK, Typed, Counted, Status, Bag
<1> QED
  BY <1>1, FlowAlways, PTL

(* What the application sent arrives once at most; all of a client          *)
(* connection's data is on its way, buffered or written until a link is     *)
(* lost or the backend has gone (tcp_tunnel_abc.py, _processFromVortex;     *)
(* tcp_tunnel_connect.py, _localConnectionMade).                            *)
THEOREM DataAlwaysAccounted == Spec => []DataAccounted
<1>1. ASSUME Typed, Counted, FlowInv PROVE DataAccounted
  <2>1. CASE home = Server
    BY <1>1, <2>1 DEF FlowInv, NothingDoubled, DataAccounted
  <2>2. CASE home = 1
    <3>1. Server \in ConnectSide /\ Addressee = Server
      BY <2>2 DEF ConnectSide, Addressee
    <3>2. Arrived(Server) <= sent
      BY <1>1, <2>2 DEF FlowInv, NothingDoubled
    <3>3. losses = 0 /\ backend[Server] # "gone" => Arrived(Server) = sent
      BY <1>1, <2>2, <3>1 DEF FlowInv, SteadyFlow, Steady
    <3> QED
      BY <2>2, <3>2, <3>3 DEF DataAccounted
  <2> QED
    BY <1>1, <2>1, <2>2 DEF Typed
<1> QED
  BY <1>1, FlowAlways, PTL

(* A connect side that closes its backend connection because the            *)
(* application's has ended has written all of its data but what that news   *)
(* has overtaken on the link (tcp_tunnel_connect.py, _remoteConnectionLost; *)
(* tcp_tunnel_abc.py, _processFromVortex).                                  *)
THEOREM OnlyOvertakenIsLost == Spec => []OnlyOvertakenIsMissing
<1>1. FlowInv => OnlyOvertakenIsMissing
  BY DEF FlowInv, SteadyFlow, Steady, ClosedByEnd, OnlyOvertakenIsMissing
<1> QED
  BY <1>1, FlowAlways, PTL

-----------------------------------------------------------------------------
(* The end of a connection is told to the other side, wherever the listen   *)
(* side is.                                                                 *)

(* What the connect side p has on its way to the listen side *)
OutBox(p) == IF p = Server THEN toClient[home] ELSE toServer[p]

Made == {"open", "closed", "gone"}

NothingLost == losses = 0 => \A c \in Client : online[c]

(* A connect side confirms what it has made, ... *)
AnsweredIsMade ==
    \A p \in ConnectSide : On("made", OutBox(p)) => backend[p] \in Made

(* ... so that what the listen side has heard of is made. *)
HeardIsMade ==
    Steady /\ confirmed => \A p \in ConnectSide : p = Addressee => backend[p] \in Made

(* The end of a connection both sides know of is on its way until it closes *)
(* the backend's.                                                           *)
EndIsOnItsWay ==
    Steady /\ confirmed /\ listenConn = "gone" =>
        \A p \in ConnectSide : backend[p] = "open" => On("lost", InBox(p))

(* The other way about: when the backend's connection has gone and the      *)
(* application's is open, the news is on its way to the listen side; with a *)
(* connection of the server, as long as no link is lost.                    *)
BackendEndIsTold ==
    listenConn = "open" /\ (home = Server => losses = 0) =>
        \A p \in ConnectSide : backend[p] = "gone" => On("lost", OutBox(p))

EndInv ==
    /\ NothingLost /\ AnsweredIsMade /\ HeardIsMade
    /\ EndIsOnItsWay /\ BackendEndIsTold

LEMMA OutBoxType == Typed => \A p \in ConnectSide : OutBox(p) \in Bag
BY DEF Typed, ConnectSide, OutBox

(* In a steady state only the addressee has heard of the connection. *)
LEMMA SteadyAddressee ==
    ASSUME FlowInv, Steady, NEW p \in ConnectSide, backend[p] # "none"
    PROVE  p = Addressee
BY DEF FlowInv, SteadyFlow

LEMMA EndListenSends ==
    ASSUME Typed, NEW m \in Message, ListenSends(m), home' = home
    PROVE  \A p \in ConnectSide : OutBox(p)' = OutBox(p)
<1>1. CASE home = Server
  <2>1. toServer' = toServer
    BY <1>1 DEF ListenSends, SendToClient
  <2> QED
    BY <1>1, <2>1 DEF ConnectSide, OutBox
<1>2. CASE home = 1
  <2>1. toClient' = toClient
    BY <1>2 DEF ListenSends, SendToServer
  <2> QED
    BY <1>2, <2>1 DEF ConnectSide, OutBox
<1> QED
  BY <1>1, <1>2 DEF Typed

LEMMA EndConnectSends ==
    ASSUME Typed, HomeInv, OneWay, NothingLost, NEW m \in Message, NEW p \in Process,
           backend[p] \in {"connecting", "open", "closed"}, ConnectSends(p, m), home' = home
    PROVE  /\ \A q \in ConnectSide \ {p} : OutBox(q)' = OutBox(q)
           /\ OutBox(p)' = With(OutBox(p), m) \/ OutBox(p)' = OutBox(p)
           /\ listenConn = "open" /\ (home = Server => losses = 0)
                  => OutBox(p)' = With(OutBox(p), m)
<1>1. p \in ConnectSide
  BY DEF OneWay
<1>2. CASE home = Server
  <2>1. p \in Client /\ SendToServer(p, m)
    BY <1>1, <1>2 DEF ConnectSide, ConnectSends
  <2>2. \A d \in Client : toServer'[d] = IF d = p /\ online[p] THEN With(toServer[d], m)
                                                                ELSE toServer[d]
    BY <2>1, SendQueues
  <2>3. losses = 0 => online[p]
    BY <2>1 DEF NothingLost
  <2>4. \A q \in ConnectSide :
            q \in Client /\ OutBox(q) = toServer[q] /\ OutBox(q)' = toServer'[q]
    BY <1>2 DEF ConnectSide, OutBox
  <2> QED
    BY <1>1, <1>2, <2>2, <2>3, <2>4
<1>3. CASE home = 1
  <2>1. p = Server
    BY <1>1, <1>3 DEF ConnectSide
  <2>2. PICK target \in Client \cup {None} :
            /\ target = IF route # None THEN route ELSE active
            /\ SendToClient(target, m)
    BY <2>1 DEF ConnectSends, Typed
  <2>3. \A d \in Client : toClient'[d] = IF d = target /\ online[d]
                                            THEN With(toClient[d], m) ELSE toClient[d]
    BY <2>2, SendQueues
  <2>4. listenConn = "open" => target = 1 /\ online[1]
    BY <1>3, <2>1, <2>2 DEF HomeInv, OpenIsRouted
  <2>5. /\ ConnectSide = {Server}
        /\ OutBox(Server) = toClient[1] /\ OutBox(Server)' = toClient'[1]
    BY <1>3 DEF ConnectSide, OutBox
  <2>6. toClient'[1] = IF 1 = target /\ online[1] THEN With(toClient[1], m)
                                                 ELSE toClient[1]
    BY <2>3
  <2> QED
    BY <2>1, <2>4, <2>5, <2>6
<1> QED
  BY <1>2, <1>3 DEF Typed

(* What the listen side takes comes from one of the connect sides, or is    *)
(* the other client's to forget.                                            *)
LEMMA EndListenReceives ==
    ASSUME Typed, NEW p \in Process, NEW c \in Client, NEW m \in Message,
           ListenReceives(p, c, m)
    PROVE  \/ p # home /\ \A q \in ConnectSide : OutBox(q)' = OutBox(q)
           \/ /\ p = home
              /\ \E q \in ConnectSide :
                    /\ m \in Message /\ OutBox(q)[m] > 0
                    /\ OutBox(q)' = Without(OutBox(q), m)
                    /\ \A r \in ConnectSide \ {q} : OutBox(r)' = OutBox(r)
<1>1. (p = Server) = (home = Server) /\ home' = home /\ Receive(p, c, m)
  BY DEF ListenReceives
<1>2. CASE home = Server
  <2>1. p = home /\ c \in ConnectSide /\ ConnectSide = Client
    BY <1>1, <1>2 DEF ConnectSide
  <2>2. \A q \in ConnectSide : OutBox(q) = toServer[q] /\ OutBox(q)' = toServer'[q]
    BY <2>1 DEF OutBox
  <2>3. /\ m \in Message /\ toServer[c][m] > 0
        /\ toServer'[c] = Without(toServer[c], m)
        /\ \A d \in Client \ {c} : toServer'[d] = toServer[d]
    BY <1>1, <1>2, HomeReceive
  <2> QED
    BY <2>1, <2>2, <2>3
<1>3. CASE home = 1
  <2>1. p \in Client /\ ConnectSide = {Server}
    BY <1>1, <1>3 DEF ConnectSide
  <2>2. OutBox(Server) = toClient[1] /\ OutBox(Server)' = toClient'[1]
    BY <1>1, <1>3 DEF OutBox
  <2>3. /\ p = c
        /\ m \in Message /\ toClient[c][m] > 0
        /\ toClient'[c] = Without(toClient[c], m)
        /\ \A d \in Client \ {c} : toClient'[d] = toClient[d]
    BY <1>1, <2>1, HomeReceive
  <2> QED
    BY <1>3, <2>1, <2>2, <2>3
<1> QED
  BY <1>2, <1>3 DEF Typed

LEMMA EndConnectReceives ==
    ASSUME Typed, NEW p \in ConnectSide, NEW c \in Client, NEW m \in Message,
           Receive(p, c, m), home' = home
    PROVE  \A q \in ConnectSide : OutBox(q)' = OutBox(q)
<1>1. p \in Process
  BY DEF ConnectSide
<1>2. CASE home = Server
  BY <1>1, <1>2 DEF Receive, ConnectSide, OutBox
<1>3. CASE home = 1
  BY <1>1, <1>3 DEF Receive, ConnectSide, OutBox
<1> QED
  BY <1>2, <1>3 DEF Typed

-----------------------------------------------------------------------------
(* The steps of the news of the end, one by one *)

LEMMA EndListenSays ==
    ASSUME Typed, Typed', FlowInv, EndInv, NEW m \in Message,
           ListenSends(m), listenConn # "gone", listenConn' = "gone" => m = "lost",
           listenConn' = "open" => listenConn \in {"none", "open"},
           UNCHANGED <<home, confirmed, backend, online, active, changes, losses>>,
           Counted
    PROVE  EndInv'
<1>1. /\ ConnectSide' = ConnectSide /\ Addressee' = Addressee /\ (Steady' <=> Steady)
      /\ \A p \in ConnectSide : OutBox(p)' = OutBox(p)
  BY EndListenSends DEF ConnectSide, Addressee, Steady
<1>2. NothingLost' /\ AnsweredIsMade' /\ HeardIsMade'
  BY <1>1 DEF EndInv, NothingLost, AnsweredIsMade, HeardIsMade
<1>3. EndIsOnItsWay'
  <2>1. ASSUME Steady, listenConn' = "gone", NEW p \in ConnectSide, backend[p] = "open"
        PROVE  On("lost", InBox(p)')
    <3>1. p = Addressee /\ \A c \in Client : online[c]
      BY <2>1, SteadyAddressee DEF EndInv, NothingLost, Steady
    <3>2. m = "lost" /\ InBox(p)' = With(InBox(p), m)
      BY <2>1, <3>1, FlowListenSends
    <3>3. On(m, With(InBox(p), m))
      BY InBoxType, Sending, Zenon
    <3> QED
      BY <3>2, <3>3
  <2> QED
    BY <1>1, <2>1 DEF EndIsOnItsWay
<1>4. BackendEndIsTold'
  <2>1. listenConn = "none" => \A p \in ConnectSide : backend[p] = "none"
    BY DEF FlowInv, NothingSaid
  <2> QED
    BY <1>1, <2>1 DEF EndInv, BackendEndIsTold
<1> QED
  BY <1>2, <1>3, <1>4 DEF EndInv

LEMMA EndQuiet ==
    ASSUME EndInv,
           \A p \in ConnectSide : InBox(p)' = InBox(p) /\ OutBox(p)' = OutBox(p),
           UNCHANGED <<home, confirmed, backend, losses>>,
           listenConn' = "gone" => listenConn = "gone",
           listenConn' = "open" => listenConn = "open",
           \A c \in Client : online[c] => online'[c],
           Steady' => Steady /\ Addressee' = Addressee
    PROVE  EndInv'
<1>1. ConnectSide' = ConnectSide
  BY DEF ConnectSide
<1>2. NothingLost' /\ AnsweredIsMade' /\ HeardIsMade'
  BY <1>1 DEF EndInv, NothingLost, AnsweredIsMade, HeardIsMade
<1>3. EndIsOnItsWay' /\ BackendEndIsTold'
  BY <1>1 DEF EndInv, EndIsOnItsWay, BackendEndIsTold
<1> QED
  BY <1>2, <1>3 DEF EndInv

LEMMA EndHears ==
    ASSUME Typed, Typed', FlowInv, EndInv,
           NEW p \in Process, NEW c \in Client, NEW m \in Message, ListenReceives(p, c, m)
    PROVE  EndInv'
<1>1. /\ UNCHANGED <<home, backend, online, active, changes, losses>>
      /\ listenConn' = IF p = home /\ m = "lost" /\ listenConn = "open"
                         THEN "closed" ELSE listenConn
      /\ confirmed' = (confirmed \/ (p = home /\ m = "made" /\ listenConn = "open"))
  BY DEF ListenReceives, connector, links
<1>2. /\ ConnectSide' = ConnectSide /\ Addressee' = Addressee /\ (Steady' <=> Steady)
      /\ \A q \in ConnectSide : InBox(q)' = InBox(q)
  BY <1>1, FlowListenReceives DEF ConnectSide, Addressee, Steady
<1>3. CASE p # home
  <2>1. \A q \in ConnectSide : OutBox(q)' = OutBox(q)
    BY <1>3, EndListenReceives
  <2>2. confirmed' = confirmed /\ listenConn' = listenConn
    BY <1>1, <1>3 DEF Typed
  <2> QED
    BY <1>1, <1>2, <2>1, <2>2, EndQuiet
<1>4. CASE p = home
  <2>1. PICK q \in ConnectSide :
            /\ m \in Message /\ OutBox(q)[m] > 0
            /\ OutBox(q)' = Without(OutBox(q), m)
            /\ \A r \in ConnectSide \ {q} : OutBox(r)' = OutBox(r)
    BY <1>4, EndListenReceives
  <2>2. \A n : On(n, OutBox(q)) <=> n = m \/ On(n, OutBox(q)')
    <3>1. OutBox(q) \in Bag
      BY OutBoxType
    <3>2. \A n : On(n, OutBox(q)) <=> n = m \/ On(n, Without(OutBox(q), m))
      BY <2>1, <3>1, Taking, Zenon
    <3> QED
      BY <2>1, <3>2
  <2>3. NothingLost'
    BY <1>1 DEF EndInv, NothingLost
  <2>4. AnsweredIsMade'
    BY <1>1, <1>2, <2>1, <2>2 DEF EndInv, AnsweredIsMade
  <2>5. HeardIsMade'
    <3>1. ASSUME Steady, m = "made" PROVE q = Addressee /\ backend[q] \in Made
      <4>1. backend[q] \in Made
        BY <2>2, <3>1 DEF EndInv, AnsweredIsMade
      <4>2. backend[q] # "none"
        BY <4>1 DEF Made
      <4> QED
        BY <3>1, <4>1, <4>2, SteadyAddressee
    <3>2. Steady /\ confirmed' => \A r \in ConnectSide : r = Addressee => backend[r] \in Made
      BY <1>1, <3>1 DEF EndInv, HeardIsMade
    <3> QED
      BY <1>1, <1>2, <3>2 DEF HeardIsMade
  <2>6. EndIsOnItsWay'
    <3>1. listenConn' = "gone" => listenConn = "gone" /\ confirmed' = confirmed
      BY <1>1 DEF Typed
    <3> QED
      BY <1>1, <1>2, <3>1 DEF EndInv, EndIsOnItsWay
  <2>7. BackendEndIsTold'
    <3>1. listenConn' = "open" => listenConn = "open" /\ m # "lost"
      BY <1>1, <1>4
    <3> QED
      BY <1>1, <1>2, <2>1, <2>2, <3>1 DEF EndInv, BackendEndIsTold
  <2> QED
    BY <2>3, <2>4, <2>5, <2>6, <2>7 DEF EndInv
<1> QED
  BY <1>3, <1>4

LEMMA EndTakes ==
    ASSUME Typed, Counted, Typed', FlowInv, EndInv, NEW p \in Process, NEW c \in Client,
           \/ ConnectReceivesMade(p, c)
           \/ ConnectReceivesData(p, c)
           \/ ConnectReceivesLost(p, c)
    PROVE  EndInv'
<1>1. PICK m \in Message :
          /\ Receive(p, c, m)
          /\ m = "made" => ConnectReceivesMade(p, c)
          /\ m = "data" => ConnectReceivesData(p, c)
          /\ m = "lost" => ConnectReceivesLost(p, c)
  BY DEF ConnectReceivesMade, ConnectReceivesData, ConnectReceivesLost, Message, Receive
<1>2. /\ p \in ConnectSide /\ p \in Process
      /\ UNCHANGED <<home, listenConn, confirmed, online, active, changes, losses>>
  BY DEF ConnectReceivesMade, ConnectReceivesData, ConnectReceivesLost, listener, links
<1>3. /\ m \in Message /\ InBox(p)[m] > 0
      /\ InBox(p)' = Without(InBox(p), m)
      /\ \A q \in ConnectSide \ {p} : InBox(q)' = InBox(q)
  BY <1>1, <1>2, FlowConnectReceives DEF FlowInv
<1>4. /\ ConnectSide' = ConnectSide /\ Addressee' = Addressee /\ (Steady' <=> Steady)
      /\ ConnectSide \subseteq Process
      /\ \A q \in ConnectSide : OutBox(q)' = OutBox(q)
  BY <1>1, <1>2, EndConnectReceives DEF ConnectSide, Addressee, Steady
<1>5. /\ \A q \in ConnectSide \ {p} : backend'[q] = backend[q]
      /\ m = "made" => backend'[p] = "connecting"
      /\ m = "data" => backend'[p] = backend[p]
      /\ m = "lost" => backend'[p] = IF backend[p] = "open" THEN "closed" ELSE backend[p]
  BY <1>1, <1>4 DEF ConnectReceivesMade, ConnectReceivesData, ConnectReceivesLost, Typed
<1>6. m = "made" \/ m = "data" \/ m = "lost"
  BY DEF Message
<1>7. /\ \A n : On(n, InBox(p)) <=> n = m \/ On(n, InBox(p)')
      /\ m = "made" => backend[p] = "none"
  <2>1. InBox(p) \in Bag
    BY <1>2, InBoxType
  <2>2. \A n : On(n, InBox(p)) <=> n = m \/ On(n, Without(InBox(p), m))
    BY <1>3, <2>1, Taking, Zenon
  <2>3. \A n : On(n, InBox(p)) <=> n = m \/ On(n, InBox(p)')
    BY <1>3, <2>2
  <2> QED
    BY <1>2, <2>3 DEF FlowInv, MadeIsNew
<1>8. /\ backend[p] \in Made => backend'[p] \in Made
      /\ backend'[p] = "open" => backend[p] = "open" /\ m = "data"
      /\ backend'[p] = "gone" => backend[p] = "gone"
  BY <1>5, <1>6, <1>7 DEF Made
<1>9. NothingLost' /\ AnsweredIsMade' /\ HeardIsMade'
  BY <1>2, <1>4, <1>5, <1>8 DEF EndInv, NothingLost, AnsweredIsMade, HeardIsMade
<1>10. EndIsOnItsWay'
  BY <1>2, <1>3, <1>4, <1>5, <1>7, <1>8 DEF EndInv, EndIsOnItsWay
<1>11. BackendEndIsTold'
  BY <1>2, <1>4, <1>5, <1>8 DEF EndInv, BackendEndIsTold
<1> QED
  BY <1>9, <1>10, <1>11 DEF EndInv

LEMMA EndConnectSays ==
    ASSUME Typed, Typed', HomeInv, FlowInv, EndInv, NEW p \in Process,
           ConnectSucceeds(p) \/ ConnectFails(p) \/ BackendData(p) \/ BackendLost(p)
    PROVE  EndInv'
<1>0. {"made", "data", "lost"} \subseteq Message
  BY DEF Message
<1>1. PICK m \in Message :
          /\ ConnectSends(p, m)
          /\ backend[p] \in {"connecting", "open", "closed"}
          /\ backend'[p] \in Made
          /\ backend'[p] = "open" => backend[p] \in {"connecting", "open"}
          /\ backend'[p] = "gone" => m = "lost"
  BY <1>0 DEF ConnectSucceeds, ConnectFails, BackendData, BackendLost, Typed, Made
<1>2. /\ UNCHANGED <<home, listenConn, confirmed, online, active, changes, losses>>
      /\ \A q \in Process \ {p} : backend'[q] = backend[q]
  BY DEF ConnectSucceeds, ConnectFails, BackendData, BackendLost, listener, links, Typed
<1>3. /\ p \in ConnectSide /\ backend[p] # "none"
      /\ \A q \in ConnectSide : InBox(q)' = InBox(q)
  BY <1>1, <1>2, FlowConnectSends DEF FlowInv
<1>4. /\ ConnectSide' = ConnectSide /\ Addressee' = Addressee /\ (Steady' <=> Steady)
      /\ ConnectSide \subseteq Process
  BY <1>2 DEF ConnectSide, Addressee, Steady
<1>5. /\ \A q \in ConnectSide \ {p} : OutBox(q)' = OutBox(q)
      /\ listenConn = "open" /\ (home = Server => losses = 0)
             => OutBox(p)' = With(OutBox(p), m)
  BY <1>1, <1>2, EndConnectSends DEF FlowInv, EndInv
<1>6. NothingLost' /\ AnsweredIsMade' /\ HeardIsMade'
  BY <1>1, <1>2, <1>4, <1>5 DEF EndInv, NothingLost, AnsweredIsMade, HeardIsMade
<1>7. EndIsOnItsWay'
  <2>1. ASSUME Steady, confirmed PROVE backend[p] # "connecting"
    <3>1. p = Addressee
      BY <1>3, <2>1, SteadyAddressee
    <3> QED
      BY <1>3, <2>1, <3>1 DEF EndInv, HeardIsMade, Made
  <2> QED
    BY <1>1, <1>2, <1>3, <1>4, <2>1 DEF EndInv, EndIsOnItsWay
<1>8. BackendEndIsTold'
  <2>1. On(m, With(OutBox(p), m))
    BY <1>3, OutBoxType, Sending, Zenon
  <2> QED
    BY <1>1, <1>2, <1>3, <1>4, <1>5, <2>1 DEF EndInv, BackendEndIsTold
<1> QED
  BY <1>6, <1>7, <1>8 DEF EndInv

LEMMA EndLinkLost ==
    ASSUME Typed, Counted, Typed', EndInv, NEW c \in Client, LinkLost(c)
    PROVE  EndInv'
<1>1. /\ UNCHANGED <<home, confirmed>> /\ losses' = losses + 1 /\ losses \in Nat
      /\ ConnectSide' = ConnectSide /\ ConnectSide \subseteq Process
  BY DEF LinkLost, ConnectSide, Typed
<1>2. \A p \in Process : \/ backend'[p] = backend[p]
                         \/ backend[p] = "open" /\ backend'[p] = "closed"
  BY DEF LinkLost
<1>3. losses' # 0 /\ ~Steady'
  BY <1>1 DEF Steady
<1>4. \A p \in ConnectSide : OutBox(p)' = OutBox(p) \/ OutBox(p)' = Empty
  <2>1. /\ \A d \in Client : toServer'[d] = toServer[d] \/ toServer'[d] = Empty
        /\ \A d \in Client : toClient'[d] = toClient[d] \/ toClient'[d] = Empty
    BY DEF LinkLost, Typed
  <2>2. ASSUME NEW p \in ConnectSide PROVE OutBox(p)' = OutBox(p) \/ OutBox(p)' = Empty
    <3>1. CASE p = Server
      BY <1>1, <2>1, <3>1 DEF OutBox, ConnectSide, Typed
    <3>2. CASE p # Server
      BY <2>1, <3>2 DEF OutBox, ConnectSide
    <3> QED
      BY <3>1, <3>2
  <2> QED
    BY <2>2
<1>5. NothingLost' /\ HeardIsMade' /\ EndIsOnItsWay'
  BY <1>3 DEF NothingLost, HeardIsMade, EndIsOnItsWay
<1>6. AnsweredIsMade'
  <2>1. ASSUME NEW p \in ConnectSide, On("made", OutBox(p)') PROVE backend'[p] \in Made
    <3>1. OutBox(p)' # Empty
      BY <2>1, Nothing, Zenon
    <3>2. backend[p] \in Made
      BY <1>4, <2>1, <3>1 DEF EndInv, AnsweredIsMade
    <3> QED
      BY <1>1, <1>2, <3>2 DEF Made
  <2> QED
    BY <1>1, <2>1 DEF AnsweredIsMade
<1>7. BackendEndIsTold'
  <2>1. ASSUME listenConn' = "open", home = 1
        PROVE  listenConn = "open" /\ OutBox(Server)' = OutBox(Server)
    <3>1. c # 1 /\ listenConn = "open"
      BY <2>1 DEF LinkLost
    <3>2. toClient'[1] = toClient[1]
      BY <3>1 DEF LinkLost, Typed
    <3> QED
      BY <1>1, <2>1, <3>1, <3>2 DEF OutBox
  <2>2. home = 1 => ConnectSide = {Server}
    BY DEF ConnectSide
  <2>3. home = 1 \/ home = Server
    BY DEF Typed
  <2> QED
    BY <1>1, <1>2, <1>3, <2>1, <2>2, <2>3 DEF EndInv, BackendEndIsTold
<1> QED
  BY <1>5, <1>6, <1>7 DEF EndInv

LEMMA EndStep ==
    ASSUME Typed, Counted, Typed', Counted', HomeInv, FlowInv, EndInv, [Next]_vars
    PROVE  EndInv'
<1>1. CASE ListenMade \/ ListenData \/ ListenLost
  <2>1. PICK m \in Message :
            /\ ListenSends(m) /\ listenConn # "gone"
            /\ listenConn' = "gone" => m = "lost"
            /\ listenConn' = "open" => listenConn \in {"none", "open"}
    BY <1>1 DEF ListenMade, ListenData, ListenLost, Message
  <2>2. UNCHANGED <<home, confirmed, backend, online, active, changes, losses>>
    BY <1>1 DEF ListenMade, ListenData, ListenLost, connector, links
  <2> QED
    BY <2>1, <2>2, EndListenSays
<1>2. CASE ListenClose
  <2>1. /\ UNCHANGED <<home, confirmed, backend, online, active, changes, losses,
                       toServer, toClient>>
        /\ listenConn' = "closed"
    BY <1>2 DEF ListenClose, connector, links, carried
  <2>2. \A q \in ConnectSide : InBox(q)' = InBox(q) /\ OutBox(q)' = OutBox(q)
    BY <2>1 DEF InBox, OutBox
  <2> QED
    BY <2>1, <2>2, EndQuiet DEF Steady, Addressee
<1>3. ASSUME NEW p \in Process, NEW c \in Client, NEW m \in Message, ListenReceives(p, c, m)
      PROVE  EndInv'
  BY <1>3, EndHears
<1>4. ASSUME NEW p \in Process, NEW c \in Client,
             \/ ConnectReceivesMade(p, c)
             \/ ConnectReceivesData(p, c)
             \/ ConnectReceivesLost(p, c)
      PROVE  EndInv'
  BY <1>4, EndTakes
<1>5. ASSUME NEW p \in Process,
             ConnectSucceeds(p) \/ ConnectFails(p) \/ BackendData(p) \/ BackendLost(p)
      PROVE  EndInv'
  BY <1>5, EndConnectSays
<1>6. CASE ActiveChanges
  <2>1. /\ UNCHANGED <<home, listenConn, confirmed, backend, online, losses,
                       toServer, toClient>>
        /\ changes' = changes + 1
    BY <1>6 DEF ActiveChanges, listener, connector, carried
  <2>2. Steady' => Steady /\ Addressee' = Addressee
    BY <2>1 DEF Steady, Addressee, Counted
  <2>3. \A q \in ConnectSide : InBox(q)' = InBox(q) /\ OutBox(q)' = OutBox(q)
    BY <2>1 DEF InBox, OutBox
  <2> QED
    BY <2>1, <2>2, <2>3, EndQuiet
<1>7. ASSUME NEW c \in Client, LinkLost(c) PROVE EndInv'
  BY <1>7, EndLinkLost
<1>8. ASSUME NEW c \in Client, LinkUp(c) PROVE EndInv'
  <2>1. /\ UNCHANGED <<home, listenConn, confirmed, backend, active, changes, losses,
                       toServer, toClient>>
        /\ \A d \in Client : online[d] => online'[d]
    BY <1>8 DEF LinkUp, listener, connector, carried, Typed
  <2>2. \A q \in ConnectSide : InBox(q)' = InBox(q) /\ OutBox(q)' = OutBox(q)
    BY <2>1 DEF InBox, OutBox
  <2> QED
    BY <2>1, <2>2, EndQuiet DEF Steady, Addressee
<1>9. CASE UNCHANGED vars
  <2>1. UNCHANGED <<home, listenConn, confirmed, backend, online, active, changes, losses,
                    toServer, toClient>>
    BY <1>9 DEF vars, listener, connector, links, carried
  <2>2. \A q \in ConnectSide : InBox(q)' = InBox(q) /\ OutBox(q)' = OutBox(q)
    BY <2>1 DEF InBox, OutBox
  <2> QED
    BY <2>1, <2>2, EndQuiet DEF Steady, Addressee
<1> QED
  BY <1>1, <1>2, <1>3, <1>4, <1>5, <1>6, <1>7, <1>8, <1>9 DEF Next

LEMMA EndInit == Init => EndInv
<1> SUFFICES ASSUME Init PROVE EndInv
  OBVIOUS
<1>1. /\ \A p \in ConnectSide : OutBox(p) = Empty /\ backend[p] = "none"
      /\ \A c \in Client : online[c]
      /\ listenConn = "none" /\ ~confirmed
  BY DEF Init, ConnectSide, OutBox
<1>2. ~On("made", Empty)
  BY Nothing, Zenon
<1> QED
  BY <1>1, <1>2 DEF EndInv, NothingLost, AnsweredIsMade, HeardIsMade, EndIsOnItsWay,
                    BackendEndIsTold

LEMMA EndAlways == Spec => [](Typed /\ HomeInv /\ FlowInv /\ EndInv)
<1>1. Init => Typed /\ Counted /\ HomeInv /\ FlowInv /\ EndInv
  BY TypedInit, HomeInit, FlowInit, EndInit
<1>2. Typed /\ Counted /\ HomeInv /\ FlowInv /\ EndInv /\ [Next]_vars
          => (Typed /\ Counted /\ HomeInv /\ FlowInv /\ EndInv)'
  BY TypedStep, CountedStep, HomeStep, FlowStep, EndStep
<1> QED
  BY <1>1, <1>2, PTL DEF Spec

-----------------------------------------------------------------------------
(* A connection that both sides knew of leaves no open connection to the    *)
(* backend behind, as long as no link is lost and, for a connection of the  *)
(* server, the active client stays (_localConnectionLost,                   *)
(* _remoteConnectionLost).                                                  *)
THEOREM EstablishedAlwaysEnds == Spec => []EstablishedEnds
<1>1. ASSUME EndInv, Steady, confirmed, listenConn = "gone", NEW p \in ConnectSide,
             InBox(p) = Empty
      PROVE  backend[p] # "open"
  <2>1. ~On("lost", Empty)
    BY Nothing, Zenon
  <2> QED
    BY <1>1, <2>1 DEF EndInv, EndIsOnItsWay
<1>2. EndInv => EstablishedEnds
  BY <1>1 DEF EstablishedEnds, Steady
<1> QED
  BY <1>2, EndAlways, PTL

(* While the application's connection is open and the backend's has gone,   *)
(* the news is on its way to the listen side: nothing but a lost link takes *)
(* it, whichever client becomes active (_localConnectionLost, _send).  What *)
(* is left of BackendEndsListen is that the news arrives.                   *)
THEOREM BackendEndAlwaysTold == Spec => []BackendEndIsTold
<1>1. EndInv => BackendEndIsTold
  BY DEF EndInv
<1> QED
  BY <1>1, EndAlways, PTL

=============================================================================
