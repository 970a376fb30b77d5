--------------------------- MODULE FailoverProofs ---------------------------
(***************************************************************************)
(* Theorems about Failover, for any number of tunnels, connections and     *)
(* lost links: the server in it is ActiveRemote's, its state keeps its     *)
(* types, failovers do not set off failovers, a client that is online      *)
(* listens or soon will, and traffic ends up on the active client.         *)
(***************************************************************************)
EXTENDS Failover, ActiveRemoteProofs, FiniteSetTheorems, SequenceTheorems

(* Every step is one of the server's controller, or none of its business.   *)
LEMMA ServerIsController ==
    FailoverTypeOK /\ [FailoverNext]_failoverVars => [Next]_vars
<1> SUFFICES ASSUME FailoverTypeOK, [FailoverNext]_failoverVars PROVE [Next]_vars
  OBVIOUS
<1>1. ASSUME NEW c \in Client, ServerNotices(c) PROVE Next
  <2>1. PICK nowOnline \in BOOLEAN : HandleClientStatusChange(c, nowOnline)
    BY <1>1 DEF ServerNotices
  <2> QED
    BY <2>1 DEF Next
<1>2. CASE ServerStopped
  BY <1>2 DEF ServerStopped, Next
<1>3. ASSUME NEW c \in Client, ServerReceives(c) PROVE Next
  <2>1. PICK conn \in toServer[c] : ProcessConnectionSignal(c, conn[1], conn[2])
    BY <1>3 DEF ServerReceives, Taken
  <2>2. conn[1] \in Tunnel /\ conn[2] \in ConnectionId
    BY DEF FailoverTypeOK, Connection
  <2> QED
    BY <2>1, <2>2 DEF Next
<1>4. ASSUME NEW c \in Client, SignalDropped(c) \/ ClientStep(c) \/ Environment(c)
      PROVE  UNCHANGED vars
  BY <1>4
  DEF SignalDropped, ClientStep, Environment, ClientOnline, ClientOffline, ClientReceives,
      StandbyTransition, WaitEnds, SendConnectionSignal, LinkUp, LinkLost, Accept,
      ConnectionEnds, FirstDataReceived
<1>5. CASE UNCHANGED failoverVars
  BY <1>5 DEF failoverVars
<1> QED
  BY <1>1, <1>2, <1>3, <1>4, <1>5 DEF FailoverNext, ServerStep

-----------------------------------------------------------------------------
(* Type correctness *)

(* The variables no step of the server touches. *)
ClientsTyped ==
    /\ serverOnline \in [Client -> BOOLEAN]
    /\ port \in [Client -> BOOLEAN]
    /\ standbyDone \in [Client -> BOOLEAN]
    /\ transitions \in [Client -> Nat]
    /\ waiting \in [Client -> Nat]
    /\ \A c \in Client : counter[c] \in 0..MaxConnections[c]
    /\ open \in [Client -> SUBSET Connection]
    /\ speaking \in [Client -> SUBSET Connection]
    /\ scheduled \in [Client -> SUBSET Connection]

Carried == [Signal -> Nat]

NetworkTyped ==
    /\ link \in [Client -> BOOLEAN]
    /\ toServer \in [Client -> SUBSET Connection]
    /\ toClient \in [Client -> Carried]
    /\ serverNews \in [Client -> Seq(Status)]
    /\ clientNews \in [Client -> Seq(Status)]
    /\ losses \in 0..MaxLosses
    /\ early \in [Client -> SUBSET Connection]
    /\ reports \in Nat
    /\ failovers \in Nat

LEMMA TypeParts == FailoverTypeOK <=> TypeOK /\ ClientsTyped /\ NetworkTyped
BY DEF FailoverTypeOK, ClientsTyped, NetworkTyped, Carried

LEMMA PostedType ==
    ASSUME TypeOK', ClientsTyped, NetworkTyped, Posted
    PROVE  /\ ClientsTyped'
           /\ /\ toServer' \in [Client -> SUBSET Connection]
              /\ serverNews' \in [Client -> Seq(Status)]
              /\ early' \in [Client -> SUBSET Connection]
              => NetworkTyped'
<1>1. ClientsTyped'
  BY DEF Posted, ClientsTyped, clients, listener, connections
<1>2. toClient' \in [Client -> Carried]
  <2>1. /\ toClient \in [Client -> [Signal -> Nat]]
        /\ toClient' = [d \in Client |-> [s \in Signal |->
               IF s \in sent'[d] /\ link[d] THEN toClient[d][s] + 1
               ELSE toClient[d][s]]]
    BY DEF Posted, NetworkTyped, Carried
  <2> QED
    BY <2>1 DEF Carried
<1> QED
  BY <1>1, <1>2 DEF Posted, NetworkTyped

LEMMA SameNetwork ==
    ASSUME NetworkTyped, UNCHANGED <<link, toServer, toClient, serverNews, losses>>,
           clientNews' \in [Client -> Seq(Status)], UNCHANGED early,
           reports' \in Nat, failovers' \in Nat
    PROVE  NetworkTyped'
BY DEF NetworkTyped

(* The first of the pending status changes is handled. *)
LEMMA NewsTaken ==
    ASSUME NEW f \in [Client -> Seq(Status)], NEW c \in Client, f[c] # <<>>
    PROVE  [f EXCEPT ![c] = Tail(@)] \in [Client -> Seq(Status)]
<1>1. Tail(f[c]) \in Seq(Status)
  BY HeadTailProperties
<1> QED
  BY <1>1

LEMMA FailoverTypeStep ==
    FailoverTypeOK /\ [FailoverNext]_failoverVars => FailoverTypeOK'
<1> SUFFICES ASSUME FailoverTypeOK, [FailoverNext]_failoverVars PROVE FailoverTypeOK'
  OBVIOUS
<1>a. TypeOK /\ ClientsTyped /\ NetworkTyped
  BY TypeParts
<1>b. TypeOK'
  BY <1>a, ServerIsController, TypeStep DEF ApiNext
<1>1. ASSUME NEW c \in Client, ServerNotices(c) PROVE ClientsTyped' /\ NetworkTyped'
  <2>1. serverNews' \in [Client -> Seq(Status)]
    BY <1>1, <1>a, NewsTaken DEF ServerNotices, NetworkTyped
  <2>2. Posted /\ UNCHANGED <<toServer, early>>
    BY <1>1 DEF ServerNotices
  <2> QED
    BY <2>1, <2>2, <1>a, <1>b, PostedType DEF NetworkTyped
<1>2. ASSUME ServerStopped PROVE ClientsTyped' /\ NetworkTyped'
  BY <1>2, <1>a, <1>b, PostedType DEF ServerStopped, NetworkTyped
<1>3. ASSUME NEW c \in Client, ServerReceives(c) \/ SignalDropped(c)
      PROVE  ClientsTyped' /\ NetworkTyped'
  <2>1. PICK conn \in toServer[c] : Taken(c, conn)
    BY <1>3 DEF ServerReceives, SignalDropped
  <2>2. conn \in Connection
    BY <1>a DEF NetworkTyped
  <2>3. /\ toServer' \in [Client -> SUBSET Connection]
        /\ early' \in [Client -> SUBSET Connection]
        /\ UNCHANGED serverNews
    BY <2>1, <2>2, <1>a DEF Taken, NetworkTyped
  <2>4. CASE ServerReceives(c)
    <3>1. Posted
      BY <2>4 DEF ServerReceives
    <3> QED
      BY <2>3, <3>1, <1>a, <1>b, PostedType DEF NetworkTyped
  <2>5. CASE SignalDropped(c)
    <3>1. UNCHANGED <<link, toClient, clientNews, losses, clients, reports, failovers>>
      BY <2>5 DEF SignalDropped
    <3>2. ClientsTyped'
      BY <3>1, <1>a DEF ClientsTyped, clients, listener, connections
    <3> QED
      BY <2>3, <3>1, <3>2, <1>a DEF NetworkTyped
  <2> QED
    BY <1>3, <2>4, <2>5
<1>c. reports \in Nat /\ failovers \in Nat
  BY <1>a DEF NetworkTyped
<1>4. ASSUME NEW c \in Client, ClientOnline(c) \/ WaitEnds(c)
      PROVE  ClientsTyped' /\ NetworkTyped'
  <2>1. CASE ClientOnline(c)
    <3>1. ClientsTyped'
      BY <2>1, <1>a DEF ClientOnline, ClientsTyped, connections
    <3>2. clientNews' \in [Client -> Seq(Status)]
      BY <2>1, <1>a, NewsTaken DEF ClientOnline, NetworkTyped
    <3> QED
      BY <2>1, <3>1, <3>2, <1>a, <1>c, SameNetwork DEF ClientOnline, history
  <2>2. CASE WaitEnds(c)
    <3>1. ClientsTyped'
      BY <2>2, <1>a DEF WaitEnds, ClientsTyped, connections
    <3> QED
      BY <2>2, <3>1, <1>a, <1>c, SameNetwork DEF WaitEnds, history, network, news, NetworkTyped
  <2> QED
    BY <1>4, <2>1, <2>2
<1>5. ASSUME NEW c \in Client, ClientOffline(c) \/ StandbyTransition(c)
      PROVE  ClientsTyped' /\ NetworkTyped'
  <2>1. CASE ClientOffline(c)
    <3>1. ClientsTyped'
      BY <2>1, <1>a DEF ClientOffline, StopListening, ClientsTyped
    <3>2. clientNews' \in [Client -> Seq(Status)]
      BY <2>1, <1>a, NewsTaken DEF ClientOffline, NetworkTyped
    <3> QED
      BY <2>1, <3>1, <3>2, <1>a, <1>c, SameNetwork DEF ClientOffline, history
  <2>2. CASE StandbyTransition(c)
    <3>1. ClientsTyped'
      BY <2>2, <1>a DEF StandbyTransition, StopListening, ClientsTyped
    <3> QED
      BY <2>2, <3>1, <1>a, <1>c, SameNetwork
      DEF StandbyTransition, history, network, news, NetworkTyped
  <2> QED
    BY <1>5, <2>1, <2>2
<1>6. ASSUME NEW c \in Client, ClientReceives(c) PROVE ClientsTyped' /\ NetworkTyped'
  <2>1. PICK s \in Signal :
          /\ toClient[c][s] > 0
          /\ toClient' = [toClient EXCEPT ![c][s] = @ - 1]
          /\ LET killed == {conn \in open[c] : serverOnline[c] /\ s = KillSignal(conn)}
             IN  /\ open' = [open EXCEPT ![c] = @ \ killed]
                 /\ speaking' = [speaking EXCEPT ![c] = @ \ killed]
          /\ transitions' = [transitions EXCEPT ![c] =
                 IF serverOnline[c] /\ s = ActiveSignal(Other(c)) /\ ~standbyDone[c]
                   THEN @ + 1 ELSE @]
    BY <1>6 DEF ClientReceives
  <2>2. ClientsTyped'
    BY <1>6, <1>a, <2>1 DEF ClientReceives, ClientsTyped
  <2>3. toClient[c][s] - 1 \in Nat
    BY <1>a, <2>1 DEF NetworkTyped, Carried
  <2>4. toClient' \in [Client -> Carried]
    BY <1>a, <2>1, <2>3 DEF NetworkTyped, Carried
  <2> QED
    BY <1>6, <1>a, <2>2, <2>4 DEF ClientReceives, NetworkTyped, news, history
<1>7. ASSUME NEW c \in Client, NEW conn \in Connection, SendConnectionSignal(c, conn)
      PROVE  ClientsTyped' /\ NetworkTyped'
  BY <1>7, <1>a
  DEF SendConnectionSignal, ClientsTyped, NetworkTyped, news, listener, history
<1>8. ASSUME NEW c \in Client, LinkUp(c) \/ LinkLost(c)
      PROVE  ClientsTyped' /\ NetworkTyped'
  <2>1. ClientsTyped'
    BY <1>8, <1>a DEF LinkUp, LinkLost, ClientsTyped, clients, listener, connections
  <2>2. MaxLosses \in Nat /\ NothingSent \in Carried
    BY FailoverAssumption DEF FailoverAssumption, NothingSent, Carried
  <2>3. CASE LinkUp(c)
    <3>1. /\ link' \in [Client -> BOOLEAN]
          /\ serverNews' \in [Client -> Seq(Status)]
          /\ clientNews' \in [Client -> Seq(Status)]
      BY <2>3, <1>a DEF LinkUp, NetworkTyped, Status
    <3>2. UNCHANGED <<toServer, toClient, losses, early, reports, failovers>>
      BY <2>3 DEF LinkUp, history
    <3> QED
      BY <2>1, <3>1, <3>2, <1>a DEF NetworkTyped
  <2>4. CASE LinkLost(c)
    <3>1. losses' \in 0..MaxLosses
      BY <2>2, <2>4, <1>a DEF LinkLost, NetworkTyped
    <3>2. /\ link' \in [Client -> BOOLEAN]
          /\ toServer' \in [Client -> SUBSET Connection]
          /\ toClient' \in [Client -> Carried]
      BY <2>2, <2>4, <1>a DEF LinkLost, NetworkTyped
    <3>3. UNCHANGED <<early, reports, failovers>>
      BY <2>4 DEF LinkLost, history
    <3>4. "offline" \in Status
      BY DEF Status
    <3>5. /\ serverNews' \in [Client -> Seq(Status)]
          /\ clientNews' \in [Client -> Seq(Status)]
      <4>1. /\ Append(serverNews[c], "offline") \in Seq(Status)
            /\ Append(clientNews[c], "offline") \in Seq(Status)
        BY <1>a, <3>4, AppendProperties DEF NetworkTyped
      <4> QED
        BY <2>4, <4>1, <1>a DEF LinkLost, NetworkTyped
    <3> QED
      BY <2>1, <3>1, <3>2, <3>3, <3>5, <1>a DEF NetworkTyped
  <2> QED
    BY <1>8, <2>1, <2>3, <2>4
<1>9. ASSUME NEW c \in Client, NEW t \in Tunnel, Accept(c, t)
      PROVE  ClientsTyped' /\ NetworkTyped'
  <2>1. /\ MaxConnections[c] \in Nat /\ counter[c] \in 0..MaxConnections[c]
        /\ 1..MaxConnections[c] \subseteq ConnectionId
    BY <1>a, FailoverAssumption DEF FailoverAssumption, ClientsTyped
  <2>2. <<t, counter[c] + 1>> \in Connection /\ counter[c] + 1 \in 0..MaxConnections[c]
    BY <1>9, <2>1 DEF Accept, Connection
  <2>3. \A d \in Client : counter'[d] \in 0..MaxConnections[d]
    BY <1>9, <1>a, <2>2 DEF Accept, ClientsTyped
  <2>4. /\ open' \in [Client -> SUBSET Connection]
        /\ UNCHANGED <<listener, speaking, scheduled, network, history>>
    BY <1>9, <1>a, <2>2 DEF Accept, ClientsTyped
  <2> QED
    BY <1>a, <2>3, <2>4
    DEF ClientsTyped, NetworkTyped, network, news, listener, history
<1>10. ASSUME NEW c \in Client, NEW conn \in Connection,
              ConnectionEnds(c, conn) \/ FirstDataReceived(c, conn)
       PROVE  ClientsTyped' /\ NetworkTyped'
  <2>1. CASE ConnectionEnds(c, conn)
    <3>1. ClientsTyped'
      BY <2>1, <1>a DEF ConnectionEnds, ClientsTyped, listener
    <3> QED
      BY <2>1, <3>1, <1>a, <1>c, SameNetwork
      DEF ConnectionEnds, history, network, news, NetworkTyped
  <2>2. CASE FirstDataReceived(c, conn)
    <3>1. ClientsTyped'
      BY <2>2, <1>a DEF FirstDataReceived, ClientsTyped, listener
    <3> QED
      BY <2>2, <3>1, <1>a, <1>c, SameNetwork
      DEF FirstDataReceived, network, news, NetworkTyped
  <2> QED
    BY <1>10, <2>1, <2>2
<1>11. ASSUME UNCHANGED failoverVars PROVE ClientsTyped' /\ NetworkTyped'
  BY <1>11, <1>a
  DEF failoverVars, ClientsTyped, NetworkTyped, network, news, clients, listener,
      connections, history
<1>12. ClientsTyped' /\ NetworkTyped'
  BY <1>1, <1>2, <1>3, <1>4, <1>5, <1>6, <1>7, <1>8, <1>9, <1>10, <1>11
  DEF FailoverNext, ServerStep, ClientStep, Environment
<1> QED
  BY <1>b, <1>12 DEF FailoverTypeOK, ClientsTyped, NetworkTyped, Carried

LEMMA FailoverTypeInit == FailoverInit => FailoverTypeOK
<1>1. ASSUME NEW S PROVE [c \in Client |-> {}] \in [Client -> SUBSET S]
  OBVIOUS
<1>2. Cooldown \in 0..Cooldown /\ MaxLosses \in Nat
      /\ \A c \in Client : MaxConnections[c] \in Nat
  BY ActiveRemoteAssumption, FailoverAssumption
  DEF ActiveRemoteAssumption, FailoverAssumption
<1>3. Init => TypeOK
  BY <1>1, <1>2 DEF Init, TypeOK, NoTracking, NoSignals
<1>4. FailoverInit => ClientsTyped
  BY <1>1, <1>2 DEF FailoverInit, ClientsTyped
<1>5. NothingSent \in Carried /\ <<>> \in Seq(Status)
  BY EmptySeq DEF NothingSent, Carried
<1>6. FailoverInit => NetworkTyped
  BY <1>1, <1>2, <1>5 DEF FailoverInit, NetworkTyped
<1> QED
  BY <1>3, <1>4, <1>6, TypeParts DEF FailoverInit

(* The state of server and clients keeps its types; a client's counter, for *)
(* one, stays below its bound.                                              *)
THEOREM FailoverTypes == FailoverSpec => []FailoverTypeOK
BY FailoverTypeInit, FailoverTypeStep, PTL DEF FailoverSpec

(* The server among its clients is the controller of ActiveRemote: what is  *)
(* proved of every use of that class holds here.                            *)
THEOREM FailoverUsesController == FailoverSpec => Spec /\ ApiSpec
<1>1. FailoverInit => Init
  BY DEF FailoverInit
<1>2. FailoverTypeOK /\ [FailoverNext]_failoverVars => [Next]_vars
  BY ServerIsController
<1>3. [Next]_vars => [ApiNext]_vars
  BY DEF ApiNext
<1> QED
  BY <1>1, <1>2, <1>3, FailoverTypes, PTL DEF FailoverSpec, Spec, ApiSpec

-----------------------------------------------------------------------------
(* Status changes *)

(* What a process knows of a link, and the changes it has yet to handle,    *)
(* add up to what has become of the link.                                   *)
Agree(up, known, queue) ==
    \/ up /\ known /\ queue = <<>>
    \/ up /\ ~known /\ queue = <<"online">>
    \/ ~up /\ ~known /\ queue = <<>>
    \/ ~up /\ known /\ queue = <<"offline">>
    \/ ~up /\ ~known /\ queue = <<"online", "offline">>

NewsInv ==
    \A c \in Client : /\ Agree(link[c], clientOnlineState[c], serverNews[c])
                      /\ Agree(link[c], serverOnline[c], clientNews[c])

(* A change that is handled leaves the two in agreement, and so does a link *)
(* that is lost.                                                            *)
LEMMA AgreeHandled ==
    ASSUME NEW up \in BOOLEAN, NEW known \in BOOLEAN, NEW queue \in Seq(Status),
           Agree(up, known, queue), queue # <<>>
    PROVE  /\ Agree(up, Head(queue) = "online", Tail(queue))
           /\ Head(queue) = "offline" => ~up /\ Tail(queue) = <<>>
           /\ Head(queue) = "online" /\ ~up => Tail(queue) # <<>>
           /\ Head(queue) \in Status
<1>1. CASE up /\ ~known /\ queue = <<"online">>
  <2>1. Head(queue) = "online" /\ Tail(queue) = <<>>
    BY <1>1
  <2> QED
    BY <1>1, <2>1 DEF Agree, Status
<1>2. CASE ~up /\ known /\ queue = <<"offline">>
  <2>1. Head(queue) = "offline" /\ Tail(queue) = <<>>
    BY <1>2
  <2> QED
    BY <1>2, <2>1 DEF Agree, Status
<1>3. CASE ~up /\ ~known /\ queue = <<"online", "offline">>
  <2>1. Head(queue) = "online" /\ Tail(queue) = <<"offline">>
    BY <1>3
  <2>2. Tail(queue) # <<>>
    BY <2>1
  <2> QED
    BY <1>3, <2>1, <2>2 DEF Agree, Status
<1> QED
  BY <1>1, <1>2, <1>3 DEF Agree

LEMMA AgreeLost ==
    ASSUME NEW known \in BOOLEAN, NEW queue \in Seq(Status), Agree(TRUE, known, queue)
    PROVE  Agree(FALSE, known, Append(queue, "offline")) /\ Append(queue, "offline") # <<>>
<1>1. CASE known /\ queue = <<>>
  <2>1. Append(queue, "offline") = <<"offline">>
    BY <1>1
  <2>2. <<"offline">> # <<>>
    <3>1. Len(<<"offline">>) = 1 /\ Len(<<>>) = 0
      OBVIOUS
    <3> QED
      BY <3>1
  <2> QED
    BY <1>1, <2>1, <2>2 DEF Agree
<1>2. CASE ~known /\ queue = <<"online">>
  <2>1. Append(queue, "offline") = <<"online", "offline">>
    <3> DEFINE two == <<"online", "offline">>
    <3>1. /\ <<"online">> \in Seq(Status) /\ "offline" \in Status
          /\ two \in Seq(Status) /\ Len(two) = 2 /\ Len(<<"online">>) = 1
          /\ <<"online">>[1] = "online" /\ two[1] = "online" /\ two[2] = "offline"
      BY DEF Status
    <3> HIDE DEF two
    <3> DEFINE appended == Append(<<"online">>, "offline")
    <3>2. /\ appended \in Seq(Status) /\ Len(appended) = 2
          /\ appended[1] = "online" /\ appended[2] = "offline"
      BY <3>1, AppendProperties
    <3> HIDE DEF appended
    <3>3. \A i \in 1..Len(appended) : appended[i] = two[i]
      BY <3>1, <3>2
    <3>4. appended = two
      BY <3>1, <3>2, <3>3, SeqEqual
    <3> QED
      BY <1>2, <3>4 DEF appended, two
  <2>2. <<"online", "offline">> # <<>>
    <3>1. Len(<<"online", "offline">>) = 2 /\ Len(<<>>) = 0
      OBVIOUS
    <3> QED
      BY <3>1
  <2> QED
    BY <1>2, <2>1, <2>2 DEF Agree
<1> QED
  BY <1>1, <1>2 DEF Agree

LEMMA NewsStep ==
    FailoverTypeOK /\ NewsInv /\ [FailoverNext]_failoverVars => NewsInv'
<1> SUFFICES ASSUME FailoverTypeOK, NewsInv, [FailoverNext]_failoverVars PROVE NewsInv'
  OBVIOUS
<1>a. /\ link \in [Client -> BOOLEAN] /\ clientOnlineState \in [Client -> BOOLEAN]
      /\ serverOnline \in [Client -> BOOLEAN]
      /\ serverNews \in [Client -> Seq(Status)] /\ clientNews \in [Client -> Seq(Status)]
  BY DEF FailoverTypeOK, TypeOK
<1>1. CASE UNCHANGED <<link, clientOnlineState, serverOnline, news>>
  BY <1>1 DEF NewsInv, news
<1>2. ASSUME NEW c \in Client, ServerNotices(c) PROVE NewsInv'
  <2>1. /\ serverNews[c] # <<>>
        /\ serverNews' = [serverNews EXCEPT ![c] = Tail(@)]
        /\ clientOnlineState' =
               [clientOnlineState EXCEPT ![c] = (Head(serverNews[c]) = "online")]
        /\ UNCHANGED <<link, serverOnline, clientNews>>
    BY <1>2 DEF ServerNotices, HandleClientStatusChange, SetRemoteOnline, Posted,
                clients, listener
  <2>2. Agree(link[c], Head(serverNews[c]) = "online", Tail(serverNews[c]))
    BY <1>a, <2>1, AgreeHandled DEF NewsInv
  <2>3. clientOnlineState'[c] = (Head(serverNews[c]) = "online")
        /\ serverNews'[c] = Tail(serverNews[c])
    BY <1>a, <2>1
  <2>4. Agree(link[c], clientOnlineState'[c], serverNews'[c])
    BY <2>2, <2>3
  <2>5. \A d \in Client \ {c} : /\ clientOnlineState'[d] = clientOnlineState[d]
                              /\ serverNews'[d] = serverNews[d]
    BY <1>a, <2>1
  <2> QED
    BY <2>1, <2>4, <2>5 DEF NewsInv
<1>3. ASSUME ServerStopped \/ \E c \in Client : ServerReceives(c) \/ SignalDropped(c)
      PROVE  UNCHANGED <<link, clientOnlineState, serverOnline, news>>
  BY <1>3
  DEF ServerStopped, TunnelsStopped, ServerReceives, SignalDropped, Taken, Posted,
      ProcessConnectionSignal, vars, clients, listener, news
<1>4. ASSUME NEW c \in Client, ClientOnline(c) \/ ClientOffline(c) PROVE NewsInv'
  <2>1. /\ clientNews[c] # <<>>
        /\ clientNews' = [clientNews EXCEPT ![c] = Tail(@)]
        /\ \/ Head(clientNews[c]) = "online"
              /\ serverOnline' = [serverOnline EXCEPT ![c] = TRUE]
           \/ Head(clientNews[c]) = "offline"
              /\ serverOnline' = [serverOnline EXCEPT ![c] = FALSE]
        /\ UNCHANGED <<link, clientOnlineState, serverNews>>
    BY <1>4 DEF ClientOnline, ClientOffline, vars
  <2>2. Agree(link[c], Head(clientNews[c]) = "online", Tail(clientNews[c]))
    BY <1>a, <2>1, AgreeHandled DEF NewsInv
  <2>3. serverOnline'[c] = (Head(clientNews[c]) = "online")
        /\ clientNews'[c] = Tail(clientNews[c])
    BY <1>a, <2>1
  <2>4. Agree(link[c], serverOnline'[c], clientNews'[c])
    BY <2>2, <2>3
  <2>5. \A d \in Client \ {c} : /\ serverOnline'[d] = serverOnline[d]
                              /\ clientNews'[d] = clientNews[d]
    BY <1>a, <2>1
  <2> QED
    BY <2>1, <2>4, <2>5 DEF NewsInv
<1>5. ASSUME NEW c \in Client, LinkUp(c) PROVE NewsInv'
  BY <1>5, <1>a DEF LinkUp, NewsInv, Agree, vars, clients, listener
<1>6. ASSUME NEW c \in Client, LinkLost(c) PROVE NewsInv'
  <2>1. /\ link[c]
        /\ link' = [link EXCEPT ![c] = FALSE]
        /\ serverNews' = [serverNews EXCEPT ![c] = Append(@, "offline")]
        /\ clientNews' = [clientNews EXCEPT ![c] = Append(@, "offline")]
        /\ UNCHANGED <<clientOnlineState, serverOnline>>
    BY <1>6 DEF LinkLost, vars, clients, listener
  <2>2. /\ Agree(FALSE, clientOnlineState[c], Append(serverNews[c], "offline"))
        /\ Agree(FALSE, serverOnline[c], Append(clientNews[c], "offline"))
    <3>1. /\ Agree(TRUE, clientOnlineState[c], serverNews[c])
          /\ Agree(TRUE, serverOnline[c], clientNews[c])
      BY <2>1 DEF NewsInv, Agree
    <3> QED
      BY <1>a, <3>1, AgreeLost
  <2>3. ~link'[c] /\ serverNews'[c] = Append(serverNews[c], "offline")
        /\ clientNews'[c] = Append(clientNews[c], "offline")
    BY <1>a, <2>1
  <2>4. /\ Agree(link'[c], clientOnlineState[c], serverNews'[c])
        /\ Agree(link'[c], serverOnline[c], clientNews'[c])
    BY <2>2, <2>3 DEF Agree
  <2>5. \A d \in Client \ {c} : /\ link'[d] = link[d]
                              /\ serverNews'[d] = serverNews[d]
                              /\ clientNews'[d] = clientNews[d]
    BY <1>a, <2>1
  <2> QED
    BY <2>1, <2>4, <2>5 DEF NewsInv
<1>7. ASSUME NEW c \in Client,
             \/ ClientReceives(c) \/ StandbyTransition(c) \/ WaitEnds(c)
             \/ \E t \in Tunnel : Accept(c, t)
             \/ \E conn \in Connection :
                   \/ SendConnectionSignal(c, conn) \/ ConnectionEnds(c, conn)
                   \/ FirstDataReceived(c, conn)
      PROVE  UNCHANGED <<link, clientOnlineState, serverOnline, news>>
  BY <1>7
  DEF ClientReceives, StandbyTransition, WaitEnds, Accept, SendConnectionSignal,
      ConnectionEnds, FirstDataReceived, vars, network, listener
<1>8. CASE UNCHANGED failoverVars
  BY <1>1, <1>8 DEF failoverVars, vars, network, clients, listener
<1> QED
  BY <1>1, <1>2, <1>3, <1>4, <1>5, <1>6, <1>7, <1>8
  DEF FailoverNext, ServerStep, ClientStep, Environment

LEMMA NewsAlways == FailoverSpec => []NewsInv
<1>1. FailoverInit => NewsInv
  BY DEF FailoverInit, Init, NewsInv, Agree
<1> QED
  BY <1>1, NewsStep, FailoverTypes, PTL DEF FailoverSpec

-----------------------------------------------------------------------------
(* Failovers do not set off failovers *)

(* What may still cause a failover: a signal that will be sent, a signal    *)
(* under way, and a lost link whose loss the server has yet to handle.      *)
Unnoticed(c) == IF ~link[c] /\ serverNews[c] # <<>> THEN 1 ELSE 0

Causes(c) == Cardinality(scheduled[c]) + Cardinality(toServer[c]) + Unnoticed(c)

FiniteQueues ==
    \A c \in Client : IsFiniteSet(scheduled[c]) /\ IsFiniteSet(toServer[c])

CausesLeft == failovers + Causes(1) + Causes(2) <= reports + losses

CauseInv == FiniteQueues /\ CausesLeft

LEMMA CausesType == ASSUME FiniteQueues, NEW c \in Client PROVE Causes(c) \in Nat
BY FS_CardinalityType DEF FiniteQueues, Causes, Unnoticed

LEMMA SameCauses ==
    ASSUME NEW c \in Client,
           scheduled'[c] = scheduled[c], toServer'[c] = toServer[c],
           link'[c] = link[c], serverNews'[c] = serverNews[c]
    PROVE  Causes(c)' = Causes(c)
BY DEF Causes, Unnoticed

(* A step that concerns one client pays for a failover with a cause there.  *)
LEMMA OneClientPays ==
    ASSUME FailoverTypeOK, FailoverTypeOK', CauseInv, FiniteQueues',
           NEW c \in Client, Causes(Other(c))' = Causes(Other(c)),
           failovers' + Causes(c)' + reports + losses
               <= failovers + Causes(c) + reports' + losses'
    PROVE  CauseInv'
<1>1. /\ Causes(1) \in Nat /\ Causes(2) \in Nat
      /\ Causes(1)' \in Nat /\ Causes(2)' \in Nat
  <2>1. \A d \in Client : Causes(d) \in Nat
    BY CausesType DEF CauseInv
  <2>2. \A d \in Client : Causes(d)' \in Nat
    BY FS_CardinalityType DEF FiniteQueues, Causes, Unnoticed
  <2> QED
    BY <2>1, <2>2 DEF Client
<1>2. /\ failovers \in Nat /\ reports \in Nat /\ losses \in Nat
      /\ failovers' \in Nat /\ reports' \in Nat /\ losses' \in Nat
  <2>1. losses \in 0..MaxLosses /\ losses' \in 0..MaxLosses /\ MaxLosses \in Nat
    BY FailoverAssumption DEF FailoverTypeOK, FailoverAssumption
  <2> QED
    BY <2>1 DEF FailoverTypeOK
<1>3. \/ c = 1 /\ Other(c) = 2
      \/ c = 2 /\ Other(c) = 1
  BY DEF Other, Client
<1>4. failovers + Causes(1) + Causes(2) <= reports + losses
  BY DEF CauseInv, CausesLeft
<1>5. failovers' + Causes(1)' + Causes(2)' <= reports' + losses'
  BY <1>1, <1>2, <1>3, <1>4
<1> QED
  BY <1>5 DEF CauseInv, CausesLeft

(* A step of the server that leaves the active client, or gives the role up *)
(* to nobody, is no failover.                                               *)
LEMMA PostedFailovers ==
    ASSUME FailoverTypeOK, Posted
    PROVE  /\ failovers' \in {failovers, failovers + 1}
           /\ activeClientId' \in {activeClientId, None} => failovers' = failovers
           /\ UNCHANGED <<link, losses, reports, scheduled>>
BY DEF Posted, clients, connections

LEMMA CauseStep ==
    FailoverTypeOK /\ FailoverTypeOK' /\ NewsInv /\ CauseInv
        /\ [FailoverNext]_failoverVars
            => CauseInv'
<1> SUFFICES ASSUME FailoverTypeOK, FailoverTypeOK', NewsInv, CauseInv,
                    [FailoverNext]_failoverVars
             PROVE  CauseInv'
  OBVIOUS
<1>a. /\ failovers \in Nat /\ reports \in Nat /\ losses \in Nat /\ losses' \in Nat
      /\ link \in [Client -> BOOLEAN] /\ clientOnlineState \in [Client -> BOOLEAN]
      /\ toServer \in [Client -> SUBSET Connection]
      /\ scheduled \in [Client -> SUBSET Connection]
  <2>1. losses \in 0..MaxLosses /\ losses' \in 0..MaxLosses /\ MaxLosses \in Nat
    BY FailoverAssumption DEF FailoverTypeOK, FailoverAssumption
  <2>2. losses \in Nat /\ losses' \in Nat
    BY <2>1
  <2>3. /\ failovers \in Nat /\ reports \in Nat
        /\ link \in [Client -> BOOLEAN] /\ clientOnlineState \in [Client -> BOOLEAN]
        /\ toServer \in [Client -> SUBSET Connection]
        /\ scheduled \in [Client -> SUBSET Connection]
    BY DEF FailoverTypeOK, TypeOK
  <2> QED
    BY <2>2, <2>3
<1>n. serverNews \in [Client -> Seq(Status)]
  BY DEF FailoverTypeOK
<1>b. \A c \in Client : Other(c) \in Client /\ Other(c) # c
  BY DEF Other, Client
<1>c. \A c \in Client : /\ IsFiniteSet(scheduled[c]) /\ IsFiniteSet(toServer[c])
                        /\ Cardinality(scheduled[c]) \in Nat
                        /\ Cardinality(toServer[c]) \in Nat
                        /\ Causes(c) \in Nat
  BY FS_CardinalityType, CausesType DEF CauseInv, FiniteQueues
<1>1. ASSUME NEW c \in Client, ServerNotices(c) PROVE CauseInv'
  <2> DEFINE status == Head(serverNews[c])
  <2>1. /\ Posted /\ UNCHANGED toServer
        /\ serverNews[c] # <<>>
        /\ serverNews' = [serverNews EXCEPT ![c] = Tail(@)]
        /\ SetRemoteOnline(c, status = "online")
    BY <1>1 DEF ServerNotices, HandleClientStatusChange
  <2>2. /\ status \in Status
        /\ status = "offline" => ~link[c] /\ serverNews'[c] = <<>>
        /\ status = "online" /\ ~link[c] => serverNews'[c] # <<>>
    <3>1. serverNews'[c] = Tail(serverNews[c])
      BY <1>n, <2>1
    <3>2. Agree(link[c], clientOnlineState[c], serverNews[c])
      BY DEF NewsInv
    <3> QED
      BY <1>a, <1>n, <2>1, <3>1, <3>2, AgreeHandled
  <2>3. FiniteQueues'
    BY <1>c, <2>1, PostedFailovers DEF FiniteQueues
  <2>4. Causes(Other(c))' = Causes(Other(c))
    BY <1>a, <1>b, <1>n, <2>1, PostedFailovers, SameCauses
  <2>5. failovers' + Unnoticed(c)' <= failovers + Unnoticed(c)
    <3>1. CASE status = "online"
      <4>1. activeClientId' = activeClientId
        BY <2>1, <3>1 DEF SetRemoteOnline
      <4>2. Unnoticed(c)' = Unnoticed(c) /\ failovers' = failovers
        BY <2>1, <2>2, <3>1, <4>1, PostedFailovers DEF Unnoticed
      <4>3. Unnoticed(c) \in Nat
        BY DEF Unnoticed
      <4> QED
        BY <1>a, <4>2, <4>3
    <3>2. CASE status = "offline"
      <4>1. Unnoticed(c) = 1
        BY <2>1, <2>2, <3>2 DEF Unnoticed
      <4>2. Unnoticed(c)' = 0
        BY <2>1, <2>2, <3>2, PostedFailovers DEF Unnoticed
      <4> QED
        BY <1>a, <2>1, <4>1, <4>2, PostedFailovers
    <3> QED
      BY <2>2, <3>1, <3>2 DEF Status
  <2>6. /\ Causes(c) = Cardinality(scheduled[c]) + Cardinality(toServer[c]) + Unnoticed(c)
        /\ Causes(c)' = Cardinality(scheduled[c]) + Cardinality(toServer[c]) + Unnoticed(c)'
        /\ UNCHANGED <<reports, losses>>
    BY <2>1, PostedFailovers DEF Causes
  <2>7. Unnoticed(c) \in Nat /\ Unnoticed(c)' \in Nat /\ failovers' \in Nat
    BY <1>a, <2>1, PostedFailovers DEF Unnoticed
  <2>8. failovers' + Causes(c)' + reports + losses
            <= failovers + Causes(c) + reports' + losses'
    BY <1>a, <1>c, <2>5, <2>6, <2>7
  <2> QED
    BY <2>3, <2>4, <2>8, OneClientPays
<1>2. ASSUME ServerStopped PROVE CauseInv'
  <2>1. /\ UNCHANGED <<toServer, scheduled, link, serverNews, activeClientId>>
        /\ UNCHANGED <<reports, losses, failovers>>
    BY <1>2, PostedFailovers DEF ServerStopped, TunnelsStopped
  <2> QED
    BY <2>1 DEF CauseInv, CausesLeft, FiniteQueues, Causes, Unnoticed
<1>3. ASSUME NEW c \in Client, ServerReceives(c) \/ SignalDropped(c) PROVE CauseInv'
  <2>0. failovers' \in {failovers, failovers + 1}
        /\ UNCHANGED <<link, losses, reports, scheduled>>
    <3>1. CASE ServerReceives(c)
      BY <3>1, PostedFailovers DEF ServerReceives
    <3>2. CASE SignalDropped(c)
      BY <3>2 DEF SignalDropped, clients, connections
    <3> QED
      BY <1>3, <3>1, <3>2
  <2>1. PICK conn \in toServer[c] :
          /\ toServer' = [toServer EXCEPT ![c] = @ \ {conn}]
          /\ UNCHANGED serverNews
    BY <1>3 DEF ServerReceives, SignalDropped, Taken
  <2>2. /\ IsFiniteSet(toServer'[c])
        /\ Cardinality(toServer'[c]) = Cardinality(toServer[c]) - 1
    BY <1>a, <1>c, <2>1, FS_RemoveElement
  <2>3. FiniteQueues'
    BY <1>a, <1>c, <2>0, <2>1, <2>2 DEF FiniteQueues
  <2>4. Causes(Other(c))' = Causes(Other(c))
    BY <1>a, <1>b, <2>0, <2>1, SameCauses
  <2>5. Causes(c)' = Causes(c) - 1
    <3>1. Unnoticed(c)' = Unnoticed(c) /\ Unnoticed(c) \in Nat
      BY <2>0, <2>1 DEF Unnoticed
    <3>2. /\ Causes(c) = Cardinality(scheduled[c]) + Cardinality(toServer[c]) + Unnoticed(c)
          /\ Causes(c)' = Cardinality(scheduled[c]) + Cardinality(toServer'[c]) + Unnoticed(c)
      BY <2>0, <2>1, <3>1 DEF Causes
    <3> QED
      BY <1>c, <2>2, <3>1, <3>2
  <2>6. /\ failovers' <= failovers + 1 /\ failovers' \in Nat
        /\ UNCHANGED <<reports, losses>>
    BY <1>a, <2>0
  <2>7. failovers' + Causes(c)' + reports + losses
            <= failovers + Causes(c) + reports' + losses'
    BY <1>a, <1>c, <2>5, <2>6
  <2> QED
    BY <2>3, <2>4, <2>7, OneClientPays
<1>4. ASSUME UNCHANGED <<scheduled, toServer, link, serverNews,
                         reports, losses, failovers>>
      PROVE  CauseInv'
  BY <1>4 DEF CauseInv, CausesLeft, FiniteQueues, Causes, Unnoticed
<1>5. ASSUME NEW c \in Client,
             \/ ClientOnline(c) \/ ClientOffline(c) \/ ClientReceives(c)
             \/ StandbyTransition(c) \/ WaitEnds(c)
             \/ \E t \in Tunnel : Accept(c, t)
             \/ \E conn \in Connection : ConnectionEnds(c, conn)
      PROVE  UNCHANGED <<scheduled, toServer, link, serverNews,
                         reports, losses, failovers>>
  BY <1>5
  DEF ClientOnline, ClientOffline, ClientReceives, StandbyTransition, WaitEnds, Accept,
      ConnectionEnds, StopListening, news, network, connections, history
<1>6. ASSUME NEW c \in Client, NEW conn \in Connection, SendConnectionSignal(c, conn)
      PROVE  CauseInv'
  <2>1. /\ conn \in scheduled[c]
        /\ scheduled' = [scheduled EXCEPT ![c] = @ \ {conn}]
        /\ toServer' = [toServer EXCEPT ![c] = IF link[c] THEN @ \cup {conn} ELSE @]
        /\ UNCHANGED <<link, serverNews, reports, losses, failovers>>
    BY <1>6 DEF SendConnectionSignal, news, history
  <2>2. /\ IsFiniteSet(scheduled'[c])
        /\ Cardinality(scheduled'[c]) = Cardinality(scheduled[c]) - 1
    BY <1>a, <1>c, <2>1, FS_RemoveElement
  <2>3. /\ IsFiniteSet(toServer'[c])
        /\ Cardinality(toServer'[c]) \in {Cardinality(toServer[c]),
                                          Cardinality(toServer[c]) + 1}
    BY <1>a, <1>c, <2>1, FS_AddElement
  <2>4. FiniteQueues'
    BY <1>a, <1>c, <2>1, <2>2, <2>3 DEF FiniteQueues
  <2>5. Causes(Other(c))' = Causes(Other(c))
    BY <1>a, <1>b, <2>1, SameCauses
  <2>6. Causes(c)' <= Causes(c) /\ Causes(c)' \in Nat
    <3>1. Unnoticed(c)' = Unnoticed(c) /\ Unnoticed(c) \in Nat
      BY <2>1 DEF Unnoticed
    <3>2. /\ Causes(c) = Cardinality(scheduled[c]) + Cardinality(toServer[c]) + Unnoticed(c)
          /\ Causes(c)' = Cardinality(scheduled'[c]) + Cardinality(toServer'[c]) + Unnoticed(c)
      BY <3>1 DEF Causes
    <3>3. Cardinality(scheduled'[c]) \in Nat /\ Cardinality(toServer'[c]) \in Nat
      BY <2>2, <2>3, FS_CardinalityType
    <3> QED
      BY <1>c, <2>2, <2>3, <3>1, <3>2, <3>3
  <2> QED
    BY <1>a, <1>c, <2>1, <2>4, <2>5, <2>6, OneClientPays
<1>7. ASSUME NEW c \in Client, LinkUp(c) PROVE CauseInv'
  <2>1. /\ ~link[c] /\ serverNews[c] = <<>>
        /\ link' = [link EXCEPT ![c] = TRUE]
        /\ serverNews' = [serverNews EXCEPT ![c] = <<"online">>]
        /\ UNCHANGED <<toServer, scheduled, reports, losses, failovers>>
    BY <1>7 DEF LinkUp, clients, connections, history
  <2>2. FiniteQueues'
    BY <1>c, <2>1 DEF FiniteQueues
  <2>3. Causes(Other(c))' = Causes(Other(c))
    BY <1>a, <1>b, <1>n, <2>1, SameCauses
  <2>4. Causes(c)' = Causes(c)
    BY <1>a, <1>n, <2>1 DEF Causes, Unnoticed
  <2> QED
    BY <1>a, <1>c, <2>1, <2>2, <2>3, <2>4, OneClientPays
<1>8. ASSUME NEW c \in Client, LinkLost(c) PROVE CauseInv'
  <2>1. /\ losses' = losses + 1
        /\ link' = [link EXCEPT ![c] = FALSE]
        /\ toServer' = [toServer EXCEPT ![c] = {}]
        /\ serverNews' = [serverNews EXCEPT ![c] = Append(@, "offline")]
        /\ UNCHANGED <<scheduled, reports, failovers>>
    BY <1>8 DEF LinkLost, clients, connections, history
  <2>2. FiniteQueues'
    BY <1>a, <1>c, <2>1, FS_EmptySet DEF FiniteQueues
  <2>3. Causes(Other(c))' = Causes(Other(c))
    BY <1>a, <1>b, <1>n, <2>1, SameCauses
  <2>4. Causes(c)' <= Causes(c) + 1 /\ Causes(c)' \in Nat
    <3>1. Unnoticed(c) \in {0, 1} /\ Unnoticed(c)' \in {0, 1}
      BY DEF Unnoticed
    <3>2. Cardinality(toServer'[c]) = 0
      BY <1>a, <2>1, FS_EmptySet
    <3>3. /\ Causes(c) = Cardinality(scheduled[c]) + Cardinality(toServer[c]) + Unnoticed(c)
          /\ Causes(c)' = Cardinality(scheduled[c]) + Cardinality(toServer'[c]) + Unnoticed(c)'
      BY <2>1 DEF Causes
    <3> QED
      BY <1>c, <3>1, <3>2, <3>3
  <2>5. failovers' + Causes(c)' + reports + losses
            <= failovers + Causes(c) + reports' + losses'
    <3>1. losses' = losses + 1 /\ UNCHANGED <<reports, failovers>>
      BY <2>1
    <3> QED
      BY <1>a, <1>c, <2>4, <3>1
  <2> QED
    BY <2>2, <2>3, <2>5, OneClientPays
<1>9. ASSUME NEW c \in Client, NEW conn \in Connection, FirstDataReceived(c, conn)
      PROVE  CauseInv'
  <2>1. /\ scheduled' = [scheduled EXCEPT ![c] =
                             IF serverOnline[c] THEN @ \cup {conn} ELSE @]
        /\ reports' = reports + 1
        /\ UNCHANGED <<link, toServer, serverNews, losses, failovers>>
    BY <1>9 DEF FirstDataReceived, network, news, history
  <2>2. /\ IsFiniteSet(scheduled'[c])
        /\ Cardinality(scheduled'[c]) \in {Cardinality(scheduled[c]),
                                           Cardinality(scheduled[c]) + 1}
    BY <1>a, <1>c, <2>1, FS_AddElement
  <2>3. FiniteQueues'
    BY <1>a, <1>c, <2>1, <2>2 DEF FiniteQueues
  <2>4. Causes(Other(c))' = Causes(Other(c))
    BY <1>a, <1>b, <2>1, SameCauses
  <2>5. Causes(c)' <= Causes(c) + 1 /\ Causes(c)' \in Nat
    <3>1. Unnoticed(c)' = Unnoticed(c) /\ Unnoticed(c) \in Nat
      BY <2>1 DEF Unnoticed
    <3>2. /\ Causes(c) = Cardinality(scheduled[c]) + Cardinality(toServer[c]) + Unnoticed(c)
          /\ Causes(c)' = Cardinality(scheduled'[c]) + Cardinality(toServer[c]) + Unnoticed(c)
      BY <2>1, <3>1 DEF Causes
    <3> QED
      BY <1>c, <2>2, <3>1, <3>2
  <2>6. failovers' + Causes(c)' + reports + losses
            <= failovers + Causes(c) + reports' + losses'
    BY <1>a, <1>c, <2>1, <2>5
  <2> QED
    BY <2>3, <2>4, <2>6, OneClientPays
<1>10. CASE UNCHANGED failoverVars
  BY <1>4, <1>10
  DEF failoverVars, network, news, clients, connections, history
<1> QED
  BY <1>1, <1>2, <1>3, <1>4, <1>5, <1>6, <1>7, <1>8, <1>9, <1>10
  DEF FailoverNext, ServerStep, ClientStep, Environment

(* A failover is always the doing of a connection that has begun to send or *)
(* of a link that was lost, and each of them does it once: kill and active  *)
(* signals, closed ports and standby waits set no failover off.             *)
THEOREM EveryFailoverCaused == FailoverSpec => []FailoversHaveCause
<1>1. FailoverInit => CauseInv
  BY FS_EmptySet
  DEF FailoverInit, Init, CauseInv, CausesLeft, FiniteQueues, Causes, Unnoticed, Client
<1>2. FailoverTypeOK /\ CauseInv => FailoversHaveCause
  <2> SUFFICES ASSUME FailoverTypeOK, CauseInv PROVE FailoversHaveCause
    OBVIOUS
  <2>1. Causes(1) \in Nat /\ Causes(2) \in Nat
    BY CausesType DEF CauseInv, Client
  <2>2. losses \in 0..MaxLosses /\ MaxLosses \in Nat
    BY FailoverAssumption DEF FailoverTypeOK, FailoverAssumption
  <2>3. failovers \in Nat /\ reports \in Nat /\ losses \in Nat
    BY <2>2 DEF FailoverTypeOK
  <2> QED
    BY <2>1, <2>3 DEF CauseInv, CausesLeft, FailoversHaveCause
<1> QED
  BY <1>1, <1>2, CauseStep, FailoverTypes, NewsAlways, PTL DEF FailoverSpec

-----------------------------------------------------------------------------
(* A client that is online listens, or is in a standby wait *)

(* A client that knows itself offline accepts nothing and has nothing open. *)
OfflineIsQuiet ==
    \A c \in Client : ~serverOnline[c] => ~port[c] /\ open[c] = {} /\ speaking[c] = {}

OnlineListens == \A c \in Client : serverOnline[c] => port[c] \/ waiting[c] > 0

PortInv == OfflineIsQuiet /\ OnlineListens

LEMMA PortStep ==
    FailoverTypeOK /\ PortInv /\ [FailoverNext]_failoverVars => PortInv'
<1> SUFFICES ASSUME FailoverTypeOK, PortInv, [FailoverNext]_failoverVars PROVE PortInv'
  OBVIOUS
<1>a. /\ serverOnline \in [Client -> BOOLEAN] /\ port \in [Client -> BOOLEAN]
      /\ open \in [Client -> SUBSET Connection] /\ speaking \in [Client -> SUBSET Connection]
      /\ waiting \in [Client -> Nat]
  BY DEF FailoverTypeOK
<1> USE <1>a DEF PortInv, OfflineIsQuiet, OnlineListens
<1>1. CASE UNCHANGED <<serverOnline, port, open, speaking, waiting>>
  BY <1>1
<1>2. CASE ServerStep
  BY <1>1, <1>2 DEF ServerStep, ServerStopped, ServerNotices, ServerReceives,
                    SignalDropped, Posted, clients, listener, connections
<1>3. ASSUME NEW c \in Client, ClientOnline(c) \/ ClientOffline(c) PROVE PortInv'
  BY <1>3 DEF ClientOnline, ClientOffline, StopListening, connections
<1>4. ASSUME NEW c \in Client, ClientReceives(c) PROVE PortInv'
  <2>1. PICK killed : /\ open' = [open EXCEPT ![c] = @ \ killed]
                      /\ speaking' = [speaking EXCEPT ![c] = @ \ killed]
                      /\ UNCHANGED <<serverOnline, port, waiting>>
    BY <1>4 DEF ClientReceives
  <2> QED
    BY <2>1
<1>5. ASSUME NEW c \in Client, StandbyTransition(c) \/ WaitEnds(c) PROVE PortInv'
  BY <1>5 DEF StandbyTransition, WaitEnds, StopListening, connections
<1>6. ASSUME NEW c \in Client,
             \/ LinkUp(c) \/ LinkLost(c)
             \/ \E conn \in Connection : SendConnectionSignal(c, conn)
      PROVE  PortInv'
  BY <1>1, <1>6 DEF SendConnectionSignal, LinkUp, LinkLost, clients, listener, connections
<1>7. ASSUME NEW c \in Client, NEW t \in Tunnel, Accept(c, t) PROVE PortInv'
  BY <1>7 DEF Accept, listener
<1>8. ASSUME NEW c \in Client, NEW conn \in Connection,
             ConnectionEnds(c, conn) \/ FirstDataReceived(c, conn)
      PROVE  PortInv'
  BY <1>8 DEF ConnectionEnds, FirstDataReceived, listener
<1>9. CASE UNCHANGED failoverVars
  BY <1>1, <1>9 DEF failoverVars, clients, listener, connections
<1>10. CASE \E c \in Client : ClientStep(c) \/ Environment(c)
  BY <1>3, <1>4, <1>5, <1>6, <1>7, <1>8, <1>10 DEF ClientStep, Environment
<1> QED
  BY <1>2, <1>9, <1>10 DEF FailoverNext

LEMMA PortAlways == FailoverSpec => []PortInv
<1>1. FailoverInit => PortInv
  BY DEF FailoverInit, PortInv, OfflineIsQuiet, OnlineListens
<1> QED
  BY <1>1, PortStep, FailoverTypes, PTL DEF FailoverSpec

(* A client that knows its server has its port open or is in a standby wait *)
(* that will open it: no order of signals, of waits that overlap and of     *)
(* lost links leaves it deaf, the active client included                    *)
(* (_handleStandbyTransition, _handleUpDownTunnels).                        *)
THEOREM OnlineClientListens == FailoverSpec => []OnlineListens
<1>1. PortInv => OnlineListens
  BY DEF PortInv
<1> QED
  BY <1>1, PortAlways, PTL

-----------------------------------------------------------------------------
(* Traffic ends up on the active client *)

(* The news that the other client is active is on its way to client c, or   *)
(* c has it and will act on it in its next turn.                            *)
ToStandBy(c) == toClient[c][ActiveSignal(Other(c))] > 0 \/ transitions[c] > 0

(* A connection that has sent data, and that the server was not told of too *)
(* early, is on the active client, will make its client active, or its      *)
(* client will be told to stand by.                                         *)
Heard(c, conn) ==
    \/ conn \in scheduled[c] \cup toServer[c]
    \/ activeClientId = c /\ clientOnlineState[c]
    \/ ToStandBy(c)

SpeakerIsHeard ==
    \A c \in Client :
        link[c] /\ ~standbyDone[c]
            => \A conn \in speaking[c] \ early[c] : Heard(c, conn)

(* The server has its endpoint while it knows of a client. *)
OnlineHasEndpoint ==
    /\ \A c \in Client : clientOnlineState[c] => tunnelsStarted
    /\ tunnelsStarted => signalEndpoint

LEMMA EndpointStep ==
    TypeOK /\ OnlineHasEndpoint /\ [Next]_vars => OnlineHasEndpoint'
<1> SUFFICES ASSUME TypeOK, OnlineHasEndpoint, [Next]_vars PROVE OnlineHasEndpoint'
  OBVIOUS
<1>1. ASSUME NEW c \in Client, NEW nowOnline \in BOOLEAN,
             HandleClientStatusChange(c, nowOnline)
      PROVE  OnlineHasEndpoint'
  <2>1. /\ clientOnlineState' = [clientOnlineState EXCEPT ![c] = nowOnline]
        /\ tunnelsStarted' = (nowOnline \/ clientOnlineState[Other(c)])
        /\ signalEndpoint' = (signalEndpoint \/ nowOnline \/ clientOnlineState[Other(c)])
    BY <1>1 DEF HandleClientStatusChange, SetRemoteOnline
  <2>2. \A d \in Client : d = c \/ d = Other(c)
    BY DEF Client, Other
  <2> QED
    BY <2>1, <2>2 DEF OnlineHasEndpoint, TypeOK
<1>2. CASE TunnelsStopped
  BY <1>2 DEF TunnelsStopped, OnlineHasEndpoint
<1>3. CASE UNCHANGED <<clientOnlineState, lifecycle>>
  BY <1>3 DEF lifecycle, OnlineHasEndpoint
<1>4. ASSUME NEW c \in Client, NEW t \in Tunnel, NEW k \in ConnectionId,
             ProcessConnectionSignal(c, t, k)
      PROVE  UNCHANGED <<clientOnlineState, lifecycle>>
  BY <1>4 DEF ProcessConnectionSignal
<1>5. CASE Tick
  BY <1>3, <1>5 DEF Tick
<1>6. CASE UNCHANGED vars
  BY <1>3, <1>6 DEF vars
<1> QED
  BY <1>1, <1>2, <1>3, <1>4, <1>5, <1>6 DEF Next

LEMMA EndpointAlways == FailoverSpec => []OnlineHasEndpoint
<1>1. FailoverInit => OnlineHasEndpoint
  BY DEF FailoverInit, Init, OnlineHasEndpoint
<1>2. FailoverTypeOK /\ OnlineHasEndpoint /\ [FailoverNext]_failoverVars
          => OnlineHasEndpoint'
  BY ServerIsController, EndpointStep DEF FailoverTypeOK
<1> QED
  BY <1>1, <1>2, FailoverTypes, PTL DEF FailoverSpec

(* What the server sends is added to what is under way. *)
LEMMA PostedKeeps ==
    ASSUME FailoverTypeOK, TypeOK', Posted, NEW c \in Client
    PROVE  /\ ToStandBy(c) => ToStandBy(c)'
           /\ link[c] /\ ActiveSignal(Other(c)) \in sent'[c] => ToStandBy(c)'
<1> DEFINE s == ActiveSignal(Other(c))
<1>1. s \in Signal
  BY DEF ActiveSignal, Signal, Other, Client
<1>2. /\ toClient'[c][s] = IF s \in sent'[c] /\ link[c] THEN toClient[c][s] + 1
                           ELSE toClient[c][s]
      /\ transitions' = transitions
  BY <1>1 DEF Posted, clients, listener
<1>3. toClient[c][s] \in Nat
  BY <1>1 DEF FailoverTypeOK
<1> HIDE DEF s
<1>4. toClient[c][s] > 0 \/ (s \in sent'[c] /\ link[c]) => toClient'[c][s] > 0
  BY <1>2, <1>3
<1> QED
  BY <1>2, <1>4 DEF ToStandBy, s

(* Of the server's steps, one that takes no signal ... *)
LEMMA HeardPosted ==
    ASSUME FailoverTypeOK, TypeOK', SpeakerIsHeard, Posted,
           UNCHANGED <<toServer, early>>,
           \A c \in Client :
               link[c] /\ activeClientId = c /\ clientOnlineState[c]
                   => activeClientId' = c /\ clientOnlineState'[c]
    PROVE  SpeakerIsHeard'
<1>1. UNCHANGED <<link, standbyDone, speaking, scheduled>>
  BY DEF Posted, clients, listener, connections
<1>2. ASSUME NEW c \in Client, link[c], NEW conn, Heard(c, conn) PROVE Heard(c, conn)'
  <2>1. ToStandBy(c) => ToStandBy(c)'
    BY PostedKeeps
  <2> QED
    BY <1>1, <1>2, <2>1 DEF Heard
<1> QED
  BY <1>1, <1>2 DEF SpeakerIsHeard

(* ... and one that does. *)
LEMMA HeardReceives ==
    ASSUME FailoverTypeOK, TypeOK', SpeakerIsHeard, NEW c \in Client, ServerReceives(c)
    PROVE  SpeakerIsHeard'
<1>1. PICK conn \in toServer[c] : /\ Taken(c, conn)
                                  /\ ProcessConnectionSignal(c, conn[1], conn[2])
                                  /\ Posted
  BY DEF ServerReceives
<1>2. RecordTunnelConnection(c, conn[1], {conn[2]}) /\ UNCHANGED clientOnlineState
  BY <1>1 DEF ProcessConnectionSignal
<1>3. activeClientId' = c
  BY <1>2 DEF RecordTunnelConnection, SwitchActiveClient
<1>4. activeClientId = Other(c) /\ clientOnlineState[Other(c)]
          => ActiveSignal(c) \in sent'[Other(c)]
  <2> SUFFICES ASSUME activeClientId = Other(c), clientOnlineState[Other(c)]
               PROVE  ActiveSignal(c) \in sent'[Other(c)]
    OBVIOUS
  <2>1. Other(c) \in Client /\ Other(c) # c /\ Other(c) # None
    BY DEF Other, Client, None
  <2>2. sent' = SwitchSignals(c, clientOnlineState)
    BY <1>2, <2>1 DEF RecordTunnelConnection, SwitchActiveClient
  <2> QED
    BY <2>1, <2>2 DEF SwitchSignals, NotifyTo
<1>5. UNCHANGED <<link, standbyDone, speaking, scheduled>>
  BY <1>1 DEF Posted, clients, listener, connections
<1>6. /\ Other(c) \in Client /\ Other(Other(c)) = c
      /\ \A d \in Client : d = c \/ d = Other(c)
  BY DEF Other, Client
<1>7. /\ toServer'[c] = toServer[c] \ {conn}
      /\ toServer'[Other(c)] = toServer[Other(c)]
      /\ early'[c] = IF clientOnlineState[c] THEN early[c] ELSE early[c] \cup {conn}
      /\ early'[Other(c)] = early[Other(c)]
  BY <1>1, <1>6 DEF Taken, FailoverTypeOK, Other
<1>8. ASSUME link[c], ~standbyDone[c], NEW k \in speaking[c] \ early'[c]
      PROVE  Heard(c, k)'
  <2>1. k \in speaking[c] \ early[c]
    BY <1>7, <1>8
  <2>2. Heard(c, k)
    BY <1>8, <2>1 DEF SpeakerIsHeard
  <2>3. CASE k = conn
    <3>1. clientOnlineState[c]
      BY <1>7, <1>8, <2>3
    <3> QED
      BY <1>2, <1>3, <3>1 DEF Heard
  <2>4. CASE k # conn /\ k \in scheduled[c] \cup toServer[c]
    BY <1>5, <1>7, <2>4 DEF Heard
  <2>5. CASE activeClientId = c /\ clientOnlineState[c]
    BY <1>2, <1>3, <2>5 DEF Heard
  <2>6. CASE ToStandBy(c)
    BY <1>1, <2>6, PostedKeeps DEF Heard
  <2> QED
    BY <2>2, <2>3, <2>4, <2>5, <2>6 DEF Heard
<1>9. ASSUME link[Other(c)], ~standbyDone[Other(c)],
             NEW k \in speaking[Other(c)] \ early[Other(c)]
      PROVE  Heard(Other(c), k)'
  <2>1. Heard(Other(c), k)
    BY <1>6, <1>9 DEF SpeakerIsHeard
  <2>2. CASE activeClientId = Other(c) /\ clientOnlineState[Other(c)]
    BY <1>1, <1>4, <1>6, <1>9, <2>2, PostedKeeps DEF Heard
  <2>3. CASE k \in scheduled[Other(c)] \cup toServer[Other(c)]
    BY <1>5, <1>7, <2>3 DEF Heard
  <2>4. CASE ToStandBy(Other(c))
    BY <1>1, <1>6, <2>4, PostedKeeps DEF Heard
  <2> QED
    BY <2>1, <2>2, <2>3, <2>4 DEF Heard
<1>10. ASSUME NEW d \in Client, link'[d], ~standbyDone'[d],
              NEW k \in speaking'[d] \ early'[d]
       PROVE  Heard(d, k)'
  BY <1>5, <1>6, <1>7, <1>8, <1>9, <1>10
<1> QED
  BY <1>10 DEF SpeakerIsHeard

LEMMA HeardDropped ==
    ASSUME FailoverTypeOK, OnlineHasEndpoint, SpeakerIsHeard,
           NEW c \in Client, SignalDropped(c)
    PROVE  SpeakerIsHeard'
<1>1. PICK conn \in toServer[c] : Taken(c, conn)
  BY DEF SignalDropped
<1>2. /\ ~clientOnlineState[c]
      /\ UNCHANGED <<activeClientId, clientOnlineState, link, toClient, transitions,
                     standbyDone, speaking, scheduled>>
  BY DEF SignalDropped, OnlineHasEndpoint, vars, clients, listener, connections
<1>3. /\ toServer'[c] = toServer[c] \ {conn} /\ early'[c] = early[c] \cup {conn}
      /\ \A d \in Client \ {c} : toServer'[d] = toServer[d] /\ early'[d] = early[d]
  BY <1>1, <1>2 DEF Taken, FailoverTypeOK
<1>4. ASSUME NEW d \in Client, link[d], ~standbyDone[d],
             NEW k \in speaking[d] \ early'[d]
      PROVE  Heard(d, k)'
  <2>1. k \in speaking[d] \ early[d] /\ (d = c => k # conn)
    BY <1>3, <1>4
  <2>2. Heard(d, k)
    BY <1>4, <2>1 DEF SpeakerIsHeard
  <2>3. ToStandBy(d) => ToStandBy(d)'
    BY <1>2 DEF ToStandBy
  <2> QED
    BY <1>2, <1>3, <2>1, <2>2, <2>3 DEF Heard
<1> QED
  BY <1>2, <1>4 DEF SpeakerIsHeard

LEMMA HeardNotices ==
    ASSUME FailoverTypeOK, TypeOK', NewsInv, SpeakerIsHeard,
           NEW c \in Client, ServerNotices(c)
    PROVE  SpeakerIsHeard'
<1> DEFINE status == Head(serverNews[c])
<1>1. /\ Posted /\ UNCHANGED <<toServer, early>>
      /\ SetRemoteOnline(c, status = "online")
      /\ serverNews[c] # <<>>
  BY DEF ServerNotices, HandleClientStatusChange
<1>2. status = "online" \/ ~link[c]
  <2>1. /\ serverNews[c] \in Seq(Status)
        /\ link[c] \in BOOLEAN /\ clientOnlineState[c] \in BOOLEAN
    BY DEF FailoverTypeOK, TypeOK
  <2>2. Agree(link[c], clientOnlineState[c], serverNews[c])
    BY DEF NewsInv
  <2>3. status \in Status /\ (status = "offline" => ~link[c])
    BY <1>1, <2>1, <2>2, AgreeHandled
  <2> QED
    BY <2>3 DEF Status
<1> HIDE DEF status
<1>3. /\ clientOnlineState' = [clientOnlineState EXCEPT ![c] = (status = "online")]
      /\ status = "online" \/ activeClientId # c => activeClientId' = activeClientId
  BY <1>1 DEF SetRemoteOnline
<1>4. ASSUME NEW d \in Client, link[d], activeClientId = d, clientOnlineState[d]
      PROVE  activeClientId' = d /\ clientOnlineState'[d]
  BY <1>2, <1>3, <1>4 DEF FailoverTypeOK, TypeOK
<1> QED
  BY <1>1, <1>4, HeardPosted

LEMMA HeardClientReceives ==
    ASSUME FailoverTypeOK, OfflineIsQuiet, SpeakerIsHeard, NEW c \in Client,
           ClientReceives(c)
    PROVE  SpeakerIsHeard'
<1>1. PICK s \in Signal :
        /\ toClient' = [toClient EXCEPT ![c][s] = @ - 1]
        /\ transitions' = [transitions EXCEPT ![c] =
               IF serverOnline[c] /\ s = ActiveSignal(Other(c)) /\ ~standbyDone[c]
                 THEN @ + 1 ELSE @]
        /\ \E killed : speaking' = [speaking EXCEPT ![c] = @ \ killed]
  BY DEF ClientReceives
<1>2. /\ transitions[c] \in Nat
      /\ UNCHANGED <<vars, link, toServer, standbyDone, scheduled, early>>
  BY DEF ClientReceives, FailoverTypeOK, history
<1>3. /\ speaking'[c] \subseteq speaking[c]
      /\ \A d \in Client \ {c} : /\ speaking'[d] = speaking[d]
                                 /\ toClient'[d] = toClient[d]
                                 /\ transitions'[d] = transitions[d]
  BY <1>1 DEF FailoverTypeOK
<1>4. ASSUME serverOnline[c], ~standbyDone[c], ToStandBy(c) PROVE ToStandBy(c)'
  <2>1. CASE s = ActiveSignal(Other(c))
    <3>1. transitions'[c] = transitions[c] + 1
      BY <1>1, <1>4, <2>1 DEF FailoverTypeOK
    <3> QED
      BY <1>2, <3>1 DEF ToStandBy
  <2>2. CASE s # ActiveSignal(Other(c))
    <3>1. transitions'[c] = transitions[c]
      BY <1>1, <2>2 DEF FailoverTypeOK
    <3>2. toClient'[c][ActiveSignal(Other(c))] = toClient[c][ActiveSignal(Other(c))]
      BY <1>1, <2>2 DEF FailoverTypeOK
    <3> QED
      BY <1>4, <3>1, <3>2 DEF ToStandBy
  <2> QED
    BY <2>1, <2>2
<1>5. ASSUME NEW d \in Client, link[d], ~standbyDone[d],
             NEW conn \in speaking'[d] \ early[d]
      PROVE  Heard(d, conn)'
  <2>1. conn \in speaking[d] \ early[d] /\ serverOnline[d]
    BY <1>3, <1>5 DEF OfflineIsQuiet
  <2>2. Heard(d, conn)
    BY <1>5, <2>1 DEF SpeakerIsHeard
  <2>3. ToStandBy(d) => ToStandBy(d)'
    BY <1>3, <1>4, <1>5, <2>1 DEF ToStandBy
  <2> QED
    BY <1>2, <2>2, <2>3 DEF Heard, vars
<1> QED
  BY <1>2, <1>5 DEF SpeakerIsHeard

LEMMA HeardStep ==
    FailoverTypeOK /\ FailoverTypeOK' /\ NewsInv /\ PortInv /\ OnlineHasEndpoint
        /\ SpeakerIsHeard /\ [FailoverNext]_failoverVars
            => SpeakerIsHeard'
<1> SUFFICES ASSUME FailoverTypeOK, FailoverTypeOK', NewsInv, PortInv,
                    OnlineHasEndpoint, SpeakerIsHeard, [FailoverNext]_failoverVars
             PROVE  SpeakerIsHeard'
  OBVIOUS
<1>a. TypeOK' /\ OfflineIsQuiet
  BY DEF FailoverTypeOK, PortInv
<1>b. /\ link \in [Client -> BOOLEAN] /\ standbyDone \in [Client -> BOOLEAN]
      /\ speaking \in [Client -> SUBSET Connection]
      /\ scheduled \in [Client -> SUBSET Connection]
      /\ toServer \in [Client -> SUBSET Connection]
      /\ transitions \in [Client -> Nat]
      /\ DOMAIN toClient = Client
  BY DEF FailoverTypeOK
(* A step that takes no traffic on and keeps what speaks for it *)
<1>c. ASSUME UNCHANGED <<activeClientId, clientOnlineState, toClient, standbyDone, early>>,
             \A d \in Client : link'[d] /\ ~standbyDone[d] /\ speaking'[d] # {} =>
                 /\ link[d] /\ speaking'[d] \subseteq speaking[d]
                 /\ scheduled[d] \cup toServer[d] \subseteq scheduled'[d] \cup toServer'[d]
                 /\ transitions'[d] = transitions[d]
      PROVE  SpeakerIsHeard'
  <2>1. ASSUME NEW d \in Client, link'[d], ~standbyDone[d],
               NEW conn \in speaking'[d] \ early[d]
        PROVE  Heard(d, conn)'
    <3>1. /\ link[d] /\ conn \in speaking[d] \ early[d]
          /\ scheduled[d] \cup toServer[d] \subseteq scheduled'[d] \cup toServer'[d]
          /\ transitions'[d] = transitions[d]
      BY <1>c, <2>1
    <3>2. Heard(d, conn)
      BY <2>1, <3>1 DEF SpeakerIsHeard
    <3> QED
      BY <1>c, <3>1, <3>2 DEF Heard, ToStandBy
  <2> QED
    BY <1>c, <2>1 DEF SpeakerIsHeard
<1>1. ASSUME NEW c \in Client, ServerNotices(c) PROVE SpeakerIsHeard'
  BY <1>1, <1>a, HeardNotices
<1>2. CASE ServerStopped
  <2>1. /\ Posted /\ UNCHANGED <<toServer, early>>
        /\ UNCHANGED <<activeClientId, clientOnlineState>>
    BY <1>2 DEF ServerStopped, TunnelsStopped
  <2> QED
    BY <1>a, <2>1, HeardPosted
<1>3. ASSUME NEW c \in Client, ServerReceives(c) \/ SignalDropped(c)
      PROVE  SpeakerIsHeard'
  BY <1>3, <1>a, HeardReceives, HeardDropped
<1>4. ASSUME NEW c \in Client, ClientOnline(c) \/ WaitEnds(c) PROVE SpeakerIsHeard'
  BY <1>4, <1>c DEF ClientOnline, WaitEnds, vars, network, connections, history
<1>5. ASSUME NEW c \in Client, ClientOffline(c) PROVE SpeakerIsHeard'
  <2>1. /\ standbyDone'[c]
        /\ \A d \in Client \ {c} : /\ standbyDone'[d] = standbyDone[d]
                                   /\ speaking'[d] = speaking[d]
        /\ UNCHANGED <<activeClientId, clientOnlineState, link, toServer, toClient,
                       transitions, scheduled, early>>
    BY <1>5, <1>b DEF ClientOffline, StopListening, vars, history
  <2>2. ASSUME NEW d \in Client, link[d], ~standbyDone'[d],
               NEW conn \in speaking'[d] \ early[d]
        PROVE  Heard(d, conn)'
    <3>1. Heard(d, conn)
      BY <2>1, <2>2 DEF SpeakerIsHeard
    <3> QED
      BY <2>1, <3>1 DEF Heard, ToStandBy
  <2> QED
    BY <2>1, <2>2 DEF SpeakerIsHeard
<1>6. ASSUME NEW c \in Client, ClientReceives(c) PROVE SpeakerIsHeard'
  BY <1>6, <1>a, HeardClientReceives
<1>7. ASSUME NEW c \in Client, StandbyTransition(c) PROVE SpeakerIsHeard'
  <2>1. /\ speaking'[c] = {}
        /\ \A d \in Client \ {c} : /\ transitions'[d] = transitions[d]
                                   /\ speaking'[d] = speaking[d]
        /\ UNCHANGED <<activeClientId, clientOnlineState, link, standbyDone, toServer,
                       toClient, scheduled, early>>
    BY <1>7, <1>b DEF StandbyTransition, StopListening, vars, network, history
  <2> QED
    BY <1>c, <2>1
<1>8. ASSUME NEW c \in Client, NEW conn \in Connection, SendConnectionSignal(c, conn)
      PROVE  SpeakerIsHeard'
  <2>1. /\ scheduled'[c] = scheduled[c] \ {conn}
        /\ link[c] => toServer'[c] = toServer[c] \cup {conn}
        /\ \A d \in Client \ {c} : /\ toServer'[d] = toServer[d]
                                   /\ scheduled'[d] = scheduled[d]
        /\ UNCHANGED <<activeClientId, clientOnlineState, link, standbyDone, toClient,
                       transitions, speaking, early>>
    BY <1>8, <1>b DEF SendConnectionSignal, vars, listener, history
  <2> QED
    BY <1>c, <2>1
<1>9. ASSUME NEW c \in Client, LinkUp(c) PROVE SpeakerIsHeard'
  <2>1. /\ ~serverOnline[c]
        /\ \A d \in Client \ {c} : link'[d] = link[d]
        /\ UNCHANGED <<activeClientId, clientOnlineState, toServer, toClient, transitions,
                       standbyDone, speaking, scheduled, early>>
    BY <1>9, <1>b DEF LinkUp, vars, clients, listener, connections, history
  <2>2. speaking[c] = {}
    BY <1>a, <2>1 DEF OfflineIsQuiet
  <2> QED
    BY <1>c, <2>1, <2>2
<1>10. ASSUME NEW c \in Client, LinkLost(c) PROVE SpeakerIsHeard'
  <2>1. /\ ~link'[c]
        /\ \A d \in Client \ {c} : /\ link'[d] = link[d]
                                   /\ toServer'[d] = toServer[d]
                                   /\ toClient'[d] = toClient[d]
        /\ UNCHANGED <<activeClientId, clientOnlineState, transitions, standbyDone,
                       speaking, scheduled, early>>
    BY <1>10, <1>b DEF LinkLost, vars, clients, listener, connections, history
  <2>2. ASSUME NEW d \in Client, link'[d], ~standbyDone[d],
               NEW conn \in speaking[d] \ early[d]
        PROVE  Heard(d, conn)'
    <3>1. d # c /\ Heard(d, conn)
      BY <2>1, <2>2 DEF SpeakerIsHeard
    <3> QED
      BY <2>1, <3>1 DEF Heard, ToStandBy
  <2> QED
    BY <2>1, <2>2 DEF SpeakerIsHeard
<1>11. ASSUME NEW c \in Client, NEW t \in Tunnel, Accept(c, t) PROVE SpeakerIsHeard'
  BY <1>11, <1>c DEF Accept, vars, network, listener, history
<1>12. ASSUME NEW c \in Client, NEW conn \in Connection, ConnectionEnds(c, conn)
       PROVE  SpeakerIsHeard'
  BY <1>12, <1>b, <1>c DEF ConnectionEnds, vars, network, listener, history
<1>13. ASSUME NEW c \in Client, NEW conn \in Connection, FirstDataReceived(c, conn)
       PROVE  SpeakerIsHeard'
  <2>1. /\ conn \in open[c]
        /\ speaking'[c] = speaking[c] \cup {conn}
        /\ scheduled'[c] = IF serverOnline[c] THEN scheduled[c] \cup {conn}
                           ELSE scheduled[c]
        /\ \A d \in Client \ {c} : /\ speaking'[d] = speaking[d]
                                   /\ scheduled'[d] = scheduled[d]
        /\ UNCHANGED <<activeClientId, clientOnlineState, link, standbyDone, toServer,
                       toClient, transitions, early>>
    BY <1>13, <1>b DEF FirstDataReceived, vars, network, listener
  <2>2. serverOnline[c]
    BY <1>a, <2>1 DEF OfflineIsQuiet
  <2>3. ASSUME NEW d \in Client, link[d], ~standbyDone[d],
               NEW k \in speaking'[d] \ early[d]
        PROVE  Heard(d, k)'
    <3>1. CASE d = c /\ k = conn
      BY <2>1, <2>2, <3>1 DEF Heard
    <3>2. CASE ~(d = c /\ k = conn)
      <4>1. k \in speaking[d] \ early[d]
        BY <2>1, <2>3, <3>2
      <4>2. Heard(d, k)
        BY <2>3, <4>1 DEF SpeakerIsHeard
      <4>3. scheduled[d] \subseteq scheduled'[d]
        BY <2>1
      <4> QED
        BY <2>1, <4>2, <4>3 DEF Heard, ToStandBy
    <3> QED
      BY <3>1, <3>2
  <2> QED
    BY <2>1, <2>3 DEF SpeakerIsHeard
<1>14. CASE UNCHANGED failoverVars
  BY <1>c, <1>14 DEF failoverVars, vars, network, clients, listener, connections, history
<1>15. CASE \E c \in Client : ClientStep(c) \/ Environment(c)
  BY <1>4, <1>5, <1>6, <1>7, <1>8, <1>9, <1>10, <1>11, <1>12, <1>13, <1>15
  DEF ClientStep, Environment
<1> QED
  BY <1>1, <1>2, <1>3, <1>14, <1>15 DEF FailoverNext, ServerStep

(* Once all signals have been worked off, a connection that has sent data   *)
(* is on the active client, for any number of connections, of failovers     *)
(* that cross and of lost links, of clients that have not been offline      *)
(* (_onFirstDataReceived, _switchActiveClient, _handleStandbyTransition),   *)
(* whichever signals of other connections the server drops or processes     *)
(* before it knows their client.                                            *)
THEOREM TrafficEndsUpOnActive == FailoverSpec => []TrafficIsOnActive
<1>1. FailoverInit => SpeakerIsHeard
  BY DEF FailoverInit, SpeakerIsHeard
<1>2. ASSUME FailoverTypeOK, NewsInv, PortInv, SpeakerIsHeard, Settled, NEW c \in Client,
             speaking[c] \ early[c] # {}, ~standbyDone[c]
      PROVE  activeClientId = c
  <2>1. PICK conn \in speaking[c] \ early[c] : TRUE
    BY <1>2
  <2>2. /\ toServer[c] = {} /\ scheduled[c] = {} /\ toClient[c] = NothingSent
        /\ transitions[c] = 0 /\ clientNews[c] = <<>>
    BY <1>2 DEF Settled
  <2>3. serverOnline[c]
    BY <1>2, <2>1 DEF PortInv, OfflineIsQuiet
  <2>4. link[c]
    <3>1. Agree(link[c], serverOnline[c], clientNews[c])
      BY <1>2 DEF NewsInv
    <3>2. <<"offline">> # <<>>
      <4>1. Len(<<"offline">>) = 1 /\ Len(<<>>) = 0
        OBVIOUS
      <4> QED
        BY <4>1
    <3> QED
      BY <2>2, <2>3, <3>1, <3>2 DEF Agree
  <2>5. ~ToStandBy(c)
    <3>1. ActiveSignal(Other(c)) \in Signal
      BY DEF ActiveSignal, Signal, Other, Client
    <3> QED
      BY <2>2, <3>1 DEF ToStandBy, NothingSent
  <2> QED
    BY <1>2, <2>1, <2>2, <2>4, <2>5 DEF SpeakerIsHeard, Heard
<1>3. FailoverTypeOK /\ NewsInv /\ PortInv /\ SpeakerIsHeard => TrafficIsOnActive
  BY <1>2 DEF TrafficIsOnActive
<1> QED
  BY <1>1, <1>3, HeardStep, FailoverTypes, NewsAlways, PortAlways, EndpointAlways, PTL
  DEF FailoverSpec
=============================================================================
