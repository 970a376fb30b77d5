--------------------- MODULE ActiveRemoteHistoryProofs ---------------------
(***************************************************************************)
(* Theorems about what the server has told its clients and what they have  *)
(* told it, for any tunnels, connection ids and cooldown.                  *)
(***************************************************************************)
EXTENDS ActiveRemoteHistory, ActiveRemoteProofs

(* The history only looks on: every step is one of the controller's.        *)
LEMMA HistoryStep == [HistoryApiNext]_allVars => [ApiNext]_vars
BY DEF HistoryApiNext, HistoryNext, ApiNext, Next, allVars, historyVars

LEMMA HistoryIsController == HistoryApiSpec => ApiSpec
<1>1. HistoryInit => Init
  BY DEF HistoryInit
<1> QED
  BY <1>1, HistoryStep, PTL DEF HistoryApiSpec, ApiSpec

(* The two facts every step of the history has in common.                   *)
LEMMA HistoryRemembers ==
    ASSUME HistoryApiNext
    PROVE  ApiNext /\ Remember
BY DEF HistoryApiNext, HistoryNext, ApiNext, Next

-----------------------------------------------------------------------------
(* No announcement is stale *)

(* An offline client has been told nothing: with it, a client that comes    *)
(* online cannot bring along an announcement of an earlier time.            *)
ToldInv ==
    \A c \in Client :
        IF clientOnlineState[c] THEN told[c] \in {None, activeClientId} ELSE told[c] = None

(* The active signals of a switch name the new active client, and every     *)
(* online client is sent one.                                               *)
LEMMA SwitchAnnounces ==
    ASSUME NEW new \in Client, NEW online, NEW tunnels, NEW connections,
           SwitchActiveClient(new, online, tunnels, connections),
           NEW c \in Client, online[c]
    PROVE  ActiveSignalled(c) = {new}
<1>1. sent'[c] = {ActiveSignal(new)} \cup IF c = activeClientId /\ c # new
                                            THEN KillClientTunnels(c, online) ELSE {}
  BY DEF SwitchActiveClient, SwitchSignals, NotifyTo
<1>2. \A d \in Client : ActiveSignal(d) \notin KillClientTunnels(c, online)
  <2>1. \A s \in KillClientTunnels(c, online) : s.type = "kill"
    BY DEF KillClientTunnels, KillSignal
  <2>2. \A d \in Client : ActiveSignal(d).type = "active"
    BY DEF ActiveSignal
  <2> QED
    BY <2>1, <2>2
<1>3. \A d \in Client : ActiveSignal(d) = ActiveSignal(new) => d = new
  <2>1. \A d \in Client : ActiveSignal(d).client = d
    BY DEF ActiveSignal
  <2> QED
    BY <2>1
<1> QED
  BY <1>1, <1>2, <1>3 DEF ActiveSignalled

LEMMA ToldStep == TypeOK /\ ToldInv /\ [HistoryApiNext]_allVars => ToldInv'
<1> SUFFICES ASSUME TypeOK, ToldInv, [HistoryApiNext]_allVars PROVE ToldInv'
  OBVIOUS
<1>1. CASE UNCHANGED allVars
  BY <1>1 DEF allVars, historyVars, vars, ToldInv
<1>2. CASE HistoryApiNext
  <2>1. ApiNext /\ Remember
    BY <1>2, HistoryRemembers
  <2>2. ASSUME NEW c \in Client, ~clientOnlineState'[c] PROVE told'[c] = None
    BY <2>1, <2>2 DEF Remember
  <2>3. ASSUME NEW c \in Client, clientOnlineState'[c]
        PROVE  told'[c] \in {None, activeClientId'}
    <3>1. CASE SwitchStep
      <4>1. PICK new \in Client : \E tunnels, connections :
                SwitchActiveClient(new, clientOnlineState', tunnels, connections)
        BY <3>1 DEF SwitchStep
      <4>2. ActiveSignalled(c) = {new} /\ activeClientId' = new
        BY <2>3, <4>1, SwitchAnnounces DEF SwitchActiveClient
      <4>3. told'[c] = CHOOSE d \in ActiveSignalled(c) : TRUE
        BY <2>1, <2>3, <4>2 DEF Remember
      <4> QED
        BY <4>2, <4>3
    <3>2. CASE QuietStep
      <4>1. ActiveSignalled(c) = {}
        BY <3>2 DEF QuietStep, NoSignals, ActiveSignalled
      <4>2. told'[c] = told[c] /\ activeClientId' = activeClientId
        BY <2>1, <2>3, <3>2, <4>1 DEF Remember, QuietStep
      <4> QED
        BY <4>2 DEF ToldInv
    <3> QED
      BY <2>1, <3>1, <3>2, EveryStep
  <2> QED
    BY <2>2, <2>3 DEF ToldInv
<1> QED
  BY <1>1, <1>2

(* Whatever clients come, go and report, an online client was never left    *)
(* with the news of an earlier failover: no two of them believe that they   *)
(* are active once they have read what they were sent.                      *)
THEOREM AnnouncementsAreCurrent == HistoryApiSpec => []NoStaleAnnouncement
<1>1. HistoryInit => ToldInv
  BY DEF HistoryInit, Init, ToldInv
<1>2. ToldInv => NoStaleAnnouncement
  BY DEF ToldInv, NoStaleAnnouncement
<1>3. HistoryApiSpec => []ToldInv
  BY <1>1, ToldStep, HistoryIsController, TypeCorrect, PTL DEF HistoryApiSpec
<1> QED
  BY <1>2, <1>3, PTL

-----------------------------------------------------------------------------
(* What a client reports while active is killed when it is demoted *)

(* The active client's reports are all tracked. *)
ReportedInv == \A c \in Client : activeClientId = c => reported[c] \subseteq activeConnections[c]

(* A connection is recorded with those there were, unless that makes its    *)
(* client active.                                                           *)
LEMMA RecordKeeps ==
    ASSUME TypeOK, NEW c \in Client, NEW t \in Tunnel, NEW ids \in SUBSET ConnectionId,
           RecordTunnelConnection(c, t, ids),
           NEW d \in Client, activeClientId = d, activeClientId' = d
    PROVE  /\ activeConnections[d] \subseteq activeConnections'[d]
           /\ c = d => {t} \X ids \subseteq activeConnections'[d]
<1>1. CASE ids # {} /\ activeClientId # c
  BY <1>1 DEF RecordTunnelConnection, SwitchActiveClient
<1>2. CASE ~(ids # {} /\ activeClientId # c)
  <2>1. activeConnections' = [activeConnections EXCEPT ![c] = @ \cup ({t} \X ids)]
    BY <1>2 DEF RecordTunnelConnection, Client, None
  <2> QED
    BY <2>1 DEF TypeOK
<1> QED
  BY <1>1, <1>2

(* Reports of d that remain are those it had, without gone, and the new.    *)
LEMMA RemembersReports ==
    ASSUME NEW c \in Client \cup {None}, NEW conns, NEW gone, RememberReports(c, conns, gone),
           NEW d \in Client
    PROVE  /\ activeClientId' = d => \/ reported'[d] = {}
                                     \/ activeClientId = d
           /\ reported'[d] \subseteq IF d = c THEN (reported[d] \cup conns) \ gone
                                              ELSE reported[d]
BY DEF RememberReports, Promoted

LEMMA ReportedStep == TypeOK /\ ReportedInv /\ [HistoryApiNext]_allVars => ReportedInv'
<1> SUFFICES ASSUME TypeOK, ReportedInv, [HistoryApiNext]_allVars,
                    NEW d \in Client, activeClientId' = d, reported'[d] # {}
             PROVE  reported'[d] \subseteq activeConnections'[d]
  BY DEF ReportedInv
<1>1. CASE UNCHANGED allVars
  BY <1>1 DEF allVars, historyVars, vars, tracking, ReportedInv
<1>2. ASSUME NEW c \in Client, NEW t \in Tunnel, NEW k \in ConnectionId,
             ProcessConnectionSignal(c, t, k), RememberReports(c, {<<t, k>>}, {})
      PROVE  reported'[d] \subseteq activeConnections'[d]
  <2>1. /\ activeClientId = d
        /\ reported'[d] \subseteq IF d = c THEN reported[d] \cup {<<t, k>>} ELSE reported[d]
    BY <1>2, RemembersReports
  <2>2. /\ activeConnections[d] \subseteq activeConnections'[d]
        /\ c = d => {t} \X {k} \subseteq activeConnections'[d]
    BY <1>2, <2>1, RecordKeeps DEF ProcessConnectionSignal
  <2>3. reported[d] \subseteq activeConnections[d]
    BY <2>1 DEF ReportedInv
  <2> QED
    BY <2>1, <2>2, <2>3
<1>3. ASSUME RememberReports(None, {}, {}),
             activeClientId = d => activeConnections[d] \subseteq activeConnections'[d]
      PROVE  reported'[d] \subseteq activeConnections'[d]
  BY <1>3, RemembersReports DEF ReportedInv
<1>4. ASSUME NEW c \in Client, NEW nowOnline \in BOOLEAN, activeClientId = d,
             HandleClientStatusChange(c, nowOnline)
      PROVE  activeConnections' = activeConnections
  BY <1>4 DEF HandleClientStatusChange, SetRemoteOnline, SwitchActiveClient, tracking, Other
<1>5. ASSUME TunnelsStopped \/ Tick
      PROVE  activeConnections' = activeConnections
  BY <1>5 DEF TunnelsStopped, Tick, tracking
<1>6. ASSUME NEW c \in Client, TriggerFailover(c), activeClientId = d
      PROVE  activeConnections' = activeConnections
  BY <1>6 DEF TriggerFailover, SwitchActiveClient
<1>7. ASSUME NEW c \in Client, NEW t \in Tunnel, RecordWithoutId(c, t), activeClientId = d
      PROVE  activeConnections[d] \subseteq activeConnections'[d]
  BY <1>7, RecordKeeps DEF RecordWithoutId
<1>8. ASSUME NEW c \in Client, NEW t \in Tunnel,
             RemoveTunnel(c, t), RememberReports(c, {}, {t} \X ConnectionId)
      PROVE  reported'[d] \subseteq activeConnections'[d]
  <2>1. /\ activeClientId = d
        /\ reported'[d] \subseteq IF d = c THEN reported[d] \ ({t} \X ConnectionId)
                                           ELSE reported[d]
        /\ reported[d] \subseteq activeConnections[d]
    BY <1>8, RemembersReports DEF ReportedInv
  <2>2. activeConnections' = [activeConnections EXCEPT ![c] = {conn \in @ : conn[1] # t}]
    BY <1>8 DEF RemoveTunnel
  <2>3. \A conn \in activeConnections[d] :
            conn \notin {t} \X ConnectionId => conn[1] # t
    BY DEF TypeOK, Connection
  <2> QED
    BY <2>1, <2>2, <2>3 DEF TypeOK
<1>9. ASSUME NEW c \in Client, NEW t \in Tunnel, NEW k \in ConnectionId,
             RemoveTunnelConnection(c, t, k), RememberReports(c, {}, {<<t, k>>})
      PROVE  reported'[d] \subseteq activeConnections'[d]
  <2>1. /\ activeClientId = d
        /\ reported'[d] \subseteq IF d = c THEN reported[d] \ {<<t, k>>} ELSE reported[d]
        /\ reported[d] \subseteq activeConnections[d]
    BY <1>9, RemembersReports DEF ReportedInv
  <2>2. activeConnections' = [activeConnections EXCEPT ![c] = @ \ {<<t, k>>}]
    BY <1>9 DEF RemoveTunnelConnection, TypeOK
  <2> QED
    BY <2>1, <2>2 DEF TypeOK
<1> QED
  BY <1>1, <1>2, <1>3, <1>4, <1>5, <1>6, <1>7, <1>8, <1>9 DEF HistoryApiNext, HistoryNext

(* A client that is demoted while it stays online is sent a kill signal for *)
(* every connection it reported while it was active.                        *)
THEOREM DemotionKillsReported == HistoryApiSpec => ReportedAreKilled
<1>1. HistoryInit => ReportedInv
  BY DEF HistoryInit, Init, ReportedInv
<1>2. HistoryApiSpec => []ReportedInv
  BY <1>1, ReportedStep, HistoryIsController, TypeCorrect, PTL DEF HistoryApiSpec
<1>3. ASSUME TypeOK, TypeOK', ReportedInv, HistoryApiNext,
             NEW c \in Client, Demoted(c), clientOnlineState'[c]
      PROVE  {KillSignal(conn) : conn \in reported[c]} \subseteq sent'[c]
  <2>1. CASE SwitchStep
    <3>1. PICK new \in Client : \E tunnels, connections :
              SwitchActiveClient(new, clientOnlineState', tunnels, connections)
      BY <2>1 DEF SwitchStep
    <3>2. activeClientId' = new /\ new # c /\ activeClientId = c
      BY <1>3, <3>1 DEF SwitchActiveClient, Demoted
    <3>3. KillClientTunnels(c, clientOnlineState') \subseteq sent'[c]
      BY <3>1, <3>2 DEF SwitchActiveClient, SwitchSignals
    <3>4. reported[c] \subseteq activeConnections[c]
      BY <1>3, <3>2 DEF ReportedInv
    <3> QED
      BY <1>3, <3>3, <3>4 DEF KillClientTunnels
  <2>2. CASE QuietStep
    BY <1>3, <2>2 DEF QuietStep, Demoted
  <2> QED
    BY <1>3, <2>1, <2>2, EveryStep, HistoryRemembers
<1>4. TypeOK /\ TypeOK' /\ ReportedInv /\ [HistoryApiNext]_allVars
          => [\A c \in Client :
                 Demoted(c) /\ clientOnlineState'[c] =>
                     {KillSignal(conn) : conn \in reported[c]} \subseteq sent'[c]]_allVars
  BY <1>3
<1> QED
  BY <1>2, <1>4, HistoryIsController, TypeCorrect, PTL DEF HistoryApiSpec, ReportedAreKilled
=============================================================================
