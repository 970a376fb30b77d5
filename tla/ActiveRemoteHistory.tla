------------------------ MODULE ActiveRemoteHistory ------------------------
(***************************************************************************)
(* ActiveRemote with two history variables, for the properties that relate *)
(* the server's state to what its clients have been told and have told it. *)
(* The history never restricts a step.                                     *)
(***************************************************************************)
EXTENDS ActiveRemote

VARIABLES
    told,     \* per client, the client the last active signal it was sent names,
              \* None if it was sent none since it came online
    reported  \* per client, the connections it has reported while active, and
              \* since it last became so, except those removed

historyVars == <<told, reported>>
allVars == <<vars, historyVars>>

HistoryInit ==
    /\ Init
    /\ told = [c \in Client |-> None]
    /\ reported = [c \in Client |-> {}]

ActiveSignalled(c) == {d \in Client : ActiveSignal(d) \in sent'[c]}

Remember ==
    told' = [c \in Client |->
                IF ~clientOnlineState'[c] THEN None
                ELSE IF ActiveSignalled(c) = {} THEN told[c]
                ELSE CHOOSE d \in ActiveSignalled(c) : TRUE]

Demoted(c) == activeClientId = c /\ activeClientId' # c
Promoted(c) == activeClientId # c /\ activeClientId' = c

(* conns are the connections c reports in this step, gone those removed.    *)
RememberReports(c, conns, gone) ==
    reported' = [d \in Client |->
                    IF Demoted(d) \/ Promoted(d) \/ ~clientOnlineState'[d] THEN {}
                    ELSE IF d = c THEN (reported[d] \cup conns) \ gone
                    ELSE reported[d]]

HistoryNext ==
    \/ \E c \in Client, t \in Tunnel, k \in ConnectionId :
          /\ ProcessConnectionSignal(c, t, k)
          /\ Remember
          /\ RememberReports(c, {<<t, k>>}, {})
    \/ /\ \/ \E c \in Client, nowOnline \in BOOLEAN : HandleClientStatusChange(c, nowOnline)
          \/ TunnelsStopped
          \/ Tick
       /\ Remember
       /\ RememberReports(None, {}, {})

HistoryApiNext ==
    \/ HistoryNext
    \/ /\ \/ \E c \in Client : TriggerFailover(c)
          \/ \E c \in Client, t \in Tunnel : RecordWithoutId(c, t)
       /\ Remember
       /\ RememberReports(None, {}, {})
    \/ \E c \in Client, t \in Tunnel :
          /\ RemoveTunnel(c, t)
          /\ Remember
          /\ RememberReports(c, {}, {t} \X ConnectionId)
    \/ \E c \in Client, t \in Tunnel, k \in ConnectionId :
          /\ RemoveTunnelConnection(c, t, k)
          /\ Remember
          /\ RememberReports(c, {}, {<<t, k>>})

HistoryApiSpec == HistoryInit /\ [][HistoryApiNext]_allVars

-----------------------------------------------------------------------------
(* An online client was never left with the news of an earlier failover:    *)
(* the last active signal sent to it names the client that is active now.   *)
(* So no two clients are told that they are active.                         *)
NoStaleAnnouncement ==
    \A c \in Client :
        clientOnlineState[c] => told[c] \in {None, activeClientId}

(* A client that stays online when another is made active in its place is   *)
(* sent a kill signal for every connection it reported while it was active, *)
(* whichever tunnels and other connections it had (_switchActiveClient:     *)
(* "Switch the active client and kill tunnels on the old active client").   *)
(* The connection that made it active is not among them: Failover.          *)
ReportedAreKilled ==
    [][\A c \in Client :
          Demoted(c) /\ clientOnlineState'[c] =>
              {KillSignal(conn) : conn \in reported[c]} \subseteq sent'[c]]_allVars
=============================================================================
