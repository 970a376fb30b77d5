---------------------------- MODULE ActiveClient ----------------------------
(***************************************************************************)
(* What the server promises about its two clients, without saying how it   *)
(* decides: at most one client is active, it is an online one, an active   *)
(* client is replaced at once when it goes and the other is there, and     *)
(* there is none only when both have gone or none has ever been chosen.    *)
(***************************************************************************)
EXTENDS Naturals

Client == {1, 2}
None == 0
Other(c) == IF c = 1 THEN 2 ELSE 1

VARIABLES
    active,  \* the active client, or None
    online   \* the clients that are online

vars == <<active, online>>

Init == active = None /\ online = {}

Connect(c) ==
    /\ online' = online \cup {c}
    /\ UNCHANGED active

Disconnect(c) ==
    /\ online' = online \ {c}
    /\ active' = IF active # c THEN active
                 ELSE IF Other(c) \in online THEN Other(c)
                 ELSE None

(* The server chooses an online client: new data on its tunnels, or an      *)
(* explicit failover.                                                       *)
Activate(c) ==
    /\ c \in online
    /\ active' = c
    /\ UNCHANGED online

Next == \E c \in Client : Connect(c) \/ Disconnect(c) \/ Activate(c)

Spec == Init /\ [][Next]_vars
=============================================================================
