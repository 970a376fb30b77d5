----------------------------- MODULE MCFailover -----------------------------
(* Failover for TLC.  One tunnel, two connections on client 1 and one on    *)
(* client 2: client 1 becomes active, loses the role and takes it back, or  *)
(* client 2 does what client 1 has begun to.  One loss of a link, of either *)
(* client.  No explicit failover is made, so the cooldown has no part.      *)
EXTENDS Failover

CONSTANT t1

MCTunnel == {t1}
MCConnectionId == 1..2
MCMaxConnections == <<2, 1>>
MCMaxLosses == 1
=============================================================================
