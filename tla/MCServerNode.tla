---------------------------- MODULE MCServerNode ----------------------------
(* ServerNode for TLC.  Two listen tunnels: a stop can be met half way.     *)
(* Clients come online four times: both, and both again.  Three signals:    *)
(* a failover, one during its coordination and one after it.                *)
EXTENDS ServerNode

MCN == 2
MCMaxOnline == 4
MCMaxSignals == 3
=============================================================================
