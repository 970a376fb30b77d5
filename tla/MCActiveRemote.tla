--------------------------- MODULE MCActiveRemote ---------------------------
(* ActiveRemote, with its history, for TLC.  Two tunnels and two connection *)
(* ids: a tunnel can lose one connection and keep another, or lose its last *)
(* while the other tunnel keeps one.  Two ticks of cooldown: a failover can *)
(* be too early by one, or in time.                                         *)
EXTENDS ActiveRemoteHistory

CONSTANTS t1, t2, k1, k2

MCTunnel == {t1, t2}
MCConnectionId == {k1, k2}
MCCooldown == 2
=============================================================================
