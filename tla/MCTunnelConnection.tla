------------------------- MODULE MCTunnelConnection -------------------------
(* TunnelConnection for TLC.  Two chunks each way: one can be buffered and  *)
(* one follow it.  Two changes of the active client: away from a client and *)
(* back.  Two losses of a link: one client, both, or one twice.             *)
EXTENDS TunnelConnection

MCMaxData == 2
MCMaxChanges == 2
MCMaxLosses == 2
=============================================================================
