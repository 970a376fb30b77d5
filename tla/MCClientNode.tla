---------------------------- MODULE MCClientNode ----------------------------
(* ClientNode for TLC.  Two listen tunnels: a stop can be met half way.     *)
(* Two more reconnects than a standby wait needs to be overtaken, and       *)
(* signals for three overlapping waits.                                     *)
EXTENDS ClientNode

MCN == 2
MCMaxOnline == 3
MCMaxSignals == 3
=============================================================================
