---------------------------- MODULE MCBootstrap ----------------------------
(* Two tabs migrate three connections in batches of two.                   *)
EXTENDS PanelStartup
=============================================================================
