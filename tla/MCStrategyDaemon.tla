--------------------------- MODULE MCStrategyDaemon ---------------------------
(* Small instances of StrategyDaemon for TLC; the cfg files give the values. *)
EXTENDS StrategyDaemon
=============================================================================
