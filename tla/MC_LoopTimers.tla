--------------------------- MODULE MC_LoopTimers ---------------------------
(* Instantiates LoopTimers for TLC; the constants are given in the .cfg.   *)
EXTENDS LoopTimers
====
