--------------------------- MODULE MC_Neighbours ---------------------------
(* Instantiates Neighbours for TLC; the constants are given in the .cfg.   *)
EXTENDS Neighbours
====
