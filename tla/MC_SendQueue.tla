---------------------------- MODULE MC_SendQueue ----------------------------
(* Instantiates SendQueue for TLC; the constants are given in the .cfg.    *)
EXTENDS SendQueue
====
