--------------------------- MODULE MC_RelayTracker ---------------------------
(* Instantiates RelayTracker for TLC: the keys and the sender are model    *)
(* values declared in the .cfg; every packet carries the one sender id.    *)
EXTENDS RelayTracker

CONSTANTS m1, a1, p1, s1

MCSenderOf == [k \in MsgKeys \cup AnnKeys \cup PassKeys |-> s1]
\* Link roles per handle: acceptor links only, or handle 1 acceptor and
\* handle 2 initiator, or initiator links only.
MCAcceptors  == [h \in Handles |-> {"slave"}]
MCMixed      == [h \in Handles |-> IF h = 1 THEN {"slave"} ELSE {"master"}]
MCInitiators == [h \in Handles |-> {"master"}]
====
