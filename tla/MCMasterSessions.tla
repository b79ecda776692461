---------------------------- MODULE MCMasterSessions ----------------------------
(* Instances of MasterSessions: one session, a parent of either kind, and a few requests. *)
EXTENDS MasterSessions

CONSTANTS world, sn, s1, c1, c2, c3, d1, d2, o1, l1

(* Two nodes get the same id, and one is numbered. *)
MCParentOf == [c \in Creation |-> IF c = c3 THEN sn ELSE world]

MCSessionOf == [r \in Request |-> s1]
=============================================================================
