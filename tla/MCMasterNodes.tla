----------------------------- MODULE MCMasterNodes -----------------------------
(* Instances of MasterNodes: session s1 has node m, whose name is counted and begins with that
   of session sn, and s10 has node n, whose name, as that of s10, begins with that of s1; the
   name of session no is the beginning of "nodes".  One key can be made by both s1 and s10. *)
EXTENDS MasterNodes

CONSTANTS s1, s10, sn, no, m, n, p1, p2, p3, k1, l1, other, both

MCNamedFrom == [s \in Session |-> CASE s = sn -> {m} [] s = no -> {} [] OTHER -> {n}]
MCOf == [x \in Node |-> IF x = n THEN s10 ELSE s1]
MCKeysOf == [s \in Session |-> CASE s \in {s1, s10} -> {both} [] s = sn -> {other} [] OTHER -> {}]
MCNodeOf == [p \in Process |-> IF p = p3 THEN m ELSE n]
=============================================================================
