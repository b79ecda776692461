----------------------------- MODULE MCConnections -----------------------------
(* One client that is sent to two nodes, and may leave once.                      *)
EXTENDS Connections, TLC
CONSTANTS n1, n2, c1, v1, v2
const_Node == {n1, n2}
const_Client == {c1}
const_Visit == {v1, v2}
const_Who == [v \in const_Visit |-> c1]
const_Loads == n1 :> {n1} @@ n2 :> {n2}
const_Started == {n2}
const_Spawn == c1 :> n1
const_At == v1 :> n1 @@ v2 :> n2
================================================================================
