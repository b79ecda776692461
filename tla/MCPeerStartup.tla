----------------------------- MODULE MCPeerStartup -----------------------------
(* A node and a client start while a function is called by name, on the global     *)
(* scope and on the client's own.                                                 *)
EXTENDS PeerStartup, TLC
CONSTANTS n1, c1, k1, k2
const_Node == {n1}
const_Client == {c1}
const_Call == {k1, k2}
const_To == k1 :> None @@ k2 :> c1
================================================================================
