------------------------------- MODULE MCRpcCall -------------------------------
(* Instances of RpcCall: p1 calls p2 by x and y, p2 calls p1 by z, p1 tells
   everybody by w. *)
EXTENDS RpcCall

CONSTANTS p1, p2, w, x, y, z

MCCallerOf == [c \in Call |-> IF c = z THEN p2 ELSE p1]

MCTargets == [c \in Call |->
  CASE c = z -> {p1} [] c = w -> Peer \ {p1} [] OTHER -> {p2}]
=============================================================================
