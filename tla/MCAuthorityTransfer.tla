------------------------- MODULE MCAuthorityTransfer -------------------------
(* Instances of AuthorityTransfer: container ca is owned by s1, cb by s2, cc by s3;
   cl is a client. *)
EXTENDS AuthorityClaims

CONSTANTS s1, s2, s3, cl, ca, cb, cc

MCOwnerOf == [x \in Container |-> IF x = ca THEN s1 ELSE IF x = cb THEN s2 ELSE s3]

Own(p) == {x \in Container : MCOwnerOf[x] = p}

(* Every server sees its own container only, and the client ca. *)
Apart == [p \in Peer |-> IF p = cl THEN {ca} ELSE Own(p)]

(* s2 and the client also see ca. *)
Neighbours == [p \in Peer |-> IF p \in {s2, cl} THEN {ca} \cup Own(p) ELSE Own(p)]

(* s1 also sees cb, s3 everything, s2 its own container only, the client ca. *)
Uneven == [p \in Peer |->
  CASE p = s1 -> {ca, cb} [] p = s3 -> {ca, cb, cc} [] p = cl -> {ca} [] OTHER -> Own(p)]

(* Every peer is subscribed to every container. *)
Everywhere == [p \in Peer |-> Container]
=============================================================================
