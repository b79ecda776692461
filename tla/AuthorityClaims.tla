---------------------------- MODULE AuthorityClaims ----------------------------
(****************************************************************************)
(* Where the authority over the entity is at every moment of a transfer: a  *)
(* server has a claim on it by its copy, by a transfer that it is about to  *)
(* publish, by a take order on its way, by the take order it is executing   *)
(* or by the instantiation its engine has yet to run.  That there is never  *)
(* more than one claim, as long as no take order gives its server authority *)
(* twice, is the inductive invariant behind SingleAuthority, and the holder *)
(* of the claim is the refinement mapping to the abstract specification     *)
(* Authority.                                                               *)
(****************************************************************************)
EXTENDS AuthorityTransfer

CONSTANTS Unborn, Nobody, Disputed

ASSUME NobodyAssumption ==
  /\ Unborn # Nobody /\ Unborn # Disputed /\ Nobody # Disputed
  /\ {Unborn, Nobody, Disputed} \cap Server = {}

(* A take order on its way to the server that owns the container it names. *)
Granting(p, m) == m \in takes /\ m.dst = p /\ OwnerOf[m.order.to] = p

(* The engine of p has put its copy in quarantine, and has yet to publish the orders. *)
Handing(p) == publishing[p] # NoOrder

(* The listener thread of p is executing such an order, and has not given a copy of p
   authority by it. *)
Accepting(p) == taking[p] # NoOrder /\ OwnerOf[taking[p].to] = p /\ p \notin took

(* The engine of p has to instantiate the entity in a container of p. *)
Instantiating(p, i) ==
  /\ queue[p][i].kind = "instantiate"
  /\ OwnerOf[queue[p][i].to] = p

Pending(p) == \E i \in DOMAIN queue[p] : Instantiating(p, i)

Claim(p) ==
  \/ HasAuthority(p)
  \/ Handing(p)
  \/ Accepting(p)
  \/ Pending(p)
  \/ \E m \in takes : Granting(p, m)

(* The containers of a server stay where they are: only containers of others are
   joined, asked about and left.  Only servers begin a transfer. *)
LocalInv ==
  /\ \A c \in Container : c \in containers[OwnerOf[c]]
  /\ \A p \in Peer : leaving[p] # NoContainer => OwnerOf[leaving[p]] # p
  /\ \A p \in Peer, c \in Container : <<p, c>> \in asked \cup answered => OwnerOf[c] # p
  /\ \A p \in Peer : Handing(p) => p \in Server

(* A server that has given a copy authority is still in the middle of that order. *)
TookInv == \A p \in took : taking[p] # NoOrder /\ OwnerOf[taking[p].to] = p

(* At most one server has a claim, and it has one claim. *)
ClaimsExclude ==
  /\ \A p, q \in Peer : Claim(p) /\ Claim(q) => p = q
  /\ \A p \in Peer :
       /\ \A m, n \in takes : Granting(p, m) /\ Granting(p, n) => m = n
       /\ (\E m \in takes : Granting(p, m))
             => ~HasAuthority(p) /\ ~Handing(p) /\ ~Accepting(p) /\ ~Pending(p)
       /\ Handing(p) => ~HasAuthority(p) /\ ~Accepting(p) /\ ~Pending(p)
       /\ Accepting(p) => ~HasAuthority(p) /\ ~Pending(p)
       /\ Pending(p) => ~HasAuthority(p)
       /\ \A i, j \in DOMAIN queue[p] : Instantiating(p, i) /\ Instantiating(p, j) => i = j
  /\ ~created => took = {} /\ \A p \in Peer : ~Claim(p)

(* A copy, a transfer to be published, a take order on its way, one being executed and an
   instantiation in a queue exclude each other, as long as no take order has given its
   server authority twice, which the second look-up of ExecTakeOrder can do
   (SingleAuthority says how). *)
OneClaim == twice \/ ClaimsExclude

Holder ==
  IF twice THEN Disputed
  ELSE IF ~created THEN Unborn
  ELSE IF \E p \in Server : Claim(p) THEN CHOOSE p \in Server : Claim(p) ELSE Nobody

Abstract == INSTANCE Authority WITH holder <- Holder

(* The protocol implements Authority: no order, task or answer, lost, late or out of order,
   gives authority to a server that the last holder did not send it to, nor gives it back
   once it is lost, but for a take order that gives its server authority twice
   (SingleAuthority says how). *)
AuthorityKept == Abstract!Spec
=============================================================================
