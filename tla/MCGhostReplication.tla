-------------------------- MODULE MCGhostReplication --------------------------
(* An instance of GhostReplication: sa owns ca, where the entity is created, and
   sb owns cb; the client cl listens to nothing yet. *)
EXTENDS GhostReplication, TLC

CONSTANTS sa, sb, cl, ca, cb

MCOwnerOf == (ca :> sa) @@ (cb :> sb)

MCSubscribed == (sa :> {ca}) @@ (sb :> {cb}) @@ (cl :> {})
=============================================================================
