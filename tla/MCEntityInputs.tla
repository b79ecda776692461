---------------------------- MODULE MCEntityInputs ----------------------------
(* An instance of EntityInputs: the transfers of MCAuthorityTransfer, with inputs of the
   client. *)
EXTENDS MCAuthorityTransfer, EntityInputs, TLC

CONSTANTS i1, i2

InputSymmetry == Permutations(Input)
=============================================================================
