------------------------------- MODULE Authority -------------------------------
(* What the authority transfer protocol promises about one entity: the right to
   act on it is created once, belongs to one server at a time, may be handed
   over or lost, and once lost comes back from nowhere.  Until it is given twice:
   then nothing is promised any more. *)
CONSTANTS
  Server,
  Unborn,   \* nobody yet: the entity does not exist
  Nobody,   \* the authority was lost
  Disputed  \* it was given to the same server a second time

VARIABLE holder

Init == holder = Unborn

Create == holder = Unborn /\ holder' \in Server

HandOver == holder \in Server /\ holder' \in Server

Lose == holder \in Server /\ holder' = Nobody

GiveTwice == holder \in Server \cup {Nobody} /\ holder' = Disputed

Next == Create \/ HandOver \/ Lose \/ GiveTwice

Spec == Init /\ [][Next]_holder
=============================================================================
