------------------------------ MODULE RemoteCall ------------------------------
(* What a remote call promises: on each peer it is addressed to the method is run
   once, however often it is asked for, as long as the peer has not forgotten that
   it did, and the call ends at most once: with a result, which some run of the
   method gave, or as a failure, which says nothing of whether the method was run
   or will be. *)
EXTENDS Naturals

CONSTANTS Call, Peer

VARIABLES
  status,     \* status[c]: "idle", "pending", "returned" or "failed"
  runs,       \* runs[c][q]: how often peer q ran the method for call c
  succeeded,  \* the runs that gave a result, as <<call, peer>>
  forgot      \* the runs that the peer has no memory of, as <<call, peer>>

vars == <<status, runs, succeeded, forgot>>

Init ==
  /\ status = [c \in Call |-> "idle"]
  /\ runs = [c \in Call |-> [q \in Peer |-> 0]]
  /\ succeeded = {}
  /\ forgot = {}

Issue(c) ==
  /\ status[c] = "idle"
  /\ status' = [status EXCEPT ![c] = "pending"]
  /\ UNCHANGED <<runs, succeeded, forgot>>

Run(c, q) ==
  /\ status[c] # "idle"
  /\ runs[c][q] = 0 \/ <<c, q>> \in forgot
  /\ runs' = [runs EXCEPT ![c][q] = @ + 1]
  /\ succeeded' \in {succeeded, succeeded \cup {<<c, q>>}}
  /\ <<c, q>> \notin forgot' /\ forgot' \subseteq Call \X Peer
  /\ UNCHANGED status

(* A peer forgets, or is reminded by the answer that passes it. *)
Forget ==
  /\ forgot' \subseteq Call \X Peer
  /\ UNCHANGED <<status, runs, succeeded>>

Return(c) ==
  /\ status[c] = "pending"
  /\ \E q \in Peer : <<c, q>> \in succeeded
  /\ status' = [status EXCEPT ![c] = "returned"]
  /\ UNCHANGED <<runs, succeeded, forgot>>

Fail(c) ==
  /\ status[c] = "pending"
  /\ status' = [status EXCEPT ![c] = "failed"]
  /\ UNCHANGED <<runs, succeeded, forgot>>

Next ==
  \/ \E c \in Call : Issue(c) \/ Return(c) \/ Fail(c) \/ \E q \in Peer : Run(c, q)
  \/ Forget

Spec == Init /\ [][Next]_vars
=============================================================================
