------------------------------ MODULE Namespaces ------------------------------
(****************************************************************************)
(* The Pulsar namespaces of the sessions, as the master creates and deletes *)
(* them through the admin API (ApachePulsar.cs, class PulsarSingleton).  A  *)
(* module to be instantiated: MasterSessions composes its actions with the  *)
(* handlers of the master.                                                  *)
(*                                                                          *)
(* A deletion is a chain of requests to the broker.  Each may be refused,   *)
(* and the answer to one that was carried out may be lost.  Topics are      *)
(* opened meanwhile; of these only whether a namespace has any is kept.     *)
(* The cached producers and consumers the deletion disposes of are not      *)
(* modelled, nor is the set _namespaces, which only DeleteAllNamespacesAsync *)
(* reads, which nobody calls.                                               *)
(****************************************************************************)

CONSTANTS
  Session,          \* sessions; each has a namespace of its name
  Deletion, Target  \* deletions, and the session Target[d] each is about

VARIABLES
  namespaces,  \* those that exist at the broker
  busy,        \* those among them that have topics
  step         \* step[d]: the request of deletion d that comes next, or its outcome

vars == <<namespaces, busy, step>>

(* The namespaces may be there from an earlier run of the master. *)
Init ==
  /\ namespaces \in SUBSET Session
  /\ busy = {}
  /\ step = [d \in Deletion |-> "list"]

TypeOK ==
  /\ busy \subseteq namespaces /\ namespaces \subseteq Session
  /\ step \in [Deletion -> {"list", "topics", "namespace", "force", "deleted", "failed"}]

-----------------------------------------------------------------------------

(* The broker makes the topic of a producer or a consumer if its namespace exists. *)
OpenTopic(s) ==
  /\ s \in namespaces
  /\ busy' = busy \cup {s}
  /\ UNCHANGED <<namespaces, step>>

(* CreateNamespaceAsync: the broker refuses a namespace that exists. *)
CreateNamespace(s) ==
  /\ s \notin namespaces
  /\ namespaces' = namespaces \cup {s}
  /\ UNCHANGED <<busy, step>>

-----------------------------------------------------------------------------
(* DeleteNamespaceAsync                                                     *)

Advance(d, to) == step' = [step EXCEPT ![d] = to]

(* The topics are listed, and the producers and consumers of the master closed. *)
ListTopics(d) ==
  /\ step[d] = "list"
  /\ Target[d] \in namespaces
  /\ Advance(d, "topics")
  /\ UNCHANGED <<namespaces, busy>>

(* The listed topics are deleted with their schemas.  Others may have been opened since,
   and a topic that is gone already is no failure. *)
DeleteTopics(d) ==
  /\ step[d] = "topics"
  /\ busy' = busy \ {Target[d]} \/ UNCHANGED busy
  /\ Advance(d, "namespace")
  /\ UNCHANGED namespaces

(* The broker deletes an empty namespace when asked plainly, and any with force. *)
CanDelete(d) ==
  /\ Target[d] \in namespaces
  /\ \/ step[d] = "force"
     \/ step[d] = "namespace" /\ Target[d] \notin busy

Delete(d, to) ==
  /\ CanDelete(d)
  /\ namespaces' = namespaces \ {Target[d]}
  /\ busy' = busy \ {Target[d]}
  /\ Advance(d, to)

DeleteNamespace(d) == Delete(d, "deleted")

(* The answer is lost: the exception ends the deletion. *)
DeleteUnheard(d) == Delete(d, "failed")

(* A namespace that is not deleted when asked plainly is asked for with force. *)
PlainRefused(d) ==
  /\ step[d] = "namespace"
  /\ Advance(d, "force")
  /\ UNCHANGED <<namespaces, busy>>

(* A request is refused, or does not reach the broker. *)
Refused(d) ==
  /\ step[d] \in {"list", "topics", "namespace", "force"}
  /\ Advance(d, "failed")
  /\ UNCHANGED <<namespaces, busy>>

Next(d) ==
  \/ ListTopics(d) \/ DeleteTopics(d)
  \/ DeleteNamespace(d) \/ DeleteUnheard(d) \/ PlainRefused(d) \/ Refused(d)
=============================================================================
