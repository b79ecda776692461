---------------------------------- MODULE Pool ---------------------------------
(****************************************************************************)
(* The threads that run the tasks of a peer (AsyncTaskScheduler.cpp): the   *)
(* tasks that wait for a thread and those that have one.  There are two     *)
(* such pools, one for computations and one for input and output.           *)
(****************************************************************************)
EXTENDS FiniteSets, Naturals

CONSTANT Threads     \* how many threads the pool has

VARIABLES queued,    \* tasks that wait for a thread
          running    \* tasks that have one

Init == queued = {} /\ running = {}

Schedule(T) == queued' = queued \cup T /\ UNCHANGED running

(* A thread that is free takes one of the tasks. *)
Start(t) ==
  /\ t \in queued
  /\ Cardinality(running) < Threads
  /\ queued' = queued \ {t}
  /\ running' = running \cup {t}

(* The task returns, or what it throws is dropped; the thread is free again. *)
Finish(t) == running' = running \ {t} /\ UNCHANGED queued

Idle == UNCHANGED <<queued, running>>
================================================================================
