------------------------------ MODULE RedisLogger ------------------------------
(****************************************************************************)
(* The client of redis of a peer and the upload of its metrics (Logger.cpp, *)
(* MetricsScrapper.cpp).                                                    *)
(*                                                                          *)
(* One thread owns the connection to redis: others push their tasks to a    *)
(* queue and wake it.  GetRedisKVP waits, on a condition variable of its    *)
(* own stack, for a task that sets a flag and wakes it without taking its   *)
(* mutex.  GetRedisKVPAsync pushes a task that calls GetRedisKVP: on the    *)
(* thread that would have to answer it.  The destructor clears `running`    *)
(* without the mutex, and what is queued then is dropped.                   *)
(****************************************************************************)
EXTENDS Naturals, Sequences, SequencesExt

CONSTANTS
  Caller,    \* threads that use the logger
  MaxOps,    \* bound: operations of the callers together
  MaxQueue,  \* bound: the upload fails, and logs so, only below this length of the queue
  Nothing,   \* no caller, no task, no value
  Refusal    \* the text of an error of redis

ASSUME LoggerAssumption ==
  /\ Nothing \notin Nat /\ Nothing \notin Caller /\ Refusal \notin Nat
  /\ MaxOps \in Nat /\ MaxQueue \in Nat

VARIABLES
  queue,     \* taskQueue
  worker,    \* where the thread of redis is, see WorkerState
  task,      \* the task it runs, or Nothing
  running,   \* the flag of the context
  broken,    \* the connection is lost: hiredis never takes it up again
  store,     \* the value under the one key that is modelled: the number of a set, or 0 for no key
  caller,    \* caller[c]: where a call of GetRedisKVP is, or "idle"
  done,      \* done[c]: the flag on the stack of that call
  result,    \* result[c]: what it returned, or will
  ops,       \* operations so far
  lastSet,   \* lastSet[c]: the number of the last set of c (history)
  gone,      \* the sets that redis has refused, or that were cleared (history)
  main,      \* the destructor that runs, or how far the exit of the process has come
  left,      \* the objects that are not destroyed yet
  uploader   \* where the thread of the metrics is

redisVars == <<queue, worker, task, running, broken, store, gone>>
getVars == <<caller, done, result>>
opVars == <<ops, lastSet>>
loggerVars == <<redisVars, getVars, opVars, main, left, uploader>>

Kind == {"log", "set", "get", "async"}
Task == [kind : Kind, by : Caller \cup {Nothing}, value : Nat]
WorkerState == {"unmade", "top", "checked", "blocked", "taken", "notify", "self", "ended"}
CallerState == {"idle", "pushed", "checked", "waiting"}

LoggerInit ==
  /\ queue = << >> /\ worker = "unmade" /\ task = Nothing
  /\ running = FALSE /\ broken = FALSE /\ store = 0
  /\ caller = [c \in Caller |-> "idle"] /\ done = [c \in Caller |-> FALSE]
  /\ result = [c \in Caller |-> Nothing]
  /\ ops = 0 /\ lastSet = [c \in Caller |-> 0]
  /\ gone = {} /\ main = "runs" /\ left = {"logger", "metrics"} /\ uploader = "off"

Up == main \notin {"ended", "crashed"}

-----------------------------------------------------------------------------
(* The constructor runs when the logger is used for the first time.         *)

CreateRedisContext ==
  /\ worker' = "top" /\ running' = TRUE
  /\ UNCHANGED main

(* A peer that cannot reach redis ends. *)
Make ==
  /\ worker = "unmade" /\ main = "runs"
  /\ \/ CreateRedisContext
     \/ main' = "crashed" /\ UNCHANGED <<worker, running>>
  /\ UNCHANGED <<queue, task, broken, store, gone, getVars, opVars, left, uploader>>

-----------------------------------------------------------------------------
(* The queue.                                                               *)

(* __pushTask: the mutex is not to be had while the worker is between its check and its wait,
   and whoever logs after the logger was destroyed may end the process. *)
Push(k, c, v) ==
  /\ worker \notin {"unmade", "checked"}
  /\ main' \in {main} \cup (IF "logger" \in left THEN {} ELSE {"crashed"})
  /\ queue' = Append(queue, [kind |-> k, by |-> c, value |-> v])
  /\ worker' = IF worker = "blocked" THEN "top" ELSE worker

(* popTask, up to its wait: the thread ends if it was told so, whatever the queue holds. *)
Check ==
  /\ worker = "top" /\ running /\ queue = << >>
  /\ worker' = "checked"
  /\ UNCHANGED <<queue, task, running, broken, store, gone, getVars, opVars, main, left, uploader>>

Block ==
  /\ worker = "checked"
  /\ worker' = "blocked"
  /\ UNCHANGED <<queue, task, running, broken, store, gone, getVars, opVars, main, left, uploader>>

(* Faulty: the tasks are kept on a stack. *)
TakeLast ==
  /\ worker = "top" /\ running /\ queue # << >>
  /\ task' = Last(queue) /\ queue' = Front(queue)
  /\ worker' = "taken"
  /\ UNCHANGED <<running, broken, store, gone, getVars, opVars, main, left, uploader>>

Take ==
  /\ worker = "top" /\ running /\ queue # << >>
  /\ task' = Head(queue) /\ queue' = Tail(queue)
  /\ worker' = "taken"
  /\ UNCHANGED <<running, broken, store, gone, getVars, opVars, main, left, uploader>>

(* Faulty: the thread serves what is queued before it looks at the flag. *)
StopWhenEmpty ==
  /\ worker = "top" /\ ~running /\ queue = << >>
  /\ worker' = "ended"
  /\ UNCHANGED <<queue, task, running, broken, store, gone, getVars, opVars, main, left, uploader>>

SendThreadWorkerEnds ==
  /\ worker = "top" /\ ~running
  /\ worker' = "ended"
  /\ UNCHANGED <<queue, task, running, broken, store, gone, getVars, opVars, main, left, uploader>>

-----------------------------------------------------------------------------
(* Tasks, on the thread of redis.                                           *)

Runs(k) == worker = "taken" /\ task.kind = k

(* The task of Log: a message that cannot be sent is dropped. *)
RunLog ==
  /\ Runs("log")
  /\ worker' = "top" /\ task' = Nothing
  /\ UNCHANGED <<queue, running, broken, store, gone, getVars, opVars, main, left, uploader>>

(* The task of SetRedisKVP.  Redis may refuse to store the value, which nobody hears of. *)
RunSet ==
  /\ Runs("set")
  /\ \/ ~broken /\ store' = task.value /\ UNCHANGED gone
     \/ ~broken /\ gone' = gone \cup {task.value} /\ UNCHANGED store
     \/ broken /\ UNCHANGED <<store, gone>>
  /\ worker' = "top" /\ task' = Nothing
  /\ UNCHANGED <<queue, running, broken, getVars, opVars, main, left, uploader>>

(* Faulty: the task ends where there is no reply. *)
RunGetReplied ==
  /\ Runs("get") /\ task.by # Nothing
  /\ IF broken
     THEN worker' = "top" /\ task' = Nothing /\ UNCHANGED <<result, done>>
     ELSE /\ result' = [result EXCEPT ![task.by] = store]
          /\ done' = [done EXCEPT ![task.by] = TRUE]
          /\ worker' = "notify" /\ UNCHANGED task
  /\ UNCHANGED <<queue, running, broken, store, gone, caller, opVars, main, left, uploader>>

(* The task of GetRedisKVP, up to done = true.  Any reply is returned as a value: the text of
   an error, and the empty text where there is no key. *)
RunGet ==
  /\ Runs("get") /\ task.by # Nothing
  /\ \E reply \in IF broken THEN {Nothing} ELSE {store, Refusal} :
       result' = [result EXCEPT ![task.by] = reply]
  /\ done' = [done EXCEPT ![task.by] = TRUE]
  /\ worker' = "notify"
  /\ UNCHANGED <<queue, task, running, broken, store, gone, caller, opVars, main, left, uploader>>

(* notify_all: a caller that is between its check and its wait does not hear it; one that has
   seen the flag has left, and its condition variable with it. *)
Notify ==
  /\ worker = "notify"
  /\ worker' = "top" /\ task' = Nothing
  /\ caller' = IF caller[task.by] = "waiting" THEN [caller EXCEPT ![task.by] = "pushed"] ELSE caller
  /\ main' \in IF caller[task.by] = "idle" THEN {main, "crashed"} ELSE {main}
  /\ UNCHANGED <<queue, running, broken, store, gone, done, result, opVars, left, uploader>>

(* The task of GetRedisKVPAsync: the thread pushes a task to its own queue, and waits for it. *)
RunAsync ==
  /\ Runs("async")
  /\ queue' = Append(queue, [kind |-> "get", by |-> Nothing, value |-> 0])
  /\ worker' = "self"
  /\ UNCHANGED <<task, running, broken, store, gone, getVars, opVars, main, left, uploader>>

(* Redis is restarted, or the network fails. *)
Break ==
  /\ worker # "unmade" /\ ~broken
  /\ broken' = TRUE
  /\ UNCHANGED <<queue, worker, task, running, store, gone, getVars, opVars, main, left, uploader>>

(* The master clears the session, whose name the key begins with, or all of redis. *)
ClearSession ==
  /\ store # 0
  /\ store' = 0 /\ gone' = gone \cup 1..store
  /\ UNCHANGED <<queue, worker, task, running, broken, getVars, opVars, main, left, uploader>>

-----------------------------------------------------------------------------
(* Operations, on the threads of the callers.                               *)

Op(c) == caller[c] = "idle" /\ ops < MaxOps /\ ops' = ops + 1

Log(c) ==
  /\ Op(c) /\ Push("log", Nothing, 0)
  /\ UNCHANGED <<task, running, broken, store, gone, getVars, lastSet, left, uploader>>

SetRedisKVP(c) ==
  /\ Op(c) /\ Push("set", c, ops + 1)
  /\ lastSet' = [lastSet EXCEPT ![c] = ops + 1]
  /\ UNCHANGED <<task, running, broken, store, gone, getVars, left, uploader>>

GetRedisKVP(c) ==
  /\ Op(c) /\ Push("get", c, 0)
  /\ caller' = [caller EXCEPT ![c] = "pushed"]
  /\ UNCHANGED <<task, running, broken, store, gone, done, result, lastSet, left, uploader>>

GetRedisKVPAsync(c) ==
  /\ Op(c) /\ Push("async", Nothing, 0)
  /\ UNCHANGED <<task, running, broken, store, gone, getVars, lastSet, left, uploader>>

(* wait: the flag is looked at under the mutex of the call, ... *)
GetReturns(c) ==
  /\ caller[c] = "pushed" /\ done[c]
  /\ caller' = [caller EXCEPT ![c] = "idle"]
  /\ done' = [done EXCEPT ![c] = FALSE] /\ result' = [result EXCEPT ![c] = Nothing]
  /\ UNCHANGED <<redisVars, opVars, main, left, uploader>>

GetChecks(c) ==
  /\ caller[c] = "pushed" /\ ~done[c]
  /\ caller' = [caller EXCEPT ![c] = "checked"]
  /\ UNCHANGED <<redisVars, done, result, opVars, main, left, uploader>>

(* ... which the task does not take. *)
GetWaits(c) ==
  /\ caller[c] = "checked"
  /\ caller' = [caller EXCEPT ![c] = "waiting"]
  /\ UNCHANGED <<redisVars, done, result, opVars, main, left, uploader>>

-----------------------------------------------------------------------------
(* The metrics, one of them.                                                *)

(* Start registers the load of the processor, and creates the thread. *)
Start ==
  /\ main = "runs" /\ uploader = "off"
  /\ uploader' = "woken"
  /\ UNCHANGED <<redisVars, getVars, opVars, main, left>>

(* PushMetrics: what a getter throws is logged, and the upload goes on. *)
GetterThrows ==
  /\ uploader = "woken" /\ Len(queue) < MaxQueue
  /\ Push("log", Nothing, 0)
  /\ uploader' = "scraped"
  /\ UNCHANGED <<task, running, broken, store, gone, getVars, opVars, left>>

GetterReturns ==
  /\ uploader = "woken"
  /\ uploader' = "scraped"
  /\ UNCHANGED <<redisVars, getVars, opVars, main, left>>

(* The upload, and the sleep: the loop has no end.  The handle of curl may be freed by then. *)
Upload ==
  /\ uploader = "scraped"
  /\ uploader' = "woken"
  /\ main' \in {main} \cup (IF main = "metrics" THEN {"crashed"} ELSE {})
  /\ UNCHANGED <<redisVars, getVars, opVars, left>>

UploadFails ==
  /\ uploader = "scraped" /\ Len(queue) < MaxQueue
  /\ Push("log", Nothing, 0)
  /\ uploader' = "woken"
  /\ UNCHANGED <<task, running, broken, store, gone, getVars, opVars, left>>

-----------------------------------------------------------------------------
(* The exit: the destructors, by the thread of main, in either order: that in *)
(* which the two objects were made, reversed.                               *)

Destroy(x) == main \in {"runs", "exits"} /\ x \in left /\ main' = x
Destroyed(x) ==
  /\ main = x
  /\ left' = left \ {x}
  /\ main' = IF left' = {} THEN "ended" ELSE "exits"

(* ~Logger: the flag is cleared without the mutex, so that a worker between its check and its
   wait is not woken. *)
StopLogger ==
  /\ Destroy("logger") /\ worker # "unmade"
  /\ running' = FALSE
  /\ worker' = IF worker = "blocked" THEN "top" ELSE worker
  /\ UNCHANGED <<queue, task, broken, store, gone, getVars, opVars, left, uploader>>

LoggerJoined ==
  /\ Destroyed("logger") /\ worker = "ended"
  /\ UNCHANGED <<redisVars, getVars, opVars, uploader>>

(* ~MetricsScrapper frees the handle *)
FreeHandle ==
  /\ Destroy("metrics") /\ worker # "unmade"
  /\ UNCHANGED <<redisVars, getVars, opVars, left, uploader>>

(* and joins the thread of the uploads, if there is one. *)
MetricsJoined ==
  /\ Destroyed("metrics") /\ uploader = "off"
  /\ UNCHANGED <<redisVars, getVars, opVars, uploader>>

-----------------------------------------------------------------------------

WorkerStep ==
  \/ Check \/ Block \/ Take \/ SendThreadWorkerEnds
  \/ RunLog \/ RunSet \/ RunGet \/ Notify \/ RunAsync

CallerStep(c) == GetReturns(c) \/ GetChecks(c) \/ GetWaits(c)

CallerOp(c) == Log(c) \/ SetRedisKVP(c) \/ GetRedisKVP(c) \/ GetRedisKVPAsync(c)

UploadStep == GetterThrows \/ GetterReturns \/ Upload \/ UploadFails

Exit == StopLogger \/ FreeHandle

MainStep == LoggerJoined \/ MetricsJoined \/ (main = "exits" /\ Exit)

LoggerNext ==
  /\ Up
  /\ \/ Make \/ WorkerStep \/ Break \/ ClearSession
     \/ \E c \in Caller : CallerOp(c) \/ CallerStep(c)
     \/ Start \/ UploadStep
     \/ Exit \/ MainStep

(* Threads run, that of main once it has begun to exit. *)
LoggerFairness ==
  /\ WF_loggerVars(Up /\ WorkerStep) /\ WF_loggerVars(Up /\ MainStep) /\ WF_loggerVars(Up /\ UploadStep)
  /\ \A c \in Caller : WF_loggerVars(Up /\ CallerStep(c))

LoggerSpec == LoggerInit /\ [][LoggerNext]_loggerVars /\ LoggerFairness

-----------------------------------------------------------------------------

(* The variables keep their types; a worker that is about to wait, or waits, has nothing to do:
   no task slips in between its check and its wait. *)
LoggerTypeOK ==
  /\ queue \in Seq(Task) /\ worker \in WorkerState /\ task \in Task \cup {Nothing}
  /\ running \in BOOLEAN /\ broken \in BOOLEAN /\ store \in 0..MaxOps
  /\ caller \in [Caller -> CallerState] /\ done \in [Caller -> BOOLEAN]
  /\ result \in [Caller -> 0..MaxOps \cup {Nothing, Refusal}]
  /\ ops \in 0..MaxOps /\ lastSet \in [Caller -> 0..MaxOps]
  /\ gone \subseteq 0..MaxOps
  /\ main \in {"runs", "logger", "metrics", "exits", "ended", "crashed"}
  /\ left \subseteq {"logger", "metrics"}
  /\ uploader \in {"off", "woken", "scraped"}
  /\ worker \in {"checked", "blocked"} => queue = << >>

(* Who reads a value after it has set one reads that one or a later one, since what is pushed
   first is done first, unless redis has refused that set or cleared it since, or the reply is
   an error, whose text is returned as a value, or the connection is lost (SetRedisKVP,
   GetRedisKVP). *)
ReadsOwnWrites ==
  \A c \in Caller :
    caller[c] # "idle" /\ done[c] /\ result[c] \notin {Nothing, Refusal} =>
      lastSet[c] \in gone \/ result[c] >= lastSet[c]

(* Both of them, in every reachable state: of the queue of the thread of redis. *)
LoggerInv == LoggerTypeOK /\ ReadsOwnWrites

(* The worker waits for itself. *)
SelfWait == worker = "self"

(* The call of c was answered before it waited, and nobody will wake it. *)
Missed(c) == caller[c] \in {"checked", "waiting"} /\ done[c]

(* A value that is asked for is answered, and the caller goes on, unless the thread of redis
   waits for itself, was told to stop, or answered a caller that was about to wait. *)
GetsAnswered ==
  \A c \in Caller :
    caller[c] = "pushed" ~> caller[c] = "idle" \/ Missed(c) \/ SelfWait \/ ~running \/ ~Up

(* The exit waits neither for what is queued nor for ever on the thread of redis, unless
   that thread missed the flag or waits for itself, or uploads were started. *)
ExitEnds ==
  main # "runs" ~> ~Up \/ worker \in {"blocked", "self"} \/ uploader # "off"

================================================================================
