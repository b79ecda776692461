-------------------------------- MODULE RpcCall --------------------------------
(****************************************************************************)
(* Remote procedure calls over non-persistent topics (CRPC.hpp, CRPC.cpp):  *)
(* the caller's promises, time-outs and retries, the callee's registered    *)
(* methods, and the set of recent call ids by which a peer ignores a        *)
(* message it has already handled.  The set holds a number of ids and       *)
(* forgets the oldest: it is smaller than the number of calls.              *)
(*                                                                          *)
(* A request and its answer carry the id of the call, and so does a request *)
(* that is sent again.  The number of retries left when a request was sent  *)
(* tells the copies apart here; the program does not see it.                *)
(****************************************************************************)
EXTENDS Naturals, Sequences, FiniteSets

CONSTANTS
  Peer,
  Call,        \* the calls, by their rpc_id
  CallerOf,    \* CallerOf[c]: the peer that makes call c
  Targets,     \* Targets[c]: the peers whose scope call c is addressed to
  Awaited,     \* the calls made by call and call_async; the others are fire_and_forget
  Started,     \* the peers whose method is registered at the start
  Retries,     \* what retry() was given
  Capacity,    \* the capacity of the set of recent call ids
  Patient,     \* the calls of which nothing is on its way any more when they time out
  MaxLost,     \* bound: requests of one call that are lost
  MaxFaults,   \* bound: answers lost and runs failed for one call
  MaxChanges   \* bound: methods registered and unregistered

ASSUME ConstantsAssumption ==
  /\ CallerOf \in [Call -> Peer]
  /\ Targets \in [Call -> SUBSET Peer]
  /\ Awaited \subseteq Call
  /\ \A c \in Awaited : \A p, q \in Targets[c] : p = q
  /\ Started \subseteq Peer
  /\ {Retries, MaxLost, MaxFaults, MaxChanges} \subseteq Nat
  /\ Capacity \in Nat \ {0}
  /\ Patient \subseteq Call

VARIABLES
  state,      \* state[c]: where the thread that makes call c is
  left,       \* left[c]: the retries call c has left
  promises,   \* the calls that have a promise in the caller's _promises
  result,     \* result[c]: what the future of the last attempt of c holds
  requests,   \* requests on their way, as <<call, retries left, peer>>
  answers,    \* answers on their way, as <<call, retries left, value>>
  recent,     \* recent[p]: the ids in p's _runningTasks, most recent first
  others,     \* others[p][c]: once p ran the method for c, the ids p took since it last took c
  listening,  \* the peers whose scope has a consumer
  scoped,     \* the peers whose _methods hold the scope
  served,     \* the peers on which the method is registered
  runs,       \* runs[c][q]: how often q ran the method for c
  succeeded,  \* the runs that did not throw, as <<call, peer>>
  lost,       \* lost[c]: requests of c that were lost or found nobody listening
  faults,     \* faults[c]: answers of c that were lost, and requests of it that the callee
              \* answered with an error or did not answer
  nchanges

callerVars == <<state, left, promises, result>>
netVars    == <<requests, answers>>
idVars     == <<recent, others>>
methodVars == <<listening, scoped, served, nchanges>>
runVars    == <<runs, succeeded>>
faultVars  == <<lost, faults>>
vars == <<callerVars, netVars, idVars, methodVars, runVars, faultVars>>

Value == {"json", "null"}

Ids(p) == {recent[p][i] : i \in DOMAIN recent[p]}

Without(s, id) == SelectSeq(s, LAMBDA x : x # id)

(* Faulty: the newest id makes way for the next one. *)
NewestForgotten(s, id) == IF Len(s) >= Capacity THEN <<id>> \o Tail(s) ELSE <<id>> \o s

(* LRUSet::add *)
Remembered(s, id) ==
  IF \E i \in DOMAIN s : s[i] = id THEN <<id>> \o Without(s, id)
  ELSE IF Len(s) >= Capacity THEN <<id>> \o SubSeq(s, 1, Len(s) - 1)
  ELSE <<id>> \o s

(* UniqueTaskManager::run takes the id of a call that is not in the set.  The history of the
   calls the peer ran goes along: d # c is another id since each of them. *)
TakeId(p, c) ==
  /\ c \notin Ids(p)
  /\ recent' = [recent EXCEPT ![p] = Remembered(@, c)]
  /\ others' = [others EXCEPT ![p] = [d \in Call |->
                 IF d # c /\ runs[d][p] > 0 THEN @[d] \cup {c} ELSE {}]]

(* p has taken as many other ids since it took c as its set holds: that of c is gone. *)
Forgotten(c, p) == Cardinality(others[p][c]) >= Capacity

(* At the start a scope without the method may have a consumer already: it is the peer's
   own scope, and the peer listens there for answers. *)
Init ==
  /\ state = [c \in Call |-> "idle"]
  /\ left = [c \in Call |-> Retries]
  /\ promises = {}
  /\ result = [c \in Call |-> "none"]
  /\ requests = {} /\ answers = {}
  /\ recent = [p \in Peer |-> <<>>]
  /\ others = [p \in Peer |-> [c \in Call |-> {}]]
  /\ \E own \in SUBSET Peer : listening = Started \cup own
  /\ scoped = Started /\ served = Started
  /\ nchanges = 0
  /\ runs = [c \in Call |-> [q \in Peer |-> 0]]
  /\ succeeded = {}
  /\ lost = [c \in Call |-> 0]
  /\ faults = [c \in Call |-> 0]

-----------------------------------------------------------------------------
(* The thread that makes the call.                                          *)

(* A request is published to the scope: the peers that do not listen miss it. *)
Send(c, n) ==
  /\ requests' = requests \cup {<<c, n, q>> : q \in Targets[c] \cap listening}
  /\ lost' = IF Targets[c] \subseteq listening THEN lost ELSE [lost EXCEPT ![c] = @ + 1]

(* RPCCallerStub::fire_and_forget *)
FireAndForget(c) ==
  /\ c \notin Awaited
  /\ state[c] = "idle"
  /\ state' = [state EXCEPT ![c] = "sent"]
  /\ Send(c, Retries)
  /\ UNCHANGED <<left, promises, result, answers, idVars, methodVars, runVars, faults>>

(* RPCCallerStub::call, under the mutex of the promises: a new promise takes
   the place of the one of an earlier attempt. *)
Attempt(c, n) ==
  /\ state' = [state EXCEPT ![c] = "waiting"]
  /\ promises' = promises \cup {c}
  /\ result' = [result EXCEPT ![c] = "none"]
  /\ Send(c, n)

Issue(c) ==
  /\ c \in Awaited
  /\ state[c] = "idle"
  /\ Attempt(c, Retries)
  /\ UNCHANGED <<left, answers, idVars, methodVars, runVars, faults>>

OnItsWay(c) == (\E m \in requests : m[1] = c) \/ (\E a \in answers : a[1] = c)

(* wait_for gives up. *)
TimeOut(c) ==
  /\ state[c] = "waiting"
  /\ result[c] = "none"
  /\ c \in Patient => ~OnItsWay(c)
  /\ state' = [state EXCEPT ![c] = "failing"]
  /\ UNCHANGED <<left, promises, result, netVars, idVars, methodVars, runVars, faultVars>>

(* The future is ready: a value is the result of the call, null is a failure. *)
GetResult(c) ==
  /\ state[c] = "waiting"
  /\ result[c] # "none"
  /\ state' = [state EXCEPT ![c] = IF result[c] = "null" THEN "failing" ELSE "returned"]
  /\ UNCHANGED <<left, promises, result, netVars, idVars, methodVars, runVars, faultVars>>

(* Faulty: the count of retries is read and never decremented. *)
RetriesForever(c) ==
  /\ state[c] = "failing"
  /\ left[c] > 0
  /\ Attempt(c, left[c])
  /\ UNCHANGED <<left, answers, idVars, methodVars, runVars, faults>>

(* Faulty: one retry too many. *)
RetriesPastZero(c) ==
  /\ state[c] = "failing"
  /\ left' = [left EXCEPT ![c] = @ - 1]
  /\ Attempt(c, left[c] - 1)
  /\ UNCHANGED <<answers, idVars, methodVars, runVars, faults>>

(* Faulty: the second attempt waits on the promise of the first. *)
RetriesOnOldPromise(c) ==
  /\ state[c] = "failing"
  /\ left[c] > 0
  /\ left' = [left EXCEPT ![c] = @ - 1]
  /\ state' = [state EXCEPT ![c] = "waiting"]
  /\ result' = [result EXCEPT ![c] = "none"]
  /\ Send(c, left[c] - 1)
  /\ UNCHANGED <<promises, answers, idVars, methodVars, runVars, faults>>

(* Faulty: the retry is counted and not sent. *)
RetriesSilently(c) ==
  /\ state[c] = "failing"
  /\ left[c] > 0
  /\ left' = [left EXCEPT ![c] = @ - 1]
  /\ state' = [state EXCEPT ![c] = "waiting"]
  /\ UNCHANGED <<promises, result, netVars, idVars, methodVars, runVars, faultVars>>

(* __handle_failure with retries left: the same call again, with the same id. *)
Retry(c) ==
  /\ state[c] = "failing"
  /\ left[c] > 0
  /\ left' = [left EXCEPT ![c] = @ - 1]
  /\ Attempt(c, left[c] - 1)
  /\ UNCHANGED <<answers, idVars, methodVars, runVars, faults>>

(* The policies on_fail_do, _log_error, _ignore, _throw and _throw_if: whichever the caller
   chose, its callback is the end of the call. *)
FailCallback(c) == state' = [state EXCEPT ![c] = "failed"]

(* __handle_failure without retries: the promise of the last attempt is not forgotten. *)
GiveUp(c) ==
  /\ state[c] = "failing"
  /\ left[c] = 0
  /\ FailCallback(c)
  /\ UNCHANGED <<left, promises, result, netVars, idVars, methodVars, runVars, faultVars>>

-----------------------------------------------------------------------------
(* The listener thread of a peer.                                           *)

(* RPCCalleeStub::register_method: the first method of a scope starts its
   consumer. *)
RegisterMethod(p) ==
  /\ nchanges < MaxChanges
  /\ p \notin served
  /\ served' = served \cup {p}
  /\ scoped' = scoped \cup {p}
  /\ listening' = listening \cup {p}
  /\ nchanges' = nchanges + 1
  /\ UNCHANGED <<callerVars, netVars, idVars, runVars, faultVars>>

(* RPCCalleeStub::unregister_method: the consumer of the scope stays. *)
UnregisterMethod(p) ==
  /\ nchanges < MaxChanges
  /\ p \in served
  /\ served' = served \ {p}
  /\ nchanges' = nchanges + 1
  /\ UNCHANGED <<callerVars, netVars, idVars, listening, scoped, runVars, faultVars>>

(* UniqueTaskManager::run: a request whose id is known is dropped, and not
   answered again. *)
DropRequest(m) ==
  /\ m \in requests
  /\ m[1] \in Ids(m[3])
  /\ requests' = requests \ {m}
  /\ UNCHANGED <<callerVars, answers, idVars, methodVars, runVars, faultVars>>

(* Faulty: error_status is not looked at. *)
AnsweredWithoutStatus(m, v) ==
  IF m[1] \in Awaited THEN answers \cup {<<m[1], m[2], "json">>} ELSE answers

(* What _handle_call sends back, if the caller waits for it. *)
Answered(m, v) ==
  IF m[1] \in Awaited THEN answers \cup {<<m[1], m[2], v>>} ELSE answers

(* The delegate of a method: the arguments are taken out of the JSON and the method is run,
   with a result or, if it has none, an empty value. *)
Delegate(c, p) == runs' = [runs EXCEPT ![c][p] = @ + 1]

(* _handle_call of a registered method that returns. *)
RunMethod(m) ==
  LET c == m[1]  p == m[3] IN
  /\ m \in requests
  /\ p \in served
  /\ requests' = requests \ {m}
  /\ TakeId(p, c)
  /\ Delegate(c, p)
  /\ succeeded' = succeeded \cup {<<c, p>>}
  /\ answers' = Answered(m, "json")
  /\ UNCHANGED <<callerVars, methodVars, faultVars>>

(* _handle_call of a registered method that throws: the answer is an error,
   which the caller reads as null. *)
RunMethodThrows(m) ==
  LET c == m[1]  p == m[3] IN
  /\ m \in requests
  /\ p \in served
  /\ faults[c] < MaxFaults
  /\ requests' = requests \ {m}
  /\ TakeId(p, c)
  /\ Delegate(c, p)
  /\ answers' = Answered(m, "null")
  /\ faults' = [faults EXCEPT ![c] = @ + 1]
  /\ UNCHANGED <<callerVars, methodVars, succeeded, lost>>

(* _handle_call of a method that is not registered in the scope (any more). *)
MethodNotFound(m) ==
  LET c == m[1]  p == m[3] IN
  /\ m \in requests
  /\ p \in scoped \ served
  /\ requests' = requests \ {m}
  /\ TakeId(p, c)
  /\ answers' = Answered(m, "null")
  /\ faults' = [faults EXCEPT ![c] = @ + 1]
  /\ UNCHANGED <<callerVars, methodVars, runVars, lost>>

(* _handle_call before the scope has its first method: the consumer of the answers took the
   request, its id stays in the set, and there is no answer. *)
ScopeNotFound(m) ==
  LET c == m[1]  p == m[3] IN
  /\ m \in requests
  /\ p \notin scoped
  /\ requests' = requests \ {m}
  /\ TakeId(p, c)
  /\ faults' = [faults EXCEPT ![c] = @ + 1]
  /\ UNCHANGED <<callerVars, answers, methodVars, runVars, lost>>

(* An answer goes through the same set of ids, at the caller. *)
DropAnswer(a) ==
  /\ a \in answers
  /\ a[1] \in Ids(CallerOf[a[1]])
  /\ answers' = answers \ {a}
  /\ UNCHANGED <<callerVars, requests, idVars, methodVars, runVars, faultVars>>

(* solve_promise: the promise is found by the id of the call, whichever attempt the
   answer is for. *)
SolvePromise(c, v) ==
  /\ promises' = promises \ {c}
  /\ result' = IF c \in promises THEN [result EXCEPT ![c] = v] ELSE result

(* _handle_response *)
HandleResponse(a) ==
  LET c == a[1] IN
  /\ a \in answers
  /\ answers' = answers \ {a}
  /\ TakeId(CallerOf[c], c)
  /\ SolvePromise(c, a[3])
  /\ UNCHANGED <<state, left, requests, methodVars, runVars, faultVars>>

-----------------------------------------------------------------------------
(* The broker: a non-persistent topic may lose what it carries.             *)

(* Or the request was never written: the pool of producers drops the message of a thread
   that makes the producer of a topic while another does. *)
LoseRequest(m) ==
  /\ m \in requests
  /\ lost[m[1]] < MaxLost
  /\ requests' = requests \ {m}
  /\ lost' = [lost EXCEPT ![m[1]] = @ + 1]
  /\ UNCHANGED <<callerVars, answers, idVars, methodVars, runVars, faults>>

LoseAnswer(a) ==
  /\ a \in answers
  /\ faults[a[1]] < MaxFaults
  /\ answers' = answers \ {a}
  /\ faults' = [faults EXCEPT ![a[1]] = @ + 1]
  /\ UNCHANGED <<callerVars, requests, idVars, methodVars, runVars, lost>>

-----------------------------------------------------------------------------

CallerNext(c) ==
  FireAndForget(c) \/ Issue(c) \/ TimeOut(c) \/ GetResult(c) \/ Retry(c) \/ GiveUp(c)

RequestNext(m) ==
  DropRequest(m) \/ RunMethod(m) \/ RunMethodThrows(m) \/ MethodNotFound(m) \/ ScopeNotFound(m)

AnswerNext(a) == DropAnswer(a) \/ HandleResponse(a)

(* Every call is over and nothing is on its way. *)
Idle ==
  /\ \A c \in Call : state[c] \in {"sent", "returned", "failed"}
  /\ requests = {} /\ answers = {}
  /\ UNCHANGED vars

Next ==
  \/ \E c \in Call : CallerNext(c)
  \/ \E p \in Peer : RegisterMethod(p) \/ UnregisterMethod(p)
  \/ \E m \in requests : RequestNext(m) \/ LoseRequest(m)
  \/ \E a \in answers : AnswerNext(a) \/ LoseAnswer(a)
  \/ Idle

Spec == Init /\ [][Next]_vars

(* A caller waits for a time limit only, and then goes on; a listener thread
   handles what it got. *)
FairSpec ==
  /\ Spec
  /\ \A c \in Call : WF_vars(TimeOut(c) \/ GetResult(c) \/ Retry(c) \/ GiveUp(c))
  /\ WF_vars(\E m \in requests : RequestNext(m))
  /\ WF_vars(\E a \in answers : AnswerNext(a))

-----------------------------------------------------------------------------
(* Properties.                                                              *)

TypeOK ==
  /\ state \in [Call -> {"idle", "sent", "waiting", "failing", "returned", "failed"}]
  /\ left \in [Call -> 0 .. Retries]
  /\ promises \subseteq Awaited
  /\ result \in [Call -> Value \cup {"none"}]
  /\ requests \subseteq Call \X (0 .. Retries) \X Peer
  /\ answers \subseteq Awaited \X (0 .. Retries) \X Value
  /\ recent \in [Peer -> Seq(Call)]
  /\ others \in [Peer -> [Call -> SUBSET Call]]
  /\ listening \subseteq Peer
  /\ served \subseteq scoped /\ scoped \subseteq listening
  /\ runs \in [Call -> [Peer -> Nat]]
  /\ succeeded \subseteq Call \X Peer
  /\ lost \in [Call -> Nat] /\ faults \in [Call -> Nat]
  /\ nchanges \in Nat

(* A retry is not a second run: a peer that ran the method for a call runs it again, for a
   copy of the request that comes late, only if it has taken as many other ids since as its
   set holds.  Until then no order of the copies, answers and requests makes it run twice. *)
RepeatsOnlyForgotten ==
  [][\A c \in Call, q \in Peer :
       runs'[c][q] > runs[c][q] => runs[c][q] = 0 \/ Forgotten(c, q)]_vars

(* A thread that waits can be woken: as long as its future is empty the promise
   behind it is in the map, even if an answer to an earlier attempt came in
   between. *)
WaitsOnPromise ==
  \A c \in Call : state[c] = "waiting" /\ result[c] = "none" => c \in promises

(* One retry for each lost request is enough when the caller waits long enough: a
   call fails only if more requests were lost or sent to nobody than it had
   retries, or if an answer was lost, or the callee answered with an error, or
   it swallowed a request because its scope had no method yet: then no retry is
   answered either. *)
RetriesCoverLostRequests ==
  \A c \in Patient : state[c] = "failed" => lost[c] > Retries \/ faults[c] > 0

(* The caller's status in the terms of RemoteCall. *)
Status == [c \in Call |->
  CASE state[c] \in {"sent", "waiting", "failing"} -> "pending"
    [] OTHER -> state[c]]

(* The runs whose ids are gone in the peer that made them. *)
ForgottenRuns == {r \in Call \X Peer : Forgotten(r[1], r[2])}

Abstract == INSTANCE RemoteCall WITH status <- Status, forgot <- ForgottenRuns

(* The calls are what RemoteCall promises. *)
IsRemoteCall == Abstract!Spec

(* A call that was made ends: with the result, or with its fail handler. *)
CallEnds == \A c \in Awaited : state[c] = "waiting" ~> state[c] \in {"returned", "failed"}
=============================================================================
