------------------------------- MODULE RpcProofs -------------------------------
(* Theorems about RpcCall, for every number of peers, calls, retries, losses and
   faults. *)
EXTENDS RpcCall, FiniteSetTheorems, TLAPS

-----------------------------------------------------------------------------
(* The set of recent call ids.                                              *)

(* What a sequence becomes when an element is put before it. *)
LEMMA ConsFacts ==
  ASSUME NEW S, NEW s \in Seq(S), NEW x \in S
  PROVE  /\ <<x>> \o s \in Seq(S)
         /\ Len(<<x>> \o s) = Len(s) + 1
         /\ (<<x>> \o s)[1] = x
         /\ \A i \in 1 .. Len(s) : (<<x>> \o s)[i + 1] = s[i]
OBVIOUS

LEMMA PrefixFacts ==
  ASSUME NEW S, NEW s \in Seq(S), NEW n \in 0 .. Len(s), NEW t, t = SubSeq(s, 1, n)
  PROVE  t \in Seq(S) /\ Len(t) = n /\ \A i \in 1 .. n : t[i] = s[i]
<1>1. t \in Seq(S) /\ Len(t) = n
  OBVIOUS
<1>2. ASSUME NEW i \in 1 .. n PROVE t[i] = s[i]
  OBVIOUS
<1> QED
  BY <1>1, <1>2

(* No id occurs twice. *)
Distinct(s) == \A i, j \in DOMAIN s : s[i] = s[j] => i = j

Members(s) == {s[i] : i \in DOMAIN s}

(* A new id comes first, the others move on by one, and the set never holds more than its
   capacity: the last one goes when it is full. *)
LEMMA RememberedFacts ==
  ASSUME NEW s \in Seq(Call), NEW id \in Call, \A i \in DOMAIN s : s[i] # id,
         NEW r, r = Remembered(s, id)
  PROVE  /\ r \in Seq(Call)
         /\ Len(r) = IF Len(s) >= Capacity THEN Len(s) ELSE Len(s) + 1
         /\ r[1] = id
         /\ \A i \in 2 .. Len(r) : i - 1 \in 1 .. Len(s) /\ r[i] = s[i - 1]
<1>1. Capacity \in Nat \ {0} /\ Len(s) \in Nat
  BY ConstantsAssumption
<1>2. CASE Len(s) >= Capacity
  <2>1. PICK t : t = SubSeq(s, 1, Len(s) - 1)
    OBVIOUS
  <2>2. /\ t \in Seq(Call) /\ Len(t) = Len(s) - 1
        /\ \A i \in 1 .. Len(s) - 1 : t[i] = s[i]
    <3>1. Len(s) - 1 \in 0 .. Len(s)
      BY <1>1, <1>2
    <3> QED
      BY <2>1, <3>1, PrefixFacts
  <2>3. r = <<id>> \o t
    BY <1>2, <2>1 DEF Remembered
  <2>4. /\ r \in Seq(Call) /\ Len(r) = Len(t) + 1 /\ r[1] = id
        /\ \A i \in 1 .. Len(t) : r[i + 1] = t[i]
    BY <2>2, <2>3, ConsFacts
  <2>5. Len(r) = Len(s)
    BY <1>1, <2>2, <2>4
  <2>6. ASSUME NEW i \in 2 .. Len(r) PROVE i - 1 \in 1 .. Len(s) /\ r[i] = s[i - 1]
    <3>1. i - 1 \in 1 .. Len(t) /\ i - 1 \in 1 .. Len(s) - 1 /\ (i - 1) + 1 = i
      BY <1>1, <2>2, <2>4
    <3>2. r[(i - 1) + 1] = t[i - 1] /\ t[i - 1] = s[i - 1]
      BY <2>2, <2>4, <3>1
    <3> QED
      BY <1>1, <3>1, <3>2
  <2> QED
    BY <1>2, <2>4, <2>5, <2>6
<1>3. CASE ~(Len(s) >= Capacity)
  <2>1. r = <<id>> \o s
    BY <1>3 DEF Remembered
  <2>2. /\ r \in Seq(Call) /\ Len(r) = Len(s) + 1 /\ r[1] = id
        /\ \A i \in 1 .. Len(s) : r[i + 1] = s[i]
    BY <2>1, ConsFacts
  <2>3. ASSUME NEW i \in 2 .. Len(r) PROVE i - 1 \in 1 .. Len(s) /\ r[i] = s[i - 1]
    <3>1. i - 1 \in 1 .. Len(s) /\ (i - 1) + 1 = i
      BY <1>1, <2>2
    <3>2. r[(i - 1) + 1] = s[i - 1]
      BY <2>2, <3>1
    <3> QED
      BY <3>1, <3>2
  <2> QED
    BY <1>3, <2>2, <2>3
<1> QED
  BY <1>2, <1>3

(* A new id makes the sequence of ids a sequence of ids. *)
LEMMA RememberedType ==
  ASSUME NEW s \in Seq(Call), NEW id \in Call, \A i \in DOMAIN s : s[i] # id
  PROVE  Remembered(s, id) \in Seq(Call)
BY RememberedFacts

(* Ids without repetition that all belong to a finite set are no more than its elements. *)
LEMMA DistinctBound ==
  ASSUME NEW s \in Seq(Call), NEW T, Distinct(s), IsFiniteSet(T), Members(s) \subseteq T
  PROVE  Len(s) <= Cardinality(T)
<1>1. s \in Injection(1 .. Len(s), T)
  BY DEF Injection, IsInjective, Distinct, Members
<1>2. Cardinality(1 .. Len(s)) <= Cardinality(T)
  BY <1>1, FS_Injection
<1>3. Cardinality(1 .. Len(s)) = Len(s)
  <2>1. Len(s) \in Nat
    OBVIOUS
  <2>2. 1 \in Int /\ Len(s) \in Int
    BY <2>1
  <2>3. Cardinality(1 .. Len(s)) = IF 1 > Len(s) THEN 0 ELSE Len(s) - 1 + 1
    BY <2>2, FS_Interval, Zenon
  <2> QED
    BY <2>1, <2>3
<1> QED
  BY <1>2, <1>3

(* A new id before distinct ones. *)
LEMMA RememberedDistinct ==
  ASSUME NEW s \in Seq(Call), NEW id \in Call, Distinct(s), \A i \in DOMAIN s : s[i] # id,
         NEW r, r = Remembered(s, id)
  PROVE  Distinct(r)
<1>1. /\ r \in Seq(Call) /\ r[1] = id
      /\ \A i \in 2 .. Len(r) : i - 1 \in 1 .. Len(s) /\ r[i] = s[i - 1]
  BY RememberedFacts
<1>2. DOMAIN s = 1 .. Len(s) /\ DOMAIN r = 1 .. Len(r) /\ Len(r) \in Nat /\ Len(s) \in Nat
  BY <1>1
<1>3. ASSUME NEW i \in DOMAIN r, NEW j \in DOMAIN r, r[i] = r[j] PROVE i = j
  <2>1. CASE i = 1 \/ j = 1
    BY <1>1, <1>2, <1>3, <2>1
  <2>2. CASE i # 1 /\ j # 1
    <3>1. i \in 2 .. Len(r) /\ j \in 2 .. Len(r)
      BY <1>2, <2>2
    <3>2. i - 1 \in DOMAIN s /\ j - 1 \in DOMAIN s /\ s[i - 1] = s[j - 1]
      BY <1>1, <1>2, <1>3, <3>1
    <3>3. i - 1 = j - 1
      BY <3>2 DEF Distinct
    <3> QED
      BY <1>2, <3>3
  <2> QED
    BY <2>1, <2>2
<1> QED
  BY <1>3 DEF Distinct

-----------------------------------------------------------------------------
(* Type correctness.                                                        *)

(* Only a call that is awaited gets further than "sent". *)
TypeInv ==
  /\ TypeOK
  /\ \A c \in Call : state[c] \notin {"idle", "sent"} => c \in Awaited

LEMMA NatConstants == Retries \in Nat /\ MaxLost \in Nat /\ MaxFaults \in Nat /\ MaxChanges \in Nat
BY ConstantsAssumption

USE ConstantsAssumption, NatConstants
USE DEF idVars

LEMMA SendType ==
  ASSUME TypeOK, NEW c \in Call, NEW n \in 0 .. Retries, Send(c, n)
  PROVE  /\ requests' \subseteq Call \X (0 .. Retries) \X Peer
         /\ lost' \in [Call -> Nat]
BY DEF TypeOK, Send

LEMMA CallerType ==
  ASSUME TypeInv, NEW c \in Call, CallerNext(c)
  PROVE  TypeInv'
<1>1. CASE FireAndForget(c)
  <2>1. Retries \in 0 .. Retries
    OBVIOUS
  <2> QED
    BY <1>1, <2>1, SendType DEF TypeInv, TypeOK, FireAndForget, methodVars, runVars
<1>2. CASE Issue(c)
  <2>1. Retries \in 0 .. Retries
    OBVIOUS
  <2> QED
    BY <1>2, <2>1, SendType DEF TypeInv, TypeOK, Issue, Attempt, methodVars, runVars, Value
<1>3. CASE TimeOut(c)
  BY <1>3 DEF TypeInv, TypeOK, TimeOut, netVars, methodVars, runVars, faultVars
<1>4. CASE GetResult(c)
  BY <1>4 DEF TypeInv, TypeOK, GetResult, netVars, methodVars, runVars, faultVars
<1>5. CASE Retry(c)
  <2>1. left[c] - 1 \in 0 .. Retries
    <3>1. left[c] \in 0 .. Retries /\ left[c] > 0
      BY <1>5 DEF TypeInv, TypeOK, Retry
    <3> QED
      BY <3>1
  <2>2. /\ requests' \subseteq Call \X (0 .. Retries) \X Peer
        /\ lost' \in [Call -> Nat]
    BY <1>5, <2>1, SendType DEF TypeInv, Retry, Attempt
  <2>3. c \in Awaited
    BY <1>5 DEF TypeInv, Retry
  <2> QED
    BY <1>5, <2>1, <2>2, <2>3 DEF TypeInv, TypeOK, Retry, Attempt, methodVars, runVars, Value
<1>6. CASE GiveUp(c)
  BY <1>6 DEF TypeInv, TypeOK, GiveUp, FailCallback, netVars, methodVars, runVars, faultVars
<1> QED
  BY <1>1, <1>2, <1>3, <1>4, <1>5, <1>6 DEF CallerNext

LEMMA MethodType ==
  ASSUME TypeInv, NEW p \in Peer, RegisterMethod(p) \/ UnregisterMethod(p)
  PROVE  TypeInv'
<1>1. /\ served' \subseteq scoped' /\ scoped' \subseteq listening' /\ listening' \subseteq Peer
      /\ nchanges' \in Nat
  BY DEF TypeInv, TypeOK, RegisterMethod, UnregisterMethod
<1>2. UNCHANGED <<callerVars, netVars, idVars, runVars, faultVars>>
  BY DEF RegisterMethod, UnregisterMethod
<1> QED
  BY <1>1, <1>2 DEF TypeInv, TypeOK, callerVars, netVars, runVars, faultVars

(* What a peer keeps in mind when it takes an id. *)
LEMMA TakeType ==
  ASSUME TypeOK, NEW p \in Peer, NEW c \in Call, TakeId(p, c)
  PROVE  recent' \in [Peer -> Seq(Call)] /\ others' \in [Peer -> [Call -> SUBSET Call]]
<1>1. recent[p] \in Seq(Call) /\ \A i \in DOMAIN recent[p] : recent[p][i] # c
  BY DEF TypeOK, TakeId, Ids
<1>2. Remembered(recent[p], c) \in Seq(Call)
  BY <1>1, RememberedType
<1>3. recent' \in [Peer -> Seq(Call)]
  BY <1>2 DEF TypeOK, TakeId
<1>4. [d \in Call |-> IF d # c /\ runs[d][p] > 0 THEN others[p][d] \cup {c} ELSE {}]
        \in [Call -> SUBSET Call]
  BY DEF TypeOK
<1>5. others' \in [Peer -> [Call -> SUBSET Call]]
  BY <1>4 DEF TypeOK, TakeId
<1> QED
  BY <1>3, <1>5

(* A run is counted. *)
LEMMA RunsType ==
  ASSUME TypeOK, NEW p \in Peer, NEW c \in Call
  PROVE  [runs EXCEPT ![c][p] = @ + 1] \in [Call -> [Peer -> Nat]]
BY DEF TypeOK

LEMMA RequestType ==
  ASSUME TypeInv, NEW m \in requests, RequestNext(m) \/ LoseRequest(m)
  PROVE  TypeInv'
<1>1. m[1] \in Call /\ m[2] \in 0 .. Retries /\ m[3] \in Peer
  BY DEF TypeInv, TypeOK
<1>2. \A v \in Value : Answered(m, v) \subseteq Awaited \X (0 .. Retries) \X Value
  BY <1>1 DEF TypeInv, TypeOK, Answered
<1>3. "json" \in Value /\ "null" \in Value
  BY DEF Value
<1>4. CASE DropRequest(m)
  BY <1>4 DEF TypeInv, TypeOK, DropRequest, callerVars, methodVars, runVars, faultVars
<1>5. CASE RunMethod(m)
  <2>1. recent' \in [Peer -> Seq(Call)] /\ others' \in [Peer -> [Call -> SUBSET Call]]
    BY <1>1, <1>5, TakeType DEF TypeInv, RunMethod
  <2>2. requests' \subseteq Call \X (0 .. Retries) \X Peer
    BY <1>5 DEF TypeInv, TypeOK, RunMethod, Delegate
  <2>3. answers' \subseteq Awaited \X (0 .. Retries) \X Value
    BY <1>2, <1>3, <1>5 DEF RunMethod, Delegate
  <2>4. runs' \in [Call -> [Peer -> Nat]]
    BY <1>1, <1>5, RunsType DEF TypeInv, RunMethod, Delegate
  <2>5. succeeded' \subseteq Call \X Peer
    BY <1>1, <1>5 DEF TypeInv, TypeOK, RunMethod, Delegate
  <2>6. UNCHANGED <<callerVars, methodVars, faultVars>>
    BY <1>5 DEF RunMethod, Delegate
  <2> QED
    BY <2>1, <2>2, <2>3, <2>4, <2>5, <2>6 DEF TypeInv, TypeOK, callerVars, methodVars, faultVars
<1>6. CASE RunMethodThrows(m)
  <2>1. recent' \in [Peer -> Seq(Call)] /\ others' \in [Peer -> [Call -> SUBSET Call]]
    BY <1>1, <1>6, TakeType DEF TypeInv, RunMethodThrows
  <2>2. requests' \subseteq Call \X (0 .. Retries) \X Peer
    BY <1>6 DEF TypeInv, TypeOK, RunMethodThrows, Delegate
  <2>3. answers' \subseteq Awaited \X (0 .. Retries) \X Value
    BY <1>2, <1>3, <1>6 DEF RunMethodThrows, Delegate
  <2>4. runs' \in [Call -> [Peer -> Nat]]
    BY <1>1, <1>6, RunsType DEF TypeInv, RunMethodThrows, Delegate
  <2>5. faults' \in [Call -> Nat]
    BY <1>1, <1>6 DEF TypeInv, TypeOK, RunMethodThrows, Delegate
  <2>6. UNCHANGED <<callerVars, methodVars, succeeded, lost>>
    BY <1>6 DEF RunMethodThrows, Delegate
  <2> QED
    BY <2>1, <2>2, <2>3, <2>4, <2>5, <2>6 DEF TypeInv, TypeOK, callerVars, methodVars
<1>7. CASE MethodNotFound(m)
  <2>1. recent' \in [Peer -> Seq(Call)] /\ others' \in [Peer -> [Call -> SUBSET Call]]
    BY <1>1, <1>7, TakeType DEF TypeInv, MethodNotFound
  <2>2. requests' \subseteq Call \X (0 .. Retries) \X Peer
    BY <1>7 DEF TypeInv, TypeOK, MethodNotFound
  <2>3. answers' \subseteq Awaited \X (0 .. Retries) \X Value
    BY <1>2, <1>3, <1>7 DEF MethodNotFound
  <2>4. faults' \in [Call -> Nat]
    BY <1>1, <1>7 DEF TypeInv, TypeOK, MethodNotFound
  <2>5. UNCHANGED <<callerVars, methodVars, runVars, lost>>
    BY <1>7 DEF MethodNotFound
  <2> QED
    BY <2>1, <2>2, <2>3, <2>4, <2>5 DEF TypeInv, TypeOK, callerVars, methodVars, runVars
<1>8. CASE LoseRequest(m)
  <2>1. requests' \subseteq Call \X (0 .. Retries) \X Peer
    BY <1>8 DEF TypeInv, TypeOK, LoseRequest
  <2>2. lost' \in [Call -> Nat]
    BY <1>1, <1>8 DEF TypeInv, TypeOK, LoseRequest
  <2>3. UNCHANGED <<callerVars, answers, idVars, methodVars, runVars, faults>>
    BY <1>8 DEF LoseRequest
  <2> QED
    BY <2>1, <2>2, <2>3 DEF TypeInv, TypeOK, callerVars, methodVars, runVars
<1>9. CASE ScopeNotFound(m)
  <2>1. recent' \in [Peer -> Seq(Call)] /\ others' \in [Peer -> [Call -> SUBSET Call]]
    BY <1>1, <1>9, TakeType DEF TypeInv, ScopeNotFound
  <2>2. requests' \subseteq Call \X (0 .. Retries) \X Peer
    BY <1>9 DEF TypeInv, TypeOK, ScopeNotFound
  <2>3. faults' \in [Call -> Nat]
    BY <1>1, <1>9 DEF TypeInv, TypeOK, ScopeNotFound
  <2>4. UNCHANGED <<callerVars, answers, methodVars, runVars, lost>>
    BY <1>9 DEF ScopeNotFound
  <2> QED
    BY <2>1, <2>2, <2>3, <2>4 DEF TypeInv, TypeOK, callerVars, methodVars, runVars
<1> QED
  BY <1>4, <1>5, <1>6, <1>7, <1>8, <1>9 DEF RequestNext

LEMMA AnswerType ==
  ASSUME TypeInv, NEW a \in answers, AnswerNext(a) \/ LoseAnswer(a)
  PROVE  TypeInv'
<1>1. a[1] \in Call /\ a[3] \in Value /\ CallerOf[a[1]] \in Peer
  BY DEF TypeInv, TypeOK
<1>2. CASE DropAnswer(a)
  BY <1>2 DEF TypeInv, TypeOK, DropAnswer, callerVars, methodVars, runVars, faultVars
<1>3. CASE HandleResponse(a)
  <2>1. recent' \in [Peer -> Seq(Call)] /\ others' \in [Peer -> [Call -> SUBSET Call]]
    BY <1>1, <1>3, TakeType DEF TypeInv, HandleResponse
  <2>2. result' \in [Call -> Value \cup {"none"}]
    BY <1>1, <1>3 DEF TypeInv, TypeOK, HandleResponse, SolvePromise
  <2> QED
    BY <1>3, <2>1, <2>2 DEF TypeInv, TypeOK, HandleResponse, SolvePromise, methodVars, runVars,
       faultVars
<1>4. CASE LoseAnswer(a)
  <2>1. answers' \subseteq Awaited \X (0 .. Retries) \X Value
    BY <1>4 DEF TypeInv, TypeOK, LoseAnswer
  <2>2. faults' \in [Call -> Nat]
    BY <1>1, <1>4 DEF TypeInv, TypeOK, LoseAnswer
  <2>3. UNCHANGED <<callerVars, requests, idVars, methodVars, runVars, lost>>
    BY <1>4 DEF LoseAnswer
  <2> QED
    BY <2>1, <2>2, <2>3 DEF TypeInv, TypeOK, callerVars, methodVars, runVars
<1> QED
  BY <1>2, <1>3, <1>4 DEF AnswerNext

LEMMA TypeStep == TypeInv /\ [Next]_vars => TypeInv'
<1> SUFFICES ASSUME TypeInv, [Next]_vars PROVE TypeInv'
  OBVIOUS
<1>1. CASE UNCHANGED vars
  BY <1>1 DEF TypeInv, TypeOK, vars, callerVars, netVars, methodVars, runVars, faultVars
<1>2. CASE Idle
  BY <1>1, <1>2 DEF Idle
<1> QED
  BY <1>1, <1>2, CallerType, MethodType, RequestType, AnswerType DEF Next

(* Every step of a caller, a callee and the broker keeps the state well typed;
   in particular no retry is made past the last. *)
THEOREM TypeCorrect == Spec => []TypeOK
<1>1. Init => TypeInv
  BY DEF Init, TypeInv, TypeOK
<1>2. TypeInv => TypeOK
  BY DEF TypeInv
<1> QED
  BY <1>1, <1>2, TypeStep, PTL DEF Spec

-----------------------------------------------------------------------------
(* A waiting thread can be woken.                                           *)

(* No answer, to whichever attempt, leaves a thread waiting on a promise that is
   not in the map any more. *)
THEOREM PromiseKept == Spec => []WaitsOnPromise
<1> DEFINE IInv == TypeInv /\ WaitsOnPromise
<1>1. Init => IInv
  BY DEF Init, TypeInv, TypeOK, WaitsOnPromise
<1>2. IInv /\ [Next]_vars => IInv'
  <2> SUFFICES ASSUME TypeInv, WaitsOnPromise, [Next]_vars PROVE WaitsOnPromise'
    BY TypeStep
  <2> USE DEF TypeInv, TypeOK, WaitsOnPromise
  <2>1. CASE UNCHANGED <<state, promises, result>>
    BY <2>1
  <2>2. ASSUME NEW c \in Call, FireAndForget(c) PROVE WaitsOnPromise'
    BY <2>2 DEF FireAndForget
  <2>3. ASSUME NEW c \in Call, Issue(c) \/ Retry(c) PROVE WaitsOnPromise'
    BY <2>3 DEF Issue, Retry, Attempt
  <2>4. ASSUME NEW c \in Call, TimeOut(c) \/ GetResult(c) \/ GiveUp(c) PROVE WaitsOnPromise'
    BY <2>4 DEF TimeOut, GetResult, GiveUp, FailCallback
  <2>5. ASSUME NEW a \in answers, HandleResponse(a) PROVE WaitsOnPromise'
    <3>1. a[1] \in Call /\ a[3] # "none"
      BY DEF Value
    <3>2. state' = state
      BY <2>5 DEF HandleResponse, SolvePromise
    <3>3. CASE a[1] \in promises
      BY <2>5, <3>1, <3>2, <3>3 DEF HandleResponse, SolvePromise
    <3>4. CASE a[1] \notin promises
      BY <2>5, <3>1, <3>2, <3>4 DEF HandleResponse, SolvePromise
    <3> QED
      BY <3>3, <3>4
  <2>6. ASSUME NEW p \in Peer, RegisterMethod(p) \/ UnregisterMethod(p) PROVE WaitsOnPromise'
    BY <2>1, <2>6 DEF RegisterMethod, UnregisterMethod, callerVars
  <2>7. ASSUME NEW m \in requests, RequestNext(m) \/ LoseRequest(m) PROVE WaitsOnPromise'
    BY <2>1, <2>7 DEF RequestNext, DropRequest, RunMethod, Delegate, RunMethodThrows,
       MethodNotFound, ScopeNotFound, LoseRequest, callerVars
  <2>8. ASSUME NEW a \in answers, DropAnswer(a) \/ LoseAnswer(a) PROVE WaitsOnPromise'
    BY <2>1, <2>8 DEF DropAnswer, LoseAnswer, callerVars
  <2>9. CASE Idle \/ UNCHANGED vars
    BY <2>1, <2>9 DEF Idle, vars, callerVars
  <2> HIDE DEF TypeInv, TypeOK, WaitsOnPromise
  <2> QED
    BY <2>2, <2>3, <2>4, <2>5, <2>6, <2>7, <2>8, <2>9 DEF Next, CallerNext, AnswerNext
<1> HIDE DEF IInv
<1>3. IInv => WaitsOnPromise
  BY DEF IInv
<1> QED
  BY <1>1, <1>2, <1>3, PTL DEF Spec

-----------------------------------------------------------------------------
(* A method is run again only when its id is gone.                          *)

(* What the set of peer q says of a call the peer ran: the ids before that of the call were
   taken since, and if it is not there, no fewer than the set holds were. *)
Recalls(c, q) ==
  /\ \A i, j \in DOMAIN recent[q] : recent[q][i] = c /\ j < i => recent[q][j] \in others[q][c]
  /\ c \notin Ids(q) => Forgotten(c, q)

(* The ids in a peer's set are distinct and no more than it holds. *)
IdsFit == \A q \in Peer : Distinct(recent[q]) /\ Len(recent[q]) <= Capacity

OthersFinite == \A q \in Peer, c \in Call : IsFiniteSet(others[q][c])

MemoryInv ==
  /\ TypeInv /\ IdsFit /\ OthersFinite
  /\ \A c \in Call, q \in Peer : runs[c][q] > 0 => Recalls(c, q)

(* The set of a peer and the history of a call it ran, after the peer took another id. *)
LEMMA TakeRecalls ==
  ASSUME MemoryInv, NEW p \in Peer, NEW c \in Call, TakeId(p, c),
         NEW d \in Call \ {c}, runs[d][p] > 0
  PROVE  Recalls(d, p)'
<1>1. TypeOK /\ Recalls(d, p) /\ Distinct(recent[p]) /\ Len(recent[p]) <= Capacity
      /\ IsFiniteSet(others[p][d]) /\ Capacity \in Nat
  BY DEF MemoryInv, TypeInv, IdsFit, OthersFinite
<1>2. PICK s \in Seq(Call) : s = recent[p]
  BY <1>1 DEF TypeOK
<1>3. PICK r : r = Remembered(s, c)
  OBVIOUS
<1>4. \A i \in DOMAIN s : s[i] # c
  BY <1>2 DEF TakeId, Ids
<1>5. /\ r \in Seq(Call)
      /\ Len(r) = IF Len(s) >= Capacity THEN Len(s) ELSE Len(s) + 1
      /\ r[1] = c
      /\ \A i \in 2 .. Len(r) : i - 1 \in 1 .. Len(s) /\ r[i] = s[i - 1]
  BY <1>3, <1>4, RememberedFacts
<1>6. Len(s) \in Nat /\ DOMAIN s = 1 .. Len(s)
  OBVIOUS
<1>7. recent'[p] = r /\ others'[p][d] = others[p][d] \cup {c}
  BY <1>1, <1>2, <1>3 DEF TypeOK, TakeId
<1>8. IsFiniteSet(others'[p][d])
  <2>1. IsFiniteSet(others[p][d] \cup {c})
    BY <1>1, FS_AddElement
  <2> QED
    BY <1>7, <2>1
<1>9. \A i, j \in DOMAIN s : s[i] = d /\ j < i => s[j] \in others[p][d]
  BY <1>1, <1>2 DEF Recalls
<1>10. ASSUME NEW i \in DOMAIN r, NEW j \in DOMAIN r, r[i] = d, j < i
      PROVE  r[j] \in others'[p][d]
  <2>1. Len(r) \in Nat /\ i \in 2 .. Len(r) /\ j \in 1 .. Len(r)
    BY <1>5, <1>10
  <2>2. i - 1 \in DOMAIN s /\ s[i - 1] = d
    BY <1>6, <1>5, <1>10, <2>1
  <2>3. CASE j = 1
    BY <1>5, <1>7, <2>3
  <2>4. CASE j # 1
    <3>1. j \in 2 .. Len(r)
      BY <2>1, <2>4
    <3>2. j - 1 \in DOMAIN s /\ r[j] = s[j - 1] /\ j - 1 < i - 1
      BY <1>6, <1>5, <1>10, <2>1, <3>1
    <3> QED
      BY <1>7, <1>9, <2>2, <3>2
  <2> QED
    BY <2>3, <2>4
<1>11. ASSUME d \notin Members(r) PROVE Cardinality(others'[p][d]) >= Capacity
  <2>1. CASE d \notin Ids(p)
    <3>1. Cardinality(others[p][d]) >= Capacity /\ Cardinality(others[p][d]) \in Nat
      BY <1>1, <2>1, FS_CardinalityType DEF Recalls, Forgotten
    <3>2. Cardinality(others[p][d]) <= Cardinality(others'[p][d]) /\ Cardinality(others'[p][d]) \in Nat
      BY <1>7, <1>8, FS_Subset, FS_CardinalityType
    <3> QED
      BY <1>1, <3>1, <3>2
  <2>2. CASE d \in Ids(p)
    <3>1. PICK k \in DOMAIN s : s[k] = d
      BY <1>2, <2>2 DEF Ids
    <3>2. ~(k + 1 \in 2 .. Len(r))
      <4>1. ASSUME k + 1 \in 2 .. Len(r) PROVE FALSE
        <5>1. r[k + 1] = s[(k + 1) - 1] /\ (k + 1) - 1 = k /\ k + 1 \in DOMAIN r
          BY <1>6, <1>5, <3>1, <4>1
        <5>2. r[k + 1] = d
          BY <3>1, <5>1
        <5> QED
          BY <1>11, <5>1, <5>2 DEF Members
      <4> QED
        BY <4>1
    <3>3. Len(s) >= Capacity /\ k = Len(s) /\ Len(r) = Len(s) /\ Len(s) = Capacity
      BY <1>1, <1>2, <1>6, <1>5, <3>1, <3>2
    <3>4. ASSUME NEW i \in DOMAIN r PROVE r[i] \in others'[p][d]
      <4>1. CASE i = 1
        BY <1>5, <1>7, <4>1
      <4>2. CASE i # 1
        <5>1. i \in 2 .. Len(r)
          BY <1>5, <3>4, <4>2
        <5>2. i - 1 \in DOMAIN s /\ r[i] = s[i - 1] /\ i - 1 < k
          BY <1>6, <1>5, <3>3, <5>1
        <5> QED
          BY <1>7, <1>9, <3>1, <5>2
      <4> QED
        BY <4>1, <4>2
    <3>5. Distinct(r)
      BY <1>1, <1>2, <1>3, <1>4, RememberedDistinct
    <3>6. Len(r) <= Cardinality(others'[p][d])
      BY <1>5, <1>8, <3>4, <3>5, DistinctBound DEF Members
    <3>7. Cardinality(others'[p][d]) \in Nat
      BY <1>8, FS_CardinalityType
    <3> QED
      BY <1>1, <3>3, <3>6, <3>7
  <2> QED
    BY <2>1, <2>2
<1>12. Ids(p)' = Members(r)
  BY <1>7 DEF Ids, Members
<1> QED
  BY <1>7, <1>10, <1>11, <1>12 DEF Recalls, Forgotten

(* A peer takes an id, for a run of the method or not. *)
LEMMA TakeStep ==
  ASSUME MemoryInv, TypeInv', NEW p \in Peer, NEW c \in Call, TakeId(p, c),
         \/ runs' = runs
         \/ runs' = [runs EXCEPT ![c][p] = @ + 1]
  PROVE  MemoryInv'
<1>1. TypeOK /\ Capacity \in Nat \ {0}
  BY DEF MemoryInv, TypeInv
<1>2. PICK s \in Seq(Call) : s = recent[p]
  BY <1>1 DEF TypeOK
<1>3. PICK r : r = Remembered(s, c)
  OBVIOUS
<1>4. /\ Distinct(s) /\ Len(s) <= Capacity /\ Len(s) \in Nat
      /\ \A i \in DOMAIN s : s[i] # c
  BY <1>2 DEF MemoryInv, IdsFit, TakeId, Ids
<1>5. /\ r \in Seq(Call)
      /\ Len(r) = IF Len(s) >= Capacity THEN Len(s) ELSE Len(s) + 1
      /\ r[1] = c
  BY <1>3, <1>4, RememberedFacts
<1>6. Distinct(r)
  BY <1>3, <1>4, RememberedDistinct
<1>7. Len(r) <= Capacity /\ Len(r) \in Nat /\ 1 \in DOMAIN r
  BY <1>1, <1>4, <1>5
<1>8. /\ recent'[p] = r
      /\ \A q \in Peer \ {p} : recent'[q] = recent[q] /\ others'[q] = others[q]
  BY <1>1, <1>2, <1>3 DEF TypeOK, TakeId
<1>9. IdsFit'
  <2>1. \A q \in Peer : Distinct(recent'[q]) /\ Len(recent'[q]) <= Capacity
    BY <1>6, <1>7, <1>8 DEF MemoryInv, IdsFit
  <2> QED
    BY <2>1 DEF IdsFit, Distinct
<1>10. \A d \in Call : others'[p][d] = IF d # c /\ runs[d][p] > 0 THEN others[p][d] \cup {c} ELSE {}
  BY <1>1 DEF TypeOK, TakeId
<1>11. OthersFinite'
  <2>1. ASSUME NEW q \in Peer, NEW d \in Call PROVE IsFiniteSet(others'[q][d])
    <3>1. IsFiniteSet(others[q][d])
      BY DEF MemoryInv, OthersFinite
    <3>2. IsFiniteSet(others[q][d] \cup {c}) /\ IsFiniteSet({})
      BY <3>1, FS_AddElement, FS_EmptySet
    <3>3. others'[q][d] \in {others[q][d], others[q][d] \cup {c}, {}}
      BY <1>8, <1>10
    <3> QED
      BY <3>1, <3>2, <3>3
  <2> QED
    BY <2>1 DEF OthersFinite
<1>12. ASSUME NEW d \in Call, NEW q \in Peer, d # c \/ q # p PROVE runs'[d][q] = runs[d][q]
  BY <1>1, <1>12 DEF TypeOK
<1>13. ASSUME NEW d \in Call, NEW q \in Peer, runs'[d][q] > 0 PROVE Recalls(d, q)'
  <2>1. CASE q # p
    <3>1. Recalls(d, q)
      BY <1>12, <1>13, <2>1 DEF MemoryInv
    <3>2. recent'[q] = recent[q] /\ others'[q] = others[q]
      BY <1>8, <2>1
    <3> QED
      BY <3>1, <3>2 DEF Recalls, Ids, Forgotten
  <2>2. CASE q = p /\ d # c
    <3>1. runs[d][p] > 0
      BY <1>12, <1>13, <2>2
    <3>2. Recalls(d, p)'
      BY <2>2, <3>1, TakeRecalls
    <3> QED
      BY <2>2, <3>2
  <2>3. CASE q = p /\ d = c
    <3>1. \A i \in DOMAIN r : r[i] = c => i = 1
      BY <1>5, <1>6, <1>7 DEF Distinct
    <3>2. \A i, j \in DOMAIN r : r[i] = c => ~(j < i)
      BY <1>5, <3>1
    <3>3. c \in Ids(p)'
      BY <1>5, <1>7, <1>8 DEF Ids
    <3> QED
      BY <1>8, <2>3, <3>2, <3>3 DEF Recalls
  <2> QED
    BY <2>1, <2>2, <2>3
<1> QED
  BY <1>9, <1>11, <1>13 DEF MemoryInv

(* A step that neither runs a method nor takes an id. *)
LEMMA MemoryUnchanged ==
  ASSUME MemoryInv, TypeInv', UNCHANGED <<recent, others, runs>>
  PROVE  MemoryInv'
BY DEF MemoryInv, IdsFit, OthersFinite, Recalls, Forgotten, Ids, Distinct

(* The steps that take an id; only two of them run a method. *)
LEMMA RequestTakes ==
  ASSUME TypeOK, NEW m \in requests, RequestNext(m)
  PROVE  \/ UNCHANGED <<recent, others, runs>>
         \/ /\ TakeId(m[3], m[1])
            /\ runs' = runs \/ runs' = [runs EXCEPT ![m[1]][m[3]] = @ + 1]
BY DEF RequestNext, DropRequest, RunMethod, Delegate, RunMethodThrows, MethodNotFound,
   ScopeNotFound, runVars

LEMMA MemoryStep == MemoryInv /\ [Next]_vars => MemoryInv'
<1> SUFFICES ASSUME MemoryInv, [Next]_vars PROVE MemoryInv'
  OBVIOUS
<1>1. TypeOK /\ TypeInv'
  BY TypeStep DEF MemoryInv, TypeInv
<1>2. CASE UNCHANGED <<recent, others, runs>>
  BY <1>1, <1>2, MemoryUnchanged
<1>3. ASSUME NEW c \in Call, CallerNext(c) PROVE UNCHANGED <<recent, others, runs>>
  BY <1>3 DEF CallerNext, FireAndForget, Issue, TimeOut, GetResult, Retry, GiveUp, FailCallback,
     runVars
<1>4. ASSUME NEW p \in Peer, RegisterMethod(p) \/ UnregisterMethod(p)
      PROVE UNCHANGED <<recent, others, runs>>
  BY <1>4 DEF RegisterMethod, UnregisterMethod, runVars
<1>5. ASSUME NEW m \in requests, RequestNext(m) PROVE MemoryInv'
  <2>1. m[1] \in Call /\ m[3] \in Peer
    BY <1>1 DEF TypeOK
  <2>2. CASE TakeId(m[3], m[1]) /\ (runs' = runs \/ runs' = [runs EXCEPT ![m[1]][m[3]] = @ + 1])
    BY <1>1, <2>1, <2>2, TakeStep
  <2> QED
    BY <1>1, <1>2, <1>5, <2>2, RequestTakes
<1>6. ASSUME NEW a \in answers, HandleResponse(a) PROVE MemoryInv'
  <2>1. a[1] \in Call /\ CallerOf[a[1]] \in Peer
    BY <1>1 DEF TypeOK
  <2>2. TakeId(CallerOf[a[1]], a[1]) /\ runs' = runs
    BY <1>6 DEF HandleResponse, runVars
  <2> QED
    BY <1>1, <2>1, <2>2, TakeStep
<1>7. ASSUME NEW m \in requests, LoseRequest(m) PROVE UNCHANGED <<recent, others, runs>>
  BY <1>7 DEF LoseRequest, runVars
<1>8. ASSUME NEW a \in answers, DropAnswer(a) \/ LoseAnswer(a)
      PROVE  UNCHANGED <<recent, others, runs>>
  BY <1>8 DEF DropAnswer, LoseAnswer, runVars
<1>9. CASE Idle \/ UNCHANGED vars
  BY <1>2, <1>9 DEF Idle, vars, runVars
<1> QED
  BY <1>2, <1>3, <1>4, <1>5, <1>6, <1>7, <1>8, <1>9 DEF Next, AnswerNext

LEMMA MemoryInit == Init => MemoryInv
<1> SUFFICES ASSUME Init PROVE MemoryInv
  OBVIOUS
<1>1. TypeInv
  BY DEF Init, TypeInv, TypeOK
<1>2. IdsFit
  BY DEF Init, IdsFit, Distinct
<1>3. OthersFinite
  BY FS_EmptySet DEF Init, OthersFinite
<1>4. \A c \in Call, q \in Peer : runs[c][q] = 0
  BY DEF Init
<1> QED
  BY <1>1, <1>2, <1>3, <1>4 DEF MemoryInv

(* What the invariant says when a peer takes the id of a call. *)
LEMMA RunForgotten ==
  ASSUME MemoryInv, NEW c \in Call, NEW q \in Peer, TakeId(q, c)
  PROVE  runs[c][q] = 0 \/ Forgotten(c, q)
<1>1. runs[c][q] \in Nat
  BY DEF MemoryInv, TypeInv, TypeOK
<1> QED
  BY <1>1 DEF MemoryInv, Recalls, TakeId

(* However many calls there are: a peer runs a method again for a call only after it took as
   many other ids as its set holds since it last took that of the call. *)
THEOREM RepeatsAreForgotten == Spec => RepeatsOnlyForgotten
<1>1. Init => MemoryInv
  BY MemoryInit
<1>2. MemoryInv /\ [Next]_vars => MemoryInv'
  BY MemoryStep
<1> DEFINE Repeats == \A c \in Call, q \in Peer :
                        runs'[c][q] > runs[c][q] => runs[c][q] = 0 \/ Forgotten(c, q)
<1>3. MemoryInv /\ [Next]_vars => [Repeats]_vars
  <2> SUFFICES ASSUME MemoryInv, [Next]_vars, NEW c \in Call, NEW q \in Peer,
                      runs'[c][q] > runs[c][q]
               PROVE  runs[c][q] = 0 \/ Forgotten(c, q)
    OBVIOUS
  <2>1. TypeOK
    BY DEF MemoryInv, TypeInv
  <2>2. runs' # runs
    <3>1. runs[c][q] \in Nat
      BY <2>1 DEF TypeOK
    <3> QED
      BY <3>1
  <2>3. PICK m \in requests : RequestNext(m)
    BY <2>2 DEF Next, CallerNext, FireAndForget, Issue, TimeOut, GetResult, Retry, GiveUp,
       FailCallback, RegisterMethod, UnregisterMethod, LoseRequest, AnswerNext, DropAnswer,
       HandleResponse, LoseAnswer, Idle, vars, runVars
  <2>4. m[1] \in Call /\ m[3] \in Peer
    BY <2>1 DEF TypeOK
  <2>5. TakeId(m[3], m[1]) /\ runs' = [runs EXCEPT ![m[1]][m[3]] = @ + 1]
    BY <2>1, <2>2, <2>3, RequestTakes
  <2>6. c = m[1] /\ q = m[3]
    <3>1. runs'[c][q] # runs[c][q]
      <4>1. runs[c][q] \in Nat
        BY <2>1 DEF TypeOK
      <4> QED
        BY <4>1
    <3> QED
      BY <2>1, <2>4, <2>5, <3>1 DEF TypeOK
  <2> QED
    BY <2>5, <2>6, RunForgotten
<1> HIDE DEF Repeats
<1>4. [][Repeats]_vars => RepeatsOnlyForgotten
  BY PTL DEF Repeats, RepeatsOnlyForgotten
<1> QED
  BY <1>1, <1>2, <1>3, <1>4, PTL DEF Spec

-----------------------------------------------------------------------------
(* The calls are what RemoteCall promises.                                  *)

HasResult(c) == \E q \in Peer : <<c, q>> \in succeeded

(* Requests are of calls that were made, and a result is one that a run gave. *)
RequestsMade    == \A m \in requests : state[m[1]] # "idle"
AnswersFromRuns == \A a \in answers : a[3] = "json" => HasResult(a[1])
ResultsFromRuns == \A c \in Call : result[c] = "json" => HasResult(c)

OriginInv == RequestsMade /\ AnswersFromRuns /\ ResultsFromRuns

(* A caller sends requests, and no result is made up by an attempt. *)
LEMMA CallerOrigin ==
  ASSUME TypeOK, OriginInv, NEW c \in Call, CallerNext(c)
  PROVE  OriginInv'
<1>1. UNCHANGED <<answers, succeeded>>
  BY DEF CallerNext, FireAndForget, Issue, TimeOut, GetResult, Retry, GiveUp, FailCallback,
     netVars, runVars
<1>2. state' \in [Call -> {"idle", "sent", "waiting", "failing", "returned", "failed"}]
      /\ state'[c] # "idle" /\ \A d \in Call : state[d] # "idle" => state'[d] # "idle"
  BY DEF TypeOK, CallerNext, FireAndForget, Issue, TimeOut, GetResult, Retry, GiveUp,
     FailCallback, Attempt
<1>3. \A m \in requests' : m \in requests \/ m[1] = c
  BY DEF CallerNext, FireAndForget, Issue, TimeOut, GetResult, Retry, GiveUp, FailCallback,
     Attempt, Send, netVars
<1>4. \A d \in Call : result'[d] = "json" => result[d] = "json"
  BY DEF TypeOK, CallerNext, FireAndForget, Issue, TimeOut, GetResult, Retry, GiveUp,
     FailCallback, Attempt
<1>5. RequestsMade'
  <2>1. ASSUME NEW m \in requests' PROVE state'[m[1]] # "idle"
    <3>1. CASE m[1] = c
      BY <1>2, <3>1
    <3>2. CASE m \in requests
      BY <1>2, <3>2 DEF TypeOK, OriginInv, RequestsMade
    <3> QED
      BY <1>3, <3>1, <3>2
  <2> QED
    BY <2>1 DEF RequestsMade
<1>6. AnswersFromRuns'
  BY <1>1 DEF OriginInv, AnswersFromRuns, HasResult
<1>7. ResultsFromRuns'
  BY <1>1, <1>4 DEF OriginInv, ResultsFromRuns, HasResult
<1> QED
  BY <1>5, <1>6, <1>7 DEF OriginInv

(* An answer with a result is sent by the step that ran the method. *)
LEMMA RequestOrigin ==
  ASSUME TypeOK, OriginInv, NEW m \in requests, RequestNext(m) \/ LoseRequest(m)
  PROVE  OriginInv'
<1>1. m[1] \in Call /\ m[3] \in Peer
  BY DEF TypeOK
<1>2. UNCHANGED <<state, result>> /\ requests' \subseteq requests /\ succeeded \subseteq succeeded'
  BY DEF RequestNext, DropRequest, RunMethod, Delegate, RunMethodThrows, MethodNotFound,
     ScopeNotFound, LoseRequest, callerVars, runVars
<1>3. RequestsMade'
  BY <1>2 DEF OriginInv, RequestsMade
<1>4. \A c : HasResult(c) => HasResult(c)'
  BY <1>2 DEF HasResult
<1>5. ResultsFromRuns'
  BY <1>2, <1>4 DEF OriginInv, ResultsFromRuns
<1>6. ASSUME NEW a \in answers', a[3] = "json", a \notin answers PROVE HasResult(a[1])'
  <2>1. CASE RunMethod(m)
    <3>1. a[1] = m[1]
      BY <1>6, <2>1 DEF RunMethod, Delegate, Answered
    <3>2. <<m[1], m[3]>> \in succeeded'
      BY <2>1 DEF RunMethod, Delegate
    <3> QED
      BY <1>1, <3>1, <3>2 DEF HasResult
  <2>2. CASE ~RunMethod(m)
    BY <1>6, <2>2 DEF RequestNext, DropRequest, RunMethodThrows, Delegate, MethodNotFound,
       ScopeNotFound, LoseRequest, Answered
  <2> QED
    BY <2>1, <2>2
<1>7. AnswersFromRuns'
  BY <1>4, <1>6 DEF OriginInv, AnswersFromRuns
<1> QED
  BY <1>3, <1>5, <1>7 DEF OriginInv

(* The result of a promise is what its answer carried. *)
LEMMA AnswerOrigin ==
  ASSUME TypeOK, OriginInv, NEW a \in answers, AnswerNext(a) \/ LoseAnswer(a)
  PROVE  OriginInv'
<1>1. UNCHANGED <<state, requests, succeeded>> /\ answers' \subseteq answers
  BY DEF AnswerNext, DropAnswer, HandleResponse, SolvePromise, LoseAnswer, callerVars, runVars
<1>2. RequestsMade' /\ AnswersFromRuns'
  BY <1>1 DEF OriginInv, RequestsMade, AnswersFromRuns, HasResult
<1>3. ASSUME NEW c \in Call, result'[c] = "json" PROVE HasResult(c)
  <2>1. result[c] = "json" \/ (c = a[1] /\ a[3] = "json")
    BY <1>3 DEF TypeOK, AnswerNext, DropAnswer, HandleResponse, SolvePromise, LoseAnswer, callerVars
  <2> QED
    BY <2>1 DEF OriginInv, AnswersFromRuns, ResultsFromRuns
<1>4. ResultsFromRuns'
  BY <1>1, <1>3 DEF ResultsFromRuns, HasResult
<1> QED
  BY <1>2, <1>4 DEF OriginInv

LEMMA OriginStep == TypeOK /\ OriginInv /\ [Next]_vars => OriginInv'
<1> SUFFICES ASSUME TypeOK, OriginInv, [Next]_vars PROVE OriginInv'
  OBVIOUS
<1>1. CASE UNCHANGED <<state, result, requests, answers, succeeded>>
  BY <1>1 DEF OriginInv, RequestsMade, AnswersFromRuns, ResultsFromRuns, HasResult
<1>2. ASSUME NEW p \in Peer, RegisterMethod(p) \/ UnregisterMethod(p) PROVE OriginInv'
  BY <1>1, <1>2 DEF RegisterMethod, UnregisterMethod, callerVars, netVars, runVars
<1>3. CASE Idle \/ UNCHANGED vars
  BY <1>1, <1>3 DEF Idle, vars, callerVars, netVars, runVars
<1> QED
  BY <1>2, <1>3, CallerOrigin, RequestOrigin, AnswerOrigin DEF Next

(* What a call's status is, and which steps leave it. *)
LEMMA StatusFacts ==
  ASSUME TypeOK, NEW c \in Call
  PROVE  /\ state[c] = "idle" <=> Status[c] = "idle"
         /\ state[c] \in {"sent", "waiting", "failing"} <=> Status[c] = "pending"
         /\ state[c] = "returned" <=> Status[c] = "returned"
         /\ state[c] = "failed" <=> Status[c] = "failed"
BY DEF TypeOK, Status

(* A caller's step is the issue or the end of its call, or a stutter. *)
LEMMA CallerImplements ==
  ASSUME TypeOK, ResultsFromRuns, NEW c \in Call, CallerNext(c)
  PROVE  [Abstract!Next]_Abstract!vars
<1>1. UNCHANGED <<runs, succeeded>> /\ ForgottenRuns' = ForgottenRuns
  BY DEF ForgottenRuns, Forgotten, CallerNext, FireAndForget, Issue, TimeOut, GetResult, Retry,
     GiveUp, FailCallback, runVars
<1>2. CASE FireAndForget(c) \/ Issue(c)
  <2>1. PICK s \in {"sent", "waiting"} : state[c] = "idle" /\ state' = [state EXCEPT ![c] = s]
    BY <1>2 DEF FireAndForget, Issue, Attempt
  <2>2. Status[c] = "idle" /\ Status' = [Status EXCEPT ![c] = "pending"]
    BY <2>1 DEF TypeOK, Status
  <2> QED
    BY <1>1, <2>2 DEF Abstract!Next, Abstract!Issue
<1>3. CASE TimeOut(c) \/ Retry(c)
  <2>1. PICK s \in {"waiting", "failing"} : /\ state[c] \in {"waiting", "failing"}
                                            /\ state' = [state EXCEPT ![c] = s]
    BY <1>3 DEF TimeOut, Retry, Attempt
  <2>2. Status' = Status
    BY <2>1 DEF TypeOK, Status
  <2> QED
    BY <1>1, <2>2 DEF Abstract!vars
<1>4. CASE GetResult(c) /\ result[c] = "null"
  <2>1. state[c] = "waiting" /\ state' = [state EXCEPT ![c] = "failing"]
    BY <1>4 DEF GetResult
  <2>2. Status' = Status
    BY <2>1 DEF TypeOK, Status
  <2> QED
    BY <1>1, <2>2 DEF Abstract!vars
<1>5. CASE GetResult(c) /\ result[c] # "null"
  <2>1. state[c] = "waiting" /\ state' = [state EXCEPT ![c] = "returned"]
    BY <1>5 DEF GetResult
  <2>2. Status[c] = "pending" /\ Status' = [Status EXCEPT ![c] = "returned"]
    BY <2>1 DEF TypeOK, Status
  <2>3. result[c] = "json"
    BY <1>5 DEF TypeOK, GetResult, Value
  <2>4. \E q \in Peer : <<c, q>> \in succeeded
    BY <2>3 DEF ResultsFromRuns, HasResult
  <2> QED
    BY <1>1, <2>2, <2>4 DEF Abstract!Next, Abstract!Return
<1>6. CASE GiveUp(c)
  <2>1. state[c] = "failing" /\ state' = [state EXCEPT ![c] = "failed"]
    BY <1>6 DEF GiveUp, FailCallback
  <2>2. Status[c] = "pending" /\ Status' = [Status EXCEPT ![c] = "failed"]
    BY <2>1 DEF TypeOK, Status
  <2> QED
    BY <1>1, <2>2 DEF Abstract!Next, Abstract!Fail
<1> QED
  BY <1>2, <1>3, <1>4, <1>5, <1>6 DEF CallerNext

(* A callee runs the method of a call that was made, and that it has not run or has
   forgotten; now it knows the call. *)
LEMMA RunImplements ==
  ASSUME MemoryInv, RequestsMade, NEW m \in requests, RunMethod(m) \/ RunMethodThrows(m)
  PROVE  Abstract!Next
<1>1. TypeOK /\ m[1] \in Call /\ m[3] \in Peer
  BY DEF MemoryInv, TypeInv, TypeOK
<1>2. PICK c \in Call, p \in Peer : c = m[1] /\ p = m[3]
  BY <1>1
<1>3. TakeId(p, c) /\ runs' = [runs EXCEPT ![c][p] = @ + 1]
  BY <1>2 DEF RunMethod, Delegate, RunMethodThrows
<1>4. runs[c][p] = 0 \/ <<c, p>> \in ForgottenRuns
  BY <1>3, RunForgotten DEF ForgottenRuns
<1>5. succeeded' \in {succeeded, succeeded \cup {<<c, p>>}}
  BY <1>2 DEF RunMethod, RunMethodThrows
<1>6. Status' = Status
  BY DEF RunMethod, RunMethodThrows, callerVars, Status
<1>7. Status[c] # "idle"
  BY <1>1, <1>2, StatusFacts DEF RequestsMade
<1>8. <<c, p>> \notin ForgottenRuns'
  <2>1. others'[p][c] = {}
    BY <1>1, <1>3 DEF TypeOK, TakeId
  <2>2. ~Forgotten(c, p)'
    BY <2>1, FS_EmptySet DEF Forgotten
  <2> QED
    BY <2>2 DEF ForgottenRuns
<1>9. ForgottenRuns' \subseteq Call \X Peer
  BY DEF ForgottenRuns
<1>10. Abstract!Run(c, p)
  BY <1>3, <1>4, <1>5, <1>6, <1>7, <1>8, <1>9 DEF Abstract!Run
<1> QED
  BY <1>2, <1>10 DEF Abstract!Next

LEMMA StepImplements == MemoryInv /\ OriginInv /\ [Next]_vars => [Abstract!Next]_Abstract!vars
<1> SUFFICES ASSUME MemoryInv, OriginInv, [Next]_vars PROVE [Abstract!Next]_Abstract!vars
  OBVIOUS
<1>1. TypeOK /\ RequestsMade /\ ResultsFromRuns
  BY DEF MemoryInv, TypeInv, OriginInv
<1>2. ASSUME UNCHANGED <<state, runs, succeeded>> PROVE Abstract!Next
  <2>1. Status' = Status /\ ForgottenRuns' \subseteq Call \X Peer
    BY <1>2 DEF Status, ForgottenRuns
  <2> QED
    BY <1>2, <2>1 DEF Abstract!Next, Abstract!Forget
<1>3. ASSUME NEW m \in requests,
             DropRequest(m) \/ MethodNotFound(m) \/ ScopeNotFound(m) \/ LoseRequest(m)
      PROVE UNCHANGED <<state, runs, succeeded>>
  BY <1>3 DEF DropRequest, MethodNotFound, ScopeNotFound, LoseRequest, callerVars, runVars
<1>4. ASSUME NEW a \in answers, AnswerNext(a) \/ LoseAnswer(a)
      PROVE UNCHANGED <<state, runs, succeeded>>
  BY <1>4 DEF AnswerNext, DropAnswer, HandleResponse, SolvePromise, LoseAnswer, callerVars, runVars
<1>5. ASSUME NEW p \in Peer, RegisterMethod(p) \/ UnregisterMethod(p)
      PROVE UNCHANGED <<state, runs, succeeded>>
  BY <1>5 DEF RegisterMethod, UnregisterMethod, callerVars, runVars
<1>6. CASE Idle \/ UNCHANGED vars
  BY <1>2, <1>6 DEF Idle, vars, callerVars, runVars
<1> QED
  BY <1>1, <1>2, <1>3, <1>4, <1>5, <1>6, CallerImplements, RunImplements DEF Next, RequestNext

(* However many calls there are, they are what RemoteCall promises: a peer runs a call only
   after it was made, and again only when it has forgotten the run; the call ends at most
   once, with a result only if a run of the method gave it. *)
THEOREM RemoteCallRefinement == Spec => IsRemoteCall
<1> DEFINE IInv == MemoryInv /\ OriginInv
<1>1. Init => IInv
  <2>1. Init => OriginInv
    BY DEF Init, OriginInv, RequestsMade, AnswersFromRuns, ResultsFromRuns
  <2> QED
    BY <2>1, MemoryInit
<1>2. IInv /\ [Next]_vars => IInv'
  BY MemoryStep, OriginStep DEF MemoryInv, TypeInv
<1>3. Init => Abstract!Init
  <2> SUFFICES ASSUME Init PROVE Abstract!Init
    OBVIOUS
  <2>1. \A c \in Call, q \in Peer : others[q][c] = {}
    BY DEF Init
  <2>2. \A c \in Call, q \in Peer : ~Forgotten(c, q)
    <3>1. Cardinality({}) = 0 /\ ~(0 >= Capacity)
      BY FS_EmptySet
    <3> QED
      BY <2>1, <3>1 DEF Forgotten
  <2>3. ForgottenRuns = {}
    BY <2>2 DEF ForgottenRuns
  <2> QED
    BY <2>3 DEF Init, Abstract!Init, Status
<1>4. IInv /\ [Next]_vars => [Abstract!Next]_Abstract!vars
  BY StepImplements
<1> HIDE DEF IInv
<1> QED
  BY <1>1, <1>2, <1>3, <1>4, PTL DEF Spec, IsRemoteCall, Abstract!Spec

-----------------------------------------------------------------------------
(* A caller that waits long enough.                                         *)

(* What a peer remembers is what it did, and the new id. *)
LEMMA IdsStep ==
  ASSUME TypeOK, NEW p \in Peer, NEW c \in Call, TakeId(p, c)
  PROVE  \A q \in Peer : Ids(q)' \subseteq Ids(q) \cup (IF q = p THEN {c} ELSE {})
<1>1. PICK s \in Seq(Call) : s = recent[p]
  BY DEF TypeOK
<1>2. PICK r : r = Remembered(s, c)
  OBVIOUS
<1>3. recent'[p] = r /\ \A q \in Peer : q # p => recent'[q] = recent[q]
  BY <1>1, <1>2 DEF TypeOK, TakeId
<1>4. \A i \in DOMAIN s : s[i] # c
  BY <1>1 DEF TakeId, Ids
<1>5. /\ r \in Seq(Call) /\ r[1] = c
      /\ \A i \in 2 .. Len(r) : i - 1 \in 1 .. Len(s) /\ r[i] = s[i - 1]
  BY <1>2, <1>4, RememberedFacts
<1>6. \A i \in DOMAIN r : r[i] = c \/ (i - 1 \in DOMAIN s /\ r[i] = s[i - 1])
  <2>1. \A i \in DOMAIN r : i = 1 \/ i \in 2 .. Len(r)
    BY <1>5
  <2>2. ASSUME NEW i \in DOMAIN r PROVE r[i] = c \/ (i - 1 \in DOMAIN s /\ r[i] = s[i - 1])
    <3>1. CASE i = 1
      BY <1>5, <3>1
    <3>2. CASE i \in 2 .. Len(r)
      <4>1. i - 1 \in 1 .. Len(s) /\ r[i] = s[i - 1]
        BY <1>5, <3>2
      <4> QED
        BY <4>1
    <3> QED
      BY <2>1, <3>1, <3>2
  <2> QED
    BY <2>2
<1>7. Ids(p)' \subseteq Ids(p) \cup {c}
  BY <1>1, <1>3, <1>6 DEF Ids
<1>8. ASSUME NEW q \in Peer, q # p PROVE Ids(q)' = Ids(q)
  BY <1>3, <1>8 DEF Ids
<1> QED
  BY <1>7, <1>8

(* Call c is awaited by somebody else than the peer it is addressed to. *)
Outward(c) == Targets[c] # {} /\ CallerOf[c] \notin Targets[c]

RequestsOf(c) == {m \in requests : m[1] = c}
AnswersOf(c)  == {a \in answers : a[1] = c}

Fresh(c) == \A q \in Peer : c \notin Ids(q)

(* The attempts before this one were lost, and so was this one, or it is on its way. *)
NotReached(c) ==
  /\ Fresh(c) /\ AnswersOf(c) = {}
  /\ lost[c] > Retries - left[c] \/ (RequestsOf(c) # {} /\ lost[c] = Retries - left[c])

(* The callee has run the method, and its answer is on the way. *)
Reached(c) == AnswersOf(c) # {} /\ c \notin Ids(CallerOf[c])

(* How far a call is that nothing but lost requests has befallen. *)
Progress(c) ==
  /\ \A a \in AnswersOf(c) : a[3] = "json"
  /\ result[c] # "null"
  /\ state[c] = "idle" => Fresh(c) /\ ~OnItsWay(c) /\ left[c] = Retries
  /\ state[c] = "waiting" /\ result[c] = "none" => NotReached(c) \/ Reached(c)
  /\ state[c] = "failing" => Fresh(c) /\ ~OnItsWay(c) /\ lost[c] > Retries - left[c]
  /\ state[c] = "failed" => lost[c] > Retries

PatientInv == \A c \in Patient : faults[c] = 0 => Progress(c)

RequestsAddressed == \A m \in requests : m[3] \in Targets[m[1]]

(* A step that has nothing to do with call c. *)
LEMMA ProgressUntouched ==
  ASSUME NEW c \in Call, Progress(c),
         state'[c] = state[c], left'[c] = left[c], result'[c] = result[c], lost'[c] = lost[c],
         RequestsOf(c)' = RequestsOf(c), AnswersOf(c)' = AnswersOf(c),
         CallerOf[c] \in Peer, \A q \in Peer : c \in Ids(q)' => c \in Ids(q)
  PROVE  Progress(c)'
<1>1. Fresh(c) => Fresh(c)'
  BY DEF Fresh
<1>2. OnItsWay(c) <=> RequestsOf(c) # {} \/ AnswersOf(c) # {}
  BY DEF OnItsWay, RequestsOf, AnswersOf
<1>3. OnItsWay(c)' <=> RequestsOf(c)' # {} \/ AnswersOf(c)' # {}
  BY DEF OnItsWay, RequestsOf, AnswersOf
<1>4. NotReached(c) => NotReached(c)'
  BY <1>1 DEF NotReached
<1>5. Reached(c) => Reached(c)'
  BY DEF Reached
<1> QED
  BY <1>1, <1>2, <1>3, <1>4, <1>5 DEF Progress

(* Each attempt sends a request or sees it lost. *)
LEMMA AttemptProgress ==
  ASSUME TypeOK, NEW c \in Call, Outward(c), NEW n \in 0 .. Retries, Attempt(c, n),
         left'[c] = n, UNCHANGED <<answers, recent>>,
         Fresh(c), ~OnItsWay(c), lost[c] >= Retries - n
  PROVE  Progress(c)'
<1>1. state'[c] = "waiting" /\ result'[c] = "none"
  BY DEF TypeOK, Attempt
<1>2. Fresh(c)' /\ AnswersOf(c)' = {}
  BY DEF Fresh, Ids, AnswersOf, OnItsWay
<1>3. lost'[c] > Retries - n \/ (RequestsOf(c)' # {} /\ lost'[c] = lost[c])
  <2>1. CASE Targets[c] \subseteq listening
    <3>1. PICK q \in Targets[c] : q \in listening
      BY <2>1 DEF Outward
    <3>2. <<c, n, q>> \in requests' /\ lost' = lost
      BY <2>1, <3>1 DEF Attempt, Send
    <3> QED
      BY <3>2 DEF RequestsOf
  <2>2. CASE ~(Targets[c] \subseteq listening)
    <3>1. lost'[c] = lost[c] + 1 /\ lost[c] \in Nat
      BY <2>2 DEF TypeOK, Attempt, Send
    <3> QED
      BY <3>1
  <2> QED
    BY <2>1, <2>2
<1>4. lost[c] \in Nat /\ Retries \in Nat /\ n \in Nat
  BY DEF TypeOK
<1>5. NotReached(c)'
  BY <1>2, <1>3, <1>4 DEF NotReached
<1> QED
  BY <1>1, <1>2, <1>5 DEF Progress

LEMMA CallerProgress ==
  ASSUME TypeInv, WaitsOnPromise, NEW c \in Patient, Outward(c), Progress(c), CallerNext(c)
  PROVE  Progress(c)'
<1>1. TypeOK /\ c \in Call /\ left[c] \in 0 .. Retries /\ lost[c] \in Nat /\ result[c] # "null"
  BY DEF TypeInv, TypeOK, Progress
<1>2. CASE FireAndForget(c)
  <2>1. state'[c] = "sent" /\ UNCHANGED <<answers, result>>
    BY <1>1, <1>2 DEF TypeOK, FireAndForget
  <2> QED
    BY <2>1 DEF Progress, AnswersOf
<1>3. CASE Issue(c)
  <2>1. Retries \in 0 .. Retries /\ lost[c] >= Retries - Retries
    BY <1>1
  <2>2. /\ Attempt(c, Retries) /\ left'[c] = Retries /\ Fresh(c) /\ ~OnItsWay(c)
        /\ UNCHANGED <<answers, recent>>
    BY <1>3 DEF Issue, Progress
  <2> QED
    BY <1>1, <2>1, <2>2, AttemptProgress
<1>4. CASE Retry(c)
  <2>1. left[c] - 1 \in 0 .. Retries /\ lost[c] >= Retries - (left[c] - 1)
    BY <1>1, <1>4 DEF Retry, Progress
  <2>2. /\ Attempt(c, left[c] - 1) /\ left'[c] = left[c] - 1 /\ Fresh(c) /\ ~OnItsWay(c)
        /\ UNCHANGED <<answers, recent>>
    BY <1>1, <1>4 DEF TypeOK, Retry, Progress
  <2> QED
    BY <1>1, <2>1, <2>2, AttemptProgress
<1>5. CASE TimeOut(c)
  <2>1. /\ state'[c] = "failing" /\ ~OnItsWay(c) /\ state[c] = "waiting" /\ result[c] = "none"
        /\ UNCHANGED <<left, result, requests, answers, recent, lost>>
    BY <1>1, <1>5 DEF TypeOK, TimeOut, netVars, faultVars
  <2>2. NotReached(c) /\ RequestsOf(c) = {}
    BY <2>1 DEF Progress, Reached, OnItsWay, RequestsOf, AnswersOf
  <2>3. Fresh(c)' /\ ~OnItsWay(c)' /\ lost'[c] > Retries - left'[c]
    BY <2>1, <2>2 DEF NotReached, Fresh, Ids, OnItsWay
  <2> QED
    BY <2>1, <2>3 DEF Progress, AnswersOf
<1>6. CASE GetResult(c)
  <2>1. state'[c] = "returned" /\ UNCHANGED <<result, answers>>
    BY <1>1, <1>6 DEF TypeOK, GetResult, netVars
  <2> QED
    BY <2>1 DEF Progress, AnswersOf
<1>7. CASE GiveUp(c)
  <2>1. /\ state'[c] = "failed" /\ left[c] = 0 /\ state[c] = "failing"
        /\ UNCHANGED <<result, answers, lost>>
    BY <1>1, <1>7 DEF TypeOK, GiveUp, FailCallback, netVars, faultVars
  <2>2. lost'[c] > Retries
    BY <1>1, <2>1 DEF Progress
  <2> QED
    BY <2>1, <2>2 DEF Progress, AnswersOf
<1> QED
  BY <1>2, <1>3, <1>4, <1>5, <1>6, <1>7 DEF CallerNext

(* The request is taken by a callee that does not know it yet, which answers, or is lost. *)
LEMMA RequestProgress ==
  ASSUME TypeInv, RequestsAddressed, NEW c \in Patient, Outward(c), Progress(c), faults'[c] = 0,
         NEW m \in requests, m[1] = c, RequestNext(m) \/ LoseRequest(m)
  PROVE  Progress(c)'
<1>1. /\ TypeOK /\ c \in Call /\ m[3] \in Peer /\ m[3] # CallerOf[c] /\ CallerOf[c] \in Peer
      /\ faults[c] \in Nat /\ lost[c] \in Nat /\ left[c] \in 0 .. Retries
  BY DEF TypeInv, TypeOK, RequestsAddressed, Outward
<1>2. state[c] \notin {"idle", "failing"} /\ state' = state /\ left' = left /\ result' = result
  BY DEF Progress, OnItsWay, RequestNext, DropRequest, RunMethod, RunMethodThrows,
     MethodNotFound, ScopeNotFound, LoseRequest, callerVars
<1>3. CASE DropRequest(m)
  <2>1. UNCHANGED <<answers, recent, lost>> /\ ~Fresh(c)
    BY <1>1, <1>3 DEF DropRequest, faultVars, Fresh
  <2>2. Reached(c) => Reached(c)'
    BY <2>1 DEF Reached, AnswersOf, Ids
  <2> QED
    BY <1>2, <2>1, <2>2 DEF Progress, NotReached, AnswersOf
<1>4. CASE RunMethod(m)
  <2>1. /\ answers' = Answered(m, "json") /\ lost' = lost
        /\ TakeId(m[3], c)
    BY <1>4 DEF RunMethod, faultVars
  <2>2. c \in Ids(CallerOf[c])' => c \in Ids(CallerOf[c])
    BY <1>1, <2>1, IdsStep
  <2>3. \A a \in AnswersOf(c)' : a[3] = "json"
    BY <2>1 DEF Answered, AnswersOf, Progress
  <2>4. ASSUME state[c] = "waiting", result[c] = "none" PROVE Reached(c)'
    <3>1. c \in Awaited
      BY <1>1, <2>4 DEF TypeInv
    <3>2. AnswersOf(c)' # {}
      <4>1. <<m[1], m[2], "json">> \in answers'
        BY <2>1, <3>1 DEF Answered
      <4> QED
        BY <4>1 DEF AnswersOf
    <3>3. c \notin Ids(CallerOf[c])
      BY <1>1, <2>4 DEF Progress, NotReached, Reached, Fresh
    <3> QED
      BY <2>2, <3>2, <3>3 DEF Reached
  <2> QED
    BY <1>2, <2>1, <2>3, <2>4 DEF Progress
<1>5. CASE RunMethodThrows(m) \/ MethodNotFound(m) \/ ScopeNotFound(m)
  <2>1. faults'[c] = faults[c] + 1
    BY <1>1, <1>5 DEF TypeOK, RunMethodThrows, MethodNotFound, ScopeNotFound
  <2> QED
    BY <1>1, <2>1
<1>6. CASE LoseRequest(m)
  <2>1. UNCHANGED <<answers, recent>> /\ lost'[c] = lost[c] + 1
    BY <1>1, <1>6 DEF TypeOK, LoseRequest
  <2>2. NotReached(c) => NotReached(c)'
    BY <1>1, <1>2, <2>1 DEF NotReached, Fresh, AnswersOf, Ids
  <2>3. Reached(c) => Reached(c)'
    BY <2>1 DEF Reached, AnswersOf, Ids
  <2> QED
    BY <1>1, <1>2, <2>1, <2>2, <2>3 DEF Progress, AnswersOf
<1> QED
  BY <1>3, <1>4, <1>5, <1>6 DEF RequestNext

(* The answer is taken by the caller, which waits for it. *)
LEMMA AnswerProgress ==
  ASSUME TypeInv, WaitsOnPromise, NEW c \in Patient, Progress(c), faults'[c] = 0,
         NEW a \in answers, a[1] = c, AnswerNext(a) \/ LoseAnswer(a)
  PROVE  Progress(c)'
<1>1. /\ TypeOK /\ c \in Call /\ faults[c] \in Nat /\ a[3] = "json"
  BY DEF TypeInv, TypeOK, Progress, AnswersOf
<1>2. /\ state[c] \notin {"idle", "failing"} /\ state' = state /\ left' = left
      /\ \A b \in AnswersOf(c)' : b \in AnswersOf(c)
  BY DEF Progress, OnItsWay, AnswersOf, AnswerNext, DropAnswer, HandleResponse, LoseAnswer,
     callerVars
<1>3. CASE DropAnswer(a)
  <2>1. UNCHANGED <<result, recent, lost>> /\ c \in Ids(CallerOf[c]) /\ AnswersOf(c) # {}
    BY <1>3 DEF DropAnswer, callerVars, faultVars, AnswersOf
  <2>2. ~NotReached(c) /\ ~Reached(c)
    BY <2>1 DEF NotReached, Reached
  <2> QED
    BY <1>2, <2>1, <2>2 DEF Progress
<1>4. CASE HandleResponse(a)
  <2>1. lost' = lost /\ result' = IF c \in promises THEN [result EXCEPT ![c] = "json"] ELSE result
    BY <1>1, <1>4 DEF HandleResponse, SolvePromise, faultVars
  <2>2. result'[c] # "null" /\ ~(state'[c] = "waiting" /\ result'[c] = "none")
    BY <1>1, <1>2, <2>1 DEF TypeOK, WaitsOnPromise, Progress
  <2> QED
    BY <1>2, <2>1, <2>2 DEF Progress
<1>5. CASE LoseAnswer(a)
  <2>1. faults'[c] = faults[c] + 1
    BY <1>1, <1>5 DEF TypeOK, LoseAnswer
  <2> QED
    BY <1>1, <2>1
<1> QED
  BY <1>3, <1>4, <1>5 DEF AnswerNext

(* A step for another call: no more than its id is put among those of a peer. *)
LEMMA OtherProgress ==
  ASSUME TypeInv, NEW c \in Patient, Progress(c),
         \/ \E d \in Call \ {c} : CallerNext(d)
         \/ \E m \in requests : m[1] # c /\ (RequestNext(m) \/ LoseRequest(m))
         \/ \E a \in answers : a[1] # c /\ (AnswerNext(a) \/ LoseAnswer(a))
         \/ \E p \in Peer : RegisterMethod(p) \/ UnregisterMethod(p)
         \/ Idle \/ UNCHANGED vars
  PROVE  Progress(c)'
<1>1. TypeOK /\ c \in Call /\ CallerOf[c] \in Peer
  BY DEF TypeInv
<1> DEFINE IdsKept == \A q \in Peer : c \in Ids(q)' => c \in Ids(q)
           Untouched == /\ state'[c] = state[c] /\ left'[c] = left[c]
                        /\ result'[c] = result[c] /\ lost'[c] = lost[c]
                        /\ RequestsOf(c)' = RequestsOf(c) /\ AnswersOf(c)' = AnswersOf(c)
<1>2. ASSUME recent' = recent PROVE IdsKept
  BY <1>2 DEF Ids
<1>3. ASSUME NEW d \in Call \ {c}, CallerNext(d) PROVE Untouched /\ IdsKept
  <2>1. UNCHANGED <<recent, answers>>
    BY <1>3 DEF CallerNext, FireAndForget, Issue, TimeOut, GetResult, Retry, GiveUp,
       FailCallback, netVars
  <2>2. state'[c] = state[c] /\ left'[c] = left[c] /\ result'[c] = result[c] /\ lost'[c] = lost[c]
    BY <1>1, <1>3 DEF TypeOK, CallerNext, FireAndForget, Issue, TimeOut, GetResult, Retry, GiveUp,
       FailCallback, Attempt, Send, faultVars
  <2>3. RequestsOf(c)' = RequestsOf(c)
    BY <1>3 DEF CallerNext, FireAndForget, Issue, TimeOut, GetResult, Retry, GiveUp, FailCallback,
       Attempt, Send, netVars, RequestsOf
  <2> QED
    BY <1>2, <2>1, <2>2, <2>3 DEF AnswersOf
<1>4. ASSUME NEW m \in requests, m[1] # c, RequestNext(m) \/ LoseRequest(m)
      PROVE  Untouched /\ IdsKept
  <2>1. m[1] \in Call /\ m[3] \in Peer
    BY <1>1 DEF TypeOK
  <2>2. UNCHANGED callerVars /\ lost'[c] = lost[c] /\ requests' = requests \ {m}
    BY <1>1, <1>4 DEF TypeOK, RequestNext, DropRequest, RunMethod, RunMethodThrows,
       MethodNotFound, ScopeNotFound, LoseRequest, faultVars
  <2>3. AnswersOf(c)' = AnswersOf(c)
    BY <1>4 DEF RequestNext, DropRequest, RunMethod, RunMethodThrows, MethodNotFound,
       ScopeNotFound, LoseRequest, Answered, AnswersOf
  <2>4. \/ recent' = recent
        \/ TakeId(m[3], m[1])
    BY <1>4 DEF RequestNext, DropRequest, RunMethod, RunMethodThrows, MethodNotFound,
       ScopeNotFound, LoseRequest
  <2>5. IdsKept
    BY <1>1, <1>2, <1>4, <2>1, <2>4, IdsStep
  <2>6. RequestsOf(c)' = RequestsOf(c)
    BY <1>4, <2>2 DEF RequestsOf
  <2> QED
    BY <2>2, <2>3, <2>5, <2>6 DEF callerVars
<1>5. ASSUME NEW a \in answers, a[1] # c, AnswerNext(a) \/ LoseAnswer(a)
      PROVE  Untouched /\ IdsKept
  <2>1. a[1] \in Call /\ CallerOf[a[1]] \in Peer
    BY <1>1 DEF TypeOK
  <2>2. UNCHANGED <<state, left, requests, lost>> /\ answers' = answers \ {a}
    BY <1>5 DEF AnswerNext, DropAnswer, HandleResponse, LoseAnswer, callerVars, faultVars
  <2>3. result'[c] = result[c]
    BY <1>1, <1>5 DEF TypeOK, AnswerNext, DropAnswer, HandleResponse, SolvePromise, LoseAnswer,
       callerVars
  <2>4. \/ recent' = recent
        \/ TakeId(CallerOf[a[1]], a[1])
    BY <1>5 DEF AnswerNext, DropAnswer, HandleResponse, LoseAnswer
  <2>5. IdsKept
    BY <1>1, <1>2, <1>5, <2>1, <2>4, IdsStep
  <2>6. RequestsOf(c)' = RequestsOf(c) /\ AnswersOf(c)' = AnswersOf(c)
    BY <1>5, <2>2 DEF RequestsOf, AnswersOf
  <2> QED
    BY <2>2, <2>3, <2>5, <2>6
<1>6. ASSUME UNCHANGED <<callerVars, netVars, recent, faultVars>> PROVE Untouched /\ IdsKept
  BY <1>2, <1>6 DEF callerVars, netVars, faultVars, RequestsOf, AnswersOf
<1>7. ASSUME NEW p \in Peer, RegisterMethod(p) \/ UnregisterMethod(p) PROVE Untouched /\ IdsKept
  BY <1>6, <1>7 DEF RegisterMethod, UnregisterMethod
<1>8. ASSUME Idle \/ UNCHANGED vars PROVE Untouched /\ IdsKept
  BY <1>6, <1>8 DEF Idle, vars
<1> HIDE DEF Untouched, IdsKept
<1>9. Untouched /\ IdsKept
  BY <1>3, <1>4, <1>5, <1>7, <1>8
<1> QED
  BY <1>1, <1>9, ProgressUntouched DEF Untouched, IdsKept

(* Faults are counted and never forgotten. *)
LEMMA FaultsGrow ==
  ASSUME TypeOK, [Next]_vars, NEW c \in Call, faults'[c] = 0
  PROVE  faults[c] = 0
<1>1. faults[c] \in Nat
  BY DEF TypeOK
<1>2. ASSUME NEW d \in Call, faults' = [faults EXCEPT ![d] = @ + 1] PROVE faults[c] = 0
  BY <1>1, <1>2 DEF TypeOK
<1>3. ASSUME NEW m \in requests, RequestNext(m) \/ LoseRequest(m) PROVE faults[c] = 0
  <2>1. m[1] \in Call
    BY DEF TypeOK
  <2> QED
    BY <1>2, <1>3, <2>1 DEF RequestNext, DropRequest, RunMethod, RunMethodThrows, MethodNotFound,
       ScopeNotFound, LoseRequest, faultVars
<1>4. ASSUME NEW a \in answers, AnswerNext(a) \/ LoseAnswer(a) PROVE faults[c] = 0
  <2>1. a[1] \in Call
    BY DEF TypeOK
  <2> QED
    BY <1>2, <1>4, <2>1 DEF AnswerNext, DropAnswer, HandleResponse, LoseAnswer, faultVars
<1>5. ASSUME NEW d \in Call, CallerNext(d) PROVE faults' = faults
  BY <1>5 DEF CallerNext, FireAndForget, Issue, TimeOut, GetResult, Retry, GiveUp, faultVars
<1> QED
  BY <1>3, <1>4, <1>5 DEF Next, RegisterMethod, UnregisterMethod, Idle, vars, faultVars

LEMMA AddressedStep == TypeOK /\ RequestsAddressed /\ [Next]_vars => RequestsAddressed'
<1> SUFFICES ASSUME TypeOK, RequestsAddressed, [Next]_vars PROVE RequestsAddressed'
  OBVIOUS
<1>1. ASSUME NEW c \in Call, CallerNext(c) PROVE RequestsAddressed'
  BY <1>1 DEF RequestsAddressed, CallerNext, FireAndForget, Issue, TimeOut, GetResult, Retry,
     GiveUp, Attempt, Send, netVars
<1>2. ASSUME NEW m \in requests, RequestNext(m) \/ LoseRequest(m) PROVE requests' \subseteq requests
  BY <1>2 DEF RequestNext, DropRequest, RunMethod, RunMethodThrows, MethodNotFound,
     ScopeNotFound, LoseRequest
<1>3. ASSUME NEW a \in answers, AnswerNext(a) \/ LoseAnswer(a) PROVE requests' = requests
  BY <1>3 DEF AnswerNext, DropAnswer, HandleResponse, LoseAnswer
<1> QED
  BY <1>1, <1>2, <1>3 DEF Next, RegisterMethod, UnregisterMethod, Idle, vars, netVars,
     RequestsAddressed

LEMMA PatientStep ==
  ASSUME \A c \in Patient : Outward(c)
  PROVE  /\ TypeInv /\ WaitsOnPromise /\ RequestsAddressed /\ PatientInv /\ [Next]_vars
         => PatientInv'
<1> SUFFICES ASSUME TypeInv, WaitsOnPromise, RequestsAddressed, PatientInv, [Next]_vars,
                    NEW c \in Patient, faults'[c] = 0
             PROVE  Progress(c)'
  BY DEF PatientInv
<1>1. TypeOK /\ c \in Call
  BY DEF TypeInv
<1>2. Progress(c)
  BY <1>1, FaultsGrow DEF PatientInv
<1>3. CASE CallerNext(c)
  BY <1>2, <1>3, CallerProgress
<1>4. CASE \E m \in requests : m[1] = c /\ (RequestNext(m) \/ LoseRequest(m))
  BY <1>2, <1>4, RequestProgress
<1>5. CASE \E a \in answers : a[1] = c /\ (AnswerNext(a) \/ LoseAnswer(a))
  BY <1>2, <1>5, AnswerProgress
<1>6. CASE \/ \E d \in Call \ {c} : CallerNext(d)
           \/ \E m \in requests : m[1] # c /\ (RequestNext(m) \/ LoseRequest(m))
           \/ \E a \in answers : a[1] # c /\ (AnswerNext(a) \/ LoseAnswer(a))
           \/ \E p \in Peer : RegisterMethod(p) \/ UnregisterMethod(p)
           \/ Idle \/ UNCHANGED vars
  BY <1>2, <1>6, OtherProgress
<1> QED
  BY <1>3, <1>4, <1>5, <1>6 DEF Next

(* A call to another peer, whose caller waits until nothing of it is on its way, fails only
   when more of its requests were lost than it had retries, or an answer was, or the callee
   answered with an error or swallowed a request: however small the sets of ids are, and
   whatever other calls do. *)
THEOREM RetriesCover ==
  ASSUME \A c \in Patient : Outward(c)
  PROVE  Spec => []RetriesCoverLostRequests
<1> DEFINE IInv == TypeInv /\ RequestsAddressed /\ PatientInv
<1>1. Init => IInv
  <2> SUFFICES ASSUME Init PROVE TypeInv /\ RequestsAddressed /\ PatientInv
    OBVIOUS
  <2>1. TypeInv /\ RequestsAddressed
    BY DEF Init, TypeInv, TypeOK, RequestsAddressed
  <2>2. PatientInv
    BY DEF Init, PatientInv, Progress, Fresh, Ids, OnItsWay, AnswersOf
  <2> QED
    BY <2>1, <2>2
<1>2. IInv /\ WaitsOnPromise /\ [Next]_vars => IInv'
  BY TypeStep, AddressedStep, PatientStep DEF TypeInv
<1>3. IInv => RetriesCoverLostRequests
  <2> SUFFICES ASSUME TypeInv, PatientInv, NEW c \in Patient, state[c] = "failed", faults[c] # 0
               PROVE  faults[c] > 0
    BY DEF RetriesCoverLostRequests, PatientInv, Progress
  <2> QED
    BY DEF TypeInv, TypeOK
<1> HIDE DEF IInv
<1> QED
  BY <1>1, <1>2, <1>3, PromiseKept, PTL DEF Spec
=============================================================================
