--------------------------- MODULE MasterNodesProofs ---------------------------
(* NodesInv and RefusalsExplained of MasterNodes, for any sessions, nodes, processes and
   requests. *)
EXTENDS MasterNodes, TLAPS

(* A process has attempts left until it is given the lock or turned away. *)
AttemptsInv ==
  \A p \in Process :
    /\ asks[p] = "idle" => attempts[p] = 0
    /\ asks[p] = "waiting" => attempts[p] < MaxAttempts

(* A process that is looked up has the lock of its node, unless it has lost it. *)
LockInv == \A p \in Process : asks[p] = "locked" => lock[NodeOf[p]] = p \/ p \in expired

(* What is recorded under the keys, and what clients are sent to. *)
SpawnersInv ==
  /\ \A k \in Key : spawners[k] # None => Recorded(spawners[k], k)
  /\ \A l \in Link : at[l] \in {"sending", "200"} => Recorded(target[l], about[l])

(* A clearing that has begun deletes what its session stands for. *)
ClearingsInv ==
  /\ \A k \in Clearing : \A n \in fields[k] : ClearedBy(n, k)
  /\ \A n \in cleared : flushed \/ \E k \in Clearing : ClearedBy(n, k)

(* A process that asked after its node was registered is of a node that still is, or that
   was cleared. *)
EarlyInv ==
  \A p \in Process : asks[p] # "idle" /\ p \notin early => NodeOf[p] \in nodes \cup cleared

IInv ==
  /\ TypeOK /\ AttemptsInv /\ LockInv
  /\ SpawnersInv /\ ClearingsInv /\ EarlyInv /\ RefusalsExplained

-----------------------------------------------------------------------------

LEMMA InitIInv == ASSUME Init PROVE IInv
<1>1. TypeOK
  <2>1. 0 \in 0 .. MaxAttempts
    BY ConstantsAssumption DEF ConstantsAssumption
  <2>2. attempts \in [Process -> 0 .. MaxAttempts]
    BY <2>1 DEF Init
  <2> QED BY <2>2 DEF Init, TypeOK
<1>2. AttemptsInv /\ LockInv
  BY ConstantsAssumption DEF Init, AttemptsInv, LockInv, ConstantsAssumption
<1>3. SpawnersInv /\ ClearingsInv
  BY DEF Init, SpawnersInv, ClearingsInv, Request
<1>4. EarlyInv /\ RefusalsExplained
  BY DEF Init, EarlyInv, RefusalsExplained
<1> QED BY <1>1, <1>2, <1>3, <1>4 DEF IInv

-----------------------------------------------------------------------------
(* Types, one step of a process or a request at a time.                     *)

LEMMA ProcessTypes ==
  ASSUME IInv, NEW p \in Process,
         Start(p) \/ Register(p) \/ Ask(p) \/ AcceptNode(p) \/ Announce(p)
  PROVE  TypeOK'
<1> USE ConstantsAssumption
<1>1. /\ TypeOK /\ AttemptsInv /\ NodeOf[p] \in Node
      /\ KeysOf[Of[NodeOf[p]]] \subseteq Key
  BY DEF IInv, ConstantsAssumption
<1>2. CASE Start(p) \/ Register(p) \/ Ask(p)
  BY <1>1, <1>2 DEF TypeOK, Start, Register, Ask, AskReach, acceptVars, requestVars
<1>3. CASE TakeLock(p) \/ AnswerNode(p) \/ LookupFails(p)
  BY <1>1, <1>3 DEF TypeOK, TakeLock, AnswerNode, LookupFails, AskReach, Hold, GiveBack, OthersStay,
     requestVars
<1>4. CASE LockTaken(p) \/ LockUnheard(p)
  <2>0. NotGiven(p)
    BY <1>4 DEF LockTaken, LockUnheard
  <2>1. attempts[p] + 1 \in 0 .. MaxAttempts
    BY <1>1, <2>0 DEF TypeOK, AttemptsInv, NotGiven, ConstantsAssumption
  <2>2. attempts' \in [Process -> 0 .. MaxAttempts]
    BY <1>1, <2>0, <2>1 DEF TypeOK, NotGiven
  <2>3. asks' \in [Process -> {"idle", "waiting", "locked", "200", "400", "500"}]
    BY <1>1, <2>0 DEF TypeOK, NotGiven, AskReach
  <2>4. lock' \in [Node -> Process \cup {None}]
    BY <1>1, <1>4 DEF TypeOK, LockTaken, LockUnheard, Hold
  <2>5. UNCHANGED expired /\ OthersStay
    BY <1>4 DEF LockTaken, LockUnheard
  <2> QED BY <1>1, <2>2, <2>3, <2>4, <2>5 DEF TypeOK, OthersStay, requestVars
<1>5. CASE Announce(p)
  BY <1>1, <1>5 DEF TypeOK, Announce, acceptVars, requestVars
<1> QED BY <1>2, <1>3, <1>4, <1>5 DEF AcceptNode

LEMMA ClearingTypes ==
  ASSUME IInv, NEW k \in Clearing, ClearKeys(k) \/ Clear(k)
  PROVE  TypeOK'
<1>1. TypeOK
  BY DEF IInv
<1>2. CASE ClearKeys(k)
  <2>1. at' \in [Request -> {"idle", "keys", "fields", "sending", "200", "500"}]
    BY <1>1, <1>2 DEF TypeOK, ClearKeys, Begin, Reach
  <2>2. about' \in [Request -> Session \cup Key \cup {None}]
    BY <1>1, <1>2 DEF TypeOK, ClearKeys, Begin
  <2>3. spawners' \in [Key -> Node \cup {None}]
    BY <1>1, <1>2 DEF TypeOK, ClearKeys
  <2>4. nodes' \subseteq Node /\ cleared' \subseteq Node
    BY <1>1, <1>2 DEF TypeOK, ClearKeys
  <2> QED BY <1>1, <1>2, <2>1, <2>2, <2>3, <2>4 DEF TypeOK, ClearKeys, acceptVars
<1>3. CASE ListFields(k)
  BY <1>1, <1>3 DEF TypeOK, ListFields, Reach, acceptVars
<1>4. CASE ClearField(k)
  BY <1>1, <1>4 DEF TypeOK, ClearField, acceptVars
<1>5. CASE EndClear(k)
  BY <1>1, <1>5 DEF TypeOK, EndClear, Reach, acceptVars
<1> QED BY <1>2, <1>3, <1>4, <1>5 DEF Clear

LEMMA TypeStep == ASSUME IInv, [Next]_vars PROVE TypeOK'
<1> USE ConstantsAssumption
<1>1. TypeOK
  BY DEF IInv
<1>2. CASE \E n \in Node : LockExpires(n)
  BY <1>1, <1>2 DEF TypeOK, LockExpires, Lost, OthersStay, requestVars
<1>3. CASE \E l \in Link : LookUpSpawner(l)
  BY <1>1, <1>3 DEF TypeOK, LookUpSpawner, Begin, Reach, acceptVars, Request, ConstantsAssumption
<1>4. CASE \E l \in Link : SendClient(l)
  BY <1>1, <1>4 DEF TypeOK, SendClient, Reach, acceptVars
<1>5. CASE Flush
  BY <1>1, <1>5 DEF TypeOK, Flush, Lost, requestVars
<1>6. CASE UNCHANGED vars
  BY <1>1, <1>6 DEF TypeOK, vars, acceptVars, requestVars
<1> QED BY <1>2, <1>3, <1>4, <1>5, <1>6, ProcessTypes, ClearingTypes DEF Next

-----------------------------------------------------------------------------
(* The lock on the acceptance of a node.                                    *)

(* The steps that have no part in it. *)
LEMMA LockCases ==
  ASSUME [Next]_vars
  PROVE  \/ \E p \in Process : Ask(p) \/ AcceptNode(p)
         \/ Flush \/ \E n \in Node : LockExpires(n)
         \/ UNCHANGED acceptVars
BY DEF Next, Start, Register, Announce, ClearKeys, Clear, ListFields, ClearField, EndClear,
   LookUpSpawner, SendClient, vars

LEMMA AttemptsStep == ASSUME IInv, [Next]_vars PROVE AttemptsInv'
<1> USE ConstantsAssumption
<1>1. TypeOK /\ AttemptsInv /\ MaxAttempts \in Nat \ {0}
  BY DEF IInv, ConstantsAssumption
<1>2. ASSUME NEW p \in Process, Ask(p) \/ TakeLock(p) \/ AnswerNode(p) \/ LookupFails(p)
      PROVE  AttemptsInv'
  BY <1>1, <1>2 DEF TypeOK, AttemptsInv, Ask, TakeLock, AnswerNode, LookupFails, AskReach
<1>3. ASSUME NEW p \in Process, NotGiven(p) PROVE AttemptsInv'
  <2>1. attempts[p] \in Nat /\ attempts[p] < MaxAttempts
    BY <1>1, <1>3 DEF TypeOK, AttemptsInv, NotGiven
  <2>2. /\ attempts'[p] = attempts[p] + 1
        /\ \A q \in Process : q # p => attempts'[q] = attempts[q] /\ asks'[q] = asks[q]
        /\ asks'[p] \in {"500", "waiting"} /\ (asks'[p] = "waiting" => attempts'[p] # MaxAttempts)
    BY <1>1, <1>3 DEF TypeOK, NotGiven, AskReach
  <2> QED BY <1>1, <2>1, <2>2 DEF AttemptsInv
<1>4. ASSUME UNCHANGED <<asks, attempts>> PROVE AttemptsInv'
  BY <1>1, <1>4 DEF AttemptsInv
<1>5. \/ \E p \in Process : \/ Ask(p) \/ TakeLock(p) \/ AnswerNode(p) \/ LookupFails(p)
                            \/ NotGiven(p)
      \/ UNCHANGED <<asks, attempts>>
  BY LockCases DEF AcceptNode, LockTaken, LockUnheard, LockExpires, Flush, acceptVars
<1> QED BY <1>2, <1>3, <1>4, <1>5

(* Whoever takes a lock that is free, or has it expire, leaves a process that was looked up
   under it among those that lost theirs. *)
LEMMA LockStep == ASSUME IInv, [Next]_vars PROVE LockInv'
<1> USE ConstantsAssumption
<1>1. /\ TypeOK /\ LockInv /\ NodeOf \in [Process -> Node]
      /\ None \notin Process
  BY DEF IInv, ConstantsAssumption
<1>2. ASSUME NEW p \in Process, Ask(p) \/ TakeLock(p) \/ LockTaken(p) \/ LockUnheard(p)
      PROVE  LockInv'
  BY <1>1, <1>2 DEF TypeOK, LockInv, Ask, TakeLock, LockTaken, LockUnheard, NotGiven, AskReach, Hold
<1>3. ASSUME NEW p \in Process, AnswerNode(p) \/ LookupFails(p) PROVE LockInv'
  <2>1. /\ asks'[p] # "locked" /\ expired' = expired \ {p}
        /\ \A q \in Process : q # p => asks'[q] = asks[q]
        /\ \A q \in Process : q # p /\ lock[NodeOf[q]] = q => lock'[NodeOf[q]] = q
    BY <1>1, <1>3 DEF TypeOK, AnswerNode, LookupFails, AskReach, GiveBack
  <2> QED BY <1>1, <2>1 DEF LockInv
<1>4. ASSUME NEW N, asks' = asks, \A n \in Node \ N : lock'[n] = lock[n], Lost(N)
      PROVE  LockInv'
  BY <1>1, <1>4 DEF LockInv, Lost
<1>5. ASSUME NEW n \in Node, LockExpires(n) PROVE LockInv'
  <2>1. asks' = asks /\ Lost({n}) /\ \A m \in Node \ {n} : lock'[m] = lock[m]
    BY <1>1, <1>5 DEF TypeOK, LockExpires
  <2> QED BY <1>4, <2>1
<1>6. CASE Flush
  <2>1. asks' = asks /\ Lost(Node)
    BY <1>6 DEF Flush
  <2> QED BY <1>4, <2>1
<1>7. CASE UNCHANGED acceptVars
  BY <1>1, <1>7 DEF LockInv, acceptVars
<1> QED BY <1>2, <1>3, <1>5, <1>6, <1>7, LockCases DEF AcceptNode

-----------------------------------------------------------------------------
(* Spawners and the clients that are sent to their nodes.                   *)

(* The process of a node that was started stays started. *)
RecordedThen(n, k) ==
  k \in KeysOf[Of[n]] /\ \E p \in Process : NodeOf[p] = n /\ created'[p] # "idle"

LEMMA RecordedStays ==
  ASSUME IInv, [Next]_vars, NEW n, NEW k, Recorded(n, k)
  PROVE  RecordedThen(n, k)
<1>1. TypeOK
  BY DEF IInv
<1>2. PICK p \in Process : NodeOf[p] = n /\ created[p] # "idle"
  BY DEF Recorded
<1>3. created'[p] # "idle"
  <2>1. ASSUME NEW q \in Process, Start(q) \/ Register(q) PROVE created'[p] # "idle"
    BY <1>1, <1>2, <2>1 DEF TypeOK, Start, Register
  <2>2. (\E q \in Process : Start(q) \/ Register(q)) \/ UNCHANGED created
    BY DEF Next, Ask, AcceptNode, TakeLock, LockTaken, LockUnheard, AnswerNode, LookupFails, Announce,
       LockExpires, OthersStay, ClearKeys, Clear, ListFields, ClearField, EndClear, LookUpSpawner,
       SendClient, Flush, vars
  <2> QED BY <1>2, <2>1, <2>2
<1> QED BY <1>2, <1>3 DEF Recorded, RecordedThen

(* What keys and clients name after a step is what they named before it, nothing, or, once,
   what was recorded. *)
LEMMA SpawnersStep == ASSUME IInv, [Next]_vars PROVE SpawnersInv'
<1> USE ConstantsAssumption
<1>1. /\ TypeOK /\ SpawnersInv /\ Clearing \cap Link = {}
      /\ NodeOf \in [Process -> Node] /\ KeysOf \in [Session -> SUBSET Key]
      /\ Of \in [Node -> Session]
  BY DEF IInv, ConstantsAssumption
<1> DEFINE SpawnersKept == \A k \in Key : spawners'[k] \in {spawners[k], None}
           ClientsKept ==
             \A l \in Link : at'[l] \in {"sending", "200"} =>
               /\ at[l] \in {"sending", "200"}
               /\ target'[l] = target[l] /\ about'[l] = about[l]
           KeysStep == \A k \in Key : spawners'[k] # None => RecordedThen(spawners'[k], k)
           LinksStep == \A l \in Link : at'[l] \in {"sending", "200"} =>
                          RecordedThen(target'[l], about'[l])
<1>2. ASSUME SpawnersKept PROVE KeysStep
  <2> SUFFICES ASSUME NEW k \in Key, spawners'[k] # None PROVE RecordedThen(spawners'[k], k)
    OBVIOUS
  <2>1. spawners'[k] = spawners[k]
    BY <1>2
  <2>2. Recorded(spawners[k], k)
    BY <1>1, <2>1 DEF SpawnersInv
  <2>3. RecordedThen(spawners[k], k)
    BY <2>2, RecordedStays
  <2> QED BY <2>1, <2>3
<1>3. ASSUME ClientsKept PROVE LinksStep
  <2> SUFFICES ASSUME NEW l \in Link, at'[l] \in {"sending", "200"}
               PROVE  RecordedThen(target'[l], about'[l])
    OBVIOUS
  <2>1. target'[l] = target[l] /\ about'[l] = about[l] /\ Recorded(target[l], about[l])
    BY <1>1, <1>3 DEF SpawnersInv
  <2>2. RecordedThen(target[l], about[l])
    BY <2>1, RecordedStays
  <2> QED BY <2>1, <2>2
<1>4. ASSUME NEW p \in Process, Announce(p) PROVE KeysStep /\ ClientsKept
  <2>1. PICK k \in KeysOf[Of[NodeOf[p]]] : spawners' = [spawners EXCEPT ![k] = NodeOf[p]]
    BY <1>4 DEF Announce
  <2>2. created' = created /\ created[p] # "idle"
    BY <1>4 DEF Announce
  <2>3. KeysStep
    BY <1>1, <2>1, <2>2 DEF TypeOK, SpawnersInv, Recorded, RecordedThen
  <2> QED BY <1>4, <2>3 DEF Announce, requestVars
<1>5. ASSUME NEW l \in Link, LookUpSpawner(l) PROVE SpawnersKept /\ LinksStep
  <2>1. /\ spawners' = spawners /\ created' = created
        /\ \A k \in Link \ {l} : at'[k] = at[k] /\ about'[k] = about[k] /\ target'[k] = target[k]
        /\ at'[l] \in {"sending", "200"} =>
             about'[l] \in Key /\ spawners[about'[l]] # None /\ target'[l] = spawners[about'[l]]
    BY <1>1, <1>5 DEF LookUpSpawner, Begin, Reach, TypeOK, Request
  <2> QED BY <1>1, <2>1 DEF SpawnersInv, Recorded, RecordedThen
<1>6. ASSUME NEW l \in Link, SendClient(l) PROVE SpawnersKept /\ ClientsKept
  BY <1>1, <1>6 DEF SendClient, Reach, TypeOK, Request
<1>7. ASSUME NEW k \in Clearing, ClearKeys(k) \/ Clear(k) PROVE SpawnersKept /\ ClientsKept
  <2>1. target' = target /\ \A l \in Link : at'[l] = at[l] /\ about'[l] = about[l]
    BY <1>1, <1>7 DEF ClearKeys, Clear, ListFields, ClearField, EndClear, Begin, Reach, TypeOK, Request
  <2>2. SpawnersKept
    BY <1>1, <1>7 DEF ClearKeys, Clear, ListFields, ClearField, EndClear
  <2> QED BY <2>1, <2>2
<1>8. ASSUME UNCHANGED requestVars, UNCHANGED spawners \/ Flush PROVE SpawnersKept /\ ClientsKept
  BY <1>8 DEF Flush, requestVars
<1>9. \/ \E p \in Process : Announce(p)
      \/ \E k \in Clearing : ClearKeys(k) \/ Clear(k)
      \/ \E l \in Link : LookUpSpawner(l) \/ SendClient(l)
      \/ UNCHANGED requestVars /\ (UNCHANGED spawners \/ Flush)
  BY DEF Next, Start, Register, Ask, AcceptNode, TakeLock, LockTaken, LockUnheard, AnswerNode,
     LookupFails, OthersStay, LockExpires, Flush, vars
<1>10. KeysStep /\ LinksStep
  <2> HIDE DEF SpawnersKept, ClientsKept, KeysStep, LinksStep
  <2> QED BY <1>2, <1>3, <1>4, <1>5, <1>6, <1>7, <1>8, <1>9
<1> QED BY <1>10 DEF SpawnersInv, Recorded, RecordedThen

-----------------------------------------------------------------------------
(* Why a node is no longer registered.                                      *)

(* A clearing never goes back to before it began, and stays about its session. *)
LEMMA ClearedByStays ==
  ASSUME IInv, [Next]_vars, NEW n \in Node, NEW k \in Clearing, ClearedBy(n, k)
  PROVE  ClearedBy(n, k)'
<1>1. TypeOK /\ Clearing \cap Link = {} /\ at[k] # "idle"
  BY ConstantsAssumption DEF IInv, ConstantsAssumption, ClearedBy
<1> DEFINE Goal == at'[k] # "idle" /\ about'[k] = about[k]
<1>2. ASSUME NEW c \in Clearing, ClearKeys(c) PROVE Goal
  BY <1>1, <1>2 DEF ClearKeys, Begin, Reach, TypeOK, Request
<1>3. ASSUME NEW c \in Clearing, Clear(c) PROVE Goal
  BY <1>1, <1>3 DEF Clear, ListFields, ClearField, EndClear, Reach, TypeOK, Request
<1>4. ASSUME NEW l \in Link, LookUpSpawner(l) PROVE Goal
  BY <1>1, <1>4 DEF LookUpSpawner, Begin, Reach, TypeOK, Request
<1>5. ASSUME NEW l \in Link, SendClient(l) PROVE Goal
  BY <1>1, <1>5 DEF SendClient, Reach, TypeOK, Request
<1>6. \/ \E c \in Clearing : ClearKeys(c) \/ Clear(c)
      \/ \E l \in Link : LookUpSpawner(l) \/ SendClient(l)
      \/ UNCHANGED <<at, about>>
  BY DEF Next, Start, Register, Ask, AcceptNode, TakeLock, LockTaken, LockUnheard, AnswerNode,
     LookupFails, OthersStay, Announce, LockExpires, Flush, requestVars, vars
<1>7. Goal
  <2>1. CASE UNCHANGED <<at, about>>
    BY <1>1, <2>1
  <2> HIDE DEF Goal
  <2> QED BY <1>2, <1>3, <1>4, <1>5, <1>6, <2>1
<1> QED BY <1>7 DEF ClearedBy

(* What a clearing has listed, and what was deleted, is what its session stands for. *)
LEMMA ClearingsStep == ASSUME IInv, [Next]_vars PROVE ClearingsInv'
<1>1. TypeOK /\ ClearingsInv /\ Clearing \cap Link = {}
  BY ConstantsAssumption DEF IInv, ConstantsAssumption
<1> DEFINE Told(n) == \E k \in Clearing : ClearedBy(n, k)'
           FieldsTold == \A k \in Clearing : \A n \in fields'[k] : ClearedBy(n, k)'
           ClearedTold == \A n \in cleared' : flushed' \/ Told(n)
<1>2. ASSUME NEW n \in Node, NEW k \in Clearing, ClearedBy(n, k) PROVE ClearedBy(n, k)'
  BY <1>2, ClearedByStays
<1>3. ASSUME NEW k \in Clearing, NEW n \in fields[k] PROVE n \in Node /\ ClearedBy(n, k)'
  <2>1. n \in Node /\ ClearedBy(n, k)
    BY <1>1 DEF TypeOK, ClearingsInv
  <2> QED BY <1>2, <2>1
<1>4. flushed => flushed'
  BY DEF Next, Start, Register, Ask, AcceptNode, TakeLock, LockTaken, LockUnheard, AnswerNode,
     LookupFails, OthersStay, Announce, LockExpires, ClearKeys, Clear, ListFields, ClearField,
     EndClear, LookUpSpawner, SendClient, Flush, vars
<1>5. ASSUME NEW n \in cleared PROVE flushed' \/ Told(n)
  <2>1. n \in Node /\ (flushed \/ \E k \in Clearing : ClearedBy(n, k))
    BY <1>1 DEF TypeOK, ClearingsInv
  <2> QED BY <1>2, <1>4, <2>1
<1>6. ASSUME NEW k \in Clearing, ClearKeys(k) PROVE FieldsTold /\ ClearedTold
  <2>1. PICK s \in Session :
          /\ Begin(k, s, "keys") \/ Begin(k, s, "500")
          /\ cleared' = cleared \/ s \in Sweeping
    BY <1>6 DEF ClearKeys
  <2>2. at'[k] # "idle" /\ about'[k] = s
    BY <1>1, <2>1 DEF TypeOK, Begin, Reach, Request
  <2>3. s \in Sweeping => \A n : ClearedBy(n, k)'
    BY <2>2 DEF ClearedBy
  <2>4. fields' = fields
    BY <1>6 DEF ClearKeys
  <2> QED BY <1>3, <1>5, <2>1, <2>3, <2>4
<1>7. ASSUME NEW k \in Clearing, ListFields(k) PROVE FieldsTold /\ ClearedTold
  <2>1. /\ cleared' = cleared /\ at' = [at EXCEPT ![k] = "fields"] /\ about' = about
        /\ \/ fields' = [fields EXCEPT ![k] = nodes \cap NamedFrom[about[k]]]
           \/ fields' = fields
    BY <1>7 DEF ListFields, Reach, FieldsMatching
  <2>2. ASSUME NEW n \in fields'[k], fields' # fields PROVE ClearedBy(n, k)'
    BY <1>1, <2>1, <2>2 DEF TypeOK, ClearedBy, Request
  <2>3. ASSUME NEW c \in Clearing, c # k PROVE fields'[c] = fields[c]
    BY <1>1, <2>1, <2>3 DEF TypeOK
  <2> QED BY <1>3, <1>5, <2>1, <2>2, <2>3
<1>8. ASSUME NEW k \in Clearing, ClearField(k) PROVE FieldsTold /\ ClearedTold
  <2>1. PICK n \in fields[k] :
          /\ fields' = [fields EXCEPT ![k] = @ \ {n}] /\ cleared' \subseteq cleared \cup {n}
    BY <1>8 DEF ClearField
  <2>2. \A c \in Clearing : fields'[c] \subseteq fields[c]
    BY <1>1, <2>1 DEF TypeOK
  <2> QED BY <1>3, <1>5, <2>1, <2>2
<1>9. ASSUME Flush PROVE FieldsTold /\ ClearedTold
  BY <1>3, <1>9 DEF Flush, requestVars
<1>10. ASSUME UNCHANGED <<fields, cleared>> PROVE FieldsTold /\ ClearedTold
  BY <1>3, <1>5, <1>10
<1>11. \/ \E k \in Clearing : ClearKeys(k) \/ ListFields(k) \/ ClearField(k)
       \/ Flush
       \/ UNCHANGED <<fields, cleared>>
  BY DEF Next, Start, Register, Ask, AcceptNode, TakeLock, LockTaken, LockUnheard, AnswerNode,
     LookupFails, OthersStay, Announce, LockExpires, Clear, EndClear, LookUpSpawner, SendClient,
     requestVars, vars
<1>12. FieldsTold /\ ClearedTold
  <2> HIDE DEF FieldsTold, ClearedTold
  <2> QED BY <1>6, <1>7, <1>8, <1>9, <1>10, <1>11
<1> QED BY <1>12 DEF ClearingsInv

(* A registration that is deleted is one that is cleared. *)
LEMMA EarlyStep == ASSUME IInv, [Next]_vars PROVE EarlyInv'
<1>1. TypeOK /\ EarlyInv /\ NodeOf \in [Process -> Node]
  BY ConstantsAssumption DEF IInv, ConstantsAssumption
<1>2. nodes \cup cleared \subseteq nodes' \cup cleared'
  <2>1. ASSUME NEW k \in Clearing, ClearKeys(k) \/ ClearField(k)
      PROVE  nodes \cup cleared \subseteq nodes' \cup cleared'
    BY <2>1 DEF ClearKeys, ClearField
  <2>2. ASSUME NEW p \in Process, Register(p) PROVE nodes \cup cleared \subseteq nodes' \cup cleared'
    BY <2>2 DEF Register
  <2>3. CASE Flush
    BY <1>1, <2>3 DEF Flush, TypeOK
  <2>4. \/ \E k \in Clearing : ClearKeys(k) \/ ClearField(k)
        \/ \E p \in Process : Register(p)
        \/ Flush
        \/ UNCHANGED <<nodes, cleared>>
    BY DEF Next, Start, Ask, AcceptNode, TakeLock, LockTaken, LockUnheard, AnswerNode,
       LookupFails, OthersStay, Announce, LockExpires, Clear, ListFields, EndClear, LookUpSpawner,
       SendClient, vars
  <2> QED BY <2>1, <2>2, <2>3, <2>4
<1>3. ASSUME NEW p \in Process, Ask(p) PROVE EarlyInv'
  <2>1. /\ asks' = [asks EXCEPT ![p] = "waiting"]
        /\ early' = IF NodeOf[p] \in nodes \cup cleared THEN early ELSE early \cup {p}
    BY <1>3 DEF Ask, AskReach
  <2>2. ASSUME NEW q \in Process, asks'[q] # "idle", q \notin early'
        PROVE  NodeOf[q] \in nodes \cup cleared
    BY <1>1, <2>1, <2>2 DEF TypeOK, EarlyInv
  <2> QED BY <1>2, <2>2 DEF EarlyInv
<1>4. ASSUME early' = early, \A q \in Process : asks[q] = "idle" => asks'[q] = "idle"
      PROVE  EarlyInv'
  BY <1>1, <1>2, <1>4 DEF EarlyInv
<1>5. ASSUME NEW p \in Process, AcceptNode(p)
      PROVE  early' = early /\ \A q \in Process : asks[q] = "idle" => asks'[q] = "idle"
  BY <1>1, <1>5 DEF TypeOK, AcceptNode, TakeLock, LockTaken, LockUnheard, NotGiven, AnswerNode,
     LookupFails, AskReach, OthersStay
<1>6. (\E p \in Process : Ask(p) \/ AcceptNode(p)) \/ UNCHANGED <<asks, early>>
  BY DEF Next, Start, Register, Announce, LockExpires, OthersStay, ClearKeys, Clear, ListFields,
     ClearField, EndClear, LookUpSpawner, SendClient, Flush, acceptVars, vars
<1> QED BY <1>3, <1>4, <1>5, <1>6

(* A process that is ready is turned away only by the lookup, which finds its node cleared. *)
LEMMA RefusalsStep == ASSUME IInv, [Next]_vars PROVE RefusalsExplained'
<1>1. /\ TypeOK /\ EarlyInv /\ ClearingsInv /\ RefusalsExplained
      /\ NodeOf \in [Process -> Node]
  BY ConstantsAssumption DEF IInv, ConstantsAssumption
<1> DEFINE Reason(p) == \/ p \in Unready \cup early
                        \/ flushed
                        \/ NodeOf[p] \in cleared /\ \E k \in Clearing : ClearedBy(NodeOf[p], k)
<1>2. ASSUME NEW p \in Process, asks'[p] = "400" PROVE Reason(p)
  <2>1. CASE asks[p] = "400"
    BY <1>1, <2>1 DEF RefusalsExplained
  <2>2. CASE asks[p] # "400"
    <3>1. AnswerNode(p)
      <4>1. ASSUME NEW q \in Process, Ask(q) \/ AcceptNode(q) PROVE q = p /\ AnswerNode(q)
        BY <1>1, <1>2, <2>2, <4>1 DEF TypeOK, Ask, AcceptNode, TakeLock, LockTaken, LockUnheard,
           NotGiven, AnswerNode, LookupFails, AskReach
      <4>2. (\E q \in Process : Ask(q) \/ AcceptNode(q)) \/ UNCHANGED asks
        BY DEF Next, Start, Register, Announce, LockExpires, ClearKeys, Clear, ListFields, ClearField,
           EndClear, LookUpSpawner, SendClient, Flush, acceptVars, vars
      <4> QED BY <1>2, <2>2, <4>1, <4>2
    <3>2. p \in Unready \/ NodeOf[p] \notin nodes
      BY <1>1, <1>2, <3>1 DEF TypeOK, AnswerNode, AskReach
    <3>3. asks[p] = "locked"
      BY <3>1 DEF AnswerNode
    <3> QED BY <1>1, <3>2, <3>3 DEF EarlyInv, ClearingsInv
  <2> QED BY <2>1, <2>2
<1>3. (early \subseteq early' /\ (flushed => flushed') /\ cleared \subseteq cleared') \/ Flush
  <2>1. ASSUME NEW k \in Clearing, ClearKeys(k) \/ Clear(k)
      PROVE  early \subseteq early' /\ (flushed => flushed') /\ cleared \subseteq cleared'
    BY <2>1 DEF ClearKeys, Clear, ListFields, ClearField, EndClear
  <2> QED BY <2>1 DEF Next, Start, Register, Ask, AcceptNode, TakeLock, LockTaken, LockUnheard,
     AnswerNode, LookupFails, OthersStay, Announce, LockExpires, LookUpSpawner, SendClient, vars
<1>4. ASSUME NEW p \in Process, NEW k \in Clearing, ClearedBy(NodeOf[p], k)
      PROVE  ClearedBy(NodeOf[p], k)'
  BY <1>1, <1>4, ClearedByStays
<1>5. ASSUME NEW p \in Process, asks'[p] = "400", ~Flush
      PROVE  \/ p \in Unready \cup early'
             \/ flushed'
             \/ NodeOf[p] \in cleared' /\ \E k \in Clearing : ClearedBy(NodeOf[p], k)'
  <2>1. Reason(p)
    BY <1>2, <1>5
  <2> QED BY <1>3, <1>4, <1>5, <2>1
<1>6. Flush => flushed'
  BY DEF Flush
<1> QED BY <1>5, <1>6 DEF RefusalsExplained

-----------------------------------------------------------------------------

LEMMA StepIInv == ASSUME IInv, [Next]_vars PROVE IInv'
BY TypeStep, AttemptsStep, LockStep, SpawnersStep, ClearingsStep, EarlyStep, RefusalsStep DEF IInv

LEMMA Inductive == Spec => []IInv
BY InitIInv, StepIInv, PTL DEF Spec

(* Besides the types: two processes are looked up under the lock of one node only if one of
   them has lost it, and a client is sent to a started node, under a key that begins with the
   name of that node's session (Nodes.AcceptNode, GetSNFromSpawnerId). *)
THEOREM NodesSafe == Spec => []NodesInv
<1>1. LockInv => LocksExclude
  BY ConstantsAssumption DEF LockInv, LocksExclude, ConstantsAssumption
<1>2. SpawnersInv => ClientsSent
  BY DEF SpawnersInv, ClientsSent
<1>3. IInv => NodesInv
  BY <1>1, <1>2 DEF IInv, NodesInv
<1> QED BY <1>3, Inductive, PTL

(* A process is turned away only if it was not ready or came before its registration, or Redis
   was flushed, or its registration was deleted and a clearing has begun of a session whose
   name begins its own or that of all registrations (acceptNodeImpl, ClearSession). *)
THEOREM RefusalsHaveReasons == Spec => []RefusalsExplained
<1>1. IInv => RefusalsExplained
  BY DEF IInv
<1> QED BY <1>1, Inductive, PTL
=============================================================================
