----------------------------- MODULE StreamsProofs -----------------------------
(* StreamsInv of Streams, for any objects, streams, messages and threads. *)
EXTENDS Streams, FiniteSetTheorems, TLAPS

(* A pool has finitely many threads at work. *)
FiniteInv == IsFiniteSet(running) /\ IsFiniteSet(ioRunning)

(* A task is of an object that was made, and an object in the registry has not been
   given to the trash. *)
TasksInv ==
  /\ \A t \in queued \cup running : t[2] \in used
  /\ \A k \in Container : registry[k] # None =>
       /\ registry[k] \in used /\ Of[registry[k]] = k
       /\ <<"cleanup", registry[k]>> \notin queued \cup running

(* A stream that waits to be opened, or is being opened, has attempts left; only the
   streams of objects that were made have used any. *)
OpenInv ==
  /\ ioQueued \cap ioRunning = {} /\ spinning \subseteq ioRunning
  /\ \A c \in ioQueued \cup ioRunning : c[1] \in used /\ tries[c] < MaxTries
  /\ \A c \in Consumer : c[1] \notin used => tries[c] = 0

(* A message has one copy until it is handled, and none after. *)
OnceAt(m) ==
  /\ given[m] = {} => copies[m] = {} /\ handled[m] = 0
  /\ handled[m] \in {0, 1}
  /\ handled[m] = 1 => copies[m] = {}
  /\ \A c, d \in copies[m] : c = d

(* A delegate that is about to read that its stream is open still holds the message. *)
HeldInv ==
  listener # None /\ ~listener.works =>
    listener.stream \in copies[listener.msg] \cup closed

IInv ==
  /\ TypeOK /\ FiniteInv /\ TasksInv /\ OpenInv
  /\ \A m \in Message : OnceAt(m)
  /\ HeldInv /\ QuietOnceClosed

-----------------------------------------------------------------------------

LEMMA InitIInv == ASSUME Init PROVE IInv
<1> USE ConstantsAssumption
<1>1. IsFiniteSet({}) /\ Cardinality({}) = 0
  BY FS_EmptySet
<1>2. TypeOK
  BY <1>1 DEF Init, TypeOK, Pool!Init, IO!Init
<1>3. FiniteInv /\ TasksInv /\ OpenInv
  BY <1>1 DEF Init, FiniteInv, TasksInv, OpenInv, Pool!Init, IO!Init, ConstantsAssumption
<1>4. \A m \in Message : OnceAt(m)
  BY DEF Init, OnceAt
<1>5. HeldInv /\ QuietOnceClosed
  BY DEF Init, HeldInv, QuietOnceClosed
<1> QED BY <1>2, <1>3, <1>4, <1>5 DEF IInv

-----------------------------------------------------------------------------
(* The pools.                                                               *)

(* A thread that takes a task is one of the pool's. *)
LEMMA StartBound ==
  ASSUME NEW S, NEW t, NEW n \in Nat, IsFiniteSet(S), Cardinality(S) < n
  PROVE  IsFiniteSet(S \cup {t}) /\ Cardinality(S \cup {t}) <= n
<1>1. IsFiniteSet(S \cup {t})
      /\ Cardinality(S \cup {t}) = IF t \in S THEN Cardinality(S) ELSE Cardinality(S) + 1
  BY FS_AddElement
<1>2. Cardinality(S) \in Nat
  BY FS_CardinalityType
<1> QED BY <1>1, <1>2

LEMMA FinishBound ==
  ASSUME NEW S, NEW t, NEW n \in Nat, IsFiniteSet(S), Cardinality(S) <= n
  PROVE  IsFiniteSet(S \ {t}) /\ Cardinality(S \ {t}) <= n
<1>1. IsFiniteSet(S \ {t})
      /\ Cardinality(S \ {t}) = IF t \in S THEN Cardinality(S) - 1 ELSE Cardinality(S)
  BY FS_RemoveElement
<1>2. Cardinality(S) \in Nat
  BY FS_CardinalityType
<1> QED BY <1>1, <1>2

LEMMA PoolStep ==
  ASSUME IInv, [Next]_vars
  PROVE  /\ FiniteInv'
         /\ Cardinality(running') <= ComputeThreads /\ Cardinality(ioRunning') <= IOThreads
<1> USE ConstantsAssumption
<1>1. /\ IsFiniteSet(running) /\ Cardinality(running) <= ComputeThreads
      /\ IsFiniteSet(ioRunning) /\ Cardinality(ioRunning) <= IOThreads
      /\ ComputeThreads \in Nat /\ IOThreads \in Nat
  BY DEF IInv, FiniteInv, TypeOK, ConstantsAssumption
<1>2. ASSUME NEW t \in Task, StartTask(t)
      PROVE  IsFiniteSet(running') /\ Cardinality(running') <= ComputeThreads
  <2>1. Cardinality(running) < ComputeThreads /\ running' = running \cup {t}
    BY <1>2 DEF StartTask, Pool!Start, Pool!Cardinality, Cardinality
  <2>2. IsFiniteSet(running \cup {t}) /\ Cardinality(running \cup {t}) <= ComputeThreads
    BY ONLY <1>1, <2>1, StartBound
  <2> QED BY <2>1, <2>2
<1>3. ASSUME NEW o \in Object, NetworkReady(o)
      PROVE  IsFiniteSet(running') /\ Cardinality(running') <= ComputeThreads
  <2>1. running' = running \ {<<"ready", o>>}
    BY <1>3 DEF NetworkReady, Pool!Finish
  <2> QED BY <1>1, <2>1, FinishBound
<1>4. ASSUME NEW c \in Consumer, StartOpen(c)
      PROVE  IsFiniteSet(ioRunning') /\ Cardinality(ioRunning') <= IOThreads
  <2>1. Cardinality(ioRunning) < IOThreads /\ ioRunning' = ioRunning \cup {c}
    BY <1>4 DEF StartOpen, IO!Start, IO!Cardinality, Cardinality
  <2>2. IsFiniteSet(ioRunning \cup {c}) /\ Cardinality(ioRunning \cup {c}) <= IOThreads
    BY ONLY <1>1, <2>1, StartBound
  <2> QED BY <2>1, <2>2
<1>5. ASSUME NEW c \in Consumer, Connect(c) \/ ConnectFails(c) \/ ConnectThrows(c)
      PROVE  IsFiniteSet(ioRunning') /\ Cardinality(ioRunning') <= IOThreads
  <2>1. ioRunning' = ioRunning \ {c} \/ ioRunning' = ioRunning
    BY <1>5 DEF Connect, ConnectFails, ConnectThrows, IO!Finish, IO!Idle
  <2>2. IsFiniteSet(ioRunning \ {c}) /\ Cardinality(ioRunning \ {c}) <= IOThreads
    BY ONLY <1>1, FinishBound
  <2> QED BY <1>1, <2>1, <2>2
<1>6. \/ \E t \in Task : StartTask(t)
      \/ \E o \in Object : NetworkReady(o)
      \/ UNCHANGED running
  BY DEF Next, Subscribe, Unsubscribe, ComputeStep, IOStep, ListenerStep, Block, SetClosed,
     PauseListener, Leave, StartOpen, Connect, ConnectFails, ConnectThrows, Enter, Drop, Handle,
     Handled, Publish, Unsubscribed, UnsubscribeRefused, Pool!Schedule, poolVars, vars
<1>7. \/ \E c \in Consumer : StartOpen(c) \/ Connect(c) \/ ConnectFails(c) \/ ConnectThrows(c)
      \/ UNCHANGED ioRunning
  BY DEF Next, Subscribe, Unsubscribe, ComputeStep, IOStep, ListenerStep, StartTask,
     NetworkReady, Block, SetClosed, PauseListener, Leave, Enter, Drop, Handle, Handled, Publish,
     Unsubscribed, UnsubscribeRefused, IO!Schedule, ioVars, vars
<1>8. IsFiniteSet(running') /\ Cardinality(running') <= ComputeThreads
  BY <1>1, <1>2, <1>3, <1>6
<1>9. IsFiniteSet(ioRunning') /\ Cardinality(ioRunning') <= IOThreads
  BY <1>1, <1>4, <1>5, <1>7
<1> QED BY <1>8, <1>9 DEF FiniteInv

-----------------------------------------------------------------------------
(* Tasks and objects.                                                       *)

LEMMA SubscribeTasks ==
  ASSUME IInv, NEW k \in Container, Subscribe(k)
  PROVE  TasksInv' /\ queued' \cap running' = {} /\ queued' \subseteq Task
<1>1. PICK o \in Object :
        /\ o \notin used /\ Of[o] = k
        /\ registry' = [registry EXCEPT ![k] = o] /\ used' = used \cup {o}
        /\ queued' = queued \cup {<<"ready", o>>} /\ running' = running
  BY DEF Subscribe, IsNext, Pool!Schedule
<1>2. /\ registry \in [Container -> Object \cup {None}] /\ queued \cap running = {}
      /\ queued \subseteq Task /\ running \subseteq Task
  BY DEF IInv, TypeOK
<1>3. \A t \in queued \cup running : t[2] \in used
  BY DEF IInv, TasksInv
<1>4. <<"ready", o>> \notin running /\ <<"cleanup", o>> \notin queued \cup running
  BY <1>1, <1>3
<1>5. <<"ready", o>> \in Task
  BY DEF Task, ReadyTask
<1>6. \A t \in queued' \cup running' : t[2] \in used'
  BY <1>1, <1>3
<1>7. ASSUME NEW j \in Container, registry'[j] # None
      PROVE  /\ registry'[j] \in used' /\ Of[registry'[j]] = j
             /\ <<"cleanup", registry'[j]>> \notin queued' \cup running'
  <2>1. CASE j = k
    BY <1>1, <1>2, <1>4, <2>1
  <2>2. CASE j # k
    <3>1. registry'[j] = registry[j]
      BY <1>1, <1>2, <2>2
    <3>2. /\ registry[j] \in used /\ Of[registry[j]] = j
          /\ <<"cleanup", registry[j]>> \notin queued \cup running
      BY <1>7, <3>1 DEF IInv, TasksInv
    <3> QED BY <1>1, <3>1, <3>2
  <2> QED BY <2>1, <2>2
<1>8. TasksInv'
  BY <1>6, <1>7 DEF TasksInv
<1> QED BY <1>1, <1>2, <1>4, <1>5, <1>8

LEMMA UnsubscribeTasks ==
  ASSUME IInv, NEW k \in Container, Unsubscribe(k)
  PROVE  TasksInv' /\ queued' \cap running' = {} /\ queued' \subseteq Task
<1> DEFINE o == registry[k]
<1>1. /\ o # None /\ registry' = [registry EXCEPT ![k] = None] /\ used' = used
      /\ queued' = queued \cup {<<"cleanup", o>>} /\ running' = running
  BY DEF Unsubscribe, Pool!Schedule
<1>2. /\ registry \in [Container -> Object \cup {None}] /\ queued \cap running = {}
      /\ queued \subseteq Task /\ running \subseteq Task
  BY DEF IInv, TypeOK
<1>3. o \in used /\ Of[o] = k /\ <<"cleanup", o>> \notin queued \cup running
  BY <1>1 DEF IInv, TasksInv
<1>4. <<"cleanup", o>> \in Task
  BY <1>1, <1>2 DEF Task, CleanupTask
<1>5. \A t \in queued' \cup running' : t[2] \in used'
  BY <1>1, <1>3 DEF IInv, TasksInv
<1>6. ASSUME NEW j \in Container, registry'[j] # None
      PROVE  /\ registry'[j] \in used' /\ Of[registry'[j]] = j
             /\ <<"cleanup", registry'[j]>> \notin queued' \cup running'
  <2>1. j # k /\ registry'[j] = registry[j]
    BY <1>1, <1>2, <1>6
  <2>2. /\ registry[j] \in used /\ Of[registry[j]] = j
        /\ <<"cleanup", registry[j]>> \notin queued \cup running
    BY <1>6, <2>1 DEF IInv, TasksInv
  <2>3. registry[j] # o
    BY <1>3, <2>1, <2>2
  <2> QED BY <1>1, <2>1, <2>2, <2>3
<1>7. TasksInv'
  BY <1>5, <1>6 DEF TasksInv
<1> QED BY <1>1, <1>2, <1>3, <1>4, <1>7

(* Otherwise tasks only go from the queue to a thread, and end. *)
LEMMA TasksStep ==
  ASSUME IInv, [Next]_vars
  PROVE  TasksInv' /\ queued' \cap running' = {} /\ queued' \subseteq Task /\ running' \subseteq Task
<1>1. /\ queued \cap running = {} /\ queued \subseteq Task /\ running \subseteq Task /\ TasksInv
  BY DEF IInv, TypeOK
<1>2. CASE \E k \in Container : Subscribe(k)
  <2>1. running' = running
    BY <1>2 DEF Subscribe, Pool!Schedule
  <2> QED BY <1>1, <1>2, <2>1, SubscribeTasks
<1>3. CASE \E k \in Container : Unsubscribe(k)
  <2>1. running' = running
    BY <1>3 DEF Unsubscribe, Pool!Schedule
  <2> QED BY <1>1, <1>3, <2>1, UnsubscribeTasks
<1>4. ASSUME NEW t \in Task, StartTask(t)
      PROVE  /\ queued' \cup running' \subseteq queued \cup running
             /\ queued' \cap running' = {} /\ UNCHANGED <<registry, used>>
  BY <1>1, <1>4 DEF StartTask, Pool!Start, Pool!Cardinality, Cardinality
<1>5. ASSUME NEW o \in Object, NetworkReady(o)
      PROVE  /\ queued' \cup running' \subseteq queued \cup running
             /\ queued' \cap running' = {} /\ UNCHANGED <<registry, used>>
  BY <1>1, <1>5 DEF NetworkReady, Pool!Finish
<1>6. \/ \E k \in Container : Subscribe(k) \/ Unsubscribe(k)
      \/ \E t \in Task : StartTask(t)
      \/ \E o \in Object : NetworkReady(o)
      \/ UNCHANGED <<registry, used, poolVars>>
  BY DEF Next, ComputeStep, IOStep, ListenerStep, Block, SetClosed, PauseListener, Leave,
     StartOpen, Connect, ConnectFails, ConnectThrows, Enter, Drop, Handle, Handled, Publish,
     Unsubscribed, UnsubscribeRefused, vars
<1>7. CASE /\ queued' \cup running' \subseteq queued \cup running
           /\ queued' \cap running' = {} /\ UNCHANGED <<registry, used>>
  BY <1>1, <1>7 DEF TasksInv
<1> QED BY <1>1, <1>2, <1>3, <1>4, <1>5, <1>6, <1>7 DEF poolVars

-----------------------------------------------------------------------------
(* Streams that are opened.                                                 *)

LEMMA SubscribeOpens ==
  ASSUME IInv, NEW k \in Container, Subscribe(k)
  PROVE  OpenInv' /\ ioQueued' \subseteq Consumer /\ ioRunning' \subseteq Consumer
<1>1. PICK o \in Object :
        /\ o \notin used /\ used' = used \cup {o}
        /\ ioQueued' = ioQueued \cup StreamsOf(o) /\ ioRunning' = ioRunning /\ tries' = tries
        /\ spinning' = spinning
  BY DEF Subscribe, IsNext, IO!Schedule
<1>2. /\ OpenInv /\ ioQueued \subseteq Consumer /\ ioRunning \subseteq Consumer
      /\ MaxTries \in Nat \ {0}
  BY ConstantsAssumption DEF IInv, TypeOK, ConstantsAssumption
<1>3. StreamsOf(o) \subseteq Consumer /\ \A c \in StreamsOf(o) : c[1] = o
  BY DEF StreamsOf, Consumer
<1>4. \A c \in StreamsOf(o) : c \notin ioRunning /\ tries[c] < MaxTries
  BY <1>1, <1>2, <1>3 DEF OpenInv
<1>5. ioQueued' \cap ioRunning' = {} /\ spinning' \subseteq ioRunning'
  BY <1>1, <1>2, <1>4 DEF OpenInv
<1>6. \A c \in ioQueued' \cup ioRunning' : c[1] \in used' /\ tries'[c] < MaxTries
  BY <1>1, <1>2, <1>3, <1>4 DEF OpenInv
<1>7. \A c \in Consumer : c[1] \notin used' => tries'[c] = 0
  BY <1>1, <1>2 DEF OpenInv
<1> QED BY <1>1, <1>2, <1>3, <1>5, <1>6, <1>7 DEF OpenInv

(* An attempt that fails is the last, and the stream is given up, or there is another. *)
LEMMA FailureCounted ==
  ASSUME IInv, NEW c \in Consumer, ConnectFails(c)
  PROVE  OpenInv' /\ tries' \in [Consumer -> 0..MaxTries]
<1>1. /\ c \in ioRunning \ spinning /\ tries' = [tries EXCEPT ![c] = tries[c] + 1]
      /\ ioQueued' = ioQueued /\ used' = used /\ spinning' = spinning
      /\ \/ tries'[c] = MaxTries /\ ioRunning' = ioRunning \ {c}
         \/ tries'[c] # MaxTries /\ ioRunning' = ioRunning
  BY DEF ConnectFails, IO!Finish, IO!Idle
<1>2. /\ OpenInv /\ tries \in [Consumer -> 0..MaxTries]
      /\ MaxTries \in Nat
  BY ConstantsAssumption DEF IInv, TypeOK, ConstantsAssumption
<1>3. tries[c] < MaxTries /\ c[1] \in used /\ c \notin ioQueued /\ tries[c] \in Nat
  BY <1>1, <1>2 DEF OpenInv
<1>4. /\ tries'[c] = tries[c] + 1
      /\ \A d \in Consumer : d # c => tries'[d] = tries[d]
  BY <1>1, <1>2
<1>5. tries' \in [Consumer -> 0..MaxTries]
  <2>1. tries[c] + 1 \in 0..MaxTries
    BY <1>2, <1>3
  <2> QED BY <1>1, <1>2, <2>1
<1>6. ioQueued \subseteq Consumer /\ ioRunning \subseteq Consumer
  BY DEF IInv, TypeOK
<1>7. \A d \in ioQueued' \cup ioRunning' : d[1] \in used' /\ tries'[d] < MaxTries
  <2>1. ASSUME NEW d \in ioQueued' \cup ioRunning' PROVE d[1] \in used' /\ tries'[d] < MaxTries
    <3>1. CASE d = c
      <4>1. tries'[c] # MaxTries
        BY <1>1, <1>3, <2>1, <3>1
      <4> QED BY <1>1, <1>2, <1>3, <1>4, <3>1, <4>1
    <3>2. CASE d # c
      BY <1>1, <1>2, <1>4, <1>6, <2>1, <3>2 DEF OpenInv
    <3> QED BY <3>1, <3>2
  <2> QED BY <2>1
<1>8. \A d \in Consumer : d[1] \notin used' => tries'[d] = 0
  BY <1>1, <1>2, <1>3, <1>4 DEF OpenInv
<1>9. ioQueued' \cap ioRunning' = {} /\ spinning' \subseteq ioRunning'
  BY <1>1, <1>2 DEF OpenInv
<1> QED BY <1>5, <1>7, <1>8, <1>9 DEF OpenInv

LEMMA OpenStep ==
  ASSUME IInv, [Next]_vars
  PROVE  /\ OpenInv' /\ ioQueued' \subseteq Consumer /\ ioRunning' \subseteq Consumer
         /\ tries' \in [Consumer -> 0..MaxTries]
<1>1. /\ OpenInv /\ ioQueued \subseteq Consumer /\ ioRunning \subseteq Consumer
      /\ tries \in [Consumer -> 0..MaxTries]
  BY DEF IInv, TypeOK
<1>2. CASE \E k \in Container : Subscribe(k)
  <2>1. tries' = tries
    BY <1>2 DEF Subscribe
  <2> QED BY <1>1, <1>2, <2>1, SubscribeOpens
<1>3. CASE \E c \in Consumer : ConnectFails(c)
  <2>1. ioQueued' = ioQueued /\ ioRunning' \subseteq ioRunning
    BY <1>3 DEF ConnectFails, IO!Finish, IO!Idle
  <2> QED BY <1>1, <1>3, <2>1, FailureCounted
<1>4. ASSUME NEW c \in Consumer, StartOpen(c)
      PROVE  /\ ioQueued' \cup ioRunning' \subseteq ioQueued \cup ioRunning
             /\ ioQueued' \cap ioRunning' = {} /\ spinning' \subseteq ioRunning'
             /\ UNCHANGED <<used, tries>>
  BY <1>1, <1>4 DEF StartOpen, IO!Start, OpenInv
<1>5. ASSUME NEW c \in Consumer, Connect(c)
      PROVE  /\ ioQueued' \cup ioRunning' \subseteq ioQueued \cup ioRunning
             /\ ioQueued' \cap ioRunning' = {} /\ spinning' \subseteq ioRunning'
             /\ UNCHANGED <<used, tries>>
  BY <1>1, <1>5 DEF Connect, IO!Finish, OpenInv
<1>6. \/ \E k \in Container : Subscribe(k)
      \/ \E c \in Consumer : StartOpen(c) \/ Connect(c) \/ ConnectFails(c) \/ ConnectThrows(c)
      \/ UNCHANGED <<used, ioQueued, ioRunning, tries, spinning>>
  BY DEF Next, Unsubscribe, ComputeStep, IOStep, ListenerStep, StartTask, NetworkReady, Block,
     SetClosed, PauseListener, Leave, Enter, Drop, Handle, Handled, Publish, Unsubscribed,
     UnsubscribeRefused, ioVars, vars
<1>7. CASE /\ ioQueued' \cup ioRunning' \subseteq ioQueued \cup ioRunning
           /\ ioQueued' \cap ioRunning' = {} /\ spinning' \subseteq ioRunning'
           /\ UNCHANGED <<used, tries>>
  BY <1>1, <1>7 DEF OpenInv
<1>8. CASE UNCHANGED <<used, ioQueued, ioRunning, tries, spinning>>
  BY <1>1, <1>8 DEF OpenInv
<1>9. ASSUME NEW c \in Consumer, ConnectThrows(c)
      PROVE  /\ ioQueued' \cup ioRunning' \subseteq ioQueued \cup ioRunning
             /\ ioQueued' \cap ioRunning' = {} /\ spinning' \subseteq ioRunning'
             /\ UNCHANGED <<used, tries>>
  BY <1>1, <1>9 DEF ConnectThrows, IO!Idle, OpenInv
<1> QED BY <1>2, <1>3, <1>4, <1>5, <1>6, <1>7, <1>8, <1>9

-----------------------------------------------------------------------------
(* The registry, and the flags of the streams.                              *)

LEMMA RegistryStep ==
  ASSUME IInv, [Next]_vars
  PROVE  registry' \in [Container -> Object \cup {None}] /\ used' \subseteq Object
<1>1. registry \in [Container -> Object \cup {None}] /\ used \subseteq Object
  BY DEF IInv, TypeOK
<1>2. ASSUME NEW k \in Container, Subscribe(k)
      PROVE  registry' \in [Container -> Object \cup {None}] /\ used' \subseteq Object
  BY <1>1, <1>2 DEF Subscribe, IsNext
<1>3. ASSUME NEW k \in Container, Unsubscribe(k)
      PROVE  registry' \in [Container -> Object \cup {None}] /\ used' \subseteq Object
  BY <1>1, <1>3 DEF Unsubscribe
<1>4. (\E k \in Container : Subscribe(k) \/ Unsubscribe(k)) \/ UNCHANGED <<registry, used>>
  BY DEF Next, ComputeStep, IOStep, ListenerStep, StartTask, NetworkReady, Block, SetClosed,
     PauseListener, Leave, StartOpen, Connect, ConnectFails, ConnectThrows, Enter, Drop, Handle,
     Handled, Publish, Unsubscribed, UnsubscribeRefused, vars
<1> QED BY <1>1, <1>2, <1>3, <1>4

FlagsOK ==
  /\ ready \subseteq Consumer /\ connected \subseteq ready /\ paused \subseteq ready
  /\ closed \subseteq Consumer /\ stopped \subseteq closed /\ leaving \subseteq stopped
  /\ removing \subseteq leaving
  /\ \A o \in blocked : <<"cleanup", o>> \in running

LEMMA FlagsStep == ASSUME IInv, [Next]_vars PROVE FlagsOK'
<1>1. FlagsOK
  BY DEF IInv, TypeOK, FlagsOK
<1>2. CASE \E c \in Consumer : Connect(c)
  BY <1>1, <1>2 DEF Connect, FlagsOK, poolVars, closeVars
<1>3. CASE \E o \in Object, c \in Consumer : SetClosed(o, c)
  BY <1>1, <1>3 DEF SetClosed, FlagsOK, poolVars, ioVars, brokerVars
<1>4. CASE \E o \in Object, c \in Consumer : Leave(o, c)
  BY <1>1, <1>4 DEF Leave, FlagsOK, poolVars, ioVars, brokerVars
<1>5. CASE \E o \in Object : Block(o)
  BY <1>1, <1>5 DEF Block, Cleans, FlagsOK, poolVars, ioVars, brokerVars
<1>6. CASE \E c \in Consumer : Unsubscribed(c) \/ UnsubscribeRefused(c)
  BY <1>1, <1>6 DEF Unsubscribed, UnsubscribeRefused, FlagsOK, poolVars, ioVars, brokerVars
<1>7. CASE \E t \in Task : StartTask(t)
  BY <1>1, <1>7 DEF StartTask, Pool!Start, FlagsOK, ioVars, closeVars, brokerVars
<1>8. CASE \E o \in Object : NetworkReady(o)
  <2>1. PICK o \in Object : running' = running \ {<<"ready", o>>}
    BY <1>8 DEF NetworkReady, Pool!Finish
  <2>2. UNCHANGED <<ioVars, closeVars, brokerVars>>
    BY <1>8 DEF NetworkReady
  <2>3. \A p : <<"cleanup", p>> # <<"ready", o>>
    OBVIOUS
  <2> QED BY <1>1, <2>1, <2>2, <2>3 DEF FlagsOK, ioVars, closeVars, brokerVars
<1>9. \/ \E c \in Consumer : Connect(c) \/ Unsubscribed(c) \/ UnsubscribeRefused(c)
      \/ \E o \in Object, c \in Consumer :
           SetClosed(o, c) \/ PauseListener(o, c) \/ Leave(o, c)
      \/ \E o \in Object : Block(o) \/ NetworkReady(o)
      \/ \E t \in Task : StartTask(t)
      \/ UNCHANGED <<ready, connected, closeVars, running>>
  BY DEF Next, Subscribe, Unsubscribe, ComputeStep, IOStep, ListenerStep, Pool!Schedule,
     StartOpen, ConnectFails, ConnectThrows, Enter, Drop, Handle, Handled, Publish, poolVars,
     ioVars, brokerVars, vars
<1>10. CASE UNCHANGED <<ready, connected, closeVars, running>>
  BY <1>1, <1>10 DEF FlagsOK, closeVars
<1>11. CASE \E o \in Object, c \in Consumer : PauseListener(o, c)
  BY <1>1, <1>11 DEF PauseListener, PausedWith, FlagsOK, poolVars, ioVars, brokerVars
<1> QED BY <1>11, <1>2, <1>3, <1>4, <1>5, <1>6, <1>7, <1>8, <1>9, <1>10

-----------------------------------------------------------------------------
(* Messages and the listener thread.                                        *)

ListenerStates == {None} \cup [stream : Consumer, msg : Message, works : BOOLEAN]

MessagesOK ==
  /\ given \in [Message -> SUBSET Consumer] /\ copies \in [Message -> SUBSET connected]
  /\ handled \in [Message -> Nat] /\ listener \in ListenerStates
  /\ \A m \in Message : OnceAt(m)
  /\ HeldInv /\ QuietOnceClosed

LEMMA MessageFacts ==
  ASSUME IInv
  PROVE  MessagesOK /\ connected \subseteq Consumer /\ leaving \subseteq closed /\ removing \subseteq leaving
BY DEF IInv, TypeOK, MessagesOK, ListenerStates

(* The broker gives a message one copy; a delegate that has a message of before is one
   of another message, or of a stream that was closed. *)
LEMMA PublishStep ==
  ASSUME IInv, NEW m \in Message, Publish(m)
  PROVE  MessagesOK'
<1>1. PICK c \in connected :
        /\ given[m] = {} /\ given' = [given EXCEPT ![m] = {c}] /\ copies' = [copies EXCEPT ![m] = {c}]
        /\ UNCHANGED <<connected, handled, listener, closed, leaving>>
  BY DEF Publish, Recipients, closeVars, handlerVars
<1>2. MessagesOK
  BY MessageFacts
<1>3. copies[m] = {} /\ handled[m] = 0
  BY <1>1, <1>2 DEF MessagesOK, OnceAt
<1>4. copies' \in [Message -> SUBSET connected] /\ copies'[m] = {c}
      /\ \A n \in Message : n # m => copies'[n] = copies[n]
  BY <1>1, <1>2 DEF MessagesOK
<1>8. /\ given' \in [Message -> SUBSET Consumer] /\ given'[m] = {c}
      /\ \A n \in Message : n # m => given'[n] = given[n]
  BY <1>1, <1>2, MessageFacts DEF MessagesOK
<1>5. \A n \in Message : OnceAt(n)'
  <2>1. ASSUME NEW n \in Message PROVE OnceAt(n)'
    <3>1. CASE n = m
      BY <1>1, <1>3, <1>4, <1>8, <3>1 DEF OnceAt
    <3>2. CASE n # m
      <4>1. OnceAt(n)
        BY <1>2 DEF MessagesOK
      <4> QED BY <1>1, <1>4, <1>8, <3>2, <4>1 DEF OnceAt
    <3> QED BY <3>1, <3>2
  <2> QED BY <2>1
<1>6. HeldInv'
  <2>1. ASSUME listener # None, ~listener.works
        PROVE  listener.stream \in copies'[listener.msg] \cup closed
    <3>1. listener.msg \in Message /\ listener.stream \in copies[listener.msg] \cup closed
      BY <1>2, <2>1 DEF MessagesOK, ListenerStates, HeldInv
    <3> QED BY <1>3, <1>4, <3>1
  <2> QED BY <1>1, <2>1 DEF HeldInv
<1>7. QuietOnceClosed'
  BY <1>1, <1>2 DEF MessagesOK, QuietOnceClosed
<1> QED BY <1>1, <1>2, <1>4, <1>5, <1>6, <1>7, <1>8 DEF MessagesOK, ListenerStates

(* The subscription that the broker removes is that of a stream that is closed. *)
LEMMA UnsubscribedStep ==
  ASSUME IInv, NEW c \in Consumer, Unsubscribed(c)
  PROVE  MessagesOK'
<1>1. /\ c \in closed
      /\ connected' = connected \ {c} /\ copies' = [m \in Message |-> copies[m] \ {c}]
      /\ UNCHANGED <<given, handled, listener, closed, leaving>>
  BY MessageFacts DEF Unsubscribed, handlerVars
<1>2. MessagesOK
  BY MessageFacts
<1>3. copies' \in [Message -> SUBSET connected']
  BY <1>1, <1>2 DEF MessagesOK
<1>4. \A n \in Message : OnceAt(n)'
  BY <1>1, <1>2 DEF MessagesOK, OnceAt
<1>5. HeldInv'
  BY <1>1, <1>2 DEF MessagesOK, ListenerStates, HeldInv
<1> QED BY <1>1, <1>2, <1>3, <1>4, <1>5 DEF MessagesOK, ListenerStates, QuietOnceClosed

LEMMA EnterStep ==
  ASSUME IInv, NEW c \in Consumer, NEW m \in Message, Enter(c, m)
  PROVE  MessagesOK'
<1>1. /\ c \in copies[m] /\ listener' = [stream |-> c, msg |-> m, works |-> FALSE]
      /\ UNCHANGED <<connected, given, copies, handled, closed, leaving>>
  BY DEF Enter, closeVars, brokerVars
<1>2. MessagesOK
  BY MessageFacts
<1> QED BY <1>1, <1>2 DEF MessagesOK, ListenerStates, OnceAt, HeldInv, QuietOnceClosed

(* What the delegate drops or acknowledges is no longer held. *)
LEMMA Acknowledged ==
  ASSUME IInv, listener # None,
         copies' = [copies EXCEPT ![listener.msg] = @ \ {listener.stream}]
  PROVE  /\ listener.msg \in Message /\ listener.stream \in Consumer
         /\ copies' \in [Message -> SUBSET connected]
         /\ copies'[listener.msg] = copies[listener.msg] \ {listener.stream}
         /\ \A n \in Message : n # listener.msg => copies'[n] = copies[n]
<1>1. copies \in [Message -> SUBSET connected]
      /\ listener \in [stream : Consumer, msg : Message, works : BOOLEAN]
  BY MessageFacts DEF MessagesOK, ListenerStates
<1> QED BY <1>1

LEMMA DropStep == ASSUME IInv, Drop PROVE MessagesOK'
<1>1. /\ listener # None /\ listener' = None
      /\ copies' = [copies EXCEPT ![listener.msg] = @ \ {listener.stream}]
      /\ UNCHANGED <<connected, given, handled, closed, leaving>>
  BY DEF Drop, closeVars
<1>2. MessagesOK
  BY MessageFacts
<1>3. \A n \in Message : copies'[n] \subseteq copies[n]
  BY <1>1, Acknowledged
<1>4. copies' \in [Message -> SUBSET connected']
  BY <1>1, Acknowledged
<1>5. \A n \in Message : OnceAt(n)'
  BY <1>1, <1>2, <1>3 DEF MessagesOK, OnceAt
<1> QED BY <1>1, <1>2, <1>4, <1>5 DEF MessagesOK, ListenerStates, HeldInv, QuietOnceClosed

(* A delegate that handles its message holds the only copy of it. *)
LEMMA HandleStep == ASSUME IInv, Handle PROVE MessagesOK'
<1> DEFINE m == listener.msg
           c == listener.stream
<1>1. /\ listener # None /\ ~listener.works /\ c \notin closed
      /\ copies' = [copies EXCEPT ![m] = @ \ {c}]
      /\ handled' = [handled EXCEPT ![m] = handled[m] + 1]
      /\ listener' = [listener EXCEPT !.works = TRUE]
      /\ UNCHANGED <<connected, given, closed, leaving>>
  BY DEF Handle, IsClosed, closeVars
<1>2. MessagesOK /\ leaving \subseteq closed
  BY MessageFacts
<1>3. /\ m \in Message /\ c \in Consumer
      /\ copies' \in [Message -> SUBSET connected] /\ copies'[m] = copies[m] \ {c}
      /\ \A n \in Message : n # m => copies'[n] = copies[n]
  BY <1>1, Acknowledged
<1>4. c \in copies[m]
  BY <1>1, <1>2 DEF MessagesOK, HeldInv
<1>5. handled[m] = 0 /\ given[m] # {} /\ copies'[m] = {}
  BY <1>2, <1>3, <1>4 DEF MessagesOK, OnceAt
<1>6. /\ handled' \in [Message -> Nat] /\ handled'[m] = 1
      /\ \A n \in Message : n # m => handled'[n] = handled[n]
  BY <1>1, <1>2, <1>3, <1>5 DEF MessagesOK
<1>7. \A n \in Message : OnceAt(n)'
  <2>1. ASSUME NEW n \in Message PROVE OnceAt(n)'
    <3>1. CASE n = m
      BY <1>1, <1>5, <1>6, <3>1 DEF OnceAt
    <3>2. CASE n # m
      <4>1. OnceAt(n)
        BY <1>2 DEF MessagesOK
      <4> QED BY <1>1, <1>3, <1>6, <3>2, <4>1 DEF OnceAt
    <3> QED BY <3>1, <3>2
  <2> QED BY <2>1
<1>8. /\ listener' \in [stream : Consumer, msg : Message, works : BOOLEAN]
      /\ listener'.works = TRUE /\ listener'.stream = c
  BY <1>1, <1>2 DEF MessagesOK, ListenerStates
<1>9. HeldInv' /\ QuietOnceClosed'
  BY <1>1, <1>2, <1>8 DEF HeldInv, QuietOnceClosed
<1> QED BY <1>1, <1>2, <1>3, <1>6, <1>7, <1>8, <1>9 DEF MessagesOK, ListenerStates

(* Close asks for the end of the subscription while no delegate of the stream is at work. *)
LEMMA LeaveStep ==
  ASSUME IInv, NEW o \in Object, NEW c \in Consumer, Leave(o, c)
  PROVE  MessagesOK'
<1>1. /\ ~Pending(c) /\ leaving' = leaving \cup {c}
      /\ UNCHANGED <<connected, given, copies, handled, listener, closed>>
  BY DEF Leave, brokerVars, handlerVars
<1>2. MessagesOK
  BY MessageFacts
<1>3. QuietOnceClosed'
  BY <1>1, <1>2 DEF MessagesOK, QuietOnceClosed, Pending
<1> QED BY <1>1, <1>2, <1>3 DEF MessagesOK, ListenerStates, OnceAt, HeldInv

LEMMA MessageStep == ASSUME IInv, [Next]_vars PROVE MessagesOK'
<1>1. MessagesOK
  BY MessageFacts
<1>2. \/ \E m \in Message : Publish(m)
      \/ \E c \in Consumer, m \in Message : Enter(c, m)
      \/ \E c \in Consumer : Unsubscribed(c)
      \/ Drop \/ Handle
      \/ \E o \in Object, c \in Consumer : Leave(o, c)
      \/ /\ UNCHANGED <<given, copies, handled, leaving>>
         /\ connected \subseteq connected' /\ closed \subseteq closed'
         /\ listener' = listener \/ listener' = None
  BY DEF Next, Subscribe, Unsubscribe, ComputeStep, IOStep, ListenerStep, StartTask,
     NetworkReady, Block, SetClosed, PauseListener, StartOpen, Connect, ConnectFails,
     ConnectThrows, Handled, UnsubscribeRefused, closeVars, brokerVars, handlerVars, vars
<1>3. CASE /\ UNCHANGED <<given, copies, handled, leaving>>
           /\ connected \subseteq connected' /\ closed \subseteq closed'
           /\ listener' = listener \/ listener' = None
  <2>1. copies' \in [Message -> SUBSET connected']
    BY <1>1, <1>3 DEF MessagesOK
  <2>2. HeldInv'
    BY <1>1, <1>3 DEF MessagesOK, HeldInv
  <2>3. QuietOnceClosed' /\ listener' \in ListenerStates'
    BY <1>1, <1>3 DEF MessagesOK, QuietOnceClosed, ListenerStates
  <2> QED BY <1>1, <1>3, <2>1, <2>2, <2>3 DEF MessagesOK, OnceAt
<1> QED BY <1>2, <1>3, PublishStep, EnterStep, UnsubscribedStep, DropStep, HandleStep, LeaveStep

-----------------------------------------------------------------------------

LEMMA StepIInv == ASSUME IInv, [Next]_vars PROVE IInv'
<1>1. FiniteInv' /\ Cardinality(running') <= ComputeThreads /\ Cardinality(ioRunning') <= IOThreads
  BY PoolStep
<1>2. TasksInv' /\ queued' \cap running' = {} /\ queued' \subseteq Task /\ running' \subseteq Task
  BY TasksStep
<1>3. /\ OpenInv' /\ ioQueued' \subseteq Consumer /\ ioRunning' \subseteq Consumer
      /\ tries' \in [Consumer -> 0..MaxTries]
  BY OpenStep
<1>4. registry' \in [Container -> Object \cup {None}] /\ used' \subseteq Object
  BY RegistryStep
<1>5. FlagsOK'
  BY FlagsStep
<1>6. MessagesOK'
  BY MessageStep
<1>7. TypeOK'
  BY <1>1, <1>2, <1>3, <1>4, <1>5, <1>6 DEF TypeOK, FlagsOK, OpenInv, MessagesOK, ListenerStates
<1> QED BY <1>1, <1>2, <1>3, <1>6, <1>7 DEF IInv, MessagesOK

LEMMA IInvImplies == IInv => StreamsInv
BY DEF IInv, OnceAt, StreamsInv, HandledOnce

(* Whatever streams are opened, closed, left and refused, and however the broker hands out
   messages: a peer handles a message at most once, and no handler of a stream is at work
   after Close has asked for the end of its subscription (ReaderStream::Close and
   handleMessageDelegate), with threads that a pool really has. *)
THEOREM StreamsSafe == Spec => []StreamsInv
<1>1. Init => IInv
  BY InitIInv
<1>2. IInv /\ [Next]_vars => IInv'
  BY StepIInv
<1>3. IInv => StreamsInv
  BY IInvImplies
<1> QED BY <1>1, <1>2, <1>3, PTL DEF Spec

================================================================================
