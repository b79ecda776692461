-------------------------------- MODULE Streams --------------------------------
(****************************************************************************)
(* The streams of a container on a peer that does not own it, from the      *)
(* subscription to the trash (ReaderStream, CelteService, TrashBin,         *)
(* AsyncTaskScheduler, Container.cpp).                                      *)
(*                                                                          *)
(* Each subscription makes a new object, whose streams are opened by tasks  *)
(* of the pool for input and output; a computing thread waits until all of  *)
(* them are ready.  When the peer unsubscribes, a computing thread closes   *)
(* the streams one after the other.  Messages are handled by the one        *)
(* listener thread of the Pulsar client, for old objects and new ones.      *)
(*                                                                          *)
(* BlockUntilNoPending compares the pointer to the counter with zero and    *)
(* not the counter: it never returns.  The thread that cleans an object     *)
(* up is lost to the pool, and the object is never destroyed.               *)
(****************************************************************************)
EXTENDS Naturals, FiniteSets, SequencesExt

CONSTANTS
  Object,           \* container objects, numbered in the order in which they are made
  Of,               \* Of[o]: the container that o is an object of
  Stream,           \* the names of an object's streams, in the order of creation
  Message,          \* messages published for containers
  For,              \* For[m]: the container and the stream that m is for
  ComputeThreads, IOThreads,
  MaxTries,         \* how often a stream tries to subscribe
  None

ASSUME ConstantsAssumption ==
  /\ ComputeThreads \in Nat \ {0} /\ IOThreads \in Nat \ {0} /\ MaxTries \in Nat \ {0}
  /\ IsInjective(Stream)
  /\ Object \subseteq Nat /\ DOMAIN Of = Object
  /\ For \in [Message -> {Of[o] : o \in Object} \X ToSet(Stream)]

Container == {Of[o] : o \in Object}
Consumer == Object \X ToSet(Stream)
ReadyTask == {"ready"} \X Object
CleanupTask == {"cleanup"} \X Object
Task == ReadyTask \cup CleanupTask

VARIABLES
  registry,     \* registry[k]: the object of k in the ContainerRegistry, or None
  used,         \* the objects made so far
  queued, running,       \* the computing pool
  ioQueued, ioRunning,   \* the pool for input and output: streams to open
  tries,        \* tries[c]: how often the subscription of stream c has failed
  spinning,     \* the streams whose attempts throw without end
  ready,        \* the streams that have subscribed (_ready)
  closed,       \* the streams with _closed set
  stopped,      \* those among them whose Close has asked for a pause of the listener
  paused,       \* those among them whose listener is paused
  leaving,      \* the streams whose Close has asked for the end of the subscription
  removing,     \* those among them for which the broker has been asked
  blocked,      \* the objects whose cleanup waits in BlockUntilNoPending
  connected,    \* the consumers that the broker knows
  given,        \* given[m]: the consumers that the broker has given m to
  copies,       \* copies[m]: the consumers that hold a copy of m, not acknowledged
  handled,      \* handled[m]: how often the peer has handled m
  listener      \* what the listener thread is at, or None

poolVars == <<queued, running>>
ioVars == <<ioQueued, ioRunning, tries, spinning, ready>>
closeVars == <<closed, stopped, paused, leaving, removing, blocked>>
brokerVars == <<connected, given, copies>>
handlerVars == <<handled, listener>>
vars == <<registry, used, poolVars, ioVars, closeVars, brokerVars, handlerVars>>

Pool == INSTANCE Pool WITH Threads <- ComputeThreads
IO == INSTANCE Pool WITH Threads <- IOThreads, queued <- ioQueued, running <- ioRunning

-----------------------------------------------------------------------------

StreamsOf(o) == {o} \X ToSet(Stream)

(* The consumers of one topic. *)
Topic(k, s) == {c \in Consumer : Of[c[1]] = k /\ c[2] = s}

PostedBefore(c, d) ==
  \/ c[1] < d[1]
  \/ c[1] = d[1] /\ \E i, j \in DOMAIN Stream : i < j /\ c[2] = Stream[i] /\ d[2] = Stream[j]

(* PendingRefCount: the listener thread is inside the delegate of stream c. *)
Pending(c) == listener # None /\ listener.stream = c

Init ==
  /\ registry = [k \in Container |-> None] /\ used = {}
  /\ Pool!Init
  /\ IO!Init
  /\ tries = [c \in Consumer |-> 0] /\ spinning = {} /\ ready = {}
  /\ closed = {} /\ stopped = {} /\ paused = {} /\ leaving = {} /\ removing = {} /\ blocked = {}
  /\ connected = {} /\ given = [m \in Message |-> {}]
  /\ copies = [m \in Message |-> {}]
  /\ handled = [m \in Message |-> 0] /\ listener = None

-----------------------------------------------------------------------------
(* The engine and the handlers of remote calls.                             *)

(* The next object of a container. *)
IsNext(o, k) ==
  /\ o \in Object \ used /\ Of[o] = k
  /\ \A p \in Object \ used : o <= p

(* Subscribe, __initStreams and WaitForNetworkReady of a container that is not in
   the registry: a new object is made. *)
Subscribe(k) ==
  /\ registry[k] = None
  /\ \E o \in Object :
       /\ IsNext(o, k)
       /\ registry' = [registry EXCEPT ![k] = o]
       /\ used' = used \cup {o}
       /\ IO!Schedule(StreamsOf(o))
       /\ Pool!Schedule({<<"ready", o>>})
  /\ UNCHANGED <<tries, spinning, ready, closeVars, brokerVars, handlerVars>>

(* UpdateRefCount: the object leaves the registry and goes to the TrashBin. *)
Unsubscribe(k) ==
  /\ registry[k] # None
  /\ registry' = [registry EXCEPT ![k] = None]
  /\ Pool!Schedule({<<"cleanup", registry[k]>>})
  /\ UNCHANGED <<used, ioVars, closeVars, brokerVars, handlerVars>>

-----------------------------------------------------------------------------
(* The threads of the two pools.                                            *)

StartTask(t) ==
  /\ Pool!Start(t)
  /\ UNCHANGED <<registry, used, ioVars, closeVars, brokerVars, handlerVars>>

(* Faulty: a stream that is closed is not ready. *)
NetworkReadyOpen(o) ==
  /\ <<"ready", o>> \in running
  /\ StreamsOf(o) \subseteq ready \ closed
  /\ Pool!Finish(<<"ready", o>>)
  /\ UNCHANGED <<registry, used, ioVars, closeVars, brokerVars, handlerVars>>

(* WaitForNetworkReady keeps its thread until each stream has been ready once. *)
NetworkReady(o) ==
  /\ <<"ready", o>> \in running
  /\ StreamsOf(o) \subseteq ready
  /\ Pool!Finish(<<"ready", o>>)
  /\ UNCHANGED <<registry, used, ioVars, closeVars, brokerVars, handlerVars>>

(* This pool is first in, first out. *)
StartOpen(c) ==
  /\ IO!Start(c)
  /\ \A d \in ioQueued : PostedBefore(c, d) \/ c = d
  /\ UNCHANGED <<registry, used, poolVars, tries, spinning, ready, closeVars, brokerVars,
                 handlerVars>>

(* __subscribe.  It does not look at _closed: a stream closed before it was opened
   is connected all the same. *)
Connect(c) ==
  /\ c \in ioRunning \ spinning
  /\ ready' = ready \cup {c}
  /\ connected' = connected \cup {c}
  /\ IO!Finish(c)
  /\ UNCHANGED <<registry, used, poolVars, tries, spinning, closeVars, given, copies, handlerVars>>

(* The broker refuses; after the last attempt the task returns. *)
ConnectFails(c) ==
  /\ c \in ioRunning \ spinning
  /\ tries' = [tries EXCEPT ![c] = @ + 1]
  /\ IF tries'[c] = MaxTries THEN IO!Finish(c) ELSE IO!Idle
  /\ UNCHANGED <<registry, used, poolVars, spinning, ready, closeVars, brokerVars, handlerVars>>

(* An attempt that throws is not counted: the loop goes on without changing anything, and
   when every attempt from now on throws it never ends. *)
ConnectThrows(c) ==
  /\ c \in ioRunning \ spinning
  /\ spinning' = spinning \cup {c}
  /\ IO!Idle
  /\ UNCHANGED <<registry, used, poolVars, tries, ready, closeVars, brokerVars, handlerVars>>

-----------------------------------------------------------------------------
(* __cleanup of an object: Close of each stream, then BlockUntilNoPending.  *)

Cleans(o) == <<"cleanup", o>> \in running /\ o \notin blocked

(* The stream that the cleanup of o is at: the first whose Close has not ended. *)
AtStream(o, c) ==
  \E i \in DOMAIN Stream :
    /\ c = <<o, Stream[i]>> /\ c \notin leaving
    /\ \A j \in 1..(i - 1) : <<o, Stream[j]>> \in leaving

(* Faulty: the listeners of all objects of the container are paused. *)
PausedWithAll(c) == connected \cap Topic(Of[c[1]], c[2])

(* A consumer that is not connected yet cannot be paused. *)
PausedWith(c) == connected \cap {c}

(* Close: the flag, and the pause of the listener. *)
SetClosed(o, c) ==
  /\ Cleans(o) /\ AtStream(o, c)
  /\ c \notin closed
  /\ closed' = closed \cup {c}
  /\ UNCHANGED <<registry, used, poolVars, ioVars, stopped, paused, leaving, removing, blocked,
                 brokerVars, handlerVars>>

PauseListener(o, c) ==
  /\ Cleans(o) /\ AtStream(o, c)
  /\ c \in closed \ stopped
  /\ stopped' = stopped \cup {c}
  /\ paused' = paused \cup PausedWith(c)
  /\ UNCHANGED <<registry, used, poolVars, ioVars, closed, leaving, removing, blocked, brokerVars,
                 handlerVars>>

(* The rest of Close: unsubscribeAsync, unless a message is pending.  Nothing is asked
   for a consumer that is not connected yet. *)
Leave(o, c) ==
  /\ Cleans(o) /\ AtStream(o, c)
  /\ c \in stopped
  /\ ~Pending(c)
  /\ leaving' = leaving \cup {c}
  /\ removing' = removing \cup (connected \cap {c})
  /\ UNCHANGED <<registry, used, poolVars, ioVars, closed, stopped, paused, blocked, brokerVars,
                 handlerVars>>

(* BlockUntilNoPending: in Close, with a message pending, or after all were closed. *)
Block(o) ==
  /\ Cleans(o)
  /\ \/ StreamsOf(o) \subseteq leaving
     \/ \E c \in StreamsOf(o) \cap stopped : AtStream(o, c) /\ Pending(c)
  /\ blocked' = blocked \cup {o}
  /\ UNCHANGED <<registry, used, poolVars, ioVars, closed, stopped, paused, leaving, removing,
                 brokerVars, handlerVars>>

-----------------------------------------------------------------------------
(* The broker.                                                              *)

(* Faulty: each object subscribes under a name of its own. *)
RecipientsAll(C) == {C}

(* All objects of a container share one subscription: one consumer gets a message. *)
Recipients(C) == {{c} : c \in C}

(* What is published while no consumer is connected never reaches this peer. *)
Publish(m) ==
  /\ given[m] = {}
  /\ connected \cap Topic(For[m][1], For[m][2]) # {}
  /\ \E C \in Recipients(connected \cap Topic(For[m][1], For[m][2])) :
       /\ given' = [given EXCEPT ![m] = C]
       /\ copies' = [copies EXCEPT ![m] = C]
  /\ UNCHANGED <<registry, used, poolVars, ioVars, closeVars, connected, handlerVars>>

(* The subscription is removed with its last consumer. *)
Unsubscribed(c) ==
  /\ c \in removing
  /\ connected \cap Topic(Of[c[1]], c[2]) = {c}
  /\ removing' = removing \ {c}
  /\ connected' = connected \ {c}
  /\ copies' = [m \in Message |-> copies[m] \ {c}]
  /\ UNCHANGED <<registry, used, poolVars, ioVars, closed, stopped, paused, leaving, blocked, given,
                 handlerVars>>

(* While there is another consumer the broker refuses, and the callback only logs: the
   consumer stays connected, and goes on to get messages. *)
UnsubscribeRefused(c) ==
  /\ c \in removing
  /\ connected \cap Topic(Of[c[1]], c[2]) # {c}
  /\ removing' = removing \ {c}
  /\ UNCHANGED <<registry, used, poolVars, ioVars, closed, stopped, paused, leaving, blocked,
                 brokerVars, handlerVars>>

-----------------------------------------------------------------------------
(* handleMessageDelegate, on the listener thread.                           *)

(* The message is counted as pending before _closed is read. *)
Enter(c, m) ==
  /\ listener = None
  /\ c \in copies[m] \ paused
  /\ listener' = [stream |-> c, msg |-> m, works |-> FALSE]
  /\ UNCHANGED <<registry, used, poolVars, ioVars, closeVars, brokerVars, handled>>

IsClosed(c) == c \in closed

(* A stream that is closed drops the message without acknowledging it. *)
Drop ==
  /\ listener # None /\ ~listener.works
  /\ IsClosed(listener.stream)
  /\ copies' = [copies EXCEPT ![listener.msg] = @ \ {listener.stream}]
  /\ listener' = None
  /\ UNCHANGED <<registry, used, poolVars, ioVars, closeVars, connected, given, handled>>

Handle ==
  /\ listener # None /\ ~listener.works
  /\ ~IsClosed(listener.stream)
  /\ copies' = [copies EXCEPT ![listener.msg] = @ \ {listener.stream}]
  /\ handled' = [handled EXCEPT ![listener.msg] = @ + 1]
  /\ listener' = [listener EXCEPT !.works = TRUE]
  /\ UNCHANGED <<registry, used, poolVars, ioVars, closeVars, connected, given>>

Handled ==
  /\ listener # None /\ listener.works
  /\ listener' = None
  /\ UNCHANGED <<registry, used, poolVars, ioVars, closeVars, brokerVars, handled>>

-----------------------------------------------------------------------------

ComputeStep ==
  \/ \E t \in Task : StartTask(t)
  \/ \E o \in Object : NetworkReady(o) \/ Block(o)
  \/ \E o \in Object, c \in Consumer : 
       SetClosed(o, c) \/ PauseListener(o, c) \/ Leave(o, c)

IOStep == \E c \in Consumer : StartOpen(c) \/ Connect(c) \/ ConnectFails(c) \/ ConnectThrows(c)

ListenerStep ==
  \/ \E c \in Consumer, m \in Message : Enter(c, m)
  \/ Drop \/ Handle \/ Handled

Next ==
  \/ \E k \in Container : Subscribe(k) \/ Unsubscribe(k)
  \/ ComputeStep \/ IOStep \/ ListenerStep
  \/ \E m \in Message : Publish(m)
  \/ \E c \in Consumer : Unsubscribed(c) \/ UnsubscribeRefused(c)

(* Threads go on while they have something to do; the listener thread serves every
   message in time. *)
Fairness ==
  /\ WF_vars(ComputeStep) /\ WF_vars(IOStep) /\ WF_vars(ListenerStep)

Spec == Init /\ [][Next]_vars /\ Fairness

-----------------------------------------------------------------------------

(* The variables keep their types, no pool runs more tasks than it has threads, and a
   cleanup that is blocked keeps its thread. *)
TypeOK ==
  /\ registry \in [Container -> Object \cup {None}]
  /\ used \subseteq Object
  /\ queued \subseteq Task /\ running \subseteq Task /\ queued \cap running = {}
  /\ Cardinality(running) <= ComputeThreads
  /\ ioQueued \subseteq Consumer /\ ioRunning \subseteq Consumer
  /\ Cardinality(ioRunning) <= IOThreads
  /\ tries \in [Consumer -> 0..MaxTries] /\ spinning \subseteq ioRunning /\ ready \subseteq Consumer
  /\ stopped \subseteq closed /\ leaving \subseteq stopped /\ removing \subseteq leaving 
  /\ paused \subseteq ready
  /\ closed \subseteq Consumer
  /\ \A o \in blocked : <<"cleanup", o>> \in running
  /\ connected \subseteq ready /\ given \in [Message -> SUBSET Consumer]
  /\ copies \in [Message -> SUBSET connected]
  /\ handled \in [Message -> Nat]
  /\ listener \in {None} \cup [stream : Consumer, msg : Message, works : BOOLEAN]

(* A peer handles a message once, even while an old object of the container and the
   new one are both connected: they share a subscription, and a stream acknowledges
   what it handles. *)
HandledOnce == \A m \in Message : handled[m] <= 1

(* When Close goes on to remove the subscription no handler of the stream is at work,
   and none will be: the delegate counts itself before it reads _closed, Close sets
   _closed before it reads the count. *)
QuietOnceClosed == listener # None /\ listener.works => listener.stream \notin leaving

(* The three of them, in every reachable state: of the delegate of a stream, Close, and the
   pools they run on. *)
StreamsInv == TypeOK /\ HandledOnce /\ QuietOnceClosed

(* Streams that never get ready: their task has given up, throws without end, or waits for
   a pool whose threads all do. *)
NeverReady(c) ==
  /\ c \notin ready
  /\ \/ tries[c] = MaxTries
     \/ c \in spinning
     \/ c \in ioQueued /\ Cardinality(spinning) = IOThreads

(* Tasks that keep a thread for ever: the cleanup of an object, and the wait for such a
   stream. *)
Lost == {t \in running : \/ t[1] = "cleanup"
                         \/ t[1] = "ready" /\ \E c \in StreamsOf(t[2]) : NeverReady(c)}

(* A task gets a thread and, but for those that are lost, ends, as long as the pool
   has a thread left that is not lost.  Tasks are finite in number. *)
TasksRun ==
  []<>(queued \cup running \subseteq Lost \/ Cardinality(Lost) >= ComputeThreads)

(* A message that the broker gives to a stream is handled, or Close of that stream has
   begun: only a stream that is left loses messages, and a stream is not held up by those
   of an older object.  What the broker gives to the stream of an older object that is
   connected all the same is lost, even though a newer one is open. *)
MessagesArrive == []<>(\A m \in Message : handled[m] > 0 \/ given[m] \subseteq closed)

================================================================================
