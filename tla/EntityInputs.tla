----------------------------- MODULE EntityInputs -----------------------------
(****************************************************************************)
(* The inputs of an entity that may move meanwhile as AuthorityTransfer     *)
(* says (ETTRegistry.cpp, CelteInputSystem.cpp, WriterStreamPool.hpp,       *)
(* WriterStream.hpp).                                                       *)
(*                                                                          *)
(* They go from the peer on which somebody plays to the container that its  *)
(* copy is in, and are kept with the copies of those who listen there.  A   *)
(* peer has a pool of writer streams, one for each container, opened by the *)
(* first input and dropped some time after: the time of last use is written *)
(* to a copy of the entry.  A stream is named here by the input it was      *)
(* opened for.                                                              *)
(****************************************************************************)
EXTENDS AuthorityTransfer, FiniteSets

CONSTANTS
  Input,     \* the inputs
  NoStream,  \* no entry in the pool
  Playing,   \* the peers on which somebody plays the entity
  MaxCrossed \* bound: inputs uploaded before the end of a transfer or deletion

ASSUME InputsAssumption ==
  /\ Playing \subseteq Peer
  /\ NoStream \notin Input
  /\ MaxCrossed \in Nat

VARIABLES
  topic,      \* topic[i]: the container whose input topic i is written to, or NoContainer
  via,        \* via[i]: the stream that writes i, or NoStream
  pool,       \* pool[p][c]: the stream of p to the input topic of c, or NoStream
  ready,      \* the streams that have their producer
  unwritten,  \* the inputs that wait for their stream
  inbound,    \* the inputs on their way, as <<input, peer>>
  got,        \* got[p]: those that entered the lists of p's copy, which keep the last
              \* ten of each name
  calm        \* history: those that no transfer or deletion has crossed

streamVars == <<topic, via, pool, ready, unwritten>>
inputVars  == <<streamVars, inbound, got, calm>>

InputsInit ==
  /\ Init
  /\ topic = [i \in Input |-> NoContainer]
  /\ via = [i \in Input |-> NoStream]
  /\ pool = [p \in Peer |-> [c \in Container |-> NoStream]]
  /\ ready = {} /\ unwritten = {} /\ inbound = {}
  /\ got = [p \in Peer |-> {}]
  /\ calm = {}

-----------------------------------------------------------------------------

(* The entity is announced, and nothing of it is under way. *)
Settled == Quiet /\ ntransfers > 0 /\ ndeletes = 0

NumUploaded == Cardinality({i \in Input : topic[i] # NoContainer})

(* Faulty: like the replication stream, the input stream is opened where the container
   is not locally owned. *)
HeardByOthers(c) == {p \in Peer : c \in listening[p] /\ OwnerOf[c] # p}

(* Container::__initStreams: whoever has the container reads its inputs. *)
HeardBy(c) == {p \in Peer : c \in listening[p]}

(* A topic that loses what it carries, or a producer that could not be made, reaches
   nobody or not everybody. *)
Arrives(i, P) ==
  \E R \in IF Lossy THEN SUBSET P ELSE {P} : inbound' = inbound \cup ({i} \X R)

-----------------------------------------------------------------------------

(* WriterStreamPool::Write without an entry: the stream is opened, and writes the input
   when it is ready. *)
OpenFor(p, c, i) ==
  /\ pool[p][c] = NoStream
  /\ pool' = [pool EXCEPT ![p][c] = i]
  /\ via' = [via EXCEPT ![i] = i]
  /\ unwritten' = unwritten \cup {i}
  /\ UNCHANGED <<ready, inbound>>

(* With a stream that is not ready: an IO task waits for it. *)
Defer(p, c, i) ==
  /\ pool[p][c] \notin ready \cup {NoStream}
  /\ via' = [via EXCEPT ![i] = pool[p][c]]
  /\ unwritten' = unwritten \cup {i}
  /\ UNCHANGED <<pool, ready, inbound>>

(* With one that is: the input is written at once. *)
WriteNow(p, c, i) ==
  /\ pool[p][c] \in ready
  /\ via' = [via EXCEPT ![i] = pool[p][c]]
  /\ Arrives(i, HeardBy(c))
  /\ UNCHANGED <<pool, ready, unwritten>>

(* ETTRegistry::UploadInputData, by the engine: of an entity that is not registered
   nothing is sent. *)
UploadInputData(p, i) ==
  /\ Quiet \/ NumUploaded < MaxCrossed
  /\ p \in Playing
  /\ topic[i] = NoContainer
  /\ EngineFree(p)
  /\ Registered(p)
  /\ topic' = [topic EXCEPT ![i] = ett[p].owner]
  /\ OpenFor(p, ett[p].owner, i) \/ Defer(p, ett[p].owner, i) \/ WriteNow(p, ett[p].owner, i)
  /\ calm' = IF Settled THEN calm \cup {i} ELSE calm
  /\ UNCHANGED <<vars, got>>

(* The callback of WriterStream::Open, up to onReady.  If the pool and the tasks have let
   the stream go, it uses an object that is gone: it may do the same, or nothing. *)
ProducerReady(s) ==
  /\ via[s] = s /\ s \notin ready
  /\ ready' = ready \cup {s}
  /\ UNCHANGED <<vars, topic, via, pool, unwritten, inbound, got, calm>>

(* Its onReady: the input the stream was opened for. *)
WriteFirst(s) ==
  /\ s \in unwritten \cap ready
  /\ via[s] = s
  /\ unwritten' = unwritten \ {s}
  /\ Arrives(s, HeardBy(topic[s]))
  /\ UNCHANGED <<vars, topic, via, pool, ready, got, calm>>

(* The IO task sees that the stream is ready. *)
WriteDeferred(i) ==
  /\ i \in unwritten
  /\ via[i] # i /\ via[i] \in ready
  /\ unwritten' = unwritten \ {i}
  /\ Arrives(i, HeardBy(topic[i]))
  /\ UNCHANGED <<vars, topic, via, pool, ready, got, calm>>

(* The cleanup thread of the pool: the idle time of an entry counts from when it was made. *)
ExpireStream(p, c) ==
  /\ pool[p][c] # NoStream
  /\ pool' = [pool EXCEPT ![p][c] = NoStream]
  /\ UNCHANGED <<vars, topic, via, ready, unwritten, inbound, got, calm>>

(* CelteInputSystem::HandleInput, by the listener thread, with the entity's lock. *)
HandleInput(p, i) ==
  /\ <<i, p>> \in inbound
  /\ ListenerFree(p) /\ EntityUnlocked(p)
  /\ inbound' = inbound \ {<<i, p>>}
  /\ got' = IF Registered(p) THEN [got EXCEPT ![p] = @ \cup {i}] ELSE got
  /\ UNCHANGED <<vars, streamVars, calm>>

(* A step of the transfer: a copy that is erased takes its lists with it. *)
EntityStep ==
  /\ Next
  /\ Quiet' \/ NumUploaded <= MaxCrossed
  /\ got' = [p \in Peer |-> IF ett'[p] = NoEntity THEN {} ELSE got[p]]
  /\ calm' = IF ntransfers' = ntransfers /\ ndeletes' = ndeletes THEN calm ELSE {}
  /\ UNCHANGED <<streamVars, inbound>>

InputsNext ==
  \/ EntityStep
  \/ \E p \in Peer, i \in Input : UploadInputData(p, i) \/ HandleInput(p, i)
  \/ \E i \in Input : ProducerReady(i) \/ WriteFirst(i) \/ WriteDeferred(i)
  \/ \E p \in Peer, c \in Container : ExpireStream(p, c)

InputsSpec == InputsInit /\ [][InputsNext]_<<vars, inputVars>>

-----------------------------------------------------------------------------
(* Properties.                                                              *)

InputsTypeOK ==
  /\ topic \in [Input -> Container \cup {NoContainer}]
  /\ via \in [Input -> Input \cup {NoStream}]
  /\ pool \in [Peer -> [Container -> Input \cup {NoStream}]]
  /\ ready \subseteq Input /\ unwritten \subseteq Input
  /\ inbound \subseteq Input \X Peer
  /\ got \in [Peer -> SUBSET Input]
  /\ calm \subseteq Input

(* Nothing of input i is on its way any more. *)
Delivered(i) == i \notin unwritten /\ \A p \in Peer : <<i, p>> \notin inbound

(* An input reaches the server that plays the entity: if it was uploaded, by whatever
   peer, while the entity was settled, and no transfer or deletion has begun since,
   then once it has been delivered the server that has authority has it in its lists.
   Whether its stream was opened for it, waited for, ready or made anew does not
   matter. *)
InputsReachAuthority ==
  \A i \in calm : Delivered(i) => \E p \in Peer : HasAuthority(p) /\ i \in got[p]

InputsInv == InputsTypeOK /\ InputsReachAuthority
=============================================================================
