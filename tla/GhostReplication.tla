-------------------------- MODULE GhostReplication --------------------------
(****************************************************************************)
(* The properties ("ghost") of one entity and how the copies of it on the   *)
(* peers come by their values (GhostSystem.cpp, and what ETTRegistry.cpp    *)
(* and AuthorityTransfer.cpp do with the ghost).                            *)
(*                                                                          *)
(* The engine of the server that owns the entity's container sets a         *)
(* property.  A change is put in the next update of the container; a worker *)
(* thread fetches that update and publishes it on the container's           *)
(* replication topic.  A peer also gets values without a packet: in the     *)
(* answer to GetExistingEntities when it joins a container, and in a take   *)
(* order when the entity is new to it.  No value has a version: whoever     *)
(* comes last wins.                                                         *)
(****************************************************************************)
EXTENDS Naturals, Sequences

CONSTANTS
  Peer,        \* server nodes and clients
  Container,   \* container ids
  OwnerOf,     \* OwnerOf[c]: the server on which container c is locally owned
  Subscribed,  \* Subscribed[p]: the containers of p at the start
  Home,        \* the container in which the entity was created
  Key,         \* keys of properties
  Value,       \* values the engine sets
  NoValue,     \* a property that is not known
  NoContainer, \* owner of a copy that does not exist
  Polling,     \* the peers whose engine polls properties
  MaxSets,     \* bound: calls of UpdatePropertyState that go through
  MaxMoves,    \* bound: calls of TransferAuthority that go through
  MaxJoins,    \* bound: subscriptions to a container
  MaxLost,     \* bound: packets lost and calls of GetExistingEntities that fail
  MaxEvents    \* bound: transfers, subscriptions and losses together

ASSUME ConstantsAssumption ==
  /\ OwnerOf \in [Container -> Peer]
  /\ Subscribed \in [Peer -> SUBSET Container]
  /\ \A c \in Container : c \in Subscribed[OwnerOf[c]]
  /\ Home \in Container
  /\ Polling \subseteq Peer
  /\ NoValue \notin Value /\ NoContainer \notin Container
  /\ {MaxSets, MaxMoves, MaxJoins, MaxLost, MaxEvents} \subseteq Nat

(* Some properties with a value each: the properties of a copy, or an update in
   json form on its way. *)
Update == UNION {[K -> Value] : K \in SUBSET Key}

NoUpdate == [k \in {} |-> NoValue]

Single(k, v) == [x \in {k} |-> v]

(* The properties w, with the values of u where u has some. *)
Merged(w, u) ==
  [k \in DOMAIN w \cup DOMAIN u |-> IF k \in DOMAIN u THEN u[k] ELSE w[k]]

VARIABLES
  owner,        \* owner[p]: the container of p's copy, or NoContainer: not registered
  quarantined,  \* the peers whose copy is in quarantine
  invalid,      \* the peers whose copy is no more valid
  containers,   \* containers[p]: p's container registry, and its rpc handlers
  streams,      \* streams[p]: the replication topics p receives
  props,        \* props[p]: the values p knows
  fresh,        \* fresh[p]: the properties of p with lastUpdate > lastSync
  polled,       \* polled[p]: the values p's engine has seen by polling
  setting,      \* setting[p]: UpdatePropertyState of p after its look-up: a set of one or none
  transferring, \* TransferAuthority after the lock, as <<peer, from, to>>
  making,       \* copies registered by a task, their ghost not applied, as <<peer, container, ghost>>
  erasing,      \* the peers in UnregisterEntity, the values not erased yet
  next,         \* next[c]: the next update of container c
  hand,         \* hand[c]: the update of c that the worker has fetched
  chan,         \* chan[c][p]: packets on their way from the topic of c to p
  opening,      \* replication streams being opened, as <<peer, container>>
  asked,        \* GetExistingEntities calls on their way, as <<peer, container>>
  answering,    \* those that have found the entity in the container
  answered,     \* answers to them, as <<peer, container, ghost>>
  loading,      \* answers of which the values are applied, as <<peer, container>>
  takes,        \* take orders on their way, as <<peer, to, ghost, transfer>>
  taking,       \* take orders after their first look-up
  tasks,        \* instantiations in an engine's queue
  drops,        \* drop orders on their way or waiting for their time, as <<peer, to, transfer>>
  dropping,     \* drop orders that found the container missing
  deletes,      \* deletions in an engine's queue
  latest,       \* history: latest[k]: the last change of k by an owner
  calm,         \* history: the keys nothing has interfered with since that change
  nsets, nmoves, njoins, nlost

copyVars   == <<owner, quarantined, invalid, props, fresh, polled>>
engineVars == <<setting, transferring, making, erasing>>
pipeVars   == <<next, hand, chan>>
joinVars   == <<containers, streams, opening, asked, answering, answered, loading>>
takeVars   == <<takes, taking, tasks>>
dropVars   == <<drops, dropping, deletes>>
histVars   == <<latest, calm>>
countVars  == <<nsets, nmoves, njoins, nlost>>
vars == <<copyVars, engineVars, pipeVars, joinVars, takeVars, dropVars, histVars, countVars>>

-----------------------------------------------------------------------------

Registered(p) == owner[p] # NoContainer

(* ContainerRegistry::ContainerIsLocallyOwned of the copy's container. *)
HasAuthority(p) == Registered(p) /\ owner[p] \in containers[p] /\ OwnerOf[owner[p]] = p

Authorities == {p \in Peer : HasAuthority(p)}

(* The value p has for k. *)
ValueAt(p, k) == IF k \in DOMAIN props[p] THEN props[p][k] ELSE NoValue

(* The properties of p that an update changes. *)
Changed(p, u) == {k \in DOMAIN u : ValueAt(p, k) # u[k]}

(* The peers that have something in a set of tuples. *)
PeersOf(S) == {a[1] : a \in S}

(* p's engine is not in the middle of a call or a task. *)
EngineIdle(p) ==
  setting[p] = {} /\ p \notin PeersOf(transferring) \cup PeersOf(making) \cup erasing

(* An update of k by way of container c is somewhere between the engine and a listener. *)
Carries(c, k) ==
  \/ k \in DOMAIN next[c] \cup DOMAIN hand[c]
  \/ \E p \in Peer : \E i \in DOMAIN chan[c][p] : k \in DOMAIN chan[c][p][i]

(* The entity is being moved to another container, at some peer. *)
Moving == transferring \cup takes \cup taking \cup tasks \cup making # {}

(* Some peer is on its way into a container. *)
Joining == opening \cup asked \cup answering \cup answered \cup loading # {}

(* One more transfer, subscription or loss is within the bound. *)
EventAllowed == nmoves + njoins + nlost < MaxEvents

(* Copies are on their way out. *)
Dropping == drops \cup dropping \cup deletes \cup erasing # {}

Init ==
  /\ owner = [p \in Peer |-> IF Home \in Subscribed[p] THEN Home ELSE NoContainer]
  /\ quarantined = {} /\ invalid = {}
  /\ containers = Subscribed
  /\ streams = [p \in Peer |-> {c \in Subscribed[p] : OwnerOf[c] # p}]
  /\ props = [p \in Peer |-> NoUpdate]
  /\ fresh = [p \in Peer |-> {}]
  /\ polled = [p \in Peer |-> NoUpdate]
  /\ setting = [p \in Peer |-> {}]
  /\ transferring = {} /\ making = {} /\ erasing = {}
  /\ next = [c \in Container |-> NoUpdate]
  /\ hand = [c \in Container |-> NoUpdate]
  /\ chan = [c \in Container |-> [p \in Peer |-> <<>>]]
  /\ opening = {} /\ asked = {} /\ answering = {} /\ answered = {} /\ loading = {}
  /\ takes = {} /\ taking = {} /\ tasks = {}
  /\ drops = {} /\ dropping = {} /\ deletes = {}
  /\ latest = [k \in Key |-> NoValue]
  /\ calm = Key
  /\ nsets = 0 /\ nmoves = 0 /\ njoins = 0 /\ nlost = 0

-----------------------------------------------------------------------------
(* The properties of a copy.                                                *)

(* Faulty: a value that differs from the known one is not marked as updated. *)
ApplyUnmarked(p, u) ==
  /\ props' = [props EXCEPT ![p] = Merged(@, u)]
  /\ fresh' = [fresh EXCEPT ![p] = @ \cup (DOMAIN u \ DOMAIN props[p])]

(* Properties::Set for every property of an update: what differs is stored and
   becomes newer than the last sync. *)
ApplyUpdate(p, u) ==
  /\ props' = [props EXCEPT ![p] = Merged(@, u)]
  /\ fresh' = [fresh EXCEPT ![p] = @ \cup Changed(p, u)]

(* PollPropertyUpdate: the engine gets the value if it is newer than the last
   sync, which becomes now. *)
PollPropertyUpdate(p, k) ==
  /\ EngineIdle(p)
  /\ Registered(p)
  /\ k \in DOMAIN props[p]
  /\ k \in fresh[p]
  /\ polled' = [polled EXCEPT ![p] = Merged(@, Single(k, props[p][k]))]
  /\ fresh' = [fresh EXCEPT ![p] = @ \ {k}]
  /\ UNCHANGED <<owner, quarantined, invalid, props, engineVars, pipeVars, joinVars, takeVars,
                 dropVars, histVars, countVars>>

(* UpdatePropertyState, first half: the container of the entity is looked up. *)
UpdatePropertyState(p, k, v) ==
  /\ nsets < MaxSets
  /\ EngineIdle(p)
  /\ HasAuthority(p)
  /\ setting' = [setting EXCEPT ![p] = {<<owner[p], k, v>>}]
  /\ nsets' = nsets + 1
  /\ UNCHANGED <<copyVars, transferring, making, erasing, pipeVars, joinVars, takeVars,
                 dropVars, histVars, nmoves, njoins, nlost>>

(* Nothing is under way that a change of k in container c, made by p, could
   cross: p alone has authority and every other copy listens to c, nobody joins a
   container, the entity is not being moved, and no other container has an update
   of k to deliver.  Drop orders and deletions may still be waiting. *)
Undisturbed(p, c, k) ==
  /\ Authorities = {p} /\ owner[p] = c
  /\ \A q \in Peer \ {p} : Registered(q) => c \in streams[q]
  /\ ~Moving /\ ~Joining
  /\ \A d \in Container \ {c} : ~Carries(d, k)

(* Faulty: only the first change since the last fetch is kept. *)
SetPropertyOnce(p, c, k, v) ==
  /\ setting[p] = {<<c, k, v>>}
  /\ setting' = [setting EXCEPT ![p] = {}]
  /\ ApplyUpdate(p, Single(k, v))
  /\ IF ValueAt(p, k) = v
     THEN UNCHANGED <<next, histVars>>
     ELSE /\ next' = [next EXCEPT ![c] = Merged(Single(k, v), @)]
          /\ latest' = [latest EXCEPT ![k] = v]
          /\ calm' = IF Undisturbed(p, c, k) THEN calm \cup {k} ELSE calm \ {k}
  /\ UNCHANGED <<owner, quarantined, invalid, polled, transferring, making, erasing, hand, chan,
                 joinVars, takeVars, dropVars, countVars>>

(* UpdatePropertyState, second half: a value that changes goes to the next
   update of the container looked up before. *)
SetProperty(p, c, k, v) ==
  /\ setting[p] = {<<c, k, v>>}
  /\ setting' = [setting EXCEPT ![p] = {}]
  /\ ApplyUpdate(p, Single(k, v))
  /\ IF ValueAt(p, k) = v
     THEN UNCHANGED <<next, histVars>>
     ELSE /\ next' = [next EXCEPT ![c] = Merged(@, Single(k, v))]
          /\ latest' = [latest EXCEPT ![k] = v]
          /\ calm' = IF Undisturbed(p, c, k) THEN calm \cup {k} ELSE calm \ {k}
  /\ UNCHANGED <<owner, quarantined, invalid, polled, transferring, making, erasing, hand, chan,
                 joinVars, takeVars, dropVars, countVars>>

-----------------------------------------------------------------------------
(* The worker of the owner of container c, and the listeners.               *)

(* The worker takes what has accumulated, and leaves an empty update. *)
FetchNextUpdate(c) ==
  /\ hand[c] = NoUpdate
  /\ next[c] # NoUpdate
  /\ hand' = [hand EXCEPT ![c] = next[c]]
  /\ next' = [next EXCEPT ![c] = NoUpdate]
  /\ UNCHANGED <<copyVars, engineVars, chan, joinVars, takeVars, dropVars, histVars, countVars>>

(* Faulty: the packet is an array that holds the update. *)
ReplicateInArray(c) ==
  /\ hand[c] # NoUpdate
  /\ chan' = [chan EXCEPT ![c] =
       [p \in Peer |-> IF c \in streams[p] THEN Append(@[p], <<hand[c]>>) ELSE @[p]]]
  /\ hand' = [hand EXCEPT ![c] = NoUpdate]
  /\ UNCHANGED <<copyVars, engineVars, next, joinVars, takeVars, dropVars, histVars, countVars>>

(* The update is published to those who listen at that moment. *)
ReplicateData(c) ==
  /\ hand[c] # NoUpdate
  /\ chan' = [chan EXCEPT ![c] =
       [p \in Peer |-> IF c \in streams[p] THEN Append(@[p], hand[c]) ELSE @[p]]]
  /\ hand' = [hand EXCEPT ![c] = NoUpdate]
  /\ UNCHANGED <<copyVars, engineVars, next, joinVars, takeVars, dropVars, histVars, countVars>>

(* The values are taken as they come, registered or not, owner or not. *)
HandleReplicationPacket(c, p) ==
  /\ chan[c][p] # <<>>
  /\ ApplyUpdate(p, Head(chan[c][p]))
  /\ chan' = [chan EXCEPT ![c][p] = Tail(@)]
  /\ UNCHANGED <<owner, quarantined, invalid, polled, engineVars, next, hand, joinVars,
                 takeVars, dropVars, histVars, countVars>>

LosePacket(c, p) ==
  /\ nlost < MaxLost /\ EventAllowed
  /\ chan[c][p] # <<>>
  /\ chan' = [chan EXCEPT ![c][p] = Tail(@)]
  /\ calm' = calm \ DOMAIN Head(chan[c][p])
  /\ nlost' = nlost + 1
  /\ UNCHANGED <<copyVars, engineVars, next, hand, joinVars, takeVars, dropVars, latest,
                 nsets, nmoves, njoins>>

-----------------------------------------------------------------------------
(* Peers that join a container.                                             *)

(* The container is created with its handlers, its replication stream opens in
   an IO task, and its entities are asked for at once. *)
SubscribeToContainer(p, c) ==
  /\ njoins < MaxJoins /\ EventAllowed
  /\ c \notin containers[p]
  /\ containers' = [containers EXCEPT ![p] = @ \cup {c}]
  /\ opening' = opening \cup {<<p, c>>}
  /\ asked' = asked \cup {<<p, c>>}
  /\ njoins' = njoins + 1
  /\ UNCHANGED <<copyVars, engineVars, pipeVars, streams, answering, answered, loading, takeVars,
                 dropVars, histVars, nsets, nmoves, nlost>>

(* The stream is open: it receives what is published from now on. *)
OpenStream(p, c) ==
  /\ <<p, c>> \in opening
  /\ opening' = opening \ {<<p, c>>}
  /\ streams' = [streams EXCEPT ![p] = @ \cup {c}]
  /\ UNCHANGED <<copyVars, engineVars, pipeVars, containers, asked, answering, answered, loading,
                 takeVars, dropVars, histVars, countVars>>

(* The owner of the container looks for the entity among those it has in it. *)
GetExistingEntities(p, c) ==
  /\ <<p, c>> \in asked
  /\ asked' = asked \ {<<p, c>>}
  /\ answering' = IF owner[OwnerOf[c]] = c THEN answering \cup {<<p, c>>} ELSE answering
  /\ UNCHANGED <<copyVars, engineVars, pipeVars, containers, streams, opening, answered, loading,
                 takeVars, dropVars, histVars, countVars>>

(* It answers with the values it has by now; calm ends if its engine is between
   the registration of the copy and its values. *)
PeekProperties(p, c) ==
  /\ <<p, c>> \in answering
  /\ answering' = answering \ {<<p, c>>}
  /\ answered' = answered \cup {<<p, c, props[OwnerOf[c]]>>}
  /\ calm' = IF OwnerOf[c] \in PeersOf(making) THEN {} ELSE calm
  /\ UNCHANGED <<copyVars, engineVars, pipeVars, containers, streams, opening, asked, loading,
                 takeVars, dropVars, latest, countVars>>

(* The answer: its values are taken. *)
LoadExistingEntities(p, c, ghost) ==
  /\ <<p, c, ghost>> \in answered
  /\ answered' = answered \ {<<p, c, ghost>>}
  /\ loading' = loading \cup {<<p, c>>}
  /\ ApplyUpdate(p, ghost)
  /\ UNCHANGED <<owner, quarantined, invalid, polled, engineVars, pipeVars, containers, streams,
                 opening, asked, answering, takeVars, dropVars, histVars, countVars>>

(* Then the copy is registered, or moved to the container if there is one. *)
LoadInstantiates(p, c) ==
  /\ <<p, c>> \in loading
  /\ loading' = loading \ {<<p, c>>}
  /\ owner' = [owner EXCEPT ![p] = c]
  /\ UNCHANGED <<quarantined, invalid, props, fresh, polled, engineVars, pipeVars, containers,
                 streams, opening, asked, answering, answered, takeVars, dropVars, histVars,
                 countVars>>

(* The call is lost or takes longer than ten seconds; it is not repeated. *)
LoadFails(p, c) ==
  /\ nlost < MaxLost /\ EventAllowed
  /\ \/ /\ <<p, c>> \in asked
        /\ asked' = asked \ {<<p, c>>}
        /\ UNCHANGED answered
     \/ \E a \in answered : /\ a[1] = p /\ a[2] = c
                            /\ answered' = answered \ {a}
                            /\ UNCHANGED asked
  /\ nlost' = nlost + 1
  /\ UNCHANGED <<copyVars, engineVars, pipeVars, containers, streams, opening, answering, loading,
                 takeVars, dropVars, histVars, nsets, nmoves, njoins>>

-----------------------------------------------------------------------------
(* The entity moves.                                                        *)

(* The engine moves the entity: under its lock, the copy goes into quarantine.
   What is then on its way crosses the move. *)
TransferAuthority(p, to) ==
  /\ nmoves < MaxMoves /\ EventAllowed
  /\ EngineIdle(p)
  /\ HasAuthority(p)
  /\ p \notin quarantined \cup invalid
  /\ owner[p] # to
  /\ quarantined' = quarantined \cup {p}
  /\ transferring' = transferring \cup {<<p, owner[p], to>>}
  /\ calm' = {k \in calm : \A c \in Container : ~Carries(c, k)}
  /\ nmoves' = nmoves + 1
  /\ UNCHANGED <<owner, invalid, props, fresh, polled, setting, making, erasing, pipeVars, joinVars,
                 takeVars, dropVars, latest, nsets, njoins, nlost>>

(* The orders go out; the take order has the values of this peer. *)
PublishOrders(p, from, to) ==
  /\ <<p, from, to>> \in transferring
  /\ transferring' = transferring \ {<<p, from, to>>}
  /\ takes' = takes \cup {<<q, to, props[p], nmoves>> : q \in {r \in Peer : to \in containers[r]}}
  /\ drops' = drops \cup {<<q, to, nmoves>> : q \in {r \in Peer : from \in containers[r]}}
  /\ UNCHANGED <<copyVars, setting, making, erasing, pipeVars, joinVars, taking, tasks, dropping,
                 deletes, histVars, countVars>>

(* A take order, first look-up: a registered entity gets its new container and
   keeps its values. *)
ExecTakeOrder(p, t) ==
  /\ t \in takes /\ t[1] = p
  /\ takes' = takes \ {t}
  /\ taking' = taking \cup {t}
  /\ IF Registered(p)
     THEN /\ owner' = [owner EXCEPT ![p] = t[2]]
          /\ quarantined' = quarantined \ {p}
     ELSE UNCHANGED <<owner, quarantined>>
  /\ UNCHANGED <<invalid, props, fresh, polled, engineVars, pipeVars, joinVars, tasks, dropVars,
                 histVars, countVars>>

(* Second look-up: an entity that is not registered now is left to the engine to
   instantiate. *)
FinishTakeOrder(p, t) ==
  /\ t \in taking /\ t[1] = p
  /\ taking' = taking \ {t}
  /\ tasks' = IF Registered(p) THEN tasks ELSE tasks \cup {t}
  /\ UNCHANGED <<copyVars, engineVars, pipeVars, joinVars, takes, dropVars, histVars, countVars>>

(* EngineCallInstantiate registers the entity, or gives the one that was
   registered meanwhile its container. *)
EngineCallInstantiate(p, t) ==
  /\ t \in tasks /\ t[1] = p
  /\ EngineIdle(p)
  /\ tasks' = tasks \ {t}
  /\ making' = making \cup {<<p, t[2], t[3]>>}
  /\ owner' = [owner EXCEPT ![p] = t[2]]
  /\ UNCHANGED <<quarantined, invalid, props, fresh, polled, setting, transferring, erasing,
                 pipeVars, joinVars, takes, taking, dropVars, histVars, countVars>>

(* Faulty: the ghost of the order is not applied. *)
ForgetGhost(p, to, ghost) ==
  /\ <<p, to, ghost>> \in making
  /\ making' = making \ {<<p, to, ghost>>}
  /\ UNCHANGED <<copyVars, setting, transferring, erasing, pipeVars, joinVars, takeVars, dropVars,
                 histVars, countVars>>

(* The same task: in both cases the ghost of the order is applied. *)
ApplyGhostToEntity(p, to, ghost) ==
  /\ <<p, to, ghost>> \in making
  /\ making' = making \ {<<p, to, ghost>>}
  /\ ApplyUpdate(p, ghost)
  /\ UNCHANGED <<owner, quarantined, invalid, polled, setting, transferring, erasing, pipeVars,
                 joinVars, takeVars, dropVars, histVars, countVars>>

(* A drop order is due, in a task of the pool: where the new container is missing
   a copy is no more valid. *)
ExecDropOrder(p, d) ==
  /\ d \in drops /\ d[1] = p
  /\ drops' = drops \ {d}
  /\ IF Registered(p) /\ d[2] \notin containers[p]
     THEN /\ invalid' = invalid \cup {p}
          /\ quarantined' = quarantined \cup {p}
          /\ dropping' = dropping \cup {d}
     ELSE UNCHANGED <<invalid, quarantined, dropping>>
  /\ UNCHANGED <<owner, props, fresh, polled, engineVars, pipeVars, joinVars, takeVars, deletes,
                 histVars, countVars>>

(* If it is still missing at the second look-up, the engine gets a task.  The lock
   of the entity is held from the first; the container registry is not locked. *)
ScheduleDeletion(p, d) ==
  /\ d \in dropping /\ d[1] = p
  /\ dropping' = dropping \ {d}
  /\ deletes' = IF d[2] \notin containers[p] THEN deletes \cup {d} ELSE deletes
  /\ UNCHANGED <<copyVars, engineVars, pipeVars, joinVars, takeVars, drops, histVars, countVars>>

(* The task unregisters a copy that is not valid; with one that is, it throws. *)
UnregisterEntity(p, d) ==
  /\ d \in deletes /\ d[1] = p
  /\ EngineIdle(p)
  /\ deletes' = deletes \ {d}
  /\ IF Registered(p) /\ p \in invalid
     THEN /\ owner' = [owner EXCEPT ![p] = NoContainer]
          /\ quarantined' = quarantined \ {p}
          /\ invalid' = invalid \ {p}
          /\ erasing' = erasing \cup {p}
     ELSE UNCHANGED <<owner, quarantined, invalid, erasing>>
  /\ UNCHANGED <<props, fresh, polled, setting, transferring, making, pipeVars, joinVars, takeVars,
                 drops, dropping, histVars, countVars>>

(* The values of the copy are being used by other threads: a new copy has been or
   is being registered with them, or a call is being answered with them. *)
InUse(p) ==
  Registered(p) \/ p \in PeersOf(loading) \/ \E a \in answering : OwnerOf[a[2]] = p

(* Then it erases the values; calm ends if they are in use. *)
TryRemoveEntity(p) ==
  /\ p \in erasing
  /\ erasing' = erasing \ {p}
  /\ props' = [props EXCEPT ![p] = NoUpdate]
  /\ fresh' = [fresh EXCEPT ![p] = {}]
  /\ polled' = [polled EXCEPT ![p] = NoUpdate]
  /\ calm' = IF InUse(p) THEN {} ELSE calm
  /\ UNCHANGED <<owner, quarantined, invalid, setting, transferring, making, pipeVars, joinVars,
                 takeVars, dropVars, latest, countVars>>

-----------------------------------------------------------------------------

EngineNext(p) ==
  \/ \E c \in Container, k \in Key, v \in Value : SetProperty(p, c, k, v)
  \/ \E m \in transferring : m[1] = p /\ PublishOrders(p, m[2], m[3])
  \/ \E t \in tasks : EngineCallInstantiate(p, t)
  \/ \E m \in making : m[1] = p /\ ApplyGhostToEntity(p, m[2], m[3])
  \/ \E d \in deletes : UnregisterEntity(p, d)
  \/ TryRemoveEntity(p)

WorkerNext(c) == FetchNextUpdate(c) \/ ReplicateData(c)

ListenerNext(p) ==
  \/ \E c \in Container : HandleReplicationPacket(c, p)
  \/ \E a \in asked : OwnerOf[a[2]] = p /\ GetExistingEntities(a[1], a[2])
  \/ \E a \in answering : OwnerOf[a[2]] = p /\ PeekProperties(a[1], a[2])
  \/ \E t \in takes : ExecTakeOrder(p, t)
  \/ \E t \in taking : FinishTakeOrder(p, t)

ClockNext(p) ==
  \/ \E d \in drops : ExecDropOrder(p, d)
  \/ \E d \in dropping : ScheduleDeletion(p, d)

PoolNext(p) ==
  \/ \E c \in Container : OpenStream(p, c)
  \/ \E a \in answered : a[1] = p /\ LoadExistingEntities(p, a[2], a[3])
  \/ \E a \in loading : a[1] = p /\ LoadInstantiates(p, a[2])

(* Nothing is on its way and no engine is in the middle of something. *)
Idle ==
  /\ \A p \in Peer : EngineIdle(p)
  /\ \A c \in Container : \A k \in Key : ~Carries(c, k)
  /\ ~Moving /\ ~Joining /\ ~Dropping
  /\ UNCHANGED vars

Next ==
  \/ \E p \in Peer : EngineNext(p) \/ ListenerNext(p) \/ ClockNext(p) \/ PoolNext(p)
  \/ \E c \in Container : WorkerNext(c)
  \/ \E p \in Polling, k \in Key : PollPropertyUpdate(p, k)
  \/ \E p \in Peer, k \in Key, v \in Value : UpdatePropertyState(p, k, v)
  \/ \E p \in Peer, c \in Container :
       TransferAuthority(p, c) \/ SubscribeToContainer(p, c) \/ LosePacket(c, p) \/ LoadFails(p, c)
  \/ Idle

Spec == Init /\ [][Next]_vars

(* The threads of the library go on; what the game decides, what is lost and when
   the engine polls is not fair. *)
FairSpec ==
  /\ Spec
  /\ \A p \in Peer : /\ WF_vars(EngineNext(p)) /\ WF_vars(ListenerNext(p))
                     /\ WF_vars(ClockNext(p)) /\ WF_vars(PoolNext(p))
  /\ \A c \in Container : WF_vars(WorkerNext(c))

-----------------------------------------------------------------------------
(* Properties.                                                              *)

TypeOK ==
  /\ owner \in [Peer -> Container \cup {NoContainer}]
  /\ quarantined \subseteq Peer /\ invalid \subseteq Peer /\ erasing \subseteq Peer
  /\ containers \in [Peer -> SUBSET Container]
  /\ streams \in [Peer -> SUBSET Container]
  /\ props \in [Peer -> Update]
  /\ fresh \in [Peer -> SUBSET Key]
  /\ polled \in [Peer -> Update]
  /\ setting \in [Peer -> SUBSET (Container \X Key \X Value)]
  /\ next \in [Container -> Update]
  /\ hand \in [Container -> Update]
  /\ chan \in [Container -> [Peer -> Seq(Update)]]
  /\ transferring \subseteq Peer \X Container \X Container
  /\ making \subseteq Peer \X Container \X Update
  /\ opening \subseteq Peer \X Container /\ asked \subseteq Peer \X Container
  /\ answering \subseteq Peer \X Container /\ loading \subseteq Peer \X Container
  /\ answered \subseteq Peer \X Container \X Update
  /\ takes \cup taking \cup tasks \subseteq Peer \X Container \X Update \X Nat
  /\ drops \cup dropping \cup deletes \subseteq Peer \X Container \X Nat
  /\ latest \in [Key -> Value \cup {NoValue}]
  /\ calm \subseteq Key
  /\ nsets \in Nat /\ nmoves \in Nat /\ njoins \in Nat /\ nlost \in Nat

(* What the engine of p would read differs from what it saw last only if a poll
   returns it: no order of packets, answers and take orders makes a change that
   is never polled. *)
PollMissesNothing ==
  \A p \in Polling, k \in Key :
    k \in DOMAIN props[p] /\ ~(k \in DOMAIN polled[p] /\ polled[p][k] = props[p][k])
      => k \in fresh[p]

(* The updates on their way from the engine of c's owner to p, oldest first. *)
Route(c, p) ==
  IF c \in streams[p] THEN chan[c][p] \o <<hand[c], next[c]>> ELSE <<>>

(* Some update of a sequence has k, and the last one that has gives it v. *)
EndsWith(s, k, v) ==
  \E i \in DOMAIN s : /\ k \in DOMAIN s[i] /\ s[i][k] = v
                      /\ \A j \in DOMAIN s : j > i => k \notin DOMAIN s[j]

HasKey(s, k) == \E i \in DOMAIN s : k \in DOMAIN s[i]

(* The last change of a property, if nothing crossed it, is not replaced by an
   older one and is not forgotten: whatever will still reach a copy, by a topic or
   with an answer or order, ends with that value, and a copy that does not have it
   will get it by a packet, or with the ghost it was just made for.  Besides what
   crosses a change when it is made, two races end this: an engine erases the
   values of a copy it unregistered while another thread registers a new copy with
   them or answers with them, and a server answers between the registration of its
   own copy and the ghost. *)
LatestArrives ==
  \A k \in calm, p \in {q \in Peer : Registered(q)} :
    /\ \A c \in Container : HasKey(Route(c, p), k) => EndsWith(Route(c, p), k, latest[k])
    /\ \A a \in answered \cup takes \cup taking \cup tasks \cup making :
         a[1] = p /\ k \in DOMAIN a[3] => a[3][k] = latest[k]
    /\ \/ ValueAt(p, k) = latest[k]
       \/ \E c \in Container : HasKey(Route(c, p), k)
       \/ \E a \in making : a[1] = p /\ k \in DOMAIN a[3]

(* In the end every copy of the entity has the last value of every property,
   unless something crossed its last change. *)
Converges ==
  <>[](\A k \in calm, p \in Peer : Registered(p) => ValueAt(p, k) = latest[k])
=============================================================================
