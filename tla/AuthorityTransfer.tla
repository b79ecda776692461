-------------------------- MODULE AuthorityTransfer --------------------------
(****************************************************************************)
(* The migration of one entity between containers, and the life of its      *)
(* copies in the entity registries of the peers (AuthorityTransfer.cpp,     *)
(* ETTRegistry.cpp, Container.cpp).                                         *)
(*                                                                          *)
(* A peer keeps one copy of the entity, or none, and a registry of the      *)
(* containers it is subscribed to.  Three of its threads touch the copy:    *)
(* the engine's main loop, the single listener thread that runs the RPC     *)
(* handlers, and the pool threads that fire scheduled drop orders and load  *)
(* the entities of a container the peer has just joined.  Orders travel on  *)
(* the non-persistent topic of a container: every peer listening gets its   *)
(* own copy of an order or misses it, and two topics are not ordered with   *)
(* respect to each other.                                                   *)
(****************************************************************************)
EXTENDS Naturals, Sequences

CONSTANTS
  Peer,          \* server nodes and clients
  Server,        \* the peers built with CELTE_SERVER_MODE_ENABLED
  Container,     \* container ids
  OwnerOf,       \* OwnerOf[c]: the server on which container c is locally owned
  Subscribed,    \* Subscribed[p]: the containers in the registry of p at the start
  NoEntity,      \* "not found" in an entity registry
  NoOrder,       \* no order being executed
  NoContainer,   \* no container being removed
  Lossy,         \* whether the broker may lose orders and answers
  Overlapping,   \* whether the engine acts on the entity before its last action settled
  OwnersDelete,  \* whether the engine only deletes entities of its own containers
  MaxTransfers,  \* bound: calls of TransferAuthority that go through
  MaxChanges,    \* bound: subscriptions and unsubscriptions
  MaxDeletes,    \* bound: calls of SendEntityDeleteOrder that go through
  MaxActs,       \* bound: all of these together
  DeleteRepeat   \* delete tasks DeleteEntitiesInContainer may queue for one entity

ASSUME ConstantsAssumption ==
  /\ Server \subseteq Peer
  /\ OwnerOf \in [Container -> Server]
  /\ Subscribed \in [Peer -> SUBSET Container]
  /\ \A c \in Container : c \in Subscribed[OwnerOf[c]]
  /\ {Lossy, Overlapping, OwnersDelete} \subseteq BOOLEAN
  /\ {MaxTransfers, MaxChanges, MaxDeletes, MaxActs} \subseteq Nat
  /\ DeleteRepeat \in Nat \ {0}
  /\ NoContainer \notin Container

(* An entity of the registry: the fields of struct Entity that the protocol reads. *)
Entity == [owner : Container, quarantine : BOOLEAN, valid : BOOLEAN]

(* A take or drop order: the procedure id and the two container ids. *)
Order == [proc : Nat, from : Container, to : Container]

(* An order, as the copy of it that is on its way to one peer. *)
Message == [order : Order, dst : Peer]

(* A task of the engine's queue. "Instantiate" comes from a take order,
   "delete" from a drop order or the removal of a container, "invalidate" from
   a DeleteEntity order. *)
Task == [kind : {"instantiate"}, to : Container]
        \cup [kind : {"delete"}] \cup [kind : {"invalidate"}]

ASSUME NullsAssumption == NoEntity \notin Entity /\ NoOrder \notin Order

VARIABLES
  ett,         \* ett[p]: the entity in p's registry, or NoEntity
  containers,  \* containers[p]: p's container registry
  listening,   \* listening[p]: the containers whose rpc topic has handlers at p
  ownedIn,     \* ownedIn[p]: the containers of p whose _ownedEntities hold the entity
  takes,       \* take orders on their way
  drops,       \* drop orders on their way
  deletes,     \* DeleteEntity orders on their way, as <<container, peer>>
  timers,      \* drop orders received and waiting for their time
  publishing,  \* publishing[p]: the order p's engine has begun and not published yet
  taking,      \* taking[p]: the take order p's listener thread is in the middle of
  dropping,    \* dropping[p]: the drop order that holds the entity lock of p
  leaving,     \* leaving[p]: the container being removed by UpdateRefCount at p
  queue,       \* queue[p]: the engine tasks of p, oldest first
  asked,       \* GetExistingEntities calls on their way, as <<peer, container>>
  answered,    \* answers to them that hold the entity, as <<peer, container>>
  created,     \* whether the entity was created
  ntransfers, nchanges, ndeletes,
  took,        \* history: the servers to whose copy the order in taking gave authority
  twice        \* history: whether one take order gave its server authority twice

entityVars == <<ett, ownedIn>>
netVars    == <<takes, drops, deletes>>
threadVars == <<publishing, timers, taking, took, dropping, queue>>
subVars    == <<containers, listening, leaving, asked, answered>>
countVars  == <<created, ntransfers, nchanges, ndeletes, twice>>
vars == <<entityVars, netVars, threadVars, subVars, countVars>>

-----------------------------------------------------------------------------

Registered(p) == ett[p] # NoEntity

(* ContainerRegistry::ContainerIsLocallyOwned *)
LocallyOwned(p, c) == c \in containers[p] /\ OwnerOf[c] = p

(* No thread of p holds the entity's accessor across a step. *)
EntityUnlocked(p) == dropping[p] = NoOrder

(* The engine of p is not in the middle of TransferAuthority, and may have the entity. *)
EngineFree(p) == publishing[p] = NoOrder /\ EntityUnlocked(p)

(* The listener thread of p is not in the middle of something.  A client joins and leaves
   containers on it, a server on threads of the pool. *)
ListenerFree(p) == taking[p] = NoOrder /\ (p \in Server \/ leaving[p] = NoContainer)

Listeners(c) == {p \in Peer : c \in listening[p]}

(* The sets of peers an order published on the topic of c can reach. *)
Reached(c) == IF Lossy THEN SUBSET Listeners(c) ELSE {Listeners(c)}

(* Nothing of an earlier transfer, deletion or subscription is pending. *)
Quiet ==
  /\ takes = {} /\ drops = {} /\ deletes = {} /\ timers = {}
  /\ asked = {} /\ answered = {}
  /\ \A p \in Peer : /\ queue[p] = <<>>
                     /\ publishing[p] = NoOrder
                     /\ taking[p] = NoOrder
                     /\ dropping[p] = NoOrder
                     /\ leaving[p] = NoContainer

Init ==
  /\ ett = [p \in Peer |-> NoEntity]
  /\ containers = Subscribed
  /\ listening = Subscribed
  /\ ownedIn = [p \in Peer |-> {}]
  /\ takes = {} /\ drops = {} /\ deletes = {} /\ timers = {}
  /\ publishing = [p \in Peer |-> NoOrder]
  /\ taking = [p \in Peer |-> NoOrder]
  /\ dropping = [p \in Peer |-> NoOrder]
  /\ leaving = [p \in Peer |-> NoContainer]
  /\ queue = [p \in Peer |-> <<>>]
  /\ asked = {} /\ answered = {}
  /\ created = FALSE
  /\ ntransfers = 0 /\ nchanges = 0 /\ ndeletes = 0
  /\ took = {} /\ twice = FALSE

-----------------------------------------------------------------------------
(* The engine's main thread.                                                *)

(* RegisterNewEntity: the engine creates the entity, whose id is fresh, in a
   container of its own. *)
RegisterEntity(p, c) ==
  /\ ~created
  /\ EngineFree(p)
  /\ LocallyOwned(p, c)
  /\ ett' = [ett EXCEPT ![p] = [owner |-> c, quarantine |-> FALSE, valid |-> TRUE]]
  /\ created' = TRUE
  /\ UNCHANGED <<ownedIn, netVars, threadVars, subVars, ntransfers, nchanges, ndeletes, twice>>

NumActs == ntransfers + nchanges + ndeletes

(* Faulty: the quarantine does not keep a second transfer from starting. *)
MayMoveInQuarantine(e, to) ==
  /\ e.valid
  /\ e.owner = to => ntransfers = 0

(* The conditions TransferAuthority aborts on: quarantine, an invalid entity,
   and a move to the container the entity is in, unless ignoreNoMove, which the
   engine sets to announce a new entity. *)
MayMove(e, to) ==
  /\ ~e.quarantine
  /\ e.valid
  /\ e.owner = to => ntransfers = 0

(* TransferAuthority, with the entity's lock: the engine assigns an entity it owns to
   a container. *)
TransferAuthority(p, to) ==
  /\ ntransfers < MaxTransfers /\ NumActs < MaxActs
  /\ Overlapping \/ Quiet
  /\ EngineFree(p)
  /\ Registered(p)
  /\ LocallyOwned(p, ett[p].owner)
  /\ MayMove(ett[p], to)
  /\ publishing' = [publishing EXCEPT ![p] =
                     [proc |-> ntransfers, from |-> ett[p].owner, to |-> to]]
  /\ ett' = [ett EXCEPT ![p].quarantine = TRUE]
  /\ ntransfers' = ntransfers + 1
  /\ UNCHANGED <<ownedIn, netVars, timers, taking, took, dropping, queue, subVars,
                 created, nchanges, ndeletes, twice>>

(* The rest of it, without: the orders are published, for the container that takes the
   entity and for the one that it leaves. *)
PublishOrders(p) ==
  /\ publishing[p] # NoOrder
  /\ LET order == publishing[p]
     IN \E T \in Reached(order.to), D \in Reached(order.from) :
          /\ takes' = takes \cup {[order |-> order, dst |-> q] : q \in T}
          /\ drops' = drops \cup {[order |-> order, dst |-> q] : q \in D}
  /\ publishing' = [publishing EXCEPT ![p] = NoOrder]
  /\ UNCHANGED <<entityVars, deletes, timers, taking, took, dropping, queue, subVars,
                 countVars>>

(* An entity about to be deleted: invalid, and never to be moved again. *)
Discarded(e) == [e EXCEPT !.valid = FALSE, !.quarantine = TRUE]

(* The engine asks for the deletion of the entity: the copy is invalidated
   whatever its owner, the order is published if the owner is a container of
   this peer. *)
SendEntityDeleteOrder(p) ==
  /\ ndeletes < MaxDeletes /\ NumActs < MaxActs
  /\ p \in Server
  /\ Overlapping \/ Quiet
  /\ EngineFree(p)
  /\ Registered(p)
  /\ ett[p].valid
  /\ OwnersDelete => LocallyOwned(p, ett[p].owner)
  /\ LET c == ett[p].owner
     IN /\ leaving[p] # c
        /\ IF LocallyOwned(p, c)
           THEN \E R \in Reached(c) : deletes' = deletes \cup ({c} \X R)
           ELSE UNCHANGED deletes
  /\ ett' = [ett EXCEPT ![p] = Discarded(@)]
  /\ ndeletes' = ndeletes + 1
  /\ UNCHANGED <<ownedIn, takes, drops, threadVars, subVars, created, ntransfers, nchanges,
                 twice>>

(* Faulty: the new copy keeps the default of ownerContainerId. *)
InstantiatedNowhere(e, c) ==
  IF e = NoEntity THEN [owner |-> NoContainer, quarantine |-> FALSE, valid |-> TRUE]
                  ELSE [e EXCEPT !.owner = c]

(* ETTRegistry::EngineCallInstantiate: a copy that is already there only
   changes owner. *)
Instantiated(e, c) ==
  IF e = NoEntity THEN [owner |-> c, quarantine |-> FALSE, valid |-> TRUE]
                  ELSE [e EXCEPT !.owner = c]

(* ETTRegistry::UnregisterEntity, which throws on a valid entity. *)
Unregistered(e) == IF e # NoEntity /\ e.valid THEN e ELSE NoEntity

(* Faulty: the deletion calls the hook and leaves the registry alone. *)
InvalidatedInEngineOnly(e) == e

(* Container::DeleteEntity, the task: the copy stays, invalid. *)
Invalidated(e) == IF e = NoEntity THEN e ELSE [e EXCEPT !.valid = FALSE]

(* The engine runs the oldest task of its queue. *)
AdvanceTopLevelExecutorTask(p) ==
  /\ queue[p] # <<>>
  /\ EngineFree(p)
  /\ LET task == Head(queue[p])
     IN ett' = [ett EXCEPT ![p] = CASE task.kind = "instantiate" -> Instantiated(@, task.to)
                                    [] task.kind = "delete" -> Unregistered(@)
                                    [] task.kind = "invalidate" -> Invalidated(@)]
  /\ queue' = [queue EXCEPT ![p] = Tail(@)]
  /\ UNCHANGED <<ownedIn, netVars, publishing, timers, taking, took, dropping, subVars,
                 countVars>>

(* The engine lets go of a copy it was told to delete. *)
UnregisterEntity(p) ==
  /\ EngineFree(p)
  /\ Registered(p)
  /\ ~ett[p].valid
  /\ ett' = [ett EXCEPT ![p] = Unregistered(@)]
  /\ UNCHANGED <<ownedIn, netVars, threadVars, subVars, countVars>>

-----------------------------------------------------------------------------
(* The listener thread.  It runs one handler at a time.                     *)

(* Faulty: the take order does not end the quarantine. *)
TakenOverInQuarantine(e, to) == [e EXCEPT !.owner = to]

(* The take order on a registered copy: it changes owner and leaves quarantine.
   An invalid copy does not become valid again. *)
TakenOver(e, to) == [e EXCEPT !.owner = to, !.quarantine = FALSE]

(* ExecTakeOrder, under the entity's lock. *)
ExecTakeOrder(p, m) ==
  /\ ListenerFree(p)
  /\ EntityUnlocked(p)
  /\ m \in takes /\ m.dst = p
  /\ takes' = takes \ {m}
  /\ taking' = [taking EXCEPT ![p] = m.order]
  /\ ett' = [ett EXCEPT ![p] =
               IF @ = NoEntity THEN @ ELSE TakenOver(@, m.order.to)]
  /\ took' = IF Registered(p) /\ ett[p].valid /\ OwnerOf[m.order.to] = p
             THEN took \cup {p} ELSE took
  /\ UNCHANGED <<ownedIn, drops, deletes, publishing, timers, dropping, queue, subVars,
                 countVars>>

(* ExecTakeOrder, after the lock was released: the registry is looked up again, and the
   entity enters the container's list.  Other threads may have run in between, and a copy
   that was there may be gone. *)
FinishTakeOrder(p) ==
  /\ taking[p] # NoOrder
  /\ EntityUnlocked(p)
  /\ LET to == taking[p].to
     IN /\ leaving[p] # to
        /\ IF Registered(p)
           THEN UNCHANGED queue
           ELSE queue' = [queue EXCEPT ![p] = Append(@, [kind |-> "instantiate", to |-> to])]
        /\ ownedIn' = IF p \in Server /\ to \in containers[p]
                      THEN [ownedIn EXCEPT ![p] = @ \cup {to}]
                      ELSE ownedIn
  /\ taking' = [taking EXCEPT ![p] = NoOrder]
  /\ took' = took \ {p}
  /\ twice' = (twice \/ (p \in took /\ ~Registered(p)))
  /\ UNCHANGED <<ett, netVars, publishing, timers, dropping, subVars, created, ntransfers,
                 nchanges, ndeletes>>

(* ExecDropOrder: the order is put off until its time, unless it leaves the
   entity where it is. *)
ExecDropOrder(p, m) ==
  /\ ListenerFree(p)
  /\ m \in drops /\ m.dst = p
  /\ drops' = drops \ {m}
  /\ timers' = IF m.order.from = m.order.to THEN timers ELSE timers \cup {m}
  /\ UNCHANGED <<entityVars, takes, deletes, publishing, taking, took, dropping, queue, subVars,
                 countVars>>

(* Container::DeleteEntity *)
ExecDeleteEntity(p, c) ==
  /\ ListenerFree(p)
  /\ <<c, p>> \in deletes
  /\ deletes' = deletes \ {<<c, p>>}
  /\ queue' = [queue EXCEPT ![p] = Append(@, [kind |-> "invalidate"])]
  /\ UNCHANGED <<entityVars, takes, drops, publishing, timers, taking, took, dropping, subVars,
                 countVars>>

-----------------------------------------------------------------------------
(* Pool threads.                                                            *)

(* The scheduled task of a drop order, up to the first ContainerExists: it
   takes the entity's lock and keeps it. *)
FireDropOrder(p, m) ==
  /\ m \in timers /\ m.dst = p
  /\ EntityUnlocked(p)
  /\ timers' = timers \ {m}
  /\ IF Registered(p)
     THEN /\ dropping' = [dropping EXCEPT ![p] = m.order]
          /\ ett' = IF m.order.to \in containers[p] THEN ett
                    ELSE [ett EXCEPT ![p] = Discarded(@)]
     ELSE UNCHANGED <<dropping, ett>>
  /\ UNCHANGED <<ownedIn, netVars, publishing, taking, took, queue, subVars, countVars>>

(* The rest of __execDropOrderImpl, with a second ContainerExists. *)
FinishDropOrder(p) ==
  /\ dropping[p] # NoOrder
  /\ LET order == dropping[p]
     IN /\ leaving[p] # order.from
        /\ ownedIn' = IF p \in Server THEN [ownedIn EXCEPT ![p] = @ \ {order.from}]
                                      ELSE ownedIn
        /\ IF order.to \in containers[p]
           THEN UNCHANGED queue
           ELSE queue' = [queue EXCEPT ![p] = Append(@, [kind |-> "delete"])]
  /\ dropping' = [dropping EXCEPT ![p] = NoOrder]
  /\ UNCHANGED <<ett, netVars, publishing, timers, taking, took, subVars, countVars>>

(* A grape of p subscribes to a container of another server, and asks it for
   the entities that exist there. *)
SubscribeToContainer(p, c) ==
  /\ nchanges < MaxChanges /\ NumActs < MaxActs
  /\ p \in Server \/ ListenerFree(p)
  /\ c \notin containers[p]
  /\ containers' = [containers EXCEPT ![p] = @ \cup {c}]
  /\ listening' = [listening EXCEPT ![p] = @ \cup {c}]
  /\ asked' = asked \cup {<<p, c>>}
  /\ nchanges' = nchanges + 1
  /\ UNCHANGED <<entityVars, netVars, threadVars, leaving, answered,
                 created, ntransfers, ndeletes, twice>>

(* GetExistingEntities at the owner of the container: the entities whose
   ownerContainerId is c, in quarantine, invalid or not. *)
GetExistingEntities(p, c) ==
  /\ <<p, c>> \in asked
  /\ ListenerFree(OwnerOf[c]) /\ EntityUnlocked(OwnerOf[c])
  /\ asked' = asked \ {<<p, c>>}
  /\ answered' = IF Registered(OwnerOf[c]) /\ ett[OwnerOf[c]].owner = c
                 THEN answered \cup {<<p, c>>} ELSE answered
  /\ UNCHANGED <<entityVars, netVars, threadVars, containers, listening, leaving, countVars>>

(* The answer of GetExistingEntities reaches LoadExistingEntities. *)
LoadExistingEntities(p, c) ==
  /\ <<p, c>> \in answered
  /\ EntityUnlocked(p)
  /\ answered' = answered \ {<<p, c>>}
  /\ ett' = [ett EXCEPT ![p] = Instantiated(@, c)]
  /\ UNCHANGED <<ownedIn, netVars, threadVars, containers, listening, leaving, asked, countVars>>

(* The answer is lost or late, and the call gives up without loading anything. *)
LoadTimeout(p, c) ==
  /\ <<p, c>> \in answered
  /\ answered' = answered \ {<<p, c>>}
  /\ UNCHANGED <<entityVars, netVars, threadVars, containers, listening, leaving, asked, countVars>>

(* UpdateRefCount, with the container's accessor held: the entities of the
   container are invalidated and their deletion queued, once or more. *)
DeleteEntitiesInContainer(p, c) ==
  /\ nchanges < MaxChanges /\ NumActs < MaxActs
  /\ p \in Server \/ ListenerFree(p)
  /\ c \in containers[p] /\ ~LocallyOwned(p, c)
  /\ leaving[p] = NoContainer
  /\ EntityUnlocked(p)
  /\ leaving' = [leaving EXCEPT ![p] = c]
  /\ IF Registered(p) /\ ett[p].owner = c
     THEN /\ ett' = [ett EXCEPT ![p] = Discarded(@)]
          /\ \E n \in 1 .. DeleteRepeat :
               queue' = [queue EXCEPT ![p] = @ \o [i \in 1 .. n |-> [kind |-> "delete"]]]
     ELSE UNCHANGED <<ett, queue>>
  /\ nchanges' = nchanges + 1
  /\ UNCHANGED <<ownedIn, netVars, publishing, timers, taking, took, dropping, containers,
                 listening, asked, answered, created, ntransfers, ndeletes, twice>>

(* UpdateRefCount, the end: the container leaves the registry.  It is never
   destroyed, so its handlers go on listening. *)
EraseContainer(p) ==
  /\ leaving[p] # NoContainer
  /\ containers' = [containers EXCEPT ![p] = @ \ {leaving[p]}]
  /\ ownedIn' = [ownedIn EXCEPT ![p] = @ \ {leaving[p]}]
  /\ leaving' = [leaving EXCEPT ![p] = NoContainer]
  /\ UNCHANGED <<ett, netVars, threadVars, listening, asked, answered, countVars>>

-----------------------------------------------------------------------------

EngineNext(p) ==
  \/ \E c \in Container : RegisterEntity(p, c) \/ TransferAuthority(p, c)
  \/ PublishOrders(p)
  \/ SendEntityDeleteOrder(p)
  \/ UnregisterEntity(p)
  \/ AdvanceTopLevelExecutorTask(p)

ListenerNext(p) ==
  \/ \E m \in takes : ExecTakeOrder(p, m)
  \/ FinishTakeOrder(p)
  \/ \E m \in drops : ExecDropOrder(p, m)
  \/ \E c \in Container : ExecDeleteEntity(p, c)

PoolNext(p) ==
  \/ \E m \in timers : FireDropOrder(p, m)
  \/ FinishDropOrder(p)
  \/ \E c \in Container :
       \/ SubscribeToContainer(p, c)
       \/ GetExistingEntities(p, c)
       \/ LoadExistingEntities(p, c)
       \/ LoadTimeout(p, c)
       \/ DeleteEntitiesInContainer(p, c)
  \/ EraseContainer(p)

(* Nothing is pending: the peers wait for the engine. *)
Idle == Quiet /\ UNCHANGED vars

Next == Idle \/ \E p \in Peer : EngineNext(p) \/ ListenerNext(p) \/ PoolNext(p)

Spec == Init /\ [][Next]_vars

(* Every thread goes on when it can: the engine runs its tasks at every frame,
   the listener thread its messages, the pool threads their tasks.  What the
   engine and the players decide is not fair. *)
Work(p) ==
  \/ PublishOrders(p)
  \/ AdvanceTopLevelExecutorTask(p)
  \/ ListenerNext(p)
  \/ \E m \in timers : FireDropOrder(p, m)
  \/ FinishDropOrder(p)
  \/ EraseContainer(p)
  \/ \E c \in Container : GetExistingEntities(p, c) \/ LoadExistingEntities(p, c)

FairSpec == Spec /\ \A p \in Peer : WF_vars(Work(p))

-----------------------------------------------------------------------------
(* Properties.                                                              *)

TypeOK ==
  /\ ett \in [Peer -> Entity \cup {NoEntity}]
  /\ containers \in [Peer -> SUBSET Container]
  /\ listening \in [Peer -> SUBSET Container]
  /\ ownedIn \in [Peer -> SUBSET Container]
  /\ takes \subseteq Message
  /\ drops \subseteq Message
  /\ deletes \subseteq Container \X Peer
  /\ timers \subseteq Message
  /\ publishing \in [Peer -> Order \cup {NoOrder}]
  /\ taking \in [Peer -> Order \cup {NoOrder}]
  /\ dropping \in [Peer -> Order \cup {NoOrder}]
  /\ leaving \in [Peer -> Container \cup {NoContainer}]
  /\ queue \in [Peer -> Seq(Task)]
  /\ asked \subseteq Peer \X Container
  /\ answered \subseteq Peer \X Container
  /\ created \in BOOLEAN
  /\ ntransfers \in Nat /\ nchanges \in Nat /\ ndeletes \in Nat
  /\ took \subseteq Peer /\ twice \in BOOLEAN

(* The copy of p has authority: it may be moved and played on by p's engine. *)
HasAuthority(p) ==
  /\ Registered(p)
  /\ ett[p].valid /\ ~ett[p].quarantine
  /\ LocallyOwned(p, ett[p].owner)

(* No two servers have authority over the entity at the same time, whatever is
   lost, reordered, subscribed, unsubscribed or deleted meanwhile: a server
   hands its authority over by the quarantine of TransferAuthority, and only
   the take order that follows gives it to the next one.  With one exception:
   ExecTakeOrder releases the entity before it looks the registry up again.  If
   the copy that it gave authority is gone by then, it makes the engine
   instantiate the entity anew, although the copy may have been deleted for good
   or the entity be on its way to another server. *)
SingleAuthority ==
  twice \/ \A p, q \in Peer : HasAuthority(p) /\ HasAuthority(q) => p = q

(* When a transfer has run to its end with nothing lost, before the next one
   starts or a deletion, the peers agree on it: every copy is valid and out of quarantine, in
   one and the same container, which its peer is subscribed to; every peer
   subscribed to that container has a copy; and on a server the container
   whose _ownedEntities hold the entity is that one. *)
SettledAgreement ==
  Quiet /\ ntransfers > 0 /\ ndeletes = 0 =>
    \E c \in Container : \A p \in Peer :
      /\ Registered(p) <=> c \in containers[p]
      /\ Registered(p) => ett[p] = [owner |-> c, quarantine |-> FALSE, valid |-> TRUE]
      /\ p \in Server => ownedIn[p] = containers[p] \cap {c}

(* A copy that TransferAuthority or a drop order put in quarantine does not stay there, as
   long as nothing is lost and no container is joined or left nor the entity deleted: a
   take order releases it or the drop order deletes it. *)
QuarantineEnds ==
  \A p \in Peer :
    Registered(p) /\ ett[p].quarantine
      ~> ~Registered(p) \/ ~ett[p].quarantine \/ nchanges + ndeletes > 0

(* Once the deletion of an entity has run to its end, no peer plays on with it:
   if its owner's copy is invalid, every copy is. *)
DeletionReachesAll ==
  Quiet => \A p, q \in Peer :
    (Registered(p) /\ LocallyOwned(p, ett[p].owner) /\ ~ett[p].valid)
      => ~(Registered(q) /\ ett[q].valid)
=============================================================================
