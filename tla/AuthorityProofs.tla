---------------------------- MODULE AuthorityProofs ----------------------------
(* Theorems about AuthorityTransfer and EntityInputs, for every number of peers,
   containers, transfers, subscriptions, deletions and inputs. *)
EXTENDS AuthorityClaims, EntityInputs, TLAPS

-----------------------------------------------------------------------------
(* Type correctness.                                                        *)

(* The helpers keep an entity an entity. *)
LEMMA EntityHelpers ==
  ASSUME NEW e \in Entity
  PROVE  /\ \A c \in Container : TakenOver(e, c) \in Entity
         /\ Discarded(e) \in Entity
         /\ [e EXCEPT !.quarantine = TRUE] \in Entity
BY DEF TakenOver, Discarded, Entity

LEMMA TaskHelpers ==
  ASSUME NEW e \in Entity \cup {NoEntity}
  PROVE  /\ \A c \in Container : Instantiated(e, c) \in Entity
         /\ Unregistered(e) \in Entity \cup {NoEntity}
         /\ Invalidated(e) \in Entity \cup {NoEntity}
BY DEF Instantiated, Unregistered, Invalidated, Entity

(* A queue stays a queue when tasks are added to one peer's. *)
LEMMA QueueHelper ==
  ASSUME NEW q \in [Peer -> Seq(Task)], NEW p \in Peer, NEW s \in Seq(Task)
  PROVE  [q EXCEPT ![p] = @ \o s] \in [Peer -> Seq(Task)]
<1>1. q[p] \o s \in Seq(Task)
  OBVIOUS
<1> QED BY <1>1

LEMMA AppendHelper ==
  ASSUME NEW q \in [Peer -> Seq(Task)], NEW p \in Peer, NEW t \in Task
  PROVE  [q EXCEPT ![p] = Append(@, t)] \in [Peer -> Seq(Task)]
<1>1. Append(q[p], t) \in Seq(Task)
  OBVIOUS
<1> QED BY <1>1

LEMMA EngineTypeOK ==
  ASSUME TypeOK, NEW p \in Peer, EngineNext(p)
  PROVE  TypeOK'
<1>1. ASSUME NEW c \in Container, RegisterEntity(p, c) PROVE TypeOK'
  BY <1>1 DEF TypeOK, RegisterEntity, Entity, netVars, threadVars, subVars
<1>2. ASSUME NEW c \in Container, TransferAuthority(p, c) PROVE TypeOK'
  <2>1. ett[p] \in Entity
    BY <1>2 DEF TypeOK, TransferAuthority, Registered
  <2>2. [proc |-> ntransfers, from |-> ett[p].owner, to |-> c] \in Order
    BY <2>1 DEF TypeOK, Order, Entity
  <2>3. ett' \in [Peer -> Entity \cup {NoEntity}]
    BY <1>2, <2>1, EntityHelpers DEF TypeOK, TransferAuthority
  <2> QED
    BY <1>2, <2>2, <2>3 DEF TypeOK, TransferAuthority, netVars, subVars
<1>6. ASSUME PublishOrders(p) PROVE TypeOK'
  <2> DEFINE order == publishing[p]
  <2>2. order \in Order
    BY <1>6 DEF TypeOK, PublishOrders
  <2>4. PICK T \in SUBSET Peer, D \in SUBSET Peer :
          /\ takes' = takes \cup {[order |-> order, dst |-> q] : q \in T}
          /\ drops' = drops \cup {[order |-> order, dst |-> q] : q \in D}
    BY <1>6 DEF PublishOrders, Reached, Listeners
  <2>5. takes' \subseteq Message /\ drops' \subseteq Message
    BY <2>2, <2>4 DEF TypeOK, Message
  <2> QED
    BY <1>6, <2>5 DEF TypeOK, PublishOrders, entityVars, subVars, countVars
<1>3. ASSUME SendEntityDeleteOrder(p) PROVE TypeOK'
  <2>1. ett[p] \in Entity
    BY <1>3 DEF TypeOK, SendEntityDeleteOrder, Registered
  <2>2. ett' \in [Peer -> Entity \cup {NoEntity}]
    BY <1>3, <2>1, EntityHelpers DEF TypeOK, SendEntityDeleteOrder
  <2>3. deletes' \subseteq Container \X Peer
    BY <1>3, <2>1 DEF TypeOK, SendEntityDeleteOrder, Reached, Listeners, Entity
  <2> QED
    BY <1>3, <2>2, <2>3 DEF TypeOK, SendEntityDeleteOrder, threadVars, subVars
<1>4. ASSUME UnregisterEntity(p) PROVE TypeOK'
  BY <1>4, TaskHelpers DEF TypeOK, UnregisterEntity, Unregistered, netVars, threadVars, subVars,
     countVars
<1>5. ASSUME AdvanceTopLevelExecutorTask(p) PROVE TypeOK'
  <2>1. /\ Head(queue[p]) \in Task
        /\ Tail(queue[p]) \in Seq(Task)
    BY <1>5 DEF TypeOK, AdvanceTopLevelExecutorTask
  <2>2. ett' \in [Peer -> Entity \cup {NoEntity}]
    BY <1>5, <2>1, TaskHelpers DEF TypeOK, AdvanceTopLevelExecutorTask, Task
  <2>3. queue' \in [Peer -> Seq(Task)]
    BY <1>5, <2>1 DEF TypeOK, AdvanceTopLevelExecutorTask
  <2> QED
    BY <1>5, <2>2, <2>3 DEF TypeOK, AdvanceTopLevelExecutorTask, netVars, subVars, countVars
<1> QED
  BY <1>1, <1>2, <1>3, <1>4, <1>5, <1>6 DEF EngineNext

LEMMA ListenerTypeOK ==
  ASSUME TypeOK, NEW p \in Peer, ListenerNext(p)
  PROVE  TypeOK'
<1>1. ASSUME NEW m \in takes, ExecTakeOrder(p, m) PROVE TypeOK'
  <2>1. m.order \in Order /\ m.order.to \in Container
    BY DEF TypeOK, Message, Order
  <2>2. ett' \in [Peer -> Entity \cup {NoEntity}]
    BY <1>1, <2>1, EntityHelpers DEF TypeOK, ExecTakeOrder
  <2> QED
    BY <1>1, <2>1, <2>2 DEF TypeOK, ExecTakeOrder, subVars, countVars
<1>2. ASSUME FinishTakeOrder(p) PROVE TypeOK'
  <2>1. taking[p].to \in Container
    BY <1>2 DEF TypeOK, FinishTakeOrder, Order
  <2> DEFINE task == [kind |-> "instantiate", to |-> taking[p].to]
  <2>2. task \in Task
    BY <2>1 DEF Task
  <2>3. queue' \in [Peer -> Seq(Task)]
    <3>1. UNCHANGED queue \/ queue' = [queue EXCEPT ![p] = Append(@, task)]
      BY <1>2 DEF FinishTakeOrder
    <3>2. queue \in [Peer -> Seq(Task)]
      BY DEF TypeOK
    <3> HIDE DEF task
    <3> QED BY <2>2, <3>1, <3>2, AppendHelper
  <2>4. ownedIn' \in [Peer -> SUBSET Container]
    BY <1>2, <2>1 DEF TypeOK, FinishTakeOrder
  <2> QED
    BY <1>2, <2>3, <2>4 DEF TypeOK, FinishTakeOrder, netVars, subVars, countVars
<1>3. ASSUME NEW m \in drops, ExecDropOrder(p, m) PROVE TypeOK'
  BY <1>3 DEF TypeOK, ExecDropOrder, entityVars, subVars, countVars
<1>4. ASSUME NEW c \in Container, ExecDeleteEntity(p, c) PROVE TypeOK'
  <2>1. queue' \in [Peer -> Seq(Task)]
    BY <1>4 DEF TypeOK, ExecDeleteEntity, Task
  <2> QED
    BY <1>4, <2>1 DEF TypeOK, ExecDeleteEntity, entityVars, subVars, countVars
<1> QED
  BY <1>1, <1>2, <1>3, <1>4 DEF ListenerNext

LEMMA PoolTypeOK ==
  ASSUME TypeOK, NEW p \in Peer, PoolNext(p)
  PROVE  TypeOK'
<1>1. ASSUME NEW m \in timers, FireDropOrder(p, m) PROVE TypeOK'
  <2>1. m.order \in Order /\ m.order.to \in Container
    BY DEF TypeOK, Message, Order
  <2>2. ett' \in [Peer -> Entity \cup {NoEntity}]
    <3>1. CASE Registered(p)
      <4>1. ett[p] \in Entity
        BY <3>1 DEF TypeOK, Registered
      <4> QED
        BY <1>1, <3>1, <4>1, <2>1, EntityHelpers DEF TypeOK, FireDropOrder
    <3>2. CASE ~Registered(p)
      BY <1>1, <3>2 DEF TypeOK, FireDropOrder
    <3> QED BY <3>1, <3>2
  <2> QED
    BY <1>1, <2>1, <2>2 DEF TypeOK, FireDropOrder, netVars, subVars, countVars
<1>2. ASSUME FinishDropOrder(p) PROVE TypeOK'
  <2> DEFINE task == [kind |-> "delete"]
  <2>1. task \in Task
    BY DEF Task
  <2>2. queue' \in [Peer -> Seq(Task)]
    <3>1. UNCHANGED queue \/ queue' = [queue EXCEPT ![p] = Append(@, task)]
      BY <1>2 DEF FinishDropOrder
    <3>2. queue \in [Peer -> Seq(Task)]
      BY DEF TypeOK
    <3> HIDE DEF task
    <3> QED BY <2>1, <3>1, <3>2, AppendHelper
  <2> QED
    BY <1>2, <2>2 DEF TypeOK, FinishDropOrder, netVars, subVars, countVars
<1>3. ASSUME NEW c \in Container, SubscribeToContainer(p, c) PROVE TypeOK'
  BY <1>3 DEF TypeOK, SubscribeToContainer, entityVars, netVars, threadVars
<1>4. ASSUME NEW c \in Container, GetExistingEntities(p, c) PROVE TypeOK'
  BY <1>4 DEF TypeOK, GetExistingEntities, entityVars, netVars, threadVars, countVars
<1>5. ASSUME NEW c \in Container, LoadExistingEntities(p, c) PROVE TypeOK'
  BY <1>5, TaskHelpers DEF TypeOK, LoadExistingEntities, netVars, threadVars, countVars
<1>6. ASSUME NEW c \in Container, LoadTimeout(p, c) PROVE TypeOK'
  BY <1>6 DEF TypeOK, LoadTimeout, entityVars, netVars, threadVars, countVars
<1>7. ASSUME NEW c \in Container, DeleteEntitiesInContainer(p, c) PROVE TypeOK'
  <2>1. ett' \in [Peer -> Entity \cup {NoEntity}]
    <3>1. CASE Registered(p)
      <4>1. Discarded(ett[p]) \in Entity
        BY <3>1, EntityHelpers DEF TypeOK, Registered
      <4>2. ett' = [ett EXCEPT ![p] = Discarded(@)] \/ ett' = ett
        BY <1>7 DEF DeleteEntitiesInContainer
      <4> QED
        BY <4>1, <4>2 DEF TypeOK
    <3>2. CASE ~Registered(p)
      BY <1>7, <3>2 DEF TypeOK, DeleteEntitiesInContainer
    <3> QED BY <3>1, <3>2
  <2>2. ASSUME NEW n \in Nat
        PROVE  [i \in 1 .. n |-> [kind |-> "delete"]] \in Seq(Task)
    BY DEF Task
  <2>3. queue' \in [Peer -> Seq(Task)]
    <3>1. CASE UNCHANGED queue
      BY <3>1 DEF TypeOK
    <3>2. CASE ~UNCHANGED queue
      <4>1. PICK n \in 1 .. DeleteRepeat :
              queue' = [queue EXCEPT ![p] = @ \o [i \in 1 .. n |-> [kind |-> "delete"]]]
        BY <1>7, <3>2 DEF DeleteEntitiesInContainer
      <4>2. n \in Nat
        BY ConstantsAssumption
      <4> DEFINE s == [i \in 1 .. n |-> [kind |-> "delete"]]
      <4>3. s \in Seq(Task)
        BY <4>2, <2>2
      <4>4. queue \in [Peer -> Seq(Task)]
        BY DEF TypeOK
      <4>5. queue' = [queue EXCEPT ![p] = @ \o s]
        BY <4>1
      <4> HIDE DEF s
      <4> QED BY <4>3, <4>4, <4>5, QueueHelper
    <3> QED BY <3>1, <3>2
  <2>4. leaving' \in [Peer -> Container \cup {NoContainer}]
    BY <1>7 DEF TypeOK, DeleteEntitiesInContainer
  <2>5. nchanges' \in Nat
    BY <1>7 DEF TypeOK, DeleteEntitiesInContainer
  <2> QED
    BY <1>7, <2>1, <2>3, <2>4, <2>5 DEF TypeOK, DeleteEntitiesInContainer, netVars
<1>8. ASSUME EraseContainer(p) PROVE TypeOK'
  BY <1>8 DEF TypeOK, EraseContainer, netVars, threadVars, countVars
<1> QED
  BY <1>1, <1>2, <1>3, <1>4, <1>5, <1>6, <1>7, <1>8 DEF PoolNext

(* Every step of every thread keeps the state of the protocol well typed. *)
THEOREM TypeCorrect == Spec => []TypeOK
<1>1. Init => TypeOK
  <2> SUFFICES ASSUME Init PROVE TypeOK
    OBVIOUS
  <2>1. queue \in [Peer -> Seq(Task)]
    BY DEF Init
  <2>2. /\ ett \in [Peer -> Entity \cup {NoEntity}]
        /\ taking \in [Peer -> Order \cup {NoOrder}]
        /\ dropping \in [Peer -> Order \cup {NoOrder}]
        /\ leaving \in [Peer -> Container \cup {NoContainer}]
    BY DEF Init
  <2>3. /\ containers \in [Peer -> SUBSET Container]
        /\ listening \in [Peer -> SUBSET Container]
        /\ ownedIn \in [Peer -> SUBSET Container]
    BY ConstantsAssumption DEF Init
  <2> QED
    BY <2>1, <2>2, <2>3 DEF Init, TypeOK
<1>2. TypeOK /\ [Next]_vars => TypeOK'
  <2>1. ASSUME TypeOK, Next PROVE TypeOK'
    <3>1. CASE Idle
      BY <2>1, <3>1 DEF Idle, TypeOK, vars, entityVars, netVars, threadVars, subVars, countVars
    <3> QED
      BY <2>1, <3>1, EngineTypeOK, ListenerTypeOK, PoolTypeOK DEF Next
  <2>2. ASSUME TypeOK, UNCHANGED vars PROVE TypeOK'
    BY <2>2 DEF TypeOK, vars, entityVars, netVars, threadVars, subVars, countVars
  <2> QED BY <2>1, <2>2
<1> QED
  BY <1>1, <1>2, PTL DEF Spec

-----------------------------------------------------------------------------
(* A server keeps the containers it owns.                                   *)

LEMMA HandingStep ==
  ASSUME TypeOK, \A p \in Peer : Handing(p) => p \in Server, [Next]_vars
  PROVE  \A p \in Peer : Handing(p)' => p \in Server
<1>1. CASE publishing' = publishing
  BY <1>1 DEF Handing
<1>2. ASSUME NEW q \in Peer, NEW c \in Container, TransferAuthority(q, c)
      PROVE  \A p \in Peer : Handing(p)' => p \in Server
  <2>1. q \in Server
    BY <1>2, ConstantsAssumption DEF TransferAuthority, LocallyOwned, TypeOK, Registered, Entity
  <2>2. \A p \in Peer : p # q => publishing'[p] = publishing[p]
    BY <1>2 DEF TransferAuthority, TypeOK
  <2> QED BY <2>1, <2>2 DEF Handing
<1>3. ASSUME NEW q \in Peer, PublishOrders(q)
      PROVE  \A p \in Peer : Handing(p)' => p \in Server
  BY <1>3 DEF PublishOrders, TypeOK, Handing
<1>4. ASSUME NEW q \in Peer, NEW c \in Container, RegisterEntity(q, c)
      PROVE  publishing' = publishing
  BY <1>4 DEF RegisterEntity, threadVars
<1>5. ASSUME NEW q \in Peer,
             \/ SendEntityDeleteOrder(q) \/ UnregisterEntity(q) \/ AdvanceTopLevelExecutorTask(q)
             \/ ListenerNext(q)
      PROVE  publishing' = publishing
  BY <1>5 DEF SendEntityDeleteOrder, UnregisterEntity, AdvanceTopLevelExecutorTask, ListenerNext,
     ExecTakeOrder, FinishTakeOrder, ExecDropOrder, ExecDeleteEntity, threadVars
<1>6. ASSUME NEW q \in Peer, PoolNext(q) PROVE publishing' = publishing
  BY <1>6 DEF PoolNext, FireDropOrder, FinishDropOrder, SubscribeToContainer, GetExistingEntities,
     LoadExistingEntities, LoadTimeout, DeleteEntitiesInContainer, EraseContainer, threadVars
<1>7. UNCHANGED vars => publishing' = publishing
  BY DEF vars, threadVars
<1> QED
  BY <1>1, <1>2, <1>3, <1>4, <1>5, <1>6, <1>7 DEF Next, Idle, EngineNext

LEMMA LocalInvStep ==
  ASSUME TypeOK, LocalInv, [Next]_vars
  PROVE  LocalInv'
<1>0. \A p \in Peer : Handing(p)' => p \in Server
  BY HandingStep DEF LocalInv
<1> USE <1>0 DEF LocalInv
<1>1. CASE UNCHANGED subVars
  BY <1>1 DEF subVars
<1>2. ASSUME NEW p \in Peer, NEW c \in Container, SubscribeToContainer(p, c) PROVE LocalInv'
  BY <1>2, ConstantsAssumption DEF TypeOK, SubscribeToContainer
<1>3. ASSUME NEW p \in Peer, NEW c \in Container, GetExistingEntities(p, c) PROVE LocalInv'
  BY <1>3 DEF TypeOK, GetExistingEntities
<1>4. ASSUME NEW p \in Peer, NEW c \in Container,
             LoadExistingEntities(p, c) \/ LoadTimeout(p, c)
      PROVE LocalInv'
  BY <1>4 DEF TypeOK, LoadExistingEntities, LoadTimeout
<1>5. ASSUME NEW p \in Peer, NEW c \in Container, DeleteEntitiesInContainer(p, c)
      PROVE LocalInv'
  BY <1>5 DEF TypeOK, DeleteEntitiesInContainer, LocallyOwned
<1>6. ASSUME NEW p \in Peer, EraseContainer(p) PROVE LocalInv'
  BY <1>6 DEF TypeOK, EraseContainer
<1>7. ASSUME NEW p \in Peer, EngineNext(p) \/ ListenerNext(p) PROVE UNCHANGED subVars
  BY <1>7 DEF EngineNext, ListenerNext, RegisterEntity, TransferAuthority, PublishOrders,
     SendEntityDeleteOrder, UnregisterEntity, AdvanceTopLevelExecutorTask, ExecTakeOrder,
     FinishTakeOrder, ExecDropOrder, ExecDeleteEntity, subVars
<1>8. ASSUME NEW p \in Peer, (\E m \in timers : FireDropOrder(p, m)) \/ FinishDropOrder(p)
      PROVE UNCHANGED subVars
  BY <1>8 DEF FireDropOrder, FinishDropOrder, subVars
<1> QED
  BY <1>1, <1>2, <1>3, <1>4, <1>5, <1>6, <1>7, <1>8 DEF Next, Idle, PoolNext, vars

-----------------------------------------------------------------------------
(* One claim at a time.                                                     *)

(* An entity that gives p authority when it is p's copy. *)
Entitled(p, e) ==
  e # NoEntity /\ e.valid /\ ~e.quarantine /\ OwnerOf[e.owner] = p

LEMMA AuthorityEntitled ==
  ASSUME TypeOK, LocalInv, NEW p \in Peer
  PROVE  HasAuthority(p) <=> Entitled(p, ett[p])
<1>1. ASSUME Registered(p) PROVE ett[p].owner \in Container
  BY <1>1 DEF TypeOK, Registered, Entity
<1> QED
  BY <1>1 DEF HasAuthority, Entitled, LocalInv, LocallyOwned, Registered

LEMMA AuthorityEntitledNext ==
  ASSUME TypeOK', LocalInv', NEW p \in Peer
  PROVE  HasAuthority(p)' <=> Entitled(p, ett'[p])
<1>1. ASSUME Registered(p)' PROVE ett'[p].owner \in Container
  BY <1>1 DEF TypeOK, Registered, Entity
<1> QED
  BY <1>1 DEF HasAuthority, Entitled, LocalInv, LocallyOwned, Registered

(* The claims of p that are not orders on their way are those it had before. *)
Shrinks(p) ==
  /\ HasAuthority(p)' => HasAuthority(p)
  /\ Handing(p)' => Handing(p)
  /\ Accepting(p)' => Accepting(p)
  /\ \A i \in DOMAIN queue'[p] :
       Instantiating(p, i)' => i \in DOMAIN queue[p] /\ Instantiating(p, i)

(* A step that makes no claim keeps at most one. *)
LEMMA ShrinkKeeps ==
  ASSUME ClaimsExclude, created' = created, takes' \subseteq takes, took' \subseteq took,
         \A p \in Peer : Shrinks(p)
  PROVE  ClaimsExclude' /\ \A p \in Peer : Claim(p)' => Claim(p)
<1>1. \A p \in Peer : Pending(p)' => Pending(p)
  BY DEF Shrinks, Pending
<1>2. \A p \in Peer, m \in takes' : Granting(p, m)' => m \in takes /\ Granting(p, m)
  BY DEF Granting
<1>3. \A p \in Peer : Claim(p)' => Claim(p)
  BY <1>1, <1>2 DEF Shrinks, Claim
<1> QED
  BY <1>1, <1>2, <1>3 DEF ClaimsExclude, Shrinks

(* What a step does to the copies and the queues, seen from their claims. *)
LEMMA CopyShrinks ==
  ASSUME TypeOK, TypeOK', LocalInv, LocalInv', NEW p \in Peer,
         \A q \in Peer : q # p => ett'[q] = ett[q],
         Entitled(p, ett'[p]) => Entitled(p, ett[p])
  PROVE  \A q \in Peer : HasAuthority(q)' => HasAuthority(q)
BY AuthorityEntitled, AuthorityEntitledNext

LEMMA SeqElement ==
  ASSUME NEW S, NEW s \in Seq(S), NEW j \in 1 .. Len(s)
  PROVE  s[j] \in S
OBVIOUS

LEMMA QueueShrinks ==
  ASSUME NEW p \in Peer, queue \in [Peer -> Seq(Task)],
         NEW s \in Seq([kind : {"delete", "invalidate"}]),
         queue' = [queue EXCEPT ![p] = @ \o s]
  PROVE  \A q \in Peer : \A i \in DOMAIN queue'[q] :
           Instantiating(q, i)' => i \in DOMAIN queue[q] /\ Instantiating(q, i)
<1> SUFFICES ASSUME NEW q \in Peer, NEW i \in DOMAIN queue'[q], Instantiating(q, i)'
             PROVE  i \in DOMAIN queue[q] /\ Instantiating(q, i)
  OBVIOUS
<1>1. CASE q # p
  BY <1>1 DEF Instantiating
<1>2. CASE q = p
  <2>1. /\ queue[p] \in Seq(Task) /\ queue'[p] = queue[p] \o s
        /\ i \in 1 .. Len(queue[p]) + Len(s)
    BY <1>2
  <2>2. CASE i \in 1 .. Len(queue[p])
    BY <1>2, <2>1, <2>2 DEF Instantiating
  <2>3. CASE i \notin 1 .. Len(queue[p])
    <3>1. queue'[p][i] = s[i - Len(queue[p])] /\ i - Len(queue[p]) \in 1 .. Len(s)
      BY <2>1, <2>3
    <3>2. s[i - Len(queue[p])] \in [kind : {"delete", "invalidate"}]
      BY <3>1, SeqElement
    <3>3. queue'[p][i].kind # "instantiate"
      BY <3>1, <3>2
    <3> QED BY <1>2, <3>3 DEF Instantiating
  <2> QED BY <2>2, <2>3
<1> QED BY <1>1, <1>2

(* A step that leaves the orders that p publishes and executes alone. *)
LEMMA OrdersSame ==
  ASSUME UNCHANGED <<publishing, taking, took>>, NEW p \in Peer
  PROVE  (Handing(p)' <=> Handing(p)) /\ (Accepting(p)' <=> Accepting(p))
BY DEF Handing, Accepting

(* The steps of the engine that make no claim. *)
LEMMA EngineShrinks ==
  ASSUME TypeOK, TypeOK', LocalInv, LocalInv', NEW p \in Peer,
         SendEntityDeleteOrder(p) \/ UnregisterEntity(p)
  PROVE  /\ created' = created /\ takes' \subseteq takes /\ took' \subseteq took
         /\ \A q \in Peer : Shrinks(q)
<1>1. created' = created /\ UNCHANGED <<takes, publishing, taking, took, queue>>
  BY DEF SendEntityDeleteOrder, UnregisterEntity, netVars, threadVars, subVars, countVars
<1>2. \A q \in Peer : q # p => ett'[q] = ett[q]
  BY DEF SendEntityDeleteOrder, UnregisterEntity, TypeOK
<1>3. ~Entitled(p, ett'[p])
  <2>1. CASE SendEntityDeleteOrder(p)
    <3>1. ett[p] \in Entity /\ ett'[p] = Discarded(ett[p])
      BY <2>1 DEF SendEntityDeleteOrder, TypeOK, Registered
    <3> QED BY <3>1 DEF Discarded, Entitled, Entity
  <2>2. CASE UnregisterEntity(p)
    <3>1. ett'[p] = NoEntity
      BY <2>2 DEF UnregisterEntity, Unregistered, TypeOK
    <3> QED BY <3>1 DEF Entitled
  <2> QED BY <2>1, <2>2
<1> QED
  BY <1>1, <1>2, <1>3, CopyShrinks, OrdersSame DEF Shrinks, Instantiating

(* The orders that are not take orders make no claim. *)
LEMMA ListenerShrinks ==
  ASSUME TypeOK, TypeOK', LocalInv, LocalInv', NEW p \in Peer,
         \/ \E m \in drops : ExecDropOrder(p, m)
         \/ \E c \in Container : ExecDeleteEntity(p, c)
  PROVE  /\ created' = created /\ takes' \subseteq takes /\ took' \subseteq took
         /\ \A q \in Peer : Shrinks(q)
<1>1. created' = created /\ UNCHANGED <<takes, publishing, taking, took, ett>>
  BY DEF ExecDropOrder, ExecDeleteEntity, entityVars, countVars
<1>2. \A q \in Peer : HasAuthority(q)' => HasAuthority(q)
  BY <1>1, CopyShrinks
<1>3. CASE UNCHANGED queue
  BY <1>1, <1>2, <1>3, OrdersSame DEF Shrinks, Instantiating
<1>4. CASE queue' = [queue EXCEPT ![p] = Append(@, [kind |-> "invalidate"])]
  <2> DEFINE s == << [kind |-> "invalidate"] >>
  <2>1. s \in Seq([kind : {"delete", "invalidate"}])
    OBVIOUS
  <2>2. queue \in [Peer -> Seq(Task)]
    BY DEF TypeOK
  <2>3. queue' = [queue EXCEPT ![p] = @ \o s]
    <3>1. Append(queue[p], [kind |-> "invalidate"]) = queue[p] \o s
      BY <2>2
    <3> QED BY <1>4, <3>1
  <2> HIDE DEF s
  <2>4. \A q \in Peer : \A i \in DOMAIN queue'[q] :
           Instantiating(q, i)' => i \in DOMAIN queue[q] /\ Instantiating(q, i)
    BY <2>1, <2>2, <2>3, QueueShrinks
  <2> QED
    BY <1>1, <1>2, <2>4, OrdersSame DEF Shrinks
<1> QED
  BY <1>1, <1>3, <1>4 DEF ExecDropOrder, ExecDeleteEntity

(* Neither do the pool threads. *)
LEMMA PoolShrinks ==
  ASSUME TypeOK, TypeOK', LocalInv, LocalInv', NEW p \in Peer, PoolNext(p)
  PROVE  /\ created' = created /\ takes' \subseteq takes /\ took' \subseteq took
         /\ \A q \in Peer : Shrinks(q)
<1>1. created' = created /\ UNCHANGED <<takes, publishing, taking, took>>
  BY DEF PoolNext, FireDropOrder, FinishDropOrder, SubscribeToContainer, GetExistingEntities,
     LoadExistingEntities, LoadTimeout, DeleteEntitiesInContainer, EraseContainer,
     netVars, threadVars, countVars
<1>2. \A e \in Entity : ~Entitled(p, Discarded(e))
  BY DEF Entitled, Discarded, Entity
<1> DEFINE CopyOnlyLoses ==
      /\ \A q \in Peer : q # p => ett'[q] = ett[q]
      /\ Entitled(p, ett'[p]) => Entitled(p, ett[p])
<1>3. CopyOnlyLoses
  <2>1. ASSUME NEW m \in timers, FireDropOrder(p, m) PROVE CopyOnlyLoses
    <3>1. CASE UNCHANGED ett
      BY <3>1
    <3>2. CASE ett' = [ett EXCEPT ![p] = Discarded(@)] /\ Registered(p)
      BY <3>2, <1>2 DEF TypeOK, Registered
    <3> QED BY <2>1, <3>1, <3>2 DEF FireDropOrder
  <2>2. ASSUME NEW c \in Container, DeleteEntitiesInContainer(p, c) PROVE CopyOnlyLoses
    <3>1. CASE UNCHANGED ett
      BY <3>1
    <3>2. CASE ett' = [ett EXCEPT ![p] = Discarded(@)] /\ Registered(p)
      BY <3>2, <1>2 DEF TypeOK, Registered
    <3> QED BY <2>2, <3>1, <3>2 DEF DeleteEntitiesInContainer
  <2>3. ASSUME NEW c \in Container, LoadExistingEntities(p, c) PROVE CopyOnlyLoses
    <3>1. OwnerOf[c] # p
      BY <2>3 DEF LoadExistingEntities, LocalInv
    <3>2. ett' = [ett EXCEPT ![p] = Instantiated(@, c)]
      BY <2>3 DEF LoadExistingEntities
    <3>3. \A e \in Entity \cup {NoEntity} : ~Entitled(p, Instantiated(e, c))
      BY <3>1 DEF Entitled, Instantiated, Entity
    <3> QED BY <3>2, <3>3 DEF TypeOK
  <2>4. ASSUME NEW c \in Container,
               \/ SubscribeToContainer(p, c)
               \/ GetExistingEntities(p, c)
               \/ LoadTimeout(p, c)
        PROVE  CopyOnlyLoses
    BY <2>4 DEF SubscribeToContainer, GetExistingEntities, LoadTimeout, entityVars
  <2>5. ASSUME FinishDropOrder(p) \/ EraseContainer(p) PROVE CopyOnlyLoses
    BY <2>5 DEF FinishDropOrder, EraseContainer
  <2> QED BY <2>1, <2>2, <2>3, <2>4, <2>5 DEF PoolNext
<1>4. \A q \in Peer : HasAuthority(q)' => HasAuthority(q)
  BY <1>3, CopyShrinks
<1>5. CASE UNCHANGED queue
  BY <1>1, <1>4, <1>5, OrdersSame DEF Shrinks, Instantiating
<1>6. ASSUME NEW n \in Nat,
             queue' = [queue EXCEPT ![p] = @ \o [i \in 1 .. n |-> [kind |-> "delete"]]]
      PROVE  \A q \in Peer : Shrinks(q)
  <2> DEFINE s == [i \in 1 .. n |-> [kind |-> "delete"]]
  <2>1. s \in Seq([kind : {"delete", "invalidate"}])
    OBVIOUS
  <2>2. queue \in [Peer -> Seq(Task)]
    BY DEF TypeOK
  <2>3. queue' = [queue EXCEPT ![p] = @ \o s]
    BY <1>6
  <2> HIDE DEF s
  <2>4. \A q \in Peer : \A i \in DOMAIN queue'[q] :
           Instantiating(q, i)' => i \in DOMAIN queue[q] /\ Instantiating(q, i)
    BY <2>1, <2>2, <2>3, QueueShrinks
  <2> QED
    BY <1>1, <1>4, <2>4, OrdersSame DEF Shrinks
<1>7. CASE UNCHANGED queue \/ \E n \in Nat :
             queue' = [queue EXCEPT ![p] = @ \o [i \in 1 .. n |-> [kind |-> "delete"]]]
  BY <1>1, <1>5, <1>6, <1>7
<1>8. ASSUME NEW c \in Container, DeleteEntitiesInContainer(p, c)
      PROVE  \A q \in Peer : Shrinks(q)
  <2>1. DeleteRepeat \in Nat /\ 1 .. DeleteRepeat \subseteq Nat
    BY ConstantsAssumption
  <2> QED BY <1>7, <1>8, <2>1 DEF DeleteEntitiesInContainer
<1>9. ASSUME FinishDropOrder(p) PROVE \A q \in Peer : Shrinks(q)
  <2>1. CASE UNCHANGED queue
    BY <1>5, <2>1
  <2>2. CASE queue' = [queue EXCEPT ![p] = Append(@, [kind |-> "delete"])]
    <3> DEFINE task == [kind |-> "delete"]
               s == << task >>
    <3>1. task \in [kind : {"delete", "invalidate"}]
      OBVIOUS
    <3>2. queue \in [Peer -> Seq(Task)] /\ queue' = [queue EXCEPT ![p] = Append(@, task)]
      BY <2>2 DEF TypeOK
    <3> HIDE DEF task
    <3>3. Append(queue[p], task) = queue[p] \o s /\ s \in Seq([kind : {"delete", "invalidate"}])
      BY <3>1, <3>2
    <3>4. queue' = [queue EXCEPT ![p] = @ \o s]
      BY <3>2, <3>3
    <3> HIDE DEF s
    <3>5. \A q \in Peer : \A i \in DOMAIN queue'[q] :
             Instantiating(q, i)' => i \in DOMAIN queue[q] /\ Instantiating(q, i)
      BY <3>2, <3>3, <3>4, QueueShrinks
    <3> QED
      BY <1>1, <1>4, <3>5, OrdersSame DEF Shrinks
  <2> QED BY <1>9, <2>1, <2>2 DEF FinishDropOrder
<1> QED
  <2>1. ASSUME NEW c \in Container,
               \/ SubscribeToContainer(p, c)
               \/ GetExistingEntities(p, c)
               \/ LoadExistingEntities(p, c)
               \/ LoadTimeout(p, c)
        PROVE  UNCHANGED queue
    BY <2>1 DEF SubscribeToContainer, GetExistingEntities, LoadExistingEntities, LoadTimeout,
       threadVars
  <2>2. ASSUME NEW m \in timers, FireDropOrder(p, m) PROVE UNCHANGED queue
    BY <2>2 DEF FireDropOrder
  <2>3. ASSUME EraseContainer(p) PROVE UNCHANGED queue
    BY <2>3 DEF EraseContainer, threadVars
  <2> QED BY <1>1, <1>5, <1>8, <1>9, <2>1, <2>2, <2>3 DEF PoolNext

(* The entity is created with one claim. *)
LEMMA RegisterClaims ==
  ASSUME TypeOK, TypeOK', LocalInv, LocalInv', ClaimsExclude,
         NEW p \in Peer, NEW c \in Container, RegisterEntity(p, c)
  PROVE  ClaimsExclude' /\ ~created /\ created' /\ p \in Server /\ Claim(p)'
<1> DEFINE e == [owner |-> c, quarantine |-> FALSE, valid |-> TRUE]
<1>1. /\ ~created /\ created' = TRUE /\ OwnerOf[c] = p /\ p \in Server
      /\ ett' = [ett EXCEPT ![p] = e]
      /\ UNCHANGED <<takes, publishing, taking, took, queue>>
  BY ConstantsAssumption DEF RegisterEntity, LocallyOwned, netVars, threadVars
<1>2. \A q \in Peer : ~Claim(q)
  BY <1>1 DEF ClaimsExclude
<1>3. \A q \in Peer : /\ ~Handing(q)' /\ ~Accepting(q)' /\ ~Pending(q)'
                      /\ \A m \in takes' : ~Granting(q, m)'
  BY <1>1, <1>2 DEF Claim, Handing, Accepting, Pending, Instantiating, Granting
<1>4. e \in Entity
  BY DEF Entity
<1>5. Entitled(p, ett'[p])
  BY <1>1, <1>4, NullsAssumption DEF Entitled, TypeOK
<1>6. \A q \in Peer : q # p => ~HasAuthority(q)'
  BY <1>1, <1>2, AuthorityEntitled, AuthorityEntitledNext DEF Claim, TypeOK
<1>7. HasAuthority(p)'
  BY <1>5, AuthorityEntitledNext
<1>8. \A q \in Peer : Claim(q)' <=> q = p
  BY <1>3, <1>6, <1>7 DEF Claim
<1>9. \A q \in Peer : \A i \in DOMAIN queue'[q] : ~Instantiating(q, i)'
  BY <1>3 DEF Pending
<1> QED
  BY <1>1, <1>3, <1>7, <1>8, <1>9 DEF ClaimsExclude

(* TransferAuthority exchanges the authority of a copy for a transfer to be published. *)
LEMMA TransferClaims ==
  ASSUME TypeOK, TypeOK', LocalInv, LocalInv', ClaimsExclude,
         NEW p \in Peer, NEW to \in Container, TransferAuthority(p, to)
  PROVE  /\ ClaimsExclude' /\ created' = created
         /\ \A q \in Peer : Claim(q)' => Claim(q)
<1>1. /\ created' = created
      /\ ett' = [ett EXCEPT ![p].quarantine = TRUE]
      /\ UNCHANGED <<takes, taking, took, queue>>
      /\ \A q \in Peer : q # p => publishing'[q] = publishing[q]
  BY DEF TransferAuthority, netVars, TypeOK
<1>2. HasAuthority(p) /\ Claim(p)
  BY DEF TransferAuthority, MayMove, HasAuthority, Claim
<1>3. /\ \A q \in Peer : q # p => ~Claim(q)
      /\ \A q \in Peer : \A m \in takes : ~Granting(q, m)
      /\ ~Accepting(p) /\ ~Pending(p)
      /\ created
  BY <1>2 DEF ClaimsExclude, Claim
<1>4. \A q \in Peer : ~Accepting(q)' /\ ~Pending(q)' /\ \A m \in takes' : ~Granting(q, m)'
  BY <1>1, <1>3 DEF Claim, Accepting, Pending, Instantiating, Granting
<1>5. \A q \in Peer : ~HasAuthority(q)'
  <2>1. ~Entitled(p, ett'[p])
    BY <1>1, <1>2 DEF TypeOK, Entitled, Entity, HasAuthority, Registered
  <2>2. \A q \in Peer : q # p => ~Entitled(q, ett'[q])
    BY <1>1, <1>3, AuthorityEntitled DEF TypeOK, Claim
  <2> QED BY <2>1, <2>2, AuthorityEntitledNext
<1>6. \A q \in Peer : Handing(q)' => q = p
  BY <1>1, <1>3 DEF Handing, Claim
<1>7. \A q \in Peer : Claim(q)' => q = p
  BY <1>4, <1>5, <1>6 DEF Claim
<1>8. \A q \in Peer : \A i \in DOMAIN queue'[q] : ~Instantiating(q, i)'
  BY <1>4 DEF Pending
<1> QED
  BY <1>1, <1>2, <1>3, <1>4, <1>5, <1>7, <1>8 DEF ClaimsExclude

(* Its publication exchanges that for at most one order on its way to the new owner. *)
LEMMA PublishClaims ==
  ASSUME TypeOK, TypeOK', LocalInv, LocalInv', ClaimsExclude,
         NEW p \in Peer, PublishOrders(p)
  PROVE  ClaimsExclude' /\ created' = created /\ p \in Server /\ Claim(p)
<1> DEFINE order == publishing[p]
           to == order.to
<1>1. /\ created' = created
      /\ publishing' = [publishing EXCEPT ![p] = NoOrder]
      /\ UNCHANGED <<ett, taking, took, queue>>
      /\ Handing(p)
  BY DEF PublishOrders, entityVars, countVars, Handing
<1>2. Claim(p) /\ p \in Server
  BY <1>1 DEF Claim, LocalInv
<1>3. /\ \A q \in Peer : q # p => ~Claim(q)
      /\ \A q \in Peer : \A m \in takes : ~Granting(q, m)
      /\ ~HasAuthority(p) /\ ~Accepting(p) /\ ~Pending(p)
      /\ created
  BY <1>1, <1>2 DEF ClaimsExclude, Claim
<1>4. \A q \in Peer : ~Accepting(q)' /\ ~Pending(q)'
  BY <1>1, <1>3 DEF Claim, Accepting, Pending, Instantiating
<1>5. \A q \in Peer : ~Handing(q)'
  BY <1>1, <1>3 DEF Claim, Handing, TypeOK
<1>6. \A q \in Peer : ~HasAuthority(q)'
  BY <1>1, <1>3, AuthorityEntitled, AuthorityEntitledNext DEF Claim
<1>7. PICK T \in SUBSET Peer :
        takes' = takes \cup {[order |-> order, dst |-> q] : q \in T}
  BY DEF PublishOrders, Reached, Listeners
<1>8. \A q \in Peer, m \in takes' :
        Granting(q, m)' => m = [order |-> order, dst |-> q] /\ q = OwnerOf[to]
  BY <1>3, <1>7 DEF Granting
<1>9. \A q \in Peer : Claim(q)' => q = OwnerOf[to]
  BY <1>4, <1>5, <1>6, <1>8 DEF Claim
<1>10. \A q \in Peer : \A i \in DOMAIN queue'[q] : ~Instantiating(q, i)'
  BY <1>4 DEF Pending
<1> HIDE DEF order
<1>11. ClaimsExclude'
  BY <1>1, <1>3, <1>4, <1>5, <1>6, <1>8, <1>9, <1>10 DEF ClaimsExclude
<1> QED
  BY <1>1, <1>2, <1>11

(* An instantiation turns into the copy it makes; another task makes no claim. *)
LEMMA TaskClaims ==
  ASSUME TypeOK, TypeOK', LocalInv, LocalInv', ClaimsExclude,
         NEW p \in Peer, AdvanceTopLevelExecutorTask(p)
  PROVE  ClaimsExclude' /\ created' = created /\ \A q \in Peer : Claim(q)' => Claim(q)
<1> DEFINE task == Head(queue[p])
<1>1. /\ created' = created
      /\ UNCHANGED <<takes, publishing, taking, took>>
      /\ queue' = [queue EXCEPT ![p] = Tail(@)]
      /\ \A q \in Peer : q # p => ett'[q] = ett[q] /\ queue'[q] = queue[q]
  BY DEF AdvanceTopLevelExecutorTask, netVars, countVars, TypeOK
<1>2. /\ queue[p] \in Seq(Task) /\ queue[p] # <<>>
      /\ task \in Task /\ task = queue[p][1] /\ 1 \in DOMAIN queue[p]
  BY DEF AdvanceTopLevelExecutorTask, TypeOK
<1>3. \A i \in DOMAIN queue'[p] : /\ i \in Nat \ {0} /\ i + 1 \in DOMAIN queue[p]
                                  /\ queue'[p][i] = queue[p][i + 1]
  BY <1>1, <1>2 DEF TypeOK
<1>4. \A i \in DOMAIN queue'[p] : Instantiating(p, i)' => Instantiating(p, i + 1)
  BY <1>3 DEF Instantiating
<1>5. \A q \in Peer : q # p => (Claim(q)' <=> Claim(q))
  <2>1. \A q \in Peer : q # p => (HasAuthority(q)' <=> HasAuthority(q))
    BY <1>1, AuthorityEntitled, AuthorityEntitledNext
  <2> QED
    BY <1>1, <2>1, OrdersSame DEF Claim, Pending, Instantiating, Granting
<1>6. \A q \in Peer, m \in takes : Granting(q, m)' <=> Granting(q, m)
  BY <1>1 DEF Granting
<1>7. \A q \in Peer : (Handing(q)' <=> Handing(q)) /\ (Accepting(q)' <=> Accepting(q))
  BY <1>1, OrdersSame
<1>8. \A q \in Peer : q # p => \A i \in DOMAIN queue'[q] :
        i \in DOMAIN queue[q] /\ (Instantiating(q, i)' <=> Instantiating(q, i))
  BY <1>1 DEF Instantiating
<1>9. \A i, j \in DOMAIN queue'[p] : Instantiating(p, i)' /\ Instantiating(p, j)' => i = j
  <2> SUFFICES ASSUME NEW i \in DOMAIN queue'[p], NEW j \in DOMAIN queue'[p],
                      Instantiating(p, i)', Instantiating(p, j)'
               PROVE  i = j
    OBVIOUS
  <2>1. i + 1 = j + 1 /\ i \in Nat /\ j \in Nat
    BY <1>3, <1>4 DEF ClaimsExclude
  <2> QED BY <2>1
<1>10. Pending(p)' => Pending(p)
  BY <1>3, <1>4 DEF Pending
<1>11. CASE Instantiating(p, 1)
  <2>1. Pending(p) /\ Claim(p)
    BY <1>2, <1>11 DEF Pending, Claim
  <2>2. ~Pending(p)'
    <3> SUFFICES ASSUME NEW i \in DOMAIN queue'[p], Instantiating(p, i)' PROVE FALSE
      BY DEF Pending
    <3>1. i + 1 = 1 /\ i \in Nat \ {0}
      BY <1>2, <1>3, <1>4, <1>11 DEF ClaimsExclude
    <3> QED BY <3>1
  <2>3. \A q \in Peer : Claim(q)' => q = p
    BY <1>5, <2>1 DEF ClaimsExclude
  <2>4. ~(\E m \in takes : Granting(p, m)) /\ ~Handing(p) /\ ~Accepting(p)
    BY <2>1 DEF ClaimsExclude
  <2>5. created
    BY <2>1 DEF ClaimsExclude
  <2> QED
    BY <1>1, <1>6, <1>7, <1>8, <1>9, <2>1, <2>2, <2>3, <2>4, <2>5 DEF ClaimsExclude, Claim, Pending
<1>12. CASE ~Instantiating(p, 1)
  <2>1. Entitled(p, ett'[p]) => Entitled(p, ett[p])
    <3>1. CASE task.kind = "instantiate"
      <4>1. task.to \in Container /\ OwnerOf[task.to] # p
        BY <1>2, <1>12, <3>1 DEF Instantiating, Task
      <4>2. ett'[p] = Instantiated(ett[p], task.to)
        BY <3>1 DEF AdvanceTopLevelExecutorTask, TypeOK
      <4> QED BY <4>1, <4>2 DEF Entitled, Instantiated, Entity, TypeOK
    <3>2. CASE task.kind = "delete"
      <4>1. ett'[p] = Unregistered(ett[p])
        BY <3>2 DEF AdvanceTopLevelExecutorTask, TypeOK
      <4> QED BY <4>1 DEF Entitled, Unregistered
    <3>3. CASE task.kind = "invalidate"
      <4>1. ett'[p] = Invalidated(ett[p])
        BY <3>3 DEF AdvanceTopLevelExecutorTask, TypeOK
      <4> QED BY <4>1 DEF Entitled, Invalidated, Entity, TypeOK
    <3> QED BY <1>2, <3>1, <3>2, <3>3 DEF Task
  <2>2. HasAuthority(p)' => HasAuthority(p)
    BY <2>1, AuthorityEntitled, AuthorityEntitledNext
  <2>3. \A q \in Peer : Claim(q)' => Claim(q)
    BY <1>1, <1>5, <1>6, <1>7, <1>10, <2>2 DEF Claim
  <2>4. \A q \in Peer : Pending(q)' => Pending(q)
    BY <1>8, <1>10 DEF Pending
  <2>5. \A q \in Peer : HasAuthority(q)' => HasAuthority(q)
    BY <1>1, <2>2, AuthorityEntitled, AuthorityEntitledNext
  <2>6. \A q \in Peer : \A i, j \in DOMAIN queue'[q] :
          Instantiating(q, i)' /\ Instantiating(q, j)' => i = j
    BY <1>8, <1>9 DEF ClaimsExclude
  <2> QED
    BY <1>1, <1>6, <1>7, <2>3, <2>4, <2>5, <2>6 DEF ClaimsExclude
<1> QED BY <1>11, <1>12

(* A take order that is received turns into the authority of the copy, or, if there is none
   that can have it, into the order being executed. *)
LEMMA ExecTakeClaims ==
  ASSUME TypeOK, TypeOK', LocalInv, LocalInv', TookInv, ClaimsExclude,
         NEW p \in Peer, NEW m \in takes, ExecTakeOrder(p, m)
  PROVE  ClaimsExclude' /\ created' = created /\ \A q \in Peer : Claim(q)' => Claim(q)
<1>1. /\ created' = created
      /\ takes' = takes \ {m} /\ m.dst = p
      /\ p \notin took
      /\ taking' = [taking EXCEPT ![p] = m.order]
      /\ took' = IF Registered(p) /\ ett[p].valid /\ OwnerOf[m.order.to] = p
                 THEN took \cup {p} ELSE took
      /\ UNCHANGED <<publishing, queue>>
      /\ \A q \in Peer : q # p => ett'[q] = ett[q]
  BY DEF ExecTakeOrder, ListenerFree, countVars, TypeOK, TookInv
<1>2. m.order \in Order /\ m.order.to \in Container
  BY DEF TypeOK, Message, Order
<1>3. \A q \in Peer : Pending(q)' <=> Pending(q)
  BY <1>1 DEF Pending, Instantiating
<1>4. \A q \in Peer : /\ Handing(q)' <=> Handing(q)
                      /\ q # p => (Accepting(q)' <=> Accepting(q))
  BY <1>1 DEF Handing, Accepting, TypeOK
<1>5. Accepting(p)' => OwnerOf[m.order.to] = p /\ ~(Registered(p) /\ ett[p].valid)
  BY <1>1 DEF Accepting, TypeOK
<1>6. \A q \in Peer, n \in takes' : n \in takes /\ (Granting(q, n)' <=> Granting(q, n))
  BY <1>1 DEF Granting
<1>7. \A q \in Peer : q # p => (HasAuthority(q)' <=> HasAuthority(q))
  BY <1>1, AuthorityEntitled, AuthorityEntitledNext
<1>8. \A q \in Peer : q # p => (Claim(q)' => Claim(q))
  BY <1>3, <1>4, <1>6, <1>7 DEF Claim
<1>9. Entitled(p, ett'[p]) => OwnerOf[m.order.to] = p /\ Registered(p) /\ ett[p].valid
  <2>1. ett'[p] = IF ett[p] = NoEntity THEN NoEntity ELSE TakenOver(ett[p], m.order.to)
    BY DEF ExecTakeOrder, TypeOK
  <2> QED BY <1>2, <2>1 DEF Entitled, TakenOver, Entity, TypeOK, Registered
<1>10. HasAuthority(p)' => OwnerOf[m.order.to] = p /\ Registered(p) /\ ett[p].valid
  BY <1>9, AuthorityEntitledNext
<1>11. \A q \in Peer : \A i, j \in DOMAIN queue'[q] :
         Instantiating(q, i)' /\ Instantiating(q, j)' => i = j
  BY <1>1 DEF ClaimsExclude, Instantiating
<1>12. CASE OwnerOf[m.order.to] = p
  <2>1. Granting(p, m) /\ Claim(p)
    BY <1>1, <1>12 DEF Granting, Claim
  <2>2. \A q \in Peer : Claim(q)' => q = p
    BY <1>8, <2>1 DEF ClaimsExclude
  <2>3. ~Handing(p)' /\ ~Pending(p)' /\ \A n \in takes' : ~Granting(p, n)'
    BY <1>1, <1>3, <1>4, <1>6, <2>1 DEF ClaimsExclude
  <2>4. created
    BY <2>1 DEF ClaimsExclude
  <2>5. \A q \in Peer, n \in takes' : ~Granting(q, n)'
    BY <2>2, <2>3 DEF Claim
  <2>6. Accepting(p)' => ~HasAuthority(p)'
    BY <1>5, <1>10
  <2> QED
    BY <1>1, <1>11, <2>1, <2>2, <2>3, <2>4, <2>5, <2>6 DEF ClaimsExclude, Claim
<1>13. CASE OwnerOf[m.order.to] # p
  <2>1. \A q \in Peer : /\ HasAuthority(q)' => HasAuthority(q)
                        /\ Handing(q)' => Handing(q)
                        /\ Accepting(q)' => Accepting(q)
    BY <1>4, <1>5, <1>7, <1>10, <1>13
  <2>2. \A q \in Peer : Shrinks(q)
    BY <1>1, <2>1 DEF Shrinks, Instantiating
  <2>3. took' = took
    BY <1>1, <1>13
  <2> QED BY <1>1, <2>2, <2>3, ShrinkKeeps
<1> QED BY <1>12, <1>13

(* The order being executed is done with when the copy is there, and turns into
   an instantiation when it is not. *)
LEMMA FinishTakeClaims ==
  ASSUME TypeOK, TypeOK', LocalInv, LocalInv', ClaimsExclude,
         NEW p \in Peer, FinishTakeOrder(p), ~twice'
  PROVE  ClaimsExclude' /\ created' = created /\ \A q \in Peer : Claim(q)' => Claim(q)
<1> DEFINE to == taking[p].to
           task == [kind |-> "instantiate", to |-> to]
<1>1. /\ created' = created
      /\ UNCHANGED <<ett, takes, containers>>
      /\ taking[p] # NoOrder
      /\ taking' = [taking EXCEPT ![p] = NoOrder]
      /\ took' = took \ {p} /\ publishing' = publishing
      /\ p \in took => Registered(p)
  BY DEF FinishTakeOrder, netVars, subVars, TypeOK
<1>2. \A q \in Peer : HasAuthority(q)' <=> HasAuthority(q)
  BY <1>1 DEF HasAuthority, Registered, LocallyOwned
<1>3. /\ ~Accepting(p)'
      /\ \A q \in Peer : q # p => (Accepting(q)' <=> Accepting(q))
      /\ \A q \in Peer : Handing(q)' <=> Handing(q)
  BY <1>1 DEF Accepting, Handing, TypeOK
<1>4. \A q \in Peer, m \in takes : Granting(q, m)' <=> Granting(q, m)
  BY <1>1 DEF Granting
<1>5. CASE UNCHANGED queue
  <2>1. \A q \in Peer : Shrinks(q)
    BY <1>2, <1>3, <1>5 DEF Shrinks, Instantiating
  <2> QED BY <1>1, <2>1, ShrinkKeeps
<1>6. CASE ~Registered(p) /\ queue' = [queue EXCEPT ![p] = Append(@, task)]
  <2>0. PICK n \in Nat : n = Len(queue[p]) + 1
    BY DEF TypeOK
  <2>1. /\ queue[p] \in Seq(Task)
        /\ DOMAIN queue[p] = 1 .. n - 1 /\ DOMAIN queue'[p] = 1 .. n
        /\ \A i \in 1 .. n - 1 : queue'[p][i] = queue[p][i]
        /\ queue'[p][n] = task
        /\ \A q \in Peer : q # p => queue'[q] = queue[q]
    BY <1>6, <2>0 DEF TypeOK
  <2>2. \A q \in Peer : q # p => \A i \in DOMAIN queue'[q] :
          i \in DOMAIN queue[q] /\ (Instantiating(q, i)' <=> Instantiating(q, i))
    BY <2>1 DEF Instantiating
  <2>3. \A i \in 1 .. n - 1 : Instantiating(p, i)' <=> Instantiating(p, i)
    BY <2>1 DEF Instantiating
  <2>4. Instantiating(p, n)' <=> OwnerOf[to] = p
    BY <1>1, <2>1 DEF Instantiating
  <2> HIDE DEF task
  <2>5. CASE OwnerOf[to] = p
    <3>1. Accepting(p) /\ Claim(p)
      BY <1>1, <1>6, <2>5 DEF Accepting, Claim
    <3>2. /\ \A m \in takes : ~Granting(p, m)
          /\ ~Pending(p) /\ ~HasAuthority(p) /\ ~Handing(p) /\ created
      BY <1>6, <3>1 DEF ClaimsExclude, HasAuthority
    <3>3. \A q \in Peer : q # p => (Claim(q)' <=> Claim(q))
      BY <1>1, <1>2, <1>3, <1>4, <2>2, <2>1 DEF Claim, Pending
    <3>4. \A q \in Peer : Claim(q)' => q = p
      BY <3>1, <3>3 DEF ClaimsExclude
    <3>5. \A i \in 1 .. n : Instantiating(p, i)' => i = n
      BY <2>1, <2>3, <3>2 DEF Pending
    <3>6. \A q \in Peer : \A i, j \in DOMAIN queue'[q] :
            Instantiating(q, i)' /\ Instantiating(q, j)' => i = j
      BY <2>1, <2>2, <3>5 DEF ClaimsExclude
    <3>7. \A q \in Peer, m \in takes' : ~Granting(q, m)'
      BY <1>1, <1>4, <3>2, <3>4 DEF Claim
    <3> QED
      BY <1>1, <1>2, <1>3, <3>1, <3>2, <3>4, <3>6, <3>7 DEF ClaimsExclude, Claim
  <2>6. CASE OwnerOf[to] # p
    <3>1. \A i \in DOMAIN queue'[p] :
            Instantiating(p, i)' => i \in DOMAIN queue[p] /\ Instantiating(p, i)
      <4> SUFFICES ASSUME NEW i \in 1 .. n, Instantiating(p, i)'
                   PROVE  i \in 1 .. n - 1 /\ Instantiating(p, i)
        BY <2>1
      <4>1. i # n
        BY <2>4, <2>6
      <4> QED BY <2>1, <2>3, <4>1
    <3>2. \A q \in Peer : Shrinks(q)
      BY <1>2, <1>3, <2>2, <3>1 DEF Shrinks
    <3> QED BY <1>1, <3>2, ShrinkKeeps
  <2> QED BY <2>5, <2>6
<1> QED BY <1>5, <1>6 DEF FinishTakeOrder

(* What a step does to the claims: it makes the first one, it may hand the only one over, it
   gives a server authority twice, or no server gets a claim that it did not have. *)
ClaimsStep ==
  \/ ~created /\ created' /\ \E p \in Server : Claim(p)'
  \/ created' = created /\ \E p \in Server : Claim(p)
  \/ twice'
  \/ created' = created /\ \A p \in Peer : Claim(p)' => Claim(p)

LEMMA StepClaims ==
  ASSUME TypeOK, TypeOK', LocalInv, LocalInv', TookInv, ClaimsExclude, ~twice, [Next]_vars
  PROVE  OneClaim' /\ ClaimsStep
<1> USE DEF OneClaim, ClaimsStep
<1>1. CASE UNCHANGED vars
  <2>1. created' = created /\ takes' = takes /\ took' = took
    BY <1>1 DEF vars, netVars, threadVars, countVars
  <2>2. \A q \in Peer : Shrinks(q)
    BY <1>1 DEF vars, entityVars, threadVars, subVars, Shrinks, HasAuthority, Registered,
       LocallyOwned, Handing, Accepting, Instantiating
  <2> QED BY <2>1, <2>2, ShrinkKeeps
<1>2. ASSUME NEW p \in Peer, EngineNext(p) PROVE OneClaim' /\ ClaimsStep
  <2>1. ASSUME NEW c \in Container, RegisterEntity(p, c) PROVE OneClaim' /\ ClaimsStep
    BY <2>1, RegisterClaims
  <2>2. ASSUME NEW c \in Container, TransferAuthority(p, c) PROVE OneClaim' /\ ClaimsStep
    BY <2>2, TransferClaims
  <2>3. ASSUME PublishOrders(p) PROVE OneClaim' /\ ClaimsStep
    BY <2>3, PublishClaims
  <2>4. ASSUME SendEntityDeleteOrder(p) \/ UnregisterEntity(p) PROVE OneClaim' /\ ClaimsStep
    BY <2>4, EngineShrinks, ShrinkKeeps
  <2>5. ASSUME AdvanceTopLevelExecutorTask(p) PROVE OneClaim' /\ ClaimsStep
    BY <2>5, TaskClaims
  <2> QED BY <1>2, <2>1, <2>2, <2>3, <2>4, <2>5 DEF EngineNext
<1>3. ASSUME NEW p \in Peer, ListenerNext(p) PROVE OneClaim' /\ ClaimsStep
  <2>1. ASSUME NEW m \in takes, ExecTakeOrder(p, m) PROVE OneClaim' /\ ClaimsStep
    BY <2>1, ExecTakeClaims
  <2>2. ASSUME FinishTakeOrder(p) PROVE OneClaim' /\ ClaimsStep
    <3>1. CASE twice'
      <4>1. p \in took
        BY <2>2, <3>1 DEF FinishTakeOrder
      <4> QED BY <3>1, <4>1 DEF ClaimsExclude
    <3>2. CASE ~twice'
      BY <2>2, <3>2, FinishTakeClaims
    <3> QED BY <3>1, <3>2
  <2>3. ASSUME \/ \E m \in drops : ExecDropOrder(p, m)
               \/ \E c \in Container : ExecDeleteEntity(p, c)
        PROVE  OneClaim' /\ ClaimsStep
    BY <2>3, ListenerShrinks, ShrinkKeeps
  <2> QED BY <1>3, <2>1, <2>2, <2>3 DEF ListenerNext
<1>4. ASSUME NEW p \in Peer, PoolNext(p) PROVE OneClaim' /\ ClaimsStep
  BY <1>4, PoolShrinks, ShrinkKeeps
<1> QED BY <1>1, <1>2, <1>3, <1>4 DEF Next, Idle

(* The entity stays created, and only once it is can authority be given twice. *)
LEMMA CreatedStep ==
  ASSUME ClaimsExclude, ~twice, [Next]_vars
  PROVE  (created => created') /\ (twice' => created)
<1>1. CASE UNCHANGED vars
  BY <1>1 DEF vars, countVars
<1>2. ASSUME NEW p \in Peer, FinishTakeOrder(p) PROVE created' = created /\ (twice' => created)
  BY <1>2 DEF FinishTakeOrder, ClaimsExclude
<1>3. ASSUME NEW p \in Peer, NEW c \in Container, RegisterEntity(p, c)
      PROVE  created' = TRUE /\ twice' = twice
  BY <1>3 DEF RegisterEntity
<1>4. ASSUME NEW p \in Peer,
             \/ \E c \in Container : TransferAuthority(p, c)
             \/ PublishOrders(p) \/ SendEntityDeleteOrder(p) \/ UnregisterEntity(p)
             \/ AdvanceTopLevelExecutorTask(p)
             \/ \E m \in takes : ExecTakeOrder(p, m)
             \/ \E m \in drops : ExecDropOrder(p, m)
             \/ \E c \in Container : ExecDeleteEntity(p, c)
      PROVE  created' = created /\ twice' = twice
  BY <1>4 DEF TransferAuthority, PublishOrders, SendEntityDeleteOrder, UnregisterEntity,
     AdvanceTopLevelExecutorTask, ExecTakeOrder, ExecDropOrder, ExecDeleteEntity, countVars
<1>5. ASSUME NEW p \in Peer, PoolNext(p)
      PROVE  created' = created /\ twice' = twice
  BY <1>5 DEF PoolNext, FireDropOrder, FinishDropOrder, SubscribeToContainer,
     GetExistingEntities, LoadExistingEntities, LoadTimeout, DeleteEntitiesInContainer,
     EraseContainer, countVars
<1> QED
  BY <1>1, <1>2, <1>3, <1>4, <1>5 DEF Next, Idle, EngineNext, ListenerNext

(* No step takes back that authority was given twice, and took goes with taking. *)
LEMMA HistoryStep ==
  ASSUME TypeOK, TookInv, [Next]_vars
  PROVE  TookInv' /\ (twice => twice')
<1>1. CASE UNCHANGED <<taking, took, twice>>
  BY <1>1 DEF TookInv
<1>2. ASSUME NEW p \in Peer, NEW m \in takes, ExecTakeOrder(p, m) PROVE TookInv' /\ twice' = twice
  <2>1. /\ twice' = twice
        /\ taking' = [taking EXCEPT ![p] = m.order] /\ m.order # NoOrder
        /\ took' \subseteq took \cup {p} /\ (p \in took' \ took => OwnerOf[m.order.to] = p)
        /\ p \notin took
    BY <1>2, NullsAssumption DEF ExecTakeOrder, ListenerFree, countVars, TypeOK, Message, TookInv
  <2> QED BY <2>1 DEF TookInv, TypeOK
<1>3. ASSUME NEW p \in Peer, FinishTakeOrder(p) PROVE TookInv' /\ (twice => twice')
  BY <1>3 DEF FinishTakeOrder, TookInv, TypeOK
<1>4. ASSUME NEW p \in Peer, EngineNext(p) PROVE UNCHANGED <<taking, took, twice>>
  BY <1>4 DEF EngineNext, RegisterEntity, TransferAuthority, PublishOrders,
     SendEntityDeleteOrder, UnregisterEntity, AdvanceTopLevelExecutorTask, threadVars, countVars
<1>5. ASSUME NEW p \in Peer,
             \/ \E m \in drops : ExecDropOrder(p, m)
             \/ \E c \in Container : ExecDeleteEntity(p, c)
             \/ PoolNext(p)
      PROVE  UNCHANGED <<taking, took, twice>>
  BY <1>5 DEF ExecDropOrder, ExecDeleteEntity, PoolNext, FireDropOrder, FinishDropOrder,
     SubscribeToContainer, GetExistingEntities, LoadExistingEntities, LoadTimeout,
     DeleteEntitiesInContainer, EraseContainer, threadVars, countVars
<1>6. UNCHANGED vars => UNCHANGED <<taking, took, twice>>
  BY DEF vars, threadVars, countVars
<1> QED
  BY <1>1, <1>2, <1>3, <1>4, <1>5, <1>6 DEF Next, Idle, ListenerNext

LEMMA InitClaims ==
  Init => LocalInv /\ TookInv /\ OneClaim
<1> SUFFICES ASSUME Init PROVE LocalInv /\ TookInv /\ OneClaim
  OBVIOUS
<1>1. LocalInv /\ TookInv
  BY ConstantsAssumption DEF Init, LocalInv, Handing, TookInv
<1>2. \A p \in Peer : ~(\E i \in DOMAIN queue[p] : TRUE)
  <2>1. ~(\E i \in DOMAIN <<>> : TRUE)
    OBVIOUS
  <2>2. \A p \in Peer : queue[p] = <<>>
    BY DEF Init
  <2> QED BY <2>1, <2>2
<1>3. \A p \in Peer : ~HasAuthority(p) /\ ~Handing(p) /\ ~Accepting(p)
  BY DEF Init, HasAuthority, Registered, Handing, Accepting
<1>4. \A p \in Peer : ~Claim(p)
  BY <1>2, <1>3 DEF Init, Claim, Pending
<1> QED
  BY <1>1, <1>2, <1>4 DEF OneClaim, ClaimsExclude, Init, Claim

(* The invariant the theorems below rest on. *)
ClaimsIInv == LocalInv /\ TookInv /\ OneClaim

LEMMA ClaimsKept ==
  ASSUME TypeOK, TypeOK', ClaimsIInv, [Next]_vars
  PROVE  ClaimsIInv'
<1>1. LocalInv' /\ TookInv' /\ (twice => twice')
  BY LocalInvStep, HistoryStep DEF ClaimsIInv
<1>2. CASE twice
  BY <1>1, <1>2 DEF ClaimsIInv, OneClaim
<1>3. CASE ~twice
  BY <1>1, <1>3, StepClaims DEF ClaimsIInv, OneClaim
<1> QED BY <1>2, <1>3

(* At most one server has a claim to the authority over the entity, until a take order
   gives its server authority twice. *)
THEOREM ClaimsInvariant == Spec => []OneClaim
<1>1. Init => ClaimsIInv
  BY InitClaims DEF ClaimsIInv
<1>2. TypeOK /\ TypeOK' /\ ClaimsIInv /\ [Next]_vars => ClaimsIInv'
  BY ClaimsKept
<1>3. ClaimsIInv => OneClaim
  BY DEF ClaimsIInv
<1> QED
  BY <1>1, <1>2, <1>3, TypeCorrect, PTL DEF Spec

LEMMA ClaimsAlways == Spec => [](TypeOK /\ ClaimsIInv)
<1>1. Init => ClaimsIInv
  BY InitClaims DEF ClaimsIInv
<1>2. TypeOK /\ TypeOK' /\ ClaimsIInv /\ [Next]_vars => ClaimsIInv'
  BY ClaimsKept
<1> QED
  BY <1>1, <1>2, TypeCorrect, PTL DEF Spec

(* Whatever the broker loses, delays or reorders, whatever the peers join, leave or delete
   meanwhile, and however many transfers overlap, no two servers have authority over the
   entity, until a take order gives its server authority twice. *)
THEOREM AuthorityIsSingle == Spec => []SingleAuthority
<1>1. OneClaim => SingleAuthority
  BY DEF OneClaim, ClaimsExclude, SingleAuthority, Claim
<1> QED
  BY <1>1, ClaimsInvariant, PTL

-----------------------------------------------------------------------------
(* The protocol implements Authority.                                       *)

LEMMA HolderIs ==
  ASSUME ClaimsExclude, ~twice, created, Server \subseteq Peer, NEW p \in Server, Claim(p)
  PROVE  Holder = p
<1>1. \A q \in Server : Claim(q) <=> q = p
  BY DEF ClaimsExclude
<1>2. (CHOOSE q \in Server : Claim(q)) = p
  BY <1>1
<1> QED BY <1>1, <1>2 DEF Holder

LEMMA HolderIsNext ==
  ASSUME ClaimsExclude', ~twice', created', Server \subseteq Peer, NEW p \in Server, Claim(p)'
  PROVE  Holder' = p
<1>1. \A q \in Server : Claim(q)' <=> q = p
  BY DEF ClaimsExclude
<1>2. (CHOOSE q \in Server : Claim(q)') = p
  BY <1>1
<1> QED BY <1>1, <1>2 DEF Holder

LEMMA HolderStep ==
  ASSUME ClaimsExclude, ~twice, OneClaim', ClaimsStep, created => created', twice' => created
  PROVE  Abstract!Next \/ UNCHANGED Holder
<1> USE DEF Abstract!Next, Abstract!Create, Abstract!HandOver, Abstract!Lose, Abstract!GiveTwice
<1>1. Server \subseteq Peer
  BY ConstantsAssumption
<1>2. created => Holder \in Server \cup {Nobody}
  BY <1>1, HolderIs DEF Holder
<1>3. CASE twice'
  <2>1. Holder' = Disputed
    BY <1>3 DEF Holder
  <2> QED BY <1>2, <1>3, <2>1
<1>4. CASE ~twice' /\ ~created /\ created' /\ \E p \in Server : Claim(p)'
  <2>1. Holder = Unborn /\ Holder' \in Server
    BY <1>1, <1>4, HolderIsNext DEF Holder, OneClaim
  <2> QED BY <2>1
<1>5. CASE ~twice' /\ created' = created /\ \E p \in Server : Claim(p)
  <2>1. created
    BY <1>1, <1>5 DEF ClaimsExclude
  <2>2. Holder \in Server
    BY <1>1, <1>5, <2>1, HolderIs
  <2>3. Holder' \in Server \/ Holder' = Nobody
    BY <1>1, <1>5, <2>1, HolderIsNext DEF Holder, OneClaim
  <2> QED BY <2>2, <2>3
<1>6. CASE /\ ~twice' /\ created' = created
           /\ ~\E p \in Server : Claim(p)
           /\ \A p \in Peer : Claim(p)' => Claim(p)
  <2>1. ~\E p \in Server : Claim(p)'
    BY <1>1, <1>6
  <2> QED BY <1>6, <2>1 DEF Holder
<1> QED
  BY <1>3, <1>4, <1>5, <1>6 DEF ClaimsStep

(* The authority moves as Authority says: created once, in the hands of one server, handed
   over by TransferAuthority or lost with its orders, and never back from nowhere, by a
   stale order or a late answer, except by a take order that gives it twice. *)
THEOREM AuthorityRefinement == Spec => AuthorityKept
<1>1. Init => Abstract!Init
  BY DEF Init, Abstract!Init, Holder
<1> DEFINE IInv == TypeOK /\ ClaimsIInv
<1>2. IInv /\ IInv' /\ [Next]_vars => [Abstract!Next]_Holder
  <2> SUFFICES ASSUME IInv, IInv', [Next]_vars PROVE Abstract!Next \/ UNCHANGED Holder
    OBVIOUS
  <2>1. CASE twice
    <3>1. twice'
      BY <2>1, HistoryStep DEF ClaimsIInv
    <3> QED BY <2>1, <3>1 DEF Holder
  <2>2. CASE ~twice
    <3>1. OneClaim' /\ ClaimsStep /\ ClaimsExclude
      BY <2>2, StepClaims DEF ClaimsIInv, OneClaim
    <3>2. (created => created') /\ (twice' => created)
      BY <2>2, <3>1, CreatedStep
    <3> QED BY <2>2, <3>1, <3>2, HolderStep
  <2> QED BY <2>1, <2>2
<1>3. Spec => []IInv
  BY ClaimsAlways
<1> HIDE DEF IInv
<1> QED
  BY <1>1, <1>2, <1>3, PTL DEF Spec, AuthorityKept, Abstract!Spec

-----------------------------------------------------------------------------
(* Transfers that settle one by one, with nothing lost, between peers that stay
   subscribed. *)

Settling == ~Lossy /\ ~Overlapping /\ OwnersDelete /\ MaxChanges = 0

Copy(c, q, v) == [owner |-> c, quarantine |-> q, valid |-> v]

CopyOf(o, p) == [order |-> o, dst |-> p]

DeleteTask == [kind |-> "delete"]
InvalidateTask == [kind |-> "invalidate"]
InstantiateTask(c) == [kind |-> "instantiate", to |-> c]

(* Nobody joins or leaves a container. *)
FixedInv ==
  /\ containers = Subscribed /\ listening = Subscribed
  /\ asked = {} /\ answered = {}
  /\ \A p \in Peer : leaving[p] = NoContainer

NoOrders ==
  /\ takes = {} /\ drops = {} /\ timers = {}
  /\ \A p \in Peer : publishing[p] = NoOrder /\ taking[p] = NoOrder /\ dropping[p] = NoOrder

(* Before the entity is created. *)
Uncreated ==
  /\ ~created /\ NoOrders /\ deletes = {} /\ ntransfers = 0 /\ ndeletes = 0
  /\ \A p \in Peer : ett[p] = NoEntity /\ queue[p] = << >> /\ ownedIn[p] = {}

(* The entity is in c, and nothing of it is under way. *)
Resting(c) ==
  /\ created /\ NoOrders /\ deletes = {} /\ ndeletes = 0
  /\ \A p \in Peer :
       /\ queue[p] = << >>
       /\ ett[p] \in {NoEntity, Copy(c, FALSE, TRUE)}
       /\ Registered(p) => c \in Subscribed[p]
       /\ ownedIn[p] \subseteq {c} \cap Subscribed[p]
       /\ ownedIn[p] # {} => Registered(p) /\ p \in Server

(* The drop order o is on its way to p, or p has put it off. *)
DropDue(o, p) == CopyOf(o, p) \in drops \cup timers

(* The copy of a peer that the orders of o have not reached: only the former owner
   has it in quarantine. *)
Waiting(o, p) == ett[p] \in {NoEntity, Copy(o.from, p = OwnerOf[o.from], TRUE)}

(* The owner has the entity in quarantine, and has not published the orders yet. *)
Started(o) ==
  /\ created /\ ntransfers > 0 /\ ndeletes = 0 /\ deletes = {}
  /\ takes = {} /\ drops = {} /\ timers = {}
  /\ \A p \in Peer :
       /\ publishing[p] = IF p = OwnerOf[o.from] THEN o ELSE NoOrder
       /\ taking[p] = NoOrder /\ dropping[p] = NoOrder /\ queue[p] = << >>
       /\ Waiting(o, p)
       /\ Registered(p) => o.from \in Subscribed[p]
       /\ ownedIn[p] \subseteq {o.from} \cap Subscribed[p]
       /\ ownedIn[p] # {} => Registered(p) /\ p \in Server

(* A peer that is subscribed to where the entity goes: before the take order, in the
   middle of it, and after it, with the copy or the task that makes it. *)
Gets(o, p) ==
  \/ /\ CopyOf(o, p) \in takes /\ taking[p] = NoOrder /\ queue[p] = << >>
     /\ Waiting(o, p) /\ ownedIn[p] \subseteq {o.from}
  \/ /\ CopyOf(o, p) \notin takes /\ taking[p] = o /\ queue[p] = << >>
     /\ ett[p] \in {NoEntity, Copy(o.to, FALSE, TRUE)} /\ ownedIn[p] \subseteq {o.from}
  \/ /\ CopyOf(o, p) \notin takes /\ taking[p] = NoOrder
     /\ p \in Server => o.to \in ownedIn[p]
     /\ \/ queue[p] = << InstantiateTask(o.to) >> /\ ett[p] = NoEntity
        \/ queue[p] = << >> /\ ett[p] = Copy(o.to, FALSE, TRUE)

(* A peer that is not: before the drop order fires, in the middle of it, and after it,
   with the task that deletes the copy or without a copy. *)
Loses(o, p) ==
  /\ CopyOf(o, p) \notin takes /\ taking[p] = NoOrder /\ ownedIn[p] \subseteq {o.from}
  /\ \/ DropDue(o, p) /\ dropping[p] = NoOrder /\ queue[p] = << >> /\ Waiting(o, p)
     \/ dropping[p] = o /\ queue[p] = << >> /\ ett[p] = Copy(o.from, TRUE, FALSE)
     \/ /\ ~DropDue(o, p) /\ dropping[p] = NoOrder
        /\ \/ queue[p] = << >> /\ ett[p] = NoEntity
           \/ queue[p] = << DeleteTask >> /\ ett[p] \in {NoEntity, Copy(o.from, TRUE, FALSE)}

(* The lists of entities, and the drop order: as long as the container that the entity
   left lists it, the drop order that removes it from there is due. *)
Lists(o, p) ==
  /\ ownedIn[p] \subseteq {o.from, o.to} \cap Subscribed[p]
  /\ p \notin Server => ownedIn[p] = {}
  /\ o.from \in ownedIn[p] /\ o.from # o.to => Registered(p) /\ (DropDue(o, p) \/ dropping[p] = o)
  /\ DropDue(o, p) => o.from \in Subscribed[p]
  /\ dropping[p] \in {NoOrder, o}
  /\ dropping[p] = o => o.from # o.to /\ Registered(p) /\ ~DropDue(o, p)

Part(o, p) == Lists(o, p) /\ IF o.to \in Subscribed[p] THEN Gets(o, p) ELSE Loses(o, p)

(* The orders of one transfer are on their way, being carried out, or done. *)
Moving(o) ==
  /\ created /\ ntransfers > 0 /\ ndeletes = 0 /\ deletes = {}
  /\ takes \cup drops \cup timers \subseteq {CopyOf(o, p) : p \in Peer}
  /\ drops \cap timers = {}
  /\ timers # {} => o.from # o.to
  /\ \A p \in Peer : publishing[p] = NoOrder /\ Part(o, p)

(* The entity was deleted in c: a copy that is still valid is due to be invalidated. *)
Deleted(c) ==
  /\ created /\ ndeletes > 0 /\ NoOrders
  /\ deletes \subseteq {c} \X Peer
  /\ \A p \in Peer :
       /\ queue[p] \in {<< >>, << InvalidateTask >>}
       /\ queue[p] # << >> => <<c, p>> \notin deletes
       /\ Registered(p) => ett[p].owner = c
       /\ Registered(p) /\ ett[p].valid =>
            p # OwnerOf[c] /\ (<<c, p>> \in deletes \/ queue[p] # << >>)

Stages ==
  \/ Uncreated
  \/ \E c \in Container : (ntransfers = 0 /\ Resting(c)) \/ Deleted(c)
  \/ \E o \in Order : Started(o) \/ Moving(o)

SettlingInv == FixedInv /\ Stages

-----------------------------------------------------------------------------

LEMMA SettlingInit == ASSUME Init PROVE SettlingInv
<1>1. FixedInv /\ Uncreated
  BY DEF Init, FixedInv, Uncreated, NoOrders
<1> QED BY <1>1 DEF SettlingInv, Stages

(* The steps there are while nobody joins or leaves a container. *)
SettlingStep(p) ==
  \/ \E c \in Container : RegisterEntity(p, c) \/ TransferAuthority(p, c)
  \/ PublishOrders(p)
  \/ SendEntityDeleteOrder(p) \/ UnregisterEntity(p) \/ AdvanceTopLevelExecutorTask(p)
  \/ \E m \in takes : ExecTakeOrder(p, m)
  \/ FinishTakeOrder(p)
  \/ \E m \in drops : ExecDropOrder(p, m)
  \/ \E c \in Container : ExecDeleteEntity(p, c)
  \/ \E m \in timers : FireDropOrder(p, m)
  \/ FinishDropOrder(p)

LEMMA SettlingSteps ==
  ASSUME Settling, TypeOK, FixedInv, [Next]_vars
  PROVE  FixedInv' /\ (UNCHANGED vars \/ \E p \in Peer : SettlingStep(p))
<1>1. CASE UNCHANGED vars \/ Idle
  BY <1>1 DEF vars, subVars, Idle, FixedInv
<1>2. ASSUME NEW p \in Peer, EngineNext(p) \/ ListenerNext(p) \/ PoolNext(p) PROVE SettlingStep(p)
  <2>1. CASE EngineNext(p) \/ ListenerNext(p)
    BY <2>1 DEF EngineNext, ListenerNext, SettlingStep
  <2>2. ASSUME NEW c \in Container
        PROVE  /\ ~SubscribeToContainer(p, c) /\ ~GetExistingEntities(p, c)
               /\ ~LoadExistingEntities(p, c) /\ ~LoadTimeout(p, c)
               /\ ~DeleteEntitiesInContainer(p, c)
    BY DEF Settling, TypeOK, FixedInv, SubscribeToContainer, GetExistingEntities,
       LoadExistingEntities, LoadTimeout, DeleteEntitiesInContainer
  <2>3. ~EraseContainer(p)
    BY DEF FixedInv, EraseContainer
  <2>4. CASE PoolNext(p)
    BY <2>2, <2>3, <2>4 DEF PoolNext, SettlingStep
  <2> QED BY <1>2, <2>1, <2>4
<1>3. ASSUME NEW p \in Peer, SettlingStep(p) PROVE FixedInv'
  <2>1. UNCHANGED subVars
    BY <1>3 DEF SettlingStep, RegisterEntity, TransferAuthority, PublishOrders,
       SendEntityDeleteOrder, UnregisterEntity, AdvanceTopLevelExecutorTask, ExecTakeOrder,
       FinishTakeOrder, ExecDropOrder, ExecDeleteEntity, FireDropOrder, FinishDropOrder
  <2> QED BY <2>1 DEF subVars, FixedInv
<1> QED BY <1>1, <1>2, <1>3 DEF Next

(* With nothing under way, the engine is the only one that can do something. *)
LEMMA StillSteps ==
  ASSUME NoOrders, deletes = {}, \A q \in Peer : queue[q] = << >>, NEW p \in Peer, SettlingStep(p)
  PROVE  \/ \E c \in Container : RegisterEntity(p, c) \/ TransferAuthority(p, c)
         \/ SendEntityDeleteOrder(p) \/ UnregisterEntity(p)
BY DEF NoOrders, SettlingStep, PublishOrders, AdvanceTopLevelExecutorTask, ExecTakeOrder,
   FinishTakeOrder, ExecDropOrder, ExecDeleteEntity, FireDropOrder, FinishDropOrder

LEMMA UncreatedStep ==
  ASSUME Settling, TypeOK, FixedInv, Uncreated, NEW p \in Peer, SettlingStep(p)
  PROVE  \E c \in Container : ntransfers' = 0 /\ Resting(c)'
<1>1. PICK c \in Container : RegisterEntity(p, c)
  BY StillSteps DEF Uncreated, TransferAuthority, SendEntityDeleteOrder, UnregisterEntity,
     Registered
<1>2. /\ ett' = [ett EXCEPT ![p] = Copy(c, FALSE, TRUE)] /\ created'
      /\ UNCHANGED <<ownedIn, netVars, threadVars, subVars, ntransfers, nchanges, ndeletes>>
      /\ c \in Subscribed[p]
  BY <1>1 DEF RegisterEntity, Copy, LocallyOwned, FixedInv
<1>3. /\ NoOrders' /\ deletes' = {} /\ ndeletes' = 0
      /\ \A q \in Peer : queue'[q] = << >> /\ ownedIn'[q] = {}
  BY <1>2 DEF Uncreated, NoOrders, netVars, threadVars
<1>4. \A q \in Peer : ett'[q] = IF q = p THEN Copy(c, FALSE, TRUE) ELSE NoEntity
  BY <1>2 DEF TypeOK, Uncreated
<1>5. Resting(c)'
  BY <1>2, <1>3, <1>4 DEF Resting, Registered
<1>6. ntransfers' = 0
  BY <1>2 DEF Uncreated
<1> QED BY <1>5, <1>6

LEMMA CopyThere ==
  ASSUME NEW c \in Container, NEW q \in BOOLEAN, NEW v \in BOOLEAN
  PROVE  /\ Copy(c, q, v) # NoEntity
         /\ Copy(c, q, v).owner = c /\ Copy(c, q, v).quarantine = q /\ Copy(c, q, v).valid = v
<1>1. Copy(c, q, v) \in Entity
  BY DEF Copy, Entity
<1> QED BY <1>1, NullsAssumption DEF Copy

LEMMA CopyIs ==
  ASSUME NEW e \in Entity
  PROVE  e = Copy(e.owner, e.quarantine, e.valid)
BY DEF Entity, Copy

(* What the handlers make of a copy. *)
LEMMA CopyChanges ==
  ASSUME NEW c \in Container, NEW to \in Container, NEW q \in BOOLEAN, NEW v \in BOOLEAN
  PROVE  /\ [Copy(c, q, v) EXCEPT !.quarantine = TRUE] = Copy(c, TRUE, v)
         /\ TakenOver(Copy(c, q, v), to) = Copy(to, FALSE, v)
         /\ Discarded(Copy(c, q, v)) = Copy(c, TRUE, FALSE)
         /\ Invalidated(Copy(c, q, v)) = Copy(c, q, FALSE)
         /\ Instantiated(NoEntity, c) = Copy(c, FALSE, TRUE)
<1>1. PICK e \in Entity : e = Copy(c, q, v)
  BY DEF Copy, Entity
<1>2. e # NoEntity /\ e.owner = c /\ e.quarantine = q /\ e.valid = v
  BY <1>1, CopyThere
<1>3. [e EXCEPT !.quarantine = TRUE] = Copy(c, TRUE, v)
  <2>1. PICK f \in Entity : f = [e EXCEPT !.quarantine = TRUE]
    BY DEF Entity
  <2>2. f.owner = c /\ f.quarantine = TRUE /\ f.valid = v
    BY <1>2, <2>1 DEF Entity
  <2> QED BY <2>1, <2>2, CopyIs
<1>4. TakenOver(e, to) = Copy(to, FALSE, v)
  <2>1. PICK f \in Entity : f = TakenOver(e, to)
    BY DEF Entity, TakenOver
  <2>2. f.owner = to /\ f.quarantine = FALSE /\ f.valid = v
    BY <1>2, <2>1 DEF Entity, TakenOver
  <2> QED BY <2>1, <2>2, CopyIs
<1>5. Discarded(e) = Copy(c, TRUE, FALSE)
  <2>1. PICK f \in Entity : f = Discarded(e)
    BY DEF Entity, Discarded
  <2>2. f.owner = c /\ f.quarantine = TRUE /\ f.valid = FALSE
    BY <1>2, <2>1 DEF Entity, Discarded
  <2> QED BY <2>1, <2>2, CopyIs
<1>6. Invalidated(e) = Copy(c, q, FALSE)
  <2>1. PICK f \in Entity : f = [e EXCEPT !.valid = FALSE]
    BY DEF Entity
  <2>2. f.owner = c /\ f.quarantine = q /\ f.valid = FALSE
    BY <1>2, <2>1 DEF Entity
  <2> QED BY <1>2, <2>1, <2>2, CopyIs DEF Invalidated
<1>7. Instantiated(NoEntity, c) = Copy(c, FALSE, TRUE)
  BY DEF Instantiated, Copy
<1> QED BY <1>1, <1>3, <1>4, <1>5, <1>6, <1>7

LEMMA RestingCopy ==
  ASSUME NEW c \in Container, Resting(c), NEW p \in Peer, Registered(p), LocallyOwned(p, ett[p].owner)
  PROVE  /\ ett[p] = Copy(c, FALSE, TRUE) /\ ett[p].owner = c
         /\ p = OwnerOf[c] /\ LocallyOwned(p, c)
<1>1. ett[p] = Copy(c, FALSE, TRUE)
  BY DEF Resting, Registered
<1>2. ett[p].owner = c
  BY <1>1, CopyThere
<1> QED BY <1>1, <1>2 DEF LocallyOwned

(* A transfer of an entity at rest begins: the owner's copy goes into quarantine. *)
LEMMA TransferStarts ==
  ASSUME Settling, TypeOK, FixedInv, NEW c \in Container, Resting(c), NEW p \in Peer,
         NEW to \in Container,
         TransferAuthority(p, to)
  PROVE  \E o \in Order : Started(o)'
<1>1. Registered(p) /\ ett[p] = Copy(c, FALSE, TRUE) /\ ett[p].owner = c /\ p = OwnerOf[c]
  <2>1. Registered(p) /\ LocallyOwned(p, ett[p].owner)
    BY DEF TransferAuthority
  <2> QED BY <2>1, RestingCopy
<1>2. PICK o \in Order : o = [proc |-> ntransfers, from |-> c, to |-> to]
  BY DEF TypeOK, Order
<1>3. /\ publishing' = [publishing EXCEPT ![p] = o]
      /\ ett' = [ett EXCEPT ![p].quarantine = TRUE]
      /\ ntransfers' = ntransfers + 1 /\ ntransfers \in Nat
      /\ UNCHANGED <<ownedIn, takes, drops, deletes, timers, taking, dropping, queue, created,
                     ndeletes>>
  BY <1>1, <1>2 DEF TransferAuthority, netVars, TypeOK
<1>4. \A q \in Peer : publishing'[q] = IF q = OwnerOf[c] THEN o ELSE NoOrder
  BY <1>1, <1>3 DEF Resting, NoOrders, TypeOK
<1>5. ett'[p] = Copy(c, TRUE, TRUE) /\ \A q \in Peer : q # p => ett'[q] = ett[q]
  <2>1. ett'[p] = [ett[p] EXCEPT !.quarantine = TRUE] /\ \A q \in Peer : q # p => ett'[q] = ett[q]
    BY <1>3 DEF TypeOK
  <2>2. [Copy(c, FALSE, TRUE) EXCEPT !.quarantine = TRUE] = Copy(c, TRUE, TRUE)
    BY CopyChanges
  <2> QED BY <1>1, <2>1, <2>2
<1>6. \A q \in Peer : ett'[q] \in {NoEntity, Copy(c, q = OwnerOf[c], TRUE)}
  BY <1>1, <1>5 DEF Resting
<1>7. \A q \in Peer : Registered(q)' <=> Registered(q)
  <2>1. Copy(c, TRUE, TRUE) # NoEntity
    BY CopyThere
  <2>2. \A q \in Peer : ett'[q] = NoEntity <=> ett[q] = NoEntity
    BY <1>1, <1>5, <2>1 DEF Registered
  <2> QED BY <2>2 DEF Registered
<1>8. Started(o)'
  <2>1. /\ created' /\ ntransfers' > 0 /\ ndeletes' = 0 /\ deletes' = {}
        /\ takes' = {} /\ drops' = {} /\ timers' = {}
    BY <1>3 DEF Resting, NoOrders
  <2>2. \A q \in Peer : taking'[q] = NoOrder /\ dropping'[q] = NoOrder /\ queue'[q] = << >>
    BY <1>3 DEF Resting, NoOrders
  <2>3. ASSUME NEW q \in Peer
        PROVE  /\ Registered(q)' => c \in Subscribed[q]
               /\ ownedIn'[q] \subseteq {c} \cap Subscribed[q]
               /\ ownedIn'[q] # {} => Registered(q)' /\ q \in Server
    BY <1>3, <1>7 DEF Resting
  <2>4. o.from = c
    BY <1>2
  <2> QED BY <1>4, <1>6, <2>1, <2>2, <2>3, <2>4 DEF Started, Waiting
<1> QED BY <1>2, <1>8

(* The copies of its orders are on their way to all who listen. *)
LEMMA PublishMoves ==
  ASSUME Settling, TypeOK, FixedInv, NEW o \in Order, Started(o), NEW p \in Peer, PublishOrders(p)
  PROVE  Moving(o)'
<1>1. o # NoOrder
  BY NullsAssumption
<1>2. publishing[p] = o /\ p = OwnerOf[o.from]
  BY DEF Started, PublishOrders
<1>3. /\ takes' = {CopyOf(o, q) : q \in Listeners(o.to)}
      /\ drops' = {CopyOf(o, q) : q \in Listeners(o.from)}
  <2>1. Reached(o.to) = {Listeners(o.to)} /\ Reached(o.from) = {Listeners(o.from)}
    BY DEF Reached, Settling
  <2>2. \E T \in Reached(o.to), D \in Reached(o.from) :
          /\ takes' = takes \cup {[order |-> o, dst |-> q] : q \in T}
          /\ drops' = drops \cup {[order |-> o, dst |-> q] : q \in D}
    BY <1>2 DEF PublishOrders
  <2> QED BY <2>1, <2>2 DEF CopyOf, Started
<1>4. /\ publishing' = [publishing EXCEPT ![p] = NoOrder]
      /\ UNCHANGED <<ett, ownedIn, deletes, timers, taking, dropping, queue, created, ntransfers,
                     ndeletes>>
  BY DEF PublishOrders, entityVars, countVars
<1>5. \A q \in Peer : publishing'[q] = NoOrder
  BY <1>2, <1>4 DEF Started, TypeOK
<1>6. \A q \in Peer : /\ CopyOf(o, q) \in takes' <=> o.to \in Subscribed[q]
                      /\ CopyOf(o, q) \in drops' <=> o.from \in Subscribed[q]
  <2>1. \A q, r \in Peer : CopyOf(o, q) = CopyOf(o, r) => q = r
    BY DEF CopyOf
  <2> QED BY <1>3, <2>1 DEF Listeners, FixedInv
<1>7. /\ timers' = {}
      /\ \A q \in Peer : taking'[q] = NoOrder /\ dropping'[q] = NoOrder /\ queue'[q] = << >>
  BY <1>4 DEF Started
<1>8. ASSUME NEW q \in Peer PROVE Part(o, q)'
  <2>1. DropDue(o, q)' <=> o.from \in Subscribed[q]
    BY <1>6, <1>7 DEF DropDue
  <2>2. /\ Waiting(o, q)' /\ (Registered(q)' <=> Registered(q))
        /\ (Registered(q) => o.from \in Subscribed[q])
    BY <1>4 DEF Started, Waiting, Registered
  <2>3. /\ ownedIn'[q] \subseteq {o.from} \cap Subscribed[q]
        /\ ownedIn'[q] # {} => Registered(q)' /\ q \in Server
    BY <1>4, <2>2 DEF Started
  <2>4. Lists(o, q)'
    BY <1>1, <1>7, <2>1, <2>3 DEF Lists
  <2>5. CASE o.to \in Subscribed[q]
    <3>1. Gets(o, q)'
      BY <1>6, <1>7, <2>2, <2>3, <2>5 DEF Gets
    <3> QED BY <2>4, <2>5, <3>1 DEF Part
  <2>6. CASE o.to \notin Subscribed[q]
    <3>1. o.from \notin Subscribed[q] => ett'[q] = NoEntity
      BY <2>2 DEF Registered
    <3>2. Loses(o, q)'
      BY <1>6, <1>7, <2>1, <2>2, <2>3, <2>6, <3>1 DEF Loses
    <3> QED BY <2>4, <2>6, <3>2 DEF Part
  <2> QED BY <2>5, <2>6
<1>9. created' /\ ntransfers' > 0 /\ ndeletes' = 0 /\ deletes' = {}
  BY <1>4 DEF Started
<1>10. takes' \cup drops' \cup timers' \subseteq {CopyOf(o, q) : q \in Peer}
  BY <1>3, <1>7 DEF Listeners
<1> QED BY <1>5, <1>7, <1>8, <1>9, <1>10 DEF Moving

(* Until they are, nothing else happens to the entity. *)
LEMMA StartedStep ==
  ASSUME Settling, TypeOK, FixedInv, NEW o \in Order, Started(o), NEW p \in Peer, SettlingStep(p)
  PROVE  Stages'
<1>1. ~Quiet
  <2>1. OwnerOf[o.from] \in Peer /\ publishing[OwnerOf[o.from]] # NoOrder
    BY NullsAssumption, ConstantsAssumption DEF Started, Order
  <2> QED BY <2>1 DEF Quiet
<1>2. \A c \in Container : ~RegisterEntity(p, c) /\ ~TransferAuthority(p, c) /\ ~ExecDeleteEntity(p, c)
  BY <1>1 DEF Started, Settling, RegisterEntity, TransferAuthority, ExecDeleteEntity
<1>3. ~SendEntityDeleteOrder(p)
  BY <1>1 DEF Settling, SendEntityDeleteOrder
<1>4. ~UnregisterEntity(p)
  BY DEF Started, Waiting, UnregisterEntity, Registered, Copy
<1>5. PublishOrders(p)
  BY <1>2, <1>3, <1>4 DEF Started, SettlingStep, AdvanceTopLevelExecutorTask, ExecTakeOrder,
     FinishTakeOrder, ExecDropOrder, FireDropOrder, FinishDropOrder
<1> QED BY <1>5, PublishMoves DEF Stages

(* The deletion of an entity at rest: every peer that has a copy listens to the container
   it is in. *)
LEMMA DeletionBegins ==
  ASSUME Settling, TypeOK, FixedInv, NEW c \in Container, Resting(c), NEW p \in Peer,
         SendEntityDeleteOrder(p)
  PROVE  Deleted(c)'
<1>1. /\ Registered(p) /\ ett[p] = Copy(c, FALSE, TRUE) /\ ett[p].owner = c
      /\ p = OwnerOf[c] /\ LocallyOwned(p, c)
  <2>1. Registered(p) /\ LocallyOwned(p, ett[p].owner)
    BY DEF SendEntityDeleteOrder, Settling
  <2> QED BY <2>1, RestingCopy
<1>2. deletes' = {c} \X Listeners(c)
  BY <1>1 DEF SendEntityDeleteOrder, Settling, Reached, Resting
<1>3. /\ ett' = [ett EXCEPT ![p] = Discarded(@)] /\ ndeletes' = ndeletes + 1 /\ ndeletes \in Nat
      /\ UNCHANGED <<publishing, takes, drops, timers, taking, dropping, queue, created>>
  BY DEF SendEntityDeleteOrder, threadVars, TypeOK
<1>4. ett'[p] = Copy(c, TRUE, FALSE) /\ \A q \in Peer : q # p => ett'[q] = ett[q]
  BY <1>1, <1>3 DEF TypeOK, Discarded, Copy
<1>5. \A q \in Peer : q # p /\ Registered(q)' => ett'[q].owner = c /\ <<c, q>> \in deletes'
  BY <1>2, <1>4 DEF Resting, Registered, Copy, Listeners, FixedInv
<1>6. ett'[p].owner = c /\ ~ett'[p].valid
  BY <1>4 DEF Copy
<1>7. created' /\ ndeletes' > 0 /\ NoOrders' /\ deletes' \subseteq {c} \X Peer
  BY <1>2, <1>3 DEF Resting, NoOrders, Listeners
<1>8. \A q \in Peer : queue'[q] = << >>
  BY <1>3 DEF Resting
<1> QED BY <1>1, <1>5, <1>6, <1>7, <1>8 DEF Deleted

LEMMA RestingStep ==
  ASSUME Settling, TypeOK, FixedInv, NEW c \in Container, Resting(c), NEW p \in Peer, SettlingStep(p)
  PROVE  Stages'
<1>1. ~UnregisterEntity(p) /\ \A d \in Container : ~RegisterEntity(p, d)
  BY DEF Resting, UnregisterEntity, RegisterEntity, Registered, Copy
<1>2. (\E to \in Container : TransferAuthority(p, to)) \/ SendEntityDeleteOrder(p)
  BY <1>1, StillSteps DEF Resting
<1> QED BY <1>2, TransferStarts, DeletionBegins DEF Stages

(* The orders of a transfer are carried out: then the entity is at rest where it went. *)
LEMMA MovedRests ==
  ASSUME FixedInv, NEW o \in Order, Moving(o), Quiet
  PROVE  /\ Resting(o.to)
         /\ \A p \in Peer : IF o.to \in Subscribed[p]
                            THEN ett[p] = Copy(o.to, FALSE, TRUE) /\ (p \in Server => o.to \in ownedIn[p])
                            ELSE ett[p] = NoEntity
<1>1. o # NoOrder
  BY NullsAssumption
<1>2. \A p \in Peer : taking[p] = NoOrder /\ dropping[p] = NoOrder /\ queue[p] = << >> /\ ~DropDue(o, p)
  BY DEF Quiet, DropDue
<1>3. \A p \in Peer : CopyOf(o, p) \notin takes
  BY DEF Quiet
<1>4. ASSUME NEW p \in Peer, o.to \in Subscribed[p]
      PROVE  ett[p] = Copy(o.to, FALSE, TRUE) /\ (p \in Server => o.to \in ownedIn[p])
  <2>1. Gets(o, p)
    BY <1>4 DEF Moving, Part
  <2>2. << InstantiateTask(o.to) >> # << >>
    OBVIOUS
  <2> QED BY <1>1, <1>2, <1>3, <2>1, <2>2 DEF Gets
<1>5. ASSUME NEW p \in Peer, o.to \notin Subscribed[p]
      PROVE  ett[p] = NoEntity
  <2>1. Loses(o, p)
    BY <1>5 DEF Moving, Part
  <2>2. << DeleteTask >> # << >>
    OBVIOUS
  <2> QED BY <1>1, <1>2, <2>1, <2>2 DEF Loses
<1>6. \A p \in Peer : /\ ownedIn[p] \subseteq {o.to} \cap Subscribed[p]
                      /\ ownedIn[p] # {} => p \in Server
  BY <1>1, <1>2 DEF Moving, Part, Lists
<1>7. Copy(o.to, FALSE, TRUE) # NoEntity
  BY CopyThere DEF Order
<1>8. Resting(o.to)
  <2>1. created /\ NoOrders /\ deletes = {} /\ ndeletes = 0
    BY DEF Moving, Quiet, NoOrders
  <2> QED BY <1>2, <1>4, <1>5, <1>6, <1>7, <2>1 DEF Resting, Registered
<1> QED BY <1>4, <1>5, <1>8

-----------------------------------------------------------------------------
(* The steps of a transfer.                                                 *)

(* What p does leaves the part of another peer alone. *)
LEMMA PartSame ==
  ASSUME NEW o \in Order, NEW q \in Peer, Part(o, q),
         ett'[q] = ett[q], queue'[q] = queue[q], ownedIn'[q] = ownedIn[q],
         taking'[q] = taking[q], dropping'[q] = dropping[q],
         CopyOf(o, q) \in takes' <=> CopyOf(o, q) \in takes,
         DropDue(o, q)' <=> DropDue(o, q)
  PROVE  Part(o, q)'
<1>1. Lists(o, q)'
  BY DEF Part, Lists, Registered
<1>2. Gets(o, q) => Gets(o, q)'
  BY DEF Gets, Waiting
<1>3. Loses(o, q) => Loses(o, q)'
  BY DEF Loses, Waiting
<1> QED BY <1>1, <1>2, <1>3 DEF Part

(* The orders and the counts that a step of p leaves alone, and its own part. *)
LEMMA MovingKept ==
  ASSUME NEW o \in Order, Moving(o), NEW p \in Peer, Part(o, p)',
         UNCHANGED <<publishing, created, ntransfers, ndeletes, deletes>>,
         \A q \in Peer : q # p =>
           /\ ett'[q] = ett[q] /\ queue'[q] = queue[q] /\ ownedIn'[q] = ownedIn[q]
           /\ taking'[q] = taking[q] /\ dropping'[q] = dropping[q]
           /\ CopyOf(o, q) \in takes' <=> CopyOf(o, q) \in takes
           /\ DropDue(o, q)' <=> DropDue(o, q),
         takes' \subseteq takes, drops' \subseteq drops, timers' \subseteq timers \cup drops,
         drops' \cap timers' = {},
         timers' # {} => o.from # o.to
  PROVE  Moving(o)'
<1>1. \A q \in Peer : Part(o, q)'
  BY PartSame DEF Moving
<1> QED BY <1>1 DEF Moving

LEMMA CopiesDiffer ==
  ASSUME NEW o, NEW p \in Peer, NEW q \in Peer, q # p
  PROVE  CopyOf(o, q) # CopyOf(o, p)
BY DEF CopyOf

LEMMA MovingTakes ==
  ASSUME Settling, TypeOK, FixedInv, NEW o \in Order, Moving(o), NEW p \in Peer,
         NEW m \in takes, ExecTakeOrder(p, m)
  PROVE  Moving(o)'
<1>1. m = CopyOf(o, p) /\ m.order = o
  BY DEF Moving, ExecTakeOrder, CopyOf
<1>2. /\ takes' = takes \ {CopyOf(o, p)}
      /\ taking' = [taking EXCEPT ![p] = o]
      /\ ett' = [ett EXCEPT ![p] = IF @ = NoEntity THEN @ ELSE TakenOver(@, o.to)]
      /\ dropping[p] = NoOrder
      /\ UNCHANGED <<publishing, ownedIn, drops, deletes, timers, dropping, queue, created,
                     ntransfers, ndeletes>>
  BY <1>1 DEF ExecTakeOrder, EntityUnlocked, countVars
<1>3. /\ taking'[p] = o /\ ett'[p] = IF ett[p] = NoEntity THEN NoEntity ELSE TakenOver(ett[p], o.to)
      /\ \A q \in Peer : q # p => taking'[q] = taking[q] /\ ett'[q] = ett[q]
  BY <1>2 DEF TypeOK
<1>4. o.to \in Subscribed[p] /\ Gets(o, p) /\ Lists(o, p)
  BY <1>1 DEF Moving, Part, Loses
<1>5. queue[p] = << >> /\ Waiting(o, p) /\ ownedIn[p] \subseteq {o.from}
  BY <1>1, <1>4 DEF Gets
<1>6. ett'[p] \in {NoEntity, Copy(o.to, FALSE, TRUE)} /\ (Registered(p) => Registered(p)')
  <2>1. ASSUME NEW b \in BOOLEAN
        PROVE  TakenOver(Copy(o.from, b, TRUE), o.to) = Copy(o.to, FALSE, TRUE)
    <3>1. o.from \in Container /\ o.to \in Container
      BY DEF Order
    <3> QED BY <3>1, CopyChanges
  <2>2. Copy(o.to, FALSE, TRUE) # NoEntity
    BY CopyThere DEF Order
  <2> QED BY <1>3, <1>5, <2>1, <2>2 DEF Waiting, Registered
<1>7. Gets(o, p)'
  BY <1>2, <1>3, <1>5, <1>6 DEF Gets
<1>8. Lists(o, p)'
  BY <1>2, <1>4, <1>6 DEF Lists, DropDue
<1>9. Part(o, p)'
  BY <1>4, <1>7, <1>8 DEF Part
<1>10. \A q \in Peer : q # p =>
            /\ CopyOf(o, q) \in takes' <=> CopyOf(o, q) \in takes
            /\ DropDue(o, q)' <=> DropDue(o, q)
  BY <1>2, CopiesDiffer DEF DropDue
<1> QED BY <1>2, <1>3, <1>9, <1>10, MovingKept DEF Moving

LEMMA MovingFinishesTake ==
  ASSUME Settling, TypeOK, FixedInv, NEW o \in Order, Moving(o), NEW p \in Peer, FinishTakeOrder(p)
  PROVE  Moving(o)'
<1>1. taking[p] # NoOrder /\ dropping[p] = NoOrder
  BY DEF FinishTakeOrder, EntityUnlocked
<1>2. o.to \in Subscribed[p] /\ Gets(o, p) /\ Lists(o, p)
  BY <1>1 DEF Moving, Part, Loses
<1>3. /\ taking[p] = o /\ queue[p] = << >> /\ CopyOf(o, p) \notin takes
      /\ ett[p] \in {NoEntity, Copy(o.to, FALSE, TRUE)} /\ ownedIn[p] \subseteq {o.from}
  BY <1>1, <1>2 DEF Gets
<1>4. /\ IF Registered(p) THEN UNCHANGED queue
         ELSE queue' = [queue EXCEPT ![p] = Append(@, InstantiateTask(o.to))]
      /\ ownedIn' = IF p \in Server THEN [ownedIn EXCEPT ![p] = @ \cup {o.to}] ELSE ownedIn
      /\ taking' = [taking EXCEPT ![p] = NoOrder]
      /\ UNCHANGED <<publishing, ett, takes, drops, deletes, timers, dropping, created,
                     ntransfers, ndeletes>>
  BY <1>2, <1>3 DEF FinishTakeOrder, FixedInv, InstantiateTask, netVars, countVars
<1>5. /\ taking'[p] = NoOrder
      /\ p \in Server => o.to \in ownedIn'[p]
      /\ ownedIn'[p] \subseteq ownedIn[p] \cup {o.to}
      /\ p \notin Server => ownedIn'[p] = ownedIn[p]
      /\ \A q \in Peer : q # p => taking'[q] = taking[q] /\ ownedIn'[q] = ownedIn[q] /\ queue'[q] = queue[q]
  BY <1>4 DEF TypeOK
<1>6. \/ queue'[p] = << InstantiateTask(o.to) >> /\ ett'[p] = NoEntity
      \/ queue'[p] = << >> /\ ett'[p] = Copy(o.to, FALSE, TRUE)
  <2>1. CASE Registered(p)
    BY <1>3, <1>4, <2>1 DEF Registered
  <2>2. CASE ~Registered(p)
    <3>1. queue'[p] = Append(<< >>, InstantiateTask(o.to))
      BY <1>3, <1>4, <2>2 DEF TypeOK
    <3> QED BY <1>4, <2>2, <3>1 DEF Registered
  <2> QED BY <2>1, <2>2
<1>7. Gets(o, p)'
  BY <1>3, <1>4, <1>5, <1>6 DEF Gets
<1>8. Lists(o, p)'
  <2>1. o.from \in ownedIn'[p] /\ o.from # o.to => o.from \in ownedIn[p]
    BY <1>5
  <2>2. (DropDue(o, p)' <=> DropDue(o, p)) /\ (Registered(p)' <=> Registered(p)) /\ dropping'[p] = dropping[p]
    BY <1>4 DEF DropDue, Registered
  <2> QED BY <1>2, <1>4, <1>5, <2>1, <2>2 DEF Lists
<1>9. Part(o, p)'
  BY <1>2, <1>7, <1>8 DEF Part
<1>10. \A q \in Peer : (CopyOf(o, q) \in takes' <=> CopyOf(o, q) \in takes) /\ (DropDue(o, q)' <=> DropDue(o, q))
  BY <1>4 DEF DropDue
<1> QED BY <1>4, <1>5, <1>9, <1>10, MovingKept DEF Moving

LEMMA MovingDrops ==
  ASSUME Settling, TypeOK, FixedInv, NEW o \in Order, Moving(o), NEW p \in Peer,
         NEW m \in drops, ExecDropOrder(p, m)
  PROVE  Moving(o)'
<1>1. m = CopyOf(o, p) /\ m.order = o
  BY DEF Moving, ExecDropOrder, CopyOf
<1>2. /\ drops' = drops \ {CopyOf(o, p)} /\ CopyOf(o, p) \in drops
      /\ timers' = IF o.from = o.to THEN timers ELSE timers \cup {CopyOf(o, p)}
      /\ UNCHANGED <<publishing, ett, ownedIn, takes, deletes, taking, dropping, queue, created,
                     ntransfers, ndeletes>>
  BY <1>1 DEF ExecDropOrder, entityVars, countVars
<1>3. \A q \in Peer : q # p => (DropDue(o, q)' <=> DropDue(o, q))
  BY <1>2, CopiesDiffer DEF DropDue
<1>4. DropDue(o, p) /\ Part(o, p)
  BY <1>2 DEF DropDue, Moving
<1>5. Part(o, p)'
  <2>1. CASE o.from # o.to
    <3>1. DropDue(o, p)'
      BY <1>2, <2>1 DEF DropDue
    <3>2. CopyOf(o, p) \in takes' <=> CopyOf(o, p) \in takes
      BY <1>2
    <3> QED BY <1>2, <1>4, <3>1, <3>2, PartSame
  <2>2. CASE o.from = o.to
    <3>1. Lists(o, p) /\ o.to \in Subscribed[p] /\ Gets(o, p)
      BY <1>4, <2>2 DEF Part, Lists
    <3>2. dropping[p] = NoOrder
      BY <2>2, <3>1 DEF Lists
    <3>3. DropDue(o, p)' => DropDue(o, p)
      BY <1>4
    <3>4. Lists(o, p)'
      BY <1>2, <2>2, <3>1, <3>2, <3>3, NullsAssumption DEF Lists
    <3>5. Gets(o, p)'
      BY <1>2, <3>1 DEF Gets, Waiting
    <3> QED BY <3>1, <3>4, <3>5 DEF Part
  <2> QED BY <2>1, <2>2
<1>6. /\ drops' \subseteq drops /\ timers' \subseteq timers \cup drops /\ drops' \cap timers' = {}
      /\ timers' # {} => o.from # o.to
  BY <1>2 DEF Moving
<1> QED BY <1>2, <1>3, <1>5, <1>6, MovingKept

LEMMA MovingFires ==
  ASSUME Settling, TypeOK, FixedInv, NEW o \in Order, Moving(o), NEW p \in Peer,
         NEW m \in timers, FireDropOrder(p, m)
  PROVE  Moving(o)'
<1>1. m = CopyOf(o, p) /\ m.order = o /\ o # NoOrder
  BY NullsAssumption DEF Moving, FireDropOrder, CopyOf
<1>2. /\ timers' = timers \ {CopyOf(o, p)} /\ CopyOf(o, p) \in timers
      /\ CopyOf(o, p) \notin drops /\ o.from # o.to
      /\ dropping[p] = NoOrder
      /\ UNCHANGED <<publishing, ownedIn, takes, drops, deletes, taking, queue, created,
                     ntransfers, ndeletes>>
  BY <1>1 DEF FireDropOrder, EntityUnlocked, Moving, netVars, countVars
<1>3. /\ dropping'[p] = IF Registered(p) THEN o ELSE NoOrder
      /\ ett'[p] = IF Registered(p) /\ o.to \notin Subscribed[p] THEN Discarded(ett[p]) ELSE ett[p]
      /\ \A q \in Peer : q # p => dropping'[q] = dropping[q] /\ ett'[q] = ett[q]
  BY <1>1, <1>2 DEF FireDropOrder, TypeOK, FixedInv
<1>4. DropDue(o, p) /\ ~DropDue(o, p)' /\ \A q \in Peer : q # p => (DropDue(o, q)' <=> DropDue(o, q))
  BY <1>2, CopiesDiffer DEF DropDue
<1>5. Lists(o, p) /\ o.from \in Subscribed[p]
  BY <1>4 DEF Moving, Part, Lists
<1>6. Part(o, p)'
  <2>1. CASE o.to \in Subscribed[p]
    <3>1. Gets(o, p)
      BY <2>1 DEF Moving, Part
    <3>2. ett'[p] = ett[p] /\ (Registered(p)' <=> Registered(p))
      BY <1>3, <2>1 DEF Registered
    <3>3. Gets(o, p)'
      BY <1>2, <3>1, <3>2 DEF Gets, Waiting
    <3>4. Lists(o, p)'
      BY <1>1, <1>2, <1>3, <1>4, <1>5, <3>2 DEF Lists
    <3> QED BY <2>1, <3>3, <3>4 DEF Part
  <2>2. CASE o.to \notin Subscribed[p]
    <3>1. Loses(o, p)
      BY <2>2 DEF Moving, Part
    <3>2. /\ CopyOf(o, p) \notin takes /\ taking[p] = NoOrder /\ ownedIn[p] \subseteq {o.from}
          /\ queue[p] = << >> /\ Waiting(o, p)
      BY <1>1, <1>2, <1>4, <3>1 DEF Loses
    <3>3. ett'[p] = IF Registered(p) THEN Copy(o.from, TRUE, FALSE) ELSE NoEntity
      <4>1. ASSUME NEW b \in BOOLEAN PROVE Discarded(Copy(o.from, b, TRUE)) = Copy(o.from, TRUE, FALSE)
        <5>1. o.from \in Container
          BY DEF Order
        <5> QED BY <5>1, CopyChanges
      <4> QED BY <1>3, <2>2, <3>2, <4>1 DEF Waiting, Registered
    <3>4. Registered(p)' <=> Registered(p)
      <4>1. Copy(o.from, TRUE, FALSE) # NoEntity
        BY CopyThere DEF Order
      <4> QED BY <3>3, <4>1 DEF Registered
    <3>5. Loses(o, p)'
      BY <1>2, <1>3, <1>4, <3>2, <3>3 DEF Loses
    <3>6. Lists(o, p)'
      BY <1>1, <1>2, <1>3, <1>4, <1>5, <3>4 DEF Lists
    <3> QED BY <2>2, <3>5, <3>6 DEF Part
  <2> QED BY <2>1, <2>2
<1>7. \A q \in Peer : CopyOf(o, q) \in takes' <=> CopyOf(o, q) \in takes
  BY <1>2
<1>8. timers' \subseteq timers \cup drops /\ drops' \cap timers' = {} /\ (timers' # {} => o.from # o.to)
  BY <1>2 DEF Moving
<1> QED BY <1>2, <1>3, <1>4, <1>6, <1>7, <1>8, MovingKept

LEMMA MovingFinishesDrop ==
  ASSUME Settling, TypeOK, FixedInv, NEW o \in Order, Moving(o), NEW p \in Peer, FinishDropOrder(p)
  PROVE  Moving(o)'
<1>1. Lists(o, p) /\ o # NoOrder
  BY NullsAssumption DEF Moving, Part
<1>2. /\ dropping[p] = o
      /\ o.from # o.to /\ Registered(p) /\ ~DropDue(o, p)
  BY <1>1 DEF FinishDropOrder, Lists
<1>3. /\ ownedIn' = IF p \in Server THEN [ownedIn EXCEPT ![p] = @ \ {o.from}] ELSE ownedIn
      /\ IF o.to \in Subscribed[p] THEN UNCHANGED queue
         ELSE queue' = [queue EXCEPT ![p] = Append(@, DeleteTask)]
      /\ dropping' = [dropping EXCEPT ![p] = NoOrder]
      /\ UNCHANGED <<publishing, ett, takes, drops, deletes, timers, taking, created, ntransfers,
                     ndeletes>>
  BY <1>2 DEF FinishDropOrder, FixedInv, DeleteTask, netVars, countVars
<1>4. /\ dropping'[p] = NoOrder
      /\ ownedIn'[p] = ownedIn[p] \ {o.from}
      /\ \A q \in Peer : q # p => dropping'[q] = dropping[q] /\ ownedIn'[q] = ownedIn[q] /\ queue'[q] = queue[q]
  BY <1>1, <1>3 DEF TypeOK, Lists
<1>5. \A q \in Peer : /\ DropDue(o, q)' <=> DropDue(o, q)
                      /\ CopyOf(o, q) \in takes' <=> CopyOf(o, q) \in takes
  BY <1>3 DEF DropDue
<1>6. Lists(o, p)'
  BY <1>1, <1>2, <1>3, <1>4, <1>5 DEF Lists
<1>7. Part(o, p)'
  <2>1. CASE o.to \in Subscribed[p]
    <3>1. Gets(o, p)
      BY <2>1 DEF Moving, Part
    <3>2. Gets(o, p)'
      BY <1>2, <1>3, <1>4, <2>1, <3>1 DEF Gets, Waiting
    <3> QED BY <1>6, <2>1, <3>2 DEF Part
  <2>2. CASE o.to \notin Subscribed[p]
    <3>1. Loses(o, p)
      BY <2>2 DEF Moving, Part
    <3>2. /\ CopyOf(o, p) \notin takes /\ taking[p] = NoOrder /\ ownedIn[p] \subseteq {o.from}
          /\ queue[p] = << >> /\ ett[p] = Copy(o.from, TRUE, FALSE)
      BY <1>1, <1>2, <3>1 DEF Loses
    <3>3. queue'[p] = << DeleteTask >>
      <4>1. queue'[p] = Append(<< >>, DeleteTask)
        BY <1>3, <2>2, <3>2 DEF TypeOK
      <4> QED BY <4>1
    <3>4. Loses(o, p)'
      BY <1>2, <1>3, <1>4, <1>5, <3>2, <3>3 DEF Loses
    <3> QED BY <1>6, <2>2, <3>4 DEF Part
  <2> QED BY <2>1, <2>2
<1> QED BY <1>3, <1>4, <1>5, <1>7, MovingKept DEF Moving

(* A peer that loses the entity no longer lists it once it has carried the drop order
   out. *)
LEMMA LostIsUnlisted ==
  ASSUME NEW o \in Order, NEW p \in Peer, Lists(o, p), o.to \notin Subscribed[p],
         ~DropDue(o, p), dropping[p] = NoOrder
  PROVE  ownedIn[p] = {}
BY NullsAssumption DEF Lists

LEMMA MovingAdvances ==
  ASSUME Settling, TypeOK, FixedInv, NEW o \in Order, Moving(o), NEW p \in Peer,
         AdvanceTopLevelExecutorTask(p)
  PROVE  Moving(o)'
<1>1. queue[p] # << >> /\ dropping[p] = NoOrder /\ o # NoOrder
  BY NullsAssumption DEF AdvanceTopLevelExecutorTask, EngineFree, EntityUnlocked
<1>2. /\ ett'[p] = CASE Head(queue[p]).kind = "instantiate" -> Instantiated(ett[p], Head(queue[p]).to)
                     [] Head(queue[p]).kind = "delete" -> Unregistered(ett[p])
                     [] Head(queue[p]).kind = "invalidate" -> Invalidated(ett[p])
      /\ queue'[p] = Tail(queue[p])
      /\ \A q \in Peer : q # p => ett'[q] = ett[q] /\ queue'[q] = queue[q]
      /\ UNCHANGED <<publishing, ownedIn, takes, drops, deletes, timers, taking, dropping,
                     created, ntransfers, ndeletes>>
  BY DEF AdvanceTopLevelExecutorTask, TypeOK, netVars, countVars
<1>3. \A q \in Peer : /\ DropDue(o, q)' <=> DropDue(o, q)
                      /\ CopyOf(o, q) \in takes' <=> CopyOf(o, q) \in takes
  BY <1>2 DEF DropDue
<1>4. Lists(o, p)
  BY DEF Moving, Part
<1>5. Part(o, p)'
  <2>1. CASE o.to \in Subscribed[p]
    <3>1. Gets(o, p)
      BY <2>1 DEF Moving, Part
    <3>2. /\ CopyOf(o, p) \notin takes /\ taking[p] = NoOrder /\ (p \in Server => o.to \in ownedIn[p])
          /\ queue[p] = << InstantiateTask(o.to) >> /\ ett[p] = NoEntity
      BY <1>1, <3>1 DEF Gets
    <3>3. /\ Head(queue[p]) = InstantiateTask(o.to) /\ Tail(queue[p]) = << >>
      BY <3>2
    <3>4. InstantiateTask(o.to).kind = "instantiate" /\ InstantiateTask(o.to).to = o.to
      BY DEF InstantiateTask
    <3>5. ett'[p] = Copy(o.to, FALSE, TRUE) /\ queue'[p] = << >> /\ ett'[p] # NoEntity
      <4>1. Instantiated(NoEntity, o.to) = Copy(o.to, FALSE, TRUE) /\ Copy(o.to, FALSE, TRUE) # NoEntity
        BY CopyThere DEF Instantiated, Copy, Order
      <4> QED BY <1>2, <3>2, <3>3, <3>4, <4>1
    <3>6. Gets(o, p)'
      BY <1>1, <1>2, <3>2, <3>5 DEF Gets
    <3>7. Lists(o, p)'
      BY <1>1, <1>2, <1>3, <1>4, <3>5 DEF Lists, Registered
    <3> QED BY <2>1, <3>6, <3>7 DEF Part
  <2>2. CASE o.to \notin Subscribed[p]
    <3>1. Loses(o, p)
      BY <2>2 DEF Moving, Part
    <3>2. /\ CopyOf(o, p) \notin takes /\ taking[p] = NoOrder
          /\ ownedIn[p] \subseteq {o.from} /\ ~DropDue(o, p)
          /\ queue[p] = << DeleteTask >> /\ ett[p] \in {NoEntity, Copy(o.from, TRUE, FALSE)}
      BY <1>1, <3>1 DEF Loses
    <3>3. Head(queue[p]) = DeleteTask /\ Tail(queue[p]) = << >>
      BY <3>2
    <3>4. ett'[p] = NoEntity /\ queue'[p] = << >>
      <4>1. DeleteTask.kind = "delete"
        BY DEF DeleteTask
      <4>2. Copy(o.from, TRUE, FALSE).valid = FALSE
        BY DEF Copy
      <4>3. Unregistered(ett[p]) = NoEntity
        BY <3>2, <4>2 DEF Unregistered
      <4> QED BY <1>2, <3>3, <4>1, <4>3
    <3>5. ownedIn[p] = {}
      BY <1>1, <1>4, <2>2, <3>2, LostIsUnlisted
    <3>6. Loses(o, p)'
      BY <1>1, <1>2, <1>3, <3>2, <3>4 DEF Loses
    <3>7. Lists(o, p)'
      BY <1>1, <1>2, <1>3, <1>4, <3>2, <3>5 DEF Lists
    <3> QED BY <2>2, <3>6, <3>7 DEF Part
  <2> QED BY <2>1, <2>2
<1> QED BY <1>2, <1>3, <1>5, MovingKept DEF Moving

LEMMA MovingUnregisters ==
  ASSUME Settling, TypeOK, FixedInv, NEW o \in Order, Moving(o), NEW p \in Peer, UnregisterEntity(p)
  PROVE  Moving(o)'
<1>1. /\ dropping[p] = NoOrder /\ o # NoOrder
      /\ Registered(p) /\ ~ett[p].valid
  BY NullsAssumption DEF UnregisterEntity, EngineFree, EntityUnlocked
<1>2. /\ ett'[p] = NoEntity
      /\ \A q \in Peer : q # p => ett'[q] = ett[q]
      /\ UNCHANGED <<publishing, ownedIn, takes, drops, deletes, timers, taking, dropping, queue,
                     created, ntransfers, ndeletes>>
  BY <1>1 DEF UnregisterEntity, Unregistered, TypeOK, netVars, threadVars, countVars
<1>3. \A q \in Peer : /\ DropDue(o, q)' <=> DropDue(o, q)
                      /\ CopyOf(o, q) \in takes' <=> CopyOf(o, q) \in takes
  BY <1>2 DEF DropDue
<1>4. Lists(o, p)
  BY DEF Moving, Part
<1>5. /\ ett[p] # Copy(o.to, FALSE, TRUE) /\ ~Waiting(o, p)
  <2>1. \A b \in BOOLEAN : Copy(o.from, b, TRUE).valid /\ Copy(o.to, b, TRUE).valid
    BY DEF Copy
  <2> QED BY <1>1, <2>1 DEF Waiting, Registered
<1>6. o.to \notin Subscribed[p]
  BY <1>1, <1>5 DEF Moving, Part, Gets, Registered
<1>7. /\ CopyOf(o, p) \notin takes /\ taking[p] = NoOrder
      /\ ownedIn[p] \subseteq {o.from} /\ ~DropDue(o, p)
      /\ queue[p] = << DeleteTask >>
  BY <1>1, <1>5, <1>6 DEF Moving, Part, Loses, Registered
<1>8. ownedIn[p] = {}
  BY <1>1, <1>4, <1>6, <1>7, LostIsUnlisted
<1>9. Loses(o, p)' /\ Lists(o, p)'
  BY <1>1, <1>2, <1>3, <1>4, <1>7, <1>8 DEF Loses, Lists
<1>10. Part(o, p)'
  BY <1>6, <1>9 DEF Part
<1> QED BY <1>2, <1>3, <1>10, MovingKept DEF Moving

LEMMA MovingStep ==
  ASSUME Settling, TypeOK, FixedInv, NEW o \in Order, Moving(o), NEW p \in Peer, SettlingStep(p)
  PROVE  Stages'
<1>1. Moving(o)' => Stages'
  BY DEF Stages
<1>2. ~PublishOrders(p) /\ \A c \in Container : ~RegisterEntity(p, c) /\ ~ExecDeleteEntity(p, c)
  BY DEF PublishOrders, RegisterEntity, ExecDeleteEntity, Moving
<1>3. ASSUME Quiet PROVE Resting(o.to) /\ o.to \in Container
  BY <1>3, MovedRests DEF Order
<1>4. ASSUME NEW to \in Container, TransferAuthority(p, to) PROVE Stages'
  <2>1. Resting(o.to) /\ o.to \in Container
    BY <1>3, <1>4 DEF TransferAuthority, Settling
  <2> QED BY <1>4, <2>1, TransferStarts DEF Stages
<1>5. ASSUME SendEntityDeleteOrder(p) PROVE Stages'
  <2>1. Resting(o.to) /\ o.to \in Container
    BY <1>3, <1>5 DEF SendEntityDeleteOrder, Settling
  <2> QED BY <1>5, <2>1, DeletionBegins DEF Stages
<1>6. ASSUME NEW m \in takes, ExecTakeOrder(p, m) PROVE Moving(o)'
  BY <1>6, MovingTakes
<1>7. ASSUME NEW m \in drops, ExecDropOrder(p, m) PROVE Moving(o)'
  BY <1>7, MovingDrops
<1>8. ASSUME NEW m \in timers, FireDropOrder(p, m) PROVE Moving(o)'
  BY <1>8, MovingFires
<1>9. FinishTakeOrder(p) \/ FinishDropOrder(p) \/ AdvanceTopLevelExecutorTask(p) \/ UnregisterEntity(p)
        => Moving(o)'
  BY MovingFinishesTake, MovingFinishesDrop, MovingAdvances, MovingUnregisters
<1> QED BY <1>1, <1>2, <1>4, <1>5, <1>6, <1>7, <1>8, <1>9 DEF SettlingStep

(* Once the owner's copy is invalid nothing moves the entity any more: the copies become
   invalid one by one and are let go. *)
LEMMA DeletedStep ==
  ASSUME Settling, TypeOK, FixedInv, NEW c \in Container, Deleted(c), NEW p \in Peer, SettlingStep(p)
  PROVE  Deleted(c)'
<1>1. /\ ~PublishOrders(p) /\ ~FinishTakeOrder(p) /\ ~FinishDropOrder(p)
      /\ \A m : m \notin takes \cup drops \cup timers
  BY DEF Deleted, NoOrders, PublishOrders, FinishTakeOrder, FinishDropOrder
<1>2. \A d \in Container : ~RegisterEntity(p, d) /\ ~TransferAuthority(p, d)
  <2>1. ~(Registered(p) /\ LocallyOwned(p, ett[p].owner) /\ ett[p].valid)
    BY DEF Deleted, LocallyOwned
  <2> QED BY <2>1 DEF Deleted, RegisterEntity, TransferAuthority, MayMove
<1>3. ~SendEntityDeleteOrder(p)
  BY DEF Deleted, LocallyOwned, SendEntityDeleteOrder, Settling
<1>4. CASE UnregisterEntity(p)
  <2>1. /\ ett'[p] = NoEntity /\ \A q \in Peer : q # p => ett'[q] = ett[q]
        /\ UNCHANGED <<publishing, takes, drops, timers, taking, dropping, deletes, queue,
                       created, ndeletes>>
    BY <1>4 DEF UnregisterEntity, Unregistered, TypeOK, netVars, threadVars, countVars
  <2> QED BY <2>1 DEF Deleted, NoOrders, Registered
<1>5. CASE AdvanceTopLevelExecutorTask(p)
  <2>1. queue[p] = << InvalidateTask >> /\ Head(queue[p]) = InvalidateTask /\ Tail(queue[p]) = << >>
    <3>1. queue[p] = << InvalidateTask >>
      BY <1>5 DEF Deleted, AdvanceTopLevelExecutorTask
    <3> QED BY <3>1
  <2>2. InvalidateTask.kind = "invalidate"
    BY DEF InvalidateTask
  <2>3. /\ ett'[p] = Invalidated(ett[p]) /\ queue'[p] = << >>
        /\ \A q \in Peer : q # p => ett'[q] = ett[q] /\ queue'[q] = queue[q]
        /\ UNCHANGED <<publishing, takes, drops, timers, taking, dropping, deletes, created, ndeletes>>
    BY <1>5, <2>1, <2>2 DEF AdvanceTopLevelExecutorTask, TypeOK, netVars, countVars
  <2>4. ett'[p] # NoEntity => ett[p] # NoEntity /\ ett'[p].owner = ett[p].owner /\ ~ett'[p].valid
    BY <2>3 DEF Invalidated, TypeOK, Entity
  <2>5. Registered(p)' => ett'[p].owner = c /\ ~ett'[p].valid
    BY <2>4 DEF Deleted, Registered
  <2> QED BY <2>3, <2>5 DEF Deleted, NoOrders, Registered
<1>6. ASSUME NEW d \in Container, ExecDeleteEntity(p, d) PROVE Deleted(c)'
  <2>1. d = c /\ <<c, p>> \in deletes /\ queue[p] = << >>
    BY <1>6 DEF Deleted, ExecDeleteEntity
  <2>2. /\ deletes' = deletes \ {<<c, p>>}
        /\ queue' = [queue EXCEPT ![p] = Append(@, InvalidateTask)]
        /\ UNCHANGED <<publishing, ett, takes, drops, timers, taking, dropping, created, ndeletes>>
    BY <1>6, <2>1 DEF ExecDeleteEntity, InvalidateTask, entityVars, countVars
  <2>3. queue'[p] = << InvalidateTask >> /\ \A q \in Peer : q # p => queue'[q] = queue[q]
    <3>1. queue'[p] = Append(<< >>, InvalidateTask) /\ \A q \in Peer : q # p => queue'[q] = queue[q]
      BY <2>1, <2>2 DEF TypeOK
    <3> QED BY <3>1
  <2>4. ASSUME NEW q \in Peer
        PROVE  /\ queue'[q] \in {<< >>, << InvalidateTask >>}
               /\ queue'[q] # << >> => <<c, q>> \notin deletes'
               /\ Registered(q)' => ett'[q].owner = c
               /\ Registered(q)' /\ ett'[q].valid =>
                    q # OwnerOf[c] /\ (<<c, q>> \in deletes' \/ queue'[q] # << >>)
    <3>1. CASE q = p
      <4>1. queue'[q] = << InvalidateTask >> /\ queue'[q] # << >> /\ <<c, q>> \notin deletes'
        BY <2>2, <2>3, <3>1
      <4>2. Registered(q)' => ett'[q].owner = c /\ (ett'[q].valid => q # OwnerOf[c])
        BY <2>2 DEF Deleted, Registered
      <4> QED BY <4>1, <4>2
    <3>2. CASE q # p
      BY <2>2, <2>3, <3>2 DEF Deleted, Registered
    <3> QED BY <3>1, <3>2
  <2>5. created' /\ ndeletes' > 0 /\ NoOrders' /\ deletes' \subseteq {c} \X Peer
    BY <2>2 DEF Deleted, NoOrders
  <2> QED BY <2>4, <2>5 DEF Deleted
<1> QED BY <1>1, <1>2, <1>3, <1>4, <1>5, <1>6 DEF SettlingStep

LEMMA SettlingKept ==
  ASSUME Settling, TypeOK, SettlingInv, [Next]_vars
  PROVE  SettlingInv'
<1>1. FixedInv' /\ (UNCHANGED vars \/ \E p \in Peer : SettlingStep(p))
  BY SettlingSteps DEF SettlingInv
<1>2. ASSUME UNCHANGED vars PROVE Stages'
  <2>1. /\ UNCHANGED <<ett, ownedIn, takes, drops, deletes, publishing, timers, taking, dropping,
                       queue>>
        /\ UNCHANGED <<created, ntransfers, nchanges, ndeletes>>
    BY <1>2 DEF vars, entityVars, netVars, threadVars, countVars
  <2>2. Uncreated => Uncreated'
    BY <2>1 DEF Uncreated, NoOrders
  <2>3. \A c \in Container : (Resting(c) => Resting(c)') /\ (Deleted(c) => Deleted(c)')
    BY <2>1 DEF Resting, Deleted, NoOrders, Registered
  <2>4. \A o \in Order : Started(o) => Started(o)'
    BY <2>1 DEF Started, Waiting, Registered
  <2>5. ASSUME NEW o \in Order, Moving(o) PROVE Moving(o)'
    <3>1. \A q \in Peer : (DropDue(o, q)' <=> DropDue(o, q)) /\ Part(o, q)
      BY <2>1, <2>5 DEF DropDue, Moving
    <3>2. \A q \in Peer : Part(o, q)'
      BY <2>1, <3>1, PartSame
    <3> QED BY <2>1, <2>5, <3>2 DEF Moving
  <2> QED BY <2>1, <2>2, <2>3, <2>4, <2>5 DEF SettlingInv, Stages
<1>3. ASSUME NEW p \in Peer, SettlingStep(p) PROVE Stages'
  <2>1. Uncreated => Stages'
    BY <1>3, UncreatedStep DEF SettlingInv, Stages
  <2>2. \A c \in Container : Resting(c) => Stages'
    BY <1>3, RestingStep DEF SettlingInv
  <2>3. \A c \in Container : Deleted(c) => Stages'
    BY <1>3, DeletedStep DEF SettlingInv, Stages
  <2>4. \A o \in Order : Started(o) \/ Moving(o) => Stages'
    BY <1>3, StartedStep, MovingStep DEF SettlingInv
  <2> QED BY <2>1, <2>2, <2>3, <2>4 DEF SettlingInv, Stages
<1> QED BY <1>1, <1>2, <1>3 DEF SettlingInv

LEMMA SettlingAlways == ASSUME Settling PROVE Spec => []SettlingInv
<1>1. Init => SettlingInv
  BY SettlingInit
<1>2. TypeOK /\ SettlingInv /\ [Next]_vars => SettlingInv'
  BY SettlingKept
<1> QED BY <1>1, <1>2, TypeCorrect, PTL DEF Spec

(* Once nothing is pending, what the entity went through is over. *)
LEMMA QuietStages ==
  ASSUME SettlingInv, Quiet
  PROVE  \/ Uncreated
         \/ \E c \in Container : (ntransfers = 0 /\ Resting(c)) \/ Deleted(c)
         \/ \E o \in Order : Moving(o) /\ Resting(o.to) /\ o.to \in Container
<1>1. \A o \in Order : Moving(o) => Resting(o.to) /\ o.to \in Container
  BY MovedRests DEF SettlingInv, Order
<1>2. \A o \in Order : ~Started(o)
  BY NullsAssumption, ConstantsAssumption DEF Started, Quiet, Order
<1> QED BY <1>1, <1>2 DEF SettlingInv, Stages

(* Transfers that settle one by one, with nothing lost, between peers that stay
   subscribed, end in agreement: TransferAuthority reaches everyone that listens, the
   take order brings the copy to those that are subscribed to where the entity goes, and
   the drop order removes it from those that are not, and from the list of the container
   it left. *)
THEOREM TransfersAgree == ASSUME Settling PROVE Spec => []SettledAgreement
<1>1. SettlingInv => SettledAgreement
  <2> SUFFICES ASSUME SettlingInv, Quiet, ntransfers > 0, ndeletes = 0
               PROVE  \E c \in Container : \A p \in Peer :
                        /\ Registered(p) <=> c \in containers[p]
                        /\ Registered(p) => ett[p] = Copy(c, FALSE, TRUE)
                        /\ p \in Server => ownedIn[p] = containers[p] \cap {c}
    BY DEF SettledAgreement, Copy
  <2>1. PICK o \in Order : Moving(o) /\ Resting(o.to) /\ o.to \in Container
    BY QuietStages DEF Uncreated, Deleted
  <2>2. \A p \in Peer : IF o.to \in Subscribed[p]
                        THEN ett[p] = Copy(o.to, FALSE, TRUE) /\ (p \in Server => o.to \in ownedIn[p])
                        ELSE ett[p] = NoEntity
    BY <2>1, MovedRests DEF SettlingInv
  <2>3. containers = Subscribed /\ Copy(o.to, FALSE, TRUE) # NoEntity
    BY <2>1, CopyThere DEF SettlingInv, FixedInv
  <2>4. \A p \in Peer : ownedIn[p] \subseteq {o.to} \cap Subscribed[p]
    BY <2>1 DEF Resting
  <2>5. ASSUME NEW p \in Peer
        PROVE  /\ Registered(p) <=> o.to \in containers[p]
               /\ Registered(p) => ett[p] = Copy(o.to, FALSE, TRUE)
    BY <2>2, <2>3 DEF Registered
  <2>6. ASSUME NEW p \in Server, p \in Peer
        PROVE  ownedIn[p] = containers[p] \cap {o.to}
    <3>1. CASE o.to \in Subscribed[p]
      BY <2>2, <2>3, <2>4, <2>6, <3>1
    <3>2. CASE o.to \notin Subscribed[p]
      BY <2>3, <2>4, <2>6, <3>2
    <3> QED BY <3>1, <3>2
  <2> QED BY <2>1, <2>5, <2>6
<1> QED BY <1>1, SettlingAlways, PTL

(* A deletion that has run to its end has reached every copy: Container::DeleteEntity is
   published to all who listen to the container the entity is in, and they are the peers
   that have a copy. *)
THEOREM DeletionIsComplete == ASSUME Settling PROVE Spec => []DeletionReachesAll
<1>1. SettlingInv => DeletionReachesAll
  <2> SUFFICES ASSUME SettlingInv, Quiet, NEW p \in Peer, NEW q \in Peer,
                      Registered(p), ~ett[p].valid
               PROVE  ~(Registered(q) /\ ett[q].valid)
    BY DEF DeletionReachesAll
  <2>1. ~Uncreated
    BY DEF Uncreated, Registered
  <2>2. ASSUME NEW c \in Container, Resting(c) PROVE FALSE
    <3>1. Copy(c, FALSE, TRUE).valid
      BY DEF Copy
    <3> QED BY <2>2, <3>1 DEF Resting, Registered
  <2>3. PICK c \in Container : Deleted(c)
    BY <2>1, <2>2, QuietStages
  <2> QED BY <2>3 DEF Deleted, Quiet
<1> QED BY <1>1, SettlingAlways, PTL

-----------------------------------------------------------------------------
(* The inputs of an entity.                                                 *)

(* The entity moves as without them. *)
LEMMA InputsRefine == ASSUME [InputsNext]_<<vars, inputVars>> PROVE [Next]_vars
BY DEF InputsNext, EntityStep, UploadInputData, HandleInput, ProducerReady, WriteFirst,
   WriteDeferred, ExpireStream

(* The inputs take nothing from the entity and give it nothing: with them it goes
   through what AuthorityTransfer says, and every theorem about Spec is one about
   InputsSpec. *)
LEMMA InputsLeaveEntity == InputsSpec => Spec
<1>1. InputsInit => Init
  BY DEF InputsInit
<1>2. [InputsNext]_<<vars, inputVars>> => [Next]_vars
  BY InputsRefine
<1> QED BY <1>1, <1>2, PTL DEF InputsSpec, Spec

LEMMA InputsSettling == ASSUME Settling PROVE InputsSpec => [](TypeOK /\ SettlingInv)
BY InputsLeaveEntity, TypeCorrect, SettlingAlways, PTL

LEMMA ArrivesTypeOK ==
  ASSUME InputsTypeOK, NEW i \in Input, NEW c \in Container, Arrives(i, HeardBy(c))
  PROVE  inbound' \subseteq Input \X Peer
<1>1. PICK R \in SUBSET Peer : inbound' = inbound \cup ({i} \X R)
  BY DEF Arrives, HeardBy
<1> QED BY <1>1 DEF InputsTypeOK

LEMMA UploadTypeOK ==
  ASSUME TypeOK, InputsTypeOK, NEW p \in Peer, NEW i \in Input, UploadInputData(p, i)
  PROVE  InputsTypeOK'
<1> DEFINE c == ett[p].owner
<1>1. c \in Container
  BY DEF UploadInputData, TypeOK, Registered, Entity
<1>2. pool[p][c] \in Input \cup {NoStream}
  BY <1>1 DEF InputsTypeOK
<1>3. /\ topic' \in [Input -> Container \cup {NoContainer}]
      /\ calm' \subseteq Input /\ got' = got
  BY <1>1 DEF UploadInputData, InputsTypeOK
<1>4. /\ via' \in [Input -> Input \cup {NoStream}]
      /\ pool' \in [Peer -> [Container -> Input \cup {NoStream}]]
      /\ ready' \subseteq Input /\ unwritten' \subseteq Input /\ inbound' \subseteq Input \X Peer
  <2>1. CASE OpenFor(p, c, i)
    BY <1>1, <2>1 DEF OpenFor, InputsTypeOK
  <2>2. CASE Defer(p, c, i)
    BY <1>2, <2>2 DEF Defer, InputsTypeOK
  <2>3. CASE WriteNow(p, c, i)
    BY <1>1, <1>2, <2>3, ArrivesTypeOK DEF WriteNow, InputsTypeOK
  <2> QED BY <2>1, <2>2, <2>3 DEF UploadInputData
<1> QED BY <1>3, <1>4 DEF InputsTypeOK

LEMMA InputsTypeStep ==
  ASSUME TypeOK, TypeOK', InputsTypeOK, [InputsNext]_<<vars, inputVars>>,
         \A i \in unwritten : topic[i] \in Container
  PROVE  InputsTypeOK'
<1>1. CASE EntityStep
  BY <1>1 DEF EntityStep, InputsTypeOK, streamVars
<1>2. ASSUME NEW p \in Peer, NEW i \in Input, HandleInput(p, i) PROVE InputsTypeOK'
  <2>1. got' \in [Peer -> SUBSET Input]
    BY <1>2 DEF HandleInput, InputsTypeOK
  <2> QED BY <1>2, <2>1 DEF HandleInput, InputsTypeOK, streamVars
<1>3. ASSUME NEW i \in Input, ProducerReady(i) \/ WriteFirst(i) \/ WriteDeferred(i)
      PROVE  InputsTypeOK'
  <2>1. CASE ProducerReady(i)
    BY <2>1 DEF ProducerReady, InputsTypeOK
  <2>2. CASE WriteFirst(i)
    BY <2>2, ArrivesTypeOK DEF WriteFirst, InputsTypeOK
  <2>3. CASE WriteDeferred(i)
    BY <2>3, ArrivesTypeOK DEF WriteDeferred, InputsTypeOK
  <2> QED BY <1>3, <2>1, <2>2, <2>3
<1>4. ASSUME NEW p \in Peer, NEW c \in Container, ExpireStream(p, c) PROVE InputsTypeOK'
  BY <1>4 DEF ExpireStream, InputsTypeOK
<1>5. CASE UNCHANGED <<vars, inputVars>>
  BY <1>5 DEF inputVars, streamVars, InputsTypeOK
<1> QED BY <1>1, <1>2, <1>3, <1>4, <1>5, UploadTypeOK DEF InputsNext

(* The entity is in c: whoever is subscribed to c has it, nobody else. *)
Agreed(c) ==
  \A p \in Peer : ett[p] = IF c \in Subscribed[p] THEN Copy(c, FALSE, TRUE) ELSE NoEntity

(* Where input i is: it waits for its stream, is on its way to p, or has reached the
   copy of p. *)
Somewhere(i, p) == i \in unwritten \/ <<i, p>> \in inbound \/ i \in got[p]

(* An input that nothing has crossed goes to the container that the entity is in, and is
   not lost on its way to the owner of that container. *)
CalmInv ==
  /\ calm # {} => Settled
  /\ \A i \in calm, c \in Container :
       Agreed(c) => topic[i] = c /\ Somewhere(i, OwnerOf[c])

TopicsInv == \A i \in unwritten : topic[i] \in Container

InputsIInv == InputsTypeOK /\ TopicsInv /\ CalmInv

LEMMA SettledAgrees ==
  ASSUME SettlingInv, Settled
  PROVE  created /\ \E c \in Container : Agreed(c)
<1>1. PICK o \in Order : Moving(o) /\ o.to \in Container
  BY QuietStages DEF Settled, Uncreated, Deleted
<1>2. Agreed(o.to)
  BY <1>1, MovedRests DEF SettlingInv, Settled, Agreed
<1> QED BY <1>1, <1>2 DEF Moving

(* The owner of the container has authority. *)
LEMMA AgreedAuthority ==
  ASSUME FixedInv, NEW c \in Container, Agreed(c)
  PROVE  OwnerOf[c] \in Peer /\ HasAuthority(OwnerOf[c])
<1>1. OwnerOf[c] \in Peer /\ c \in Subscribed[OwnerOf[c]]
  BY ConstantsAssumption
<1>2. ett[OwnerOf[c]] = Copy(c, FALSE, TRUE)
  BY <1>1 DEF Agreed
<1> QED BY <1>1, <1>2, CopyThere DEF HasAuthority, Registered, LocallyOwned, FixedInv

(* When the entity is settled, only the next transfer or deletion changes anything. *)
LEMMA SettledStep ==
  ASSUME Settling, TypeOK, SettlingInv, Settled, [Next]_vars,
         ntransfers' = ntransfers, ndeletes' = ndeletes
  PROVE  UNCHANGED vars
<1> SUFFICES ASSUME NEW p \in Peer, SettlingStep(p) PROVE FALSE
  BY SettlingSteps DEF SettlingInv
<1>1. PICK c \in Container : Agreed(c)
  BY SettledAgrees
<1>2. ~UnregisterEntity(p) /\ \A d \in Container : ~RegisterEntity(p, d)
  BY <1>1, SettledAgrees, CopyThere DEF UnregisterEntity, RegisterEntity, Registered, Agreed
<1>3. \A d \in Container : ~TransferAuthority(p, d)
  BY DEF TransferAuthority, TypeOK
<1>4. ~SendEntityDeleteOrder(p)
  BY DEF SendEntityDeleteOrder, TypeOK
<1>5. NoOrders /\ deletes = {} /\ \A q \in Peer : queue[q] = << >>
  BY DEF Settled, Quiet, NoOrders
<1> QED BY <1>2, <1>3, <1>4, <1>5, StillSteps

(* What is written on the topic of c reaches its owner, which listens to it. *)
LEMMA ArrivesAtOwner ==
  ASSUME Settling, FixedInv, NEW i \in Input, NEW c \in Container, Arrives(i, HeardBy(c))
  PROVE  <<i, OwnerOf[c]>> \in inbound' /\ inbound \subseteq inbound'
<1>1. inbound' = inbound \cup ({i} \X HeardBy(c))
  BY DEF Arrives, Settling
<1>2. OwnerOf[c] \in HeardBy(c)
  BY ConstantsAssumption DEF HeardBy, FixedInv
<1> QED BY <1>1, <1>2

LEMMA TopicsStep ==
  ASSUME TypeOK, InputsTypeOK, TopicsInv, [InputsNext]_<<vars, inputVars>>
  PROVE  TopicsInv'
<1>1. CASE EntityStep
  BY <1>1 DEF EntityStep, TopicsInv, streamVars
<1>2. ASSUME NEW p \in Peer, NEW i \in Input, UploadInputData(p, i) PROVE TopicsInv'
  <2>1. ett[p].owner \in Container
    BY <1>2 DEF UploadInputData, TypeOK, Registered, Entity
  <2>2. unwritten' \subseteq unwritten \cup {i}
    BY <1>2 DEF UploadInputData, OpenFor, Defer, WriteNow
  <2>3. topic' = [topic EXCEPT ![i] = ett[p].owner]
    BY <1>2 DEF UploadInputData
  <2> QED BY <2>1, <2>2, <2>3 DEF TopicsInv, InputsTypeOK
<1>3. ASSUME NEW p \in Peer, NEW i \in Input, HandleInput(p, i) PROVE TopicsInv'
  BY <1>3 DEF HandleInput, TopicsInv, streamVars
<1>4. ASSUME NEW i \in Input, ProducerReady(i) \/ WriteFirst(i) \/ WriteDeferred(i)
      PROVE  TopicsInv'
  BY <1>4 DEF ProducerReady, WriteFirst, WriteDeferred, TopicsInv
<1>5. ASSUME NEW p \in Peer, NEW c \in Container, ExpireStream(p, c) PROVE TopicsInv'
  BY <1>5 DEF ExpireStream, TopicsInv
<1>6. CASE UNCHANGED <<vars, inputVars>>
  BY <1>6 DEF inputVars, streamVars, TopicsInv
<1> QED BY <1>1, <1>2, <1>3, <1>4, <1>5, <1>6 DEF InputsNext

(* What a step that leaves the entity alone has to show. *)
LEMMA CalmSame ==
  ASSUME CalmInv, UNCHANGED vars, calm' \subseteq calm,
         \A i \in calm, c \in Container :
           Agreed(c) => topic'[i] = c /\ Somewhere(i, OwnerOf[c])'
  PROVE  CalmInv'
<1>1. Settled' <=> Settled
  BY DEF Settled, Quiet, vars, netVars, threadVars, subVars, countVars
<1>2. \A c \in Container : Agreed(c)' <=> Agreed(c)
  BY DEF Agreed, vars, entityVars
<1> QED BY <1>1, <1>2 DEF CalmInv

LEMMA EntityCalm ==
  ASSUME Settling, TypeOK, SettlingInv, InputsTypeOK, CalmInv, EntityStep
  PROVE  CalmInv'
<1>1. CASE calm' = {}
  BY <1>1 DEF CalmInv
<1>2. CASE calm' # {}
  <2>1. ntransfers' = ntransfers /\ ndeletes' = ndeletes /\ calm' = calm /\ Settled
    BY <1>2 DEF EntityStep, CalmInv
  <2>2. UNCHANGED vars
    BY <2>1, SettledStep DEF EntityStep
  <2>3. ASSUME NEW i \in calm, NEW c \in Container, Agreed(c)
        PROVE  topic'[i] = c /\ Somewhere(i, OwnerOf[c])'
    <3>1. OwnerOf[c] \in Peer /\ ett[OwnerOf[c]] # NoEntity
      BY <2>3, AgreedAuthority DEF SettlingInv, HasAuthority, Registered
    <3>2. got'[OwnerOf[c]] = got[OwnerOf[c]]
      BY <2>2, <3>1 DEF EntityStep, InputsTypeOK, vars, entityVars
    <3>3. UNCHANGED <<topic, unwritten, inbound>>
      BY DEF EntityStep, streamVars
    <3> QED BY <2>3, <3>2, <3>3 DEF CalmInv, Somewhere
  <2> QED BY <2>1, <2>2, <2>3, CalmSame
<1> QED BY <1>1, <1>2

LEMMA UploadCalm ==
  ASSUME Settling, TypeOK, SettlingInv, InputsTypeOK, CalmInv,
         NEW p \in Peer, NEW i \in Input, UploadInputData(p, i)
  PROVE  CalmInv'
<1>0. PICK d \in Container : d = ett[p].owner
  BY DEF UploadInputData, TypeOK, Registered, Entity
<1>1. UNCHANGED <<vars, got>> /\ topic' = [topic EXCEPT ![i] = d] /\ topic[i] = NoContainer
  BY <1>0 DEF UploadInputData
<1>2. OpenFor(p, d, i) \/ Defer(p, d, i) \/ WriteNow(p, d, i)
  BY <1>0 DEF UploadInputData
<1>3. /\ unwritten \subseteq unwritten' /\ inbound \subseteq inbound'
      /\ Somewhere(i, OwnerOf[d])'
  <2>1. CASE OpenFor(p, d, i) \/ Defer(p, d, i)
    BY <2>1 DEF OpenFor, Defer, Somewhere
  <2>2. CASE WriteNow(p, d, i)
    BY <2>2, ArrivesAtOwner DEF WriteNow, Somewhere, SettlingInv
  <2> QED BY <1>2, <2>1, <2>2
<1>4. \A c \in Container : Agreed(c) => d = c
  BY <1>0, CopyThere DEF Agreed, UploadInputData, Registered
<1>5. ASSUME NEW j \in calm \cup {i}, NEW c \in Container, Agreed(c)
      PROVE  topic'[j] = c /\ Somewhere(j, OwnerOf[c])'
  <2>1. CASE j = i
    BY <1>1, <1>3, <1>4, <1>5, <2>1 DEF InputsTypeOK
  <2>2. CASE j # i
    <3>1. topic[j] = c /\ Somewhere(j, OwnerOf[c])
      BY <1>5, <2>2 DEF CalmInv
    <3>2. topic'[j] = topic[j]
      BY <1>1, <1>5, <2>2 DEF InputsTypeOK
    <3> QED BY <1>1, <1>3, <3>1, <3>2 DEF Somewhere
  <2> QED BY <2>1, <2>2
<1>6. Settled' <=> Settled
  BY <1>1 DEF Settled, Quiet, vars, netVars, threadVars, subVars, countVars
<1>7. \A c \in Container : Agreed(c)' <=> Agreed(c)
  BY <1>1 DEF Agreed, vars, entityVars
<1>8. calm' = IF Settled THEN calm \cup {i} ELSE calm
  BY DEF UploadInputData
<1> QED BY <1>5, <1>6, <1>7, <1>8 DEF CalmInv

LEMMA WriteCalm ==
  ASSUME Settling, SettlingInv, CalmInv, TopicsInv,
         NEW i \in Input, WriteFirst(i) \/ WriteDeferred(i)
  PROVE  CalmInv'
<1>1. /\ i \in unwritten /\ unwritten' = unwritten \ {i}
      /\ Arrives(i, HeardBy(topic[i]))
      /\ UNCHANGED <<vars, topic, got, calm>>
  BY DEF WriteFirst, WriteDeferred
<1>2. <<i, OwnerOf[topic[i]]>> \in inbound' /\ inbound \subseteq inbound'
  BY <1>1, ArrivesAtOwner DEF TopicsInv, SettlingInv
<1>3. ASSUME NEW j \in calm, NEW c \in Container, Agreed(c)
      PROVE  topic'[j] = c /\ Somewhere(j, OwnerOf[c])'
  <2>1. topic[j] = c /\ Somewhere(j, OwnerOf[c])
    BY <1>3 DEF CalmInv
  <2> QED BY <1>1, <1>2, <2>1 DEF Somewhere
<1> QED BY <1>1, <1>3, CalmSame

LEMMA HandleCalm ==
  ASSUME SettlingInv, InputsTypeOK, CalmInv, NEW p \in Peer, NEW i \in Input, HandleInput(p, i)
  PROVE  CalmInv'
<1>1. /\ inbound' = inbound \ {<<i, p>>}
      /\ got' = IF Registered(p) THEN [got EXCEPT ![p] = @ \cup {i}] ELSE got
      /\ UNCHANGED <<vars, topic, unwritten, calm>>
  BY DEF HandleInput, streamVars
<1>2. ASSUME NEW j \in calm, NEW c \in Container, Agreed(c)
      PROVE  topic'[j] = c /\ Somewhere(j, OwnerOf[c])'
  <2>1. topic[j] = c /\ Somewhere(j, OwnerOf[c])
    BY <1>2 DEF CalmInv
  <2>2. OwnerOf[c] \in Peer /\ Registered(OwnerOf[c])
    BY <1>2, AgreedAuthority DEF SettlingInv, HasAuthority
  <2>3. /\ got[OwnerOf[c]] \subseteq got'[OwnerOf[c]]
        /\ p = OwnerOf[c] => i \in got'[OwnerOf[c]]
    BY <1>1, <2>2 DEF InputsTypeOK
  <2>4. <<j, OwnerOf[c]>> \in inbound => <<j, OwnerOf[c]>> \in inbound' \/ (j = i /\ p = OwnerOf[c])
    BY <1>1
  <2> QED BY <1>1, <2>1, <2>3, <2>4 DEF Somewhere
<1> QED BY <1>1, <1>2, CalmSame

LEMMA CalmStep ==
  ASSUME Settling, TypeOK, SettlingInv, InputsIInv, [InputsNext]_<<vars, inputVars>>
  PROVE  CalmInv'
<1> USE DEF InputsIInv
<1>1. ASSUME UNCHANGED <<vars, topic, unwritten, inbound, got, calm>> PROVE CalmInv'
  BY <1>1, CalmSame DEF CalmInv, Somewhere
<1>2. ASSUME NEW i \in Input, ProducerReady(i) PROVE CalmInv'
  BY <1>1, <1>2 DEF ProducerReady
<1>3. ASSUME NEW p \in Peer, NEW c \in Container, ExpireStream(p, c) PROVE CalmInv'
  BY <1>1, <1>3 DEF ExpireStream
<1>4. CASE UNCHANGED <<vars, inputVars>>
  BY <1>1, <1>4 DEF inputVars, streamVars
<1> QED BY <1>2, <1>3, <1>4, EntityCalm, UploadCalm, WriteCalm, HandleCalm DEF InputsNext

(* An input uploaded while the entity is settled reaches the server that plays it,
   whatever stream carries it, if no transfer or deletion begins meanwhile: the
   container it is sent to is that of every copy, and its owner listens there and has
   the copy with authority. *)
THEOREM InputsArrive == ASSUME Settling PROVE InputsSpec => []InputsInv
<1>1. InputsInit => InputsIInv
  BY DEF InputsInit, InputsIInv, InputsTypeOK, TopicsInv, CalmInv
<1>2. TypeOK /\ TypeOK' /\ SettlingInv /\ InputsIInv /\ [InputsNext]_<<vars, inputVars>>
        => InputsIInv'
  BY InputsTypeStep, TopicsStep, CalmStep DEF InputsIInv, TopicsInv
<1>3. SettlingInv /\ InputsIInv => InputsInv
  <2> SUFFICES ASSUME SettlingInv, InputsIInv, NEW i \in calm, Delivered(i)
               PROVE  \E p \in Peer : HasAuthority(p) /\ i \in got[p]
    BY DEF InputsInv, InputsIInv, InputsReachAuthority
  <2>1. PICK c \in Container : Agreed(c)
    BY SettledAgrees DEF InputsIInv, CalmInv
  <2>2. OwnerOf[c] \in Peer /\ HasAuthority(OwnerOf[c])
    BY <2>1, AgreedAuthority DEF SettlingInv
  <2>3. Somewhere(i, OwnerOf[c])
    BY <2>1 DEF InputsIInv, CalmInv
  <2> QED BY <2>2, <2>3 DEF Delivered, Somewhere
<1> QED BY <1>1, <1>2, <1>3, InputsSettling, PTL DEF InputsSpec

=============================================================================
