-------------------------- MODULE SubscriptionsProofs --------------------------
(* TypeOK and ChangesArrive of Subscriptions, for any clients, grapes, containers
   and changes. *)
EXTENDS Subscriptions, TLAPS

(* No method runs for a call that was not made. *)
RunsAfterCall == \A c \in Call : status[c] = "idle" => runs[c][To[c]] = 0

(* What ChangesArrive says of one pair, and that a peer with changes of a calm pair
   under way can carry them out: a grape's node has joined and fetched before. *)
Arrives(p, k) ==
  /\ \A c \in UnderWay(p, k) : On[c] <=> k \in tracked[p]
  /\ UnderWay(p, k) = {} => Agreed(p, k)
  /\ UnderWay(p, k) # {} => Reachable(p)

CalmInv == \A p \in Peer, k \in Container : <<p, k>> \in calm => Arrives(p, k)

IInv == TypeOK /\ RunsAfterCall /\ CalmInv

-----------------------------------------------------------------------------

LEMMA InitIInv == ASSUME Init PROVE IInv
<1> USE ConstantsAssumption
<1>1. TypeOK
  BY DEF Init, TypeOK, Rpc!Init, Peer
<1>2. RunsAfterCall
  BY DEF Init, RunsAfterCall, Rpc!Init, Peer
<1>3. CalmInv
  <2> SUFFICES ASSUME NEW p \in Peer, NEW k \in Container PROVE Arrives(p, k)
    BY DEF CalmInv
  <2>1. UnderWay(p, k) = {}
    BY DEF Init, UnderWay, Pending, Rpc!Init
  <2>2. Agreed(p, k)
    BY DEF Init, Agreed
  <2> QED BY <2>1, <2>2 DEF Arrives
<1> QED BY <1>1, <1>2, <1>3 DEF IInv

-----------------------------------------------------------------------------
(* Types.                                                                   *)

LEMMA AfterType ==
  ASSUME NEW S \in SUBSET Container, NEW k \in Container, NEW on \in BOOLEAN
  PROVE  After(S, k, on) \in SUBSET Container /\ (k \in After(S, k, on) <=> on)
BY DEF After

LEMMA TypeStep == ASSUME TypeOK, [Next]_vars PROVE TypeOK'
<1> USE ConstantsAssumption
<1>1. ASSUME NEW k \in Container, CreateContainer(k) PROVE TypeOK'
  BY <1>1 DEF TypeOK, CreateContainer, callVars, peerVars
<1>2. ASSUME NEW p \in Client, RegisterClient(p) PROVE TypeOK'
  BY <1>2 DEF TypeOK, RegisterClient, callVars, peerVars
<1>3. ASSUME NEW p \in Client, ForgetClient(p) PROVE TypeOK'
  BY <1>3 DEF TypeOK, ForgetClient, callVars, peerVars
<1>4. ASSUME NEW g \in Grape, RegisterRemoteGrape(g) PROVE TypeOK'
  BY <1>4 DEF TypeOK, RegisterRemoteGrape, callVars, peerVars
<1>5. ASSUME NEW g \in Grape, Join(g) PROVE TypeOK'
  BY <1>5 DEF TypeOK, Join, callVars, serverVars
<1>6. ASSUME NEW g \in Grape, FetchExistingContainers(g) PROVE TypeOK'
  <2>1. PICK list \in {owned, {}} : subscriptions' = [subscriptions EXCEPT ![g] = @ \cup list]
    BY <1>6 DEF FetchExistingContainers
  <2>2. subscriptions' \in [Peer -> SUBSET Container]
    BY <2>1 DEF TypeOK, Peer
  <2>3. calm' \subseteq Peer \X Container
    BY <1>6 DEF TypeOK, FetchExistingContainers
  <2> QED BY <1>6, <2>2, <2>3 DEF TypeOK, FetchExistingContainers, callVars, serverVars
<1>7. ASSUME NEW c \in Call, ChangeClient(c) PROVE TypeOK'
  <2>1. tracked' \in [Peer -> SUBSET Container] /\ calm' \subseteq Peer \X Container
    BY <1>7, AfterType DEF TypeOK, ChangeClient, Ordered
  <2>2. To[c] \in Client
    BY <1>7 DEF TypeOK, ChangeClient
  <2> QED BY <1>7, <2>1, <2>2 DEF TypeOK, ChangeClient, Unused, callVars, peerVars
<1>8. ASSUME NEW c \in Call, SetRemoteGrapeSubscription(c) PROVE TypeOK'
  <2>1. tracked' \in [Peer -> SUBSET Container] /\ calm' \subseteq Peer \X Container
    BY <1>8, AfterType DEF TypeOK, SetRemoteGrapeSubscription, Ordered
  <2>2. \A d \in queued : d # c
    BY <1>8 DEF SetRemoteGrapeSubscription, Unused
  <2> QED BY <1>8, <2>1, <2>2
          DEF TypeOK, SetRemoteGrapeSubscription, Rpc!Issue, peerVars
<1>9. ASSUME NEW c \in Call, CallClient(c) PROVE TypeOK'
  BY <1>9 DEF TypeOK, CallClient, Rpc!Issue, serverVars, peerVars
<1>10. ASSUME NEW c \in Call, CallEnds(c) PROVE TypeOK'
  BY <1>10 DEF TypeOK, CallEnds, CallReturns, CallFails, Rpc!Return, Rpc!Fail,
               serverVars, peerVars
<1>11. ASSUME NEW c \in Call, RunOnClient(c) PROVE TypeOK'
  <2>1. subscriptions' \in [Peer -> SUBSET Container]
    BY <1>11, AfterType DEF TypeOK, RunOnClient, Carried
  <2>2. runs' \in [Call -> [Peer -> 0 .. 1]]
    BY <1>11 DEF TypeOK, RunOnClient, Answer, Rpc!Run
  <2>3. \A d \in Call : runs[d][To[d]] = 1 => runs'[d][To[d]] = 1
    BY <1>11 DEF TypeOK, RunOnClient, Answer, Rpc!Run
  <2> QED BY <1>11, <2>1, <2>2, <2>3
          DEF TypeOK, RunOnClient, Answer, Rpc!Run, serverVars
<1>12. ASSUME NEW c \in Call, RunOnGrape(c) PROVE TypeOK'
  <2>1. runs' \in [Call -> [Peer -> 0 .. 1]] /\ runs'[c][To[c]] = 1
    BY <1>12 DEF TypeOK, RunOnGrape, Answer, Rpc!Run
  <2>2. \A d \in Call : runs[d][To[d]] = 1 => runs'[d][To[d]] = 1
    BY <1>12 DEF TypeOK, RunOnGrape, Answer, Rpc!Run
  <2> QED BY <1>12, <2>1, <2>2
          DEF TypeOK, RunOnGrape, Answer, Rpc!Run, serverVars
<1>13. ASSUME NEW c \in Call, RunTask(c) PROVE TypeOK'
  <2>1. subscriptions' \in [Peer -> SUBSET Container]
    BY <1>13, AfterType DEF TypeOK, RunTask, Carried
  <2> QED BY <1>13, <2>1 DEF TypeOK, RunTask, serverVars, callVars
<1>14. CASE UNCHANGED vars
  BY <1>14 DEF TypeOK, vars, serverVars, callVars, peerVars
<1> QED BY <1>1, <1>2, <1>3, <1>4, <1>5, <1>6, <1>7, <1>8, <1>9, <1>10, <1>11, <1>12,
           <1>13, <1>14 DEF Next, Idle

-----------------------------------------------------------------------------
(* Calls.                                                                   *)

LEMMA RunsStep == ASSUME TypeOK, RunsAfterCall, [Next]_vars PROVE RunsAfterCall'
<1> USE ConstantsAssumption
<1>1. ASSUME NEW c \in Call, Rpc!Issue(c) PROVE RunsAfterCall'
  BY <1>1 DEF RunsAfterCall, TypeOK, Rpc!Issue
<1>2. ASSUME NEW c \in Call, CallEnds(c) PROVE RunsAfterCall'
  BY <1>2 DEF RunsAfterCall, TypeOK, CallEnds, CallReturns, CallFails, Rpc!Return, Rpc!Fail
<1>3. ASSUME NEW c \in Call, Rpc!Run(c, To[c]) PROVE RunsAfterCall'
  BY <1>3 DEF RunsAfterCall, TypeOK, Rpc!Run
<1>4. CASE UNCHANGED callVars
  BY <1>4 DEF RunsAfterCall, callVars
<1> QED
  BY <1>1, <1>2, <1>3, <1>4
  DEF Next, Idle, vars, CreateContainer, RegisterClient, ForgetClient, RegisterRemoteGrape,
      Join, FetchExistingContainers, ChangeClient, SetRemoteGrapeSubscription, CallClient,
      RunOnClient, RunOnGrape, Answer, RunTask

-----------------------------------------------------------------------------
(* Calm pairs.                                                              *)

(* A step that leaves alone what Arrives says of a pair. *)
LEMMA Kept ==
  ASSUME NEW p \in Peer, NEW k \in Container, Arrives(p, k),
         \A c \in Call : To[c] = p /\ Of[c] = k => (Pending(c)' <=> Pending(c)),
         k \in tracked'[p] <=> k \in tracked[p],
         k \in subscriptions'[p] <=> k \in subscriptions[p],
         Reachable(p) => Reachable(p)'
  PROVE  Arrives(p, k)'
<1>1. UnderWay(p, k)' = UnderWay(p, k)
  BY DEF UnderWay
<1>2. Agreed(p, k)' <=> Agreed(p, k)
  BY DEF Agreed
<1> QED BY <1>1, <1>2 DEF Arrives

(* A change that is recorded: the others of its pair are as they were. *)
LEMMA OrderedArrives ==
  ASSUME TypeOK, CalmInv, NEW c \in Call, Unused(c), RunsAfterCall, Ordered(c), Pending(c)',
         \A d \in Call \ {c} : Pending(d)' <=> Pending(d),
         UNCHANGED peerVars
  PROVE  CalmInv'
<1> USE ConstantsAssumption
<1> SUFFICES ASSUME NEW p \in Peer, NEW k \in Container, (<<p, k>> \in calm)'
             PROVE  Arrives(p, k)'
  BY DEF CalmInv
<1>0. Reachable(p) <=> Reachable(p)'
  BY DEF Reachable, peerVars
<1>1. CASE p = To[c] /\ k = Of[c]
  <2>1. Reachable(p) /\ UnderWay(p, k) = {}
    BY <1>1 DEF Ordered
  <2>2. UnderWay(p, k)' = {c}
    BY <1>1, <2>1 DEF UnderWay
  <2>3. tracked'[p] = After(tracked[p], k, On[c])
    BY <1>1 DEF Ordered, TypeOK
  <2>4. On[c] <=> k \in tracked'[p]
    BY <2>3 DEF After
  <2> QED BY <1>0, <2>1, <2>2, <2>4 DEF Arrives
<1>2. CASE ~(p = To[c] /\ k = Of[c])
  <2>1. <<p, k>> \in calm
    BY <1>2 DEF Ordered
  <2>2. \A d \in Call : To[d] = p /\ Of[d] = k => (Pending(d)' <=> Pending(d))
    BY <1>2
  <2>3. k \in tracked'[p] <=> k \in tracked[p]
    BY <1>2 DEF Ordered, TypeOK, After
  <2>4. subscriptions' = subscriptions
    BY DEF peerVars
  <2>5. Arrives(p, k)
    BY <2>1 DEF CalmInv
  <2> QED BY <1>0, <2>2, <2>3, <2>4, <2>5, Kept
<1> QED BY <1>1, <1>2

(* A change that is carried out: its peer has what the change says. *)
LEMMA CarriedArrives ==
  ASSUME TypeOK, CalmInv, NEW c \in Call, Pending(c), ~Pending(c)',
         \A d \in Call \ {c} : Pending(d)' <=> Pending(d),
         IF To[c] \in Client \cup joined THEN Carried(c) ELSE UNCHANGED subscriptions,
         UNCHANGED <<tracked, joined, fetching, calm>>
  PROVE  CalmInv'
<1> USE ConstantsAssumption
<1> SUFFICES ASSUME NEW p \in Peer, NEW k \in Container, <<p, k>> \in calm
             PROVE  Arrives(p, k)'
  BY DEF CalmInv
<1>0. Reachable(p) <=> Reachable(p)'
  BY DEF Reachable
<1>1. Arrives(p, k)
  BY DEF CalmInv
<1>2. CASE p = To[c] /\ k = Of[c]
  <2>1. c \in UnderWay(p, k)
    BY <1>2 DEF UnderWay
  <2>2. Reachable(p) /\ (On[c] <=> k \in tracked[p])
    BY <1>1, <2>1 DEF Arrives
  <2>3. subscriptions'[p] = After(subscriptions[p], k, On[c])
    BY <1>2, <2>2 DEF Carried, TypeOK, Reachable, Peer
  <2>4. Agreed(p, k)'
    BY <2>2, <2>3 DEF Agreed, After
  <2>5. UnderWay(p, k)' \subseteq UnderWay(p, k)
    BY <1>2 DEF UnderWay
  <2>6. \A d \in UnderWay(p, k)' : On[d] <=> k \in tracked'[p]
    BY <1>1, <2>5 DEF Arrives
  <2> QED BY <1>0, <2>2, <2>4, <2>6 DEF Arrives
<1>3. CASE ~(p = To[c] /\ k = Of[c])
  <2>1. \A d \in Call : To[d] = p /\ Of[d] = k => (Pending(d)' <=> Pending(d))
    BY <1>3
  <2>2. k \in subscriptions'[p] <=> k \in subscriptions[p]
    BY <1>3 DEF Carried, TypeOK, After
  <2> QED BY <1>0, <1>1, <2>1, <2>2, Kept
<1> QED BY <1>2, <1>3

LEMMA CalmStep == ASSUME IInv, TypeOK', [Next]_vars PROVE CalmInv'
<1> USE ConstantsAssumption
<1>0. TypeOK /\ RunsAfterCall /\ CalmInv
  BY DEF IInv
<1>1. ASSUME UNCHANGED <<tracked, subscriptions, joined, fetching>>, calm' \subseteq calm,
             \A c \in Call : Pending(c)' <=> Pending(c)
      PROVE  CalmInv'
  BY <1>0, <1>1, Kept DEF CalmInv, Reachable
<1>2. ASSUME NEW p \in Client, ForgetClient(p) PROVE CalmInv'
  <2> SUFFICES ASSUME NEW q \in Peer, NEW k \in Container, (<<q, k>> \in calm)'
               PROVE  Arrives(q, k)'
    BY DEF CalmInv
  <2>1. <<q, k>> \in calm /\ (q = p => k \notin tracked[p])
    BY <1>2 DEF ForgetClient
  <2>2. k \in tracked'[q] <=> k \in tracked[q]
    BY <1>0, <1>2, <2>1 DEF ForgetClient, TypeOK
  <2>3. \A c \in Call : Pending(c)' <=> Pending(c)
    BY <1>2 DEF ForgetClient, Pending, callVars, peerVars
  <2>4. Reachable(q) => Reachable(q)'
    BY <1>2 DEF ForgetClient, Reachable, peerVars
  <2>5. Arrives(q, k) /\ subscriptions' = subscriptions
    BY <1>0, <1>2, <2>1 DEF ForgetClient, CalmInv, peerVars
  <2> QED BY <2>2, <2>3, <2>4, <2>5, Kept
<1>3. ASSUME NEW g \in Grape, Join(g) PROVE CalmInv'
  <2> SUFFICES ASSUME NEW q \in Peer, NEW k \in Container, <<q, k>> \in calm
               PROVE  Arrives(q, k)'
    BY <1>3 DEF CalmInv, Join
  <2>1. Arrives(q, k)
    BY <1>0 DEF CalmInv
  <2>2. Reachable(q) => Reachable(q)'
    BY <1>3 DEF Join, Reachable
  <2>3. \A c \in Call : Pending(c)' <=> Pending(c)
    BY <1>3 DEF Join, Pending, callVars
  <2> QED BY <1>3, <2>1, <2>2, <2>3, Kept DEF Join, serverVars
<1>4. ASSUME NEW g \in Grape, FetchExistingContainers(g) PROVE CalmInv'
  <2> SUFFICES ASSUME NEW q \in Peer, NEW k \in Container, (<<q, k>> \in calm)'
               PROVE  Arrives(q, k)'
    BY DEF CalmInv
  <2>1. PICK list \in {owned, {}} :
          /\ subscriptions' = [subscriptions EXCEPT ![g] = @ \cup list]
          /\ calm' = {pk \in calm : pk[1] = g /\ pk[2] \in list => pk[2] \in tracked[g]}
    BY <1>4 DEF FetchExistingContainers
  <2>2. <<q, k>> \in calm /\ (q = g /\ k \in list => k \in tracked[g])
    BY <2>1
  <2>3. Arrives(q, k)
    BY <1>0, <2>2 DEF CalmInv
  <2>4. \A c \in Call : Pending(c)' <=> Pending(c)
    BY <1>4 DEF FetchExistingContainers, Pending, callVars
  <2>5. Reachable(q) => Reachable(q)'
    BY <1>4 DEF FetchExistingContainers, Reachable
  <2>6. tracked' = tracked
    BY <1>4 DEF FetchExistingContainers, serverVars
  <2>7. CASE q = g
    <3>1. UnderWay(q, k) = {}
      BY <1>4, <2>3, <2>7 DEF Arrives, Reachable, FetchExistingContainers
    <3>2. k \in subscriptions'[q] <=> k \in subscriptions[q]
      BY <1>0, <2>1, <2>2, <2>3, <2>7, <3>1 DEF Arrives, Agreed, TypeOK
    <3> QED BY <2>3, <2>4, <2>5, <2>6, <3>2, Kept
  <2>8. CASE q # g
    <3>1. subscriptions'[q] = subscriptions[q]
      BY <1>0, <2>1, <2>8 DEF TypeOK
    <3> QED BY <2>3, <2>4, <2>5, <2>6, <3>1, Kept
  <2> QED BY <2>7, <2>8
<1>5. ASSUME NEW c \in Call, ChangeClient(c) PROVE CalmInv'
  <2>1. Pending(c)' /\ \A d \in Call \ {c} : Pending(d)' <=> Pending(d)
    BY <1>5 DEF ChangeClient, Pending, callVars, peerVars
  <2> QED BY <1>0, <1>5, <2>1, OrderedArrives DEF ChangeClient
<1>6. ASSUME NEW c \in Call, SetRemoteGrapeSubscription(c) PROVE CalmInv'
  <2>1. runs[c][To[c]] = 0
    BY <1>0, <1>6 DEF SetRemoteGrapeSubscription, Unused, RunsAfterCall
  <2>2. Pending(c)' /\ \A d \in Call \ {c} : Pending(d)' <=> Pending(d)
    BY <1>0, <1>6, <2>1
    DEF SetRemoteGrapeSubscription, Rpc!Issue, Pending, peerVars, TypeOK
  <2> QED BY <1>0, <1>6, <2>2, OrderedArrives DEF SetRemoteGrapeSubscription
<1>7. ASSUME NEW c \in Call, CallClient(c) PROVE CalmInv'
  <2>1. runs[c][To[c]] = 0
    BY <1>0, <1>7 DEF CallClient, Rpc!Issue, RunsAfterCall
  <2>2. \A d \in Call : Pending(d)' <=> Pending(d)
    BY <1>0, <1>7, <2>1 DEF CallClient, Rpc!Issue, Pending, peerVars, TypeOK
  <2> QED BY <1>1, <1>7, <2>2 DEF CallClient, serverVars, peerVars
<1>8. ASSUME NEW c \in Call, CallEnds(c) PROVE CalmInv'
  <2>1. \A d \in Call : Pending(d)' <=> Pending(d)
    BY <1>0, <1>8
    DEF CallEnds, CallReturns, CallFails, Rpc!Return, Rpc!Fail, Pending, peerVars, TypeOK
  <2>2. calm' \subseteq calm
    BY <1>8 DEF CallEnds, CallReturns, CallFails
  <2> QED BY <1>1, <1>8, <2>1, <2>2
          DEF CallEnds, CallReturns, CallFails, serverVars, peerVars
<1>9. ASSUME NEW c \in Call, RunOnClient(c) PROVE CalmInv'
  <2>1. c \notin queued /\ c \notin tasks
    BY <1>0, <1>9 DEF RunOnClient, Answer, Rpc!Run, TypeOK
  <2>2. Pending(c) /\ ~Pending(c)' /\ \A d \in Call \ {c} : Pending(d)' <=> Pending(d)
    BY <1>0, <1>9, <2>1 DEF RunOnClient, Answer, Rpc!Run, Pending, TypeOK
  <2> QED BY <1>0, <1>9, <2>2, CarriedArrives DEF RunOnClient, serverVars
<1>10. ASSUME NEW c \in Call, RunOnGrape(c) PROVE CalmInv'
  <2>1. Pending(c) /\ Pending(c)' /\ \A d \in Call \ {c} : Pending(d)' <=> Pending(d)
    BY <1>0, <1>10 DEF RunOnGrape, Answer, Rpc!Run, Pending, TypeOK
  <2> QED BY <1>1, <1>10, <2>1 DEF RunOnGrape, serverVars
<1>11. ASSUME NEW c \in Call, RunTask(c) PROVE CalmInv'
  <2>1. c \notin queued /\ runs[c][To[c]] = 1 /\ To[c] \in Grape
    BY <1>0, <1>11 DEF RunTask, TypeOK
  <2>2. Pending(c) /\ ~Pending(c)' /\ \A d \in Call \ {c} : Pending(d)' <=> Pending(d)
    BY <1>11, <2>1 DEF RunTask, Pending, callVars
  <2>3. IF To[c] \in Client \cup joined THEN Carried(c) ELSE UNCHANGED subscriptions
    BY <1>11, <2>1 DEF RunTask
  <2> QED BY <1>0, <1>11, <2>2, <2>3, CarriedArrives DEF RunTask, serverVars
<1>12. CASE /\ UNCHANGED <<queued, callVars, peerVars, tracked>>
            /\ calm' \subseteq calm
  BY <1>1, <1>12 DEF Pending, callVars, peerVars
<1> QED
  BY <1>2, <1>3, <1>4, <1>5, <1>6, <1>7, <1>8, <1>9, <1>10, <1>11, <1>12
  DEF Next, Idle, vars, serverVars, CreateContainer, RegisterClient, RegisterRemoteGrape

-----------------------------------------------------------------------------
(* Theorems.                                                                *)

LEMMA Invariance == Spec => []IInv
<1>1. Init => IInv
  BY InitIInv
<1>2. IInv /\ [Next]_vars => IInv'
  BY TypeStep, RunsStep, CalmStep DEF IInv
<1> QED BY <1>1, <1>2, PTL DEF Spec

(* A change that the engine asks for when no other of the same peer and container
   is under way makes the peer agree with the server, whatever runs in between; a change
   for a client leaves the pool with its call, and a node has a task only for a call it
   has answered. *)
THEOREM LoneChangesArrive == Spec => []SubscriptionsInv
<1>1. IInv => SubscriptionsInv
  BY DEF IInv, CalmInv, Arrives, ChangesArrive, SubscriptionsInv
<1> QED BY <1>1, Invariance, PTL
=============================================================================
