----------------------------- MODULE Subscriptions -----------------------------
(****************************************************************************)
(* Which peers receive the containers of one server, and what the server    *)
(* believes they receive (PeerService.cpp, ClientRegistry.cpp,              *)
(* GrapeRegistry.cpp, Grape.cpp, ContainerSubscriptionComponent.cpp).       *)
(*                                                                          *)
(* The engine of the server subscribes and unsubscribes clients and remote  *)
(* grapes.  The server first records the change and then asks the peer for  *)
(* it by a remote call: for a client the call is a task of the pool, for a  *)
(* grape the engine makes it and waits.  A client changes its subscription  *)
(* in the call; a grape answers at once and leaves the change to its pool.  *)
(* A node that registers the server's grape also subscribes, on its own, to *)
(* all containers there are.  Calls are what RemoteCall promises, and none  *)
(* is forgotten by the peer that ran it.                                    *)
(****************************************************************************)
EXTENDS Naturals

CONSTANTS
  Client,      \* clients
  Leaving,     \* those among them that disconnect, and may come back
  Grape,       \* grapes of other servers
  Container,   \* containers the server may create
  Call,        \* changes the engine may ask for, each with its remote call
  To, Of,      \* To[c], Of[c]: the peer and the container of change c
  On           \* On[c]: TRUE to subscribe, FALSE to unsubscribe

Peer == Client \cup Grape

ASSUME ConstantsAssumption ==
  /\ Client \cap Grape = {} /\ Leaving \subseteq Client
  /\ To \in [Call -> Peer] /\ Of \in [Call -> Container] /\ On \in [Call -> BOOLEAN]

VARIABLES
  owned,          \* the containers the server has created
  clients,        \* the clients in the server's ClientRegistry
  grapes,         \* the remote grapes in the server's GrapeRegistry
  tracked,        \* tracked[p]: where the server believes p is subscribed
                  \* (remoteClientSubscriptions, _proxySubscriptions)
  queued,         \* changes for clients whose task is in the server's pool
  status, runs, succeeded,  \* the remote calls, see RemoteCall
  tasks,          \* changes whose task is in the pool of a grape's node
  joined,         \* the nodes that have registered the server's grape
  fetching,       \* those among them that will fetch the existing containers
  subscriptions,  \* subscriptions[p]: what p is subscribed to
  calm            \* history: see Ordered

callVars == <<status, runs, succeeded>>
serverVars == <<owned, clients, grapes, tracked>>
peerVars == <<tasks, joined, fetching, subscriptions>>
vars == <<serverVars, queued, callVars, peerVars, calm>>

Rpc == INSTANCE RemoteCall WITH forgot <- {}

-----------------------------------------------------------------------------

(* A change that was ordered and has not been carried out.  If its call has failed,
   the request may still arrive, now or never. *)
Pending(c) ==
  \/ c \in queued
  \/ status[c] # "idle" /\ runs[c][To[c]] = 0
  \/ c \in tasks

UnderWay(p, k) == {c \in Call : To[c] = p /\ Of[c] = k /\ Pending(c)}

(* The node of a grape subscribes only for grapes it has registered. *)
Reachable(p) == p \in Grape => p \in joined \ fetching

(* Faulty: a set of subscriptions that never shrinks. *)
AfterAdding(S, k, on) == IF on THEN S \cup {k} ELSE S

(* ContainerSubscriptionComponent::Subscribe and Unsubscribe.  The container is in
   the registry of the peer while it is in this set. *)
After(S, k, on) == IF on THEN S \cup {k} ELSE S \ {k}

Init ==
  /\ owned = {} /\ clients = {} /\ grapes = {}
  /\ tracked = [p \in Peer |-> {}]
  /\ queued = {}
  /\ Rpc!Init
  /\ tasks = {} /\ joined = {} /\ fetching = {}
  /\ subscriptions = [p \in Peer |-> {}]
  /\ calm = Peer \X Container

-----------------------------------------------------------------------------
(* The engine of the server.  It waits in the calls to remote grapes.       *)

EngineFree == \A c \in Call : To[c] \in Grape => status[c] # "pending"

Unused(c) == c \notin queued /\ status[c] = "idle"

(* Change c is recorded.  History: the change leaves its pair of peer and container
   calm if the peer can carry it out and no earlier change of the pair is
   still under way. *)
Ordered(c) ==
  /\ tracked' = [tracked EXCEPT ![To[c]] = After(@, Of[c], On[c])]
  /\ calm' = IF Reachable(To[c]) /\ UnderWay(To[c], Of[c]) = {}
             THEN calm \cup {<<To[c], Of[c]>>} ELSE calm \ {<<To[c], Of[c]>>}

(* ContainerCreateAndAttach on the server's own grape. *)
CreateContainer(k) ==
  /\ EngineFree
  /\ k \notin owned
  /\ owned' = owned \cup {k}
  /\ UNCHANGED <<clients, grapes, tracked, queued, callVars, peerVars, calm>>

(* RegisterGrape of a remote grape.  What the server itself fetches from it is
   the same with the roles exchanged. *)
RegisterRemoteGrape(g) ==
  /\ EngineFree
  /\ g \notin grapes
  /\ grapes' = grapes \cup {g}
  /\ UNCHANGED <<owned, clients, tracked, queued, callVars, peerVars, calm>>

(* PeerService::SubscribeClientToContainer and UnsubscribeClientFromContainer.  If
   the client is recorded as the engine wants it, nothing happens. *)
ChangeClient(c) ==
  /\ EngineFree
  /\ Unused(c)
  /\ To[c] \in clients
  /\ Of[c] \in owned
  /\ On[c] # (Of[c] \in tracked[To[c]])
  /\ Ordered(c)
  /\ queued' = queued \cup {c}
  /\ UNCHANGED <<owned, clients, grapes, callVars, peerVars>>

(* The same for a remote grape: the call is made with the grape's accessor held. *)
SetRemoteGrapeSubscription(c) ==
  /\ EngineFree
  /\ Unused(c)
  /\ To[c] \in grapes
  /\ On[c] # (Of[c] \in tracked[To[c]])
  /\ Ordered(c)
  /\ Rpc!Issue(c)
  /\ UNCHANGED <<owned, clients, grapes, queued, peerVars>>

-----------------------------------------------------------------------------
(* Handlers and pool threads of the server.                                 *)

(* AcceptNewClient; a client that is known keeps its entry. *)
RegisterClient(p) ==
  /\ p \in Client \ clients
  /\ clients' = clients \cup {p}
  /\ UNCHANGED <<owned, grapes, tracked, queued, callVars, peerVars, calm>>

(* ExecClientDisconnect, or the engine.  The entry is erased with what it tracks. *)
ForgetClient(p) ==
  /\ p \in clients \cap Leaving
  /\ clients' = clients \ {p}
  /\ tracked' = [tracked EXCEPT ![p] = {}]
  /\ calm' = {pk \in calm : pk[1] = p => /\ pk[2] \notin tracked[p]
                                         /\ UnderWay(p, pk[2]) = {}}
  /\ UNCHANGED <<owned, grapes, queued, callVars, peerVars>>

(* A thread of the pool takes one of the tasks, in any order, and makes the call. *)
CallClient(c) ==
  /\ c \in queued
  /\ Rpc!Issue(c)
  /\ queued' = queued \ {c}
  /\ UNCHANGED <<serverVars, peerVars, calm>>

CallReturns(c) ==
  /\ Rpc!Return(c)
  /\ UNCHANGED <<serverVars, queued, peerVars, calm>>

(* A failure is logged; what was recorded stays.  History: the change is not known
   to have been made. *)
CallFails(c) ==
  /\ Rpc!Fail(c)
  /\ calm' = IF runs[c][To[c]] = 0 THEN calm \ {<<To[c], Of[c]>>} ELSE calm
  /\ UNCHANGED <<serverVars, queued, peerVars>>

CallEnds(c) == CallReturns(c) \/ CallFails(c)

-----------------------------------------------------------------------------
(* The peers.                                                               *)

(* Methods answer true whatever they find. *)
Answer(c) ==
  /\ Rpc!Run(c, To[c])
  /\ succeeded' = succeeded \cup {<<c, To[c]>>}

Carried(c) ==
  subscriptions' = [subscriptions EXCEPT ![To[c]] = After(@, Of[c], On[c])]

(* SubscribeClientToContainer and UnsubscribeClientFromContainer on the client. *)
RunOnClient(c) ==
  /\ To[c] \in Client
  /\ Answer(c)
  /\ Carried(c)
  /\ UNCHANGED <<serverVars, queued, tasks, joined, fetching, calm>>

(* Faulty: the node answers and forgets. *)
RunOnGrapeOnly(c) ==
  /\ To[c] \in Grape
  /\ Answer(c)
  /\ UNCHANGED <<serverVars, queued, peerVars, calm>>

(* Grape::SubscribeToContainer and UnsubscribeFromContainer: a task for the pool. *)
RunOnGrape(c) ==
  /\ To[c] \in Grape
  /\ Answer(c)
  /\ tasks' = tasks \cup {c}
  /\ UNCHANGED <<serverVars, queued, joined, fetching, subscriptions, calm>>

(* A pool thread of the node takes one of the tasks.  If the node does not know the
   server's grape, the task has no effect and nobody hears of it. *)
RunTask(c) ==
  /\ c \in tasks
  /\ tasks' = tasks \ {c}
  /\ IF To[c] \in joined THEN Carried(c) ELSE UNCHANGED subscriptions
  /\ UNCHANGED <<serverVars, queued, callVars, joined, fetching, calm>>

(* The node of g registers the server's grape. *)
Join(g) ==
  /\ g \in Grape \ joined
  /\ joined' = joined \cup {g}
  /\ fetching' = fetching \cup {g}
  /\ UNCHANGED <<serverVars, queued, callVars, tasks, subscriptions, calm>>

(* fetchExistingContainers, at the moment the server makes the list: the node holds
   the grape's accessor, so that no task of it runs before the list is applied.
   If the call fails the list is empty.  History: the server does not record these
   subscriptions. *)
FetchExistingContainers(g) ==
  /\ g \in fetching
  /\ fetching' = fetching \ {g}
  /\ \E list \in {owned, {}} :
       /\ subscriptions' = [subscriptions EXCEPT ![g] = @ \cup list]
       /\ calm' = {pk \in calm : pk[1] = g /\ pk[2] \in list => pk[2] \in tracked[g]}
  /\ UNCHANGED <<serverVars, queued, callVars, tasks, joined>>

-----------------------------------------------------------------------------

(* Nothing is under way, and the engine and the peers rest. *)
Idle ==
  /\ queued = {} /\ tasks = {} /\ fetching = {}
  /\ \A c \in Call : status[c] # "pending"
  /\ UNCHANGED vars

Next ==
  \/ \E k \in Container : CreateContainer(k)
  \/ \E p \in Client : RegisterClient(p) \/ ForgetClient(p)
  \/ \E g \in Grape : RegisterRemoteGrape(g) \/ Join(g) \/ FetchExistingContainers(g)
  \/ \E c \in Call :
       \/ ChangeClient(c) \/ SetRemoteGrapeSubscription(c)
       \/ CallClient(c) \/ CallEnds(c)
       \/ RunOnClient(c) \/ RunOnGrape(c) \/ RunTask(c)
  \/ Idle

Spec == Init /\ [][Next]_vars

(* The pools run their tasks, and the caller of a remote call hears of its end.  The
   engine decides what it asks for; that a request arrives is nobody's promise. *)
FairSpec ==
  /\ Spec
  /\ \A c \in Call : WF_vars(CallClient(c)) /\ WF_vars(CallEnds(c)) /\ WF_vars(RunTask(c))

-----------------------------------------------------------------------------
(* Properties                                                               *)

(* The state is well typed: a change for a client is in the pool before its call is
   made, and a node has a task only for a call it has answered. *)
TypeOK ==
  /\ owned \subseteq Container /\ clients \subseteq Client /\ grapes \subseteq Grape
  /\ tracked \in [Peer -> SUBSET Container]
  /\ queued \subseteq {c \in Call : To[c] \in Client /\ status[c] = "idle"}
  /\ status \in [Call -> {"idle", "pending", "returned", "failed"}]
  /\ runs \in [Call -> [Peer -> 0 .. 1]]
  /\ succeeded \subseteq Call \X Peer
  /\ tasks \subseteq {c \in Call : To[c] \in Grape /\ runs[c][To[c]] = 1}
  /\ joined \subseteq Grape /\ fetching \subseteq joined
  /\ subscriptions \in [Peer -> SUBSET Container]
  /\ calm \subseteq Peer \X Container

Agreed(p, k) == k \in subscriptions[p] <=> k \in tracked[p]

(* A change the engine asks for when no other of the same peer and container is
   under way is not undone by anything that came before it or comes in between,
   whatever the order of tasks, calls and joins: the peer has what the server
   recorded, or what is under way will make it so (SubscribeClientToContainer,
   SetRemoteGrapeSubscription). *)
ChangesArrive ==
  \A p \in Peer, k \in Container :
    <<p, k>> \in calm =>
      /\ \A c \in UnderWay(p, k) : On[c] <=> k \in tracked[p]
      /\ UnderWay(p, k) = {} => Agreed(p, k)

SubscriptionsInv == TypeOK /\ ChangesArrive

(* Server and peer come to agree on every such change whose call does not fail. *)
Converges ==
  \A p \in Peer, k \in Container : []<>(<<p, k>> \in calm => Agreed(p, k))
=============================================================================
