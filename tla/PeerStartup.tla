------------------------------- MODULE PeerStartup -------------------------------
(****************************************************************************)
(* How a peer starts, and what it serves while it does (Runtime.cpp,        *)
(* PeerService.cpp, CRPC.cpp, GlobalRPC.cpp, CustomRPC.hpp).                *)
(*                                                                          *)
(* Connect makes the PeerService, whose constructor leaves the rest to a    *)
(* task of the pool: the task registers the methods of the peer, and then   *)
(* calls back Runtime, which uses the pointer that Connect sets when the    *)
(* constructor has returned.  The object that serves the global scope is    *)
(* made by this task, or by the engine when it registers a function by name *)
(* before: nothing keeps the two from making one each.  The methods of a    *)
(* scope stay bound to the object that came first, while the PeerService    *)
(* keeps the one that came last; the other is destroyed.                    *)
(****************************************************************************)
EXTENDS Peers, FiniteSets

CONSTANTS
  Filter,      \* who registers the function: 0 all peers, 1 nodes, 2 clients
  Call,        \* calls of the function, by name
  To           \* To[k]: the client whose own scope call k goes to, or None: the global one

Maker == {"pool", "engine"}

ASSUME StartAssumption ==
  /\ None \notin Maker
  /\ Filter \in {0, 1, 2}
  /\ To \in [Call -> Client \cup {None}]

VARIABLES
  stage,     \* stage[p]: how far the start of p has come
  assigned,  \* the peers whose _peerService is set
  told,      \* told[p]: the hooks of the engine that were called
  making,    \* making[p]: the threads that make an object for the global scope
  bound,     \* bound[p]: whose object serves the global scope, or None
  held,      \* held[p]: whose object _globalRPC points to, or None
  named,     \* named[p]: the objects in which the function is registered
  issued,    \* the calls made so far
  msgs,      \* calls on their way, as <<call, peer>>
  ran        \* runs of the function, as <<call, peer>>

globalVars == <<making, bound, held>>
callVars == <<issued, msgs, ran>>
vars == <<stage, assigned, told, globalVars, named, callVars>>

Stage == {"off", "connected", "first", "served", "global", "asking", "answered", "done", "crashed"}

Init ==
  /\ stage = [p \in Peer |-> "off"] /\ assigned = {}
  /\ told = [p \in Peer |-> {}]
  /\ making = [p \in Peer |-> {}]
  /\ bound = [p \in Peer |-> None] /\ held = [p \in Peer |-> None]
  /\ named = [p \in Peer |-> {}]
  /\ issued = {} /\ msgs = {} /\ ran = {}

Goes(p, from, to) == stage[p] = from /\ stage' = [stage EXCEPT ![p] = to]

Tell(p, h) == told' = [told EXCEPT ![p] = @ \cup {h}]

-----------------------------------------------------------------------------
(* The engine's thread.                                                     *)

(* Connect, up to the constructor of PeerService: the peer listens for answers, on the
   topic that is its own scope too, and the task is scheduled. *)
Connect(n) ==
  /\ n \in Node
  /\ Goes(n, "off", "connected")
  /\ UNCHANGED <<assigned, told, globalVars, named, callVars>>

ConnectToCluster(c) ==
  /\ c \in Client
  /\ Goes(c, "off", "connected")
  /\ UNCHANGED <<assigned, told, globalVars, named, callVars>>

(* The constructor has returned. *)
Assign(p) ==
  /\ stage[p] \notin {"off", "crashed"} /\ p \notin assigned
  /\ assigned' = assigned \cup {p}
  /\ UNCHANGED <<stage, told, globalVars, named, callVars>>

-----------------------------------------------------------------------------
(* The object for the global scope.                                         *)

(* InitGlobalRPC and GetGlobalRPC find no object. *)
Begin(p, t) == held[p] = None /\ t \notin making[p] /\ making' = [making EXCEPT ![p] = @ \cup {t}]

(* The constructor subscribes.  A scope has one consumer, and a method that is registered
   there already stays as it is. *)
Subscribe(p, t) ==
  /\ t \in making[p] /\ bound[p] = None
  /\ bound' = [bound EXCEPT ![p] = t]
  /\ UNCHANGED <<stage, assigned, told, making, held, named, callVars>>

(* The pointer is set; the object it pointed to is destroyed. *)
Held(p, t) ==
  /\ t \in making[p] /\ bound[p] # None
  /\ making' = [making EXCEPT ![p] = @ \ {t}]
  /\ held' = [held EXCEPT ![p] = t]
  /\ UNCHANGED bound

(* The filter of the functions that `RegisterRPC' takes: for all peers, for nodes or for
   clients.  It is the same for the scopes of grapes and entities. *)
Admits(p) ==
  \/ Filter = 0
  \/ Filter = 1 /\ p \in Node
  \/ Filter = 2 /\ p \in Client

(* Faulty: one table for the functions of all scopes. *)
NamedLast(p, o) == named' = [named EXCEPT ![p] = {o}]

Named(p, o) == named' = [named EXCEPT ![p] = @ \cup {o}]

(* RegisterGlobalRPC, by an engine that is back from Connect. *)
RegisterGlobalRPC(p) ==
  /\ p \in assigned /\ stage[p] # "crashed"
  /\ Admits(p) /\ "engine" \notin making[p]
  /\ \/ held[p] # None /\ Named(p, held[p]) /\ UNCHANGED globalVars
     \/ Begin(p, "engine") /\ UNCHANGED <<bound, held, named>>
  /\ UNCHANGED <<stage, assigned, told, callVars>>

(* ... and which had to make the object first. *)
RegisterInNew(p) ==
  /\ stage[p] # "crashed"
  /\ Held(p, "engine")
  /\ Named(p, "engine")
  /\ UNCHANGED <<stage, assigned, told, callVars>>

(* RegisterClientRPC. *)
RegisterClientRPC(c) ==
  /\ c \in Client \cap assigned /\ stage[c] # "crashed"
  /\ Named(c, "peer")
  /\ UNCHANGED <<stage, assigned, told, globalVars, callVars>>

-----------------------------------------------------------------------------
(* The task of the pool.                                                    *)

(* __initPeerRPCs: the first method makes the consumer of the scope... *)
RegisterFirst(p) ==
  /\ Goes(p, "connected", "first")
  /\ UNCHANGED <<assigned, told, globalVars, named, callVars>>

(* ... and the others follow. *)
RegisterOthers(p) ==
  /\ Goes(p, "first", "served")
  /\ UNCHANGED <<assigned, told, globalVars, named, callVars>>

(* onReady(true): the pointer may not be set yet. *)
UseUnassigned(p) ==
  /\ p \notin assigned
  /\ Goes(p, "served", "crashed")
  /\ UNCHANGED <<assigned, told, globalVars, named, callVars>>

(* Faulty: the engine is called back first. *)
InitGlobalRPCLate(p) ==
  /\ p \in assigned
  /\ Goes(p, "served", "global")
  /\ UNCHANGED globalVars
  /\ UNCHANGED <<assigned, told, named, callVars>>

InitGlobalRPC(p) ==
  /\ p \in assigned
  /\ Goes(p, "served", "global")
  /\ \/ Begin(p, "pool") /\ UNCHANGED <<bound, held>>
     \/ held[p] # None /\ UNCHANGED globalVars
  /\ UNCHANGED <<assigned, told, named, callVars>>

HoldGlobalRPC(p) ==
  /\ stage[p] = "global"
  /\ Held(p, "pool")
  /\ UNCHANGED <<stage, assigned, told, named, callVars>>

(* A client is ready. *)
ClientReady(c) ==
  /\ c \in Client /\ "pool" \notin making[c]
  /\ Goes(c, "global", "done")
  /\ Tell(c, "success")
  /\ UNCHANGED <<assigned, globalVars, named, callVars>>

(* A node asks the master first... *)
AskMaster(n) ==
  /\ n \in Node /\ "pool" \notin making[n]
  /\ Goes(n, "global", "asking")
  /\ UNCHANGED <<assigned, told, globalVars, named, callVars>>

(* ... which accepts it, with a payload for the engine, ... *)
Accepted(n) ==
  /\ Goes(n, "asking", "answered")
  /\ Tell(n, "payload")
  /\ UNCHANGED <<assigned, globalVars, named, callVars>>

(* Faulty: what is thrown on the way ends the task. *)
NotAcceptedEnds(n) ==
  /\ Goes(n, "asking", "off")
  /\ UNCHANGED <<assigned, told, globalVars, named, callVars>>

(* ... or refuses, or cannot be reached, or sends what cannot be read. *)
NotAccepted(n) ==
  /\ Goes(n, "asking", "answered")
  /\ Tell(n, "failed")
  /\ UNCHANGED <<assigned, globalVars, named, callVars>>

(* The node goes on in either case. *)
NodeReady(n) ==
  /\ Goes(n, "answered", "done")
  /\ Tell(n, "success")
  /\ UNCHANGED <<assigned, globalVars, named, callVars>>

-----------------------------------------------------------------------------
(* Calls by name.                                                           *)

(* Who listens on the scope of a call. *)
Audience(k) ==
  IF To[k] = None THEN {p \in Peer : bound[p] # None /\ stage[p] # "crashed"}
  ELSE {c \in Client : c = To[k] /\ stage[c] \notin {"off", "crashed"}}

(* fire_and_forget, by the engine of some peer that is not modelled. *)
Issue(k) ==
  /\ k \notin issued
  /\ issued' = issued \cup {k}
  /\ msgs' = msgs \cup ({k} \X Audience(k))
  /\ UNCHANGED <<stage, assigned, told, globalVars, named, ran>>

CallGlobalRPC(k) == To[k] = None /\ Issue(k)

CallClientRPC(k) == To[k] # None /\ Issue(k)

Takes(k, p) == <<k, p>> \in msgs /\ msgs' = msgs \ {<<k, p>>}

(* The object that the handler of call k belongs to. *)
Handler(k, p) == IF To[k] = None THEN bound[p] ELSE "peer"

Alive(p, o) == o \in making[p] \/ o = held[p] \/ o = "peer"

Served(k, p) == To[k] = None \/ stage[p] \notin {"connected", "first"}

(* Handler: the function is there. *)
Run(k, p) ==
  /\ Takes(k, p) /\ Served(k, p)
  /\ Alive(p, Handler(k, p))
  /\ Handler(k, p) \in named[p]
  /\ ran' = ran \cup {<<k, p>>}
  /\ UNCHANGED <<stage, assigned, told, globalVars, named, issued>>

(* It is not, or the method itself is not registered yet: the call is dropped. *)
NotFound(k, p) ==
  /\ Takes(k, p)
  /\ ~Served(k, p) \/ Handler(k, p) \notin named[p]
  /\ UNCHANGED <<stage, assigned, told, globalVars, named, issued, ran>>

(* The object was destroyed: the call is lost, or the process ends. *)
Dangling(k, p) ==
  /\ Takes(k, p)
  /\ ~Alive(p, Handler(k, p))
  /\ stage' \in {stage, [stage EXCEPT ![p] = "crashed"]}
  /\ UNCHANGED <<assigned, told, globalVars, named, issued, ran>>

-----------------------------------------------------------------------------

TaskStep(p) ==
  \/ RegisterFirst(p) \/ RegisterOthers(p) \/ UseUnassigned(p)
  \/ InitGlobalRPC(p) \/ HoldGlobalRPC(p) \/ ClientReady(p)
  \/ AskMaster(p) \/ Accepted(p) \/ NotAccepted(p) \/ NodeReady(p)

EngineStep(p) ==
  \/ Connect(p) \/ ConnectToCluster(p) \/ Assign(p)
  \/ RegisterGlobalRPC(p) \/ RegisterInNew(p) \/ RegisterClientRPC(p)

Handle(k, p) == Run(k, p) \/ NotFound(k, p) \/ Dangling(k, p)

Next ==
  \/ \E p \in Peer : TaskStep(p) \/ EngineStep(p) \/ \E t \in Maker : Subscribe(p, t)
  \/ \E k \in Call : CallGlobalRPC(k) \/ CallClientRPC(k) \/ \E p \in Peer : Handle(k, p)

(* The pool, the broker and the listener thread go on. *)
Fairness ==
  \A p \in Peer :
    /\ WF_vars(TaskStep(p)) /\ WF_vars(\E t \in Maker : Subscribe(p, t))
    /\ \A k \in Call : WF_vars(Handle(k, p))

Spec == Init /\ [][Next]_vars /\ Fairness

-----------------------------------------------------------------------------

(* The variables keep their types; the pointer holds an object as soon as a thread that
   makes one has ended. *)
TypeOK ==
  /\ stage \in [Peer -> Stage] /\ assigned \subseteq Peer
  /\ told \in [Peer -> SUBSET {"payload", "failed", "success"}]
  /\ making \in [Peer -> SUBSET Maker]
  /\ bound \in [Peer -> Maker \cup {None}] /\ held \in [Peer -> Maker \cup {None}]
  /\ \A p \in Peer : held[p] # None => bound[p] # None
  /\ named \in [Peer -> SUBSET (Maker \cup {"peer"})]
  /\ issued \subseteq Call /\ msgs \subseteq issued \X Peer /\ ran \subseteq issued \X Peer

(* When the engine is told of success, the PeerService is there, and something serves
   the scope of the peer and the global one. *)
SuccessServed ==
  \A p \in Peer :
    "success" \in told[p] => p \in assigned /\ bound[p] # None /\ held[p] # None

(* Both of them, in every reachable state: of the start of a peer. *)
StartInv == TypeOK /\ SuccessServed

(* Peers on which nobody else makes an object for the global scope any more, and which
   kept the one that is bound. *)
Whole(p) == bound[p] # None /\ bound[p] = held[p] /\ making[p] = {}

(* A call reaches a peer that has told its engine of success and has registered the
   function since, unless two objects were made: once the object that serves the scope
   is the one that is kept, it stays so. *)
CallsReach ==
  \A k \in Call, p \in Peer :
    /\ <<k, p>> \in msgs
    /\ "success" \in told[p] /\ Whole(p)
    /\ Handler(k, p) \in named[p]
    ~> <<k, p>> \in ran

(* What HookTable.hpp says of the two hooks: onConnectionSuccess is called when the
   connection is successful, onConnectionFailed when it is not.  The code calls both for a
   node that the master has refused (Runtime::Connect). *)
SuccessOrFailure == \A p \in Peer : ~({"failed", "success"} \subseteq told[p])

(* The start of a peer comes to an end, unless the process ended: the engine is told of
   success, even after it was told that the master has refused. *)
StartEnds ==
  \A p \in Peer : stage[p] # "off" ~> "success" \in told[p] \/ stage[p] = "crashed"

================================================================================
