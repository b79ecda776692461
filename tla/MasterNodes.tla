------------------------------ MODULE MasterNodes ------------------------------
(****************************************************************************)
(* What the master keeps in Redis: the nodes it has started, which it lets  *)
(* in when they connect, and the node of each spawner, to which it sends    *)
(* clients (Nodes.cs, Clients.cs, RedisDb.cs, Utils.cs, routes/).           *)
(*                                                                          *)
(* A process can run, and connect, before its node is registered, and two   *)
(* processes can have the id of one node.  A connection is looked up under  *)
(* a lock that expires.  A session is cleared by the beginning of names,    *)
(* while nodes are registered and clients sent.  Names are compared as they *)
(* are written: that of a session may be the beginning of names which have  *)
(* nothing to do with it.                                                   *)
(****************************************************************************)
EXTENDS Naturals, FiniteSets

CONSTANTS
  Session,
  Node,
  Of,         \* Of[n]: the session of node n
  NamedFrom,  \* NamedFrom[s]: the nodes whose names begin with that of session s
  Key,        \* the names of a session and of one of its spawners, one after the other
  KeysOf,     \* KeysOf[s]: those that begin with the name of session s
  Sweeping,   \* sessions whose names are the beginning of "nodes"
  Process,    \* processes of nodes, as the master starts them
  NodeOf,     \* NodeOf[p]: the node that process p is
  Unready,    \* processes that ask before they are ready (none that runs Runtime.cpp)
  Clearing, Link,  \* requests to clear a session, and of clients to be sent to a node
  None,
  MaxAttempts, \* how often a lock that is taken is tried
  MaxProcesses, \* bound on the processes that are started
  MaxRequests  \* bound on the requests that are made

Request == Clearing \cup Link

ASSUME ConstantsAssumption ==
  /\ Of \in [Node -> Session] /\ NamedFrom \in [Session -> SUBSET Node]
  /\ KeysOf \in [Session -> SUBSET Key] /\ Sweeping \subseteq Session
  /\ NodeOf \in [Process -> Node] /\ Unready \subseteq Process
  /\ None \notin Process \cup Node \cup Session \cup Key
  /\ Clearing \cap Link = {}
  /\ MaxAttempts \in Nat \ {0} /\ MaxProcesses \in Nat /\ MaxRequests \in Nat

VARIABLES
  created,   \* created[p]: "idle", "started" when p runs, "answered" by the creation
  nodes,     \* the nodes that are registered in Redis
  asks,      \* asks[p]: how far p is in connecting, or the answer it got
  attempts,  \* attempts[p]: how often p was not given the lock
  lock,      \* lock[n]: the process for which the lock on n is held, or None
  spawners,  \* spawners[k]: the node that is recorded under key k, or None
  at,        \* at[r]: how far request r is, or its answer
  about,     \* about[r]: the session to clear, or the key to look up, or None
  fields,    \* fields[k]: the registrations that clearing k has still to delete
  target,    \* target[l]: the node that client l is to be sent to
  flushed,   \* the master has stopped and its Redis database is flushed
  early, cleared,  \* history: see RefusalsExplained
  expired          \* history: the processes that are looked up although their lock is lost

acceptVars == <<asks, attempts, lock, expired>>
requestVars == <<at, about, fields, target>>
vars == <<created, nodes, acceptVars, spawners, requestVars, flushed, early, cleared>>

Init ==
  /\ created = [p \in Process |-> "idle"] /\ nodes = {}
  /\ asks = [p \in Process |-> "idle"] /\ attempts = [p \in Process |-> 0]
  /\ lock = [n \in Node |-> None]
  /\ spawners = [k \in Key |-> None]
  /\ at = [r \in Request |-> "idle"] /\ about = [r \in Request |-> None]
  /\ fields = [k \in Clearing |-> {}] /\ target = [l \in Link |-> None]
  /\ flushed = FALSE
  /\ early = {} /\ cleared = {} /\ expired = {}

Reach(r, place) == at' = [at EXCEPT ![r] = place]
Begin(r, x, place) ==
  /\ at[r] = "idle" /\ ~flushed
  /\ Cardinality({q \in Request : at[q] # "idle"}) < MaxRequests
  /\ Reach(r, place) /\ about' = [about EXCEPT ![r] = x]
AskReach(p, place) == asks' = [asks EXCEPT ![p] = place]

-----------------------------------------------------------------------------
(* Nodes are created and connect                                            *)

(* UpAndDown.Up: the process runs before its node is registered, *)
Start(p) ==
  /\ created[p] = "idle" /\ ~flushed
  /\ Cardinality({q \in Process : created[q] # "idle"}) < MaxProcesses
  /\ created' = [created EXCEPT ![p] = "started"]
  /\ UNCHANGED <<nodes, acceptVars, spawners, requestVars, flushed, early, cleared>>

(* and goes on running if Redis does not take the registration. *)
Register(p) ==
  /\ created[p] = "started"
  /\ created' = [created EXCEPT ![p] = "answered"]
  /\ nodes' = nodes \cup {NodeOf[p]} \/ UNCHANGED nodes
  /\ UNCHANGED <<acceptVars, spawners, requestVars, flushed, early, cleared>>

(* Runtime::__connectToMaster asks once.  History: p is early if its node is not
   registered yet. *)
Ask(p) ==
  /\ created[p] # "idle" /\ asks[p] = "idle" /\ ~flushed
  /\ AskReach(p, "waiting")
  /\ early' = IF NodeOf[p] \in nodes \cup cleared THEN early ELSE early \cup {p}
  /\ UNCHANGED <<created, nodes, attempts, lock, expired, spawners, requestVars, flushed,
                 cleared>>

(* The rest of the state, while a process asks to be let in. *)
OthersStay == UNCHANGED <<created, nodes, spawners, requestVars, flushed, early, cleared>>

Hold(p) == lock' = [lock EXCEPT ![NodeOf[p]] = p]

(* Faulty: it is not looked whether the lock was given. *)
TakeAnyLock(p) ==
  /\ asks[p] = "waiting"
  /\ IF lock[NodeOf[p]] = None THEN Hold(p) ELSE UNCHANGED lock
  /\ AskReach(p, "locked")
  /\ UNCHANGED <<attempts, expired>> /\ OthersStay

TakeLock(p) ==
  /\ asks[p] = "waiting" /\ lock[NodeOf[p]] = None
  /\ Hold(p)
  /\ AskReach(p, "locked")
  /\ UNCHANGED <<attempts, expired>> /\ OthersStay

(* Faulty: attempts are not counted. *)
NotGivenForEver(p) ==
  /\ asks[p] = "waiting"
  /\ UNCHANGED <<asks, attempts>>

(* Utils.Retry tries again, but not for ever. *)
NotGiven(p) ==
  /\ asks[p] = "waiting"
  /\ attempts' = [attempts EXCEPT ![p] = @ + 1]
  /\ AskReach(p, IF attempts'[p] = MaxAttempts THEN "500" ELSE "waiting")

LockTaken(p) ==
  /\ NotGiven(p) /\ lock[NodeOf[p]] # None
  /\ UNCHANGED <<lock, expired>> /\ OthersStay

(* Redis cannot be reached, or its answer is lost: Redlock returns FALSE all the same. *)
LockUnheard(p) ==
  /\ NotGiven(p)
  /\ UNCHANGED lock \/ (lock[NodeOf[p]] = None /\ Hold(p))
  /\ UNCHANGED expired /\ OthersStay

(* Redlock.Unlock: nothing is given back once the lock has expired. *)
GiveBack(p) == lock' = [lock EXCEPT ![NodeOf[p]] = IF @ = p THEN None ELSE @]

(* acceptNodeImpl.  What is registered may also turn out to be unreadable. *)
AnswerNode(p) ==
  /\ asks[p] = "locked"
  /\ \/ p \in Unready /\ AskReach(p, "400")
     \/ p \notin Unready /\ NodeOf[p] \notin nodes /\ AskReach(p, "400")
     \/ p \notin Unready /\ NodeOf[p] \in nodes /\ (AskReach(p, "200") \/ AskReach(p, "500"))
  /\ GiveBack(p) /\ expired' = expired \ {p}
  /\ UNCHANGED attempts /\ OthersStay

(* Redis throws, which leaves the lock as it is. *)
LookupFails(p) ==
  /\ asks[p] = "locked"
  /\ AskReach(p, "500") /\ expired' = expired \ {p}
  /\ UNCHANGED <<attempts, lock>> /\ OthersStay

AcceptNode(p) ==
  TakeLock(p) \/ LockTaken(p) \/ LockUnheard(p) \/ AnswerNode(p) \/ LookupFails(p)

(* The lock lives 10 seconds, or is cleared with the keys of a session whose name is the
   beginning of "lock:". *)
Lost(N) == expired' = expired \cup {p \in Process : asks[p] = "locked" /\ lock[NodeOf[p]] = p
                                                   /\ NodeOf[p] \in N}

LockExpires(n) ==
  /\ lock[n] # None
  /\ lock' = [lock EXCEPT ![n] = None]
  /\ Lost({n})
  /\ UNCHANGED <<asks, attempts>> /\ OthersStay

(* The game of a node records it as the node of a spawner (SetRedisKVP), whatever the master
   has answered, if Redis takes it. *)
Announce(p) ==
  /\ created[p] # "idle" /\ ~flushed
  /\ \E k \in KeysOf[Of[NodeOf[p]]] : spawners' = [spawners EXCEPT ![k] = NodeOf[p]]
  /\ UNCHANGED <<created, nodes, acceptVars, requestVars, flushed, early, cleared>>

-----------------------------------------------------------------------------
(* A session is cleared                                                     *)

(* Faulty: the fields are compared with the session of a node, not with its name. *)
NodesOfSession(s) == {n \in Node : Of[n] = s}

(* StartsWith. *)
FieldsMatching(s) == NamedFrom[s]

(* RedisDb.ClearSession deletes the keys that begin with the name of the session, whatever they
   are keys of; the deletion of any may fail unheard, and then the listing of more. *)
ClearKeys(k) ==
  /\ \E s \in Session :
       /\ Begin(k, s, "keys") \/ Begin(k, s, "500")
       /\ \E gone \in SUBSET KeysOf[s] :
            spawners' = [x \in Key |-> IF x \in gone THEN None ELSE spawners[x]]
       /\ \/ UNCHANGED <<nodes, cleared>>
          \/ s \in Sweeping /\ nodes' = {} /\ cleared' = cleared \cup nodes
  /\ UNCHANGED <<created, acceptVars, fields, target, flushed, early>>

(* HashGetAll: a copy; whatever it throws is caught. *)
ListFields(k) ==
  /\ at[k] = "keys"
  /\ Reach(k, "fields")
  /\ fields' = [fields EXCEPT ![k] = nodes \cap FieldsMatching(about[k])] \/ UNCHANGED fields
  /\ UNCHANGED <<created, nodes, acceptVars, spawners, about, target, flushed, early, cleared>>

ClearField(k) ==
  /\ \E n \in fields[k] :
       /\ fields' = [fields EXCEPT ![k] = @ \ {n}]
       /\ \/ nodes' = nodes \ {n} /\ cleared' = cleared \cup {n}
          \/ UNCHANGED <<nodes, cleared>>
  /\ UNCHANGED <<created, acceptVars, spawners, at, about, target, flushed, early>>

EndClear(k) ==
  /\ at[k] = "fields" /\ fields[k] = {}
  /\ Reach(k, "200")
  /\ UNCHANGED <<created, nodes, acceptVars, spawners, about, fields, target, flushed, early, cleared>>

Clear(k) == ListFields(k) \/ ClearField(k) \/ EndClear(k)

-----------------------------------------------------------------------------
(* A client is sent to a node                                               *)

(* GetSNFromSpawnerId, of a session and a spawner, by a key that those of another session may
   make as well: without a node, or without Redis, the client is turned away. *)
LookUpSpawner(l) ==
  /\ \E k \in Key :
       \/ /\ spawners[k] # None
          /\ target' = [target EXCEPT ![l] = spawners[k]]
          /\ Begin(l, k, "sending")
       \/ /\ Begin(l, k, "500")
          /\ UNCHANGED target
  /\ UNCHANGED <<created, nodes, acceptVars, spawners, fields, flushed, early, cleared>>

(* AcceptNewClient is sent to the node, and no answer is waited for. *)
SendClient(l) ==
  /\ at[l] = "sending"
  /\ Reach(l, "200") \/ Reach(l, "500")
  /\ UNCHANGED <<created, nodes, acceptVars, spawners, about, fields, target, flushed, early, cleared>>

(* ApplicationStopped: FLUSHDB.  Requests that are being handled are not stopped by it. *)
Flush ==
  /\ ~flushed
  /\ flushed' = TRUE
  /\ nodes' = {} /\ spawners' = [k \in Key |-> None] /\ lock' = [n \in Node |-> None]
  /\ Lost(Node)
  /\ cleared' = Node
  /\ UNCHANGED <<created, asks, attempts, requestVars, early>>

-----------------------------------------------------------------------------

Next ==
  \/ \E p \in Process : Start(p) \/ Register(p) \/ Ask(p) \/ AcceptNode(p) \/ Announce(p)
  \/ \E n \in Node : LockExpires(n)
  \/ \E k \in Clearing : ClearKeys(k) \/ Clear(k)
  \/ \E l \in Link : LookUpSpawner(l) \/ SendClient(l)
  \/ Flush

Spec == Init /\ [][Next]_vars

(* What the master has begun to handle it goes on with.  No lock need expire, and nobody
   need ask for anything. *)
FairSpec ==
  /\ Spec
  /\ \A p \in Process : WF_vars(Register(p)) /\ WF_vars(AcceptNode(p))
  /\ \A k \in Clearing : WF_vars(Clear(k))
  /\ \A l \in Link : WF_vars(SendClient(l))

-----------------------------------------------------------------------------
(* Properties                                                               *)

(* The variables keep their types. *)
TypeOK ==
  /\ created \in [Process -> {"idle", "started", "answered"}]
  /\ nodes \subseteq Node
  /\ asks \in [Process -> {"idle", "waiting", "locked", "200", "400", "500"}]
  /\ attempts \in [Process -> 0 .. MaxAttempts]
  /\ lock \in [Node -> Process \cup {None}]
  /\ spawners \in [Key -> Node \cup {None}]
  /\ at \in [Request -> {"idle", "keys", "fields", "sending", "200", "500"}]
  /\ about \in [Request -> Session \cup Key \cup {None}]
  /\ fields \in [Clearing -> SUBSET Node] /\ target \in [Link -> Node \cup {None}]
  /\ flushed \in BOOLEAN
  /\ early \subseteq Process /\ cleared \subseteq Node /\ expired \subseteq Process

(* A clearing may have deleted the registration of n: the name of n begins with that of the
   session it is about, or that name is the beginning of the key of all registrations. *)
ClearedBy(n, k) ==
  /\ k \in Clearing /\ at[k] # "idle"
  /\ n \in NamedFrom[about[k]] \/ about[k] \in Sweeping

(* A node the master has started is turned away only if it was not ready, or asked before it
   was registered, or if its registration was deleted since: by a clearing of a session that
   its name, or that of all registrations, begins with, or with all of Redis
   (acceptNodeImpl, ClearSession). *)
RefusalsExplained ==
  \A p \in Process : asks[p] = "400" =>
    \/ p \in Unready \cup early
    \/ flushed
    \/ NodeOf[p] \in cleared /\ \E k \in Clearing : ClearedBy(NodeOf[p], k)

(* Two processes of one node are looked up at once only if the lock of one of them has
   expired, be it that another which came late with its answer tried to give the lock back
   (Nodes.AcceptNode, Unlock). *)
LocksExclude ==
  \A p, q \in Process :
    p # q /\ NodeOf[p] = NodeOf[q] /\ asks[p] = "locked" /\ asks[q] = "locked" =>
      p \in expired \/ q \in expired

(* The node of a session that is recorded under a key has been started, and the name of its
   session begins the key: so it is with the node that a client is sent to, which is of
   another session only where the names of both do (GetSNFromSpawnerId, SetRedisKVP). *)
Recorded(n, k) ==
  k \in KeysOf[Of[n]] /\ \E p \in Process : NodeOf[p] = n /\ created[p] # "idle"

ClientsSent == \A l \in Link : at[l] = "200" => Recorded(target[l], about[l])

(* The three of them, in every reachable state: of AcceptNode, its lock, and the choice of a
   node for a client. *)
NodesInv == TypeOK /\ LocksExclude /\ ClientsSent

(* All that was asked of the master is answered, unless it stops first, although the lock of
   a lookup that has failed may never expire (Utils.Retry, ClearSession). *)
AllAnswered ==
  []<>(\/ flushed
       \/ /\ \A p \in Process : created[p] # "started" /\ asks[p] \notin {"waiting", "locked"}
          /\ \A r \in Request : at[r] \in {"idle", "200", "500"})
=============================================================================
