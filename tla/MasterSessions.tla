---------------------------- MODULE MasterSessions ----------------------------
(****************************************************************************)
(* How the master starts the processes of server nodes, and cleans up what  *)
(* belongs to a session: its processes and its Pulsar namespace (Nodes.cs,  *)
(* Up.cs, Sessions.cs, RPC.cs, ServerRoutes.cs, Program.cs).                *)
(*                                                                          *)
(* Every request is handled by a task of its own, cut where another task    *)
(* can come in between.  The processes are kept in one map per session,     *)
(* and these maps in _processes; a map is named by the creation that made   *)
(* it.  The namespaces are those of Namespaces.  What the master keeps in   *)
(* Redis is the subject of MasterNodes.                                     *)
(****************************************************************************)
EXTENDS Naturals, FiniteSets

CONSTANTS
  Session,
  Parent,       \* what a node can be created under
  Numbered,     \* those whose names begin with "sn-": their children are counted
  Creation, Opening, Cleanup, Link,  \* requests, by kind
  SessionOf,    \* the session each of them is about
  ParentOf,     \* ParentOf[c]: the parent of the node that c creates
  Shutdown,     \* the end of the master, which kills processes as a cleanup does
  None,
  MaxRequests,  \* bound on the requests that are made
  MaxCreations  \* bound on the creations among them

Request == Creation \cup Opening \cup Cleanup \cup Link
Cleaner == Cleanup \cup {Shutdown}

(* The id of a node.  A child of a numbered parent has a number. *)
Node == Session \X Parent \X (0 .. Cardinality(Creation))

ASSUME ConstantsAssumption ==
  /\ IsFiniteSet(Creation) /\ MaxRequests \in Nat /\ MaxCreations \in Nat
  /\ Creation \cap (Opening \cup Cleanup \cup Link) = {} /\ Cleanup \cap (Opening \cup Link) = {}
  /\ Numbered \subseteq Parent
  /\ SessionOf \in [Request -> Session] /\ ParentOf \in [Creation -> Parent]
  /\ Shutdown \notin Cleanup
  /\ None \notin Creation /\ None \notin Node

VARIABLES
  inContainer,  \* the master runs in a container
  master,       \* "up", "stopping" or "stopped"
  at,           \* at[r]: how far request r is, or its answer
  node, counter,  \* node[c]: the id of the node that c creates; the counters in Redis
  process,      \* process[c]: "none", "running", "unkilled" (it runs, and killing it failed) or "dead"
  current,      \* current[s]: the map of session s in _processes
  held,         \* held[c]: the map that the task of c holds
  entries,      \* entries[m]: the processes in map m
  maps, doomed, \* maps[x], doomed[x]: what cleaner x has still to go through and to kill
  namespaces, busy, step,  \* see Namespaces
  overlapped, before  \* history: see ProcessesTracked and CleanupsComplete

requestVars == <<inContainer, master, at, node, counter>>
processVars == <<process, current, held, entries, maps, doomed>>
pulsarVars == <<namespaces, busy, step>>
historyVars == <<overlapped, before>>
vars == <<requestVars, processVars, pulsarVars, historyVars>>

Pulsar == INSTANCE Namespaces WITH
  Deletion <- Cleanup, Target <- [d \in Cleanup |-> SessionOf[d]]

Init ==
  /\ inContainer \in BOOLEAN /\ master = "up"
  /\ at = [r \in Request |-> "idle"]
  /\ node = [c \in Creation |-> None] /\ counter = [p \in Numbered |-> 0]
  /\ process = [c \in Creation |-> "none"]
  /\ current = [s \in Session |-> None]
  /\ held = [c \in Creation |-> None] /\ entries = [c \in Creation |-> {}]
  /\ maps = [x \in Cleaner |-> {}] /\ doomed = [x \in Cleaner |-> {}]
  /\ Pulsar!Init
  /\ overlapped = {} /\ before = [x \in Cleaner |-> {}]

Serving == master # "stopped"

Reach(r, place) == at' = [at EXCEPT ![r] = place]

(* A request is made.  The requests are served until the host has stopped, which is after
   the processes have been killed. *)
Begins(r) ==
  /\ Serving
  /\ at[r] = "idle"
  /\ Cardinality({q \in Request : at[q] # "idle"}) < MaxRequests

-----------------------------------------------------------------------------
(* Creating nodes                                                           *)

(* Nodes.CreateNode: the id.  A number is drawn atomically, or Redis cannot be reached, which
   nothing catches, and the number may have been drawn; without a number, two requests with
   the same parent get the same id. *)
RequestNode(c) ==
  /\ Begins(c)
  /\ Cardinality({e \in Creation : at[e] # "idle"}) < MaxCreations
  /\ LET p == ParentOf[c]
         Drawn == counter' = [counter EXCEPT ![p] = @ + 1]
     IN \/ /\ p \in Numbered /\ Drawn
           /\ node' = [node EXCEPT ![c] = <<SessionOf[c], p, counter'[p]>>]
           /\ Reach(c, "named")
        \/ /\ p \in Numbered /\ (Drawn \/ UNCHANGED counter)
           /\ UNCHANGED node
           /\ Reach(c, "500")
        \/ /\ p \notin Numbered /\ UNCHANGED counter
           /\ node' = [node EXCEPT ![c] = <<SessionOf[c], p, 0>>]
           /\ Reach(c, "named")
  /\ UNCHANGED <<inContainer, master, processVars, pulsarVars, historyVars>>

(* UpAndDown.Up.  In a container the node becomes a container beside it, and that is all.
   The configuration, the log file or docker may make it throw. *)
StartContainer(c) ==
  /\ Serving
  /\ at[c] = "named" /\ inContainer
  /\ Reach(c, "200") \/ Reach(c, "500")
  /\ \E started \in BOOLEAN :
       process' = [process EXCEPT ![c] = IF started THEN "running" ELSE "none"]
  /\ UNCHANGED <<inContainer, master, node, counter, current, held, entries, maps, doomed,
                 pulsarVars, historyVars>>

StartProcess(c) ==
  /\ Serving
  /\ at[c] = "named" /\ ~inContainer
  /\ \/ Reach(c, "started") /\ process' = [process EXCEPT ![c] = "running"]
     \/ Reach(c, "500") /\ UNCHANGED process
  /\ UNCHANGED <<inContainer, master, node, counter, current, held, entries, maps, doomed,
                 pulsarVars, historyVars>>

(* Faulty: the map of the session is replaced. *)
ReplaceMap(c) ==
  /\ Serving
  /\ at[c] = "started"
  /\ Reach(c, "holding")
  /\ current' = [current EXCEPT ![SessionOf[c]] = c]
  /\ held' = [held EXCEPT ![c] = c]
  /\ UNCHANGED <<inContainer, master, node, counter, process, entries, maps, doomed,
                 pulsarVars, historyVars>>

(* GetOrAdd. *)
FindMap(c) ==
  /\ Serving
  /\ at[c] = "started"
  /\ Reach(c, "holding")
  /\ LET s == SessionOf[c]
     IN /\ current' = [current EXCEPT ![s] = IF @ = None THEN c ELSE @]
        /\ held' = [held EXCEPT ![c] = current'[s]]
  /\ UNCHANGED <<inContainer, master, node, counter, process, entries, maps, doomed,
                 pulsarVars, historyVars>>

(* TryAdd: a process whose id is in the map already is not added. *)
Track(c) ==
  /\ Serving
  /\ at[c] = "holding"
  /\ Reach(c, "tracked")
  /\ entries' = [entries EXCEPT ![held[c]] =
                   IF \E e \in @ : node[e] = node[c] THEN @ ELSE @ \cup {c}]
  /\ UNCHANGED <<inContainer, master, node, counter, process, current, held, maps, doomed,
                 pulsarVars, historyVars>>

(* The node is registered in Redis, if Redis answers; the process runs in any case. *)
Register(c) ==
  /\ Serving
  /\ at[c] = "tracked"
  /\ Reach(c, "200") \/ Reach(c, "500")
  /\ UNCHANGED <<inContainer, master, node, counter, processVars, pulsarVars, historyVars>>

Create(c) == StartContainer(c) \/ StartProcess(c) \/ FindMap(c) \/ Track(c) \/ Register(c)

-----------------------------------------------------------------------------
(* Killing processes                                                        *)

InFlight(c, s) == at[c] = "holding" /\ SessionOf[c] = s

(* No other creation has used the id of the node of c. *)
Unique(c) == \A e \in Creation \ {c} : node[e] # node[c]

(* Processes of S whose creation has come past TryAdd, whatever it was answered. *)
Started(S) ==
  {c \in Creation : /\ SessionOf[c] \in S /\ process[c] # "none"
                    /\ at[c] \in {"tracked", "200", "500"}}

(* Those among C that a cleanup can be expected to find. *)
Expected(C) ==
  {c \in C : /\ ~inContainer /\ c \notin overlapped
             /\ Unique(c) \/ c \in entries[held[c]]}

TakeMaps(x, S) ==
  /\ maps' = [maps EXCEPT ![x] = {current[s] : s \in S} \ {None}]
  /\ before' = [before EXCEPT ![x] = Started(S)]

(* Sessions.CleanupSession begins: TryRemove. *)
BeginCleanup(d) ==
  /\ Begins(d)
  /\ Reach(d, "begun")
  /\ TakeMaps(d, {SessionOf[d]})
  /\ current' = [current EXCEPT ![SessionOf[d]] = None]
  /\ overlapped' = overlapped \cup {c \in Creation : InFlight(c, SessionOf[d])}
  /\ UNCHANGED <<inContainer, master, node, counter, process, held, entries, doomed,
                 pulsarVars>>

(* ApplicationStopping runs CleanupAllProcesses, while requests are still served.  The
   maps stay where they are. *)
BeginShutdown ==
  /\ master = "up"
  /\ master' = "stopping"
  /\ TakeMaps(Shutdown, Session)
  /\ UNCHANGED <<inContainer, at, node, counter, process, current, held, entries, doomed,
                 pulsarVars, overlapped>>

(* The loop over sessionMap.Values, which is a copy. *)
TakeMap(x) ==
  /\ Serving
  /\ doomed[x] = {}
  /\ \E m \in maps[x] :
       /\ maps' = [maps EXCEPT ![x] = @ \ {m}]
       /\ doomed' = [doomed EXCEPT ![x] = entries[m]]
  /\ UNCHANGED <<requestVars, process, current, held, entries, pulsarVars, historyVars>>

(* What has exited is left alone.  That a process cannot be killed is caught and logged: it
   runs on, is forgotten, and the next one is killed. *)
Kill(x) ==
  /\ Serving
  /\ \E c \in doomed[x] :
       /\ \/ process' = [process EXCEPT ![c] = "dead"]
          \/ process[c] # "dead" /\ process' = [process EXCEPT ![c] = "unkilled"]
       /\ doomed' = [doomed EXCEPT ![x] = @ \ {c}]
  /\ UNCHANGED <<requestVars, current, held, entries, maps, pulsarVars, historyVars>>

(* Faulty: the loop over the processes is not waited for. *)
NothingDoomed(x) == doomed[x] = {}

Killed(x) == maps[x] = {} /\ doomed[x] = {}

(* Faulty: a failure is not caught, and there is no answer. *)
DeleteNamespaceUncaught(d) ==
  /\ Serving
  /\ at[d] = "begun" /\ Killed(d)
  /\ Pulsar!Next(d)
  /\ Reach(d, IF step'[d] = "deleted" THEN "200" ELSE "begun")
  /\ UNCHANGED <<inContainer, master, node, counter, processVars, historyVars>>

(* Then the namespace is deleted.  The outcome is that of the deletion. *)
DeleteSessionNamespace(d) ==
  /\ Serving
  /\ at[d] = "begun" /\ Killed(d)
  /\ Pulsar!Next(d)
  /\ Reach(d, CASE step'[d] = "deleted" -> "200"
                [] step'[d] = "failed" -> "500"
                [] OTHER -> "begun")
  /\ UNCHANGED <<inContainer, master, node, counter, processVars, historyVars>>

(* The host has stopped. *)
Stop ==
  /\ master = "stopping" /\ Killed(Shutdown)
  /\ master' = "stopped"
  /\ UNCHANGED <<inContainer, at, node, counter, processVars, pulsarVars, historyVars>>

-----------------------------------------------------------------------------
(* Sessions are opened, nodes open topics, clients are sent to nodes         *)

(* Sessions.CreateSession: the answer of the broker may be lost. *)
OpenSession(o) ==
  /\ Begins(o)
  /\ \/ Pulsar!CreateNamespace(SessionOf[o]) /\ (Reach(o, "200") \/ Reach(o, "500"))
     \/ Reach(o, "500") /\ UNCHANGED pulsarVars
  /\ UNCHANGED <<inContainer, master, node, counter, processVars, historyVars>>

(* The node of a running process opens its topics. *)
OpenTopic(c) ==
  /\ process[c] \in {"running", "unkilled"}
  /\ Pulsar!OpenTopic(SessionOf[c])
  /\ UNCHANGED <<requestVars, processVars, historyVars>>

(* RPC.ConnectClientToNode: a message to the topic of a node, which may be dead by now.
   The producer opens the topic. *)
SendClient(l, c) ==
  /\ Begins(l)
  /\ SessionOf[c] = SessionOf[l] /\ at[c] = "200"
  /\ Pulsar!OpenTopic(SessionOf[c]) \/ UNCHANGED pulsarVars
  /\ Reach(l, "200") \/ Reach(l, "500")
  /\ UNCHANGED <<inContainer, master, node, counter, processVars, historyVars>>

-----------------------------------------------------------------------------

MasterStep(r) ==
  \/ r \in Creation /\ Create(r)
  \/ r \in Cleanup /\ DeleteSessionNamespace(r)

Next ==
  \/ \E c \in Creation :
       \/ RequestNode(c) \/ OpenTopic(c)
       \/ \E l \in Link : SendClient(l, c)
  \/ \E d \in Cleanup : BeginCleanup(d)
  \/ \E x \in Cleaner : TakeMap(x) \/ Kill(x)
  \/ \E o \in Opening : OpenSession(o)
  \/ \E r \in Request : MasterStep(r)
  \/ BeginShutdown \/ Stop

Spec == Init /\ [][Next]_vars

(* The tasks of the master run, and each request to the broker or to Redis ends within its
   timeout.  Nodes, clients and the operator need not do anything. *)
FairSpec ==
  /\ Spec
  /\ \A r \in Request : WF_vars(MasterStep(r))
  /\ \A x \in Cleaner : WF_vars(TakeMap(x) \/ Kill(x))
  /\ WF_vars(Stop)

-----------------------------------------------------------------------------
(* Claims                                                                   *)

(* The variables keep their types, those of the broker among them. *)
TypeOK ==
  /\ inContainer \in BOOLEAN /\ master \in {"up", "stopping", "stopped"}
  /\ at \in [Request -> {"idle", "named", "started", "holding", "tracked", "begun",
                         "200", "500"}]
  /\ node \in [Creation -> Node \cup {None}] /\ counter \in [Numbered -> 0 .. Cardinality(Creation)]
  /\ process \in [Creation -> {"none", "running", "unkilled", "dead"}]
  /\ current \in [Session -> Creation \cup {None}] /\ held \in [Creation -> Creation \cup {None}]
  /\ entries \in [Creation -> SUBSET Creation]
  /\ maps \in [Cleaner -> SUBSET Creation] /\ doomed \in [Cleaner -> SUBSET Creation]
  /\ Pulsar!TypeOK
  /\ overlapped \subseteq Creation /\ before \in [Cleaner -> SUBSET Creation]

(* Cleaner x will still kill the process of c. *)
Doomed(x, c) == c \in doomed[x] \/ \E m \in maps[x] : c \in entries[m]

(* A process whose creation has come past TryAdd, and which nothing has failed to kill, can
   be found by a cleanup, or one is about to kill it, unless the master runs in a container,
   or a cleanup took the map between GetOrAdd and TryAdd, or TryAdd found another process
   of the same id (UpAndDown.Up, CleanupSessionProcesses). *)
ProcessesTracked ==
  \A c \in Expected(Started(Session)) : process[c] = "running" =>
    \/ current[SessionOf[c]] # None /\ c \in entries[current[SessionOf[c]]]
    \/ \E d \in Cleanup : Doomed(d, c)

(* Both of them, in every reachable state: of Up and CleanupSessionProcesses. *)
SessionsInv == TypeOK /\ ProcessesTracked

(* A cleanup has been answered, or the master has killed what it had to before it stops. *)
Finished(x) == IF x = Shutdown THEN master = "stopped" ELSE at[x] = "200"

(* A process of which the same is true, and which had come past TryAdd when a cleanup of its
   session began, is dead once that cleanup is answered with 200, or the master has stopped,
   unless killing it failed, or a cleanup that came first has it still on its list
   (Sessions.CleanupSession, Program.Main). *)
CleanupsComplete ==
  \A x \in Cleaner : Finished(x) =>
    \A c \in Expected(before[x]) : process[c] # "running" \/ \E y \in Cleanup \ {x} : Doomed(y, c)

(* Nothing is left to do: each request that was made is answered, and each process that a
   cleaner has found is killed. *)
Settled ==
  /\ \A r \in Request : at[r] \in {"idle", "200", "500"}
  /\ \A x \in Cleaner : Killed(x)

(* Requests are answered, and what is begun to be cleaned up is cleaned up, unless the
   master stops first, whatever the broker and Redis answer (Sessions.CleanupSession,
   UpAndDown.Up). *)
RequestsEnd == []<>(Settled \/ master = "stopped")
=============================================================================
