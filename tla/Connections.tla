------------------------------- MODULE Connections -------------------------------
(****************************************************************************)
(* How a client comes to a node and leaves it (PeerService.cpp, Grape.cpp,  *)
(* GrapeRegistry.cpp, Runtime.cpp).                                         *)
(*                                                                          *)
(* Each node has one grape of its own, named here as the node is.  The      *)
(* master asks a node to accept a client; the engine of the node then calls *)
(* the client, and waits for the answer.  The client answers when its own   *)
(* engine has registered the grape: until then the one thread that listens  *)
(* for messages is kept busy, by a loop.  All the while the engine of the   *)
(* client may itself wait for a message that only this thread can take.     *)
(*                                                                          *)
(* A client that leaves tells all grapes it knows; each of them tells all   *)
(* peers on its scope to forget the client.  A message sent to a scope that *)
(* nobody serves yet is lost.  Calls are what RemoteCall promises, and none *)
(* is forgotten by the peer that ran it.                                    *)
(****************************************************************************)
EXTENDS Peers, Naturals, FiniteSets

CONSTANTS
  Visit,        \* the times that the master sends a client to a node
  Who, At,      \* Who[v], At[v]: the client and the node of visit v
  Loads,        \* Loads[n]: the grapes that the engine of n registers
  Started,      \* the nodes that serve their grape at the start
  Spawn,        \* Spawn[c]: the grape that c asks for an entity of its own
  MaxLeaves     \* bound: how often a client disconnects

ASSUME ConnectionsAssumption ==
  /\ Who \in [Visit -> Client] /\ At \in [Visit -> Node]
  /\ \A n \in Node : n \in Loads[n] /\ Loads[n] \subseteq Node
  /\ Spawn \in [Client -> Node]
  /\ Started \subseteq Node /\ MaxLeaves \in Nat
  /\ None \notin Visit

VARIABLES
  grapes,     \* grapes[p]: the grapes in p's GrapeRegistry
  serves,     \* serves[p]: the scopes of grapes that p serves, as <<kind, grape>>
  appointed,   \* the nodes that have been told that their grape is theirs
  unscoped,   \* the nodes whose registration of their own grape has thrown half-way
  clients,    \* clients[n]: the clients in n's ClientRegistry
  accepted,   \* the visits for which AcceptNewClient has run
  hooks,      \* those among them whose hook waits in the queue of the grape
  status, runs, succeeded,  \* the calls of ForceConnectToNode, see RemoteCall
  connected,  \* the visits whose call has returned: `then' is pushed to the engine
  listener,   \* listener[c]: the visit that c's listener thread is at, or None
  loads,      \* loads[c]: the visits whose grape c's engine has been told to load
  pinged,     \* pinged[c]: the grape that c's engine waits for in GetLatency, or None
  leaves,     \* leaves[c]: how often c has disconnected
  requests,   \* RequestClientDisconnect on their way, as <<client, grape>>
  orders,     \* ExecClientDisconnect on their way, as <<client, peer>>
  cmi         \* cmi[c]: where the instantiation asked for by c is: "none", "sent",
              \* "queued" for the engine of the node, or "popped" by it

visitCallVars == <<status, runs, succeeded>>
scopeVars == <<grapes, serves, appointed, unscoped>>
visitVars == <<accepted, hooks, connected>>
clientVars == <<listener, loads, pinged>>
leaveVars == <<leaves, requests, orders>>
connectionVars == <<scopeVars, clients, visitVars, visitCallVars, clientVars, leaveVars, cmi>>

Rpc == INSTANCE RemoteCall WITH Call <- Visit, Peer <- Client, forgot <- {}

-----------------------------------------------------------------------------

ConnectionsInit ==
  /\ grapes = [p \in Peer |-> {p} \cap Started]
  /\ serves = [p \in Peer |-> {"peer", "rpc"} \X ({p} \cap Started)]
  /\ appointed = {} /\ unscoped = {}
  /\ clients = [n \in Node |-> {}]
  /\ accepted = {} /\ hooks = {} /\ connected = {}
  /\ Rpc!Init
  /\ listener = [c \in Client |-> None]
  /\ loads = [c \in Client |-> {}]
  /\ pinged = [c \in Client |-> None]
  /\ leaves = [c \in Client |-> 0] /\ requests = {} /\ orders = {}
  /\ cmi = [c \in Client |-> "none"]

(* The engine of a node waits in ConnectClientToThisNode, that of a client in
   GetLatency. *)
EngineFree(p) ==
  IF p \in Node THEN \A v \in Visit : At[v] = p => status[v] # "pending"
  ELSE pinged[p] = None

(* Who gets a message sent to the scope of a grape: it is lost on all others. *)
ScopeAudience(kind, g) == {p \in Peer : <<kind, g>> \in serves[p]}

-----------------------------------------------------------------------------
(* Grapes.                                                                  *)

Registered(p, g) == grapes' = [grapes EXCEPT ![p] = @ \cup {g}]

(* AssignGrape, by the listener thread of a node; its hook then makes the engine register
   the grape.  Nothing comes of it when the grape is there already. *)
AssignGrape(n) ==
  /\ n \notin appointed \cup grapes[n]
  /\ appointed' = appointed \cup {n}
  /\ UNCHANGED <<grapes, serves, unscoped, clients, visitVars, visitCallVars, clientVars, leaveVars,
                 cmi>>

(* RegisterGrape, by the engine of a node: of its own grape or of another's. *)
RegisterGrape(n, g) ==
  /\ EngineFree(n)
  /\ g \in Loads[n] \ grapes[n]
  /\ g = n => n \notin appointed
  /\ Registered(n, g)
  /\ UNCHANGED <<serves, appointed, unscoped, clients, visitVars, visitCallVars, clientVars, leaveVars,
                 cmi>>

(* A node to which a grape was assigned, be it this one, may not register one of its own: that
   throws with the grape in the registry, and no task is left that would serve its scopes. *)
RegisterAssigned(n) ==
  /\ EngineFree(n)
  /\ n \in Loads[n] \ grapes[n]
  /\ n \in appointed
  /\ Registered(n, n)
  /\ unscoped' = unscoped \cup {n}
  /\ UNCHANGED <<serves, appointed, clients, visitVars, visitCallVars, clientVars, leaveVars, cmi>>

(* onLoadGrape and RegisterGrape, by the engine of a client.  A grape that is there
   already makes RegisterGrape throw, and nothing else. *)
LoadGrape(v) ==
  LET c == Who[v] IN
  /\ EngineFree(c)
  /\ v \in loads[c]
  /\ loads' = [loads EXCEPT ![c] = @ \ {v}]
  /\ Registered(c, At[v])
  /\ UNCHANGED <<serves, appointed, unscoped, clients, visitVars, visitCallVars, listener, pinged,
                 leaveVars, cmi>>

(* initRPCService, a task that RegisterGrape leaves to the pool.  The node that owns
   the grape first serves what is addressed to the grape alone. *)
ServePeer(n) ==
  /\ n \in grapes[n] /\ n \notin unscoped
  /\ <<"peer", n>> \notin serves[n]
  /\ serves' = [serves EXCEPT ![n] = @ \cup {<<"peer", n>>}]
  /\ UNCHANGED <<grapes, appointed, unscoped, clients, visitVars, visitCallVars, clientVars, leaveVars,
                 cmi>>

ServeScope(p, g) ==
  /\ g \in grapes[p]
  /\ p = g => <<"peer", g>> \in serves[p]
  /\ <<"rpc", g>> \notin serves[p]
  /\ serves' = [serves EXCEPT ![p] = @ \cup {<<"rpc", g>>}]
  /\ UNCHANGED <<grapes, appointed, unscoped, clients, visitVars, visitCallVars, clientVars, leaveVars,
                 cmi>>

-----------------------------------------------------------------------------
(* A client comes.                                                          *)

(* AcceptNewClient.  It always answers true; without a grape of its own the node
   never calls the hook. *)
AcceptNewClient(v) ==
  /\ v \notin accepted
  /\ accepted' = accepted \cup {v}
  /\ clients' = [clients EXCEPT ![At[v]] = @ \cup {Who[v]}]
  /\ hooks' = IF At[v] \in grapes[At[v]] THEN hooks \cup {v} ELSE hooks
  /\ UNCHANGED <<scopeVars, connected, visitCallVars, clientVars, leaveVars, cmi>>

(* The hook onAcceptNewClient: the game calls ConnectClientToThisNode, on the engine's
   thread, which waits for the answer. *)
ConnectClientToThisNode(v) ==
  /\ EngineFree(At[v])
  /\ v \in hooks
  /\ hooks' = hooks \ {v}
  /\ Rpc!Issue(v)
  /\ UNCHANGED <<scopeVars, clients, accepted, connected, clientVars, leaveVars, cmi>>

(* ForceConnectToNode, first half: the task that runs onLoadGrape is left to the pool,
   and the listener thread starts to wait. *)
ForceConnectToNode(v) ==
  LET c == Who[v] IN
  /\ listener[c] = None
  /\ status[v] # "idle" /\ runs[v][c] = 0
  /\ listener' = [listener EXCEPT ![c] = v]
  /\ loads' = [loads EXCEPT ![c] = @ \cup {v}]
  /\ UNCHANGED <<scopeVars, clients, visitVars, visitCallVars, pinged, leaveVars, cmi>>

(* Faulty: it does not wait for the grape. *)
ForceConnectedAtOnce(v) ==
  LET c == Who[v] IN
  /\ listener[c] = v
  /\ listener' = [listener EXCEPT ![c] = None]
  /\ Rpc!Run(v, c) /\ succeeded' = succeeded \cup {<<v, c>>}
  /\ UNCHANGED <<scopeVars, clients, visitVars, loads, pinged, leaveVars, cmi>>

(* The grape exists: the answer is sent. *)
ForceConnected(v) ==
  LET c == Who[v] IN
  /\ listener[c] = v
  /\ At[v] \in grapes[c]
  /\ listener' = [listener EXCEPT ![c] = None]
  /\ Rpc!Run(v, c) /\ succeeded' = succeeded \cup {<<v, c>>}
  /\ UNCHANGED <<scopeVars, clients, visitVars, loads, pinged, leaveVars, cmi>>

(* The call ends: `then' is pushed to the engine. *)
Connected(v) ==
  /\ Rpc!Return(v)
  /\ connected' = connected \cup {v}
  /\ UNCHANGED <<scopeVars, clients, accepted, hooks, clientVars, leaveVars, cmi>>

(* Faulty: the wait has no time-out. *)
NotConnectedAnswered(v) ==
  /\ runs[v][Who[v]] > 0
  /\ Rpc!Fail(v)
  /\ UNCHANGED <<scopeVars, clients, visitVars, clientVars, leaveVars, cmi>>

(* ... or there is no answer in time.  The error is logged, the client stays in the
   registry, and it will load the grape all the same if the request reached it. *)
NotConnected(v) ==
  /\ Rpc!Fail(v)
  /\ UNCHANGED <<scopeVars, clients, visitVars, clientVars, leaveVars, cmi>>

-----------------------------------------------------------------------------
(* GetLatency, on the engine's thread of a client.                          *)

Ping(c, g) ==
  /\ EngineFree(c)
  /\ g \in grapes[c]
  /\ pinged' = [pinged EXCEPT ![c] = g]
  /\ UNCHANGED <<scopeVars, clients, visitVars, visitCallVars, listener, loads, leaveVars, cmi>>

(* The answer is taken by the listener thread. *)
Pong(c) ==
  /\ pinged[c] # None /\ ScopeAudience("peer", pinged[c]) # {}
  /\ listener[c] = None
  /\ pinged' = [pinged EXCEPT ![c] = None]
  /\ UNCHANGED <<scopeVars, clients, visitVars, visitCallVars, listener, loads, leaveVars, cmi>>

(* Faulty: the wait has no end while the listener thread is busy. *)
PingFailsIdle(c) ==
  /\ pinged[c] # None
  /\ listener[c] = None
  /\ pinged' = [pinged EXCEPT ![c] = None]
  /\ UNCHANGED <<scopeVars, clients, visitVars, visitCallVars, listener, loads, leaveVars, cmi>>

(* All tries have timed out. *)
PingFails(c) ==
  /\ pinged[c] # None
  /\ pinged' = [pinged EXCEPT ![c] = None]
  /\ UNCHANGED <<scopeVars, clients, visitVars, visitCallVars, listener, loads, leaveVars, cmi>>

-----------------------------------------------------------------------------
(* A client asks a node for an entity of its own.                           *)

(* CallCMIInstantiate, once per client, for a grape that serves the call. *)
CallCMIInstantiate(c) ==
  /\ cmi[c] = "none"
  /\ EngineFree(c)
  /\ Spawn[c] \in grapes[c] /\ ScopeAudience("peer", Spawn[c]) # {}
  /\ cmi' = [cmi EXCEPT ![c] = "sent"]
  /\ UNCHANGED <<scopeVars, clients, visitVars, visitCallVars, clientVars, leaveVars>>

(* CMIInstantiate: a named task for the engine of the node. *)
CMIInstantiate(c) ==
  /\ cmi[c] = "sent"
  /\ cmi' = [cmi EXCEPT ![c] = "queued"]
  /\ UNCHANGED <<scopeVars, clients, visitVars, visitCallVars, clientVars, leaveVars>>

PopCMIInstantiate(c) ==
  /\ cmi[c] = "queued"
  /\ EngineFree(Spawn[c])
  /\ cmi' = [cmi EXCEPT ![c] = "popped"]
  /\ UNCHANGED <<scopeVars, clients, visitVars, visitCallVars, clientVars, leaveVars>>

-----------------------------------------------------------------------------
(* A client leaves.                                                         *)

Disconnect(c) ==
  /\ EngineFree(c)
  /\ leaves[c] < MaxLeaves
  /\ leaves' = [leaves EXCEPT ![c] = @ + 1]
  /\ requests' = requests \cup {<<c, g>> : g \in {g \in grapes[c] : ScopeAudience("peer", g) # {}}}
  /\ UNCHANGED <<scopeVars, clients, visitVars, visitCallVars, clientVars, orders, cmi>>

(* Faulty: the grape that is told does not tell itself. *)
RequestOthersDisconnect(c, g) ==
  /\ <<c, g>> \in requests
  /\ requests' = requests \ {<<c, g>>}
  /\ orders' = orders \cup {<<c, p>> : p \in ScopeAudience("rpc", g) \ {g}}
  /\ UNCHANGED <<scopeVars, clients, visitVars, visitCallVars, clientVars, leaves, cmi>>

(* RequestClientDisconnect: the hook, in which the game calls ForceDisconnectClient. *)
RequestClientDisconnect(c, g) ==
  /\ <<c, g>> \in requests
  /\ requests' = requests \ {<<c, g>>}
  /\ orders' = orders \cup {<<c, p>> : p \in ScopeAudience("rpc", g)}
  /\ UNCHANGED <<scopeVars, clients, visitVars, visitCallVars, clientVars, leaves, cmi>>

(* ExecClientDisconnect: a node forgets the client. *)
ExecClientDisconnect(c, p) ==
  /\ <<c, p>> \in orders
  /\ p \in Client => listener[p] = None
  /\ orders' = orders \ {<<c, p>>}
  /\ clients' = [n \in Node |-> IF n = p THEN clients[n] \ {c} ELSE clients[n]]
  /\ UNCHANGED <<scopeVars, visitVars, visitCallVars, clientVars, leaves, requests, cmi>>

-----------------------------------------------------------------------------

NodeStep ==
  \/ \E n, g \in Node : RegisterGrape(n, g)
  \/ \E n \in Node : AssignGrape(n) \/ RegisterAssigned(n) \/ ServePeer(n)
  \/ \E v \in Visit : AcceptNewClient(v) \/ ConnectClientToThisNode(v) \/ Connected(v) \/ NotConnected(v)
  \/ \E c \in Client : CMIInstantiate(c) \/ PopCMIInstantiate(c)
  \/ \E c \in Client, n \in Node : RequestClientDisconnect(c, n)

ClientStep ==
  \/ \E v \in Visit : LoadGrape(v) \/ ForceConnectToNode(v) \/ ForceConnected(v)
  \/ \E c \in Client, g \in Node : Ping(c, g)
  \/ \E c \in Client : CallCMIInstantiate(c) \/ Pong(c) \/ PingFails(c) \/ Disconnect(c)

ConnectionsNext ==
  \/ NodeStep \/ ClientStep
  \/ \E p \in Peer, g \in Node : ServeScope(p, g)
  \/ \E c \in Client, p \in Peer : ExecClientDisconnect(c, p)

(* Threads go on; a call that gets no answer times out; what was sent to a scope that
   is served arrives.  An engine loads its grapes between whatever else it does, as
   long as it comes round again. *)
ConnectionsFairness ==
  /\ \A v \in Visit :
       /\ WF_connectionVars(ConnectClientToThisNode(v))
       /\ WF_connectionVars(Connected(v) \/ NotConnected(v))
       /\ WF_connectionVars(ForceConnected(v))
       /\ SF_connectionVars(LoadGrape(v))
  /\ \A c \in Client :
       /\ WF_connectionVars(PingFails(c))
       /\ WF_connectionVars(CMIInstantiate(c)) /\ WF_connectionVars(PopCMIInstantiate(c))
       /\ \A n \in Node :
            /\ WF_connectionVars(RequestClientDisconnect(c, n)) /\ WF_connectionVars(ExecClientDisconnect(c, n))

ConnectionsSpec == ConnectionsInit /\ [][ConnectionsNext]_connectionVars /\ ConnectionsFairness

-----------------------------------------------------------------------------

(* The variables keep their types; a peer serves the scopes of grapes it has
   registered, and the scope of a grape alone on its own node; a node whose registration
   has thrown serves nothing for its grape, now or later. *)
ConnectionsTypeOK ==
  /\ grapes \in [Peer -> SUBSET Node]
  /\ serves \in [Peer -> SUBSET ({"peer", "rpc"} \X Node)]
  /\ \A p \in Peer : \A s \in serves[p] : s[2] \in grapes[p] /\ (s[1] = "peer" => s[2] = p)
  /\ appointed \subseteq Node /\ unscoped \subseteq appointed
  /\ \A n \in unscoped : \A s \in serves[n] : s[2] # n
  /\ clients \in [Node -> SUBSET Client]
  /\ accepted \subseteq Visit /\ hooks \subseteq accepted /\ connected \subseteq accepted
  /\ status \in [Visit -> {"idle", "pending", "returned", "failed"}]
  /\ runs \in [Visit -> [Client -> 0..1]] /\ succeeded \subseteq Visit \X Client
  /\ listener \in [Client -> Visit \cup {None}]
  /\ loads \in [Client -> SUBSET Visit]
  /\ pinged \in [Client -> Node \cup {None}]
  /\ leaves \in [Client -> 0..MaxLeaves]
  /\ requests \subseteq Client \X Node
  /\ orders \subseteq Client \X Peer
  /\ cmi \in [Client -> {"none", "sent", "queued", "popped"}]

(* When the game of a node is told that a client is connected, the client has loaded
   the grape and the node knows the client, unless the client has left since it came:
   the answer says that the grape is there, although the game of the client loads it
   in its own time. *)
ConnectedKnown ==
  \A v \in connected :
    /\ At[v] \in grapes[Who[v]]
    /\ Who[v] \in clients[At[v]] \/ leaves[Who[v]] > 0

(* Both of them, in every reachable state: of ConnectClientToThisNode and ForceConnectToNode. *)
ConnectionsInv == ConnectionsTypeOK /\ ConnectedKnown

(* The listener thread of a client gets free again, even if the engine that is to load
   the grape waits for an answer that only the listener thread can take: the wait has
   a time-out. *)
ListenerFreed == \A c \in Client : listener[c] # None ~> listener[c] = None

(* A node that is told that a client leaves forgets it, once it serves the scope on
   which it then tells itself. *)
LeaversForgotten ==
  \A c \in Client, n \in Node :
    <<c, n>> \in requests /\ <<"rpc", n>> \in serves[n] ~> c \notin clients[n]

(* What waits for the engine of a node is run, although the engine waits for one client
   after the other: hooks of clients that were accepted, and instantiations. *)
EngineServes ==
  /\ \A v \in Visit : v \in hooks ~> status[v] \notin {"idle", "pending"}
  /\ \A c \in Client : cmi[c] = "sent" ~> cmi[c] = "popped"

================================================================================
