# A verification development for Celte

Celte is the server meshing layer of a multiplayer game: several server nodes
share one game world, each owns the *containers* it created, and every entity is
in one container.  Nodes and clients (*peers*) talk over the non-persistent
topics of Apache Pulsar.  Each peer is a game engine linked with the library
under `src/system`; a master in C# (`src/master`) accepts nodes and clients.

This directory holds TLA+ models of the parts of that system whose correctness
depends on the order of things, configurations that model-check them with TLC,
and theorems about them that TLAPS checks.

## 1. Inventory

| Part (source) | State it keeps | Operations | What is hard | What makes it correct |
|---|---|---|---|---|
| **Authority transfer** (`AuthorityTransfer.cpp`, `ETTRegistry.cpp`, `Container.cpp`) | a copy of the entity per peer (`ownerContainerId`, `quarantine`, `isValid`), the container registry, `_ownedEntities`, the engine's task queue | transfer, take order, drop order (two seconds late), delete order, instantiate, unregister, join and leave a container | three threads per peer; orders on two topics, lost and reordered; check-then-act around released accessors | one server has authority; quarantine ends; after a transfer all agree; a deletion reaches every copy |
| **Remote calls** (`CRPC.hpp`, `CRPC.cpp`) | promises by call id, registered methods, an LRU set of known ids, a pool of producers | call, call_async, fire_and_forget, retry, register, unregister, handle a request or an answer | time-outs that race answers; retries with the same id; a bounded set of ids; requests and answers through one set | a method is run at most once per call; a caller is woken; a call ends; retries make up for losses |
| **Container subscriptions** (`ContainerSubscriptionComponent.cpp`, `Grape.cpp`) | subscriptions per component, a reference count per container | subscribe, unsubscribe, load existing entities, leave | subscribe and unsubscribe run as tasks of a pool with several threads and may swap; counts that are not incremented | the last change wins |
| **Grape registry** (`GrapeRegistry.cpp`, `Grape.cpp`) | grapes with their subscriptions and their clients, the locally assigned grape | register, create container, proxied subscribe and transfer | blocking calls with an accessor held; state recorded before the call that may fail | one assigned grape; recorded subscriptions match the remote side |
| **Peer service, client registry** (`PeerService.cpp`, `server_src/ClientRegistry.cpp`) | connected clients and the containers each is subscribed to | accept, connect, subscribe, unsubscribe a client | tasks of a pool reorder; a failed call is never undone | the server's view of a client agrees with the client's containers |
| **Ghost replication** (`GhostSystem.cpp`) | property values with the times of the last change and the last poll, the next update of each container, a worker | set, poll, apply an update, fetch, replicate, answer with all values | values have no version and come by three ways (packets, answers to a join, take orders); a value that is equal is not sent again; a look-up before the lock | the last value set arrives; nothing older replaces it; no change is hidden from polling |
| **Streams** (`ReaderStream.*`, `TrashBin.cpp`, `CelteService.cpp`; `WriterStream.hpp`, `WriterStreamPool.*`) | consumers with a count of pending messages, producers with a time of last use, a bin of services to destroy | open, close, handle, write, expire | closing while a message is handled, or before the stream has opened; an old object of a container and a new one share a subscription; a wait that never returns | a message is handled once; no handler of a closed stream is at work; tasks and messages get on |
| **Pools and clock** (`AsyncTaskScheduler.cpp`, `Executor.cpp`, `Clock.cpp`) | queues of tasks, threads; offset to the master clock, heap of scheduled tasks | push, start, finish; tick, schedule at | tasks that keep their thread for ever; seconds truncated, a missed tick | every task gets a thread; tasks fire at or after their time |
| **Start of a peer** (`Runtime.cpp`, `PeerService.cpp`, `GlobalRPC.cpp`, `CustomRPC.hpp`) | `_peerService`, the object of the global scope, functions by name | connect, register methods, ask the master, register a function, call it | a task of the pool uses what the engine's thread is about to assign; an object made by two threads | the engine is told of success when everything serves; calls reach the function |
| **Coming and leaving** (`Runtime.cpp`, `PeerService.cpp`, `Grape.cpp`) | connected clients, the grapes a peer knows and the scopes it serves | accept, connect, load a grape, ping, disconnect | an engine that waits for a listener thread that waits for an engine | both sides agree; no thread waits for ever; who leaves is forgotten |
| **Logger, redis and metrics** (`Logger.cpp`, `MetricsScrapper.cpp`) | a queue of commands and a worker; a thread that uploads | log, set, get, get async, upload, exit | a notification before the wait; a read that waits for its own thread; a loop without end | a read sees the caller's writes; every read returns; the exit ends |
| **Master** (`src/master`) | processes per session; nodes, clients, locks and sessions in redis; Pulsar namespaces | create and accept a node, send a client, open, clear and clean up a session, shut down | a lock that expires or stays; a map taken between `GetOrAdd` and `TryAdd`; partial failure of the broker and of redis; names that begin alike | a cleanup leaves no process behind; a node that was started is let in; every request ends |
| **Inputs** (`CelteInputSystem.*`, `ETTRegistry.cpp`, `WriterStreamPool.hpp`) | a list of inputs per copy and name, a pool of writer streams per peer | upload, open, write, expire, handle | the entity moves while inputs go to the container it was in; a stream that is not ready, or is dropped while in use | inputs reach the server that has authority |
| **Left** (`ReplicationGraph`, HTTP, Kubernetes) | – | – | pure I/O, or code the game supplies | not modelled |

How they interact: the engine calls the exported functions, which call the
registries; the registries publish through remote calls; one listener thread per
peer (`CelteNet.cpp:20`) runs the handlers; handlers push tasks to the engine's
queue, to the pool or to the clock; the pool calls other peers and waits.

The hazards found while reading, each at its line, are in `PROJECT.json`.

## 2. Modules

| Module | What it is |
|---|---|
| `Authority` | what the transfer promises: authority is created once, belongs to one server, may move or be lost, and never comes back from nowhere, until it is given twice |
| `AuthorityTransfer` | the protocol as the code runs it, for one entity |
| `AuthorityClaims` | the inductive invariant `OneClaim`, and the refinement mapping to `Authority` |
| `EntityInputs` | the inputs of an entity that moves as `AuthorityTransfer` says, which it extends |
| `AuthorityProofs` | the theorems about them |
| `MCAuthorityTransfer`, `MCEntityInputs` | their instances |
| `RemoteCall` | what a remote call promises: it runs once on a peer, until the peer forgets it did, and ends at most once, with a result some run gave or as a failure that says nothing |
| `RpcCall` | calls, time-outs, retries and known ids as the code has them |
| `RpcProofs` | the theorems about them |
| `MCRpcCall` | its instances |
| `GhostReplication` | the properties of one entity, from the engine that sets them to the copies, by packets, answers and orders |
| `GhostProofs` | the theorems about it |
| `MCGhostReplication` | its instance |
| `Subscriptions` | what a server believes of the subscriptions of clients and remote grapes, and what they are; composed with `RemoteCall` |
| `SubscriptionsProofs` | the theorems about it |
| `MCSubscriptions` | its instances |
| `Pool` | a pool of threads and its queue |
| `Streams` | the streams of a container from the subscription to the trash; composed with two `Pool`s |
| `StreamsProofs` | the theorem about it |
| `MCStreams` | its instance |
| `Peers` | who takes part in `Connections` and `PeerStartup`: nodes and clients |
| `Connections` | clients that come to a node and leave it, the engines and the listener threads that wait for each other; composed with `RemoteCall` |
| `MCConnections` | its instance |
| `PeerStartup` | the start of a peer, the object of the global scope, calls by name |
| `MCPeerStartup` | its instance |
| `RedisLogger` | the thread of redis, those that use it, the upload of metrics and the exit |
| `MCRedisLogger` | its instance |
| `PeerProofs` | the theorems about `PeerStartup`, `Connections` and `RedisLogger` |
| `Namespaces` | the Pulsar namespaces of the sessions |
| `MasterSessions` | creation of nodes, and cleanup of sessions, by the master; composed with `Namespaces` |
| `MasterSessionsProofs` | the theorems about it |
| `MCMasterSessions` | its instance |
| `MasterNodes` | what the master keeps in redis: nodes, the locks on their acceptance, spawners |
| `MasterNodesProofs` | the theorems about it |
| `MCMasterNodes` | its instance |

### AuthorityTransfer

The state of a peer `p` is its copy `ett[p]` (the fields of `struct Entity` the
protocol reads), the container registry `containers[p]`, the containers whose
topic has handlers `listening[p]`, `ownedIn[p]` for `_ownedEntities`, the engine's
queue, and where its threads are: `publishing[p]` while `TransferAuthority` has put the copy
in quarantine and not published its orders, `taking[p]` while `ExecTakeOrder` is between its
two look-ups, `dropping[p]` while `__execDropOrderImpl` holds the entity's accessor
between its two `ContainerExists`, `leaving[p]` while `UpdateRefCount` holds the
container's accessor.  An accessor of `tbb::concurrent_hash_map` is a lock on the
entry: `EntityUnlocked` and `leaving[p] # c` are the waits on it.  `EngineFree` and `ListenerFree`
say that a thread is not in the middle of something else; a client joins and leaves containers
on its listener thread.  `took` and `twice` are history: the servers whose copy got authority at
the first look-up of the take order they execute, and whether the second look-up then found that
copy gone and asked for another one.

| Action | Code |
|---|---|
| `RegisterEntity`, `TransferAuthority` + `PublishOrders`, `SendEntityDeleteOrder`, `UnregisterEntity`, `AdvanceTopLevelExecutorTask` | the engine's thread |
| `ExecTakeOrder` + `FinishTakeOrder`, `ExecDropOrder`, `ExecDeleteEntity` | the listener thread |
| `FireDropOrder` + `FinishDropOrder`, `SubscribeToContainer`, `GetExistingEntities`, `LoadExistingEntities`, `LoadTimeout`, `DeleteEntitiesInContainer` + `EraseContainer` | pool threads |

Abstractions, each with its reason:

* One entity.  The protocol keeps nothing across entities but the containers.
* Time.  A drop order fires some time after it was received; the two seconds of
  `AuthorityTransfer.cpp:262` do not bound anything, since nothing bounds a take
  order on another topic.
* Loss is decided when an order is published: a set of listeners gets it.  A lost
  order and one that is never handled are the same to the receiver.
* The publication of a delete order, an IO task in the code, is merged with the
  message's delay.  The drop and the take order of one transfer are published in one step.
* A container that was left keeps its handlers (`listening` only grows): its
  destruction waits in `BlockUntilNoPending`, which compares a pointer with 0 and
  does not return.  Containers of a peer's own are not left.
* The engine obeys what the library asks of it: it creates an entity in a container
  of its own, under a fresh id, and transfers only what it owns.
  `OwnersDelete = FALSE` lifts the last rule for deletions; the theorems cover it.
* Not modelled: a transfer asked for by another grape (`ProxyTakeAuthority`), the
  payload of an order.  The ghost data are in `GhostReplication`.

### EntityInputs

The module extends `AuthorityTransfer`: a step of the transfer is `EntityStep`, and everything else
leaves the entity alone.  `topic[i]` is the container whose input topic an input was
uploaded to, `via[i]` the stream that writes it; `pool[p][c]` is the entry of `WriterStreamPool` for
that topic, `ready` are the streams with a producer, `unwritten` the inputs that wait for one.
`inbound` are inputs on their way to a listener, `got[p]` what is in `Entity::inputs` of the copy of `p`.

| Action | Code |
|---|---|
| `UploadInputData`: `OpenFor`, `Defer` or `WriteNow` | the engine of a peer that plays: `ETTRegistry::UploadInputData`, `WriterStreamPool::Write` without an entry, with a stream that is not ready, with one that is |
| `ProducerReady`, `WriteFirst` | the callback of `WriterStream::Open`, and its `onReady` |
| `WriteDeferred` | the IO task that waits for the stream |
| `ExpireStream` | the cleanup thread of the pool |
| `HandleInput` | the listener thread |

Abstractions: a list keeps the last ten inputs of a name, and here all of them.  A stream that the
pool drops while its producer is being made is used after it is gone; the model lets it do
what it would have done, or nothing.  An entry may expire at any time, since the time of last use
is written to a copy of it.  What an input says is left out.

That an input reaches the server that plays the entity is not so in general: it goes to the
container that the copy of the sender is in, and the entity may have moved.  `calm`
are the inputs that were uploaded while the entity was settled, and that no transfer or deletion
has crossed since.

### RpcCall

A call is an `rpc_id`.  `state[c]` is where its caller is; `promises` and `result[c]`
are the map of promises and the future of the last attempt; `recent[p]` is the LRU
set of `UniqueTaskManager`, which one process has for requests and answers
together; it holds 100 ids in the code and `Capacity` here, less than there are calls.
`others[p][c]` is a history: the ids `p` took since it last took that of a call it has run
(`TakeId`); when they are as many as the set holds, the call is `Forgotten`.  `listening`
are the peers whose scope has a consumer, `scoped` those whose `_methods` hold the scope,
`served` those that have the method in it: a peer that listens for answers on its own scope
(`Runtime.cpp:147`) takes requests before it has registered anything there
(`PeerService.cpp:66-77`), remembers their ids and does not answer (`ScopeNotFound`).
`requests` and `answers` are messages on their way, told apart by the
number of retries left, which is the attempt they belong to.  One listener thread
per peer handles a message whole.  `Retry` sends the same id again, as
`__handle_failure` does.

Abstractions: arguments and results are `"json"` or `"null"`, since the caller reads
null as a failure.  All calls have a time-out, as every call in the repository
does (`with_timeout`); a caller in `Patient` waits until nothing of its call is on
its way.  A method that returns nothing is called by `fire_and_forget` only.  No
handler calls another peer and waits.  A failed write, and a message that the pool of
producers drops because two threads made the producer of a topic at once, are lost requests.

### GhostReplication

`props[p]` is the entry of the entity in `_ettProps` of peer `p`, `fresh[p]` the
properties with `lastUpdate > lastSync`, `polled[p]` what the engine was given.
`next[c]` is the entry of `_nextUpdate` for container `c`, `hand[c]` the update that the
worker fetched and has not published, `chan[c][p]` the packets of the topic of `c`
that a listening peer has not handled.  `setting[p]` is `UpdatePropertyState` between
the look-up of the container and the lock on the properties.  `answered`, `takes`,
`taking`, `tasks` and `making` hold ghosts: all values of the entity at a peer, taken at some
moment, on their way in an answer to `GetExistingEntities`, a take order, the engine's queue,
or the hands of an engine that has registered the copy and not applied them yet.  A copy may
be lost in between: `drops` are drop orders on their way or waiting for their time, `dropping`
those that found the container missing at their first look, `deletes` the deletions in an
engine's queue, and `erasing` the peers that have unregistered the copy and not erased its
values yet.

| Action | Code |
|---|---|
| `UpdatePropertyState` + `SetProperty`, `PollPropertyUpdate`, `TransferAuthority` + `PublishOrders`, `EngineCallInstantiate` + `ApplyGhostToEntity`, `UnregisterEntity` + `TryRemoveEntity` | the engine's thread |
| `ExecDropOrder` + `ScheduleDeletion` | a task of the pool that waits for the time of the order, with the lock of the entity |
| `FetchNextUpdate`, `ReplicateData` | the upload worker of a server |
| `HandleReplicationPacket`, `GetExistingEntities` + `PeekProperties`, `ExecTakeOrder` + `FinishTakeOrder` | the listener thread |
| `SubscribeToContainer`, `OpenStream`, `LoadExistingEntities` + `LoadInstantiates` | listener and pool threads |
| `LosePacket`, `LoadFails` | the network |

No value has a version, so no order of arrival is safe by itself: a copy keeps
what comes last.  What the code does guarantee has to be said with a history.
`latest[k]` is the last change of `k` made by a server that has authority, and `calm`
are the properties whose last change nothing crossed: when it was made
(`Undisturbed`) one server had authority, every other copy listened to its container,
the entity was not moving, nobody was joining, and no other container still had a
value of `k` to deliver; and since then no packet with `k` was lost, the entity was
not transferred while a value of `k` was on its way, and neither of two races took place:
`TryRemoveEntity` erases the values of an entity that another thread has registered again,
is about to register with values it has just applied (`ETTRegistry.cpp:152`), or answers with;
and a server answers `GetExistingEntities` between the registration of its own copy and the
ghost it was made for.  Without any one of these clauses
TLC finds a trace in which a copy stays on an older value.  In particular, a
server that gets authority and sets a property while a packet of the former
owner's container is on its way, and a peer that joins between a publication
and the opening of its stream, may disagree for ever; no document of the
repository promises otherwise.

Abstractions:

* One entity.  Its orders are not lost: lost orders are in `AuthorityTransfer`.  A take and
  its drop order are published in one step.
* `LoadInstantiates` is `EngineCallInstantiate` by a thread of the pool, which applies no
  ghost after it.
* The worker fetches and publishes each container on its own, so updates of two
  containers of a server may be published in any order.
* The creation of the entity is over: at the start every peer that is subscribed to
  `Home` has a copy without properties.
* A peer joins containers and does not leave them.
* The placeholder `"{}"` that stands for a ghost without properties sets one property
  with an empty key, which `PeekProperties` erases again; it is not modelled.

### Subscriptions

The server is the one whose containers are in question.  `tracked[p]` is
`remoteClientSubscriptions` of a client and `_proxySubscriptions` of a remote grape;
`subscriptions[p]` is `_subscriptions` of the peer's `ContainerSubscriptionComponent`,
which for a node is that of its `Grape` object for the server's grape.  `queued` are
tasks of the server's pool, `tasks` those of the nodes' pools, `joined` the nodes that
have registered the server's grape and `fetching` those that have not fetched its
containers yet.  The constants `To`, `Of`, `On` say what each change is about, so a
state only says how far each has got.

| Action | Code |
|---|---|
| `CreateContainer`, `RegisterRemoteGrape`, `ChangeClient`, `SetRemoteGrapeSubscription` | the engine's thread of the server; it waits in the calls it makes itself (`EngineFree`) |
| `RegisterClient`, `ForgetClient` | handlers of the server |
| `CallClient`, `CallReturns`, `CallFails` | its pool, and callers of remote calls |
| `RunOnClient`, `RunOnGrape` | the listener of the peer |
| `RunTask`, `Join`, `FetchExistingContainers` | the pool of the node |

The calls are not modelled again: the module takes the actions of `RemoteCall`, which
`RpcCall` implements, and adds what the methods do.  So a call may fail although the
method was run, and the request of a failed call may arrive later.

Nothing orders two changes of one subscription: both are tasks of a pool, at the server
for a client, at the node for a grape.  What the code does guarantee is said with a
history again.  `calm` are the pairs of peer and container whose last change was
ordered (`Ordered`) when no earlier one was under way and, for a grape, its node had
joined; and since then its call did not fail before it was run, the client was not
forgotten, and no fetch subscribed the node to a container that is not recorded.

Abstractions: the server's own grape is registered; the existing entities a subscriber
loads are in `AuthorityTransfer` and `GhostReplication`; the list of containers is
fetched and applied at one moment, since the node holds the accessor of the grape that
its tasks need; the container object of a subscription is in the registry while the
subscription is there.

### Streams

An object is one that `Container` makes at a subscription: `registry[k]` is the one in the
registry, `used` are all that were made.  `ioQueued` and `ioRunning` are the IO pool, which
opens streams; `queued` and `running` the computing pool, on which `WaitForNetworkReady`
waits and `__cleanup` closes.  `connected`, `copies` and `removing` are the broker's side.

| Action | Code |
|---|---|
| `Subscribe`, `Unsubscribe` | the engine and handlers: a container enters and leaves the registry, and the trash |
| `StartTask`, `StartOpen` | `AsyncTaskScheduler`, `AsyncIOTaskScheduler` |
| `Connect`, `ConnectFails`, `ConnectThrows` | `__subscribe`: an attempt that ends well, one that is counted, and attempts that throw without end |
| `NetworkReady` | `WaitForNetworkReady` |
| `SetClosed`, `PauseListener`, `Leave`, `Block` | `ReaderStream::Close` step by step, and `BlockUntilNoPending` |
| `Enter`, `Drop`, `Handle`, `Handled` | the message delegate, cut where it reads `_closed` |
| `Publish`, `Unsubscribed`, `UnsubscribeRefused` | the broker (external) |

`BlockUntilNoPending` compares the pointer to the counter with zero: a cleanup that gets
there keeps its thread, and its object is never destroyed.  So a property about tasks has to
except the threads that are lost (`Lost`).  An attempt to subscribe that throws is not counted,
so that a task may keep its thread of the IO pool for ever (`spinning`); one that throws for a
while changes nothing.  A consumer that is closed before it is connected
is not unsubscribed; one whose topic has another consumer is refused, and stays.
Abstractions: the names of the streams of an object are a sequence; the writer streams are
in `EntityInputs`; an attempt to subscribe ends at no particular time.  `given[m]` is history:
the consumers that the broker gave `m` to.

### Connections

Each node has one grape, named as the node is.  `listener[c]` is the one listener thread of
a client, kept busy by the loop of `ForceConnectToNode`; `pinged[c]` says that the engine of
`c` waits in `GetLatency`; the engine of a node waits in `ConnectClientToThisNode`
(`EngineFree`).  `serves[p]` are the scopes of grapes that `p` serves: what is sent to a scope
nobody serves is lost (`ScopeAudience`).

| Action | Code |
|---|---|
| `RegisterGrape`, `RegisterAssigned`, `ConnectClientToThisNode`, `PopCMIInstantiate` | the engine of a node |
| `LoadGrape`, `Ping`, `CallCMIInstantiate`, `Disconnect` | the engine of a client |
| `ServePeer`, `ServeScope` | the pool: `initRPCService` |
| `AssignGrape`, `AcceptNewClient`, `CMIInstantiate`, `RequestClientDisconnect`, `ExecClientDisconnect` | listener threads of nodes |
| `ForceConnectToNode`, `ForceConnected`, `Pong` | the listener thread of a client |
| `Connected`, `NotConnected`, `PingFails` | the ends of calls, with their time-outs |

`AssignGrape` stores the grape of a node before its hook makes the engine register it, and
`RegisterGrape` then throws once the grape is in the registry: it has no identifier of its own and
no task that would serve its scopes (`RegisterAssigned`, `unscoped`).  Only a node to which nobody
assigned its grape gets to serve it; nothing under `src/` sends the request.

Abstractions: the engine goes on after the throw, and polls the tasks of all grapes in its registry;
a visit is one request of the master to accept a client; the hook of a new
client connects it and that of a request to leave disconnects it, as `HookTable.hpp` expects of
a game; the containers of the client are in
`Subscriptions`.

### PeerStartup

`stage[p]` is how far the task of the pool has come, `assigned` the peers whose engine has
stored the `PeerService` that the task uses.  `making`, `bound` and `held` tell apart the
objects that two threads may make for the global scope: the methods of a scope stay bound
to the first, the pointer keeps the last.  Engine and pool are the two `Maker`s.

| Action | Code |
|---|---|
| `Connect`, `ConnectToCluster`, `Assign`, `RegisterGlobalRPC`, `RegisterInNew`, `RegisterClientRPC` | the engine's thread |
| `RegisterFirst`, `RegisterOthers`, `UseUnassigned`, `InitGlobalRPC`, `HoldGlobalRPC`, `ClientReady`, `AskMaster`, `Accepted`, `NotAccepted`, `NodeReady` | the task that the constructor of `PeerService` leaves to the pool, and its callback in `Runtime` |
| `Subscribe` | the constructor of the object, in either thread |
| `CallGlobalRPC`, `CallClientRPC`, `Run`, `NotFound`, `Dangling` | calls by name and the listener thread |

`UseUnassigned` and `Dangling` are undefined behaviour: the process may end.  Abstractions:
one function; the caller is a peer that has started; nothing is lost between a caller and a
scope that is served (losses are in `RpcCall`).

### RedisLogger

`worker` is where the thread of redis is, cut where another thread may come in between:
between the check of the queue and the wait, between the flag and the notification.
`caller[c]`, `done[c]` and `result[c]` are a call of `GetRedisKVP` and what lies on its
stack.  A condition variable that is notified while nobody waits forgets it: a caller
between its look at the flag and its wait is `Missed`.  `main` is the destructor that runs and
`left` the objects that are still there: the logger and the metrics are destroyed in the reverse
of the order in which they were made, which is not fixed.  One key and one metric are modelled; which
metrics there are is left out, and so are other peers that set the same key.  Redis may refuse a
command; the code takes any reply for success, so a set that was refused is lost unheard, and the
text of an error is returned as a value.  `ClearSession` is the master.  `gone` are the sets that were
refused or cleared: for these a thread does not read what it has set.

### MasterSessions and Namespaces

Every request of the master is a task (`at[r]`), cut at its awaits.  `current[s]` is the map
of the processes of a session, `held[c]` the map that a creation got from `GetOrAdd`: a
cleanup may remove it before the creation adds its process.  `maps[x]` and `doomed[x]` are
what a cleanup has still to go through.  The deletion of a namespace is a chain of requests
to the broker (external), of which each may be refused or carried out unheard.

| Action | Code |
|---|---|
| `RequestNode`, `StartProcess`, `StartContainer`, `FindMap`, `Track`, `Register` | `Nodes.CreateNode`, `UpAndDown.Up` |
| `BeginCleanup`, `TakeMap`, `Kill`, `DeleteSessionNamespace` | `Sessions.CleanupSession`, `CleanupSessionProcesses` |
| `BeginShutdown`, `Stop` | `Program.Main`: `ApplicationStopping` |
| `OpenSession`, `SendClient`, `OpenTopic` | `Sessions.CreateSession`, `RPC.ConnectClientToNode`, a node |

What a cleanup promises is said with a history: `before[x]` are the processes that were
started before, `overlapped` the creations whose map was taken between `GetOrAdd` and
`TryAdd`.  `Expected` excludes these, the processes of a master in a container (whose nodes
are containers that it does not track), and a node whose id another node got as well.  That a
process cannot be killed is caught and logged: it is `"unkilled"`, runs on, and is in no map and on
no list; the cleanup is answered as if it were dead.  So the two properties speak of those which
nothing has failed to kill.

### MasterNodes

`nodes`, `lock[n]` and `spawners[k]` are keys of redis.  The process of a node runs before
its node is registered (`Start`, `Register`), so that it may ask to be accepted too early
(`Ask`).  The lock on the acceptance lives ten seconds; `LookupFails` leaves it behind,
`LockExpires` takes it from whoever has it, and `LockUnheard` is Redis that cannot be reached, which
Redlock tells in the same way as a lock that is taken.

| Action | Code |
|---|---|
| `Start`, `Register` | `UpAndDown.Up` |
| `Ask` | `Runtime::__connectToMaster`, once for each process |
| `TakeLock`, `LockTaken`, `LockUnheard`, `AnswerNode`, `LookupFails` | `Nodes.AcceptNode`, `acceptNodeImpl`, `Utils.Retry` |
| `Announce` | the game of a node, by `SetRedisKVP`, whatever the master has answered |
| `ClearKeys`, `ListFields`, `ClearField`, `EndClear` | `RedisDb.ClearSession` |
| `LookUpSpawner`, `SendClient` | `GetSNFromSpawnerId`, `Clients.ConnectClientToCluster` |
| `Flush` | the end of the master |

Names are compared as they are written, and what begins with what is given by constants.
`NamedFrom[s]` are the nodes whose ids begin with the name of session `s`: those of its own session,
those of a session whose name is longer, and, as an id that is counted begins with `sn-`, those of
any session if `s` is `sn`.  `KeysOf[s]` are the keys of spawners that begin with it: the name of a
session and that of a spawner are put together without a separator, so that two sessions may
make one key.  `Sweeping` are sessions whose names are the beginning of `nodes`, the key under which all
registrations are.  That clearing a session named like the beginning of `counter:` numbers
nodes anew is not modelled.

## 3. Runs

| Run | Bounds | Shows |
|---|---|---|
| `AuthorityDynamic` | 2 servers, 2 containers, 3 transfers, 2 subscriptions or unsubscriptions, 1 deletion, at most 3 of these in all, up to 2 tasks that delete a copy, fair | `TypeOK`; `SingleAuthority`, its inductive invariant `OneClaim`, the refinement `AuthorityKept`; a copy put in quarantine leaves it or is deleted (`QuarantineEnds`) |
| `AuthoritySettled` | 3 servers and a client that plays, 3 containers, 3 transfers one by one, 1 deletion, 2 inputs of which 1 may cross a transfer | `SettledAgreement`, `DeletionReachesAll`, `InputsInv` (types, `InputsReachAuthority`) |
| `RpcCalls` | 2 peers, calls in both directions and a message, 1 retry, 2 requests and 1 answer lost per call, sets of 2 ids, the method registered and unregistered, on a scope that is listened to before or not, fair | `RepeatsOnlyForgotten`, `WaitsOnPromise`, `RetriesCoverLostRequests`, `CallEnds`, the refinement `IsRemoteCall` |
| `Subscriptions` | 1 client subscribed and unsubscribed once, forgotten and accepted again any number of times, 1 remote grape subscribed twice and unsubscribed once, each call may fail, fair | `SubscriptionsInv` (types, `ChangesArrive`), and that server and peer come to agree (`Converges`) |
| `GhostUpdates` | 2 servers and a client that polls, 2 containers, 1 property with 2 values, 2 changes, 2 of 2 transfers, 1 join and 1 packet or call lost, fair | `PollMissesNothing`, `LatestArrives`, and that the copies end with the last value (`Converges`) |
| `Streams` | 1 container, subscribed twice (2 objects of 2 streams), 1 message, 1 attempt per stream, 2 computing threads and 1 for IO, fair | `StreamsInv` (types, `HandledOnce`, `QuietOnceClosed`); `TasksRun`; `MessagesArrive` |
| `Connections` | 1 client sent to 2 nodes, one of which has started, 1 ping at a time, 1 instantiation, 1 disconnection, every call may time out, fair | `ConnectionsInv` (types, `ConnectedKnown`); `ListenerFreed`; `LeaversForgotten`; `EngineServes` |
| `PeerStartup` | 1 node and 1 client, a function for all peers, 1 call to the global scope and 1 to that of the client, fair | `StartInv` (types, `SuccessServed`); `CallsReach`; `StartEnds` |
| `StartRefused` | the same, without fairness | a violation: `HookTable.hpp:54-58` has one hook for a connection that is successful and one for a connection that failed; a node which the master refuses is told of both (`SuccessOrFailure`) |
| `RedisLogger` | 2 threads, 3 operations, failures of the upload logged while the queue is empty, the connection lost, commands refused and the key cleared at any time, the two destructors in either order, fair | `LoggerInv` (types, `ReadsOwnWrites`); `GetsAnswered`; `ExitEnds` |
| `MasterSessions` | 1 session, 3 requests out of 3 creations (2 of which get one id; at most 2 are made), 2 cleanups, 1 opening, 1 client, and the end of the master, fair | `SessionsInv` (types, `ProcessesTracked`); `CleanupsComplete`; `RequestsEnd` (any kill may fail) |
| `MasterNodes` | 3 processes of 2 nodes, of which 2 are started, 4 sessions (one name begins with another, one is `sn`, one the beginning of `nodes`), 2 keys of which one is made by two sessions, 1 clearing or 1 client, 2 attempts at the lock, fair | `NodesInv` (types, `LocksExclude`, `ClientsSent`); `RefusalsExplained`; `AllAnswered` |

Why the bounds are enough to be interesting: two transfers are needed for an order
of an old one to meet a new one, three for an entity that goes, comes back and goes again while
the take order of its return is being executed; that nothing is lost there hides no state from
an invariant, since an order not yet delivered looks like a lost one, and the
theorems cover losses; two inputs open a stream and find it, waited for, ready or dropped; two subscription changes
make a peer leave and join a container during a
transfer.  Two lost requests exceed one retry, and sets of two ids forget
one of three calls while a copy of its request is on its way.  Two changes are what an older value
needs to overtake a newer one; with two transfers, or a transfer and a join, each of the three
ways a value travels is used, together with any other, and a copy that goes meets one that comes.  Three changes of one
subscription are what a late request needs to undo a later change.  Two objects of a
container are what an old consumer needs to take a message of the new one, and with two
computing threads one may be lost and the other go on.  A visit to a node that has
registered its grape and one to a node that has not give both orders of accepting and
registering.  Three operations on the redis queue are a write, a read and a task of another
thread between them; the flag, the wait and the exit interleave in every way.  Two
processes of one node are what the lock is for, and a cleanup and a shutdown, or two
cleanups, are what can find a process twice.  Safety does not rest on the bounds: every
invariant and every action property of the runs is proved for all of them (section 4).  What
rests on the bounds is liveness.

The deadlock check is on in the runs of `AuthorityTransfer`, `EntityInputs`, `RpcCall`,
`GhostReplication` and `Subscriptions`: `Idle` is the only step of a system with nothing pending, so a state in
which threads wait on each other is reported.  It is off in the seven others, where the
system may really stop: the requests and operations that the bounds allow are used up, a
process has ended, or the threads that are left wait for ever, as the code lets them (a
cleanup in `BlockUntilNoPending`, a worker that waits for itself).  There the liveness
properties say who goes on.

Fairness: the engine drains its queue at every frame, the pool and the listener
threads take the next task or message, and the clock fires what is due: weak
fairness for each peer's `Work`.  Nothing the engine decides to do is fair, nor a
loss, nor a time-out of `GetExistingEntities`.  In `RpcCall` a caller waits for a
time-out only, so it goes on, and the listener threads handle what arrives.  In
`GhostReplication` the upload worker runs for ever (`GhostSystem.cpp:116`), a drop order is
carried out some time after it is due, and the engine ends a call it has begun; when it polls, sets or moves is its own decision.
In `Subscriptions` the pools run their tasks and a caller hears of the end of its
call, as `CallEnds` of `RpcCall` says; no fairness makes a request arrive.
In `Streams` the threads of both pools and the listener thread go on while they have
something to do; neither the broker nor the engine need.  In `Connections` the calls of an
engine end by their time-outs and the listener threads take what arrives; that an engine
loads a grape it was told to load is strong fairness, since the engine comes round to its
tasks between calls that block it, again and again.  `PeerStartup` is fair to the task of
each peer, to the broker and to the listener thread, not to the engine.  `RedisLogger` is
fair to each thread; that the connection breaks, or the process exits, is not fair.  The
master goes on with what it has begun, since each request to redis or to the broker ends
within its time-out; no lock need expire.

### Seen while modelling

What TLC shows when a property is taken without the exception it states, or a constant
is set otherwise; each is among the hazards.

* Authority: an entity goes from a to b and back, and the drop order of the first move is
  then due at a: it removes the entity from the list of the container that owns it.
  `ExecTakeOrder` releases the entity before it looks the registry up again
  (`AuthorityTransfer.cpp:211-215`), and other threads of the peer may run in between.  If the
  first look-up finds no copy and a pool thread then loads one, it is neither moved nor
  instantiated.  If the first gives the copy authority and the copy is gone at the second, the
  engine is asked for a new one, and two servers may end up with authority: s1 creates the
  entity in its container ca and transfers it to ca; the take order of that reaches s1, whose copy has
  authority again; before the second look-up s1 transfers it to cb of s2, deletes its own copy
  and unregisters it; s1 then instantiates it in ca while s2 executes its take order.  It also happens
  with a drop order of an earlier transfer in place of the deletion.  `SingleAuthority`, `OneClaim` and
  `AuthorityKept` except what follows such a second grant (`twice`), and nothing else.  A copy that was
  invalidated, its deletion queued, is brought back by a late answer or order, and the
  queued task throws in the engine's loop; it takes a subscription that changes during a
  transfer, or three overlapping transfers.  `SendEntityDeleteOrder` invalidates the local
  copy before it looks at the owner, although `ETTRegistry.hpp:151` says that nothing happens
  for an entity of another server.  `DeletionReachesAll` needs deletions of settled
  entities, since a delete order goes to the listeners of the container the entity is in at
  that moment.  A drop order that is due after its entity came back to a server that is
  not subscribed to the other container discards the copy of the owner, so that nobody has
  authority any more; `Authority` allows that as `Lose`.
* Remote calls: a retry whose first attempt was handled is dropped by the callee,
  unanswered.  A peer that calls itself drops the answer, which has the id of the request;
  `GetLatency` does call the own grape.  A request that arrives after 100 other ids is run
  again: `RepeatsOnlyForgotten` says that this is the only way to run twice, not that it
  does not happen.  `Subscriptions` and `Connections` leave it out: there no call is
  forgotten.  A request that reaches a client between `StartListeningForAnswers` and the
  registration of its methods is swallowed, and so are its retries, whose id is known by
  then: the call fails though nothing was lost.
* Subscriptions: two threads of the pool make the calls of a subscription and an
  unsubscription in the other order, nothing fails, and the client stays subscribed to a
  container the server does not track.  A node that joins subscribes to all containers
  without the server recording it, and `SetRemoteGrapeSubscription` can then not
  unsubscribe it.
* Streams: every container that is left costs a computing thread, until the pool has none.  A
  stream that was closed before it was opened, or whose end of the subscription was refused,
  stays connected next to the stream of the newer object: a message that the broker gives to
  it is dropped, or kept without being acknowledged, and the peer never handles it.
  `MessagesArrive` does not exclude this; it says that no other stream loses a message.  An attempt
  to subscribe that throws is tried again without being counted.
* Start: the task may use `_peerService` before it is set, and one of two objects for the
  global scope is destroyed while the methods stay bound to it.  A node which the master refuses
  is told of the failure and then of success (`StartRefused`).
* Redis and metrics: `GetRedisKVPAsync` makes the thread of redis wait for itself; a
  notification may come between the look at the flag and the wait; the destructor may do
  the same to the worker; a process that has started its uploads never gets past
  `~MetricsScrapper`, since their loop has no end.  `Logger.hpp:55` promises no value for a
  key that is not set, and the code returns the empty string, as it returns the text of an error; and the constructor writes
  the key of the logs into a context that it then replaces, so that they go to a list with
  an empty name.
* Master: a cleanup that comes between `GetOrAdd` and `TryAdd` misses the process; so does
  every cleanup, for a process whose id another one has, and for nodes in containers.  A process
  that could not be killed runs on while the cleanup is answered with 200, and no later one finds
  it.  Clearing a session takes the registrations of nodes which have nothing to do with it but the
  beginning of a name; a client may be sent to the node of another session, when the names
  of session and spawner make the same key; and to a node which the master has turned away.

## 4. Theorems

All are about every number of peers, containers, calls and orders, and every value
of the bounds.

| Theorem | Says | Rests on |
|---|---|---|
| `AuthorityProofs!TypeCorrect` | `Spec => []TypeOK` | the assumptions on the constants |
| `AuthorityProofs!ClaimsInvariant` | `Spec => []` of `OneClaim` | the same |
| `AuthorityProofs!AuthorityIsSingle` | `Spec => []SingleAuthority` | the same |
| `AuthorityProofs!AuthorityRefinement` | `Spec => AuthorityKept` | the same |
| `AuthorityProofs!TransfersAgree` | `Spec => []SettledAgreement` | `Settling`: nothing is lost or overlaps, nobody joins or leaves, and the engine deletes what it owns |
| `AuthorityProofs!DeletionIsComplete` | `Spec => []DeletionReachesAll` | the same |
| `AuthorityProofs!InputsArrive` | `InputsSpec => []InputsInv` | `Settling` |
| `RpcProofs!TypeCorrect` | `Spec => []TypeOK` | the assumptions on the constants |
| `RpcProofs!PromiseKept` | `Spec => []WaitsOnPromise` | the same |
| `RpcProofs!RepeatsAreForgotten` | `Spec => RepeatsOnlyForgotten` | the same |
| `RpcProofs!RemoteCallRefinement` | `Spec => IsRemoteCall` | the same |
| `RpcProofs!RetriesCover` | `Spec => []RetriesCoverLostRequests` | no patient caller calls itself (`Outward`) |
| `GhostProofs!TypeCorrect` | `Spec => []TypeOK` | the assumptions on the constants |
| `GhostProofs!PollComplete` | `Spec => []PollMissesNothing` | the same |
| `GhostProofs!LatestKept` | `Spec => []LatestArrives` | the same |
| `SubscriptionsProofs!LoneChangesArrive` | `Spec => []SubscriptionsInv` | the assumptions on the constants |
| `StreamsProofs!StreamsSafe` | `Spec => []StreamsInv` | the assumptions on the constants |
| `PeerProofs!StartSafe` | `Spec => []StartInv` | the assumptions on the constants |
| `PeerProofs!ConnectionsSafe` | `ConnectionsSpec => []ConnectionsInv` | the same |
| `PeerProofs!LoggerSafe` | `LoggerSpec => []LoggerInv` | the same |
| `MasterSessionsProofs!SessionsSafe` | `Spec => []SessionsInv` | the assumptions on the constants |
| `MasterSessionsProofs!CleanupsAreComplete` | `Spec => []CleanupsComplete` | the same |
| `MasterNodesProofs!NodesSafe` | `Spec => []NodesInv` | the assumptions on the constants |
| `MasterNodesProofs!RefusalsHaveReasons` | `Spec => []RefusalsExplained` | the same |

`SingleAuthority` is not inductive: a transfer that is begun and not published, a take order
on its way, one being executed or an
instantiation waiting in a queue will give authority to its server later.  A
*claim* is any of these or authority itself; `OneClaim` says that there is never
more than one.  A transfer trades the claim of the copy, which quarantine ends, for that of
the engine that will publish (`Handing`), and that for the claim of the order; a take order
trades it for the copy's or for the task's, and
everything else keeps claims or removes them.  Joining a container does not create a
claim because a peer joins containers of others only (`LocalInv`).  No assumption bars other
threads from the window of `ExecTakeOrder`: a server whose copy has got authority there is in
`took` until the order ends (`TookInv`), its order is no claim any more, and if it claims
again for want of the copy, that step sets `twice`, for ever (`Disputed` in
`Authority`).

The two properties of transfers that settle rest on one invariant, `SettlingInv`: the
entity is not created yet (`Uncreated`), it rests in a container (`Resting`), a transfer is
begun (`Started`) or carried out (`Moving`), or it is being deleted (`Deleted`).  While a transfer `o` is
carried out every peer does its part of it alone, which is why the number of peers does not
matter.  A peer that is subscribed to where the entity goes awaits the take order, is in
the middle of it, or has the copy or the task that makes it (`Gets`); one that is not awaits
the drop order, is in the middle of it, or has the task that deletes the copy, or no copy
(`Loses`).  The drop order may come at any point of the first, so what it does to the list
of the former container is said apart (`Lists`).  Each handler moves its peer from one of
these points to the next and leaves the other peers alone (`MovingKept`), and when
nothing is pending each is at its last point (`MovedRests`), from which the next transfer
(`TransferStarts`, `PublishMoves`) or the deletion (`DeletionBegins`) starts.  `Settling` is what
`AuthoritySettled` sets; section 3 says what happens without it.

Inputs leave the entity alone (`InputsSpec => Spec`, the lemma `InputsLeaveEntity`), so
`SettlingInv` holds with them as well, and `InputsArrive` builds on it. Its invariant
(`CalmInv`) says that while any input is calm the entity is settled in one container, that
such an input went to the topic of that container, and that it is unwritten, on its way to
the owner of the container, or in the list of the owner's copy (`Somewhere`). The owner
reads the topic of its own container, so what is written reaches it (`ArrivesAtOwner`),
whichever stream writes it; and the steps of the transfer that remain when the entity is
settled erase no copy. The condition "once it has been delivered" is what makes room for a
stream that never gets its producer, which is liveness.

`RepeatsOnlyForgotten` speaks of a step; what it needs of the state is what a set of ids says
of a call its peer has run (`Recalls`): the ids that stand before that of the call were all
taken since, and if it is not there the peer took no fewer than the set holds.  When the set
is full and the call is the last in it, the next id drives it out; the ids before it, which
are distinct (`IdsFit`), and the new one are then as many different ids as the set holds
(`TakeRecalls`, a counting argument with `FS_Injection`).  The number of calls has no bound
in the theorem.  The refinement also needs that requests are of calls that
were made and that an answer's or a future's result is one that a run gave
(`OriginInv`).

`RetriesCoverLostRequests` needs to know how far a call is that nothing but lost requests has
befallen (`PatientInv`, `Progress`): one that waits is on its way to a peer that has not
seen its id, or has an answer on its way to a caller that has not, or has lost more
requests than it has used retries.  A call to the caller itself has no
such place: the process keeps the ids of requests and answers in one set, and the answer
finds the id of the request there.  This is why the theorem excludes it (`Outward`); the
code does not.

`LatestArrives` speaks of copies; what keeps it true for them is an invariant of what is
on its way (`IInv`).  For a calm property: the pipeline of every container ends with
the last change (`LineInv`: next update, else fetched update, else queue); every
ghost in an answer, an order, a task or an engine's hands has it (`GhostInv`); whoever gives
values away now or later (`Sources`: those with authority, and those that are in the middle of an
answer or a transfer) has it or is about to apply it,
and only the containers of those still carry it, none while the entity
moves (`AuthorityInv`); every copy, and every peer that is about to register one (`Present`), has
it, listens to a container that carries it, or is about to get it with a ghost
(`CopyInv`).  A ghost made from the owner's values is therefore as new as the
packets, and may be applied before or after them.  `NeverSetInv` covers
properties without a change, `OwnersInv` keeps a server from joining its own
container, and `EngineInv` an engine from erasing what it is transferring.  The steps are
grouped by what they can disturb: the pipeline alone
(`PipeOnly`), a copy that gets a container (`CopyPlaced`), a ghost that is applied (`GhostApplied`),
nothing (`SameValues`).

`ChangesArrive` needs two facts more: that a peer with a change of a calm pair under way
can carry it out, so that its task is not dropped and no fetch comes in between
(`Arrives`), and that no method has run for a call that was not made
(`RunsAfterCall`), without which a change could count as carried out before it is.
Two lemmas carry the proof: a change that is recorded (`OrderedArrives`) and a change that
is carried out (`CarriedArrives`); every other step keeps what is under way (`Kept`).

`StreamsInv` needs two facts of messages: a message has one copy until it is handled and none
after (`OnceAt`), and a delegate that has not read `_closed` yet still holds its message,
unless the stream is closed (`HeldInv`; the broker takes copies back from closed streams
only).  So whoever handles a message held the only copy of it.  `QuietOnceClosed` rests on
the order in the code: the delegate counts itself before it reads `_closed`, `Close` sets
`_closed` before it reads the count.  The types need that a stream that is being opened has
attempts left (`OpenInv`) and that the cleanup of an object is queued once (`TasksInv`); the
bound on the threads is a counting argument on `Pool`'s actions.

`StartInv` needs to know what each stage has earned (`StageInv`): past `InitGlobalRPC` the
`PeerService` is assigned, and the object of the global scope is held or is being made by
the task itself, which ends only when it is held.  That the other thread may put its object
in its place does not clear the pointer (`GlobalGoesOn`).

`Connections` and `RedisLogger` are proved about in the module of `PeerStartup`, which
extends all three; so their specifications have names of their own.  `ConnectionsInv` needs the call that
the listener thread of a client is at work on, and that it has not run there before: a call
succeeds only where the grape is registered (`CallsInv`); and that a node knows whom it has
accepted until somebody leaves (`KnownInv`).  For `LoggerInv`, values are set in the order of
their numbers (`SetsInv`), a thread has one read at a time (`GetsInv`), and before the place
of that read in the queue the last value of the thread is being set or queued, or it or a later one
is stored, unless it is gone or the connection lost (`StoredBehind`).

`SessionsInv` and `CleanupsComplete` follow a process from its creation to its end: past
`TryAdd` its id is in a map (`AddedInv`); a task that still holds a map of another time is
`overlapped` (`HoldingInv`); a process that runs, in a map that was not taken
meanwhile, is in the map of its session or on the list of a cleanup (`KeptInv`); and one that
was there when a cleaner began is on the list of that cleaner or of a cleanup (`BeforeInv`).
That an answered cleanup has nothing left on its list (`CleanersInv`) then says that each of them
was killed, or that killing it failed.  That the numbers in the ids of nodes stay in their range is a counting argument
(`CountInv`).

For `NodesInv`, a process that is looked up has the lock of its node or is among those that
lost it (`LockInv`), which is more than `LocksExclude` says and is what a step keeps; keys and
clients name nodes that were started and whose session begins the key (`SpawnersInv`), since
only `Announce` records a node.
`RefusalsExplained` needs that what is listed or deleted by a clearing is what its session
stands for (`ClearingsInv`), and that the node of a process which asked in time is
registered or was cleared (`EarlyInv`).

Only model-checked: the liveness properties (`QuarantineEnds`, `CallEnds`, `Converges`,
`TasksRun`, `MessagesArrive`, `ListenerFreed`, `LeaversForgotten`, `EngineServes`, `CallsReach`,
`StartEnds`, `GetsAnswered`, `ExitEnds`, `RequestsEnd`, `AllAnswered`), which need fairness and
`ENABLED`.

## 5. Not modelled

`PROJECT.json` lists every part with its status.  In the order in which they matter:

1. `ProxyTakeAuthority`: a transfer asked for by another grape, without a quarantine.  The
   request ends in a task that the engine of the other node pops, and what it does for an
   entity it does not own, which `TransferAuthority` refuses, is the game's.
2. Entity and grape RPCs, whose methods stay bound to entries of a registry.  `PeerStartup` has the
   same hazard for the global scope; together with an entity that moves the state space is
   beyond TLC.
3. The accessors of entities and containers that are taken in both orders; the expiry of
   producers; the clock, since no model has a notion of time.

Left out for good: generated and vendored code, HTTP and Kubernetes, which metrics are
uploaded, scripts, and the functions the game supplies to the replication graph.
