------------------------------ MODULE PeerProofs -------------------------------
(* The parts of a peer, each for itself: StartInv of PeerStartup, for any nodes, clients and
   calls; ConnectionsInv of Connections, for any visits; and LoggerInv of RedisLogger, for any
   threads and operations. *)
EXTENDS PeerStartup, Connections, RedisLogger, Integers, Sequences, TLAPS

-----------------------------------------------------------------------------
(* The start of a peer.                                                     *)

(* The task of the pool goes on only with an object for the global scope that somebody
   holds, or that the task itself still makes; and it gets that far only on a peer whose
   PeerService is assigned. *)
StageInv ==
  \A p \in Peer :
    /\ stage[p] = "global" => p \in assigned /\ ("pool" \in making[p] \/ held[p] # None)
    /\ stage[p] \in {"asking", "answered", "done"} => p \in assigned /\ held[p] # None
    /\ "success" \in told[p] => p \in assigned /\ held[p] # None

IInv == TypeOK /\ StageInv

-----------------------------------------------------------------------------

LEMMA InitIInv == ASSUME Init PROVE IInv
<1>1. TypeOK
  BY DEF Init, TypeOK, Stage
<1>2. StageInv
  BY DEF Init, StageInv
<1> QED BY <1>1, <1>2 DEF IInv

(* What the proofs of the steps need of the state. *)
Global ==
  /\ making \in [Peer -> SUBSET Maker]
  /\ bound \in [Peer -> Maker \cup {None}] /\ held \in [Peer -> Maker \cup {None}]
  /\ \A p \in Peer : held[p] # None => bound[p] # None

Rest ==
  /\ stage \in [Peer -> Stage] /\ assigned \subseteq Peer
  /\ told \in [Peer -> SUBSET {"payload", "failed", "success"}]
  /\ named \in [Peer -> SUBSET (Maker \cup {"peer"})]
  /\ issued \subseteq Call /\ msgs \subseteq issued \X Peer /\ ran \subseteq issued \X Peer

LEMMA TypeParts == TypeOK <=> Global /\ Rest
BY DEF TypeOK, Global, Rest

-----------------------------------------------------------------------------
(* The object for the global scope.                                         *)

LEMMA BeginKeeps ==
  ASSUME TypeOK, NEW p \in Peer, NEW t \in Maker, Begin(p, t), UNCHANGED <<bound, held>>
  PROVE  /\ Global' /\ \A q \in Peer : making[q] \subseteq making'[q]
         /\ t \in making'[p]
BY DEF TypeOK, Global, Begin

LEMMA SubscribeKeeps ==
  ASSUME TypeOK, NEW p \in Peer, NEW t \in Maker, Subscribe(p, t)
  PROVE  Global' /\ UNCHANGED <<making, held>>
BY StartAssumption, PeersAssumption DEF TypeOK, Global, Subscribe, StartAssumption, PeersAssumption

LEMMA HeldKeeps ==
  ASSUME TypeOK, NEW p \in Peer, NEW t \in Maker, Held(p, t)
  PROVE  /\ Global' /\ held'[p] # None
         /\ \A q \in Peer : q # p => making'[q] = making[q] /\ held'[q] = held[q]
BY StartAssumption, PeersAssumption DEF TypeOK, Global, Held, StartAssumption, PeersAssumption

(* An object that is held is replaced by another, but the pointer is never cleared; an object
   that is made is held in the end. *)
GlobalGoesOn ==
  /\ Global'
  /\ \A q \in Peer : /\ held[q] # None => held'[q] # None
                     /\ "pool" \in making[q] => "pool" \in making'[q] \/ held'[q] # None

LEMMA GlobalStep == ASSUME IInv, [Next]_vars PROVE GlobalGoesOn
<1>1. TypeOK /\ Global
  BY TypeParts DEF IInv
<1>2. CASE UNCHANGED globalVars
  BY <1>1, <1>2 DEF GlobalGoesOn, Global, globalVars
<1>3. ASSUME NEW p \in Peer, NEW t \in Maker, Begin(p, t), UNCHANGED <<bound, held>>
      PROVE  GlobalGoesOn
  BY <1>1, <1>3, BeginKeeps DEF GlobalGoesOn
<1>4. ASSUME NEW p \in Peer, NEW t \in Maker, Subscribe(p, t) PROVE GlobalGoesOn
  BY <1>1, <1>4, SubscribeKeeps DEF GlobalGoesOn
<1>5. ASSUME NEW p \in Peer, NEW t \in Maker, Held(p, t) PROVE GlobalGoesOn
  <2>1. /\ Global' /\ held'[p] # None
        /\ \A q \in Peer : q # p => making'[q] = making[q] /\ held'[q] = held[q]
    BY <1>1, <1>5, HeldKeeps
  <2> QED BY <2>1 DEF GlobalGoesOn
<1> DEFINE Touched == \E p \in Peer, t \in Maker :
             \/ Begin(p, t) /\ UNCHANGED <<bound, held>>
             \/ Subscribe(p, t) \/ Held(p, t)
<1>6. "pool" \in Maker /\ "engine" \in Maker
  BY DEF Maker
<1>7. ASSUME NEW p \in Peer, TaskStep(p) PROVE UNCHANGED globalVars \/ Touched
  <2>1. CASE InitGlobalRPC(p)
    BY <1>6, <2>1 DEF InitGlobalRPC
  <2>2. CASE HoldGlobalRPC(p)
    BY <1>6, <2>2 DEF HoldGlobalRPC
  <2>3. CASE UNCHANGED globalVars
    BY <2>3
  <2> QED BY <1>7, <2>1, <2>2, <2>3 DEF TaskStep, RegisterFirst, RegisterOthers, UseUnassigned,
       ClientReady, AskMaster, Accepted, NotAccepted, NodeReady
<1>8. ASSUME NEW p \in Peer, EngineStep(p) PROVE UNCHANGED globalVars \/ Touched
  <2>1. CASE RegisterGlobalRPC(p)
    BY <1>6, <2>1 DEF RegisterGlobalRPC
  <2>2. CASE RegisterInNew(p)
    BY <1>6, <2>2 DEF RegisterInNew
  <2>3. CASE UNCHANGED globalVars
    BY <2>3
  <2> QED BY <1>8, <2>1, <2>2, <2>3 DEF EngineStep, Connect, ConnectToCluster, Assign,
       RegisterClientRPC
<1>9. UNCHANGED globalVars \/ Touched
  <2>1. CASE \E p \in Peer : TaskStep(p) \/ EngineStep(p)
    BY <1>7, <1>8, <2>1
  <2>2. CASE \E p \in Peer, t \in Maker : Subscribe(p, t)
    BY <2>2
  <2>3. CASE UNCHANGED globalVars
    BY <2>3
  <2> QED BY <2>1, <2>2, <2>3 DEF Next, Handle, CallGlobalRPC, CallClientRPC, Issue, Run,
       NotFound, Dangling, vars
<1> QED BY <1>2, <1>3, <1>4, <1>5, <1>9

-----------------------------------------------------------------------------
(* The other variables keep their types.                                    *)

LEMMA RestStep == ASSUME IInv, [Next]_vars PROVE Rest'
<1>1. TypeOK /\ Rest /\ Global
  BY TypeParts DEF IInv
<1>2. ASSUME NEW p \in Peer, TaskStep(p) PROVE Rest'
  BY <1>1, <1>2 DEF Rest, Stage, TaskStep, RegisterFirst, RegisterOthers, UseUnassigned,
     InitGlobalRPC, HoldGlobalRPC, ClientReady, AskMaster, Accepted, NotAccepted, NodeReady,
     Goes, Tell, callVars
<1>3. ASSUME NEW p \in Peer, EngineStep(p) PROVE Rest'
  <2>1. CASE Connect(p) \/ ConnectToCluster(p) \/ Assign(p)
    BY <1>1, <2>1 DEF Rest, Stage, Connect, ConnectToCluster, Assign, Goes, callVars
  <2>2. CASE RegisterGlobalRPC(p)
    <3>1. UNCHANGED <<stage, assigned, told, callVars>>
      BY <2>2 DEF RegisterGlobalRPC
    <3>2. named' \in [Peer -> SUBSET (Maker \cup {"peer"})]
      <4>1. CASE held[p] # None /\ Named(p, held[p])
        <5>1. held[p] \in Maker /\ named' = [named EXCEPT ![p] = named[p] \cup {held[p]}]
          BY <1>1, <4>1 DEF Named, Global
        <5> QED BY <1>1, <5>1 DEF Rest
      <4>2. CASE UNCHANGED named
        BY <1>1, <4>2 DEF Rest
      <4> QED BY <2>2, <4>1, <4>2 DEF RegisterGlobalRPC
    <3> QED BY <1>1, <3>1, <3>2 DEF Rest, callVars
  <2>3. CASE RegisterInNew(p) \/ RegisterClientRPC(p)
    BY <1>1, <2>3 DEF Rest, RegisterInNew, RegisterClientRPC, Named, Maker, callVars
  <2> QED BY <1>3, <2>1, <2>2, <2>3 DEF EngineStep
<1>4. ASSUME NEW k \in Call, CallGlobalRPC(k) \/ CallClientRPC(k) PROVE Rest'
  <2>1. Audience(k) \subseteq Peer
    BY DEF Audience, Peer
  <2>2. /\ issued' = issued \cup {k} /\ msgs' = msgs \cup ({k} \X Audience(k))
        /\ UNCHANGED <<stage, assigned, told, named, ran>>
    BY <1>4 DEF CallGlobalRPC, CallClientRPC, Issue
  <2> QED BY <1>1, <2>1, <2>2 DEF Rest
<1>5. ASSUME NEW k \in Call, NEW p \in Peer, Run(k, p) \/ NotFound(k, p) PROVE Rest'
  BY <1>1, <1>5 DEF Rest, Run, NotFound, Takes
<1>6. ASSUME NEW k \in Call, NEW p \in Peer, Dangling(k, p) PROVE Rest'
  BY <1>1, <1>6 DEF Rest, Stage, Dangling, Takes
<1>7. CASE \E p \in Peer, t \in Maker : Subscribe(p, t)
  BY <1>1, <1>7 DEF Rest, Subscribe, callVars
<1>8. CASE UNCHANGED vars
  BY <1>1, <1>8 DEF Rest, vars, callVars
<1> QED BY <1>2, <1>3, <1>4, <1>5, <1>6, <1>7, <1>8 DEF Next, Handle

-----------------------------------------------------------------------------
(* The stages.                                                              *)

(* The task of p goes to a stage that it has earned. *)
LEMMA TaskStages ==
  ASSUME IInv, GlobalGoesOn, NEW p \in Peer, TaskStep(p)
  PROVE  StageInv'
<1>1. TypeOK /\ StageInv /\ GlobalGoesOn
  BY DEF IInv
<1>2. /\ assigned' = assigned
      /\ \A q \in Peer : q # p => stage'[q] = stage[q] /\ told'[q] = told[q]
  BY <1>1 DEF TaskStep, RegisterFirst, RegisterOthers, UseUnassigned, InitGlobalRPC,
     HoldGlobalRPC, ClientReady, AskMaster, Accepted, NotAccepted, NodeReady, Goes, Tell, TypeOK
<1>3. \/ stage'[p] \in {"first", "served", "crashed"} /\ told' = told
      \/ stage'[p] = "global" /\ p \in assigned /\ told' = told
         /\ ("pool" \in making'[p] \/ held'[p] # None)
      \/ stage'[p] \in {"asking", "answered", "done"} /\ p \in assigned /\ held'[p] # None
  <2>1. CASE RegisterFirst(p) \/ RegisterOthers(p) \/ UseUnassigned(p)
    BY <1>1, <2>1 DEF RegisterFirst, RegisterOthers, UseUnassigned, Goes, TypeOK
  <2>2. CASE InitGlobalRPC(p)
    BY <1>1, <2>2 DEF InitGlobalRPC, Goes, Begin, TypeOK, globalVars
  <2>3. CASE HoldGlobalRPC(p)
    BY <1>1, <2>3 DEF HoldGlobalRPC, GlobalGoesOn, StageInv
  <2>4. CASE ClientReady(p)
    BY <1>1, <2>4 DEF ClientReady, Goes, StageInv, TypeOK, globalVars
  <2>5. CASE AskMaster(p)
    BY <1>1, <2>5 DEF AskMaster, Goes, StageInv, TypeOK, globalVars
  <2>6. CASE Accepted(p) \/ NotAccepted(p) \/ NodeReady(p)
    BY <1>1, <2>6 DEF Accepted, NotAccepted, NodeReady, Goes, StageInv, TypeOK, globalVars
  <2> QED BY <2>1, <2>2, <2>3, <2>4, <2>5, <2>6 DEF TaskStep
<1> QED BY <1>1, <1>2, <1>3 DEF StageInv, GlobalGoesOn

LEMMA StageStep == ASSUME IInv, [Next]_vars PROVE StageInv'
<1>1. TypeOK /\ StageInv /\ GlobalGoesOn
  BY GlobalStep DEF IInv
<1>2. CASE \E p \in Peer : TaskStep(p)
  BY <1>1, <1>2, TaskStages
<1>3. ASSUME /\ assigned \subseteq assigned' /\ told' = told
             /\ \A q \in Peer : stage'[q] \in {stage[q], "connected", "crashed"}
      PROVE  StageInv'
  BY <1>1, <1>3 DEF StageInv, GlobalGoesOn
<1>4. ASSUME NEW p \in Peer, EngineStep(p)
      PROVE  /\ assigned \subseteq assigned' /\ told' = told
             /\ \A q \in Peer : stage'[q] \in {stage[q], "connected", "crashed"}
  BY <1>1, <1>4 DEF EngineStep, Connect, ConnectToCluster, Assign, RegisterGlobalRPC,
     RegisterInNew, RegisterClientRPC, Goes, TypeOK
<1>5. ASSUME NEW k \in Call, NEW p \in Peer, Handle(k, p)
      PROVE  /\ assigned \subseteq assigned' /\ told' = told
             /\ \A q \in Peer : stage'[q] \in {stage[q], "connected", "crashed"}
  BY <1>1, <1>5 DEF Handle, Run, NotFound, Dangling, TypeOK
<1>6. \/ \E p \in Peer : TaskStep(p) \/ EngineStep(p)
      \/ \E k \in Call, p \in Peer : Handle(k, p)
      \/ UNCHANGED <<stage, assigned, told>>
  BY DEF Next, Subscribe, CallGlobalRPC, CallClientRPC, Issue, vars
<1> QED BY <1>2, <1>3, <1>4, <1>5, <1>6

-----------------------------------------------------------------------------

LEMMA StepIInv == ASSUME IInv, [Next]_vars PROVE IInv'
<1>1. Global' /\ Rest' /\ StageInv'
  BY GlobalStep, RestStep, StageStep DEF GlobalGoesOn
<1>2. TypeOK'
  BY <1>1 DEF TypeOK, Global, Rest
<1> QED BY <1>1, <1>2 DEF IInv

LEMMA IInvImplies == IInv => StartInv
BY DEF IInv, StageInv, TypeOK, StartInv, SuccessServed

(* However the engine, the task of the pool and the master's answers interleave, and whoever
   makes the object for the global scope first: the engine is told of success only when the
   PeerService is there and the global scope is served (Runtime and PeerService). *)
THEOREM StartSafe == Spec => []StartInv
<1>1. Init => IInv
  BY InitIInv
<1>2. IInv /\ [Next]_vars => IInv'
  BY StepIInv
<1>3. IInv => StartInv
  BY IInvImplies
<1> QED BY <1>1, <1>2, <1>3, PTL DEF Spec

-----------------------------------------------------------------------------
(* How clients come and go.                                                 *)

(* A call is about a visit that was accepted; the listener thread of a client works at a call
   to that client, which has not run there before; and a call has succeeded only where the
   grape is. *)
CallsInv ==
  /\ \A v \in Visit : status[v] # "idle" => v \in accepted
  /\ \A c \in Client : listener[c] # None =>
       /\ Who[listener[c]] = c /\ runs[listener[c]][c] = 0
       /\ status[listener[c]] # "idle"
  /\ \A v \in Visit, c \in Client : <<v, c>> \in succeeded => c = Who[v] /\ At[v] \in grapes[c]

(* A node knows the clients it has accepted, as long as none of them has left; nobody is told
   that a client leaves that did not. *)
KnownInv ==
  /\ \A v \in accepted : Who[v] \in clients[At[v]] \/ leaves[Who[v]] > 0
  /\ \A m \in requests \cup orders : leaves[m[1]] > 0

VisitsInv == ConnectionsTypeOK /\ CallsInv /\ KnownInv /\ ConnectedKnown

USE ConnectionsAssumption, PeersAssumption

LEMMA VisitsInit == ASSUME ConnectionsInit PROVE VisitsInv
<1> USE DEF ConnectionsInit, Rpc!Init
<1>1. /\ grapes \in [Peer -> SUBSET Node]
      /\ serves \in [Peer -> SUBSET ({"peer", "rpc"} \X Node)]
      /\ \A p \in Peer : \A s \in serves[p] : s[2] \in grapes[p] /\ (s[1] = "peer" => s[2] = p)
  BY DEF ConnectionsAssumption, Peer
<1>2. ConnectionsTypeOK
  BY <1>1 DEF ConnectionsAssumption, ConnectionsTypeOK
<1> QED
  BY <1>2 DEF VisitsInv, CallsInv, KnownInv, ConnectedKnown

(* Grapes are registered and served, engines wait and ask for entities: no call and no client
   is touched. *)
LEMMA ScopesKeep ==
  ASSUME VisitsInv, UNCHANGED <<visitCallVars, leaveVars>>,
         UNCHANGED <<clients, accepted, connected, listener>>,
         \A p \in Peer : grapes[p] \subseteq grapes'[p],
         ConnectionsTypeOK'
  PROVE  VisitsInv'
BY DEF ConnectionsAssumption, PeersAssumption, visitCallVars, leaveVars, VisitsInv,
   ConnectionsTypeOK, Peer, CallsInv, KnownInv, ConnectedKnown

LEMMA NodeGrapes ==
  ASSUME VisitsInv, NEW n \in Node, NEW g \in Node,
         AssignGrape(n) \/ RegisterGrape(n, g) \/ RegisterAssigned(n) \/ ServePeer(n)
  PROVE  VisitsInv'
<1>1. ConnectionsTypeOK'
  <2>1. CASE RegisterGrape(n, g)
    <3>1. /\ grapes' \in [Peer -> SUBSET Node]
          /\ \A p \in Peer : \A s \in serves[p] :
               s[2] \in grapes'[p] /\ (s[1] = "peer" => s[2] = p)
      BY <2>1 DEF VisitsInv, ConnectionsTypeOK, RegisterGrape, Registered, Peer
    <3> QED
      BY <2>1, <3>1 DEF VisitsInv, ConnectionsTypeOK, RegisterGrape,
         visitVars, visitCallVars, clientVars, leaveVars
  <2>2. CASE ServePeer(n)
    <3>1. serves' = [serves EXCEPT ![n] = @ \cup {<<"peer", n>>}] /\ n \in grapes[n]
      BY <2>2 DEF ServePeer
    <3>2. /\ serves' \in [Peer -> SUBSET ({"peer", "rpc"} \X Node)]
          /\ \A p \in Peer : \A s \in serves'[p] :
               s[2] \in grapes[p] /\ (s[1] = "peer" => s[2] = p)
      BY <3>1 DEF VisitsInv, ConnectionsTypeOK, Peer
    <3> QED
      BY <2>2, <3>2 DEF VisitsInv, ConnectionsTypeOK, ServePeer,
         visitVars, visitCallVars, clientVars, leaveVars, Peer
  <2>3. CASE AssignGrape(n)
    BY <2>3 DEF VisitsInv, ConnectionsTypeOK, AssignGrape,
       visitVars, visitCallVars, clientVars, leaveVars
  <2>4. CASE RegisterAssigned(n)
    <3>1. /\ grapes' \in [Peer -> SUBSET Node]
          /\ \A p \in Peer : \A s \in serves[p] :
               s[2] \in grapes'[p] /\ (s[1] = "peer" => s[2] = p)
      BY <2>4 DEF VisitsInv, ConnectionsTypeOK, RegisterAssigned, Registered, Peer
    <3>2. \A m \in unscoped' : \A s \in serves[m] : s[2] # m
      BY <2>4 DEF VisitsInv, ConnectionsTypeOK, RegisterAssigned, Peer
    <3> QED
      BY <2>4, <3>1, <3>2 DEF VisitsInv, ConnectionsTypeOK, RegisterAssigned,
         visitVars, visitCallVars, clientVars, leaveVars
  <2> QED BY <2>1, <2>2, <2>3, <2>4
<1>2. \A p \in Peer : grapes[p] \subseteq grapes'[p]
  <2>1. \/ \E h \in Node : grapes' = [grapes EXCEPT ![n] = @ \cup {h}]
        \/ grapes' = grapes
    BY DEF AssignGrape, RegisterGrape, RegisterAssigned, ServePeer, Registered
  <2>2. grapes \in [Peer -> SUBSET Node]
    BY DEF VisitsInv, ConnectionsTypeOK
  <2> QED BY ONLY <2>1, <2>2
<1> QED
  BY <1>1, <1>2, ScopesKeep DEF AssignGrape, RegisterGrape, RegisterAssigned, ServePeer, visitVars,
     clientVars

LEMMA ServeScopeKeeps ==
  ASSUME VisitsInv, NEW p \in Peer, NEW g \in Node, ServeScope(p, g)
  PROVE  VisitsInv'
<1>1. ConnectionsTypeOK'
  BY DEF VisitsInv, ConnectionsTypeOK, ServeScope, visitVars, visitCallVars,
     clientVars, leaveVars, Peer
<1> QED
  BY <1>1, ScopesKeep DEF ServeScope, visitVars, clientVars

LEMMA PingKeeps ==
  ASSUME VisitsInv, NEW c \in Client,
         \/ \E g \in Node : Ping(c, g)
         \/ Pong(c) \/ PingFails(c)
  PROVE  VisitsInv'
<1> USE DEF VisitsInv, ConnectionsTypeOK, scopeVars, visitVars, visitCallVars,
     clientVars, leaveVars, Peer
<1>1. /\ \E x \in Node \cup {None} : pinged' = [pinged EXCEPT ![c] = x]
      /\ UNCHANGED <<scopeVars, clients, visitVars, visitCallVars, listener, loads,
                     leaveVars, cmi>>
  BY DEF Ping, Pong, PingFails
<1>2. pinged' \in [Client -> Node \cup {None}]
  BY <1>1
<1>3. ConnectionsTypeOK'
  BY <1>1, <1>2
<1> QED
  BY <1>1, <1>3, ScopesKeep

LEMMA SpawnKeeps ==
  ASSUME VisitsInv, NEW c \in Client,
         CallCMIInstantiate(c) \/ CMIInstantiate(c) \/ PopCMIInstantiate(c)
  PROVE  VisitsInv'
<1> USE DEF VisitsInv, ConnectionsTypeOK, scopeVars, visitVars, visitCallVars,
     clientVars, leaveVars, Peer
<1>1. /\ cmi' \in [Client -> {"none", "sent", "queued", "popped"}]
      /\ UNCHANGED <<scopeVars, clients, visitVars, visitCallVars, clientVars, leaveVars>>
  BY DEF CallCMIInstantiate, CMIInstantiate, PopCMIInstantiate
<1>2. ConnectionsTypeOK'
  BY <1>1
<1> QED
  BY <1>1, <1>2, ScopesKeep

LEMMA LoadKeeps ==
  ASSUME VisitsInv, NEW v \in Visit, LoadGrape(v)
  PROVE  VisitsInv'
<1> USE DEF VisitsInv, ConnectionsTypeOK, scopeVars, visitVars, visitCallVars,
     clientVars, leaveVars, Peer
<1>1. Who[v] \in Client /\ At[v] \in Node
  BY DEF ConnectionsAssumption, PeersAssumption
<1>2. /\ grapes' \in [Peer -> SUBSET Node]
      /\ \A p \in Peer : grapes[p] \subseteq grapes'[p]
  BY <1>1 DEF LoadGrape, Registered
<1>3. loads' \in [Client -> SUBSET Visit]
  BY <1>1 DEF LoadGrape
<1>4. ConnectionsTypeOK'
  BY <1>2, <1>3 DEF LoadGrape
<1> QED
  BY <1>2, <1>4, ScopesKeep DEF LoadGrape

(* A client comes to a node. *)
LEMMA AcceptKeeps ==
  ASSUME VisitsInv, NEW v \in Visit, AcceptNewClient(v)
  PROVE  VisitsInv'
<1> USE DEF VisitsInv, ConnectionsTypeOK, scopeVars, visitCallVars, clientVars,
     leaveVars, AcceptNewClient
<1>1. Who[v] \in Client /\ At[v] \in Node
  BY DEF ConnectionsAssumption, PeersAssumption
<1>2. /\ clients' \in [Node -> SUBSET Client]
      /\ \A n \in Node : clients[n] \subseteq clients'[n]
      /\ Who[v] \in clients'[At[v]]
  BY <1>1
<1>3. ConnectionsTypeOK'
  BY <1>2
<1>4. CallsInv' /\ KnownInv'
  BY <1>2 DEF CallsInv, KnownInv, ConnectionsAssumption, PeersAssumption
<1>5. ConnectedKnown'
  BY <1>2 DEF ConnectedKnown, ConnectionsAssumption, PeersAssumption
<1> QED BY <1>3, <1>4, <1>5

LEMMA CallBegins ==
  ASSUME VisitsInv, NEW v \in Visit, ConnectClientToThisNode(v)
  PROVE  VisitsInv'
<1> USE DEF VisitsInv, ConnectionsTypeOK, scopeVars, clientVars,
     leaveVars, ConnectClientToThisNode, Rpc!Issue
<1>1. ConnectionsTypeOK'
  OBVIOUS
<1>2. CallsInv' /\ KnownInv' /\ ConnectedKnown'
  BY DEF CallsInv, KnownInv, ConnectedKnown
<1> QED BY <1>1, <1>2

LEMMA ClientIsTold ==
  ASSUME VisitsInv, NEW v \in Visit, ForceConnectToNode(v)
  PROVE  VisitsInv'
<1> USE DEF VisitsInv, ConnectionsTypeOK, scopeVars, visitVars, visitCallVars,
     leaveVars, ForceConnectToNode
<1>1. Who[v] \in Client
  BY DEF ConnectionsAssumption, PeersAssumption
<1>2. listener' \in [Client -> Visit \cup {None}] /\ loads' \in [Client -> SUBSET Visit]
  BY <1>1
<1>3. ConnectionsTypeOK'
  BY <1>2
<1>4. CallsInv' /\ KnownInv' /\ ConnectedKnown'
  BY <1>1 DEF CallsInv, KnownInv, ConnectedKnown
<1> QED BY <1>3, <1>4

LEMMA ClientAnswers ==
  ASSUME VisitsInv, NEW v \in Visit, ForceConnected(v)
  PROVE  VisitsInv'
<1> USE DEF VisitsInv, ConnectionsTypeOK, scopeVars, visitVars,
     leaveVars, ForceConnected, Rpc!Run
<1>1. Who[v] \in Client
  BY DEF ConnectionsAssumption, PeersAssumption
<1>2. /\ listener' = [listener EXCEPT ![Who[v]] = None]
      /\ runs' = [runs EXCEPT ![v][Who[v]] = @ + 1]
      /\ succeeded' = succeeded \cup {<<v, Who[v]>>}
  OBVIOUS
<1>3. ConnectionsTypeOK'
  BY <1>1, <1>2
<1>4. CallsInv'
  <2>1. ASSUME NEW c \in Client, listener'[c] # None
        PROVE  /\ Who[listener'[c]] = c /\ runs'[listener'[c]][c] = 0
               /\ status'[listener'[c]] # "idle"
    <3>1. c # Who[v] /\ listener'[c] = listener[c] /\ listener[c] \in Visit
      BY <1>1, <1>2, <2>1
    <3>2. runs'[listener[c]][c] = runs[listener[c]][c]
      BY <1>1, <1>2, <3>1
    <3> QED BY <3>1, <3>2, <2>1 DEF CallsInv
  <2>2. \A w \in Visit, c \in Client : <<w, c>> \in succeeded' => c = Who[w] /\ At[w] \in grapes'[c]
    BY <1>1, <1>2 DEF CallsInv
  <2> QED BY <2>1, <2>2 DEF CallsInv
<1>5. KnownInv' /\ ConnectedKnown'
  BY DEF KnownInv, ConnectedKnown
<1> QED BY <1>3, <1>4, <1>5

(* The call of a node ends: with success only if the client has registered the grape. *)
LEMMA CallEnds ==
  ASSUME VisitsInv, NEW v \in Visit, Connected(v) \/ NotConnected(v)
  PROVE  VisitsInv'
<1> USE DEF VisitsInv, ConnectionsTypeOK, scopeVars, visitVars, clientVars,
     leaveVars
<1>1. CASE Connected(v)
  <2>1. At[v] \in grapes[Who[v]]
    BY <1>1 DEF Connected, Rpc!Return, CallsInv
  <2>2. v \in accepted /\ status' = [status EXCEPT ![v] = "returned"] /\ connected' = connected \cup {v}
    BY <1>1 DEF Connected, Rpc!Return, CallsInv
  <2>3. ConnectionsTypeOK'
    BY <1>1, <2>2 DEF Connected, Rpc!Return
  <2>4. CallsInv' /\ KnownInv'
    BY <1>1, <2>2 DEF Connected, Rpc!Return, CallsInv, KnownInv
  <2>5. ConnectedKnown'
    BY <1>1, <2>1, <2>2 DEF Connected, Rpc!Return, KnownInv, ConnectedKnown
  <2> QED BY <2>3, <2>4, <2>5
<1>2. CASE NotConnected(v)
  <2>1. v \in accepted /\ status' = [status EXCEPT ![v] = "failed"]
    BY <1>2 DEF NotConnected, Rpc!Fail, CallsInv
  <2>2. ConnectionsTypeOK'
    BY <1>2, <2>1 DEF NotConnected, Rpc!Fail
  <2>3. CallsInv' /\ KnownInv' /\ ConnectedKnown'
    BY <1>2, <2>1 DEF NotConnected, Rpc!Fail, CallsInv, KnownInv, ConnectedKnown
  <2> QED BY <2>2, <2>3
<1> QED BY <1>1, <1>2

(* A client leaves: from then on it counts among those that have left. *)
LEMMA DisconnectKeeps ==
  ASSUME VisitsInv, NEW c \in Client, Disconnect(c)
  PROVE  VisitsInv'
<1> USE DEF VisitsInv, ConnectionsTypeOK, scopeVars, visitVars, clientVars,
     visitCallVars, Disconnect
<1>1. /\ leaves' \in [Client -> 0..MaxLeaves] /\ leaves'[c] > 0
      /\ \A d \in Client : leaves'[d] >= leaves[d]
  BY DEF ConnectionsAssumption, PeersAssumption
<1>2. requests' \subseteq Client \X Node /\ \A m \in requests' : m \in requests \/ m[1] = c
  BY DEF Peer
<1>3. ConnectionsTypeOK'
  BY <1>1, <1>2
<1>4. CallsInv' /\ ConnectedKnown'
  BY <1>1 DEF CallsInv, ConnectedKnown, ConnectionsAssumption, PeersAssumption
<1>5. KnownInv'
  BY <1>1, <1>2 DEF KnownInv, ConnectionsAssumption, PeersAssumption
<1> QED BY <1>3, <1>4, <1>5

LEMMA RequestKeeps ==
  ASSUME VisitsInv, NEW c \in Client, NEW g \in Node,
         RequestClientDisconnect(c, g)
  PROVE  VisitsInv'
<1> USE DEF VisitsInv, ConnectionsTypeOK, scopeVars, visitVars, clientVars,
     visitCallVars, RequestClientDisconnect
<1>1. /\ orders' \subseteq Client \X Peer
      /\ \A m \in requests' \cup orders' : m \in requests \cup orders \/ m[1] = c
      /\ requests' \subseteq requests
  BY DEF ScopeAudience
<1>2. leaves[c] > 0
  BY DEF KnownInv
<1>3. ConnectionsTypeOK'
  BY <1>1
<1>4. CallsInv' /\ KnownInv' /\ ConnectedKnown'
  BY <1>1, <1>2 DEF CallsInv, KnownInv, ConnectedKnown
<1> QED BY <1>3, <1>4

LEMMA ForgetKeeps ==
  ASSUME VisitsInv, NEW c \in Client, NEW p \in Peer,
         ExecClientDisconnect(c, p)
  PROVE  VisitsInv'
<1> USE DEF VisitsInv, ConnectionsTypeOK, scopeVars, visitVars, clientVars,
     visitCallVars, ExecClientDisconnect
<1>1. leaves[c] > 0
  BY DEF KnownInv
<1>2. /\ clients' \in [Node -> SUBSET Client]
      /\ \A n \in Node, d \in Client : d \in clients[n] => d \in clients'[n] \/ d = c
  OBVIOUS
<1>3. ConnectionsTypeOK'
  BY <1>2
<1>4. CallsInv' /\ KnownInv' /\ ConnectedKnown'
  BY <1>1, <1>2 DEF CallsInv, KnownInv, ConnectedKnown, ConnectionsAssumption, PeersAssumption
<1> QED BY <1>3, <1>4

LEMMA VisitsStep ==
  ASSUME VisitsInv, [ConnectionsNext]_connectionVars
  PROVE  VisitsInv'
<1>1. CASE NodeStep
  BY <1>1, NodeGrapes, AcceptKeeps, CallBegins, CallEnds, SpawnKeeps, RequestKeeps DEF NodeStep
<1>2. CASE ClientStep
  BY <1>2, PingKeeps, SpawnKeeps, LoadKeeps, ClientIsTold, ClientAnswers, DisconnectKeeps DEF
     ClientStep
<1>3. CASE \E p \in Peer, g \in Node : ServeScope(p, g)
  BY <1>3, ServeScopeKeeps
<1>4. CASE \E c \in Client, p \in Peer : ExecClientDisconnect(c, p)
  BY <1>4, ForgetKeeps
<1>5. CASE UNCHANGED connectionVars
  BY <1>5 DEF connectionVars, scopeVars, visitVars, visitCallVars, clientVars,
     leaveVars, VisitsInv, ConnectionsTypeOK, CallsInv, KnownInv, ConnectedKnown
<1> QED BY <1>1, <1>2, <1>3, <1>4, <1>5 DEF ConnectionsNext

(* However the calls of nodes, the engines and listener threads of clients, time-outs and
   departures interleave: when the game of a node is told that a client is connected, the
   client has the grape, and the node knows the client unless it has left (Connections). *)
THEOREM ConnectionsSafe ==
  ConnectionsSpec => []ConnectionsInv
<1>1. ConnectionsInit => VisitsInv
  BY VisitsInit
<1>2. VisitsInv /\ [ConnectionsNext]_connectionVars => VisitsInv'
  BY VisitsStep
<1>3. VisitsInv => ConnectionsInv
  BY DEF VisitsInv, ConnectionsInv
<1> QED BY <1>1, <1>2, <1>3, PTL DEF ConnectionsSpec

-----------------------------------------------------------------------------
(* The thread of redis.                                                     *)

(* The thread that runs a task has it; one that wakes a caller knows whom. *)
TaskInv ==
  /\ worker = "taken" => task \in Task
  /\ worker = "notify" => task \in Task /\ task.kind = "get" /\ task.by # Nothing

(* Values are set in the order of their numbers: what is stored, what is being set, what is
   queued, and what is yet to be set. *)
SetsInv ==
  /\ store <= ops
  /\ \A c \in Caller : lastSet[c] <= ops
  /\ \A i \in 1..Len(queue) : queue[i].kind = "set" => store <= queue[i].value /\ queue[i].value <= ops
  /\ \A i, j \in 1..Len(queue) :
       i < j /\ queue[i].kind = "set" /\ queue[j].kind = "set" => queue[i].value <= queue[j].value
  /\ worker = "taken" /\ task.kind = "set" =>
       /\ store <= task.value /\ task.value <= ops
       /\ \A i \in 1..Len(queue) : queue[i].kind = "set" => task.value <= queue[i].value

IsGet(t, c) == t.kind = "get" /\ t.by = c
Reading(c) == worker = "taken" /\ IsGet(task, c)

(* A thread has one call of GetRedisKVP at a time, of which there is one task, until the flag
   is set. *)
GetsInv ==
  \A c \in Caller :
    /\ \A i \in 1..Len(queue) : IsGet(queue[i], c) =>
         /\ caller[c] # "idle" /\ ~done[c] /\ ~Reading(c)
         /\ \A j \in 1..Len(queue) : IsGet(queue[j], c) => i = j
    /\ Reading(c) => caller[c] # "idle" /\ ~done[c]
    /\ done[c] => caller[c] # "idle"

(* The last value of c is stored, or a later one, unless it is gone or the connection lost. *)
Stored(c) == broken \/ lastSet[c] \in gone \/ lastSet[c] <= store

(* So it is, or the task that sets it will be run before that at position n + 1 of the queue. *)
StoredBehind(c, n) ==
  \/ Stored(c)
  \/ worker = "taken" /\ task.kind = "set" /\ lastSet[c] = task.value
  \/ \E j \in 1..n : queue[j].kind = "set" /\ lastSet[c] = queue[j].value

(* A read of c comes after what c has set. *)
BehindInv ==
  \A c \in Caller :
    /\ StoredBehind(c, Len(queue))
    /\ \A i \in 1..Len(queue) : IsGet(queue[i], c) => StoredBehind(c, i - 1)
    /\ Reading(c) => Stored(c)

OrderInv == TaskInv /\ SetsInv /\ GetsInv /\ BehindInv /\ ReadsOwnWrites

RedisInv == LoggerTypeOK /\ OrderInv

USE LoggerAssumption

LEMMA RedisInit == ASSUME LoggerInit PROVE RedisInv
<1> USE DEF LoggerAssumption, LoggerInit
<1>1. LoggerTypeOK
  <2>1. queue \in Seq(Task)
    OBVIOUS
  <2>2. /\ store \in 0..MaxOps /\ ops \in 0..MaxOps /\ lastSet \in [Caller -> 0..MaxOps]
        /\ result \in [Caller -> 0..MaxOps \cup {Nothing}]
    OBVIOUS
  <2> QED BY <2>1, <2>2 DEF LoggerTypeOK, WorkerState, CallerState
<1>2. OrderInv
  BY DEF OrderInv, TaskInv, SetsInv, GetsInv, IsGet, Reading, Stored, StoredBehind, BehindInv,
     ReadsOwnWrites
<1> QED BY <1>1, <1>2 DEF RedisInv

(* Neither the queue nor the task changes, and no call begins or ends. *)
LEMMA OrderSame ==
  ASSUME RedisInv,
         UNCHANGED <<queue, task, store, gone, ops, lastSet, done, result>>,
         broken => broken',
         worker' = worker \/ (worker \notin {"taken", "notify"} /\ worker' \notin {"taken", "notify"}),
         \A c \in Caller : caller[c] = "idle" <=> caller'[c] = "idle"
  PROVE  OrderInv'
BY DEF RedisInv, OrderInv, TaskInv, SetsInv, GetsInv, IsGet, Reading, Stored, StoredBehind, BehindInv,
   ReadsOwnWrites

LEMMA ThreadsKeep ==
  ASSUME RedisInv,
         \/ Make \/ Check \/ Block \/ SendThreadWorkerEnds \/ Break
         \/ Start \/ GetterReturns \/ Upload
         \/ StopLogger \/ LoggerJoined \/ FreeHandle \/ MetricsJoined
  PROVE  RedisInv'
<1> USE DEF Make, CreateRedisContext, Check, Block, SendThreadWorkerEnds,
     Break, Start, GetterReturns, Upload, StopLogger, Destroy, Destroyed,
     LoggerJoined, FreeHandle, MetricsJoined, redisVars, getVars, opVars
<1>1. LoggerTypeOK'
  <2> USE DEF RedisInv, LoggerTypeOK
  <2>1. /\ worker' \in WorkerState /\ running' \in BOOLEAN
        /\ worker' \in {"checked", "blocked"} => queue = << >>
    BY DEF WorkerState
  <2>2. broken' \in BOOLEAN
    OBVIOUS
  <2>3. /\ main' \in {"runs", "logger", "metrics", "exits", "ended", "crashed"}
        /\ left' \subseteq {"logger", "metrics"}
        /\ uploader' \in {"off", "woken", "scraped"}
    OBVIOUS
  <2>4. UNCHANGED <<queue, task, store, gone, caller, done, result, ops, lastSet>>
    OBVIOUS
  <2> QED BY <2>1, <2>2, <2>3, <2>4
<1>2. OrderInv'
  BY OrderSame
<1> QED BY <1>1, <1>2 DEF RedisInv

LEMMA CallersKeep ==
  ASSUME RedisInv, NEW c \in Caller, CallerStep(c)
  PROVE  RedisInv'
<1> USE DEF CallerStep, GetReturns, GetChecks, GetWaits,
     redisVars, getVars, opVars
<1>1. LoggerTypeOK'
  BY DEF RedisInv, LoggerTypeOK, CallerState
<1>2. CASE GetChecks(c) \/ GetWaits(c)
  <2>1. \A d \in Caller : caller[d] = "idle" <=> caller'[d] = "idle"
    BY <1>2 DEF RedisInv, LoggerTypeOK
  <2> QED BY <1>1, <1>2, <2>1, OrderSame DEF RedisInv
<1>3. CASE GetReturns(c)
  <2>1. /\ caller' = [caller EXCEPT ![c] = "idle"] /\ done' = [done EXCEPT ![c] = FALSE]
        /\ result' = [result EXCEPT ![c] = Nothing] /\ done[c]
    BY <1>3
  <2>2. GetsInv'
    BY <1>3, <2>1 DEF RedisInv, OrderInv, LoggerTypeOK, GetsInv, IsGet, Reading
  <2>3. TaskInv' /\ SetsInv' /\ BehindInv'
    BY <1>3 DEF RedisInv, OrderInv, TaskInv, SetsInv, BehindInv, Stored, StoredBehind, IsGet, Reading
  <2>4. ReadsOwnWrites'
    BY <1>3, <2>1 DEF RedisInv, OrderInv, LoggerTypeOK, ReadsOwnWrites
  <2> QED BY <1>1, <2>2, <2>3, <2>4 DEF RedisInv, OrderInv
<1> QED BY <1>2, <1>3

(* A task is pushed: those in front of it stay where they are. *)
LEMMA Appended ==
  ASSUME NEW q \in Seq(Task), NEW t \in Task
  PROVE  /\ Append(q, t) \in Seq(Task) /\ Len(Append(q, t)) = Len(q) + 1
         /\ \A i \in 1..Len(q) : Append(q, t)[i] = q[i]
         /\ Append(q, t)[Len(q) + 1] = t
OBVIOUS

(* What is pushed sets no value. *)
LEMMA SetsKept ==
  ASSUME RedisInv, UNCHANGED <<task, store, lastSet>>,
         ops' \in Nat, ops <= ops', worker' = "taken" => worker = "taken",
         \A i \in 1..Len(queue') : queue'[i].kind = "set" => i \in 1..Len(queue) /\ queue'[i] = queue[i]
  PROVE  SetsInv'
<1>1. /\ store \in Nat /\ ops \in Nat /\ \A c \in Caller : lastSet[c] \in Nat
      /\ \A i \in 1..Len(queue) : queue[i].value \in Nat
      /\ worker = "taken" => task.value \in Nat
  <2>1. /\ store \in Nat /\ ops \in Nat /\ \A c \in Caller : lastSet[c] \in Nat
    BY DEF RedisInv, LoggerTypeOK, LoggerAssumption
  <2>2. \A i \in 1..Len(queue) : queue[i] \in Task
    BY DEF RedisInv, LoggerTypeOK
  <2>3. worker = "taken" => task \in Task
    BY DEF RedisInv, OrderInv, TaskInv
  <2> QED BY <2>1, <2>2, <2>3 DEF Task
<1>2. SetsInv
  BY DEF RedisInv, OrderInv
<1>3. store' <= ops' /\ \A c \in Caller : lastSet'[c] <= ops'
  BY <1>1, <1>2 DEF SetsInv
<1>4. \A i \in 1..Len(queue') : queue'[i].kind = "set" => store' <= queue'[i].value /\ queue'[i].value <= ops'
  BY <1>1, <1>2 DEF SetsInv
<1>5. \A i, j \in 1..Len(queue') :
        i < j /\ queue'[i].kind = "set" /\ queue'[j].kind = "set" => queue'[i].value <= queue'[j].value
  BY <1>2 DEF SetsInv
<1>6. worker' = "taken" /\ task'.kind = "set" =>
        /\ store' <= task'.value /\ task'.value <= ops'
        /\ \A i \in 1..Len(queue') : queue'[i].kind = "set" => task'.value <= queue'[i].value
  BY <1>1, <1>2 DEF SetsInv
<1> QED BY <1>3, <1>4, <1>5, <1>6 DEF SetsInv

(* A task that neither sets nor reads a value for a caller. *)
LEMMA PlainPush ==
  ASSUME RedisInv, NEW t \in Task, queue' = Append(queue, t),
         t.kind # "set", t.kind = "get" => t.by = Nothing, ops' \in Nat, ops <= ops',
         UNCHANGED <<task, store, gone, lastSet, done, result, caller, broken>>,
         worker' = worker \/ (worker # "taken" /\ worker' \notin {"taken", "notify"})
                          \/ (worker = "taken" /\ task.kind = "async" /\ worker' \notin {"taken", "notify"})
  PROVE  OrderInv'
<1>1. /\ Len(queue') = Len(queue) + 1 /\ Len(queue) \in Nat
      /\ \A i \in 1..Len(queue) : queue'[i] = queue[i]
      /\ queue'[Len(queue) + 1] = t
  BY Appended DEF RedisInv, LoggerTypeOK
<1>2. \A i \in 1..Len(queue') : i \in 1..Len(queue) \/ queue'[i] = t
  BY <1>1
<1>3. \A c \in Caller : ~IsGet(t, c)
  BY DEF LoggerAssumption, IsGet
<1>4. TaskInv' /\ ReadsOwnWrites'
  BY DEF RedisInv, OrderInv, TaskInv, ReadsOwnWrites
<1>5. SetsInv'
  BY <1>1, <1>2, SetsKept
<1>6. GetsInv'
  BY <1>1, <1>2, <1>3 DEF RedisInv, OrderInv, GetsInv, IsGet, Reading
<1>7. BehindInv'
  BY <1>1, <1>2, <1>3 DEF RedisInv, OrderInv, BehindInv, Stored, StoredBehind, IsGet, Reading
<1> QED BY <1>4, <1>5, <1>6, <1>7 DEF OrderInv

LEMMA PushQueues ==
  ASSUME LoggerTypeOK, NEW k \in Kind, NEW c \in Caller \cup {Nothing}, NEW n \in Nat, Push(k, c, n)
  PROVE  /\ [kind |-> k, by |-> c, value |-> n] \in Task
         /\ queue' = Append(queue, [kind |-> k, by |-> c, value |-> n])
         /\ queue' \in Seq(Task) /\ worker' \in WorkerState
         /\ worker' \notin {"checked", "blocked"}
         /\ worker' = worker \/ (worker = "blocked" /\ worker' = "top")
         /\ main' \in {main, "crashed"}
<1>1. [kind |-> k, by |-> c, value |-> n] \in Task
  BY DEF Task
<1>2. queue' = Append(queue, [kind |-> k, by |-> c, value |-> n])
  BY DEF Push
<1>3. queue' \in Seq(Task)
  BY <1>1, <1>2, Appended DEF LoggerTypeOK
<1> QED
  BY <1>1, <1>2, <1>3 DEF Push, LoggerTypeOK, WorkerState

LEMMA LogsKeep ==
  ASSUME RedisInv,
         \/ GetterThrows \/ UploadFails
         \/ \E c \in Caller : Log(c) \/ GetRedisKVPAsync(c)
  PROVE  RedisInv'
<1> USE DEF GetterThrows, UploadFails, Log, GetRedisKVPAsync, Op,
     getVars, opVars
<1>1. PICK k \in {"log", "async"} : Push(k, Nothing, 0)
  OBVIOUS
<1>2. /\ [kind |-> k, by |-> Nothing, value |-> 0] \in Task
      /\ queue' = Append(queue, [kind |-> k, by |-> Nothing, value |-> 0])
      /\ queue' \in Seq(Task) /\ worker' \in WorkerState
      /\ worker' \notin {"checked", "blocked"}
      /\ worker' = worker \/ (worker = "blocked" /\ worker' = "top")
      /\ main' \in {main, "crashed"}
  BY <1>1, PushQueues DEF RedisInv, Kind
<1>3. /\ UNCHANGED <<task, store, gone, lastSet, done, result, caller, broken, running, left>>
      /\ ops' \in 0..MaxOps /\ uploader' \in {"off", "woken", "scraped"}
      /\ ops <= ops'
  BY DEF RedisInv, LoggerTypeOK, LoggerAssumption
<1>4. LoggerTypeOK'
  BY <1>2, <1>3 DEF RedisInv, LoggerTypeOK
<1>5. OrderInv'
  <2>1. ops' \in Nat
    BY <1>3 DEF LoggerAssumption
  <2> QED BY <1>2, <1>3, <2>1, PlainPush DEF RedisInv, LoggerTypeOK
<1> QED BY <1>4, <1>5 DEF RedisInv

(* The thread pushes a task to its own queue, and does not come back. *)
LEMMA AsyncKeeps == ASSUME RedisInv, RunAsync PROVE RedisInv'
<1> DEFINE t == [kind |-> "get", by |-> Nothing, value |-> 0]
<1>1. t \in Task
  BY DEF Task, Kind
<1>2. /\ queue' = Append(queue, t) /\ worker = "taken" /\ task.kind = "async" /\ worker' = "self"
      /\ UNCHANGED <<task, store, gone, ops, lastSet, done, result, caller, broken, running,
                     main, left, uploader>>
  BY DEF RunAsync, Runs, getVars, opVars
<1>3. t.kind = "get" /\ t.by = Nothing
  OBVIOUS
<1>4. queue' \in Seq(Task)
  BY <1>1, <1>2, Appended DEF RedisInv, LoggerTypeOK
<1> HIDE DEF t
<1>5. LoggerTypeOK'
  BY <1>2, <1>4 DEF RedisInv, LoggerTypeOK, WorkerState
<1>6. OrderInv'
  <2>1. ops' \in Nat /\ ops <= ops'
    BY <1>2 DEF RedisInv, LoggerTypeOK, LoggerAssumption
  <2> QED BY <1>1, <1>2, <1>3, <2>1, PlainPush
<1> QED BY <1>5, <1>6 DEF RedisInv

(* A value is set: it has the highest number so far, and its caller reads nothing meanwhile. *)
LEMMA SetKeeps ==
  ASSUME RedisInv, NEW c \in Caller, SetRedisKVP(c)
  PROVE  RedisInv'
<1> DEFINE t == [kind |-> "set", by |-> c, value |-> ops + 1]
<1> USE DEF SetRedisKVP, Op, getVars
<1>1. ops \in Nat /\ ops' = ops + 1 /\ ops' \in 0..MaxOps /\ caller[c] = "idle"
  BY DEF RedisInv, LoggerTypeOK, LoggerAssumption
<1>2. /\ t \in Task
      /\ queue' = Append(queue, t)
      /\ queue' \in Seq(Task) /\ worker' \in WorkerState
      /\ worker' \notin {"checked", "blocked"}
      /\ worker' = worker \/ (worker = "blocked" /\ worker' = "top")
      /\ main' \in {main, "crashed"}
  BY <1>1, PushQueues DEF RedisInv, Kind
<1>3. lastSet' = [lastSet EXCEPT ![c] = ops + 1] /\ lastSet' \in [Caller -> 0..MaxOps]
  BY <1>1 DEF RedisInv, LoggerTypeOK
<1>4. UNCHANGED <<task, running, broken, store, gone, caller, done, result, left, uploader>>
  OBVIOUS
<1>5. LoggerTypeOK'
  BY <1>1, <1>2, <1>3, <1>4 DEF RedisInv, LoggerTypeOK
<1>6. t.kind = "set" /\ t.value = ops + 1
  OBVIOUS
<1> HIDE DEF t, SetRedisKVP
<1>7. /\ Len(queue') = Len(queue) + 1 /\ Len(queue) \in Nat
      /\ \A i \in 1..Len(queue) : queue'[i] = queue[i]
      /\ queue'[Len(queue) + 1] = t
  BY <1>2, Appended DEF RedisInv, LoggerTypeOK
<1>8. \A i \in 1..Len(queue') : i \in 1..Len(queue) \/ (queue'[i] = t /\ i = Len(queue) + 1)
  BY <1>7
<1>9. TaskInv'
  BY <1>2, <1>4 DEF RedisInv, OrderInv, TaskInv
<1>10. SetsInv'
  <2>1. \A i \in 1..Len(queue) : queue[i] \in Task /\ (queue[i].kind = "set" => queue[i].value <= ops)
    BY DEF RedisInv, OrderInv, SetsInv, LoggerTypeOK
  <2>2. store' <= ops' /\ \A d \in Caller : lastSet'[d] <= ops'
    BY <1>1, <1>3, <1>4 DEF RedisInv, OrderInv, SetsInv, LoggerTypeOK
  <2>3. \A i \in 1..Len(queue') : queue'[i].kind = "set" => store' <= queue'[i].value /\ queue'[i].value <= ops'
    <3> SUFFICES ASSUME NEW i \in 1..Len(queue'), queue'[i].kind = "set"
                 PROVE  store' <= queue'[i].value /\ queue'[i].value <= ops'
      OBVIOUS
    <3>1. CASE i \in 1..Len(queue)
      <4>1. queue'[i] = queue[i] /\ queue[i].value \in Nat
        BY <1>7, <2>1, <3>1 DEF Task
      <4>2. store <= queue[i].value /\ queue[i].value <= ops
        BY <2>1, <3>1, <4>1 DEF RedisInv, OrderInv, SetsInv
      <4> QED BY <1>1, <1>4, <4>1, <4>2 DEF RedisInv, LoggerTypeOK
    <3>2. CASE queue'[i] = t
      BY <1>1, <1>4, <1>6, <3>2 DEF RedisInv, OrderInv, SetsInv, LoggerTypeOK
    <3> QED BY <1>8, <3>1, <3>2
  <2>4. \A i, j \in 1..Len(queue') :
          i < j /\ queue'[i].kind = "set" /\ queue'[j].kind = "set" => queue'[i].value <= queue'[j].value
    <3> SUFFICES ASSUME NEW i \in 1..Len(queue'), NEW j \in 1..Len(queue'), i < j,
                        queue'[i].kind = "set", queue'[j].kind = "set"
                 PROVE  queue'[i].value <= queue'[j].value
      OBVIOUS
    <3>1. i \in 1..Len(queue) /\ queue'[i] = queue[i]
      BY <1>7
    <3>2. CASE j \in 1..Len(queue)
      BY <1>7, <3>1, <3>2 DEF RedisInv, OrderInv, SetsInv
    <3>3. CASE j = Len(queue) + 1
      <4>1. queue'[j].value = ops + 1
        BY <1>6, <1>7, <3>3
      <4>2. queue'[i].value \in Nat /\ queue'[i].value <= ops
        BY <2>1, <3>1 DEF Task
      <4> QED BY <1>1, <4>1, <4>2
    <3> QED BY <1>7, <3>2, <3>3
  <2>5. worker' = "taken" /\ task'.kind = "set" =>
          /\ store' <= task'.value /\ task'.value <= ops'
          /\ \A i \in 1..Len(queue') : queue'[i].kind = "set" => task'.value <= queue'[i].value
    BY <1>1, <1>2, <1>4, <1>6, <1>7, <1>8 DEF RedisInv, OrderInv, SetsInv, TaskInv, LoggerTypeOK,
       Task
  <2> QED BY <2>2, <2>3, <2>4, <2>5 DEF SetsInv
<1>11. GetsInv'
  BY <1>2, <1>4, <1>6, <1>7, <1>8 DEF RedisInv, OrderInv, GetsInv, IsGet, Reading
<1>12. BehindInv'
  <2>1. ASSUME NEW d \in Caller, d # c PROVE lastSet'[d] = lastSet[d]
    BY <1>3, <2>1 DEF RedisInv, LoggerTypeOK
  <2>2. \A i \in 1..Len(queue') : ~IsGet(queue'[i], c)
    BY <1>1, <1>6, <1>7, <1>8 DEF RedisInv, OrderInv, GetsInv, IsGet
  <2>3. ~Reading(c)'
    BY <1>1, <1>2, <1>4 DEF RedisInv, OrderInv, GetsInv, IsGet, Reading
  <2>4. StoredBehind(c, Len(queue))'
    <3>1. lastSet'[c] = ops + 1
      BY <1>3 DEF RedisInv, LoggerTypeOK
    <3>2. Len(queue') \in 1..Len(queue') /\ queue'[Len(queue')] = t
      BY <1>7
    <3> QED BY <1>6, <3>1, <3>2 DEF StoredBehind
  <2>5. \A d \in Caller \ {c} : \A n \in 0..Len(queue) : StoredBehind(d, n) =>
          \/ Stored(d)'
          \/ worker' = "taken" /\ task'.kind = "set" /\ lastSet'[d] = task'.value
          \/ \E j \in 1..n : queue'[j].kind = "set" /\ lastSet'[d] = queue'[j].value
    BY <1>2, <1>4, <1>7, <2>1 DEF Stored, StoredBehind
  <2>6. ASSUME NEW d \in Caller \ {c}
        PROVE  /\ StoredBehind(d, Len(queue))'
               /\ \A i \in 1..Len(queue') : IsGet(queue'[i], d) => StoredBehind(d, i - 1)'
               /\ Reading(d)' => Stored(d)'
    <3>1. StoredBehind(d, Len(queue))'
      BY <1>7, <2>5 DEF RedisInv, OrderInv, BehindInv, Stored, StoredBehind
    <3>2. ASSUME NEW i \in 1..Len(queue'), IsGet(queue'[i], d) PROVE StoredBehind(d, i - 1)'
      <4>1. i \in 1..Len(queue) /\ IsGet(queue[i], d)
        BY <1>6, <1>7, <1>8, <3>2 DEF IsGet
      <4>2. StoredBehind(d, i - 1)
        BY <4>1 DEF RedisInv, OrderInv, BehindInv
      <4> QED BY <1>7, <4>1, <4>2, <2>5 DEF Stored, StoredBehind
    <3>3. Reading(d)' => Stored(d)'
      BY <1>2, <1>4, <2>1 DEF RedisInv, OrderInv, BehindInv, Stored, Reading, IsGet
    <3> QED BY <3>1, <3>2, <3>3
  <2> QED BY <2>2, <2>3, <2>4, <2>6 DEF BehindInv
<1>13. ReadsOwnWrites'
  BY <1>1, <1>3, <1>4 DEF RedisInv, OrderInv, ReadsOwnWrites, LoggerTypeOK
<1> QED BY <1>5, <1>9, <1>10, <1>11, <1>12, <1>13 DEF RedisInv, OrderInv

(* A read is pushed behind all that was set. *)
LEMMA GetKeeps ==
  ASSUME RedisInv, NEW c \in Caller, GetRedisKVP(c)
  PROVE  RedisInv'
<1> DEFINE t == [kind |-> "get", by |-> c, value |-> 0]
<1> USE DEF GetRedisKVP, Op
<1>1. ops \in Nat /\ ops' = ops + 1 /\ ops' \in 0..MaxOps /\ caller[c] = "idle"
  BY DEF RedisInv, LoggerTypeOK, LoggerAssumption
<1>2. /\ t \in Task
      /\ queue' = Append(queue, t)
      /\ queue' \in Seq(Task) /\ worker' \in WorkerState
      /\ worker' \notin {"checked", "blocked"}
      /\ worker' = worker \/ (worker = "blocked" /\ worker' = "top")
      /\ main' \in {main, "crashed"}
  BY PushQueues DEF RedisInv, Kind
<1>3. caller' = [caller EXCEPT ![c] = "pushed"] /\ caller' \in [Caller -> CallerState]
  BY DEF RedisInv, LoggerTypeOK, CallerState
<1>4. UNCHANGED <<task, running, broken, store, gone, done, result, lastSet, left, uploader>>
  OBVIOUS
<1>5. LoggerTypeOK'
  BY <1>1, <1>2, <1>3, <1>4 DEF RedisInv, LoggerTypeOK
<1>6. t.kind = "get" /\ t.by = c
  OBVIOUS
<1> HIDE DEF t, GetRedisKVP
<1>7. /\ Len(queue') = Len(queue) + 1 /\ Len(queue) \in Nat
      /\ \A i \in 1..Len(queue) : queue'[i] = queue[i]
      /\ queue'[Len(queue) + 1] = t
  BY <1>2, Appended DEF RedisInv, LoggerTypeOK
<1>8. \A i \in 1..Len(queue') : i \in 1..Len(queue) \/ (queue'[i] = t /\ i = Len(queue) + 1)
  BY <1>7
<1>9. TaskInv' /\ ReadsOwnWrites'
  BY <1>1, <1>2, <1>3, <1>4 DEF RedisInv, OrderInv, TaskInv, GetsInv, ReadsOwnWrites, LoggerTypeOK
<1>10. SetsInv'
  <2>1. ops' \in Nat /\ ops <= ops' /\ (worker' = "taken" => worker = "taken")
    BY <1>1, <1>2
  <2> QED BY <1>4, <1>6, <1>7, <1>8, <2>1, SetsKept
<1>11. GetsInv'
  <2>1. /\ \A i \in 1..Len(queue) : ~IsGet(queue[i], c)
        /\ ~Reading(c) /\ ~done[c]
    BY <1>1 DEF RedisInv, OrderInv, GetsInv
  <2>2. \A d \in Caller \ {c} : caller'[d] = caller[d] /\ ~IsGet(t, d)
    BY <1>3, <1>6 DEF RedisInv, LoggerTypeOK, IsGet
  <2>3. caller'[c] # "idle" /\ \A d \in Caller : Reading(d)' <=> Reading(d)
    BY <1>2, <1>3, <1>4 DEF RedisInv, LoggerTypeOK, Reading, IsGet
  <2> QED BY <1>4, <1>7, <1>8, <2>1, <2>2, <2>3 DEF RedisInv, OrderInv, GetsInv
<1>12. BehindInv'
  <2>1. \A d \in Caller : \A n \in 0..Len(queue) : StoredBehind(d, n) =>
          \/ Stored(d)'
          \/ worker' = "taken" /\ task'.kind = "set" /\ lastSet'[d] = task'.value
          \/ \E j \in 1..n : queue'[j].kind = "set" /\ lastSet'[d] = queue'[j].value
    BY <1>2, <1>4, <1>7 DEF Stored, StoredBehind
  <2>2. SUFFICES ASSUME NEW d \in Caller
        PROVE  /\ StoredBehind(d, Len(queue))'
               /\ \A i \in 1..Len(queue') : IsGet(queue'[i], d) => StoredBehind(d, i - 1)'
               /\ Reading(d)' => Stored(d)'
    BY DEF BehindInv
  <2>3. StoredBehind(d, Len(queue))
    BY DEF RedisInv, OrderInv, BehindInv
  <2>4. StoredBehind(d, Len(queue))'
    BY <1>7, <2>1, <2>3 DEF Stored, StoredBehind
  <2>5. ASSUME NEW i \in 1..Len(queue'), IsGet(queue'[i], d) PROVE StoredBehind(d, i - 1)'
    <3>1. i - 1 \in 0..Len(queue)
      BY <1>7
    <3>2. StoredBehind(d, i - 1)
      <4>1. CASE i \in 1..Len(queue)
        BY <1>7, <2>5, <4>1 DEF RedisInv, OrderInv, BehindInv
      <4>2. CASE i = Len(queue) + 1
        BY <1>7, <2>3, <4>2
      <4> QED BY <1>8, <4>1, <4>2
    <3> QED BY <2>1, <3>1, <3>2 DEF Stored, StoredBehind
  <2>6. Reading(d)' => Stored(d)'
    BY <1>2, <1>4 DEF RedisInv, OrderInv, BehindInv, Stored, Reading, IsGet
  <2> QED BY <2>4, <2>5, <2>6
<1> QED BY <1>5, <1>9, <1>10, <1>11, <1>12 DEF RedisInv, OrderInv

(* The thread of redis takes the first task: what is before another in the queue stays so. *)
LEMMA TakeKeeps == ASSUME RedisInv, Take PROVE RedisInv'
<1> USE DEF Take, getVars, opVars
<1>1. /\ queue \in Seq(Task) /\ Len(queue) \in Nat /\ Len(queue) > 0
      /\ task' = queue[1] /\ task' \in Task
      /\ queue' = Tail(queue) /\ queue' \in Seq(Task) /\ Len(queue') = Len(queue) - 1
      /\ \A i \in 1..Len(queue') : i + 1 \in 1..Len(queue) /\ queue'[i] = queue[i + 1]
  BY DEF RedisInv, LoggerTypeOK
<1>2. /\ worker = "top" /\ worker' = "taken"
      /\ UNCHANGED <<running, broken, store, gone, caller, done, result, ops, lastSet, main,
                     left, uploader>>
  OBVIOUS
<1> HIDE DEF Take
<1>3. LoggerTypeOK'
  BY <1>1, <1>2 DEF RedisInv, LoggerTypeOK, WorkerState
<1>4. TaskInv' /\ ReadsOwnWrites'
  BY <1>1, <1>2 DEF RedisInv, OrderInv, TaskInv, ReadsOwnWrites
<1>5. SetsInv'
  <2>1. /\ \A i \in 1..Len(queue) : queue[i].kind = "set" => store <= queue[i].value /\ queue[i].value <= ops
        /\ \A i, j \in 1..Len(queue) :
             i < j /\ queue[i].kind = "set" /\ queue[j].kind = "set" => queue[i].value <= queue[j].value
        /\ store <= ops /\ \A c \in Caller : lastSet[c] <= ops
    BY DEF RedisInv, OrderInv, SetsInv
  <2>2. \A i \in 1..Len(queue') :
          queue'[i].kind = "set" => store' <= queue'[i].value /\ queue'[i].value <= ops'
    BY <1>1, <1>2, <2>1
  <2>3. \A i, j \in 1..Len(queue') :
          i < j /\ queue'[i].kind = "set" /\ queue'[j].kind = "set" => queue'[i].value <= queue'[j].value
    <3> SUFFICES ASSUME NEW i \in 1..Len(queue'), NEW j \in 1..Len(queue'), i < j,
                        queue'[i].kind = "set", queue'[j].kind = "set"
                 PROVE  queue'[i].value <= queue'[j].value
      OBVIOUS
    <3>1. i + 1 \in 1..Len(queue) /\ j + 1 \in 1..Len(queue) /\ i + 1 < j + 1
      BY <1>1
    <3> QED BY <1>1, <2>1, <3>1
  <2>4. task'.kind = "set" =>
          /\ store' <= task'.value /\ task'.value <= ops'
          /\ \A i \in 1..Len(queue') : queue'[i].kind = "set" => task'.value <= queue'[i].value
    <3>1. 1 \in 1..Len(queue) /\ \A i \in 1..Len(queue') : i + 1 \in 1..Len(queue) /\ 1 < i + 1
      BY <1>1
    <3> QED BY <1>1, <1>2, <2>1, <3>1
  <2> QED BY <1>2, <2>1, <2>2, <2>3, <2>4 DEF SetsInv
<1>6. GetsInv'
  <2> SUFFICES ASSUME NEW c \in Caller
      PROVE  /\ \A i \in 1..Len(queue') : IsGet(queue'[i], c) =>
                  /\ caller'[c] # "idle" /\ ~done'[c] /\ ~Reading(c)'
                  /\ \A j \in 1..Len(queue') : IsGet(queue'[j], c) => i = j
             /\ Reading(c)' => caller'[c] # "idle" /\ ~done'[c]
             /\ done'[c] => caller'[c] # "idle"
    BY DEF GetsInv
  <2>1. \A i \in 1..Len(queue) : IsGet(queue[i], c) =>
          /\ caller[c] # "idle" /\ ~done[c]
          /\ \A j \in 1..Len(queue) : IsGet(queue[j], c) => i = j
    BY DEF RedisInv, OrderInv, GetsInv
  <2>2. Reading(c)' <=> IsGet(queue[1], c)
    BY <1>1, <1>2 DEF Reading, IsGet
  <2>3. ASSUME NEW i \in 1..Len(queue'), IsGet(queue'[i], c)
        PROVE  /\ caller'[c] # "idle" /\ ~done'[c] /\ ~Reading(c)'
               /\ \A j \in 1..Len(queue') : IsGet(queue'[j], c) => i = j
    <3>1. i + 1 \in 1..Len(queue) /\ IsGet(queue[i + 1], c) /\ i + 1 # 1 /\ 1 \in 1..Len(queue)
      BY <1>1, <2>3
    <3>2. caller'[c] # "idle" /\ ~done'[c] /\ ~Reading(c)'
      BY <1>2, <2>1, <2>2, <3>1
    <3>3. ASSUME NEW j \in 1..Len(queue'), IsGet(queue'[j], c) PROVE i = j
      <4>1. j + 1 \in 1..Len(queue) /\ IsGet(queue[j + 1], c)
        BY <1>1, <3>3
      <4>2. i + 1 = j + 1
        BY <2>1, <3>1, <4>1
      <4> QED BY <4>2
    <3> QED BY <3>2, <3>3
  <2>4. Reading(c)' => caller'[c] # "idle" /\ ~done'[c]
    BY <1>1, <1>2, <2>1, <2>2
  <2>5. done'[c] => caller'[c] # "idle"
    BY <1>2 DEF RedisInv, OrderInv, GetsInv
  <2> QED BY <2>3, <2>4, <2>5
<1>7. BehindInv'
  <2> SUFFICES ASSUME NEW c \in Caller
      PROVE  /\ StoredBehind(c, Len(queue))'
             /\ \A i \in 1..Len(queue') : IsGet(queue'[i], c) => StoredBehind(c, i - 1)'
             /\ Reading(c)' => Stored(c)'
    BY DEF BehindInv
  <2>1. ASSUME NEW n \in 0..Len(queue'), StoredBehind(c, n + 1)
        PROVE  \/ Stored(c)'
               \/ worker' = "taken" /\ task'.kind = "set" /\ lastSet'[c] = task'.value
               \/ \E j \in 1..n : queue'[j].kind = "set" /\ lastSet'[c] = queue'[j].value
    <3>1. CASE Stored(c)
      BY <1>2, <3>1 DEF Stored
    <3>2. CASE \E j \in 1..(n + 1) : queue[j].kind = "set" /\ lastSet[c] = queue[j].value
      <4>1. PICK j \in 1..(n + 1) : queue[j].kind = "set" /\ lastSet[c] = queue[j].value
        BY <3>2
      <4>2. CASE j = 1
        BY <1>1, <1>2, <4>1, <4>2
      <4>3. CASE j # 1
        <5>1. j - 1 \in 1..n /\ j - 1 \in 1..Len(queue') /\ (j - 1) + 1 = j
          BY <1>1, <4>3
        <5>2. queue'[j - 1] = queue[j]
          BY <1>1, <5>1
        <5> QED BY <1>2, <4>1, <5>1, <5>2
      <4> QED BY <4>2, <4>3
    <3> QED BY <1>2, <2>1, <3>1, <3>2 DEF Stored, StoredBehind
  <2>2. StoredBehind(c, Len(queue))'
    <3>1. Len(queue') \in 0..Len(queue') /\ Len(queue') + 1 = Len(queue)
      BY <1>1
    <3>2. StoredBehind(c, Len(queue') + 1)
      BY <3>1 DEF RedisInv, OrderInv, BehindInv
    <3> QED BY <2>1, <3>1, <3>2 DEF Stored, StoredBehind
  <2>3. ASSUME NEW i \in 1..Len(queue'), IsGet(queue'[i], c) PROVE StoredBehind(c, i - 1)'
    <3>1. /\ i - 1 \in 0..Len(queue') /\ (i - 1) + 1 = i
          /\ i + 1 \in 1..Len(queue) /\ (i + 1) - 1 = i /\ IsGet(queue[i + 1], c)
      BY <1>1, <2>3
    <3>2. StoredBehind(c, (i + 1) - 1)
      BY <3>1 DEF RedisInv, OrderInv, BehindInv
    <3>3. StoredBehind(c, (i - 1) + 1)
      BY <3>1, <3>2
    <3> QED BY <2>1, <3>1, <3>3 DEF Stored, StoredBehind
  <2>4. ASSUME Reading(c)' PROVE Stored(c)'
    <3>1. 1 \in 1..Len(queue) /\ IsGet(queue[1], c)
      BY <1>1, <2>4 DEF Reading, IsGet
    <3>2. StoredBehind(c, 1 - 1)
      BY <3>1 DEF RedisInv, OrderInv, BehindInv
    <3> QED BY <1>2, <3>2 DEF Stored, StoredBehind
  <2> QED BY <2>2, <2>3, <2>4
<1> QED BY <1>3, <1>4, <1>5, <1>6, <1>7 DEF RedisInv, OrderInv

(* The tasks. *)
LEMMA TasksKeep ==
  ASSUME RedisInv, RunLog \/ RunSet
  PROVE  RedisInv'
<1> USE DEF RunLog, RunSet, Runs, getVars, opVars
<1>1. /\ worker = "taken" /\ worker' = "top" /\ task' = Nothing /\ task \in Task
      /\ UNCHANGED <<queue, running, broken, caller, done, result, ops, lastSet, main, left, uploader>>
  BY DEF RedisInv, OrderInv, TaskInv
<1>2. /\ store' = store \/ (task.kind = "set" /\ ~broken /\ store' = task.value)
      /\ gone' = gone \/ (task.kind = "set" /\ gone' = gone \cup {task.value})
      /\ task.kind = "set" /\ ~broken => store' = task.value \/ task.value \in gone'
  <2>1. CASE RunLog
    BY <2>1
  <2>2. CASE RunSet
    BY <2>2
  <2> QED BY <2>1, <2>2
<1> HIDE DEF RunLog, RunSet
<1>3. /\ task.kind = "set" => store <= task.value /\ task.value <= ops
      /\ store \in Nat /\ ops \in 0..MaxOps /\ task.value \in Nat
      /\ \A c \in Caller : lastSet[c] \in Nat
  BY <1>1 DEF RedisInv, OrderInv, SetsInv, LoggerTypeOK, Task, LoggerAssumption
<1>4. /\ store <= store' /\ store' <= ops /\ store' \in 0..MaxOps
      /\ gone \subseteq gone' /\ gone' \subseteq 0..MaxOps
  <2>1. store <= store' /\ store' <= ops /\ store' \in 0..MaxOps
    BY <1>1, <1>2, <1>3 DEF RedisInv, OrderInv, SetsInv, LoggerTypeOK, LoggerAssumption
  <2>2. task.kind = "set" => task.value \in 0..MaxOps
    BY <1>3 DEF LoggerAssumption
  <2>3. gone \subseteq gone' /\ gone' \subseteq 0..MaxOps
    BY <1>2, <2>2 DEF RedisInv, LoggerTypeOK
  <2> QED BY <2>1, <2>3
<1>5. LoggerTypeOK'
  BY <1>1, <1>4 DEF RedisInv, LoggerTypeOK, WorkerState
<1>6. TaskInv' /\ GetsInv' /\ ReadsOwnWrites'
  <2>1. TaskInv' /\ GetsInv'
    BY <1>1 DEF RedisInv, OrderInv, TaskInv, GetsInv, IsGet, Reading
  <2>2. ReadsOwnWrites'
    BY <1>1, <1>4 DEF RedisInv, OrderInv, ReadsOwnWrites
  <2> QED BY <2>1, <2>2
<1>7. SetsInv'
  BY <1>1, <1>2, <1>4 DEF RedisInv, OrderInv, SetsInv
<1>8. BehindInv'
  <2>1. \A c \in Caller : Stored(c) => Stored(c)'
    BY <1>1, <1>3, <1>4 DEF LoggerAssumption, Stored
  <2>2. \A c \in Caller : task.kind = "set" /\ lastSet[c] = task.value => Stored(c)'
    BY <1>1, <1>2, <1>3 DEF RedisInv, LoggerTypeOK, Stored
  <2> QED BY <1>1, <2>1, <2>2 DEF RedisInv, OrderInv, BehindInv, StoredBehind, IsGet, Reading
<1> QED BY <1>5, <1>6, <1>7, <1>8 DEF RedisInv, OrderInv

(* What a caller is answered is stored at that moment. *)
LEMMA GetAnswers == ASSUME RedisInv, RunGet PROVE RedisInv'
<1> USE DEF RunGet, Runs, opVars
<1> DEFINE c == task.by
<1>1. /\ worker = "taken" /\ worker' = "notify" /\ task \in Task /\ task.kind = "get" /\ c # Nothing
      /\ \E reply \in IF broken THEN {Nothing} ELSE {store, Refusal} :
           result' = [result EXCEPT ![c] = reply]
      /\ done' = [done EXCEPT ![c] = TRUE]
      /\ UNCHANGED <<queue, task, running, broken, store, gone, caller, ops, lastSet, main, left,
                     uploader>>
  BY DEF RedisInv, OrderInv, TaskInv
<1>2. c \in Caller
  BY <1>1 DEF Task
<1>3. Reading(c)
  BY <1>1 DEF Reading, IsGet
<1> HIDE DEF c, RunGet
<1>4. /\ caller[c] # "idle" /\ \A i \in 1..Len(queue) : ~IsGet(queue[i], c)
      /\ Stored(c)
  BY <1>2, <1>3 DEF RedisInv, OrderInv, GetsInv, BehindInv
<1>5. LoggerTypeOK'
  BY <1>1, <1>2 DEF RedisInv, LoggerTypeOK, WorkerState
<1>6. TaskInv'
  BY <1>1 DEF TaskInv, c
<1>7. SetsInv' /\ BehindInv'
  <2>1. SetsInv'
    BY <1>1 DEF RedisInv, OrderInv, SetsInv
  <2>2. \A d \in Caller : Stored(d)' <=> Stored(d)
    BY <1>1 DEF Stored
  <2>3. \A d \in Caller : ~Reading(d)'
    BY <1>1 DEF Reading
  <2>4. \A d \in Caller : \A n : StoredBehind(d, n) => StoredBehind(d, n)'
    BY <1>1, <2>2 DEF StoredBehind
  <2> QED BY <1>1, <2>1, <2>3, <2>4 DEF RedisInv, OrderInv, BehindInv, IsGet
<1>8. GetsInv'
  BY <1>1, <1>2, <1>4 DEF RedisInv, OrderInv, LoggerTypeOK, GetsInv, IsGet, Reading
<1>9. ReadsOwnWrites'
  BY <1>1, <1>2, <1>4 DEF RedisInv, OrderInv, LoggerTypeOK, Stored, ReadsOwnWrites
<1> QED BY <1>5, <1>6, <1>7, <1>8, <1>9 DEF RedisInv, OrderInv

LEMMA NotifyKeeps == ASSUME RedisInv, Notify PROVE RedisInv'
<1> USE DEF Notify, opVars
<1>1. /\ worker = "notify" /\ worker' = "top" /\ task' = Nothing
      /\ UNCHANGED <<queue, running, broken, store, gone, done, result, ops, lastSet, left, uploader>>
      /\ main' \in {main, "crashed"}
  OBVIOUS
<1>2. task.by \in Caller
  BY DEF RedisInv, OrderInv, TaskInv, Task
<1>3. /\ caller' \in [Caller -> CallerState]
      /\ \A c \in Caller : caller[c] = "idle" <=> caller'[c] = "idle"
  BY <1>2 DEF RedisInv, LoggerTypeOK, CallerState
<1> HIDE DEF Notify
<1>4. LoggerTypeOK'
  BY <1>1, <1>3 DEF RedisInv, LoggerTypeOK, WorkerState
<1>5. OrderInv'
  BY <1>1, <1>3 DEF RedisInv, OrderInv, TaskInv, SetsInv, GetsInv, IsGet, Reading, Stored,
     StoredBehind, BehindInv, ReadsOwnWrites
<1> QED BY <1>4, <1>5 DEF RedisInv

(* What was set so far is gone. *)
LEMMA ClearKeeps == ASSUME RedisInv, ClearSession PROVE RedisInv'
<1> USE DEF ClearSession, getVars, opVars
<1>1. /\ store \in 0..MaxOps /\ store' = 0 /\ gone' = gone \cup 1..store /\ ops \in 0..MaxOps
      /\ UNCHANGED <<queue, worker, task, running, broken, caller, done, result, ops, lastSet, main,
                     left, uploader>>
  BY DEF RedisInv, LoggerTypeOK
<1> HIDE DEF ClearSession
<1>2. LoggerTypeOK'
  BY <1>1 DEF RedisInv, LoggerTypeOK
<1>3. TaskInv' /\ GetsInv' /\ ReadsOwnWrites'
  BY <1>1 DEF RedisInv, OrderInv, TaskInv, GetsInv, IsGet, Reading, ReadsOwnWrites
<1>4. SetsInv'
  <2>1. \A i \in 1..Len(queue) : queue[i] \in Task
    BY DEF RedisInv, LoggerTypeOK
  <2>2. \A i \in 1..Len(queue) : queue[i].value \in Nat
    BY <2>1 DEF Task
  <2>3. worker = "taken" => task.value \in Nat
    BY DEF RedisInv, OrderInv, TaskInv, Task
  <2> QED BY <1>1, <2>2, <2>3 DEF RedisInv, OrderInv, SetsInv
<1>5. BehindInv'
  <2>1. \A c \in Caller : Stored(c) => Stored(c)'
    BY <1>1 DEF Stored, RedisInv, LoggerTypeOK
  <2> QED BY <1>1, <2>1 DEF RedisInv, OrderInv, BehindInv, StoredBehind, IsGet, Reading
<1> QED BY <1>2, <1>3, <1>4, <1>5 DEF RedisInv, OrderInv

LEMMA RedisStep ==
  ASSUME RedisInv, [LoggerNext]_loggerVars
  PROVE  RedisInv'
<1>1. CASE WorkerStep
  BY <1>1, ThreadsKeep, TakeKeeps, TasksKeep, GetAnswers, NotifyKeeps, AsyncKeeps DEF WorkerStep
<1>2. CASE \E c \in Caller : CallerOp(c)
  BY <1>2, LogsKeep, SetKeeps, GetKeeps DEF CallerOp
<1>3. CASE \E c \in Caller : CallerStep(c)
  BY <1>3, CallersKeep
<1>4. CASE Make \/ Break \/ Start \/ Exit \/ MainStep
  BY <1>4, ThreadsKeep DEF MainStep, Exit
<1>7. CASE ClearSession
  BY <1>7, ClearKeeps
<1>5. CASE UploadStep
  BY <1>5, ThreadsKeep, LogsKeep DEF UploadStep
<1>6. CASE UNCHANGED loggerVars
  BY <1>6 DEF loggerVars, redisVars, getVars, opVars, RedisInv, LoggerTypeOK, OrderInv, TaskInv,
     SetsInv, GetsInv, IsGet, Reading, Stored, StoredBehind, BehindInv, ReadsOwnWrites
<1> QED BY <1>1, <1>2, <1>3, <1>4, <1>5, <1>6, <1>7 DEF LoggerNext

(* However many threads set and read values through the queue of the thread of redis, and
   whenever the connection is lost, redis refuses a command, the master clears the session or
   the process exits: who reads what it has set gets that or a later value, with the exceptions
   that ReadsOwnWrites names (Logger: the tasks are run in the order they were pushed). *)
THEOREM LoggerSafe ==
  LoggerSpec => []LoggerInv
<1>1. LoggerInit => RedisInv
  BY RedisInit
<1>2. RedisInv /\ [LoggerNext]_loggerVars => RedisInv'
  BY RedisStep
<1>3. RedisInv => LoggerInv
  BY DEF RedisInv, OrderInv, LoggerInv
<1> QED BY <1>1, <1>2, <1>3, PTL DEF LoggerSpec

================================================================================
