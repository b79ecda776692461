---------------------------- MODULE GhostProofs ----------------------------
(****************************************************************************)
(* Theorems about GhostReplication: its type invariant, and that the last   *)
(* undisturbed change of a property is neither lost nor replaced by an      *)
(* older one (LatestArrives), for any number of peers, containers, keys,    *)
(* moves, joins and losses.                                                 *)
(****************************************************************************)
EXTENDS GhostReplication, SequenceTheorems, TLAPS

-----------------------------------------------------------------------------
(* Updates and sequences of them.                                           *)

(* An update is a function from some keys to values. *)
LEMMA UpdateIsFunction ==
  ASSUME NEW u
  PROVE  u \in Update <=> DOMAIN u \subseteq Key /\ u \in [DOMAIN u -> Value]
<1>1. ASSUME u \in Update PROVE DOMAIN u \subseteq Key /\ u \in [DOMAIN u -> Value]
  <2>1. PICK K \in SUBSET Key : u \in [K -> Value]
    BY <1>1 DEF Update
  <2>2. DOMAIN u = K
    BY <2>1
  <2> QED BY <2>1, <2>2
<1>2. ASSUME DOMAIN u \subseteq Key, u \in [DOMAIN u -> Value] PROVE u \in Update
  <2>1. DOMAIN u \in SUBSET Key
    BY <1>2
  <2> QED BY <1>2, <2>1 DEF Update
<1> QED BY <1>1, <1>2

LEMMA EmptyUpdate == NoUpdate \in Update /\ DOMAIN NoUpdate = {}
BY UpdateIsFunction DEF NoUpdate

(* An update applied to known values keeps the others (Properties::Set). *)
LEMMA MergedUpdate ==
  ASSUME NEW u \in Update, NEW w \in Update
  PROVE  /\ Merged(w, u) \in Update
         /\ DOMAIN Merged(w, u) = DOMAIN w \cup DOMAIN u
         /\ \A k \in DOMAIN u : Merged(w, u)[k] = u[k]
         /\ \A k \in DOMAIN w \ DOMAIN u : Merged(w, u)[k] = w[k]
<1>1. /\ DOMAIN u \subseteq Key /\ u \in [DOMAIN u -> Value]
      /\ DOMAIN w \subseteq Key /\ w \in [DOMAIN w -> Value]
  BY UpdateIsFunction
<1>2. Merged(w, u) \in [DOMAIN w \cup DOMAIN u -> Value] /\ DOMAIN Merged(w, u) \subseteq Key
  BY <1>1 DEF Merged
<1>3. Merged(w, u) \in Update
  BY <1>2, UpdateIsFunction
<1> QED BY <1>3 DEF Merged

LEMMA SingleUpdate ==
  ASSUME NEW k \in Key, NEW v \in Value
  PROVE  Single(k, v) \in Update /\ DOMAIN Single(k, v) = {k} /\ Single(k, v)[k] = v
BY UpdateIsFunction DEF Single

LEMMA AppendUpdate ==
  ASSUME NEW s \in Seq(Update), NEW u \in Update, NEW k, NEW v
  PROVE  /\ Append(s, u) \in Seq(Update)
         /\ HasKey(Append(s, u), k) <=> HasKey(s, k) \/ k \in DOMAIN u
         /\ k \in DOMAIN u /\ u[k] = v => EndsWith(Append(s, u), k, v)
         /\ k \notin DOMAIN u /\ EndsWith(s, k, v) => EndsWith(Append(s, u), k, v)
<1>1. /\ Append(s, u) \in Seq(Update)
      /\ DOMAIN s = 1 .. Len(s) /\ DOMAIN Append(s, u) = 1 .. (Len(s) + 1) /\ Len(s) \in Nat
      /\ \A i \in 1 .. Len(s) : Append(s, u)[i] = s[i]
      /\ Append(s, u)[Len(s) + 1] = u
  OBVIOUS
<1>2. HasKey(Append(s, u), k) <=> HasKey(s, k) \/ k \in DOMAIN u
  BY <1>1 DEF HasKey
<1>3. k \in DOMAIN u /\ u[k] = v => EndsWith(Append(s, u), k, v)
  BY <1>1 DEF EndsWith
<1>4. k \notin DOMAIN u /\ EndsWith(s, k, v) => EndsWith(Append(s, u), k, v)
  BY <1>1 DEF EndsWith
<1> QED BY <1>1, <1>2, <1>3, <1>4

LEMMA TakeUpdate ==
  ASSUME NEW s \in Seq(Update), s # <<>>, NEW k, NEW v
  PROVE  /\ Head(s) \in Update /\ Tail(s) \in Seq(Update)
         /\ HasKey(s, k) <=> HasKey(Tail(s), k) \/ k \in DOMAIN Head(s)
         /\ EndsWith(s, k, v) /\ HasKey(Tail(s), k) => EndsWith(Tail(s), k, v)
         /\ EndsWith(s, k, v) /\ ~HasKey(Tail(s), k) => Head(s)[k] = v
<1>1. /\ Head(s) \in Update /\ Tail(s) \in Seq(Update)
      /\ DOMAIN s = 1 .. Len(s) /\ DOMAIN Tail(s) = 1 .. (Len(s) - 1) /\ Len(s) \in Nat \ {0}
      /\ \A i \in 1 .. (Len(s) - 1) : Tail(s)[i] = s[i + 1]
      /\ Head(s) = s[1]
  OBVIOUS
<1>2. \A i \in 1 .. Len(s) : i = 1 \/ (i - 1 \in 1 .. (Len(s) - 1) /\ Tail(s)[i - 1] = s[i])
  BY <1>1
<1>3. HasKey(s, k) <=> HasKey(Tail(s), k) \/ k \in DOMAIN Head(s)
  <2>1. HasKey(s, k) => HasKey(Tail(s), k) \/ k \in DOMAIN Head(s)
    BY <1>1, <1>2 DEF HasKey
  <2>2. HasKey(Tail(s), k) => HasKey(s, k)
    BY <1>1 DEF HasKey
  <2>3. k \in DOMAIN Head(s) => HasKey(s, k)
    BY <1>1 DEF HasKey
  <2> QED BY <2>1, <2>2, <2>3
<1>4. ASSUME EndsWith(s, k, v)
      PROVE  IF HasKey(Tail(s), k) THEN EndsWith(Tail(s), k, v) ELSE Head(s)[k] = v
  <2>1. PICK i \in 1 .. Len(s) : /\ k \in DOMAIN s[i] /\ s[i][k] = v
                                 /\ \A j \in 1 .. Len(s) : j > i => k \notin DOMAIN s[j]
    BY <1>1, <1>4 DEF EndsWith
  <2>2. CASE i = 1
    <3>1. \A j \in 1 .. (Len(s) - 1) : k \notin DOMAIN Tail(s)[j]
      BY <1>1, <2>1, <2>2
    <3> QED BY <1>1, <2>1, <2>2, <3>1 DEF HasKey
  <2>3. CASE i # 1
    <3>1. i - 1 \in DOMAIN Tail(s) /\ k \in DOMAIN Tail(s)[i - 1] /\ Tail(s)[i - 1][k] = v
      BY <1>1, <1>2, <2>1, <2>3
    <3>2. \A j \in DOMAIN Tail(s) : j > i - 1 => k \notin DOMAIN Tail(s)[j]
      BY <1>1, <2>1, <2>3
    <3>3. HasKey(Tail(s), k)
      BY <3>1 DEF HasKey
    <3>4. EndsWith(Tail(s), k, v)
      BY <3>1, <3>2 DEF EndsWith
    <3> QED BY <3>3, <3>4
  <2> QED BY <2>2, <2>3
<1> QED BY <1>1, <1>3, <1>4

-----------------------------------------------------------------------------
(* The inductive invariant.                                                 *)

(* A container is in the registry of its owner, which has no stream from it and
   is not on its way into it. *)
OwnersInv ==
  /\ \A c \in Container : c \in containers[OwnerOf[c]]
  /\ \A p \in Peer : \A c \in streams[p] : OwnerOf[c] # p
  /\ \A a \in opening \cup asked \cup answering \cup answered \cup loading : OwnerOf[a[2]] # a[1]
  /\ \A c \in Container, p \in Peer : c \notin streams[p] => chan[c][p] = <<>>

(* An engine that is moving the entity is in no other task. *)
EngineInv == \A p \in PeersOf(transferring) : p \notin PeersOf(making) \cup erasing

(* Everything on its way that has values of the entity. *)
Ghosts == answered \cup takes \cup taking \cup tasks \cup making

(* The peers of which the values go into an answer or an order, now or later. *)
Sources == Authorities \cup PeersOf(transferring) \cup {OwnerOf[a[2]] : a \in answering}

(* p has a copy, or applied the values of an answer to make one. *)
Present(p) == Registered(p) \/ p \in PeersOf(loading)

(* A property without a change is nowhere. *)
NeverSetInv ==
  \A k \in Key : latest[k] = NoValue =>
    /\ \A p \in Peer : k \notin DOMAIN props[p]
    /\ \A c \in Container : ~Carries(c, k)
    /\ \A a \in Ghosts : k \notin DOMAIN a[3]

(* What a container still has to deliver of a property ends with its last change. *)
LineInv(k) ==
  \A c \in Container :
    /\ k \in DOMAIN next[c] => next[c][k] = latest[k]
    /\ k \in DOMAIN hand[c] \ DOMAIN next[c] => hand[c][k] = latest[k]
    /\ k \notin DOMAIN hand[c] \cup DOMAIN next[c] =>
         \A p \in Peer : HasKey(chan[c][p], k) => EndsWith(chan[c][p], k, latest[k])

(* Every ghost on its way has the last change. *)
GhostInv(k) ==
  \A a \in Ghosts : IF k \in DOMAIN a[3] THEN a[3][k] = latest[k] ELSE latest[k] = NoValue

(* Whoever has authority, or is about to send its values, has the last change or is
   about to apply it; what is still to be delivered comes from a container of the
   only such peer, and nothing is while the entity is being moved. *)
AuthorityInv(k) ==
  /\ \A p \in Sources : ValueAt(p, k) = latest[k] \/ p \in PeersOf(making)
  /\ \A c \in Container : Carries(c, k) => ~Moving /\ \A p \in Sources : OwnerOf[c] = p

(* Every copy has the last change, is about to apply it or receives it. *)
CopyInv(k) ==
  \A p \in Peer : Present(p) =>
    \/ ValueAt(p, k) = latest[k]
    \/ p \in PeersOf(making)
    \/ \E c \in streams[p] : k \in DOMAIN next[c] \cup DOMAIN hand[c] \/ HasKey(chan[c][p], k)

CalmInv == \A k \in calm : LineInv(k) /\ GhostInv(k) /\ AuthorityInv(k) /\ CopyInv(k)

IInv == TypeOK /\ OwnersInv /\ EngineInv /\ NeverSetInv /\ CalmInv

-----------------------------------------------------------------------------
(* The values of a copy after an update is applied to it. *)
LEMMA AppliedValues ==
  ASSUME TypeOK, NEW p \in Peer, NEW u \in Update, ApplyUpdate(p, u)
  PROVE  /\ props' \in [Peer -> Update]
         /\ fresh' \in [Peer -> SUBSET Key]
         /\ DOMAIN props'[p] = DOMAIN props[p] \cup DOMAIN u
         /\ \A k \in DOMAIN u : ValueAt(p, k)' = u[k]
         /\ \A k \in Key \ DOMAIN u : ValueAt(p, k)' = ValueAt(p, k)
         /\ \A q \in Peer \ {p} : props'[q] = props[q]
<1>1. props \in [Peer -> Update] /\ fresh \in [Peer -> SUBSET Key] /\ props[p] \in Update
  BY DEF TypeOK
<1>2. /\ Merged(props[p], u) \in Update
      /\ DOMAIN Merged(props[p], u) = DOMAIN props[p] \cup DOMAIN u
      /\ \A k \in DOMAIN u : Merged(props[p], u)[k] = u[k]
      /\ \A k \in DOMAIN props[p] \ DOMAIN u : Merged(props[p], u)[k] = props[p][k]
  BY <1>1, MergedUpdate
<1>3. /\ props' \in [Peer -> Update] /\ props'[p] = Merged(props[p], u)
      /\ \A q \in Peer \ {p} : props'[q] = props[q]
  BY <1>1, <1>2 DEF ApplyUpdate
<1>4. Changed(p, u) \subseteq Key
  BY UpdateIsFunction DEF Changed
<1>5. fresh' \in [Peer -> SUBSET Key]
  BY <1>1, <1>4 DEF ApplyUpdate
<1>6. \A k \in DOMAIN u : ValueAt(p, k)' = u[k]
  BY <1>2, <1>3 DEF ValueAt
<1>7. \A k \in Key \ DOMAIN u : ValueAt(p, k)' = ValueAt(p, k)
  BY <1>2, <1>3 DEF ValueAt
<1> QED BY <1>2, <1>3, <1>5, <1>6, <1>7

LEMMA InitType == Init => TypeOK
<1> SUFFICES ASSUME Init PROVE TypeOK
  OBVIOUS
<1>1. NoUpdate \in Update
  BY EmptyUpdate
<1>2. [p \in Peer |-> <<>>] \in [Peer -> Seq(Update)]
  OBVIOUS
<1> QED BY <1>1, <1>2, ConstantsAssumption DEF Init, TypeOK

(* Every step keeps the state well typed. *)
LEMMA NextType ==
  ASSUME TypeOK, [Next]_vars
  PROVE  TypeOK'
<1> USE DEF TypeOK
<1>1. ASSUME NEW p \in Peer, NEW c \in Container, NEW k \in Key, NEW v \in Value,
             SetProperty(p, c, k, v)
      PROVE  TypeOK'
  <2>1. Single(k, v) \in Update /\ Merged(next[c], Single(k, v)) \in Update
    BY SingleUpdate, MergedUpdate
  <2>2. props' \in [Peer -> Update] /\ fresh' \in [Peer -> SUBSET Key]
    BY <1>1, <2>1, AppliedValues DEF SetProperty
  <2>3. next' \in [Container -> Update] /\ latest' \in [Key -> Value \cup {NoValue}] /\ calm' \subseteq Key
    BY <1>1, <2>1 DEF SetProperty, histVars
  <2>4. setting' \in [Peer -> SUBSET (Container \X Key \X Value)]
    BY <1>1 DEF SetProperty
  <2> QED BY <1>1, <2>2, <2>3, <2>4 DEF SetProperty, joinVars, takeVars, dropVars, countVars
<1>2. ASSUME NEW p \in Peer, NEW m \in transferring, m[1] = p, PublishOrders(p, m[2], m[3])
      PROVE  TypeOK'
  <2>1. m[2] \in Container /\ m[3] \in Container /\ props[p] \in Update /\ nmoves \in Nat
    OBVIOUS
  <2>2. takes' \subseteq Peer \X Container \X Update \X Nat
    BY <1>2, <2>1 DEF PublishOrders
  <2>3. drops' \subseteq Peer \X Container \X Nat
    BY <1>2, <2>1 DEF PublishOrders
  <2>4. transferring' \subseteq transferring /\ UNCHANGED <<taking, tasks, dropping, deletes>>
    BY <1>2 DEF PublishOrders
  <2> QED BY <1>2, <2>2, <2>3, <2>4
          DEF PublishOrders, copyVars, pipeVars, joinVars, histVars, countVars
<1>3. ASSUME NEW p \in Peer, NEW t \in tasks, EngineCallInstantiate(p, t)
      PROVE  TypeOK'
  <2>1. t \in Peer \X Container \X Update \X Nat
    OBVIOUS
  <2>2. t[2] \in Container /\ t[3] \in Update
    BY <2>1
  <2>3. making' \subseteq Peer \X Container \X Update /\ owner' \in [Peer -> Container \cup {NoContainer}]
    BY <1>3, <2>2 DEF EngineCallInstantiate
  <2>4. (takes \cup taking \cup tasks)' \subseteq takes \cup taking \cup tasks
    BY <1>3 DEF EngineCallInstantiate
  <2> QED BY <1>3, <2>3, <2>4
          DEF EngineCallInstantiate, pipeVars, joinVars, dropVars, histVars, countVars
<1>4. ASSUME NEW p \in Peer, NEW m \in making, m[1] = p, ApplyGhostToEntity(p, m[2], m[3])
      PROVE  TypeOK'
  <2>1. m[3] \in Update
    OBVIOUS
  <2>2. props' \in [Peer -> Update] /\ fresh' \in [Peer -> SUBSET Key]
    BY <1>4, <2>1, AppliedValues DEF ApplyGhostToEntity
  <2> QED BY <1>4, <2>2
          DEF ApplyGhostToEntity, pipeVars, joinVars, takeVars, dropVars, histVars, countVars
<1>5. ASSUME NEW p \in Peer, NEW d \in deletes, UnregisterEntity(p, d)
      PROVE  TypeOK'
  <2>1. /\ owner' \in [Peer -> Container \cup {NoContainer}] /\ quarantined' \subseteq Peer
        /\ invalid' \subseteq Peer /\ erasing' \subseteq Peer /\ deletes' \subseteq deletes
    BY <1>5 DEF UnregisterEntity
  <2> QED BY <1>5, <2>1 DEF UnregisterEntity, pipeVars, joinVars, takeVars, histVars, countVars
<1>6. ASSUME NEW p \in Peer, TryRemoveEntity(p)
      PROVE  TypeOK'
  <2>1. props' \in [Peer -> Update] /\ fresh' \in [Peer -> SUBSET Key] /\ polled' \in [Peer -> Update]
    BY <1>6, EmptyUpdate DEF TryRemoveEntity
  <2>2. erasing' \subseteq erasing /\ calm' \subseteq calm
    BY <1>6 DEF TryRemoveEntity
  <2> QED BY <1>6, <2>1, <2>2
          DEF TryRemoveEntity, pipeVars, joinVars, takeVars, dropVars, countVars
<1>7. ASSUME NEW c \in Container, NEW p \in Peer, HandleReplicationPacket(c, p)
      PROVE  TypeOK'
  <2>1. Head(chan[c][p]) \in Update /\ Tail(chan[c][p]) \in Seq(Update)
    BY <1>7 DEF HandleReplicationPacket
  <2>2. props' \in [Peer -> Update] /\ fresh' \in [Peer -> SUBSET Key]
    BY <1>7, <2>1, AppliedValues DEF HandleReplicationPacket
  <2>3. chan' \in [Container -> [Peer -> Seq(Update)]]
    BY <1>7, <2>1 DEF HandleReplicationPacket
  <2> QED BY <1>7, <2>2, <2>3
          DEF HandleReplicationPacket, engineVars, joinVars, takeVars, dropVars, histVars, countVars
<1>8. ASSUME NEW a \in asked, GetExistingEntities(a[1], a[2])
      PROVE  TypeOK'
  BY <1>8
  DEF GetExistingEntities, copyVars, engineVars, pipeVars, takeVars, dropVars, histVars, countVars
<1>9. ASSUME NEW a \in answering, PeekProperties(a[1], a[2])
      PROVE  TypeOK'
  <2>1. a[1] \in Peer /\ a[2] \in Container /\ OwnerOf[a[2]] \in Peer
    BY ConstantsAssumption
  <2>2. answered' \subseteq Peer \X Container \X Update /\ answering' \subseteq answering
    BY <1>9, <2>1 DEF PeekProperties
  <2>3. calm' \subseteq calm
    BY <1>9 DEF PeekProperties
  <2> QED BY <1>9, <2>2, <2>3
          DEF PeekProperties, copyVars, engineVars, pipeVars, takeVars, dropVars, countVars
<1>10. ASSUME NEW p \in Peer, NEW t \in takes, ExecTakeOrder(p, t)
       PROVE  TypeOK'
  <2>1. t \in Peer \X Container \X Update \X Nat
    OBVIOUS
  <2>2. owner' \in [Peer -> Container \cup {NoContainer}] /\ quarantined' \subseteq Peer
    BY <1>10, <2>1 DEF ExecTakeOrder
  <2>3. (takes \cup taking \cup tasks)' \subseteq takes \cup taking \cup tasks
    BY <1>10 DEF ExecTakeOrder
  <2> QED BY <1>10, <2>2, <2>3
          DEF ExecTakeOrder, engineVars, pipeVars, joinVars, dropVars, histVars, countVars
<1>11. ASSUME NEW p \in Peer, NEW t \in taking, FinishTakeOrder(p, t)
       PROVE  TypeOK'
  <2>1. (takes \cup taking \cup tasks)' \subseteq takes \cup taking \cup tasks
    BY <1>11 DEF FinishTakeOrder
  <2> QED BY <1>11, <2>1
          DEF FinishTakeOrder, copyVars, engineVars, pipeVars, joinVars, dropVars, histVars, countVars
<1>12. ASSUME NEW p \in Peer, NEW d \in drops, ExecDropOrder(p, d)
       PROVE  TypeOK'
  <2>1. quarantined' \subseteq Peer /\ invalid' \subseteq Peer
    BY <1>12 DEF ExecDropOrder
  <2>2. (drops \cup dropping \cup deletes)' \subseteq drops \cup dropping \cup deletes
    BY <1>12 DEF ExecDropOrder
  <2> QED BY <1>12, <2>1, <2>2
          DEF ExecDropOrder, engineVars, pipeVars, joinVars, takeVars, histVars, countVars
<1>13. ASSUME NEW p \in Peer, NEW d \in dropping, ScheduleDeletion(p, d)
       PROVE  TypeOK'
  <2>1. (drops \cup dropping \cup deletes)' \subseteq drops \cup dropping \cup deletes
    BY <1>13 DEF ScheduleDeletion
  <2> QED BY <1>13, <2>1
          DEF ScheduleDeletion, copyVars, engineVars, pipeVars, joinVars, takeVars, histVars, countVars
<1>14. ASSUME NEW p \in Peer, NEW c \in Container, OpenStream(p, c)
       PROVE  TypeOK'
  BY <1>14 DEF OpenStream, copyVars, engineVars, pipeVars, takeVars, dropVars, histVars, countVars
<1>15. ASSUME NEW a \in answered, LoadExistingEntities(a[1], a[2], a[3])
       PROVE  TypeOK'
  <2>1. a[1] \in Peer /\ a[2] \in Container /\ a[3] \in Update
    OBVIOUS
  <2>2. props' \in [Peer -> Update] /\ fresh' \in [Peer -> SUBSET Key]
    BY <1>15, <2>1, AppliedValues DEF LoadExistingEntities
  <2>3. answered' \subseteq answered /\ loading' \subseteq Peer \X Container
    BY <1>15, <2>1 DEF LoadExistingEntities
  <2> QED BY <1>15, <2>2, <2>3
          DEF LoadExistingEntities, engineVars, pipeVars, takeVars, dropVars, histVars, countVars
<1>16. ASSUME NEW a \in loading, LoadInstantiates(a[1], a[2])
       PROVE  TypeOK'
  BY <1>16
  DEF LoadInstantiates, engineVars, pipeVars, takeVars, dropVars, histVars, countVars
<1>17. ASSUME NEW c \in Container, FetchNextUpdate(c)
       PROVE  TypeOK'
  BY <1>17, EmptyUpdate
  DEF FetchNextUpdate, copyVars, engineVars, joinVars, takeVars, dropVars, histVars, countVars
<1>18. ASSUME NEW c \in Container, ReplicateData(c)
       PROVE  TypeOK'
  <2>1. chan' \in [Container -> [Peer -> Seq(Update)]]
    BY <1>18 DEF ReplicateData
  <2> QED BY <1>18, <2>1, EmptyUpdate
          DEF ReplicateData, copyVars, engineVars, joinVars, takeVars, dropVars, histVars, countVars
<1>19. ASSUME NEW p \in Polling, NEW k \in Key, PollPropertyUpdate(p, k)
       PROVE  TypeOK'
  <2>1. p \in Peer
    BY ConstantsAssumption
  <2>2. props[p][k] \in Value
    BY <1>19, <2>1, UpdateIsFunction DEF PollPropertyUpdate
  <2>3. Merged(polled[p], Single(k, props[p][k])) \in Update
    BY <2>1, <2>2, SingleUpdate, MergedUpdate
  <2> QED
    BY <1>19, <2>1, <2>3
    DEF PollPropertyUpdate, engineVars, pipeVars, joinVars, takeVars, dropVars, histVars, countVars
<1>20. ASSUME NEW p \in Peer, NEW k \in Key, NEW v \in Value, UpdatePropertyState(p, k, v)
       PROVE  TypeOK'
  <2>1. owner[p] \in Container
    BY <1>20 DEF UpdatePropertyState, HasAuthority, Registered
  <2> QED
    BY <1>20, <2>1
    DEF UpdatePropertyState, copyVars, pipeVars, joinVars, takeVars, dropVars, histVars
<1>21. ASSUME NEW p \in Peer, NEW c \in Container, TransferAuthority(p, c)
       PROVE  TypeOK'
  <2>1. owner[p] \in Container
    BY <1>21 DEF TransferAuthority, HasAuthority, Registered
  <2>2. /\ transferring' \subseteq Peer \X Container \X Container /\ quarantined' \subseteq Peer
        /\ calm' \subseteq Key /\ nmoves' \in Nat
    BY <1>21, <2>1 DEF TransferAuthority
  <2> QED BY <1>21, <2>2 DEF TransferAuthority, pipeVars, joinVars, takeVars, dropVars
<1>22. ASSUME NEW p \in Peer, NEW c \in Container, SubscribeToContainer(p, c)
       PROVE  TypeOK'
  <2>1. containers' \in [Peer -> SUBSET Container]
    BY <1>22 DEF SubscribeToContainer
  <2>2. opening' \subseteq Peer \X Container /\ asked' \subseteq Peer \X Container
    BY <1>22 DEF SubscribeToContainer
  <2>3. njoins' \in Nat
    BY <1>22 DEF SubscribeToContainer
  <2> QED BY <1>22, <2>1, <2>2, <2>3
          DEF SubscribeToContainer, copyVars, engineVars, pipeVars, takeVars, dropVars, histVars
<1>23. ASSUME NEW p \in Peer, NEW c \in Container, LosePacket(c, p)
       PROVE  TypeOK'
  <2>1. Tail(chan[c][p]) \in Seq(Update)
    BY <1>23 DEF LosePacket
  <2>2. chan' \in [Container -> [Peer -> Seq(Update)]]
    BY <1>23, <2>1 DEF LosePacket
  <2>3. calm' \subseteq Key /\ nlost' \in Nat
    BY <1>23 DEF LosePacket
  <2> QED BY <1>23, <2>2, <2>3 DEF LosePacket, copyVars, engineVars, joinVars, takeVars, dropVars
<1>24. ASSUME NEW p \in Peer, NEW c \in Container, LoadFails(p, c)
       PROVE  TypeOK'
  <2>1. asked' \subseteq asked /\ answered' \subseteq answered /\ nlost' \in Nat
    BY <1>24 DEF LoadFails
  <2> QED BY <1>24, <2>1 DEF LoadFails, copyVars, engineVars, pipeVars, takeVars, dropVars, histVars
<1>25. ASSUME UNCHANGED vars
       PROVE  TypeOK'
  BY <1>25
  DEF vars, copyVars, engineVars, pipeVars, joinVars, takeVars, dropVars, histVars, countVars
<1>26. ASSUME NEW p \in Peer, EngineNext(p) PROVE TypeOK'
  BY <1>1, <1>2, <1>3, <1>4, <1>5, <1>6, <1>26 DEF EngineNext
<1>27. ASSUME NEW p \in Peer, ListenerNext(p) PROVE TypeOK'
  BY <1>7, <1>8, <1>9, <1>10, <1>11, <1>27 DEF ListenerNext
<1>28. ASSUME NEW p \in Peer, ClockNext(p) PROVE TypeOK'
  BY <1>12, <1>13, <1>28 DEF ClockNext
<1>29. ASSUME NEW p \in Peer, PoolNext(p) PROVE TypeOK'
  <2>1. ASSUME NEW a \in answered, a[1] = p, LoadExistingEntities(p, a[2], a[3]) PROVE TypeOK'
    BY <1>15, <2>1
  <2>2. ASSUME NEW a \in loading, a[1] = p, LoadInstantiates(p, a[2]) PROVE TypeOK'
    BY <1>16, <2>2
  <2> QED BY <1>14, <1>29, <2>1, <2>2 DEF PoolNext
<1>30. ASSUME NEW c \in Container, WorkerNext(c) PROVE TypeOK'
  BY <1>17, <1>18, <1>30 DEF WorkerNext
<1> QED
  BY <1>19, <1>20, <1>21, <1>22, <1>23, <1>24, <1>25, <1>26, <1>27, <1>28, <1>29, <1>30
  DEF Next, Idle

(* The copies, what is on its way and the counters stay of their types, in every
   reachable state. *)
THEOREM TypeCorrect == Spec => []TypeOK
<1>1. Init => TypeOK
  BY InitType
<1>2. TypeOK /\ [Next]_vars => TypeOK'
  BY NextType
<1> QED BY <1>1, <1>2, PTL DEF Spec

-----------------------------------------------------------------------------
(* The owners of containers, and what an engine is busy with.               *)

LEMMA NextOwners ==
  ASSUME TypeOK, OwnersInv, [Next]_vars
  PROVE  OwnersInv'
<1> USE DEF TypeOK, OwnersInv
<1>0. \A c \in Container : OwnerOf[c] \in Peer
  BY ConstantsAssumption
<1>1. ASSUME UNCHANGED <<containers, streams, chan>>,
             \A a \in (opening \cup asked \cup answering \cup answered \cup loading)' :
               \E b \in opening \cup asked \cup answering \cup answered \cup loading :
                 a[1] = b[1] /\ a[2] = b[2]
      PROVE  OwnersInv'
  <2>1. \A a \in (opening \cup asked \cup answering \cup answered \cup loading)' : OwnerOf[a[2]] # a[1]
    BY <1>1
  <2> QED BY ONLY <1>1, <2>1, OwnersInv DEF OwnersInv
<1>2. ASSUME UNCHANGED <<joinVars, chan>> PROVE OwnersInv'
  BY <1>2 DEF joinVars
<1>3. ASSUME NEW c \in Container, NEW p \in Peer, HandleReplicationPacket(c, p) \/ LosePacket(c, p)
      PROVE  OwnersInv'
  <2>1. UNCHANGED <<containers, streams, opening, asked, answering, answered, loading>>
    BY <1>3 DEF HandleReplicationPacket, LosePacket, joinVars
  <2>2. chan[c][p] # <<>> /\ chan' = [chan EXCEPT ![c][p] = Tail(@)]
    BY <1>3 DEF HandleReplicationPacket, LosePacket
  <2>3. \A d \in Container, q \in Peer : d \notin streams'[q] => chan'[d][q] = <<>>
    BY <2>1, <2>2
  <2> QED BY <2>1, <2>3
<1>4. ASSUME NEW c \in Container, ReplicateData(c)
      PROVE  OwnersInv'
  <2>1. UNCHANGED <<containers, streams, opening, asked, answering, answered, loading>>
    BY <1>4 DEF ReplicateData, joinVars
  <2>2. \A d \in Container, q \in Peer : d \notin streams[q] => chan'[d][q] = chan[d][q]
    BY <1>4 DEF ReplicateData
  <2> QED BY <2>1, <2>2
<1>5. ASSUME NEW a \in asked, GetExistingEntities(a[1], a[2])
      PROVE  OwnersInv'
  <2>1. a = <<a[1], a[2]>>
    OBVIOUS
  <2>2. /\ UNCHANGED <<containers, streams, chan, opening, answered, loading>>
        /\ asked' \subseteq asked /\ answering' \subseteq answering \cup {a}
    BY <1>5, <2>1 DEF GetExistingEntities, pipeVars
  <2> QED BY <1>1, <2>2
<1>6. ASSUME NEW a \in answering, PeekProperties(a[1], a[2])
      PROVE  OwnersInv'
  <2>1. /\ UNCHANGED <<containers, streams, chan, opening, asked, loading>>
        /\ answering' \subseteq answering
        /\ \A b \in answered' : b \in answered \/ (b[1] = a[1] /\ b[2] = a[2])
    BY <1>6 DEF PeekProperties, pipeVars
  <2> QED BY <1>1, <2>1
<1>7. ASSUME NEW p \in Peer, NEW c \in Container, OpenStream(p, c)
      PROVE  OwnersInv'
  <2>1. <<p, c>> \in opening /\ <<p, c>>[1] = p /\ <<p, c>>[2] = c
    BY <1>7 DEF OpenStream
  <2>2. OwnerOf[c] # p
    BY <2>1
  <2>3. streams' = [streams EXCEPT ![p] = @ \cup {c}]
    BY <1>7 DEF OpenStream
  <2>4. \A q \in Peer : \A d \in streams'[q] : OwnerOf[d] # q
    BY <2>2, <2>3
  <2>5. /\ opening' \subseteq opening
        /\ UNCHANGED <<containers, asked, answering, answered, loading, chan>>
    BY <1>7 DEF OpenStream, pipeVars
  <2>6. \A d \in Container, q \in Peer : d \notin streams'[q] => chan'[d][q] = <<>>
    BY <2>3, <2>5
  <2> QED BY <2>4, <2>5, <2>6
<1>8. ASSUME NEW a \in answered, LoadExistingEntities(a[1], a[2], a[3])
      PROVE  OwnersInv'
  <2>1. /\ UNCHANGED <<containers, streams, opening, asked, answering, chan>>
        /\ answered' \subseteq answered
        /\ \A b \in loading' : b \in loading \/ (b[1] = a[1] /\ b[2] = a[2])
    BY <1>8 DEF LoadExistingEntities, pipeVars
  <2> QED BY <1>1, <2>1
<1>9. ASSUME NEW a \in loading, LoadInstantiates(a[1], a[2])
      PROVE  OwnersInv'
  <2>1. /\ UNCHANGED <<containers, streams, opening, asked, answering, answered, chan>>
        /\ loading' \subseteq loading
    BY <1>9 DEF LoadInstantiates, pipeVars
  <2> QED BY <1>1, <2>1
<1>10. ASSUME NEW p \in Peer, NEW c \in Container, SubscribeToContainer(p, c)
       PROVE  OwnersInv'
  <2>1. OwnerOf[c] # p
    BY <1>10 DEF SubscribeToContainer
  <2>2. containers' = [containers EXCEPT ![p] = @ \cup {c}]
    BY <1>10 DEF SubscribeToContainer
  <2>3. \A d \in Container : d \in containers'[OwnerOf[d]]
    BY <1>0, <2>2
  <2>4. /\ opening' = opening \cup {<<p, c>>} /\ asked' = asked \cup {<<p, c>>}
        /\ UNCHANGED <<streams, answering, answered, loading, chan>>
    BY <1>10 DEF SubscribeToContainer, pipeVars
  <2> QED BY <2>1, <2>3, <2>4
<1>11. ASSUME NEW p \in Peer, NEW c \in Container, LoadFails(p, c)
       PROVE  OwnersInv'
  <2>1. /\ asked' \subseteq asked /\ answered' \subseteq answered
        /\ UNCHANGED <<containers, streams, opening, answering, loading, chan>>
    BY <1>11 DEF LoadFails, pipeVars
  <2> QED BY <1>1, <2>1
<1>12. ASSUME NEW p \in Peer, EngineNext(p)
       PROVE  OwnersInv'
  <2>1. UNCHANGED <<joinVars, chan>>
    BY <1>12
    DEF EngineNext, SetProperty, PublishOrders, EngineCallInstantiate, ApplyGhostToEntity,
        UnregisterEntity, TryRemoveEntity, pipeVars
  <2> QED BY <1>2, <2>1
<1>13. ASSUME NEW p \in Peer, \/ \E t \in takes : ExecTakeOrder(p, t)
                              \/ \E t \in taking : FinishTakeOrder(p, t)
                              \/ ClockNext(p)
       PROVE  OwnersInv'
  <2>1. UNCHANGED <<joinVars, chan>>
    BY <1>13 DEF ExecTakeOrder, FinishTakeOrder, ClockNext, ExecDropOrder, ScheduleDeletion,
       pipeVars
  <2> QED BY <1>2, <2>1
<1>14. ASSUME NEW c \in Container, FetchNextUpdate(c)
       PROVE  OwnersInv'
  BY <1>2, <1>14 DEF FetchNextUpdate
<1>15. ASSUME NEW p \in Peer, \/ \E c \in Container : TransferAuthority(p, c)
                              \/ \E k \in Key : PollPropertyUpdate(p, k)
                              \/ \E k \in Key, v \in Value : UpdatePropertyState(p, k, v)
       PROVE  OwnersInv'
  <2>1. UNCHANGED <<joinVars, chan>>
    BY <1>15 DEF TransferAuthority, PollPropertyUpdate, UpdatePropertyState, pipeVars
  <2> QED BY <1>2, <2>1
<1>16. ASSUME UNCHANGED vars PROVE OwnersInv'
  BY <1>2, <1>16 DEF vars, pipeVars
<1>17. ASSUME NEW p \in Peer, ListenerNext(p) PROVE OwnersInv'
  BY <1>3, <1>5, <1>6, <1>13, <1>17 DEF ListenerNext
<1>18. ASSUME NEW p \in Peer, PoolNext(p) PROVE OwnersInv'
  <2>1. ASSUME NEW a \in answered, a[1] = p, LoadExistingEntities(p, a[2], a[3]) PROVE OwnersInv'
    BY <1>8, <2>1
  <2>2. ASSUME NEW a \in loading, a[1] = p, LoadInstantiates(p, a[2]) PROVE OwnersInv'
    BY <1>9, <2>2
  <2> QED BY <1>7, <1>18, <2>1, <2>2 DEF PoolNext
<1>19. Polling \subseteq Peer
  BY ConstantsAssumption
<1> QED
  BY <1>3, <1>4, <1>10, <1>11, <1>12, <1>13, <1>14, <1>15, <1>16, <1>17, <1>18, <1>19
  DEF Next, WorkerNext, Idle

LEMMA NextEngine ==
  ASSUME TypeOK, EngineInv, [Next]_vars
  PROVE  EngineInv'
<1> USE DEF EngineInv, PeersOf
<1>1. ASSUME transferring' \subseteq transferring, making' \subseteq making, erasing' \subseteq erasing
      PROVE  EngineInv'
  BY <1>1
<1>2. ASSUME NEW p \in Peer, NEW c \in Container, TransferAuthority(p, c) PROVE EngineInv'
  BY <1>2 DEF TransferAuthority, EngineIdle
<1>3. ASSUME NEW p \in Peer, NEW t \in tasks, EngineCallInstantiate(p, t) PROVE EngineInv'
  <2>1. /\ making' = making \cup {<<p, t[2], t[3]>>} /\ UNCHANGED <<transferring, erasing>>
        /\ p \notin PeersOf(transferring)
    BY <1>3 DEF EngineCallInstantiate, EngineIdle
  <2> QED BY <2>1
<1>4. ASSUME NEW p \in Peer, NEW d \in deletes, UnregisterEntity(p, d) PROVE EngineInv'
  <2>1. /\ erasing' \subseteq erasing \cup {p} /\ UNCHANGED <<transferring, making>>
        /\ p \notin PeersOf(transferring)
    BY <1>4 DEF UnregisterEntity, EngineIdle
  <2> QED BY <2>1
<1>5. ASSUME UNCHANGED <<transferring, making, erasing>> PROVE EngineInv'
  BY <1>5
<1>6. ASSUME NEW p \in Peer, EngineNext(p) PROVE EngineInv'
  <2>1. ASSUME NEW m \in transferring, PublishOrders(p, m[2], m[3]) PROVE EngineInv'
    BY <1>1, <2>1 DEF PublishOrders
  <2>2. ASSUME NEW m \in making, ApplyGhostToEntity(p, m[2], m[3]) PROVE EngineInv'
    BY <1>1, <2>2 DEF ApplyGhostToEntity
  <2>3. ASSUME TryRemoveEntity(p) PROVE EngineInv'
    BY <1>1, <2>3 DEF TryRemoveEntity
  <2>4. ASSUME NEW c \in Container, NEW k \in Key, NEW v \in Value, SetProperty(p, c, k, v)
        PROVE  EngineInv'
    BY <1>5, <2>4 DEF SetProperty
  <2> QED BY <1>3, <1>4, <1>6, <2>1, <2>2, <2>3, <2>4 DEF EngineNext
<1>7. ASSUME NEW p \in Peer, ListenerNext(p) \/ ClockNext(p) \/ PoolNext(p) PROVE EngineInv'
  <2>1. UNCHANGED <<transferring, making, erasing>>
    BY <1>7
    DEF ListenerNext, HandleReplicationPacket, GetExistingEntities, PeekProperties, ExecTakeOrder,
        FinishTakeOrder, ClockNext, ExecDropOrder, ScheduleDeletion, PoolNext, OpenStream,
        LoadExistingEntities, LoadInstantiates, engineVars
  <2> QED BY <1>5, <2>1
<1>8. ASSUME \/ \E c \in Container : WorkerNext(c)
             \/ \E p \in Polling, k \in Key : PollPropertyUpdate(p, k)
             \/ \E p \in Peer, k \in Key, v \in Value : UpdatePropertyState(p, k, v)
             \/ \E p \in Peer, c \in Container :
                  SubscribeToContainer(p, c) \/ LosePacket(c, p) \/ LoadFails(p, c)
             \/ UNCHANGED vars
      PROVE  EngineInv'
  <2>1. UNCHANGED <<transferring, making, erasing>>
    BY <1>8
    DEF WorkerNext, FetchNextUpdate, ReplicateData, PollPropertyUpdate, UpdatePropertyState,
        SubscribeToContainer, LosePacket, LoadFails, vars, engineVars
  <2> QED BY <1>5, <2>1
<1> QED BY <1>2, <1>6, <1>7, <1>8 DEF Next, Idle

-----------------------------------------------------------------------------
(* Steps of the pipeline from the engine to the listeners.                  *)

LEMMA SourcesArePeers == TypeOK => Sources \subseteq Peer
BY ConstantsAssumption DEF TypeOK, Sources, Authorities, PeersOf

(* What the invariant says of peers and ghosts is about these variables. *)
LEMMA SameOrders ==
  ASSUME UNCHANGED <<owner, transferring, making, joinVars, takeVars>>
  PROVE  /\ UNCHANGED <<containers, streams, answering, loading>>
         /\ Ghosts' = Ghosts /\ Sources' = Sources /\ Moving' = Moving
         /\ PeersOf(making)' = PeersOf(making)
         /\ \A p \in Peer : Present(p)' = Present(p)
<1>1. /\ UNCHANGED <<containers, streams, answering, answered, loading, takes, taking, tasks>>
  BY DEF joinVars, takeVars
<1>2. Authorities' = Authorities
  BY <1>1 DEF Authorities, HasAuthority, Registered
<1> QED BY <1>1, <1>2 DEF Ghosts, Sources, Moving, PeersOf, Present, Registered

(* A step that only moves or drops updates that are on their way. *)
LEMMA PipeOnly ==
  ASSUME NeverSetInv, CalmInv, calm' \subseteq calm, calm \subseteq Key,
         UNCHANGED <<owner, transferring, making, joinVars, takeVars, props, latest>>,
         \A d \in Container, k \in Key : Carries(d, k)' => Carries(d, k)
  PROVE  /\ NeverSetInv'
         /\ \A k \in calm' : GhostInv(k)' /\ AuthorityInv(k)'
<1>1. /\ Ghosts' = Ghosts /\ Sources' = Sources /\ Moving' = Moving
      /\ PeersOf(making)' = PeersOf(making)
  BY SameOrders
<1>2. NeverSetInv'
  BY <1>1 DEF NeverSetInv
<1>3. ASSUME NEW k \in calm' PROVE GhostInv(k)' /\ AuthorityInv(k)'
  <2>1. k \in Key /\ GhostInv(k) /\ AuthorityInv(k)
    BY <1>3 DEF CalmInv
  <2>2. GhostInv(k)'
    BY <1>1, <2>1 DEF GhostInv
  <2>3. \A p : ValueAt(p, k)' = ValueAt(p, k)
    BY DEF ValueAt
  <2>4. \A p \in Sources' : ValueAt(p, k)' = latest'[k] \/ p \in PeersOf(making)'
    BY <1>1, <2>1, <2>3 DEF AuthorityInv
  <2>5. \A c \in Container : Carries(c, k)' => ~Moving /\ \A p \in Sources : OwnerOf[c] = p
    BY <2>1 DEF AuthorityInv
  <2> QED BY <1>1, <2>2, <2>4, <2>5 DEF AuthorityInv
<1> QED BY <1>2, <1>3

LEMMA FetchKeeps ==
  ASSUME TypeOK, NeverSetInv, CalmInv, NEW c \in Container, FetchNextUpdate(c)
  PROVE  NeverSetInv' /\ CalmInv'
<1>1. /\ hand[c] = NoUpdate /\ hand' = [hand EXCEPT ![c] = next[c]]
      /\ next' = [next EXCEPT ![c] = NoUpdate]
      /\ UNCHANGED <<chan, owner, transferring, making, joinVars, takeVars, props, latest, calm>>
  BY DEF FetchNextUpdate, copyVars, engineVars, histVars
<1>2. hand \in [Container -> Update] /\ next \in [Container -> Update] /\ calm \subseteq Key
  BY DEF TypeOK
<1>3. /\ hand'[c] = next[c] /\ next'[c] = NoUpdate /\ DOMAIN hand[c] = {} /\ DOMAIN next'[c] = {}
      /\ \A d \in Container \ {c} : hand'[d] = hand[d] /\ next'[d] = next[d]
  BY <1>1, <1>2, EmptyUpdate
<1>4. \A d \in Container : DOMAIN next'[d] \cup DOMAIN hand'[d] = DOMAIN next[d] \cup DOMAIN hand[d]
  BY <1>3
<1>5. \A d \in Container, k \in Key : Carries(d, k)' => Carries(d, k)
  BY <1>1, <1>4 DEF Carries
<1>6. NeverSetInv' /\ \A k \in calm' : GhostInv(k)' /\ AuthorityInv(k)'
  BY <1>1, <1>2, <1>5, PipeOnly
<1>8. /\ UNCHANGED <<streams, containers>> /\ PeersOf(making)' = PeersOf(making)
      /\ \A p \in Peer : Present(p)' = Present(p)
  BY <1>1, SameOrders
<1>7. ASSUME NEW k \in calm PROVE LineInv(k)' /\ CopyInv(k)'
  <2>1. LineInv(k) /\ CopyInv(k)
    BY DEF CalmInv
  <2>2. LineInv(k)'
    BY <1>1, <1>3, <2>1 DEF LineInv
  <2>3. \A p \in Peer : ValueAt(p, k)' = ValueAt(p, k)
    BY <1>1 DEF ValueAt
  <2>4. \A p \in Peer : streams[p] \subseteq Container
    BY DEF TypeOK
  <2>5. CopyInv(k)'
    BY <1>1, <1>4, <1>8, <2>1, <2>3, <2>4 DEF CopyInv
  <2> QED BY <2>2, <2>5
<1> QED BY <1>1, <1>6, <1>7 DEF CalmInv

LEMMA ReplicateKeeps ==
  ASSUME TypeOK, OwnersInv, NeverSetInv, CalmInv, NEW c \in Container, ReplicateData(c)
  PROVE  NeverSetInv' /\ CalmInv'
<1>1. /\ hand' = [hand EXCEPT ![c] = NoUpdate]
      /\ UNCHANGED <<next, owner, transferring, making, joinVars, takeVars, props, latest, calm>>
  BY DEF ReplicateData, copyVars, engineVars, histVars
<1>2. hand \in [Container -> Update] /\ hand[c] \in Update /\ calm \subseteq Key
  BY DEF TypeOK
<1>3. /\ DOMAIN hand'[c] = {} /\ \A d \in Container \ {c} : hand'[d] = hand[d]
  BY <1>1, <1>2, EmptyUpdate
<1>4. \A d \in Container, p \in Peer : chan[d][p] \in Seq(Update)
  BY DEF TypeOK
<1>5. \A d \in Container, p \in Peer :
        chan'[d][p] = IF d = c /\ c \in streams[p] THEN Append(chan[d][p], hand[c]) ELSE chan[d][p]
  BY DEF TypeOK, ReplicateData
<1>6. \A d \in Container, p \in Peer, k \in Key :
        HasKey(chan'[d][p], k) <=>
          HasKey(chan[d][p], k) \/ (d = c /\ c \in streams[p] /\ k \in DOMAIN hand[c])
  <2> SUFFICES ASSUME NEW d \in Container, NEW p \in Peer, NEW k \in Key
               PROVE  HasKey(chan'[d][p], k) <=>
                 HasKey(chan[d][p], k) \/ (d = c /\ c \in streams[p] /\ k \in DOMAIN hand[c])
    OBVIOUS
  <2>1. CASE d = c /\ c \in streams[p]
    <3>1. chan'[d][p] = Append(chan[d][p], hand[c]) /\ chan[d][p] \in Seq(Update)
      BY <1>4, <1>5, <2>1
    <3>2. HasKey(Append(chan[d][p], hand[c]), k) <=> HasKey(chan[d][p], k) \/ k \in DOMAIN hand[c]
      BY <1>2, <3>1, AppendUpdate
    <3> QED BY <2>1, <3>1, <3>2
  <2>2. CASE ~(d = c /\ c \in streams[p])
    <3>1. chan'[d][p] = chan[d][p]
      BY <1>5, <2>2
    <3> QED BY <2>2, <3>1
  <2> QED BY <2>1, <2>2
<1>7. \A d \in Container, k \in Key : Carries(d, k)' => Carries(d, k)
  <2> SUFFICES ASSUME NEW d \in Container, NEW k \in Key, Carries(d, k)' PROVE Carries(d, k)
    OBVIOUS
  <2>1. k \in DOMAIN next'[d] \cup DOMAIN hand'[d] \/ \E p \in Peer : HasKey(chan'[d][p], k)
    BY DEF Carries, HasKey
  <2>2. k \in DOMAIN next[d] \cup DOMAIN hand[d] \/ \E p \in Peer : HasKey(chan[d][p], k)
    BY <1>1, <1>3, <1>6, <2>1
  <2> QED BY <2>2 DEF Carries, HasKey
<1>8. NeverSetInv' /\ \A k \in calm' : GhostInv(k)' /\ AuthorityInv(k)'
  BY <1>1, <1>2, <1>7, PipeOnly
<1>10. /\ UNCHANGED <<streams, containers>> /\ PeersOf(making)' = PeersOf(making)
      /\ \A q \in Peer : Present(q)' = Present(q)
  BY <1>1, SameOrders
<1>9. ASSUME NEW k \in calm PROVE LineInv(k)' /\ CopyInv(k)'
  <2>1. LineInv(k) /\ CopyInv(k) /\ k \in Key
    BY <1>2 DEF CalmInv
  <2>2. ASSUME NEW p \in Peer, k \notin DOMAIN next[c], HasKey(chan'[c][p], k)
        PROVE  EndsWith(chan'[c][p], k, latest[k])
    <3>1. CASE c \in streams[p] /\ k \in DOMAIN hand[c]
      <4>1. hand[c][k] = latest[k]
        BY <2>1, <2>2, <3>1 DEF LineInv
      <4> QED BY <1>2, <1>4, <1>5, <3>1, <4>1, AppendUpdate
    <3>2. CASE c \in streams[p] /\ k \notin DOMAIN hand[c]
      <4>1. HasKey(chan[c][p], k)
        BY <1>6, <2>1, <2>2, <3>2
      <4>2. EndsWith(chan[c][p], k, latest[k])
        BY <2>1, <2>2, <3>2, <4>1 DEF LineInv
      <4> QED BY <1>2, <1>4, <1>5, <3>2, <4>2, AppendUpdate
    <3>3. CASE c \notin streams[p]
      BY <1>5, <2>2, <3>3 DEF OwnersInv, HasKey
    <3> QED BY <3>1, <3>2, <3>3
  <2>3. ASSUME NEW d \in Container \ {c}, NEW p \in Peer
        PROVE  chan'[d][p] = chan[d][p]
    BY <1>5
  <2>4. LineInv(k)'
    BY <1>1, <1>3, <2>1, <2>2, <2>3 DEF LineInv
  <2>5. \A p \in Peer : ValueAt(p, k)' = ValueAt(p, k)
    BY <1>1 DEF ValueAt
  <2>6. ASSUME NEW p \in Peer, NEW d \in streams[p],
               k \in DOMAIN next[d] \cup DOMAIN hand[d] \/ HasKey(chan[d][p], k)
        PROVE  k \in DOMAIN next'[d] \cup DOMAIN hand'[d] \/ HasKey(chan'[d][p], k)
    <3>1. d \in Container
      BY DEF TypeOK
    <3> QED BY <1>1, <1>3, <1>6, <2>1, <2>6, <3>1
  <2>7. CopyInv(k)'
    BY <1>1, <1>10, <2>1, <2>5, <2>6 DEF CopyInv
  <2> QED BY <2>4, <2>7
<1> QED BY <1>1, <1>8, <1>9 DEF CalmInv

(* The oldest packet to a listener leaves the line. *)
LEMMA PacketTaken ==
  ASSUME TypeOK, NEW c \in Container, NEW p \in Peer, chan[c][p] # <<>>,
         chan' = [chan EXCEPT ![c][p] = Tail(@)], UNCHANGED <<next, hand, latest>>
  PROVE  /\ chan'[c][p] = Tail(chan[c][p])
         /\ \A d \in Container, q \in Peer : d # c \/ q # p => chan'[d][q] = chan[d][q]
         /\ \A d \in Container, k \in Key : Carries(d, k)' => Carries(d, k)
         /\ \A k \in Key : LineInv(k) => LineInv(k)'
<1>1. /\ chan'[c][p] = Tail(chan[c][p])
      /\ \A d \in Container, q \in Peer : d # c \/ q # p => chan'[d][q] = chan[d][q]
  BY DEF TypeOK
<1>2. chan[c][p] \in Seq(Update)
  BY DEF TypeOK
<1>3. ASSUME NEW d \in Container, NEW q \in Peer, NEW k \in Key, HasKey(chan'[d][q], k)
      PROVE  HasKey(chan[d][q], k)
  <2>1. CASE d = c /\ q = p
    <3>1. HasKey(Tail(chan[c][p]), k)
      BY <1>1, <1>3, <2>1
    <3>2. HasKey(chan[c][p], k)
      BY <1>2, <3>1, TakeUpdate
    <3> QED BY <2>1, <3>2
  <2>2. CASE d # c \/ q # p
    BY <1>1, <1>3, <2>2
  <2> QED BY <2>1, <2>2
<1>4. ASSUME NEW d \in Container, NEW k \in Key, Carries(d, k)'
      PROVE  Carries(d, k)
  <2>1. k \in DOMAIN next'[d] \cup DOMAIN hand'[d] \/ \E q \in Peer : HasKey(chan'[d][q], k)
    BY <1>4 DEF Carries, HasKey
  <2>2. k \in DOMAIN next[d] \cup DOMAIN hand[d] \/ \E q \in Peer : HasKey(chan[d][q], k)
    BY <1>3, <2>1
  <2> QED BY <2>2 DEF Carries, HasKey
<1>5. ASSUME NEW k \in Key, LineInv(k)
      PROVE  LineInv(k)'
  <2>1. ASSUME NEW d \in Container, NEW q \in Peer, k \notin DOMAIN hand[d] \cup DOMAIN next[d],
               HasKey(chan'[d][q], k)
        PROVE  EndsWith(chan'[d][q], k, latest[k])
    <3>1. EndsWith(chan[d][q], k, latest[k])
      BY <1>3, <1>5, <2>1 DEF LineInv
    <3>2. CASE d = c /\ q = p
      <4>1. EndsWith(chan[c][p], k, latest[k]) /\ HasKey(Tail(chan[c][p]), k)
        BY <1>1, <2>1, <3>1, <3>2
      <4>2. EndsWith(Tail(chan[c][p]), k, latest[k])
        BY <1>2, <4>1, TakeUpdate
      <4> QED BY <1>1, <3>2, <4>2
    <3>3. CASE d # c \/ q # p
      BY <1>1, <3>1, <3>3
    <3> QED BY <3>2, <3>3
  <2> QED BY <1>5, <2>1 DEF LineInv
<1> QED BY <1>1, <1>4, <1>5

LEMMA LoseKeeps ==
  ASSUME TypeOK, NeverSetInv, CalmInv, NEW c \in Container, NEW p \in Peer, LosePacket(c, p)
  PROVE  NeverSetInv' /\ CalmInv'
<1>1. /\ chan[c][p] # <<>> /\ chan' = [chan EXCEPT ![c][p] = Tail(@)]
      /\ calm' = calm \ DOMAIN Head(chan[c][p])
      /\ UNCHANGED <<next, hand, owner, transferring, making, joinVars, takeVars, props, latest>>
  BY DEF LosePacket, copyVars, engineVars
<1>2. chan[c][p] \in Seq(Update) /\ calm' \subseteq calm /\ calm \subseteq Key
  BY <1>1 DEF TypeOK
<1>3. /\ chan'[c][p] = Tail(chan[c][p])
      /\ \A d \in Container, q \in Peer : d # c \/ q # p => chan'[d][q] = chan[d][q]
      /\ \A d \in Container, k \in Key : Carries(d, k)' => Carries(d, k)
      /\ \A k \in Key : LineInv(k) => LineInv(k)'
  BY <1>1, PacketTaken
<1>4. NeverSetInv' /\ \A k \in calm' : GhostInv(k)' /\ AuthorityInv(k)'
  BY <1>1, <1>2, <1>3, PipeOnly
<1>6. /\ UNCHANGED <<streams, containers>> /\ PeersOf(making)' = PeersOf(making)
      /\ \A q \in Peer : Present(q)' = Present(q)
  BY <1>1, SameOrders
<1>5. ASSUME NEW k \in calm' PROVE LineInv(k)' /\ CopyInv(k)'
  <2>1. LineInv(k) /\ CopyInv(k) /\ k \in Key /\ k \notin DOMAIN Head(chan[c][p])
    BY <1>1, <1>2 DEF CalmInv
  <2>2. ASSUME NEW d \in Container, NEW q \in Peer, HasKey(chan[d][q], k)
        PROVE  HasKey(chan'[d][q], k)
    <3>1. HasKey(chan[c][p], k) => HasKey(Tail(chan[c][p]), k)
      BY <1>1, <1>2, <2>1, TakeUpdate
    <3> QED BY <1>3, <2>2, <3>1
  <2>3. \A q \in Peer : ValueAt(q, k)' = ValueAt(q, k) /\ streams[q] \subseteq Container
    BY <1>1 DEF ValueAt, TypeOK
  <2>4. CopyInv(k)'
    BY <1>1, <1>6, <2>1, <2>2, <2>3 DEF CopyInv
  <2> QED BY <1>3, <2>1, <2>4
<1> QED BY <1>4, <1>5 DEF CalmInv

LEMMA HandleKeeps ==
  ASSUME TypeOK, OwnersInv, NeverSetInv, CalmInv,
         NEW c \in Container, NEW p \in Peer, HandleReplicationPacket(c, p)
  PROVE  NeverSetInv' /\ CalmInv'
<1> DEFINE u == Head(chan[c][p])
<1>1. /\ chan[c][p] # <<>> /\ chan' = [chan EXCEPT ![c][p] = Tail(@)] /\ ApplyUpdate(p, u)
      /\ UNCHANGED <<next, hand, owner, transferring, making, joinVars, takeVars, latest, calm>>
  BY DEF HandleReplicationPacket, engineVars, histVars
<1>2. chan[c][p] \in Seq(Update) /\ u \in Update /\ calm \subseteq Key
  BY <1>1 DEF TypeOK
<1>3. /\ chan'[c][p] = Tail(chan[c][p])
      /\ \A d \in Container, q \in Peer : d # c \/ q # p => chan'[d][q] = chan[d][q]
      /\ \A d \in Container, k \in Key : Carries(d, k)' => Carries(d, k)
      /\ \A k \in Key : LineInv(k) => LineInv(k)'
  BY <1>1, PacketTaken
<1>4. /\ DOMAIN props'[p] = DOMAIN props[p] \cup DOMAIN u
      /\ \A k \in DOMAIN u : ValueAt(p, k)' = u[k]
      /\ \A k \in Key \ DOMAIN u : ValueAt(p, k)' = ValueAt(p, k)
      /\ \A q \in Peer \ {p} : props'[q] = props[q]
  BY <1>1, <1>2, AppliedValues
<1>5. \A q \in Peer \ {p} : \A k \in Key : ValueAt(q, k)' = ValueAt(q, k)
  BY <1>4 DEF ValueAt
<1>6. c \in streams[p]
  BY <1>1 DEF OwnersInv
<1>7. \A k \in DOMAIN u : HasKey(chan[c][p], k)
  BY <1>1, <1>2, TakeUpdate
<1>8. \A k \in DOMAIN u : Carries(c, k)
  BY <1>7 DEF Carries, HasKey
<1>10. /\ UNCHANGED <<streams, containers>> /\ PeersOf(making)' = PeersOf(making)
       /\ Ghosts' = Ghosts /\ Sources' = Sources /\ Moving' = Moving
       /\ \A q \in Peer : Present(q)' = Present(q)
  BY <1>1, SameOrders
<1>9. NeverSetInv'
  <2> SUFFICES ASSUME NEW k \in Key, latest[k] = NoValue
               PROVE  /\ \A q \in Peer : k \notin DOMAIN props'[q]
                      /\ \A d \in Container : ~Carries(d, k)'
                      /\ \A a \in Ghosts : k \notin DOMAIN a[3]
    BY <1>1, <1>10 DEF NeverSetInv
  <2>1. /\ \A q \in Peer : k \notin DOMAIN props[q]
        /\ \A d \in Container : ~Carries(d, k)
        /\ \A a \in Ghosts : k \notin DOMAIN a[3]
    BY DEF NeverSetInv
  <2> QED BY <1>3, <1>4, <1>8, <2>1
<1>11. ASSUME NEW k \in calm PROVE LineInv(k)' /\ GhostInv(k)' /\ AuthorityInv(k)' /\ CopyInv(k)'
  <2>1. LineInv(k) /\ GhostInv(k) /\ AuthorityInv(k) /\ CopyInv(k) /\ k \in Key
    BY <1>2 DEF CalmInv
  <2>2. LineInv(k)'
    BY <1>3, <2>1
  <2>3. GhostInv(k)'
    BY <1>1, <1>10, <2>1 DEF GhostInv
  <2>4. k \in DOMAIN u => p \notin Sources
    BY <1>6, <1>8, <2>1 DEF AuthorityInv, OwnersInv
  <2>5. ASSUME NEW q \in Sources PROVE ValueAt(q, k)' = latest[k] \/ q \in PeersOf(making)
    <3>1. CASE q = p
      BY <1>4, <2>1, <2>4, <2>5, <3>1 DEF AuthorityInv
    <3>2. CASE q # p
      <4>1. q \in Peer
        BY SourcesArePeers
      <4> QED BY <1>5, <2>1, <3>2, <4>1 DEF AuthorityInv
    <3> QED BY <3>1, <3>2
  <2>6. AuthorityInv(k)'
    <3>1. \A d \in Container : Carries(d, k)' => ~Moving /\ \A q \in Sources : OwnerOf[d] = q
      BY <1>3, <2>1 DEF AuthorityInv
    <3>2. \A q \in Sources' : ValueAt(q, k)' = latest'[k] \/ q \in PeersOf(making)'
      BY <1>1, <1>10, <2>5
    <3> QED BY <1>10, <3>1, <3>2 DEF AuthorityInv
  <2>7. ASSUME NEW q \in Peer, Present(q), q \notin PeersOf(making)
        PROVE  \/ ValueAt(q, k)' = latest[k]
               \/ \E d \in streams[q] : k \in DOMAIN next[d] \cup DOMAIN hand[d] \/ HasKey(chan'[d][q], k)
    <3>0. streams[q] \subseteq Container
      BY DEF TypeOK
    <3>1. \/ ValueAt(q, k) = latest[k]
          \/ \E d \in streams[q] : k \in DOMAIN next[d] \cup DOMAIN hand[d] \/ HasKey(chan[d][q], k)
      BY <2>1, <2>7 DEF CopyInv
    <3>2. CASE q # p
      BY <1>3, <1>5, <2>1, <3>0, <3>1, <3>2
    <3>3. CASE q = p /\ k \in DOMAIN u
      <4>1. CASE k \in DOMAIN next[c] \cup DOMAIN hand[c] \/ HasKey(Tail(chan[c][p]), k)
        BY <1>3, <1>6, <3>3, <4>1
      <4>2. CASE k \notin DOMAIN next[c] \cup DOMAIN hand[c] /\ ~HasKey(Tail(chan[c][p]), k)
        <5>1. EndsWith(chan[c][p], k, latest[k])
          BY <1>7, <2>1, <3>3, <4>2 DEF LineInv
        <5>2. u[k] = latest[k]
          BY <1>1, <1>2, <4>2, <5>1, TakeUpdate
        <5> QED BY <1>4, <3>3, <5>2
      <4> QED BY <4>1, <4>2
    <3>4. CASE q = p /\ k \notin DOMAIN u
      <4>1. HasKey(chan[c][p], k) => HasKey(Tail(chan[c][p]), k)
        BY <1>1, <1>2, <3>4, TakeUpdate
      <4> QED BY <1>3, <1>4, <2>1, <3>0, <3>1, <3>4, <4>1
    <3> QED BY <3>2, <3>3, <3>4
  <2>8. CopyInv(k)'
    BY <1>1, <1>10, <2>7 DEF CopyInv
  <2> QED BY <2>2, <2>3, <2>6, <2>8
<1> QED BY <1>1, <1>9, <1>11 DEF CalmInv

-----------------------------------------------------------------------------
(* The engine sets a property.                                              *)

LEMMA PipeSame ==
  ASSUME UNCHANGED <<pipeVars, latest>>
  PROVE  /\ \A d \in Container, k \in Key : Carries(d, k)' = Carries(d, k)
         /\ \A k \in Key : LineInv(k)' = LineInv(k)
BY DEF pipeVars, Carries, LineInv

(* A step that changes no value and sends no update.  If a ghost is made, it is of
   a source that is in no task; a move begins only with nothing on its way. *)
LEMMA SameValues ==
  ASSUME TypeOK, NeverSetInv, CalmInv, calm' \subseteq calm,
         UNCHANGED <<making, pipeVars, latest>>,
         \A p \in Peer : streams[p] \subseteq streams'[p],
         Sources' \subseteq Sources,
         \A p \in Peer : Present(p)' => Present(p),
         \A a \in Ghosts' :
           a \in Ghosts \/ \E q \in Sources : /\ a[3] = props[q]
                                              /\ calm' = {} \/ q \notin PeersOf(making),
         Moving' => Moving \/ \A k \in calm', c \in Container : ~Carries(c, k),
         \A p \in Peer : DOMAIN props'[p] = DOMAIN props[p],
         \A p \in Peer, k \in Key : ValueAt(p, k)' = ValueAt(p, k)
  PROVE  NeverSetInv' /\ CalmInv'
<1>1. calm \subseteq Key /\ UNCHANGED <<next, hand, chan>>
  BY DEF TypeOK, pipeVars
<1>2. /\ \A d \in Container, k \in Key : Carries(d, k)' = Carries(d, k)
      /\ \A k \in Key : LineInv(k)' = LineInv(k)
  BY PipeSame
<1>3. Sources \subseteq Peer /\ PeersOf(making)' = PeersOf(making)
  BY SourcesArePeers DEF PeersOf
<1>4. NeverSetInv'
  <2> SUFFICES ASSUME NEW k \in Key, latest[k] = NoValue, NEW a \in Ghosts'
               PROVE  k \notin DOMAIN a[3]
    BY <1>2 DEF NeverSetInv
  <2> QED BY <1>3 DEF NeverSetInv
<1>5. ASSUME NEW k \in calm' PROVE LineInv(k)' /\ GhostInv(k)' /\ AuthorityInv(k)' /\ CopyInv(k)'
  <2>1. LineInv(k) /\ GhostInv(k) /\ AuthorityInv(k) /\ CopyInv(k) /\ k \in Key
    BY <1>1, <1>5 DEF CalmInv
  <2>2. ASSUME NEW q \in Sources, q \notin PeersOf(making)
        PROVE  IF k \in DOMAIN props[q] THEN props[q][k] = latest[k] ELSE latest[k] = NoValue
    BY <2>1, <2>2 DEF AuthorityInv, ValueAt
  <2>3. GhostInv(k)'
    BY <1>5, <2>1, <2>2 DEF GhostInv
  <2>4. \A p \in Sources' : ValueAt(p, k)' = latest'[k] \/ p \in PeersOf(making)'
    BY <1>3, <2>1 DEF AuthorityInv
  <2>5. \A c \in Container : Carries(c, k)' => ~Moving' /\ \A p \in Sources' : OwnerOf[c] = p
    BY <1>2, <1>5, <2>1 DEF AuthorityInv
  <2>6. AuthorityInv(k)'
    BY <2>4, <2>5 DEF AuthorityInv
  <2>7. CopyInv(k)'
    BY <1>1, <1>3, <2>1 DEF CopyInv
  <2> QED BY <1>2, <2>1, <2>3, <2>6, <2>7
<1> QED BY <1>4, <1>5 DEF CalmInv

LEMMA SetKeeps ==
  ASSUME TypeOK, OwnersInv, NeverSetInv, CalmInv,
         NEW p \in Peer, NEW c \in Container, NEW k \in Key, NEW v \in Value,
         SetProperty(p, c, k, v)
  PROVE  NeverSetInv' /\ CalmInv'
<1>1. /\ ApplyUpdate(p, Single(k, v))
      /\ UNCHANGED <<owner, transferring, making, joinVars, takeVars, hand, chan>>
  BY DEF SetProperty
<1>0. /\ UNCHANGED <<containers, streams, answering, loading>>
      /\ Ghosts' = Ghosts /\ Sources' = Sources /\ Moving' = Moving
      /\ PeersOf(making)' = PeersOf(making)
      /\ \A q \in Peer : Present(q)' = Present(q)
  BY <1>1, SameOrders
<1>2. /\ Single(k, v) \in Update /\ DOMAIN Single(k, v) = {k} /\ Single(k, v)[k] = v
      /\ v # NoValue /\ calm \subseteq Key /\ next \in [Container -> Update] /\ latest \in [Key -> Value \cup {NoValue}]
  BY SingleUpdate, ConstantsAssumption DEF TypeOK
<1>3. /\ DOMAIN props'[p] = DOMAIN props[p] \cup {k}
      /\ ValueAt(p, k)' = v
      /\ \A x \in Key \ {k} : ValueAt(p, x)' = ValueAt(p, x)
      /\ \A q \in Peer \ {p} : props'[q] = props[q]
  BY <1>1, <1>2, AppliedValues
<1>4. \A q \in Peer \ {p} : \A x \in Key : ValueAt(q, x)' = ValueAt(q, x)
  BY <1>3 DEF ValueAt
<1>5. CASE ValueAt(p, k) = v
  <2>1. UNCHANGED <<next, latest, calm>>
    BY <1>5 DEF SetProperty, histVars
  <2>2. k \in DOMAIN props[p]
    BY <1>2, <1>5 DEF ValueAt
  <2>3. UNCHANGED <<making, pipeVars, latest>>
    BY <1>1, <2>1 DEF pipeVars
  <2>4. \A q \in Peer : DOMAIN props'[q] = DOMAIN props[q]
    BY <1>3, <2>2
  <2>5. \A q \in Peer, x \in Key : ValueAt(q, x)' = ValueAt(q, x)
    BY <1>3, <1>4, <1>5
  <2> QED BY <1>0, <2>1, <2>3, <2>4, <2>5, SameValues
<1>6. CASE ValueAt(p, k) # v
  <2>1. /\ next' = [next EXCEPT ![c] = Merged(@, Single(k, v))]
        /\ latest' = [latest EXCEPT ![k] = v]
        /\ calm' = IF Undisturbed(p, c, k) THEN calm \cup {k} ELSE calm \ {k}
    BY <1>6 DEF SetProperty
  <2>2. /\ DOMAIN next'[c] = DOMAIN next[c] \cup {k} /\ next'[c][k] = v
        /\ \A x \in DOMAIN next[c] \ {k} : next'[c][x] = next[c][x]
        /\ \A d \in Container \ {c} : next'[d] = next[d]
    <3>1. next[c] \in Update
      BY <1>2
    <3>2. /\ DOMAIN Merged(next[c], Single(k, v)) = DOMAIN next[c] \cup {k}
          /\ Merged(next[c], Single(k, v))[k] = v
          /\ \A x \in DOMAIN next[c] \ {k} : Merged(next[c], Single(k, v))[x] = next[c][x]
      BY <1>2, <3>1, MergedUpdate
    <3>3. next'[c] = Merged(next[c], Single(k, v)) /\ \A d \in Container \ {c} : next'[d] = next[d]
      BY <1>2, <2>1
    <3> QED BY <3>2, <3>3
  <2>3. latest'[k] = v /\ \A x \in Key \ {k} : latest'[x] = latest[x]
    BY <1>2, <2>1
  <2>5. \A d \in Container, x \in Key : d # c \/ x # k => Carries(d, x)' = Carries(d, x)
    BY <1>1, <2>2 DEF Carries
  <2>6. NeverSetInv'
    <3> SUFFICES ASSUME NEW x \in Key, latest'[x] = NoValue
                 PROVE  /\ \A q \in Peer : x \notin DOMAIN props'[q]
                        /\ \A d \in Container : ~Carries(d, x)'
                        /\ \A a \in Ghosts : x \notin DOMAIN a[3]
      BY <1>0 DEF NeverSetInv
    <3>1. x # k /\ latest[x] = NoValue
      BY <1>2, <2>3
    <3>2. /\ \A q \in Peer : x \notin DOMAIN props[q]
          /\ \A d \in Container : ~Carries(d, x)
          /\ \A a \in Ghosts : x \notin DOMAIN a[3]
      BY <3>1 DEF NeverSetInv
    <3> QED BY <1>3, <2>5, <3>1, <3>2
  <2>7. ASSUME NEW x \in calm', x # k
        PROVE  LineInv(x)' /\ GhostInv(x)' /\ AuthorityInv(x)' /\ CopyInv(x)'
    <3>1. LineInv(x) /\ GhostInv(x) /\ AuthorityInv(x) /\ CopyInv(x) /\ x \in Key
      BY <1>2, <2>1, <2>7 DEF CalmInv
    <3>2. latest'[x] = latest[x] /\ \A q \in Peer : ValueAt(q, x)' = ValueAt(q, x)
      BY <1>3, <1>4, <2>3, <2>7, <3>1
    <3>3. \A d \in Container : /\ x \in DOMAIN next'[d] <=> x \in DOMAIN next[d]
                               /\ x \in DOMAIN next[d] => next'[d][x] = next[d][x]
      BY <2>2, <2>7
    <3>4. LineInv(x)'
      BY <1>1, <3>1, <3>2, <3>3 DEF LineInv
    <3>5. GhostInv(x)'
      BY <1>0, <3>1, <3>2 DEF GhostInv
    <3>6. \A q \in Sources' : ValueAt(q, x)' = latest'[x] \/ q \in PeersOf(making)'
      BY <1>0, <3>1, <3>2, SourcesArePeers DEF AuthorityInv
    <3>7. AuthorityInv(x)'
      BY <1>0, <2>5, <2>7, <3>1, <3>6 DEF AuthorityInv
    <3>8. \A q \in Peer : streams[q] \subseteq Container
      BY DEF TypeOK
    <3>9. CopyInv(x)'
      BY <1>0, <1>1, <3>1, <3>2, <3>3, <3>8 DEF CopyInv
    <3> QED BY <3>4, <3>5, <3>7, <3>9
  <2>8. ASSUME k \in calm'
        PROVE  LineInv(k)' /\ GhostInv(k)' /\ AuthorityInv(k)' /\ CopyInv(k)'
    <3>1. /\ Authorities = {p} /\ owner[p] = c
          /\ \A q \in Peer \ {p} : Registered(q) => c \in streams[q]
          /\ ~Moving /\ ~Joining
          /\ \A d \in Container \ {c} : ~Carries(d, k)
      BY <2>1, <2>8 DEF Undisturbed
    <3>2. OwnerOf[c] = p
      BY <3>1 DEF Authorities, HasAuthority
    <3>3. \A d \in Container \ {c} :
            /\ k \notin DOMAIN next'[d] /\ k \notin DOMAIN hand'[d]
            /\ \A q \in Peer : ~HasKey(chan'[d][q], k)
      BY <1>1, <2>2, <3>1 DEF Carries, HasKey
    <3>4. LineInv(k)'
      BY <2>2, <2>3, <3>3 DEF LineInv
    <3>5. /\ Ghosts = {} /\ making = {} /\ Sources = {p}
          /\ \A q \in Peer : Present(q) => Registered(q)
      BY <3>1 DEF Moving, Joining, Ghosts, Sources, PeersOf, Present
    <3>6. GhostInv(k)'
      BY <1>0, <3>5 DEF GhostInv
    <3>7. \A q \in Sources' : ValueAt(q, k)' = latest'[k]
      BY <1>0, <1>3, <2>3, <3>5
    <3>8. \A d \in Container : Carries(d, k)' => d = c
      BY <2>5, <3>1
    <3>9. AuthorityInv(k)'
      BY <1>0, <3>1, <3>2, <3>5, <3>7, <3>8 DEF AuthorityInv
    <3>10. CopyInv(k)'
      BY <1>0, <1>3, <2>2, <2>3, <3>1, <3>5 DEF CopyInv
    <3> QED BY <3>4, <3>6, <3>9, <3>10
  <2> QED BY <2>6, <2>7, <2>8 DEF CalmInv
<1> QED BY <1>5, <1>6

-----------------------------------------------------------------------------
(* Copies are placed, get ghosts and go.                                    *)

(* A copy is given a container: either the entity is being moved or the container
   is not one of the peer's own. *)
LEMMA CopyPlaced ==
  ASSUME TypeOK, NeverSetInv, CalmInv, NEW p \in Peer, NEW to \in Container,
         UNCHANGED <<props, containers, streams, answering, transferring, pipeVars, histVars>>,
         owner' = [owner EXCEPT ![p] = to],
         \A a \in Ghosts' : \E b \in Ghosts : a[3] = b[3],
         Moving' => Moving,
         Moving \/ OwnerOf[to] # p,
         making \subseteq making',
         Present(p) \/ p \in PeersOf(making'),
         \A q \in Peer \ {p} : Present(q)' => Present(q)
  PROVE  NeverSetInv' /\ CalmInv'
<1>1. UNCHANGED <<next, hand, chan, latest, calm>> /\ calm \subseteq Key
  BY DEF pipeVars, histVars, TypeOK
<1>2. /\ \A d \in Container, k \in Key : Carries(d, k)' = Carries(d, k)
      /\ \A k \in Key : LineInv(k)' = LineInv(k)
  BY <1>1, PipeSame DEF pipeVars
<1>3. PeersOf(making) \subseteq PeersOf(making)'
  BY DEF PeersOf
<1>4. \A q \in Peer : \A k : ValueAt(q, k)' = ValueAt(q, k)
  BY DEF ValueAt
<1>5. /\ owner'[p] = to
      /\ \A q \in Peer \ {p} : owner'[q] = owner[q]
  BY DEF TypeOK
<1>6. ASSUME NEW q \in Sources' PROVE q \in Peer /\ (q \in Sources \/ (q = p /\ Moving))
  <2>1. CASE q \in Authorities'
    BY <1>5, <2>1 DEF Authorities, HasAuthority, Registered, Sources
  <2>2. CASE q \in PeersOf(transferring)' \cup {OwnerOf[a[2]] : a \in answering}'
    <3>1. q \in Sources
      BY <2>2 DEF Sources, PeersOf
    <3> QED BY <3>1, SourcesArePeers
  <2> QED BY <1>6, <2>1, <2>2 DEF Sources
<1>7. NeverSetInv'
  BY <1>1, <1>2 DEF NeverSetInv
<1>8. ASSUME NEW k \in calm PROVE LineInv(k)' /\ GhostInv(k)' /\ AuthorityInv(k)' /\ CopyInv(k)'
  <2>1. LineInv(k) /\ GhostInv(k) /\ AuthorityInv(k) /\ CopyInv(k) /\ k \in Key
    BY <1>1 DEF CalmInv
  <2>2. GhostInv(k)'
    BY <1>1, <2>1 DEF GhostInv
  <2>3. ASSUME Moving PROVE ValueAt(p, k) = latest[k] \/ p \in PeersOf(making)'
    <3>1. \A c \in Container : ~Carries(c, k)
      BY <2>1, <2>3 DEF AuthorityInv
    <3>2. streams[p] \subseteq Container
      BY DEF TypeOK
    <3>3. \A c \in streams[p] : k \notin DOMAIN next[c] \cup DOMAIN hand[c] /\ ~HasKey(chan[c][p], k)
      BY <3>1, <3>2 DEF Carries, HasKey
    <3>4. CASE Present(p)
      BY <1>3, <2>1, <3>3, <3>4 DEF CopyInv
    <3> QED BY <3>4 DEF PeersOf
  <2>4. \A q \in Sources' : ValueAt(q, k)' = latest'[k] \/ q \in PeersOf(making)'
    BY <1>1, <1>3, <1>4, <1>6, <2>1, <2>3 DEF AuthorityInv
  <2>5. \A d \in Container : Carries(d, k)' => ~Moving' /\ \A q \in Sources' : OwnerOf[d] = q
    BY <1>2, <1>6, <2>1 DEF AuthorityInv
  <2>6. AuthorityInv(k)'
    BY <2>4, <2>5 DEF AuthorityInv
  <2>7. ASSUME NEW q \in Peer, Present(q)', q \notin PeersOf(making)'
        PROVE  \/ ValueAt(q, k)' = latest'[k]
               \/ \E c \in streams'[q] : \/ k \in DOMAIN next'[c] \cup DOMAIN hand'[c]
                                         \/ HasKey(chan'[c][q], k)
    <3>1. Present(q)
      BY <2>7 DEF PeersOf
    <3> QED BY <1>1, <1>3, <1>4, <2>1, <2>7, <3>1 DEF CopyInv
  <2>8. CopyInv(k)'
    BY <2>7 DEF CopyInv
  <2> QED BY <1>2, <2>1, <2>2, <2>6, <2>8
<1> QED BY <1>1, <1>7, <1>8 DEF CalmInv

(* A peer takes the values of a ghost, which has the last changes. *)
LEMMA GhostApplied ==
  ASSUME TypeOK, NeverSetInv, CalmInv, NEW p \in Peer, NEW a \in Ghosts, a[3] \in Update,
         ApplyUpdate(p, a[3]),
         UNCHANGED <<containers, streams, pipeVars, histVars>>,
         Ghosts' \subseteq Ghosts,
         Moving' => Moving,
         Sources' \subseteq Sources,
         PeersOf(making) \ {p} \subseteq PeersOf(making)',
         \A q \in Peer \ {p} : Present(q)' => Present(q)
  PROVE  NeverSetInv' /\ CalmInv'
<1>1. UNCHANGED <<next, hand, chan, latest, calm>> /\ calm \subseteq Key
  BY DEF pipeVars, histVars, TypeOK
<1>2. /\ \A d \in Container, k \in Key : Carries(d, k)' = Carries(d, k)
      /\ \A k \in Key : LineInv(k)' = LineInv(k)
  BY <1>1, PipeSame DEF pipeVars
<1>3. /\ DOMAIN props'[p] = DOMAIN props[p] \cup DOMAIN a[3]
      /\ \A k \in DOMAIN a[3] : ValueAt(p, k)' = a[3][k]
      /\ \A k \in Key \ DOMAIN a[3] : ValueAt(p, k)' = ValueAt(p, k)
      /\ \A q \in Peer \ {p} : props'[q] = props[q]
  BY AppliedValues
<1>4. \A q \in Peer \ {p} : \A k : ValueAt(q, k)' = ValueAt(q, k)
  BY <1>3 DEF ValueAt
<1>5. \A k \in Key : latest[k] = NoValue => k \notin DOMAIN props[p] /\ k \notin DOMAIN a[3]
  BY DEF NeverSetInv
<1>6. NeverSetInv'
  BY <1>1, <1>2, <1>3, <1>5 DEF NeverSetInv
<1>7. ASSUME NEW k \in calm PROVE LineInv(k)' /\ GhostInv(k)' /\ AuthorityInv(k)' /\ CopyInv(k)'
  <2>1. LineInv(k) /\ GhostInv(k) /\ AuthorityInv(k) /\ CopyInv(k) /\ k \in Key
    BY <1>1 DEF CalmInv
  <2>2. ValueAt(p, k)' = latest[k]
    <3>1. IF k \in DOMAIN a[3] THEN a[3][k] = latest[k] ELSE latest[k] = NoValue
      BY <2>1 DEF GhostInv
    <3>2. CASE k \in DOMAIN a[3]
      BY <1>3, <3>1, <3>2
    <3>3. CASE k \notin DOMAIN a[3]
      BY <1>3, <1>5, <2>1, <3>1, <3>3 DEF ValueAt
    <3> QED BY <3>2, <3>3
  <2>3. GhostInv(k)'
    BY <1>1, <2>1 DEF GhostInv
  <2>4. \A q \in Sources' : ValueAt(q, k)' = latest'[k] \/ q \in PeersOf(making)'
    BY <1>1, <1>4, <2>1, <2>2, SourcesArePeers DEF AuthorityInv
  <2>5. \A d \in Container : Carries(d, k)' => ~Moving' /\ \A q \in Sources' : OwnerOf[d] = q
    BY <1>2, <2>1 DEF AuthorityInv
  <2>6. AuthorityInv(k)'
    BY <2>4, <2>5 DEF AuthorityInv
  <2>7. CopyInv(k)'
    BY <1>1, <1>4, <2>1, <2>2 DEF CopyInv
  <2> QED BY <1>2, <2>1, <2>3, <2>6, <2>7
<1> QED BY <1>1, <1>6, <1>7 DEF CalmInv

-----------------------------------------------------------------------------
(* Every step keeps the invariant.                                          *)

LEMMA InitOwners == Init => OwnersInv /\ EngineInv
<1> SUFFICES ASSUME Init PROVE OwnersInv /\ EngineInv
  OBVIOUS
<1>1. /\ containers = Subscribed
      /\ \A p \in Peer : \A c \in streams[p] : OwnerOf[c] # p
      /\ opening \cup asked \cup answering \cup answered \cup loading = {}
      /\ \A c \in Container, p \in Peer : chan[c][p] = <<>>
  BY DEF Init
<1>2. PeersOf(transferring) = {}
  BY DEF Init, PeersOf
<1> QED BY <1>1, <1>2, ConstantsAssumption DEF OwnersInv, EngineInv

LEMMA InitInv == Init => NeverSetInv /\ CalmInv
<1> SUFFICES ASSUME Init PROVE NeverSetInv /\ CalmInv
  OBVIOUS
<1>1. /\ Ghosts = {}
      /\ \A p \in Peer : props[p] = NoUpdate
      /\ \A c \in Container : next[c] = NoUpdate /\ hand[c] = NoUpdate
      /\ \A c \in Container, p \in Peer : chan[c][p] = <<>>
      /\ \A k \in Key : latest[k] = NoValue
      /\ calm = Key
      /\ Sources \subseteq Peer
  BY InitType, SourcesArePeers DEF Init, Ghosts
<1>2. \A p \in Peer, k \in Key : k \notin DOMAIN props[p] /\ ValueAt(p, k) = NoValue
  BY <1>1, EmptyUpdate DEF ValueAt
<1>3. \A c \in Container, k \in Key :
        /\ ~Carries(c, k) /\ k \notin DOMAIN next[c] /\ k \notin DOMAIN hand[c]
        /\ \A p \in Peer : ~HasKey(chan[c][p], k)
  BY <1>1, EmptyUpdate DEF Carries, HasKey
<1>4. NeverSetInv
  BY <1>1, <1>2, <1>3 DEF NeverSetInv
<1>5. ASSUME NEW k \in Key PROVE LineInv(k) /\ GhostInv(k) /\ AuthorityInv(k) /\ CopyInv(k)
  <2>1. LineInv(k)
    BY <1>3 DEF LineInv
  <2>2. GhostInv(k)
    BY <1>1 DEF GhostInv
  <2>3. AuthorityInv(k) /\ CopyInv(k)
    BY <1>1, <1>2, <1>3 DEF AuthorityInv, CopyInv
  <2> QED BY <2>1, <2>2, <2>3
<1> QED BY <1>1, <1>4, <1>5 DEF CalmInv

(* The steps of a peer that joins, and of the owner that answers. *)
LEMMA SubscribeKeeps ==
  ASSUME TypeOK, OwnersInv, NeverSetInv, CalmInv, NEW p \in Peer, NEW c \in Container,
         SubscribeToContainer(p, c)
  PROVE  NeverSetInv' /\ CalmInv'
<1>1. UNCHANGED <<owner, props, making, transferring, pipeVars, streams, answering, answered, loading,
                  takes, taking, tasks, latest, calm>>
  BY DEF SubscribeToContainer, copyVars, engineVars, takeVars, histVars
<1>2. \A q \in Peer : containers[q] \subseteq containers'[q]
  BY DEF SubscribeToContainer, TypeOK
<1>3. ASSUME NEW q \in Peer PROVE HasAuthority(q)' <=> HasAuthority(q)
  <2>1. HasAuthority(q) => HasAuthority(q)'
    BY <1>1, <1>2 DEF HasAuthority, Registered
  <2>2. ASSUME HasAuthority(q)' PROVE HasAuthority(q)
    <3>1. owner[q] \in Container /\ OwnerOf[owner[q]] = q
      BY <1>1, <2>2 DEF HasAuthority, Registered, TypeOK
    <3> QED BY <1>1, <2>2, <3>1 DEF HasAuthority, Registered, OwnersInv
  <2> QED BY <2>1, <2>2
<1>4. Sources' = Sources
  BY <1>1, <1>3 DEF Authorities, Sources, PeersOf
<1>5. /\ Ghosts' = Ghosts /\ Moving' = Moving
      /\ \A q \in Peer : Present(q)' = Present(q)
  BY <1>1 DEF Ghosts, Moving, Present, Registered, PeersOf
<1>6. \A q \in Peer : DOMAIN props'[q] = DOMAIN props[q] /\ \A k : ValueAt(q, k)' = ValueAt(q, k)
  BY <1>1 DEF ValueAt
<1> QED BY <1>1, <1>4, <1>5, <1>6, SameValues

(* A step that changes neither copies nor what the registries have in them. *)
LEMMA PlacesSame ==
  ASSUME UNCHANGED <<owner, containers, props>>
  PROVE  /\ Authorities' = Authorities
         /\ \A p \in Peer : Registered(p)' = Registered(p)
         /\ \A p \in Peer : DOMAIN props'[p] = DOMAIN props[p]
         /\ \A p \in Peer, k \in Key : ValueAt(p, k)' = ValueAt(p, k)
BY DEF Authorities, HasAuthority, Registered, ValueAt

LEMMA OpenKeeps ==
  ASSUME TypeOK, NeverSetInv, CalmInv, NEW p \in Peer, NEW c \in Container, OpenStream(p, c)
  PROVE  NeverSetInv' /\ CalmInv'
<1>1. UNCHANGED <<owner, props, containers, making, transferring, pipeVars, answering, answered,
                  loading, takes, taking, tasks, latest, calm>>
  BY DEF OpenStream, copyVars, engineVars, takeVars, histVars
<1>2. \A q \in Peer : streams[q] \subseteq streams'[q]
  BY DEF OpenStream, TypeOK
<1>3. /\ Sources' = Sources /\ Ghosts' = Ghosts /\ Moving' = Moving
      /\ \A q \in Peer : Present(q)' = Present(q)
  BY <1>1, PlacesSame DEF Sources, Ghosts, Moving, Present, PeersOf
<1> QED BY <1>1, <1>2, <1>3, PlacesSame, SameValues

LEMMA AnswerKeeps ==
  ASSUME TypeOK, OwnersInv, NeverSetInv, CalmInv, NEW p \in Peer, NEW c \in Container,
         GetExistingEntities(p, c)
  PROVE  NeverSetInv' /\ CalmInv'
<1>1. UNCHANGED <<owner, props, containers, streams, making, transferring, pipeVars, answered,
                  loading, takes, taking, tasks, latest, calm>>
  BY DEF GetExistingEntities, copyVars, engineVars, takeVars, histVars
<1>2. OwnerOf[c] \in Peer /\ c # NoContainer
  BY ConstantsAssumption
<1>3. owner[OwnerOf[c]] = c => OwnerOf[c] \in Authorities
  BY <1>2 DEF Authorities, HasAuthority, Registered, OwnersInv
<1>4. \A a \in answering' : a \in answering \/ OwnerOf[a[2]] \in Authorities
  BY <1>3 DEF GetExistingEntities
<1>5. Sources' \subseteq Sources
  BY <1>1, <1>4, PlacesSame DEF Sources, PeersOf
<1>6. /\ Ghosts' = Ghosts /\ Moving' = Moving
      /\ \A q \in Peer : Present(q)' = Present(q)
  BY <1>1, PlacesSame DEF Ghosts, Moving, Present, PeersOf
<1> QED BY <1>1, <1>5, <1>6, PlacesSame, SameValues

LEMMA PeekKeeps ==
  ASSUME TypeOK, NeverSetInv, CalmInv, NEW a \in answering, PeekProperties(a[1], a[2])
  PROVE  NeverSetInv' /\ CalmInv'
<1> DEFINE o == OwnerOf[a[2]]
<1>1. UNCHANGED <<owner, props, containers, streams, making, transferring, pipeVars, loading,
                  takes, taking, tasks, latest>>
  BY DEF PeekProperties, copyVars, engineVars, takeVars
<1>2. /\ answering' \subseteq answering
      /\ calm' = IF o \in PeersOf(making) THEN {} ELSE calm
      /\ \A b \in answered' : b \in answered \/ b[3] = props[o]
  BY DEF PeekProperties
<1>3. o \in Sources
  BY DEF Sources
<1>4. Sources' \subseteq Sources
  BY <1>1, <1>2, PlacesSame DEF Sources, PeersOf
<1>5. \A b \in Ghosts' : b \in Ghosts \/ b[3] = props[o]
  BY <1>1, <1>2 DEF Ghosts
<1>6. /\ Moving' = Moving
      /\ \A q \in Peer : Present(q)' = Present(q)
  BY <1>1, PlacesSame DEF Moving, Present, PeersOf
<1>7. \A b \in Ghosts' : b \in Ghosts \/ \E q \in Sources : /\ b[3] = props[q]
                                                           /\ (calm' = {} \/ q \notin PeersOf(making))
  BY <1>2, <1>3, <1>5
<1>8. calm' \subseteq calm
  BY <1>2
<1> QED BY <1>1, <1>4, <1>6, <1>7, <1>8, PlacesSame, SameValues

LEMMA FailKeeps ==
  ASSUME TypeOK, NeverSetInv, CalmInv, NEW p \in Peer, NEW c \in Container, LoadFails(p, c)
  PROVE  NeverSetInv' /\ CalmInv'
<1>1. UNCHANGED <<owner, props, containers, streams, making, transferring, pipeVars, answering,
                  loading, takes, taking, tasks, latest, calm>>
  BY DEF LoadFails, copyVars, engineVars, takeVars, histVars
<1>2. answered' \subseteq answered
  BY DEF LoadFails
<1>3. /\ Sources' = Sources /\ Ghosts' \subseteq Ghosts /\ Moving' = Moving
      /\ \A q \in Peer : Present(q)' = Present(q)
  BY <1>1, <1>2, PlacesSame DEF Sources, Ghosts, Moving, Present, PeersOf
<1> QED BY <1>1, <1>3, PlacesSame, SameValues

LEMMA LoadKeeps ==
  ASSUME TypeOK, NeverSetInv, CalmInv, NEW a \in answered,
         LoadExistingEntities(a[1], a[2], a[3])
  PROVE  NeverSetInv' /\ CalmInv'
<1>1. a[1] \in Peer /\ a[3] \in Update /\ a \in Ghosts
  BY DEF TypeOK, Ghosts
<1>2. /\ UNCHANGED <<owner, containers, streams, answering, transferring, making, pipeVars, histVars,
                     takes, taking, tasks>>
      /\ answered' \subseteq answered
      /\ loading' = loading \cup {<<a[1], a[2]>>}
      /\ ApplyUpdate(a[1], a[3])
  BY DEF LoadExistingEntities, engineVars, takeVars
<1>3. /\ Sources' = Sources /\ Ghosts' \subseteq Ghosts /\ Moving' = Moving
      /\ PeersOf(making)' = PeersOf(making)
  BY <1>2 DEF Sources, Authorities, HasAuthority, Registered, Ghosts, Moving, PeersOf
<1>4. \A q \in Peer \ {a[1]} : Present(q)' => Present(q)
  BY <1>2 DEF Present, Registered, PeersOf
<1> QED BY <1>1, <1>2, <1>3, <1>4, GhostApplied

LEMMA LoadInstantiatesKeeps ==
  ASSUME TypeOK, OwnersInv, NeverSetInv, CalmInv, NEW a \in loading,
         LoadInstantiates(a[1], a[2])
  PROVE  NeverSetInv' /\ CalmInv'
<1>1. a[1] \in Peer /\ a[2] \in Container /\ OwnerOf[a[2]] # a[1] /\ Present(a[1])
  BY DEF TypeOK, OwnersInv, Present, PeersOf
<1>2. /\ UNCHANGED <<props, containers, streams, answering, transferring, making, pipeVars, histVars,
                     answered, takes, taking, tasks>>
      /\ loading' \subseteq loading
      /\ owner' = [owner EXCEPT ![a[1]] = a[2]]
  BY DEF LoadInstantiates, engineVars, takeVars
<1>3. Ghosts' = Ghosts /\ Moving' = Moving
  BY <1>2 DEF Ghosts, Moving
<1>4. \A q \in Peer \ {a[1]} : Present(q)' => Present(q)
  BY <1>1, <1>2 DEF Present, Registered, PeersOf, TypeOK
<1> QED BY <1>1, <1>2, <1>3, <1>4, CopyPlaced

(* The steps of a move: the lock, the orders, the two look-ups of a take order,
   the two halves of an instantiation. *)
LEMMA TransferKeeps ==
  ASSUME TypeOK, NeverSetInv, CalmInv, NEW p \in Peer, NEW to \in Container,
         TransferAuthority(p, to)
  PROVE  NeverSetInv' /\ CalmInv'
<1>1. /\ UNCHANGED <<owner, props, containers, streams, answering, answered, loading, making,
                     pipeVars, takes, taking, tasks, latest>>
      /\ transferring' = transferring \cup {<<p, owner[p], to>>}
      /\ calm' = {k \in calm : \A c \in Container : ~Carries(c, k)}
      /\ p \in Authorities
  BY DEF TransferAuthority, joinVars, takeVars, Authorities
<1>2. Sources' \subseteq Sources
  BY <1>1, PlacesSame DEF Sources, PeersOf
<1>3. /\ Ghosts' = Ghosts
      /\ \A q \in Peer : Present(q)' = Present(q)
  BY <1>1, PlacesSame DEF Ghosts, Present, PeersOf
<1>4. calm' \subseteq calm /\ \A k \in calm', c \in Container : ~Carries(c, k)
  BY <1>1
<1> QED BY <1>1, <1>2, <1>3, <1>4, PlacesSame, SameValues

LEMMA PublishKeeps ==
  ASSUME TypeOK, EngineInv, NeverSetInv, CalmInv, NEW m \in transferring,
         PublishOrders(m[1], m[2], m[3])
  PROVE  NeverSetInv' /\ CalmInv'
<1>1. /\ UNCHANGED <<owner, props, containers, streams, answering, answered, loading, making,
                     pipeVars, taking, tasks, latest, calm>>
      /\ transferring' \subseteq transferring
      /\ \A t \in takes' : t \in takes \/ t[3] = props[m[1]]
  BY DEF PublishOrders, copyVars, joinVars, histVars
<1>2. m[1] \in PeersOf(transferring) /\ m[1] \in Sources /\ Moving
  BY DEF PeersOf, Sources, Moving
<1>3. m[1] \notin PeersOf(making)
  BY <1>2 DEF EngineInv
<1>4. \A a \in Ghosts' : a \in Ghosts \/ a[3] = props[m[1]]
  BY <1>1 DEF Ghosts
<1>5. /\ Sources' \subseteq Sources
      /\ \A q \in Peer : Present(q)' = Present(q)
  BY <1>1, PlacesSame DEF Sources, Present, PeersOf
<1> QED BY <1>1, <1>2, <1>3, <1>4, <1>5, PlacesSame, SameValues

LEMMA TakeOrderKeeps ==
  ASSUME TypeOK, NeverSetInv, CalmInv, NEW p \in Peer, NEW t \in takes, ExecTakeOrder(p, t)
  PROVE  NeverSetInv' /\ CalmInv'
<1>1. t[2] \in Container /\ Moving
  BY DEF TypeOK, Moving
<1>2. /\ UNCHANGED <<props, containers, streams, answering, answered, loading, transferring, making,
                     tasks, pipeVars, latest, calm>>
      /\ takes' \subseteq takes /\ taking' = taking \cup {t}
  BY DEF ExecTakeOrder, engineVars, joinVars, histVars
<1>3. Ghosts' \subseteq Ghosts
  BY <1>2 DEF Ghosts
<1>4. CASE Registered(p)
  <2>1. owner' = [owner EXCEPT ![p] = t[2]]
    BY <1>4 DEF ExecTakeOrder
  <2>2. \A q \in Peer \ {p} : Present(q)' => Present(q)
    BY <1>2, <2>1 DEF Present, Registered, PeersOf, TypeOK
  <2>3. Present(p)
    BY <1>4 DEF Present
  <2> QED BY <1>1, <1>2, <1>3, <2>1, <2>2, <2>3, CopyPlaced DEF histVars
<1>5. CASE ~Registered(p)
  <2>1. owner' = owner
    BY <1>5 DEF ExecTakeOrder
  <2>2. /\ Sources' = Sources
        /\ \A q \in Peer : Present(q)' = Present(q)
    BY <1>2, <2>1, PlacesSame DEF Sources, Present, PeersOf
  <2> QED BY <1>1, <1>2, <1>3, <2>1, <2>2, PlacesSame, SameValues
<1> QED BY <1>4, <1>5

LEMMA FinishTakeKeeps ==
  ASSUME TypeOK, NeverSetInv, CalmInv, NEW p \in Peer, NEW t \in taking, FinishTakeOrder(p, t)
  PROVE  NeverSetInv' /\ CalmInv'
<1>1. /\ UNCHANGED <<owner, props, containers, streams, answering, answered, loading, transferring,
                     making, takes, pipeVars, latest, calm>>
      /\ taking' \subseteq taking /\ tasks' \subseteq tasks \cup {t}
  BY DEF FinishTakeOrder, copyVars, engineVars, joinVars, histVars
<1>2. Ghosts' \subseteq Ghosts /\ Moving
  BY <1>1 DEF Ghosts, Moving
<1>3. /\ Sources' = Sources
      /\ \A q \in Peer : Present(q)' = Present(q)
  BY <1>1, PlacesSame DEF Sources, Present, PeersOf
<1> QED BY <1>1, <1>2, <1>3, PlacesSame, SameValues

(* A ghost in the hands of the engine is the one of the task. *)
LEMMA InstantiateKeeps ==
  ASSUME TypeOK, NeverSetInv, CalmInv, NEW p \in Peer, NEW t \in tasks, EngineCallInstantiate(p, t)
  PROVE  NeverSetInv' /\ CalmInv'
<1> DEFINE m == <<p, t[2], t[3]>>
<1>1. t[2] \in Container /\ Moving
  BY DEF TypeOK, Moving
<1>2. /\ UNCHANGED <<props, containers, streams, answering, answered, loading, transferring, takes,
                     taking, pipeVars, histVars>>
      /\ tasks' \subseteq tasks /\ making' = making \cup {m}
      /\ owner' = [owner EXCEPT ![p] = t[2]]
  BY DEF EngineCallInstantiate, joinVars
<1>3. p \in PeersOf(making')
  <2>1. m \in making' /\ m[1] = p
    BY <1>2
  <2> HIDE DEF m
  <2> QED BY <2>1 DEF PeersOf
<1>4. \A q \in Peer \ {p} : Present(q)' => Present(q)
  BY <1>2 DEF Present, Registered, PeersOf, TypeOK
<1>5. t \in Ghosts /\ m[3] = t[3] /\ \A a \in Ghosts' : a \in Ghosts \/ a[3] = t[3]
  BY <1>2 DEF Ghosts
<1> QED BY <1>1, <1>2, <1>3, <1>4, <1>5, CopyPlaced

LEMMA ApplyGhostKeeps ==
  ASSUME TypeOK, NeverSetInv, CalmInv, NEW m \in making, ApplyGhostToEntity(m[1], m[2], m[3])
  PROVE  NeverSetInv' /\ CalmInv'
<1>1. m[1] \in Peer /\ m[3] \in Update /\ m \in Ghosts /\ Moving /\ m = <<m[1], m[2], m[3]>>
  BY DEF TypeOK, Ghosts, Moving
<1>2. /\ UNCHANGED <<owner, containers, streams, answering, answered, loading, transferring, takes,
                     taking, tasks, pipeVars, histVars>>
      /\ making' = making \ {m}
      /\ ApplyUpdate(m[1], m[3])
  BY <1>1 DEF ApplyGhostToEntity, joinVars, takeVars
<1>3. /\ Sources' = Sources /\ Ghosts' \subseteq Ghosts
      /\ \A q \in Peer : Present(q)' = Present(q)
  BY <1>2 DEF Sources, Authorities, HasAuthority, Registered, Ghosts, Present, PeersOf
<1>4. PeersOf(making) \ {m[1]} \subseteq PeersOf(making)'
  BY <1>2 DEF PeersOf
<1> QED BY <1>1, <1>2, <1>3, <1>4, GhostApplied

(* A copy goes: it is unregistered, then its values are erased. *)
LEMMA UnregisterKeeps ==
  ASSUME TypeOK, NeverSetInv, CalmInv, NEW p \in Peer, NEW d \in deletes, UnregisterEntity(p, d)
  PROVE  NeverSetInv' /\ CalmInv'
<1>1. /\ UNCHANGED <<props, containers, streams, answering, answered, loading, transferring, making,
                     takes, taking, tasks, pipeVars, latest, calm>>
      /\ owner' = owner \/ owner' = [owner EXCEPT ![p] = NoContainer]
  BY DEF UnregisterEntity, joinVars, takeVars, histVars
<1>2. \A q \in Peer : owner'[q] = owner[q] \/ owner'[q] = NoContainer
  BY <1>1 DEF TypeOK
<1>3. Authorities' \subseteq Authorities
  BY <1>1, <1>2 DEF Authorities, HasAuthority, Registered
<1>4. /\ Sources' \subseteq Sources /\ Ghosts' = Ghosts /\ Moving' = Moving
      /\ \A q \in Peer : Present(q)' => Present(q)
  BY <1>1, <1>2, <1>3 DEF Sources, Ghosts, Moving, Present, Registered, PeersOf
<1>5. \A q \in Peer : DOMAIN props'[q] = DOMAIN props[q] /\ \A k : ValueAt(q, k)' = ValueAt(q, k)
  BY <1>1 DEF ValueAt
<1> QED BY <1>1, <1>4, <1>5, SameValues

LEMMA EraseKeeps ==
  ASSUME TypeOK, EngineInv, NeverSetInv, CalmInv, NEW p \in Peer, TryRemoveEntity(p)
  PROVE  NeverSetInv' /\ CalmInv'
<1>1. /\ UNCHANGED <<owner, containers, streams, answering, answered, loading, transferring, making,
                     takes, taking, tasks, next, hand, chan, latest>>
      /\ props' = [props EXCEPT ![p] = NoUpdate]
      /\ calm' = IF InUse(p) THEN {} ELSE calm
      /\ p \in erasing
  BY DEF TryRemoveEntity, joinVars, takeVars, pipeVars
<1>2. props'[p] = NoUpdate /\ \A q \in Peer \ {p} : props'[q] = props[q]
  BY <1>1 DEF TypeOK
<1>3. \A q \in Peer \ {p} : \A k : ValueAt(q, k)' = ValueAt(q, k)
  BY <1>2 DEF ValueAt
<1>4. /\ Sources' = Sources /\ Ghosts' = Ghosts /\ Moving' = Moving
      /\ PeersOf(making)' = PeersOf(making)
      /\ \A q \in Peer : Present(q)' = Present(q)
  BY <1>1 DEF Sources, Authorities, HasAuthority, Registered, Ghosts, Moving, Present, PeersOf
<1>5. /\ \A d \in Container, k \in Key : Carries(d, k)' = Carries(d, k)
      /\ \A k \in Key : LineInv(k)' = LineInv(k)
  BY <1>1, PipeSame DEF pipeVars
<1>6. NeverSetInv'
  BY <1>1, <1>2, <1>4, <1>5, EmptyUpdate DEF NeverSetInv
<1>7. CASE InUse(p)
  BY <1>1, <1>6, <1>7 DEF CalmInv
<1>8. CASE ~InUse(p)
  <2>1. ~Present(p) /\ p \notin Sources
    <3>1. p \notin PeersOf(transferring)
      BY <1>1 DEF EngineInv
    <3> QED BY <1>8, <3>1 DEF InUse, Present, Sources, Authorities, HasAuthority
  <2>2. calm' = calm /\ calm \subseteq Key
    BY <1>1, <1>8 DEF TypeOK
  <2>3. ASSUME NEW k \in calm
        PROVE  LineInv(k)' /\ GhostInv(k)' /\ AuthorityInv(k)' /\ CopyInv(k)'
    <3>1. LineInv(k) /\ GhostInv(k) /\ AuthorityInv(k) /\ CopyInv(k) /\ k \in Key
      BY <2>2 DEF CalmInv
    <3>2. GhostInv(k)'
      BY <1>1, <1>4, <3>1 DEF GhostInv
    <3>3. \A q \in Sources' : ValueAt(q, k)' = latest'[k] \/ q \in PeersOf(making)'
      BY <1>1, <1>3, <1>4, <2>1, <3>1, SourcesArePeers DEF AuthorityInv
    <3>4. AuthorityInv(k)'
      BY <1>4, <1>5, <3>1, <3>3 DEF AuthorityInv
    <3>5. CopyInv(k)'
      BY <1>1, <1>3, <1>4, <2>1, <3>1 DEF CopyInv
    <3> QED BY <1>5, <3>1, <3>2, <3>4, <3>5
  <2> QED BY <1>6, <2>2, <2>3 DEF CalmInv
<1> QED BY <1>7, <1>8

LEMMA OtherStepsKeep ==
  ASSUME TypeOK, NeverSetInv, CalmInv,
         \/ \E p \in Peer : ClockNext(p)
         \/ \E p \in Polling, k \in Key : PollPropertyUpdate(p, k)
         \/ \E p \in Peer, k \in Key, v \in Value : UpdatePropertyState(p, k, v)
         \/ UNCHANGED vars
  PROVE  NeverSetInv' /\ CalmInv'
<1>1. UNCHANGED <<owner, props, transferring, making, pipeVars, joinVars, takeVars, histVars>>
  BY DEF ClockNext, ExecDropOrder, ScheduleDeletion, PollPropertyUpdate, UpdatePropertyState,
         copyVars, engineVars, vars
<1>2. UNCHANGED <<latest, calm, containers, streams>>
  BY <1>1 DEF histVars, joinVars
<1>3. /\ Sources' = Sources /\ Ghosts' = Ghosts /\ Moving' = Moving
      /\ \A q \in Peer : Present(q)' = Present(q)
  BY <1>1, SameOrders
<1> QED BY <1>1, <1>2, <1>3, PlacesSame, SameValues

LEMMA NextInv == IInv /\ [Next]_vars => IInv'
<1> SUFFICES ASSUME TypeOK, OwnersInv, EngineInv, NeverSetInv, CalmInv, [Next]_vars
             PROVE  NeverSetInv' /\ CalmInv'
  BY NextType, NextOwners, NextEngine DEF IInv
<1>1. ASSUME NEW p \in Peer, EngineNext(p) PROVE NeverSetInv' /\ CalmInv'
  <2>1. CASE \E c \in Container, k \in Key, v \in Value : SetProperty(p, c, k, v)
    BY <2>1, SetKeeps
  <2>2. CASE \E m \in transferring : m[1] = p /\ PublishOrders(p, m[2], m[3])
    BY <2>2, PublishKeeps
  <2>3. CASE \E t \in tasks : EngineCallInstantiate(p, t)
    BY <2>3, InstantiateKeeps
  <2>4. CASE \E m \in making : m[1] = p /\ ApplyGhostToEntity(p, m[2], m[3])
    BY <2>4, ApplyGhostKeeps
  <2>5. CASE \E d \in deletes : UnregisterEntity(p, d)
    BY <2>5, UnregisterKeeps
  <2>6. CASE TryRemoveEntity(p)
    BY <2>6, EraseKeeps
  <2> QED BY <1>1, <2>1, <2>2, <2>3, <2>4, <2>5, <2>6 DEF EngineNext
<1>2. ASSUME NEW p \in Peer, ListenerNext(p) PROVE NeverSetInv' /\ CalmInv'
  <2>1. CASE \E c \in Container : HandleReplicationPacket(c, p)
    BY <2>1, HandleKeeps
  <2>2. CASE \E a \in asked : OwnerOf[a[2]] = p /\ GetExistingEntities(a[1], a[2])
    <3>1. PICK a \in asked : GetExistingEntities(a[1], a[2])
      BY <2>2
    <3>2. a[1] \in Peer /\ a[2] \in Container
      BY DEF TypeOK
    <3> QED BY <3>1, <3>2, AnswerKeeps
  <2>3. CASE \E a \in answering : OwnerOf[a[2]] = p /\ PeekProperties(a[1], a[2])
    BY <2>3, PeekKeeps
  <2>4. CASE \E t \in takes : ExecTakeOrder(p, t)
    BY <2>4, TakeOrderKeeps
  <2>5. CASE \E t \in taking : FinishTakeOrder(p, t)
    BY <2>5, FinishTakeKeeps
  <2> QED BY <1>2, <2>1, <2>2, <2>3, <2>4, <2>5 DEF ListenerNext
<1>3. ASSUME NEW p \in Peer, PoolNext(p) PROVE NeverSetInv' /\ CalmInv'
  <2>1. CASE \E c \in Container : OpenStream(p, c)
    BY <2>1, OpenKeeps
  <2>2. CASE \E a \in answered : a[1] = p /\ LoadExistingEntities(p, a[2], a[3])
    BY <2>2, LoadKeeps
  <2>3. CASE \E a \in loading : a[1] = p /\ LoadInstantiates(p, a[2])
    BY <2>3, LoadInstantiatesKeeps
  <2> QED BY <1>3, <2>1, <2>2, <2>3 DEF PoolNext
<1>4. CASE \E c \in Container : WorkerNext(c)
  BY <1>4, FetchKeeps, ReplicateKeeps DEF WorkerNext
<1>5. CASE \E p \in Peer, c \in Container :
             TransferAuthority(p, c) \/ SubscribeToContainer(p, c) \/ LosePacket(c, p) \/ LoadFails(p, c)
  BY <1>5, TransferKeeps, SubscribeKeeps, LoseKeeps, FailKeeps
<1>6. CASE \/ \E p \in Peer : ClockNext(p)
           \/ \E p \in Polling, k \in Key : PollPropertyUpdate(p, k)
           \/ \E p \in Peer, k \in Key, v \in Value : UpdatePropertyState(p, k, v)
           \/ UNCHANGED vars
  BY <1>6, OtherStepsKeep
<1> QED BY <1>1, <1>2, <1>3, <1>4, <1>5, <1>6 DEF Next, Idle

(* The last change is the last on every route to a copy. *)
LEMMA RouteEnds ==
  ASSUME TypeOK, OwnersInv, NEW k \in Key, LineInv(k), NEW c \in Container, NEW p \in Peer,
         HasKey(Route(c, p), k)
  PROVE  EndsWith(Route(c, p), k, latest[k])
<1> DEFINE s == chan[c][p]
           h == Append(s, hand[c])
           v == latest[k]
<1>1. s \in Seq(Update) /\ hand[c] \in Update /\ next[c] \in Update
  BY DEF TypeOK
<1>2. h \in Seq(Update)
  BY <1>1
<1>3. Route(c, p) = Append(h, next[c])
  <2>1. c \in streams[p]
    BY DEF Route, HasKey
  <2>2. s \o <<hand[c], next[c]>> = Append(Append(s, hand[c]), next[c])
    BY <1>1
  <2> QED BY <2>1, <2>2 DEF Route
<1>4. CASE k \in DOMAIN next[c]
  <2>1. next[c][k] = v
    BY <1>4 DEF LineInv
  <2>2. EndsWith(Append(h, next[c]), k, v)
    BY <1>1, <1>2, <1>4, <2>1, AppendUpdate
  <2> QED BY <1>3, <2>2
<1>5. CASE k \notin DOMAIN next[c]
  <2>1. EndsWith(h, k, v) => EndsWith(Append(h, next[c]), k, v)
    BY <1>1, <1>2, <1>5, AppendUpdate
  <2>2. CASE k \in DOMAIN hand[c]
    <3>1. hand[c][k] = v
      BY <1>5, <2>2 DEF LineInv
    <3>2. EndsWith(h, k, v)
      BY <1>1, <2>2, <3>1, AppendUpdate
    <3> QED BY <1>3, <2>1, <3>2
  <2>3. CASE k \notin DOMAIN hand[c]
    <3>1. HasKey(h, k)
      <4>1. HasKey(Append(h, next[c]), k) <=> HasKey(h, k) \/ k \in DOMAIN next[c]
        BY <1>1, <1>2, AppendUpdate
      <4> QED BY <1>3, <1>5, <4>1
    <3>2. HasKey(s, k)
      <4>1. HasKey(h, k) <=> HasKey(s, k) \/ k \in DOMAIN hand[c]
        BY <1>1, AppendUpdate
      <4> QED BY <2>3, <3>1, <4>1
    <3>3. EndsWith(s, k, v)
      BY <1>5, <2>3, <3>2 DEF LineInv
    <3>4. EndsWith(h, k, v)
      BY <1>1, <2>3, <3>3, AppendUpdate
    <3> QED BY <1>3, <2>1, <3>4
  <2> QED BY <2>2, <2>3
<1> QED BY <1>4, <1>5

LEMMA InvImpliesLatest == IInv => LatestArrives
<1> SUFFICES ASSUME TypeOK, OwnersInv, NeverSetInv, CalmInv, NEW k \in calm, NEW p \in Peer,
                    Registered(p)
             PROVE  /\ \A c \in Container :
                         HasKey(Route(c, p), k) => EndsWith(Route(c, p), k, latest[k])
                    /\ \A a \in answered \cup takes \cup taking \cup tasks \cup making :
                         a[1] = p /\ k \in DOMAIN a[3] => a[3][k] = latest[k]
                    /\ \/ ValueAt(p, k) = latest[k]
                       \/ \E c \in Container : HasKey(Route(c, p), k)
                       \/ \E a \in making : a[1] = p /\ k \in DOMAIN a[3]
  BY DEF IInv, LatestArrives
<1>1. k \in Key /\ LineInv(k) /\ GhostInv(k) /\ CopyInv(k) /\ streams[p] \subseteq Container
  BY DEF CalmInv, TypeOK
<1>2. \A c \in Container : HasKey(Route(c, p), k) => EndsWith(Route(c, p), k, latest[k])
  BY <1>1, RouteEnds
<1>3. \A a \in Ghosts : IF k \in DOMAIN a[3] THEN a[3][k] = latest[k] ELSE latest[k] = NoValue
  BY <1>1 DEF GhostInv
<1>4. ASSUME NEW c \in streams[p],
             k \in DOMAIN next[c] \cup DOMAIN hand[c] \/ HasKey(chan[c][p], k)
      PROVE  HasKey(Route(c, p), k)
  <2>1. chan[c][p] \in Seq(Update) /\ hand[c] \in Update /\ next[c] \in Update
    BY <1>1 DEF TypeOK
  <2>2. Append(chan[c][p], hand[c]) \in Seq(Update)
    BY <2>1
  <2>3. Route(c, p) = Append(Append(chan[c][p], hand[c]), next[c])
    <3>1. \A s \in Seq(Update), u \in Update, w \in Update :
            s \o <<u, w>> = Append(Append(s, u), w)
      OBVIOUS
    <3>2. chan[c][p] \o <<hand[c], next[c]>> = Append(Append(chan[c][p], hand[c]), next[c])
      BY ONLY <2>1, <3>1
    <3> QED BY <3>2 DEF Route
  <2>4. HasKey(Append(chan[c][p], hand[c]), k) <=> HasKey(chan[c][p], k) \/ k \in DOMAIN hand[c]
    BY <2>1, AppendUpdate
  <2>5. HasKey(Append(Append(chan[c][p], hand[c]), next[c]), k)
          <=> HasKey(Append(chan[c][p], hand[c]), k) \/ k \in DOMAIN next[c]
    BY <2>1, <2>2, AppendUpdate
  <2> QED BY <1>4, <2>3, <2>4, <2>5
<1>5. ASSUME p \in PeersOf(making), ValueAt(p, k) # latest[k]
      PROVE  \E a \in making : a[1] = p /\ k \in DOMAIN a[3]
  <2>1. PICK a \in making : a[1] = p
    BY <1>5 DEF PeersOf
  <2>2. latest[k] # NoValue
    BY <1>1, <1>5 DEF NeverSetInv, ValueAt
  <2> QED BY <1>3, <2>1, <2>2 DEF Ghosts
<1>6. Present(p)
  BY DEF Present
<1> QED BY <1>1, <1>2, <1>3, <1>4, <1>5, <1>6 DEF CopyInv, Ghosts

(* The last undisturbed change of every property is not replaced or forgotten: no
   topic, answer or order brings an older value after it, and a copy without it will
   get it by a packet, or with the ghost it is being made for (LatestArrives), for any
   number of peers and containers. *)
THEOREM LatestKept == Spec => []LatestArrives
<1>1. Init => IInv
  BY InitType, InitOwners, InitInv DEF IInv
<1>2. IInv /\ [Next]_vars => IInv'
  BY NextInv
<1>3. IInv => LatestArrives
  BY InvImpliesLatest
<1> QED BY <1>1, <1>2, <1>3, PTL DEF Spec

-----------------------------------------------------------------------------
(* Polling.                                                                 *)

(* What an update changes becomes newer than the last poll, whichever way the
   update came. *)
LEMMA AppliedIsPolled ==
  ASSUME TypeOK, PollMissesNothing, NEW p \in Peer, NEW u \in Update, ApplyUpdate(p, u),
         polled' = polled
  PROVE  PollMissesNothing'
<1> SUFFICES ASSUME NEW q \in Polling, NEW k \in Key, k \in DOMAIN props'[q],
                    ~(k \in DOMAIN polled[q] /\ polled[q][k] = props'[q][k])
             PROVE  k \in fresh'[q]
  BY DEF PollMissesNothing
<1>1. /\ DOMAIN props'[p] = DOMAIN props[p] \cup DOMAIN u
      /\ \A x \in DOMAIN u : ValueAt(p, x)' = u[x]
      /\ \A x \in Key \ DOMAIN u : ValueAt(p, x)' = ValueAt(p, x)
      /\ \A r \in Peer \ {p} : props'[r] = props[r]
  BY AppliedValues
<1>2. /\ fresh'[p] = fresh[p] \cup Changed(p, u)
      /\ \A r \in Peer \ {p} : fresh'[r] = fresh[r]
  BY DEF ApplyUpdate, TypeOK
<1>3. k \in DOMAIN props[q] /\ ~(k \in DOMAIN polled[q] /\ polled[q][k] = props[q][k])
        => k \in fresh[q]
  BY DEF PollMissesNothing
<1>4. CASE q # p
  <2>1. q \in Peer
    BY ConstantsAssumption
  <2> QED BY <1>1, <1>2, <1>3, <1>4, <2>1
<1>5. CASE q = p /\ k \in Changed(p, u)
  BY <1>2, <1>5
<1>6. CASE q = p /\ k \in DOMAIN u \ Changed(p, u)
  <2>1. ValueAt(p, k) = u[k] /\ u[k] \in Value /\ NoValue \notin Value
    BY <1>6, UpdateIsFunction, ConstantsAssumption DEF Changed
  <2>2. k \in DOMAIN props[p] /\ props[p][k] = u[k]
    BY <2>1 DEF ValueAt
  <2>3. props'[p][k] = u[k]
    BY <1>1, <1>6 DEF ValueAt
  <2> QED BY <1>2, <1>3, <1>6, <2>2, <2>3
<1>7. CASE q = p /\ k \notin DOMAIN u
  <2>1. k \in DOMAIN props[p] /\ ValueAt(p, k)' = ValueAt(p, k)
    BY <1>1, <1>7
  <2>2. props'[p][k] = props[p][k]
    BY <1>7, <2>1 DEF ValueAt
  <2> QED BY <1>2, <1>3, <1>7, <2>1, <2>2
<1> QED BY <1>4, <1>5, <1>6, <1>7 DEF Changed

LEMMA NextPolled ==
  ASSUME TypeOK, PollMissesNothing, [Next]_vars
  PROVE  PollMissesNothing'
<1>1. ASSUME UNCHANGED <<props, fresh, polled>> PROVE PollMissesNothing'
  BY <1>1 DEF PollMissesNothing
<1>2. ASSUME NEW p \in Peer, NEW c \in Container, NEW k \in Key, NEW v \in Value,
             SetProperty(p, c, k, v)
      PROVE  PollMissesNothing'
  <2>1. Single(k, v) \in Update
    BY SingleUpdate
  <2> QED BY <1>2, <2>1, AppliedIsPolled DEF SetProperty
<1>3. ASSUME NEW p \in Peer, TryRemoveEntity(p) PROVE PollMissesNothing'
  <2>1. /\ props' = [props EXCEPT ![p] = NoUpdate]
        /\ fresh' = [fresh EXCEPT ![p] = {}]
        /\ polled' = [polled EXCEPT ![p] = NoUpdate]
    BY <1>3 DEF TryRemoveEntity
  <2>2. props'[p] = NoUpdate
    BY <2>1 DEF TypeOK
  <2>3. \A q \in Peer \ {p} :
          props'[q] = props[q] /\ fresh'[q] = fresh[q] /\ polled'[q] = polled[q]
    BY <2>1 DEF TypeOK
  <2> QED BY <2>2, <2>3, EmptyUpdate, ConstantsAssumption DEF PollMissesNothing
<1>4. ASSUME NEW m \in making, ApplyGhostToEntity(m[1], m[2], m[3])
      PROVE  PollMissesNothing'
  <2>1. m[1] \in Peer /\ m[3] \in Update
    BY DEF TypeOK
  <2> QED BY <1>4, <2>1, AppliedIsPolled DEF ApplyGhostToEntity
<1>5. ASSUME NEW a \in answered, LoadExistingEntities(a[1], a[2], a[3])
      PROVE  PollMissesNothing'
  <2>1. a[1] \in Peer /\ a[3] \in Update
    BY DEF TypeOK
  <2> QED BY <1>5, <2>1, AppliedIsPolled DEF LoadExistingEntities
<1>6. ASSUME NEW c \in Container, NEW p \in Peer, HandleReplicationPacket(c, p)
      PROVE  PollMissesNothing'
  <2>1. Head(chan[c][p]) \in Update
    BY <1>6, TakeUpdate DEF TypeOK, HandleReplicationPacket
  <2> QED BY <1>6, <2>1, AppliedIsPolled DEF HandleReplicationPacket
<1>7. ASSUME NEW p \in Polling, NEW k \in Key, PollPropertyUpdate(p, k)
      PROVE  PollMissesNothing'
  <2>1. p \in Peer /\ props[p] \in Update /\ polled[p] \in Update
    BY ConstantsAssumption DEF TypeOK
  <2>2. props[p][k] \in Value
    BY <1>7, <2>1, UpdateIsFunction DEF PollPropertyUpdate
  <2>3. /\ polled'[p] = Merged(polled[p], Single(k, props[p][k]))
        /\ fresh'[p] = fresh[p] \ {k}
        /\ \A q \in Peer \ {p} : polled'[q] = polled[q] /\ fresh'[q] = fresh[q]
        /\ props' = props
    BY <1>7, <2>1 DEF PollPropertyUpdate, TypeOK
  <2>4. /\ DOMAIN polled'[p] = DOMAIN polled[p] \cup {k}
        /\ polled'[p][k] = props[p][k]
        /\ \A x \in DOMAIN polled[p] \ {k} : polled'[p][x] = polled[p][x]
    <3> DEFINE u == Single(k, props[p][k])
    <3>1. u \in Update /\ DOMAIN u = {k} /\ u[k] = props[p][k]
      BY <2>2, SingleUpdate
    <3> HIDE DEF u
    <3>2. /\ DOMAIN Merged(polled[p], u) = DOMAIN polled[p] \cup DOMAIN u
          /\ \A x \in DOMAIN u : Merged(polled[p], u)[x] = u[x]
          /\ \A x \in DOMAIN polled[p] \ DOMAIN u : Merged(polled[p], u)[x] = polled[p][x]
      BY <2>1, <3>1, MergedUpdate
    <3>3. polled'[p] = Merged(polled[p], u)
      BY <2>3 DEF u
    <3> QED BY <3>1, <3>2, <3>3
  <2>5. ASSUME NEW x \in Key, x \in DOMAIN props'[p],
               ~(x \in DOMAIN polled'[p] /\ polled'[p][x] = props'[p][x])
        PROVE  x \in fresh'[p]
    <3>1. x # k
      BY <2>3, <2>4, <2>5
    <3>2. ~(x \in DOMAIN polled[p] /\ polled[p][x] = props[p][x])
      BY <2>3, <2>4, <2>5, <3>1
    <3>3. x \in fresh[p]
      BY <2>3, <2>5, <3>2 DEF PollMissesNothing
    <3> QED BY <2>3, <3>1, <3>3
  <2>6. \A q \in Polling \ {p} :
          props'[q] = props[q] /\ polled'[q] = polled[q] /\ fresh'[q] = fresh[q]
    BY <2>3, ConstantsAssumption
  <2> QED BY <2>5, <2>6 DEF PollMissesNothing
<1>8. CASE UNCHANGED vars
  BY <1>1, <1>8 DEF vars, copyVars
<1>9. ASSUME NEW p \in Peer, NEW c \in Container,
             \/ OpenStream(p, c)
             \/ LosePacket(c, p) \/ LoadFails(p, c) \/ SubscribeToContainer(p, c)
             \/ TransferAuthority(p, c)
      PROVE  PollMissesNothing'
  BY <1>1, <1>9
  DEF OpenStream, LosePacket, LoadFails, SubscribeToContainer, TransferAuthority, copyVars
<1>10. ASSUME NEW p \in Peer, NEW k \in Key, NEW v \in Value, UpdatePropertyState(p, k, v)
       PROVE  PollMissesNothing'
  BY <1>1, <1>10 DEF UpdatePropertyState, copyVars
<1>11. ASSUME NEW p \in Peer,
              \/ \E a \in asked : GetExistingEntities(a[1], a[2])
              \/ \E a \in answering : PeekProperties(a[1], a[2])
              \/ \E t \in takes : ExecTakeOrder(p, t)
              \/ \E t \in taking : FinishTakeOrder(p, t)
              \/ ClockNext(p)
              \/ \E a \in loading : LoadInstantiates(p, a[2])
       PROVE PollMissesNothing'
  <2>1. UNCHANGED <<props, fresh, polled>>
    BY <1>11
    DEF GetExistingEntities, PeekProperties, ExecTakeOrder, FinishTakeOrder, ClockNext,
        ExecDropOrder, ScheduleDeletion, LoadInstantiates, copyVars
  <2> QED BY <1>1, <2>1
<1>12. ASSUME NEW p \in Peer,
              \/ \E m \in transferring : PublishOrders(p, m[2], m[3])
              \/ \E t \in tasks : EngineCallInstantiate(p, t)
              \/ \E d \in deletes : UnregisterEntity(p, d)
       PROVE PollMissesNothing'
  <2>1. UNCHANGED <<props, fresh, polled>>
    BY <1>12 DEF PublishOrders, EngineCallInstantiate, UnregisterEntity, copyVars
  <2> QED BY <1>1, <2>1
<1>13. ASSUME NEW c \in Container, FetchNextUpdate(c) \/ ReplicateData(c)
       PROVE  PollMissesNothing'
  BY <1>1, <1>13 DEF FetchNextUpdate, ReplicateData, copyVars
<1>14. ASSUME NEW p \in Peer, EngineNext(p) PROVE PollMissesNothing'
  BY <1>2, <1>3, <1>4, <1>12, <1>14 DEF EngineNext
<1>15. ASSUME NEW p \in Peer, ListenerNext(p) PROVE PollMissesNothing'
  BY <1>6, <1>11, <1>15 DEF ListenerNext
<1>16. ASSUME NEW p \in Peer, PoolNext(p) PROVE PollMissesNothing'
  BY <1>5, <1>9, <1>11, <1>16 DEF PoolNext
<1> QED
  BY <1>7, <1>8, <1>9, <1>10, <1>11, <1>13, <1>14, <1>15, <1>16 DEF Next, WorkerNext, Idle

(* A change that a copy holds and its engine has not seen is always due to be
   polled (PollMissesNothing), for any number of peers, orders and packets. *)
THEOREM PollComplete == Spec => []PollMissesNothing
<1>1. Init => TypeOK /\ PollMissesNothing
  <2>1. Init => PollMissesNothing
    BY EmptyUpdate, ConstantsAssumption DEF Init, PollMissesNothing
  <2> QED BY <2>1, InitType
<1>2. TypeOK /\ PollMissesNothing /\ [Next]_vars => TypeOK' /\ PollMissesNothing'
  BY NextType, NextPolled
<1> QED BY <1>1, <1>2, PTL DEF Spec
============================================================================
