-------------------------- MODULE MasterSessionsProofs --------------------------
(* SessionsInv and CleanupsComplete of MasterSessions, for any sessions, parents and
   requests. *)
EXTENDS MasterSessions, TLAPS, FiniteSetTheorems

(* Creations of children of p. *)
Children(p) == {c \in Creation : ParentOf[c] = p /\ at[c] # "idle"}

(* As many numbers were drawn as there are children that were asked for, at most. *)
CountInv == \A p \in Numbered : counter[p] <= Cardinality(Children(p))

(* The creation of c has come past TryAdd. *)
Past(c) == at[c] \in {"tracked", "200", "500"}

(* Process c is in the map that its task has found. *)
Added(c) == held[c] # None /\ c \in entries[held[c]]

(* A process is started before its task asks for a map, and that outside of a container. *)
CreationsInv ==
  \A c \in Creation :
    /\ at[c] # "begun"
    /\ at[c] \in {"idle", "named"} => process[c] = "none"
    /\ at[c] \in {"started", "holding", "tracked"} => ~inContainer /\ process[c] # "none"
    /\ at[c] = "holding" => held[c] # None

(* In a map are processes that TryAdd has put there; those that are killed come from maps. *)
EntriesInv ==
  /\ \A m \in Creation : \A c \in entries[m] : Past(c) /\ process[c] # "none" /\ held[c] = m
  /\ \A x \in Cleaner : \A c \in doomed[x] : Added(c)

(* The id of a process that is past TryAdd is in the map, be it for another process. *)
AddedInv ==
  \A c \in Started(Session) : ~inContainer =>
    held[c] # None /\ \E e \in entries[held[c]] : node[e] = node[c]

(* A cleanup has maps or processes before it only between its beginning and its answer. *)
CleanersInv ==
  /\ \A d \in Cleanup : at[d] # "begun" => Killed(d)
  /\ master # "stopping" => Killed(Shutdown)

(* A task that holds a map which was taken from its session is overlapped. *)
HoldingInv ==
  \A c \in Creation : at[c] = "holding" /\ c \notin overlapped => current[SessionOf[c]] = held[c]

(* A process in a map that was not taken while its task held it. *)
Kept(c) == Added(c) /\ c \notin overlapped

(* One that runs is in the map of its session, or on its way to be killed. *)
KeptInv ==
  \A c \in Creation : Kept(c) /\ process[c] = "running" =>
    current[SessionOf[c]] = held[c] \/ \E d \in Cleanup : Doomed(d, c)

(* One that was there when a cleaner began is on the way to be killed by it, or by a cleanup. *)
BeforeInv ==
  \A x \in Cleaner : \A c \in before[x] :
    /\ c \in Started(Session)
    /\ Kept(c) /\ process[c] = "running" => \E y \in Cleanup \cup {x} : Doomed(y, c)

IInv ==
  /\ TypeOK /\ CountInv /\ CreationsInv /\ EntriesInv /\ AddedInv /\ CleanersInv
  /\ HoldingInv /\ KeptInv /\ BeforeInv

-----------------------------------------------------------------------------

LEMMA InitIInv == ASSUME Init PROVE IInv
<1> USE DEF Init
<1>1. Cardinality(Creation) \in Nat /\ 0 \in 0 .. Cardinality(Creation)
  BY FS_CardinalityType, ConstantsAssumption DEF ConstantsAssumption
<1>2. TypeOK
  <2>1. counter \in [Numbered -> 0 .. Cardinality(Creation)]
    BY <1>1
  <2>2. Pulsar!TypeOK
    BY DEF Pulsar!Init, Pulsar!TypeOK
  <2> QED BY <2>1, <2>2 DEF TypeOK, Request
<1>3. CountInv
  <2>1. ASSUME NEW p \in Numbered PROVE Cardinality(Children(p)) = 0
    <3>1. Children(p) = {}
      BY DEF Children, Request
    <3> QED BY <3>1, FS_EmptySet
  <2> QED BY <2>1 DEF CountInv
<1>4. CreationsInv /\ EntriesInv
  BY DEF CreationsInv, EntriesInv, Request
<1>5. AddedInv /\ HoldingInv /\ KeptInv
  BY DEF AddedInv, HoldingInv, KeptInv, Started, Kept, Added, Request
<1>6. CleanersInv /\ BeforeInv
  BY DEF CleanersInv, BeforeInv, Killed, Cleaner
<1> QED BY <1>2, <1>3, <1>4, <1>5, <1>6 DEF IInv

-----------------------------------------------------------------------------
(* What a step can change.                                                  *)

(* The steps that have no part in the creation and killing of processes. *)
Elsewhere ==
  /\ UNCHANGED <<inContainer, master, node, counter, processVars, historyVars>>
  /\ \A r \in Creation \cup Cleanup : at'[r] = at[r]

LEMMA StepCases ==
  ASSUME TypeOK, [Next]_vars
  PROVE  \/ \E c \in Creation : RequestNode(c) \/ Create(c)
         \/ \E d \in Cleanup : BeginCleanup(d) \/ DeleteSessionNamespace(d)
         \/ \E x \in Cleaner : TakeMap(x) \/ Kill(x)
         \/ BeginShutdown \/ Stop
         \/ Elsewhere
<1>1. /\ Creation \cap (Opening \cup Link) = {} /\ Cleanup \cap (Opening \cup Link) = {}
      /\ Creation \cup Cleanup \subseteq Request
  BY ConstantsAssumption DEF ConstantsAssumption, Request
<1>2. ASSUME NEW o \in Opening, OpenSession(o) PROVE Elsewhere
  BY <1>1, <1>2 DEF Elsewhere, OpenSession, Begins, Reach, TypeOK
<1>3. ASSUME NEW c \in Creation, OpenTopic(c) PROVE Elsewhere
  BY <1>3 DEF Elsewhere, OpenTopic, requestVars
<1>4. ASSUME NEW c \in Creation, NEW l \in Link, SendClient(l, c) PROVE Elsewhere
  BY <1>1, <1>4 DEF Elsewhere, SendClient, Begins, Reach, TypeOK
<1>5. CASE UNCHANGED vars
  BY <1>5 DEF Elsewhere, vars, requestVars
<1> QED BY <1>2, <1>3, <1>4, <1>5 DEF Next, MasterStep

(* The creation of c goes on from where it is, one place at a time. *)
LEMMA CreationGoesOn ==
  ASSUME IInv, [Next]_vars, NEW c \in Creation
  PROVE  /\ at'[c] = at[c] \/ RequestNode(c) \/ Create(c)
         /\ at[c] # "idle" => node'[c] = node[c] /\ at'[c] # "idle"
         /\ at[c] # "started" => held'[c] = held[c]
         /\ Past(c) => Past(c)'
<1>1. TypeOK /\ Creation \cap Cleanup = {} /\ Creation \cup Cleanup \subseteq Request
  BY ConstantsAssumption DEF IInv, ConstantsAssumption, Request
<1> DEFINE GoesOn == /\ at'[c] = at[c] \/ RequestNode(c) \/ Create(c)
                     /\ at[c] # "idle" => node'[c] = node[c] /\ at'[c] # "idle"
                     /\ at[c] # "started" => held'[c] = held[c]
                     /\ Past(c) => Past(c)'
<1>2. ASSUME NEW e \in Creation, RequestNode(e) PROVE GoesOn
  BY <1>1, <1>2 DEF TypeOK, RequestNode, Begins, Reach, processVars, Past
<1>3. ASSUME NEW e \in Creation, Create(e) PROVE GoesOn
  <2>1. node' = node /\ (e # c => at'[c] = at[c])
    BY <1>1, <1>3 DEF TypeOK, Create, StartContainer, StartProcess, FindMap, Track, Register, Reach
  <2>2. at[e] # "idle" /\ at'[e] # "idle" /\ (Past(e) => Past(e)')
    BY <1>1, <1>3 DEF TypeOK, Create, StartContainer, StartProcess, FindMap, Track, Register, Reach,
       Past
  <2>3. at[c] # "started" => held'[c] = held[c]
    BY <1>1, <1>3 DEF TypeOK, Create, StartContainer, StartProcess, FindMap, Track, Register, Reach,
       processVars
  <2> QED BY <1>3, <2>1, <2>2, <2>3 DEF Past
<1>4. ASSUME NEW d \in Cleanup, BeginCleanup(d) \/ DeleteSessionNamespace(d) PROVE GoesOn
  BY <1>1, <1>4 DEF TypeOK, BeginCleanup, DeleteSessionNamespace, Begins, Reach, processVars, Past
<1>5. ASSUME NEW x \in Cleaner, TakeMap(x) \/ Kill(x) PROVE GoesOn
  BY <1>5 DEF TakeMap, Kill, requestVars, Past
<1>6. ASSUME BeginShutdown \/ Stop \/ Elsewhere PROVE GoesOn
  BY <1>6 DEF BeginShutdown, Stop, Elsewhere, processVars, Past
<1> HIDE DEF GoesOn
<1>7. GoesOn
  BY <1>1, <1>2, <1>3, <1>4, <1>5, <1>6, StepCases
<1> QED BY <1>7 DEF GoesOn

(* Processes are started once, by their creation. *)
LEMMA ProcessGoesOn ==
  ASSUME IInv, [Next]_vars, NEW c \in Creation
  PROVE  /\ process[c] # "none" => process'[c] # "none"
         /\ at[c] # "named" /\ process'[c] = "running" => process[c] = "running"
         /\ inContainer' = inContainer
<1>1. TypeOK /\ CreationsInv /\ EntriesInv
  BY DEF IInv
<1> DEFINE GoesOn == /\ process[c] # "none" => process'[c] # "none"
                     /\ at[c] # "named" /\ process'[c] = "running" => process[c] = "running"
                     /\ inContainer' = inContainer
<1>2. ASSUME NEW e \in Creation, RequestNode(e) PROVE GoesOn
  BY <1>2 DEF RequestNode, processVars
<1>3. ASSUME NEW e \in Creation, Create(e) PROVE GoesOn
  BY <1>1, <1>3 DEF TypeOK, CreationsInv, Create, StartContainer, StartProcess, FindMap, Track,
     Register, processVars
<1>4. ASSUME NEW d \in Cleanup, BeginCleanup(d) \/ DeleteSessionNamespace(d) PROVE GoesOn
  BY <1>4 DEF BeginCleanup, DeleteSessionNamespace, processVars
<1>5. ASSUME NEW x \in Cleaner, TakeMap(x) \/ Kill(x) PROVE GoesOn
  BY <1>1, <1>5 DEF TypeOK, TakeMap, Kill, requestVars
<1>6. ASSUME BeginShutdown \/ Stop \/ Elsewhere PROVE GoesOn
  BY <1>6 DEF BeginShutdown, Stop, Elsewhere, processVars
<1> HIDE DEF GoesOn
<1>7. GoesOn
  BY <1>1, <1>2, <1>3, <1>4, <1>5, <1>6, StepCases
<1> QED BY <1>7 DEF GoesOn

(* What is added to a map stays in it, and only Track adds it. *)
LEMMA MapsGrow ==
  ASSUME IInv, [Next]_vars, NEW m \in Creation
  PROVE  /\ entries[m] \subseteq entries'[m]
         /\ \A c \in Creation : c \in entries'[m] => c \in entries[m] \/ (Track(c) /\ held[c] = m)
         /\ overlapped \subseteq overlapped'
<1>1. TypeOK
  BY DEF IInv
<1> DEFINE Grow ==
             /\ entries[m] \subseteq entries'[m]
             /\ \A c \in Creation : c \in entries'[m] => c \in entries[m] \/ (Track(c) /\ held[c] = m)
             /\ overlapped \subseteq overlapped'
<1>2. ASSUME NEW e \in Creation, Track(e) PROVE Grow
  <2>1. /\ entries' = [entries EXCEPT ![held[e]] =
                         IF \E f \in @ : node[f] = node[e] THEN @ ELSE @ \cup {e}]
        /\ overlapped' = overlapped
    BY <1>2 DEF Track, historyVars
  <2>2. m # held[e] => entries'[m] = entries[m]
    BY <1>1, <2>1 DEF TypeOK
  <2>3. m = held[e] => entries[m] \subseteq entries'[m] /\ entries'[m] \subseteq entries[m] \cup {e}
    BY <1>1, <2>1 DEF TypeOK
  <2> QED BY <1>2, <2>1, <2>2, <2>3
<1>3. ASSUME NEW e \in Creation, RequestNode(e) \/ Create(e), ~Track(e) PROVE Grow
  BY <1>3 DEF RequestNode, Create, StartContainer, StartProcess, FindMap, Register, processVars,
     historyVars
<1>4. ASSUME NEW d \in Cleanup, BeginCleanup(d) \/ DeleteSessionNamespace(d) PROVE Grow
  BY <1>4 DEF BeginCleanup, DeleteSessionNamespace, processVars, historyVars
<1>5. ASSUME NEW x \in Cleaner, TakeMap(x) \/ Kill(x) PROVE Grow
  BY <1>5 DEF TakeMap, Kill, historyVars
<1>6. ASSUME BeginShutdown \/ Stop \/ Elsewhere PROVE Grow
  BY <1>6 DEF BeginShutdown, Stop, Elsewhere, processVars, historyVars
<1> HIDE DEF Grow
<1>7. Grow
  BY <1>1, <1>2, <1>3, <1>4, <1>5, <1>6, StepCases
<1> QED BY <1>7 DEF Grow

(* What is to be killed stays to be killed, until it is. *)
LEMMA DoomedStays ==
  ASSUME IInv, [Next]_vars, NEW x \in Cleaner, NEW c \in Creation, Doomed(x, c)
  PROVE  Doomed(x, c)' \/ process'[c] \in {"dead", "unkilled"}
<1>1. TypeOK /\ CleanersInv /\ ~Killed(x) /\ Shutdown \notin Cleanup
  BY ConstantsAssumption DEF IInv, ConstantsAssumption, Doomed, Killed
<1>2. \A m \in maps[x] : m \in Creation /\ entries[m] \subseteq entries'[m]
  BY <1>1, MapsGrow DEF TypeOK
<1> DEFINE Stays == Doomed(x, c)' \/ process'[c] \in {"dead", "unkilled"}
<1>3. ASSUME UNCHANGED <<maps[x], doomed[x]>> PROVE Stays
  BY <1>2, <1>3 DEF Doomed
<1>4. ASSUME NEW d \in Cleanup, BeginCleanup(d) PROVE Stays
  <2>1. d # x
    BY <1>1, <1>4 DEF CleanersInv, BeginCleanup, Begins
  <2>2. doomed' = doomed /\ maps'[x] = maps[x]
    BY <1>1, <1>4, <2>1 DEF TypeOK, BeginCleanup, TakeMaps
  <2> QED BY <1>3, <2>2
<1>5. ASSUME BeginShutdown PROVE Stays
  <2>1. Shutdown # x
    BY <1>1, <1>5 DEF CleanersInv, BeginShutdown
  <2>2. doomed' = doomed /\ maps'[x] = maps[x]
    BY <1>1, <1>5, <2>1 DEF TypeOK, BeginShutdown, TakeMaps
  <2> QED BY <1>3, <2>2
<1>6. ASSUME NEW y \in Cleaner, TakeMap(y) PROVE Stays
  <2>1. PICK m \in maps[y] :
          /\ maps' = [maps EXCEPT ![y] = @ \ {m}] /\ doomed' = [doomed EXCEPT ![y] = entries[m]]
          /\ entries' = entries /\ doomed[y] = {}
    BY <1>6 DEF TakeMap
  <2>2. CASE x # y
    BY <1>1, <1>3, <2>1, <2>2 DEF TypeOK
  <2>3. CASE x = y
    <3>1. maps'[x] = maps[x] \ {m} /\ doomed'[x] = entries[m] /\ doomed[x] = {}
      BY <1>1, <2>1, <2>3 DEF TypeOK
    <3> QED BY <2>1, <3>1 DEF Doomed
  <2> QED BY <2>2, <2>3
<1>7. ASSUME NEW y \in Cleaner, Kill(y) PROVE Stays
  <2>1. PICK e \in doomed[y] :
          /\ \E end \in {"dead", "unkilled"} : process' = [process EXCEPT ![e] = end]
          /\ doomed' = [doomed EXCEPT ![y] = @ \ {e}]
          /\ entries' = entries /\ maps' = maps
    BY <1>7 DEF Kill
  <2>2. CASE e = c
    BY <1>1, <2>1, <2>2 DEF TypeOK
  <2>3. CASE e # c
    BY <1>1, <2>1, <2>3 DEF TypeOK, Doomed
  <2> QED BY <2>2, <2>3
<1>8. ASSUME NEW e \in Creation, RequestNode(e) \/ Create(e) PROVE Stays
  BY <1>3, <1>8 DEF RequestNode, Create, StartContainer, StartProcess, FindMap, Track, Register,
     processVars
<1>9. ASSUME NEW d \in Cleanup, DeleteSessionNamespace(d) PROVE Stays
  BY <1>3, <1>9 DEF DeleteSessionNamespace, processVars
<1>10. ASSUME Stop \/ Elsewhere PROVE Stays
  BY <1>3, <1>10 DEF Stop, Elsewhere, processVars
<1> HIDE DEF Stays
<1>11. Stays
  BY <1>1, <1>4, <1>5, <1>6, <1>7, <1>8, <1>9, <1>10, StepCases
<1> QED BY <1>11 DEF Stays

(* A process that is in a map stays in it, and is not started again. *)
LEMMA AddedStays ==
  ASSUME IInv, [Next]_vars, NEW c \in Creation, Added(c)
  PROVE  Added(c)' /\ held'[c] = held[c] /\ (process'[c] = "running" => process[c] = "running")
<1>1. TypeOK /\ EntriesInv
  BY DEF IInv
<1>2. held[c] \in Creation /\ Past(c)
  BY <1>1 DEF Added, TypeOK, EntriesInv
<1>3. held'[c] = held[c] /\ (process'[c] = "running" => process[c] = "running")
  BY <1>2, CreationGoesOn, ProcessGoesOn DEF Past
<1>4. entries[held[c]] \subseteq entries'[held[c]]
  BY <1>2, MapsGrow
<1> QED BY <1>3, <1>4 DEF Added

-----------------------------------------------------------------------------
(* Numbers and types.                                                       *)

LEMMA CountStep == ASSUME IInv, [Next]_vars PROVE CountInv'
<1> USE ConstantsAssumption
<1>1. /\ TypeOK /\ CountInv /\ IsFiniteSet(Creation)
      /\ Creation \subseteq Request /\ Cardinality(Creation) \in Nat
  BY FS_CardinalityType DEF IInv, ConstantsAssumption, Request
<1>2. \A p \in Numbered : IsFiniteSet(Children(p)) /\ Cardinality(Children(p)) \in Nat
  BY <1>1, FS_Subset, FS_CardinalityType DEF Children
<1>3. ASSUME NEW c \in Creation, RequestNode(c) PROVE CountInv'
  <2>1. at'[c] # "idle" /\ \A e \in Creation : e # c => at'[e] = at[e]
    BY <1>1, <1>3 DEF TypeOK, RequestNode, Reach
  <2>2. at[c] = "idle"
    BY <1>3 DEF RequestNode, Begins
  <2>3. ASSUME NEW p \in Numbered, p # ParentOf[c] PROVE counter'[p] <= Cardinality(Children(p)')
    <3>1. Children(p)' = Children(p) /\ counter'[p] = counter[p]
      BY <1>1, <1>3, <2>1, <2>3 DEF Children, RequestNode, TypeOK
    <3> QED BY <1>1, <3>1 DEF CountInv
  <2>4. ASSUME ParentOf[c] \in Numbered
        PROVE  counter'[ParentOf[c]] <= Cardinality(Children(ParentOf[c])')
    <3> DEFINE p == ParentOf[c]
    <3>1. Children(p)' = Children(p) \cup {c} /\ c \notin Children(p)
      BY <2>1, <2>2 DEF Children
    <3>2. Cardinality(Children(p)') = Cardinality(Children(p)) + 1
      BY <1>2, <2>4, <3>1, FS_AddElement
    <3>3. counter'[p] \in {counter[p], counter[p] + 1} /\ counter[p] \in 0 .. Cardinality(Creation)
      BY <1>1, <1>3, <2>4 DEF TypeOK, RequestNode
    <3>4. counter[p] <= Cardinality(Children(p)) /\ Cardinality(Children(p)) \in Nat
      BY <1>1, <1>2, <2>4 DEF CountInv
    <3> QED BY <1>1, <3>2, <3>3, <3>4
  <2> QED BY <2>3, <2>4 DEF CountInv
<1>4. ASSUME counter' = counter, \A c \in Creation : at[c] = "idle" <=> at'[c] = "idle"
      PROVE  CountInv'
  <2>1. \A p \in Numbered : Children(p)' = Children(p)
    BY <1>4 DEF Children
  <2> QED BY <1>1, <1>4, <2>1 DEF CountInv
<1>5. CASE \E c \in Creation : RequestNode(c)
  BY <1>3, <1>5
<1>6. CASE ~\E c \in Creation : RequestNode(c)
  <2>1. counter' = counter
    BY <1>1, <1>6, StepCases DEF Create, StartContainer, StartProcess, FindMap, Track, Register,
       BeginCleanup, DeleteSessionNamespace, TakeMap, Kill, BeginShutdown, Stop, Elsewhere,
       requestVars
  <2>2. ASSUME NEW c \in Creation PROVE at[c] = "idle" <=> at'[c] = "idle"
    BY <1>6, CreationGoesOn DEF Create, StartContainer, StartProcess, FindMap, Track, Register
  <2> QED BY <1>4, <2>1, <2>2
<1> QED BY <1>5, <1>6

(* A number that is drawn is at most the number of creations. *)
LEMMA NodeTypes ==
  ASSUME IInv, NEW c \in Creation, RequestNode(c), CountInv'
  PROVE  TypeOK'
<1> USE ConstantsAssumption
<1>1. /\ TypeOK /\ c \in Request /\ SessionOf[c] \in Session /\ ParentOf[c] \in Parent
      /\ IsFiniteSet(Creation) /\ Cardinality(Creation) \in Nat
  BY FS_CardinalityType DEF IInv, ConstantsAssumption, Request
<1> DEFINE p == ParentOf[c]  max == Cardinality(Creation)
<1>2. /\ counter' = counter \/ (p \in Numbered /\ counter' = [counter EXCEPT ![p] = counter[p] + 1])
      /\ \/ node' = node
         \/ p \in Numbered /\ node' = [node EXCEPT ![c] = <<SessionOf[c], p, counter'[p]>>]
         \/ node' = [node EXCEPT ![c] = <<SessionOf[c], p, 0>>]
      /\ at' = [at EXCEPT ![c] = "named"] \/ at' = [at EXCEPT ![c] = "500"]
      /\ UNCHANGED <<inContainer, master, processVars, pulsarVars, historyVars>>
  BY DEF RequestNode, Reach
<1>3. ASSUME p \in Numbered PROVE counter'[p] \in 0 .. max
  <2>1. IsFiniteSet(Children(p)') /\ Cardinality(Children(p)') <= max
        /\ Cardinality(Children(p)') \in Nat
    BY <1>1, FS_Subset, FS_CardinalityType DEF Children
  <2>2. counter'[p] <= Cardinality(Children(p)')
    BY <1>3 DEF CountInv
  <2>3. counter'[p] \in {counter[p], counter[p] + 1} /\ counter[p] \in 0 .. max
    BY <1>1, <1>2, <1>3 DEF TypeOK
  <2> HIDE DEF max
  <2> QED BY <1>1, <2>1, <2>2, <2>3 DEF max
<1>4. counter' \in [Numbered -> 0 .. max]
  BY <1>1, <1>2, <1>3 DEF TypeOK
<1>5. node' \in [Creation -> Node \cup {None}]
  <2>1. <<SessionOf[c], p, 0>> \in Node
    BY <1>1 DEF Node
  <2>2. p \in Numbered => <<SessionOf[c], p, counter'[p]>> \in Node
    BY <1>1, <1>3 DEF Node
  <2> QED BY <1>1, <1>2, <2>1, <2>2 DEF TypeOK
<1>6. at' \in [Request -> {"idle", "named", "started", "holding", "tracked", "begun",
                           "200", "500"}]
  BY <1>1, <1>2 DEF TypeOK
<1>7. Pulsar!TypeOK'
  BY <1>1, <1>2 DEF TypeOK, pulsarVars, Pulsar!TypeOK
<1> QED BY <1>1, <1>2, <1>4, <1>5, <1>6, <1>7 DEF TypeOK, processVars, historyVars

LEMMA CreationTypes ==
  ASSUME IInv, NEW c \in Creation, Create(c)
  PROVE  TypeOK'
<1> USE ConstantsAssumption
<1>1. /\ TypeOK /\ c \in Request /\ SessionOf[c] \in Session
      /\ (at[c] = "holding" => held[c] \in Creation)
  BY DEF IInv, ConstantsAssumption, Request, CreationsInv, TypeOK
<1>2. Pulsar!TypeOK'
  BY <1>1 DEF TypeOK, Pulsar!TypeOK, Create, StartContainer, StartProcess, FindMap, Track, Register,
     pulsarVars
<1>3. CASE StartContainer(c) \/ StartProcess(c)
  BY <1>1, <1>2, <1>3 DEF TypeOK, StartContainer, StartProcess, Reach, historyVars
<1>4. CASE FindMap(c)
  <2>1. current' \in [Session -> Creation \cup {None}]
    BY <1>1, <1>4 DEF TypeOK, FindMap
  <2>2. held' \in [Creation -> Creation \cup {None}]
    BY <1>1, <1>4, <2>1 DEF TypeOK, FindMap
  <2> QED BY <1>1, <1>2, <1>4, <2>1, <2>2 DEF TypeOK, FindMap, Reach, historyVars
<1>5. CASE Track(c)
  BY <1>1, <1>2, <1>5 DEF TypeOK, Track, Reach, historyVars
<1>6. CASE Register(c)
  BY <1>1, <1>2, <1>6 DEF TypeOK, Register, Reach, historyVars, processVars
<1> QED BY <1>3, <1>4, <1>5, <1>6 DEF Create

LEMMA PulsarTypes ==
  ASSUME Pulsar!TypeOK
  PROVE  /\ \A d \in Cleanup : Pulsar!Next(d) => Pulsar!TypeOK'
         /\ \A s \in Session : Pulsar!CreateNamespace(s) \/ Pulsar!OpenTopic(s) => Pulsar!TypeOK'
         /\ UNCHANGED pulsarVars => Pulsar!TypeOK'
<1>1. ASSUME NEW d \in Cleanup, Pulsar!Next(d) PROVE Pulsar!TypeOK'
  BY <1>1 DEF Pulsar!TypeOK, Pulsar!Next, Pulsar!ListTopics, Pulsar!DeleteTopics, Pulsar!Delete,
     Pulsar!DeleteNamespace, Pulsar!DeleteUnheard, Pulsar!PlainRefused, Pulsar!Refused,
     Pulsar!Advance, Pulsar!CanDelete
<1>2. ASSUME NEW s \in Session, Pulsar!CreateNamespace(s) \/ Pulsar!OpenTopic(s)
      PROVE  Pulsar!TypeOK'
  BY <1>2 DEF Pulsar!TypeOK, Pulsar!CreateNamespace, Pulsar!OpenTopic
<1>3. ASSUME UNCHANGED pulsarVars PROVE Pulsar!TypeOK'
  BY <1>3 DEF Pulsar!TypeOK, pulsarVars
<1> QED BY <1>1, <1>2, <1>3

LEMMA TypeStep == ASSUME IInv, [Next]_vars PROVE TypeOK'
<1> USE ConstantsAssumption
<1>1. /\ TypeOK /\ Pulsar!TypeOK /\ Creation \cup Cleanup \cup Opening \cup Link \subseteq Request
      /\ SessionOf \in [Request -> Session] /\ Cleanup \subseteq Cleaner /\ Shutdown \in Cleaner
  BY DEF IInv, TypeOK, ConstantsAssumption, Request, Cleaner
<1>2. CASE \E c \in Creation : RequestNode(c) \/ Create(c)
  BY <1>2, CountStep, NodeTypes, CreationTypes
<1>3. ASSUME NEW x \in Cleaner, TakeMap(x) \/ Kill(x) PROVE TypeOK'
  <2>1. /\ process' \in [Creation -> {"none", "running", "unkilled", "dead"}]
        /\ maps' \in [Cleaner -> SUBSET Creation] /\ doomed' \in [Cleaner -> SUBSET Creation]
    BY <1>1, <1>3 DEF TypeOK, TakeMap, Kill
  <2>2. UNCHANGED <<requestVars, current, held, entries, pulsarVars, historyVars>>
    BY <1>3 DEF TakeMap, Kill
  <2> QED BY <1>1, <2>1, <2>2, PulsarTypes DEF TypeOK, requestVars, historyVars
<1>4. ASSUME NEW d \in Cleanup, BeginCleanup(d) PROVE TypeOK'
  <2>1. /\ maps' \in [Cleaner -> SUBSET Creation] /\ before' \in [Cleaner -> SUBSET Creation]
        /\ current' \in [Session -> Creation \cup {None}] /\ overlapped' \subseteq Creation
        /\ at' \in [Request -> {"idle", "named", "started", "holding", "tracked", "begun",
                                "200", "500"}]
    BY <1>1, <1>4 DEF TypeOK, BeginCleanup, TakeMaps, Started, Reach
  <2> QED BY <1>1, <1>4, <2>1, PulsarTypes DEF TypeOK, BeginCleanup
<1>5. ASSUME BeginShutdown PROVE TypeOK'
  <2>1. maps' \in [Cleaner -> SUBSET Creation] /\ before' \in [Cleaner -> SUBSET Creation]
    BY <1>1, <1>5 DEF TypeOK, BeginShutdown, TakeMaps, Started
  <2> QED BY <1>1, <1>5, <2>1, PulsarTypes DEF TypeOK, BeginShutdown
<1>6. ASSUME NEW d \in Cleanup, DeleteSessionNamespace(d) PROVE TypeOK'
  <2>1. at' \in [Request -> {"idle", "named", "started", "holding", "tracked", "begun",
                             "200", "500"}]
    BY <1>1, <1>6 DEF TypeOK, DeleteSessionNamespace, Reach
  <2> QED BY <1>1, <1>6, <2>1, PulsarTypes DEF TypeOK, DeleteSessionNamespace, processVars, historyVars
<1>7. CASE Stop
  BY <1>1, <1>7, PulsarTypes DEF TypeOK, Stop, processVars, historyVars
<1>8. ASSUME NEW o \in Opening, OpenSession(o) PROVE TypeOK'
  BY <1>1, <1>8, PulsarTypes DEF TypeOK, OpenSession, Reach, processVars, historyVars
<1>9. ASSUME NEW c \in Creation, OpenTopic(c) PROVE TypeOK'
  BY <1>1, <1>9, PulsarTypes DEF TypeOK, OpenTopic, requestVars, processVars, historyVars
<1>10. ASSUME NEW c \in Creation, NEW l \in Link, SendClient(l, c) PROVE TypeOK'
  BY <1>1, <1>10, PulsarTypes DEF TypeOK, SendClient, Reach, processVars, historyVars
<1>11. CASE UNCHANGED vars
  BY <1>1, <1>11, PulsarTypes DEF TypeOK, vars, requestVars, processVars, historyVars
<1> QED BY <1>2, <1>3, <1>4, <1>5, <1>6, <1>7, <1>8, <1>9, <1>10, <1>11 DEF Next, MasterStep

-----------------------------------------------------------------------------
(* Processes and the maps they are in.                                      *)

LEMMA CreationsStep == ASSUME IInv, [Next]_vars PROVE CreationsInv'
<1> SUFFICES ASSUME NEW c \in Creation
             PROVE  /\ at'[c] # "begun"
                    /\ at'[c] \in {"idle", "named"} => process'[c] = "none"
                    /\ at'[c] \in {"started", "holding", "tracked"} =>
                         ~inContainer' /\ process'[c] # "none"
                    /\ at'[c] = "holding" => held'[c] # None
  BY DEF CreationsInv
<1>1. /\ TypeOK /\ TypeOK' /\ CreationsInv /\ EntriesInv /\ inContainer' = inContainer
      /\ c \in Request /\ SessionOf[c] \in Session /\ None \notin Creation
  BY ConstantsAssumption, TypeStep, ProcessGoesOn DEF IInv, ConstantsAssumption, Request
<1>2. CASE at'[c] = at[c]
  <2>1. at[c] \in {"idle", "named"} => process'[c] = "none"
    <3> SUFFICES ASSUME at[c] \in {"idle", "named"} PROVE process'[c] = "none"
      OBVIOUS
    <3>1. process[c] = "none" /\ ~Past(c)
      BY <1>1 DEF CreationsInv, Past
    <3>2. ASSUME NEW x \in Cleaner, Kill(x) PROVE process'[c] = "none"
      <4>1. c \notin doomed[x]
        BY <1>1, <3>1 DEF TypeOK, EntriesInv, Added
      <4> QED BY <1>1, <3>1, <3>2, <4>1 DEF TypeOK, Kill
    <3>3. ASSUME NEW e \in Creation, Create(e) PROVE process'[c] = "none"
      <4>1. e # c
        BY <1>1, <1>2, <3>3 DEF TypeOK, Create, StartContainer, StartProcess, FindMap, Track,
           Register, Reach
      <4> QED BY <1>1, <3>1, <3>3, <4>1 DEF TypeOK, Create, StartContainer, StartProcess, FindMap,
              Track, Register, processVars
    <3>4. (\E x \in Cleaner : Kill(x)) \/ (\E e \in Creation : Create(e)) \/ process' = process
      BY <1>1, StepCases DEF RequestNode, BeginCleanup, DeleteSessionNamespace, TakeMap,
         BeginShutdown, Stop, Elsewhere, processVars
    <3> QED BY <3>1, <3>2, <3>3, <3>4
  <2>2. at[c] = "holding" => held'[c] = held[c]
    BY CreationGoesOn
  <2> QED BY <1>1, <1>2, <2>1, <2>2, ProcessGoesOn DEF CreationsInv
<1>3. CASE RequestNode(c)
  BY <1>1, <1>3 DEF TypeOK, CreationsInv, RequestNode, Begins, Reach, processVars
<1>4. CASE Create(c)
  <2>1. CASE StartContainer(c) \/ StartProcess(c)
    BY <1>1, <2>1 DEF TypeOK, StartContainer, StartProcess, Reach
  <2>2. CASE FindMap(c)
    <3>1. at'[c] = "holding" /\ process' = process /\ at[c] = "started"
      BY <1>1, <2>2 DEF TypeOK, FindMap, Reach
    <3>2. held'[c] # None
      <4> DEFINE s == SessionOf[c]
      <4>1. /\ current' = [current EXCEPT ![s] = IF current[s] = None THEN c ELSE current[s]]
            /\ held' = [held EXCEPT ![c] = current'[s]]
        BY <2>2 DEF FindMap
      <4> QED BY <1>1, <4>1 DEF TypeOK
    <3> QED BY <1>1, <3>1, <3>2 DEF CreationsInv
  <2>3. CASE Track(c) \/ Register(c)
    BY <1>1, <2>3 DEF TypeOK, CreationsInv, Track, Register, Reach, processVars
  <2> QED BY <1>4, <2>1, <2>2, <2>3 DEF Create
<1> QED BY <1>2, <1>3, <1>4, CreationGoesOn

LEMMA EntriesStep == ASSUME IInv, [Next]_vars PROVE EntriesInv'
<1>1. TypeOK /\ TypeOK' /\ CreationsInv /\ EntriesInv
  BY TypeStep DEF IInv
<1>2. ASSUME NEW m \in Creation, NEW c \in entries'[m]
      PROVE  Past(c)' /\ process'[c] # "none" /\ held'[c] = m
  <2>1. c \in Creation
    BY <1>1, <1>2 DEF TypeOK
  <2>2. CASE c \in entries[m]
    <3>1. Past(c) /\ process[c] # "none" /\ held[c] = m
      BY <1>1, <2>2 DEF EntriesInv
    <3> QED BY <2>1, <3>1, CreationGoesOn, ProcessGoesOn DEF Past
  <2>3. CASE Track(c) /\ held[c] = m
    BY <1>1, <2>1, <2>3 DEF TypeOK, CreationsInv, Track, Reach, Past
  <2> QED BY <1>2, <2>1, <2>2, <2>3, MapsGrow
<1>3. ASSUME NEW x \in Cleaner, NEW c \in doomed'[x] PROVE Added(c)'
  <2>1. c \in Creation
    BY <1>1, <1>3 DEF TypeOK
  <2>2. Added(c)
    <3>1. CASE c \in doomed[x]
      BY <1>1, <3>1 DEF EntriesInv
    <3>2. CASE \E m \in Creation : c \in entries[m]
      BY <1>1, <3>2, ConstantsAssumption DEF EntriesInv, Added, ConstantsAssumption
    <3>3. ASSUME NEW y \in Cleaner, TakeMap(y)
          PROVE  c \in doomed[x] \/ \E m \in Creation : c \in entries[m]
      BY <1>1, <1>3, <3>3 DEF TypeOK, TakeMap
    <3>4. ASSUME NEW y \in Cleaner, Kill(y) PROVE c \in doomed[x]
      BY <1>1, <1>3, <3>4 DEF TypeOK, Kill
    <3>5. (\E y \in Cleaner : TakeMap(y) \/ Kill(y)) \/ doomed' = doomed
      BY <1>1, StepCases DEF RequestNode, Create, StartContainer, StartProcess, FindMap, Track,
         Register, BeginCleanup, DeleteSessionNamespace, BeginShutdown, Stop, Elsewhere, processVars
    <3> QED BY <1>3, <3>1, <3>2, <3>3, <3>4, <3>5
  <2> QED BY <2>1, <2>2, AddedStays
<1> QED BY <1>2, <1>3 DEF EntriesInv

(* TryAdd leaves the id of the process in the map in any case. *)
LEMMA AddedStep == ASSUME IInv, [Next]_vars PROVE AddedInv'
<1> SUFFICES ASSUME NEW c \in Creation, Past(c)', process'[c] # "none", ~inContainer'
             PROVE  held'[c] # None /\ \E e \in entries'[held'[c]] : node'[e] = node'[c]
  BY DEF AddedInv, Started, Past
<1>1. /\ TypeOK /\ AddedInv /\ CreationsInv /\ EntriesInv /\ ~inContainer
      /\ SessionOf[c] \in Session /\ c \in Request /\ None \notin Creation
  BY ProcessGoesOn, ConstantsAssumption DEF IInv, ConstantsAssumption, Request
<1>2. CASE Track(c)
  <2>1. /\ held[c] \in Creation /\ held' = held /\ node' = node
        /\ entries' = [entries EXCEPT ![held[c]] =
                         IF \E e \in @ : node[e] = node[c] THEN @ ELSE @ \cup {c}]
    BY <1>1, <1>2 DEF TypeOK, CreationsInv, Track
  <2> QED BY <1>1, <2>1 DEF TypeOK
<1>3. CASE Past(c) /\ process[c] # "none"
  <2>1. PICK e \in entries[held[c]] : held[c] # None /\ node[e] = node[c]
    BY <1>1, <1>3 DEF AddedInv, Started, Past
  <2>2. held[c] \in Creation /\ e \in Creation /\ at[e] # "idle" /\ at[c] # "idle"
    BY <1>1, <1>3, <2>1 DEF TypeOK, EntriesInv, Past
  <2>3. node'[e] = node[e] /\ node'[c] = node[c] /\ held'[c] = held[c]
    BY <1>3, <2>2, CreationGoesOn DEF Past
  <2>4. e \in entries'[held[c]]
    BY <2>1, <2>2, MapsGrow
  <2> QED BY <2>1, <2>3, <2>4
<1>4. CASE Past(c) /\ process[c] = "none"
  <2>1. \A x \in Cleaner : c \notin doomed[x]
    BY <1>1, <1>4 DEF TypeOK, EntriesInv, Added
  <2>2. ASSUME NEW x \in Cleaner, Kill(x) PROVE process'[c] = process[c]
    BY <1>1, <2>1, <2>2 DEF TypeOK, Kill
  <2>3. ASSUME NEW e \in Creation, Create(e) PROVE process'[c] = process[c]
    BY <1>1, <1>4, <2>3 DEF TypeOK, Create, StartContainer, StartProcess, FindMap, Track, Register,
       processVars, Past
  <2>4. (\E x \in Cleaner : Kill(x)) \/ (\E e \in Creation : Create(e)) \/ process' = process
    BY <1>1, StepCases DEF RequestNode, BeginCleanup, DeleteSessionNamespace, TakeMap,
       BeginShutdown, Stop, Elsewhere, processVars
  <2> QED BY <1>4, <2>2, <2>3, <2>4
<1>5. CASE ~Past(c) /\ ~Track(c)
  <2>1. at'[c] # at[c]
    BY <1>5 DEF Past
  <2>2. RequestNode(c) \/ StartProcess(c)
    BY <1>1, <1>5, <2>1, CreationGoesOn DEF TypeOK, Create, StartContainer, FindMap, Register, Reach,
       Past
  <2>3. at[c] \in {"idle", "named"} /\ process' = process
    BY <1>1, <2>2 DEF TypeOK, RequestNode, Begins, StartProcess, Reach, Past, processVars
  <2> QED BY <1>1, <2>3 DEF CreationsInv
<1> QED BY <1>2, <1>3, <1>4, <1>5

-----------------------------------------------------------------------------
(* Cleanups.                                                                *)

LEMMA CleanersStep == ASSUME IInv, [Next]_vars PROVE CleanersInv'
<1>1. /\ TypeOK /\ CleanersInv /\ Creation \cap Cleanup = {} /\ Cleanup \subseteq Request
      /\ Creation \subseteq Request /\ Shutdown \notin Cleanup
      /\ Cleanup \subseteq Cleaner /\ Shutdown \in Cleaner
  BY ConstantsAssumption DEF IInv, ConstantsAssumption, Cleaner, Request
<1> DEFINE Keeps == /\ \A d \in Cleanup : at'[d] # "begun" => Killed(d)'
                    /\ master' # "stopping" => Killed(Shutdown)'
<1>2. ASSUME NEW c \in Creation, RequestNode(c) \/ Create(c) PROVE Keeps
  <2>1. UNCHANGED <<master, maps, doomed>>
    BY <1>2 DEF RequestNode, Create, StartContainer, StartProcess, FindMap, Track, Register,
       processVars
  <2>2. \A d \in Cleanup : at'[d] = at[d]
    BY <1>1, <1>2 DEF TypeOK, RequestNode, Create, StartContainer, StartProcess, FindMap, Track,
       Register, Reach
  <2> QED BY <1>1, <2>1, <2>2 DEF CleanersInv, Killed
<1>3. ASSUME NEW d \in Cleanup, BeginCleanup(d) PROVE Keeps
  BY <1>1, <1>3 DEF TypeOK, CleanersInv, Killed, BeginCleanup, TakeMaps, Reach
<1>4. ASSUME NEW d \in Cleanup, DeleteSessionNamespace(d) PROVE Keeps
  <2>1. UNCHANGED <<master, maps, doomed>> /\ Killed(d)
    BY <1>4 DEF DeleteSessionNamespace, processVars
  <2>2. \A e \in Cleanup : e # d => at'[e] = at[e]
    BY <1>1, <1>4 DEF TypeOK, DeleteSessionNamespace, Reach
  <2> QED BY <1>1, <2>1, <2>2 DEF CleanersInv, Killed
<1>5. ASSUME NEW x \in Cleaner, TakeMap(x) \/ Kill(x) PROVE Keeps
  <2>1. ~Killed(x) /\ UNCHANGED <<master, at>>
    BY <1>5 DEF TakeMap, Kill, Killed, requestVars
  <2>2. \A y \in Cleaner : y # x => maps'[y] = maps[y] /\ doomed'[y] = doomed[y]
    BY <1>1, <1>5 DEF TypeOK, TakeMap, Kill
  <2> QED BY <1>1, <2>1, <2>2 DEF CleanersInv, Killed
<1>6. ASSUME BeginShutdown PROVE Keeps
  BY <1>1, <1>6 DEF TypeOK, CleanersInv, Killed, BeginShutdown, TakeMaps
<1>7. ASSUME Stop \/ Elsewhere PROVE Keeps
  BY <1>1, <1>7 DEF CleanersInv, Killed, Stop, Elsewhere, processVars
<1> HIDE DEF Keeps
<1>8. Keeps
  BY <1>1, <1>2, <1>3, <1>4, <1>5, <1>6, <1>7, StepCases
<1> QED BY <1>8 DEF Keeps, CleanersInv

(* A session gets another map only once a cleanup has taken the one it had. *)
LEMMA MapsTaken ==
  ASSUME IInv, [Next]_vars, NEW s \in Session, current[s] # None, current'[s] # current[s]
  PROVE  \E d \in Cleanup : BeginCleanup(d) /\ SessionOf[d] = s
<1>1. TypeOK
  BY DEF IInv
<1>2. ASSUME NEW c \in Creation, RequestNode(c) \/ Create(c) PROVE FALSE
  BY <1>1, <1>2 DEF TypeOK, RequestNode, Create, StartContainer, StartProcess, FindMap, Track,
     Register, processVars
<1>3. ASSUME NEW d \in Cleanup, BeginCleanup(d) PROVE SessionOf[d] = s
  BY <1>1, <1>3 DEF TypeOK, BeginCleanup
<1> QED BY <1>1, <1>2, <1>3, StepCases DEF DeleteSessionNamespace, TakeMap, Kill, BeginShutdown,
        Stop, Elsewhere, processVars

LEMMA HoldingStep == ASSUME IInv, [Next]_vars PROVE HoldingInv'
<1> SUFFICES ASSUME NEW c \in Creation, at'[c] = "holding", c \notin overlapped'
             PROVE  current'[SessionOf[c]] = held'[c]
  BY DEF HoldingInv
<1>1. /\ TypeOK /\ CreationsInv /\ HoldingInv /\ c \in Request /\ SessionOf[c] \in Session
  BY ConstantsAssumption DEF IInv, ConstantsAssumption, Request
<1>2. CASE at[c] = "holding"
  <2>1. current[SessionOf[c]] = held[c] /\ held[c] # None /\ held'[c] = held[c]
    BY <1>1, <1>2, MapsGrow, CreationGoesOn DEF HoldingInv, CreationsInv
  <2>2. ASSUME NEW d \in Cleanup, BeginCleanup(d) PROVE SessionOf[d] # SessionOf[c]
    BY <1>2, <2>2 DEF BeginCleanup, InFlight
  <2> QED BY <1>1, <2>1, <2>2, MapsTaken
<1>3. CASE at[c] # "holding"
  <2>1. FindMap(c)
    BY <1>1, <1>3, CreationGoesOn DEF TypeOK, RequestNode, Create, StartContainer, StartProcess,
       Track, Register, Reach
  <2> QED BY <1>1, <2>1 DEF TypeOK, FindMap
<1> QED BY <1>2, <1>3

(* What is in the map of its session stays there, unless a cleanup takes the map. *)
LEMMA KeptStep == ASSUME IInv, [Next]_vars PROVE KeptInv'
<1> SUFFICES ASSUME NEW c \in Creation, Kept(c)', process'[c] = "running"
             PROVE  current'[SessionOf[c]] = held'[c] \/ \E d \in Cleanup : Doomed(d, c)'
  BY DEF KeptInv
<1>1. /\ TypeOK /\ TypeOK' /\ CreationsInv /\ HoldingInv /\ KeptInv /\ EntriesInv
      /\ c \in Request /\ SessionOf[c] \in Session /\ Cleanup \subseteq Cleaner
  BY ConstantsAssumption, TypeStep DEF IInv, ConstantsAssumption, Request, Cleaner
<1>2. CASE Track(c)
  BY <1>1, <1>2 DEF TypeOK, CreationsInv, HoldingInv, Track, Kept, historyVars
<1>3. CASE ~Track(c)
  <2>1. held'[c] \in Creation /\ c \in entries[held'[c]]
    BY <1>1, <1>3, MapsGrow DEF TypeOK, Kept, Added
  <2>2. held[c] = held'[c] /\ Kept(c)
    BY <1>1, <2>1, MapsGrow DEF EntriesInv, Kept, Added
  <2>3. process[c] = "running"
    BY <2>2, AddedStays DEF Kept
  <2>4. CASE \E d \in Cleanup : Doomed(d, c)
    BY <1>1, <2>4, DoomedStays
  <2>5. CASE current[SessionOf[c]] = held[c] /\ current'[SessionOf[c]] # held[c]
    <3>1. PICK d \in Cleanup : BeginCleanup(d) /\ SessionOf[d] = SessionOf[c]
      BY <1>1, <2>2, <2>5, MapsTaken DEF Kept, Added
    <3>2. held[c] \in maps'[d] /\ entries' = entries
      BY <1>1, <2>2, <2>5, <3>1 DEF TypeOK, BeginCleanup, TakeMaps, Kept, Added
    <3> QED BY <2>2, <3>2 DEF Doomed, Kept, Added
  <2> QED BY <1>1, <2>2, <2>3, <2>4, <2>5 DEF KeptInv
<1> QED BY <1>2, <1>3

(* A cleaner begins with every process of its sessions that can be found. *)
LEMMA BeforeStep == ASSUME IInv, [Next]_vars PROVE BeforeInv'
<1> DEFINE Found(x, c) == \E y \in Cleanup \cup {x} : Doomed(y, c)'
<1> SUFFICES ASSUME NEW x \in Cleaner, NEW c \in before'[x]
             PROVE  /\ (c \in Started(Session))'
                    /\ Kept(c)' /\ process'[c] = "running" => Found(x, c)
  BY DEF BeforeInv
<1>1. /\ TypeOK /\ TypeOK' /\ BeforeInv /\ KeptInv /\ EntriesInv /\ Cleanup \subseteq Cleaner
      /\ SessionOf \in [Request -> Session] /\ Creation \cup Cleanup \subseteq Request
      /\ Shutdown \in Cleaner /\ Shutdown \notin Cleanup
  BY ConstantsAssumption, TypeStep DEF IInv, ConstantsAssumption, Request, Cleaner
<1>2. c \in Creation /\ SessionOf[c] \in Session
  BY <1>1 DEF TypeOK
<1>3. c \in Started(Session) => (c \in Started(Session))'
  BY <1>2, CreationGoesOn, ProcessGoesOn DEF Started, Past
<1>4. ASSUME Past(c), Kept(c)', process'[c] = "running"
      PROVE  Kept(c) /\ process[c] = "running" /\ held'[c] = held[c]
  <2>1. held'[c] = held[c] /\ ~Track(c) /\ process[c] = "running"
    BY <1>2, <1>4, CreationGoesOn, ProcessGoesOn DEF Past, Track
  <2> QED BY <1>1, <1>2, <1>4, <2>1, MapsGrow DEF TypeOK, Kept, Added
<1>5. ASSUME NEW y \in Cleaner, Doomed(y, c), process'[c] = "running" PROVE Doomed(y, c)'
  BY <1>2, <1>5, DoomedStays
<1>6. CASE before'[x] = before[x]
  <2>1. c \in Started(Session) /\ Past(c)
    BY <1>1, <1>6 DEF BeforeInv, Started, Past
  <2>2. ASSUME Kept(c)', process'[c] = "running" PROVE Found(x, c)
    <3>1. PICK y \in Cleanup \cup {x} : Doomed(y, c)
      BY <1>1, <1>4, <1>6, <2>1, <2>2 DEF BeforeInv
    <3> QED BY <1>1, <1>5, <2>2, <3>1
  <2> QED BY <1>3, <2>1, <2>2
<1>7. ASSUME NEW S \in SUBSET Session, before'[x] = Started(S),
             maps'[x] = {current[s] : s \in S} \ {None}, entries' = entries
      PROVE  /\ (c \in Started(Session))'
             /\ Kept(c)' /\ process'[c] = "running" => Found(x, c)
  <2>1. c \in Started(Session) /\ Past(c) /\ SessionOf[c] \in S
    BY <1>2, <1>7 DEF Started, Past
  <2>2. ASSUME Kept(c)', process'[c] = "running" PROVE Found(x, c)
    <3>1. Kept(c) /\ process[c] = "running"
      BY <1>4, <2>1, <2>2
    <3>2. CASE \E d \in Cleanup : Doomed(d, c)
      BY <1>1, <1>5, <2>2, <3>2
    <3>3. CASE current[SessionOf[c]] = held[c]
      <4>1. held[c] \in maps'[x] /\ c \in entries'[held[c]]
        BY <1>7, <2>1, <3>1, <3>3 DEF Kept, Added
      <4> QED BY <4>1 DEF Doomed
    <3> QED BY <1>1, <1>2, <3>1, <3>2, <3>3 DEF KeptInv
  <2> QED BY <1>3, <2>1, <2>2
<1>8. ASSUME NEW d \in Cleanup, BeginCleanup(d), x = d
      PROVE  /\ {SessionOf[d]} \in SUBSET Session /\ before'[x] = Started({SessionOf[d]})
             /\ maps'[x] = {current[s] : s \in {SessionOf[d]}} \ {None} /\ entries' = entries
  BY <1>1, <1>8 DEF TypeOK, BeginCleanup, TakeMaps
<1>9. ASSUME BeginShutdown, x = Shutdown
      PROVE  /\ before'[x] = Started(Session)
             /\ maps'[x] = {current[s] : s \in Session} \ {None} /\ entries' = entries
  BY <1>1, <1>9 DEF TypeOK, BeginShutdown, TakeMaps
<1>10. ASSUME NEW d \in Cleanup, BeginCleanup(d), x # d PROVE before'[x] = before[x]
  BY <1>1, <1>10 DEF TypeOK, BeginCleanup, TakeMaps
<1>11. ASSUME BeginShutdown, x # Shutdown PROVE before'[x] = before[x]
  BY <1>1, <1>11 DEF TypeOK, BeginShutdown, TakeMaps
<1>12. \/ \E d \in Cleanup : BeginCleanup(d)
       \/ BeginShutdown
       \/ before' = before
  BY <1>1, StepCases DEF RequestNode, Create, StartContainer, StartProcess, FindMap, Track,
     Register, DeleteSessionNamespace, TakeMap, Kill, Stop, Elsewhere, historyVars
<1> HIDE DEF Found
<1>13. CASE BeginShutdown /\ x = Shutdown
  BY <1>7, <1>9, <1>13
<1>14. CASE \E d \in Cleanup : BeginCleanup(d) /\ x = d
  <2>1. PICK d \in Cleanup : BeginCleanup(d) /\ x = d
    BY <1>14
  <2> QED BY <1>7, <1>8, <2>1
<1> QED BY <1>6, <1>10, <1>11, <1>12, <1>13, <1>14

-----------------------------------------------------------------------------

LEMMA StepIInv == ASSUME IInv, [Next]_vars PROVE IInv'
BY CountStep, TypeStep, CreationsStep, EntriesStep, AddedStep, CleanersStep, HoldingStep, KeptStep,
   BeforeStep DEF IInv

LEMMA Inductive == Spec => []IInv
BY InitIInv, StepIInv, PTL DEF Spec

(* A process that no other shares its id with is the one that is in the map. *)
LEMMA ExpectedKept ==
  ASSUME IInv, NEW c \in Expected(Started(Session))
  PROVE  Kept(c)
<1>1. /\ TypeOK /\ AddedInv /\ c \in Started(Session) /\ ~inContainer /\ c \notin overlapped
      /\ c \in Creation
  BY DEF IInv, Expected, Started
<1>2. PICK e \in entries[held[c]] : held[c] # None /\ node[e] = node[c]
  BY <1>1 DEF AddedInv
<1>3. c \in entries[held[c]]
  BY <1>1, <1>2 DEF Expected, Unique, TypeOK
<1> QED BY <1>1, <1>2, <1>3 DEF Kept, Added

(* The variables keep their types, and what ProcessesTracked says of running processes: one
   that no cleanup overlapped, that TryAdd could add and that nothing failed to kill is in the
   map of its session, or a cleanup is about to kill it (UpAndDown.Up,
   CleanupSessionProcesses). *)
THEOREM SessionsSafe == Spec => []SessionsInv
<1>1. ASSUME IInv PROVE SessionsInv
  <2>1. TypeOK /\ KeptInv
    BY <1>1 DEF IInv
  <2>2. ASSUME NEW c \in Expected(Started(Session)), process[c] = "running"
        PROVE  \/ current[SessionOf[c]] # None /\ c \in entries[current[SessionOf[c]]]
               \/ \E d \in Cleanup : Doomed(d, c)
    <3>1. Kept(c) /\ c \in Creation
      BY <1>1, ExpectedKept DEF Expected, Started
    <3> QED BY <2>1, <2>2, <3>1 DEF KeptInv, Kept, Added
  <2> QED BY <2>1, <2>2 DEF SessionsInv, ProcessesTracked
<1> QED BY <1>1, Inductive, PTL

(* A process of this kind that was past TryAdd when a cleanup of its session, or the end of the
   master, began does not outlive it, but for what another cleanup is still to kill and what
   could not be killed (CleanupSession, CleanupAllProcesses). *)
THEOREM CleanupsAreComplete == Spec => []CleanupsComplete
<1>1. ASSUME IInv PROVE CleanupsComplete
  <2>1. BeforeInv /\ CleanersInv
    BY <1>1 DEF IInv
  <2>2. ASSUME NEW x \in Cleaner, Finished(x), NEW c \in Expected(before[x]),
               process[c] = "running"
        PROVE  \E y \in Cleanup \ {x} : Doomed(y, c)
    <3>1. Kept(c)
      <4>1. c \in Expected(Started(Session))
        BY <2>1, <2>2 DEF BeforeInv, Expected
      <4> QED BY <1>1, <4>1, ExpectedKept
    <3>2. PICK y \in Cleanup \cup {x} : Doomed(y, c)
      BY <2>1, <2>2, <3>1 DEF BeforeInv, Expected
    <3>3. Killed(x)
      BY <2>1, <2>2 DEF CleanersInv, Finished, Cleaner
    <3>4. ~Doomed(x, c)
      BY <3>3 DEF Killed, Doomed
    <3> QED BY <3>2, <3>4
  <2> QED BY <2>2 DEF CleanupsComplete
<1> QED BY <1>1, Inductive, PTL
=============================================================================
