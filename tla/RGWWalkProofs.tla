---------------------------- MODULE RGWWalkProofs ---------------------------
(***************************************************************************)
(* Proofs about RGWWalk for any Updates on any collectors and realms, and  *)
(* any items and metrics: its type invariant, that labels are right where  *)
(* an object is not shared, and that what is served is whole.              *)
(***************************************************************************)
EXTENDS RGWWalk, FiniteSetTheorems, TLAPS

\* What TypeOK leaves open: that these are functions on the Updates and on the
\* collectors.
FunctionsInv ==
    /\ quota \in [Updates -> Nat] /\ metric \in [Updates -> Nat]
    /\ fetched \in [Updates -> SUBSET (Items \X Nat)]
    /\ served \in [Collectors -> Nat]

InItem == {"describe", "emit"}
AtEnd == {"returned", "ended"}
Active == {"list", "item"} \cup InItem

\* Two Updates that are in progress on one object have met.
MeetingInv ==
    \A u, v \in Updates :
       u # v /\ Collector[u] = Collector[v] /\ pc[u] \in Active /\ pc[v] \in Active
          => u \in mixed /\ v \in mixed

\* An Update about to emit has a metric left to emit, and by then a descriptor
\* is in the field: its own, unless it has met another.
CurrentInv ==
    \A u \in Updates : pc[u] = "emit" =>
       /\ metric[u] <= Share(u, quota[u])
       /\ current[Collector[u]] # <<>>
       /\ u \notin mixed =>
             \A i \in item[u] : current[Collector[u]] = Meant(u, i)

\* Metric n of item i has been sent.
SentFor(u, i, n) == \E m \in sent[u] : m.of.item = i /\ m.of.metric = n

\* Where a walk is tells what it has an item for, and what it has still to visit.
Place(u) ==
    /\ pc[u] \in {"disabled", "waiting", "list"} =>
          todo[u] = {} /\ failed[u] = {} /\ fetched[u] = {}
    /\ pc[u] \in {"disabled", "waiting", "list", "item"} => item[u] = {}
    /\ pc[u] \in InItem => \E i \in Items : item[u] = {i}
    /\ pc[u] \in AtEnd => item[u] # {} \/ todo[u] = {}
    /\ pc[u] \in AtEnd /\ ~errs[u] => item[u] = {}

\* Nothing that was listed is forgotten, and what could not be fetched is an error.
Listed(u) ==
    /\ listed[u] = todo[u] \cup failed[u] \cup {f[1] : f \in fetched[u]}
    /\ failed[u] # {} => errs[u]

\* What has been fetched has been sent up to the current metric, and an item whose
\* limit is missing is never left behind.
Fetched(u) ==
    \A f \in fetched[u] :
       /\ \A n \in 1..Total(u) : n <= Share(u, f[2]) =>
             \/ SentFor(u, f[1], n)
             \/ f[1] \in item[u] /\ f[2] = quota[u] /\ metric[u] <= n
       /\ \/ f[2] \in {Disabled, Complete(u)}
          \/ f[1] \in item[u] /\ f[2] = quota[u] /\ metric[u] <= f[2]

WalkInv == \A u \in Updates : Place(u) /\ Listed(u) /\ Fetched(u)

\* The Updates whose cycle is served have ended without an error.
ServedInv ==
    \A k \in Collectors : \A u \in Calls(k, served[k]) :
       pc[u] = "ended" /\ ~errs[u]

IInv == /\ TypeOK /\ FunctionsInv /\ MeetingInv /\ CurrentInv
        /\ LabelsAreRight /\ WalkInv /\ ServedInv

-----------------------------------------------------------------------------
(* Small facts.                                                            *)

\* How many metrics there are.
LEMMA Numbers ==
    ASSUME NEW u \in Updates
    PROVE  /\ Collector[u] \in Collectors
           /\ UsageMetrics[Collector[u]] \in Nat
           /\ Total(u) \in Nat /\ Complete(u) = Total(u) + 1
           /\ UsageMetrics[Collector[u]] <= Total(u)
           /\ Quota(u) \subseteq Nat
           /\ \A q : /\ Share(u, q) \in Nat /\ Share(u, q) <= Total(u)
                     /\ q # Disabled => Share(u, q) = Total(u)
<1>1. Collector[u] \in Collectors
  BY DEF Collectors
<1>2. UsageMetrics[Collector[u]] \in Nat /\ QuotaMetrics[Collector[u]] \in Nat
  BY <1>1, RGWWalkAssumption
<1>3. QED
  BY <1>1, <1>2 DEF Total, Complete, Quota, Disabled, Share

\* The descriptor meant for a metric is a descriptor.
LEMMA MeantIsDesc ==
    ASSUME NEW u \in Updates, NEW i \in Items, metric[u] \in 1..Total(u)
    PROVE  Meant(u, i) \in Desc
<1>1. metric[u] \in Metrics
  BY DEF Metrics
<1>2. QED
  BY <1>1 DEF Meant, Desc

\* A step of one Update leaves what belongs to the others.
LEMMA Frame ==
    ASSUME TypeOK, FunctionsInv, NEW u \in Updates, UpdateStep(u),
           NEW v \in Updates, v # u
    PROVE  /\ pc'[v] = pc[v] /\ todo'[v] = todo[v] /\ item'[v] = item[v]
           /\ quota'[v] = quota[v] /\ metric'[v] = metric[v]
           /\ errs'[v] = errs[v] /\ sent'[v] = sent[v]
           /\ listed'[v] = listed[v] /\ fetched'[v] = fetched[v]
           /\ failed'[v] = failed[v]
<1>1. UNCHANGED <<pc, todo, item, quota, metric, errs, sent, listed, fetched, failed>>
      \/ List(u) \/ NextItem(u) \/ NilLimit(u) \/ Return(u)
      \/ (\E i \in todo[u] : Fetch(u, i))
      \/ (\E i \in item[u] : Describe(u, i) \/ Emit(u, i))
  BY DEF UpdateStep
<1>. USE DEF TypeOK, FunctionsInv, Goes, Errs, itemVars, historyVars
<1>2. CASE List(u)
  BY <1>2 DEF List
<1>3. CASE NextItem(u) \/ NilLimit(u) \/ Return(u)
  BY <1>3 DEF NextItem, NilLimit, Return, Recovered
<1>4. CASE \E i \in todo[u] : Fetch(u, i)
  BY <1>4 DEF Fetch, CannotFetch
<1>5. CASE \E i \in item[u] : Describe(u, i)
  BY <1>5 DEF Describe
<1>6. CASE \E i \in item[u] : Emit(u, i)
  BY <1>6 DEF Emit
<1>7. QED
  BY <1>2, <1>3, <1>4, <1>5, <1>6 DEF UpdateStep

\* A step of an Update leaves the cycles.
LEMMA CyclesFrame ==
    ASSUME NEW u \in Updates, UpdateStep(u)
    PROVE  UNCHANGED <<latest, served, mixed>>
BY DEF UpdateStep, List, NextItem, NilLimit, Return, Fetch, Describe, Emit, cycleVars

\* A cycle that begins or ends leaves the walks, but for where they are.
LEMMA WalksFrame ==
    ASSUME NEW k, NEW n, Begin(k) \/ Finish(k, n)
    PROVE  UNCHANGED <<current, todo, item, quota, metric, errs, sent, listed,
                       fetched, failed>>
BY DEF Begin, Finish, itemVars, historyVars

\* A step that is not one of u leaves its walk where it is, but for its cycle.
Still(u) ==
    /\ todo'[u] = todo[u] /\ item'[u] = item[u] /\ quota'[u] = quota[u]
    /\ metric'[u] = metric[u] /\ errs'[u] = errs[u] /\ sent'[u] = sent[u]
    /\ listed'[u] = listed[u] /\ fetched'[u] = fetched[u]
    /\ failed'[u] = failed[u]
    /\ \/ pc'[u] = pc[u]
       \/ pc[u] = "waiting" /\ pc'[u] = "list"
       \/ pc[u] = "returned" /\ pc'[u] = "ended"

\* Whatever happens, it is a step of u or leaves u alone.
LEMMA OwnOrStill ==
    ASSUME TypeOK, FunctionsInv, [Next]_vars, NEW u \in Updates
    PROVE  UpdateStep(u) \/ Still(u)
<1>1. CASE \E k \in Collectors : Begin(k)
  <2>1. PICK k \in Collectors : Begin(k)
    BY <1>1
  <2>2. pc'[u] = pc[u] \/ (pc[u] = "waiting" /\ pc'[u] = "list")
    BY <2>1 DEF Begin
  <2>3. QED
    BY <2>1, <2>2, WalksFrame DEF Still
<1>2. CASE \E k \in Collectors, v \in Updates : Finish(k, Cycle[v])
  <2>1. PICK k \in Collectors, v \in Updates : Finish(k, Cycle[v])
    BY <1>2
  <2>2. pc'[u] = pc[u] \/ (pc[u] = "returned" /\ pc'[u] = "ended")
    BY <2>1 DEF Finish
  <2>3. QED
    BY <2>1, <2>2, WalksFrame DEF Still
<1>3. CASE \E v \in Updates : v # u /\ UpdateStep(v)
  BY <1>3, Frame DEF Still
<1>4. CASE UNCHANGED vars
  BY <1>4 DEF vars, itemVars, historyVars, Still
<1>5. QED
  BY <1>1, <1>2, <1>3, <1>4 DEF Next

-----------------------------------------------------------------------------
(* The invariant.                                                          *)

\* At first no cycle has begun, and nothing is listed, fetched or sent.
LEMMA InitInv == Init => IInv
<1>. SUFFICES ASSUME Init PROVE IInv
  OBVIOUS
<1>. USE DEF Init
<1>1. FunctionsInv
  BY DEF FunctionsInv, Disabled
<1>2. TypeOK
  <2>1. \A u \in Updates : quota[u] \in Quota(u) /\ metric[u] \in 1..Complete(u)
    BY Numbers DEF Quota
  <2>2. \A k \in Collectors : served[k] \in 0..latest[k]
    OBVIOUS
  <2>3. current \in [Collectors -> Desc \cup {<<>>}]
    OBVIOUS
  <2>4. QED
    BY <2>1, <2>2, <2>3 DEF TypeOK
<1>3. \A u \in Updates : pc[u] \in {"disabled", "waiting"}
  OBVIOUS
<1>4. MeetingInv /\ CurrentInv
  BY <1>3 DEF MeetingInv, CurrentInv, Active, InItem
<1>5. WalkInv /\ LabelsAreRight
  BY <1>3 DEF WalkInv, Place, Listed, Fetched, InItem, AtEnd, LabelsAreRight
<1>6. ServedInv
  BY RGWWalkAssumption DEF ServedInv, Calls
<1>7. QED
  BY <1>1, <1>2, <1>4, <1>5, <1>6 DEF IInv

\* No step leaves the types: the metric to emit next is one the item has, and
\* what is sent is described.
LEMMA TypeStep == IInv /\ [Next]_vars => TypeOK' /\ FunctionsInv'
<1>. SUFFICES ASSUME IInv, [Next]_vars PROVE TypeOK' /\ FunctionsInv'
  OBVIOUS
<1>. USE DEF FunctionsInv, Goes, Errs, itemVars, cycleVars, historyVars
<1>a. TypeOK /\ FunctionsInv
  BY DEF IInv
<1>1. CASE \E k \in Collectors : Begin(k)
  <2>1. PICK k \in Collectors : Begin(k)
    BY <1>1
  <2>2. latest' \in [Collectors -> Nat] /\ \A c \in Collectors : latest[c] <= latest'[c]
    BY <1>a, <2>1 DEF Begin, TypeOK
  <2>3. \A c \in Collectors : served[c] \in 0..latest'[c]
    BY <1>a, <2>2 DEF TypeOK
  <2>4. mixed' \in SUBSET Updates
    BY <1>a, <2>1 DEF Begin, TypeOK, Running, Calls
  <2>5. pc' \in [Updates -> {"disabled", "waiting", "list", "item",
                             "describe", "emit", "returned", "ended"}]
    BY <1>a, <2>1 DEF Begin, TypeOK
  <2>6. QED
    BY <1>a, <2>1, <2>2, <2>3, <2>4, <2>5 DEF Begin, TypeOK
<1>2. CASE \E k \in Collectors, u \in Updates : Collector[u] = k /\ Finish(k, Cycle[u])
  <2>1. PICK k \in Collectors, u \in Updates : Finish(k, Cycle[u])
    BY <1>2
  <2>2. /\ served' \in [Collectors -> Nat]
        /\ \A c \in Collectors : served'[c] \in 0..latest[c]
    BY <1>a, <2>1, RGWWalkAssumption DEF Finish, MayServe, TypeOK
  <2>3. pc' \in [Updates -> {"disabled", "waiting", "list", "item",
                             "describe", "emit", "returned", "ended"}]
    BY <1>a, <2>1 DEF Finish, TypeOK
  <2>4. QED
    BY <1>a, <2>1, <2>2, <2>3 DEF Finish, TypeOK
<1>3. CASE \E u \in Updates : List(u)
  <2>1. PICK u \in Updates : List(u)
    BY <1>3
  <2>2. todo' \in [Updates -> SUBSET Items] /\ listed' \in [Updates -> SUBSET Items]
    <3>1. todo \in [Updates -> SUBSET Items] /\ listed \in [Updates -> SUBSET Items]
      BY <1>a DEF TypeOK
    <3>2. CASE UNCHANGED <<todo, listed>>
      BY <3>1, <3>2
    <3>3. CASE \E found \in SUBSET Items : /\ todo' = [todo EXCEPT ![u] = found]
                                           /\ listed' = [listed EXCEPT ![u] = found]
      BY <3>1, <3>3
    <3>4. QED
      BY <2>1, <3>2, <3>3 DEF List
  <2>3. pc' \in [Updates -> {"disabled", "waiting", "list", "item",
                             "describe", "emit", "returned", "ended"}]
          /\ errs' \in [Updates -> BOOLEAN]
    BY <1>a, <2>1 DEF List, TypeOK
  <2>4. UNCHANGED <<current, item, quota, metric, sent, latest, served, mixed,
                    fetched, failed>>
    BY <2>1 DEF List
  <2>5. QED
    BY <1>a, <2>2, <2>3, <2>4 DEF TypeOK
<1>4. CASE \E u \in Updates : \E i \in todo[u] : Fetch(u, i)
  <2>1. PICK u \in Updates, i \in Items : i \in todo[u] /\ Fetch(u, i)
    BY <1>a, <1>4 DEF TypeOK
  <2>2. i \in Items /\ Quota(u) \subseteq Nat /\ 1 \in 1..Complete(u)
    BY <1>a, Numbers DEF TypeOK
  <2>3. pc' \in [Updates -> {"disabled", "waiting", "list", "item",
                             "describe", "emit", "returned", "ended"}]
           /\ errs' \in [Updates -> BOOLEAN]
    BY <1>a, <2>1 DEF Fetch, CannotFetch, TypeOK
  <2>4. /\ todo' \in [Updates -> SUBSET Items]
        /\ item' \in [Updates -> SUBSET Items]
        /\ failed' \in [Updates -> SUBSET Items]
    <3>1. /\ todo \in [Updates -> SUBSET Items]
          /\ item \in [Updates -> SUBSET Items]
          /\ failed \in [Updates -> SUBSET Items]
      BY <1>a DEF TypeOK
    <3>2. todo' \in [Updates -> SUBSET Items]
      BY <2>1, <3>1 DEF Fetch
    <3>3. item' \in [Updates -> SUBSET Items]
      BY <2>1, <2>2, <3>1 DEF Fetch
    <3>4. failed' \in [Updates -> SUBSET Items]
      BY <2>1, <2>2, <3>1 DEF Fetch
    <3>5. QED
      BY <3>2, <3>3, <3>4
  <2>5. quota' \in [Updates -> Nat] /\ metric' \in [Updates -> Nat]
    BY <1>a, <2>1, <2>2 DEF Fetch
  <2>6. fetched' \in [Updates -> SUBSET (Items \X Nat)]
    BY <1>a, <2>1, <2>2 DEF Fetch
  <2>7. \A v \in Updates : quota'[v] \in Quota(v) /\ metric'[v] \in 1..Complete(v)
    BY <1>a, <2>1, <2>2 DEF Fetch, TypeOK
  <2>8. \A v \in Updates : fetched'[v] \subseteq Items \X Quota(v)
    <3>1. \A v \in Updates : fetched[v] \subseteq Items \X Quota(v)
      BY <1>a DEF TypeOK
    <3>2. fetched' = fetched
          \/ \E q \in Quota(u) :
                fetched' = [fetched EXCEPT ![u] = @ \cup {<<i, q>>}]
      BY <2>1 DEF Fetch
    <3>3. \A q \in Quota(u) : {<<i, q>>} \subseteq Items \X Quota(u)
      BY <2>2
    <3>4. QED
      BY <1>a, <3>1, <3>2, <3>3
  <2>9. UNCHANGED <<current, sent, latest, served, mixed, listed>>
    BY <2>1 DEF Fetch
  <2>10. QED
    BY <1>a, <2>3, <2>4, <2>5, <2>6, <2>7, <2>8, <2>9 DEF TypeOK
<1>5. CASE \E u \in Updates : \E i \in item[u] : Describe(u, i)
  <2>1. PICK u \in Updates, i \in Items : i \in item[u] /\ Describe(u, i)
    BY <1>a, <1>5 DEF TypeOK
  <2>2. metric[u] \in 1..Total(u)
    BY <1>a, <2>1, Numbers DEF Describe, TypeOK
  <2>3. Meant(u, i) \in Desc
    BY <1>a, <2>2, MeantIsDesc DEF TypeOK
  <2>4. current' \in [Collectors -> Desc \cup {<<>>}]
    BY <1>a, <2>1, <2>3 DEF Describe, Described, TypeOK
  <2>5. QED
    BY <1>a, <2>1, <2>4 DEF Describe, TypeOK
<1>6. CASE \E u \in Updates : \E i \in item[u] : Emit(u, i)
  <2>1. PICK u \in Updates, i \in Items : i \in item[u] /\ Emit(u, i)
    BY <1>a, <1>6 DEF TypeOK
  <2>2. metric[u] <= Share(u, quota[u]) /\ current[Collector[u]] # <<>>
    BY <2>1 DEF IInv, CurrentInv, Emit
  <2>3. metric[u] \in 1..Total(u)
    BY <1>a, <2>2, Numbers DEF TypeOK
  <2>4. Meant(u, i) \in Desc /\ current[Collector[u]] \in Desc
    BY <1>a, <2>2, <2>3, MeantIsDesc, Numbers DEF TypeOK
  <2>5. sent' \in [Updates -> SUBSET [desc : Desc, of : Desc]]
    BY <1>a, <2>1, <2>4 DEF Emit, TypeOK
  <2>6. metric' \in [Updates -> Nat]
          /\ \A v \in Updates : metric'[v] \in 1..Complete(v)
    BY <1>a, <2>1, <2>3, Numbers DEF Emit, TypeOK
  <2>7. QED
    BY <1>a, <2>1, <2>5, <2>6 DEF Emit, TypeOK
<1>7. CASE \E u \in Updates : NextItem(u) \/ NilLimit(u) \/ Return(u)
  BY <1>7, <1>a DEF NextItem, NilLimit, Recovered, Return, TypeOK
<1>8. CASE UNCHANGED vars
  BY <1>8, <1>a DEF vars, TypeOK
<1>9. QED
  BY <1>1, <1>2, <1>3, <1>4, <1>5, <1>6, <1>7, <1>8 DEF Next, UpdateStep

\* A cycle that begins finds the abandoned Updates on its object in progress, and
\* marks them and its own; no Update gets in progress otherwise.
LEMMA MeetingStep == IInv /\ [Next]_vars => MeetingInv'
<1>. SUFFICES ASSUME IInv, [Next]_vars,
                     NEW u \in Updates, NEW v \in Updates,
                     u # v, Collector[u] = Collector[v],
                     pc'[u] \in Active, pc'[v] \in Active
              PROVE  u \in mixed' /\ v \in mixed'
  BY DEF MeetingInv
<1>1. TypeOK /\ FunctionsInv /\ MeetingInv
  BY DEF IInv
<1>2. CASE pc[u] \in Active /\ pc[v] \in Active
  <2>1. u \in mixed /\ v \in mixed
    BY <1>1, <1>2 DEF MeetingInv
  <2>2. mixed \subseteq mixed'
    BY CyclesFrame DEF Next, Begin, Finish, vars, cycleVars
  <2>3. QED
    BY <2>1, <2>2
<1>3. CASE pc[u] \notin Active \/ pc[v] \notin Active
  <2>1. \A w \in Updates : UpdateStep(w) /\ pc'[w] \in Active => pc[w] \in Active
    BY <1>1 DEF UpdateStep, List, NextItem, NilLimit, Return, Fetch, CannotFetch,
                Describe, Emit, Goes, TypeOK, Active, InItem
  <2>2. \A w \in Updates : ~UpdateStep(w)
    BY <1>1, <1>3, <2>1, Frame
  <2>3. ~ \E k \in Collectors, w \in Updates : Finish(k, Cycle[w])
    BY <1>1, <1>3 DEF Finish, Active, InItem, TypeOK
  <2>4. PICK k \in Collectors : Begin(k)
    BY <1>3, <2>2, <2>3 DEF Next, vars
  <2>. DEFINE new == Calls(k, latest[k] + 1)
              together == Running(k) \cup new
  <2>5. pc' = [w \in Updates |-> IF w \in new THEN "list" ELSE pc[w]]
          /\ mixed' = IF Cardinality(together) > 1 THEN mixed \cup together ELSE mixed
    BY <2>4 DEF Begin
  <2>6. Collector[u] = k
    BY <1>3, <2>5 DEF Calls
  <2>7. u \in together /\ v \in together
    BY <2>5, <2>6 DEF Running, Active, InItem, Calls
  <2>8. IsFiniteSet(together)
    BY RGWWalkAssumption, FS_Subset DEF Running, Calls
  <2>9. Cardinality(together) # 0 /\ Cardinality(together) # 1
    BY <2>7, <2>8, FS_EmptySet, FS_Singleton
  <2>10. Cardinality(together) > 1
    <3>1. Cardinality(together) \in Nat
      BY <2>8, FS_CardinalityType
    <3>. HIDE DEF together
    <3>2. QED
      BY <2>9, <3>1
  <2>11. QED
    BY <2>5, <2>7, <2>10
<1>4. QED
  BY <1>2, <1>3

\* Only an Update that has met this one can change its descriptor before it emits.
LEMMA CurrentStep == IInv /\ [Next]_vars => CurrentInv'
<1>. SUFFICES ASSUME IInv, [Next]_vars, NEW u \in Updates, pc'[u] = "emit"
              PROVE  /\ metric'[u] <= Share(u, quota'[u])
                     /\ current'[Collector[u]] # <<>>
                     /\ u \notin mixed' =>
                           \A i \in item'[u] :
                              current'[Collector[u]] = Meant(u, i)'
  BY DEF CurrentInv, Share
<1>1. TypeOK /\ FunctionsInv /\ MeetingInv /\ CurrentInv
  BY DEF IInv
<1>2. Collector[u] \in Collectors /\ current \in [Collectors -> Desc \cup {<<>>}]
  BY <1>1 DEF Collectors, TypeOK
<1>3. mixed \subseteq mixed'
  BY CyclesFrame DEF Next, Begin, Finish, vars, cycleVars
<1>4. CASE Still(u)
  <2>1. pc[u] = "emit"
    BY <1>4 DEF Still
  <2>2. /\ metric[u] <= Share(u, quota[u])
        /\ current[Collector[u]] # <<>>
        /\ u \notin mixed => \A i \in item[u] : current[Collector[u]] = Meant(u, i)
    BY <1>1, <2>1 DEF CurrentInv
  <2>3. \A i : Meant(u, i)' = Meant(u, i)
    BY <1>4 DEF Still, Meant
  <2>4. CASE current' = current
    BY <1>3, <1>4, <2>2, <2>3, <2>4 DEF Still
  <2>5. CASE \E v \in Updates : \E i \in item[v] : Describe(v, i)
    <3>1. PICK v \in Updates, i \in Items : i \in item[v] /\ Describe(v, i)
      BY <1>1, <2>5 DEF TypeOK
    <3>2. v # u
      BY <1>1, <2>1, <3>1 DEF Describe, Goes
    <3>3. CASE Collector[v] = Collector[u]
      <4>1. u \in mixed
        BY <1>1, <2>1, <3>1, <3>2, <3>3
           DEF MeetingInv, Describe, Goes, Active, InItem
      <4>2. current'[Collector[u]] = Meant(v, i)
        BY <1>2, <3>1, <3>3 DEF Describe, Described
      <4>3. Meant(v, i) # <<>>
        <5>1. metric[v] \in 1..Total(v)
          BY <1>1, <3>1, Numbers DEF Describe, TypeOK
        <5>2. DOMAIN Meant(v, i) = {"realm", "item", "metric"}
          BY DEF Meant
        <5>3. QED
          BY <5>2
      <4>4. QED
        BY <1>3, <1>4, <2>2, <4>1, <4>2, <4>3 DEF Still
    <3>4. CASE Collector[v] # Collector[u]
      <4>1. current'[Collector[u]] = current[Collector[u]]
        BY <1>2, <3>1, <3>4 DEF Describe
      <4>2. QED
        BY <1>3, <1>4, <2>2, <2>3, <4>1 DEF Still
    <3>5. QED
      BY <3>3, <3>4
  <2>6. current' = current \/ \E v \in Updates : \E i \in item[v] : Describe(v, i)
    BY DEF Next, Begin, Finish, UpdateStep, List, NextItem, NilLimit, Return,
           Fetch, Emit, vars
  <2>7. QED
    BY <2>4, <2>5, <2>6
<1>5. CASE UpdateStep(u)
  <2>1. PICK i \in item[u] : Describe(u, i)
    BY <1>1, <1>5 DEF UpdateStep, List, NextItem, NilLimit, Return, Fetch,
                      CannotFetch, Emit, Goes, TypeOK
  <2>2. item[u] = {i}
    BY <2>1 DEF IInv, WalkInv, Place, Describe, Goes, InItem
  <2>3. UNCHANGED <<item, quota, metric>> /\ metric[u] <= Share(u, quota[u])
    BY <2>1 DEF Describe, itemVars
  <2>4. current'[Collector[u]] = Meant(u, i) /\ Meant(u, i)' = Meant(u, i)
    BY <1>2, <2>1, <2>3 DEF Describe, Described, Meant
  <2>5. Meant(u, i) # <<>>
    <3>1. DOMAIN Meant(u, i) = {"realm", "item", "metric"}
      BY DEF Meant
    <3>2. QED
      BY <3>1
  <2>6. QED
    BY <2>2, <2>3, <2>4, <2>5
<1>6. QED
  BY <1>1, <1>4, <1>5, OwnOrStill

\* What is sent of the item is what was described, since nothing changed it.
LEMMA LabelsStep == IInv /\ [Next]_vars => LabelsAreRight'
<1>. SUFFICES ASSUME IInv, [Next]_vars,
                     NEW u \in Updates, u \notin mixed', NEW m \in sent'[u]
              PROVE  m.desc = m.of
  BY DEF LabelsAreRight
<1>1. TypeOK /\ FunctionsInv /\ CurrentInv /\ LabelsAreRight
  BY DEF IInv
<1>2. u \notin mixed
  BY CyclesFrame DEF Next, Begin, Finish, vars, cycleVars
<1>3. CASE sent'[u] = sent[u]
  BY <1>1, <1>2, <1>3 DEF LabelsAreRight
<1>4. CASE \E i \in item[u] : Emit(u, i)
  <2>1. PICK i \in item[u] : Emit(u, i)
    BY <1>4
  <2>2. sent'[u] = sent[u] \cup {[desc |-> current[Collector[u]], of |-> Meant(u, i)]}
    BY <1>1, <2>1 DEF Emit, TypeOK
  <2>3. current[Collector[u]] = Meant(u, i)
    BY <1>1, <1>2, <2>1 DEF CurrentInv, Emit, Goes
  <2>4. QED
    BY <1>1, <1>2, <2>2, <2>3 DEF LabelsAreRight
<1>5. sent'[u] = sent[u] \/ \E i \in item[u] : Emit(u, i)
  BY <1>1, OwnOrStill DEF Still, UpdateStep, List, NextItem, NilLimit, Return,
                          Fetch, Describe
<1>6. QED
  BY <1>3, <1>4, <1>5

\* The walk of an Update: it has an item from when it is fetched to when it is done
\* with, and leaves one before only by a panic, which is an error.
LEMMA WalkStep == IInv /\ [Next]_vars => WalkInv'
<1>. SUFFICES ASSUME IInv, [Next]_vars, NEW u \in Updates
              PROVE  (Place(u) /\ Listed(u) /\ Fetched(u))'
  BY DEF WalkInv
<1>1. TypeOK /\ FunctionsInv /\ Place(u) /\ Listed(u) /\ Fetched(u)
  BY DEF IInv, WalkInv
<1>2. /\ DOMAIN pc = Updates /\ DOMAIN sent = Updates
      /\ pc = [v \in Updates |-> pc[v]] /\ sent = [v \in Updates |-> sent[v]]
      /\ errs \in [Updates -> BOOLEAN]
      /\ todo \in [Updates -> SUBSET Items] /\ item \in [Updates -> SUBSET Items]
      /\ failed \in [Updates -> SUBSET Items] /\ listed \in [Updates -> SUBSET Items]
      /\ quota \in [Updates -> Nat] /\ metric \in [Updates -> Nat]
      /\ fetched \in [Updates -> SUBSET (Items \X Nat)]
  <2>1. /\ DOMAIN pc = Updates /\ DOMAIN sent = Updates
        /\ pc = [v \in Updates |-> pc[v]] /\ sent = [v \in Updates |-> sent[v]]
    BY <1>1 DEF TypeOK
  <2>2. /\ errs \in [Updates -> BOOLEAN]
        /\ todo \in [Updates -> SUBSET Items] /\ item \in [Updates -> SUBSET Items]
        /\ failed \in [Updates -> SUBSET Items] /\ listed \in [Updates -> SUBSET Items]
    BY <1>1 DEF TypeOK
  <2>3. QED
    BY <1>1, <2>1, <2>2 DEF FunctionsInv
<1>. USE DEF InItem, AtEnd, Goes, Errs, itemVars, historyVars
<1>3. CASE Still(u)
  <2>1. Place(u)' /\ Listed(u)'
    BY <1>1, <1>3 DEF Still, Place, Listed
  <2>2. Fetched(u)'
    BY <1>1, <1>3 DEF Still, Fetched, SentFor, Share, Disabled, Complete, Total
  <2>3. QED
    BY <2>1, <2>2
<1>4. CASE List(u)
  <2>1. item' = item /\ fetched' = fetched /\ failed' = failed /\ sent' = sent
          /\ fetched[u] = {} /\ failed[u] = {} /\ todo[u] = {} /\ item[u] = {}
    BY <1>1, <1>4 DEF List, Place
  <2>2. Place(u)'
    BY <1>2, <1>4, <2>1 DEF List, Place
  <2>3. Listed(u)'
    BY <1>1, <1>2, <1>4, <2>1 DEF List, Listed
  <2>4. Fetched(u)'
    BY <2>1 DEF Fetched
  <2>5. QED
    BY <2>2, <2>3, <2>4
<1>5. CASE \E i \in todo[u] : Fetch(u, i)
  <2>1. PICK i \in Items : i \in todo[u] /\ Fetch(u, i)
    BY <1>2, <1>5
  <2>2. pc[u] = "item" /\ item[u] = {} /\ todo'[u] = todo[u] \ {i}
          /\ sent' = sent /\ listed' = listed
    BY <1>1, <1>2, <2>1 DEF Fetch, CannotFetch, Place
  <2>3. ASSUME NEW q \in Quota(u),
               /\ pc' = [pc EXCEPT ![u] = "describe"]
               /\ quota' = [quota EXCEPT ![u] = q]
               /\ fetched' = [fetched EXCEPT ![u] = @ \cup {<<i, q>>}]
               /\ item' = [item EXCEPT ![u] = {i}]
               /\ metric' = [metric EXCEPT ![u] = 1]
               /\ UNCHANGED <<errs, failed>>
        PROVE  (Place(u) /\ Listed(u) /\ Fetched(u))'
    <3>1. /\ pc'[u] = "describe" /\ quota'[u] = q /\ metric'[u] = 1
          /\ item'[u] = {i} /\ fetched'[u] = fetched[u] \cup {<<i, q>>}
          /\ errs'[u] = errs[u] /\ failed'[u] = failed[u]
      BY <1>2, <2>3
    <3>2. Place(u)'
      BY <3>1 DEF Place
    <3>3. Listed(u)'
      <4>1. {f[1] : f \in fetched'[u]} = {f[1] : f \in fetched[u]} \cup {i}
        <5>1. <<i, q>>[1] = i
          OBVIOUS
        <5>2. \A S, p : {f[1] : f \in S \cup {p}} = {f[1] : f \in S} \cup {p[1]}
          OBVIOUS
        <5>3. QED
          BY <3>1, <5>1, <5>2
      <4>2. QED
        BY <1>1, <2>1, <2>2, <3>1, <4>1 DEF Listed
    <3>4. ASSUME NEW f \in fetched[u]
          PROVE  /\ \A n \in 1..Total(u) : n <= Share(u, f[2]) => SentFor(u, f[1], n)
                 /\ f[2] \in {Disabled, Complete(u)}
      BY <1>1, <2>2, <3>4 DEF Fetched
    <3>5. q \in {Disabled, Complete(u)} \/ 1 <= q
      BY Numbers DEF Quota
    <3>6. Fetched(u)'
      BY <2>2, <3>1, <3>4, <3>5 DEF Fetched, SentFor, Share, Complete, Total, Disabled
    <3>7. QED
      BY <3>2, <3>3, <3>6
  <2>4. CASE CannotFetch(u) /\ failed' = [failed EXCEPT ![u] = @ \cup {i}]
                /\ UNCHANGED <<itemVars, fetched>>
    <3>1. /\ pc'[u] = "item" /\ errs'[u] = TRUE
          /\ failed'[u] = failed[u] \cup {i}
      BY <1>2, <2>4 DEF CannotFetch
    <3>2. Place(u)' /\ Listed(u)'
      BY <1>1, <2>1, <2>2, <2>4, <3>1 DEF Place, Listed
    <3>3. Fetched(u)'
      BY <1>1, <2>2, <2>4 DEF Fetched, SentFor, Share, Complete, Total, Disabled
    <3>4. QED
      BY <3>2, <3>3
  <2>5. QED
    BY <2>1, <2>3, <2>4 DEF Fetch
<1>6. CASE \E i \in item[u] : Describe(u, i)
  <2>1. PICK i \in item[u] : Describe(u, i)
    BY <1>6
  <2>2. pc[u] = "describe" /\ pc'[u] = "emit"
          /\ UNCHANGED <<todo, item, quota, metric, errs, sent, listed, fetched, failed>>
    BY <1>2, <2>1 DEF Describe
  <2>3. Place(u)' /\ Listed(u)'
    BY <1>1, <2>2 DEF Place, Listed
  <2>4. Fetched(u)'
    BY <1>1, <2>2 DEF Fetched, SentFor, Share, Complete, Total, Disabled
  <2>5. QED
    BY <2>3, <2>4
<1>7. CASE \E i \in item[u] : Emit(u, i)
  <2>1. PICK i \in item[u] : Emit(u, i)
    BY <1>7
  <2>2. /\ pc[u] = "emit" /\ pc'[u] = "describe" /\ metric[u] # quota[u]
        /\ metric'[u] = metric[u] + 1
        /\ sent'[u] = sent[u] \cup {[desc |-> current[Collector[u]],
                                     of |-> Meant(u, i)]}
        /\ UNCHANGED <<todo, item, quota, errs, listed, fetched, failed>>
    BY <1>2, <2>1 DEF Emit
  <2>3. Place(u)' /\ Listed(u)'
    BY <1>1, <2>2 DEF Place, Listed
  <2>4. item[u] = {i}
    BY <1>1, <2>1, <2>2 DEF Place
  <2>5. ASSUME NEW n, n = metric[u] PROVE SentFor(u, i, n)'
    <3>. DEFINE new == [desc |-> current[Collector[u]], of |-> Meant(u, i)]
    <3>1. new \in sent'[u]
      BY <2>2
    <3>2. new.of.item = i /\ new.of.metric = n
      BY <2>5 DEF Meant
    <3>. HIDE DEF new
    <3>3. QED
      BY <3>1, <3>2 DEF SentFor
  <2>6. \A j, n : SentFor(u, j, n) => SentFor(u, j, n)'
    BY <2>2 DEF SentFor
  <2>7. metric[u] \in Nat /\ quota[u] \in Nat
    BY <1>2
  <2>8. ASSUME NEW f \in fetched[u]
        PROVE  /\ \A n \in 1..Total(u) : n <= Share(u, f[2]) =>
                     \/ SentFor(u, f[1], n)'
                     \/ f[1] \in item[u] /\ f[2] = quota[u] /\ metric[u] + 1 <= n
               /\ \/ f[2] \in {Disabled, Complete(u)}
                  \/ f[1] \in item[u] /\ f[2] = quota[u] /\ metric[u] + 1 <= f[2]
    <3>1. /\ \A n \in 1..Total(u) : n <= Share(u, f[2]) =>
                \/ SentFor(u, f[1], n)
                \/ f[1] \in item[u] /\ f[2] = quota[u] /\ metric[u] <= n
          /\ \/ f[2] \in {Disabled, Complete(u)}
             \/ f[1] \in item[u] /\ f[2] = quota[u] /\ metric[u] <= f[2]
      BY <1>1 DEF Fetched
    <3>2. f[2] \in Nat /\ \A n \in 1..Total(u) : n \in Nat
      BY <1>2
    <3>3. \A n \in Nat : metric[u] <= n /\ metric[u] # n => metric[u] + 1 <= n
      BY <2>7
    <3>4. ASSUME NEW n \in 1..Total(u), n <= Share(u, f[2])
          PROVE  \/ SentFor(u, f[1], n)'
                 \/ f[1] \in item[u] /\ f[2] = quota[u] /\ metric[u] + 1 <= n
      <4>1. CASE SentFor(u, f[1], n)
        BY <2>6, <4>1
      <4>2. CASE f[1] \in item[u] /\ f[2] = quota[u] /\ metric[u] <= n
        <5>1. CASE metric[u] = n
          BY <2>4, <2>5, <4>2, <5>1
        <5>2. CASE metric[u] # n
          BY <3>2, <3>3, <4>2, <5>2
        <5>3. QED
          BY <5>1, <5>2
      <4>3. QED
        BY <3>1, <3>4, <4>1, <4>2
    <3>5. \/ f[2] \in {Disabled, Complete(u)}
          \/ f[1] \in item[u] /\ f[2] = quota[u] /\ metric[u] + 1 <= f[2]
      BY <2>2, <3>1, <3>2, <3>3
    <3>6. QED
      BY <3>4, <3>5
  <2>9. Fetched(u)'
    BY <2>2, <2>8 DEF Fetched, Share, Complete, Total, Disabled
  <2>10. QED
    BY <2>3, <2>9
<1>8. CASE NextItem(u)
  <2>1. /\ pc[u] = "describe" /\ pc'[u] = "item" /\ item'[u] = {}
        /\ metric[u] > Share(u, quota[u])
        /\ UNCHANGED <<todo, quota, metric, errs, sent, listed, fetched, failed>>
    BY <1>2, <1>8 DEF NextItem
  <2>2. Place(u)' /\ Listed(u)'
    BY <1>1, <2>1 DEF Place, Listed
  <2>3. metric[u] \in Nat /\ Total(u) \in Nat /\ Share(u, quota[u]) \in Nat
    BY <1>2, Numbers
  <2>4. ASSUME NEW f \in fetched[u]
        PROVE  /\ \A n \in 1..Total(u) : n <= Share(u, f[2]) => SentFor(u, f[1], n)
               /\ f[2] \in {Disabled, Complete(u)}
    <3>1. f[2] \in Quota(u)
      BY <1>1 DEF TypeOK
    <3>2. \/ f[2] \in {Disabled, Complete(u)}
          \/ f[2] <= Total(u) /\ Share(u, f[2]) = Total(u)
      BY <3>1, Numbers DEF Quota, Complete
    <3>3. ~(f[2] = quota[u] /\ metric[u] <= f[2] /\ f[2] <= Total(u)
              /\ Share(u, f[2]) = Total(u))
      <4>1. f[2] \in Nat
        BY <1>2
      <4>2. QED
        BY <2>1, <2>3, <4>1
    <3>4. f[2] \in {Disabled, Complete(u)}
      BY <1>1, <3>2, <3>3 DEF Fetched
    <3>5. \A n \in 1..Total(u) :
             ~(f[2] = quota[u] /\ metric[u] <= n /\ n <= Share(u, f[2]))
      BY <2>1, <2>3
    <3>6. QED
      BY <1>1, <3>4, <3>5 DEF Fetched
  <2>5. Fetched(u)'
    BY <2>1, <2>4 DEF Fetched, SentFor, Share, Complete, Total, Disabled
  <2>6. QED
    BY <2>2, <2>5
<1>9. CASE NilLimit(u) \/ Return(u)
  <2>1. /\ pc'[u] = "returned"
        /\ UNCHANGED <<todo, item, quota, metric, sent, listed, fetched, failed>>
    BY <1>2, <1>9 DEF NilLimit, Return
  <2>2. Place(u)' /\ Listed(u)'
    <3>1. CASE NilLimit(u)
      BY <1>1, <1>2, <2>1, <3>1 DEF NilLimit, Recovered, Place, Listed
    <3>2. CASE Return(u)
      BY <1>1, <1>2, <2>1, <3>2 DEF Return, Place, Listed
    <3>3. QED
      BY <1>9, <3>1, <3>2
  <2>3. Fetched(u)'
    BY <1>1, <2>1 DEF Fetched, SentFor, Share, Complete, Total, Disabled
  <2>4. QED
    BY <2>2, <2>3
<1>10. QED
  BY <1>1, <1>3, <1>4, <1>5, <1>6, <1>7, <1>8, <1>9, OwnOrStill DEF UpdateStep

\* Only a cycle whose Updates have all returned without an error is served, and an
\* Update that has ended stays so.
LEMMA ServedStep == IInv /\ [Next]_vars => ServedInv'
<1>. SUFFICES ASSUME IInv, [Next]_vars,
                     NEW k \in Collectors, NEW u \in Calls(k, served'[k])
              PROVE  pc'[u] = "ended" /\ ~errs'[u]
  BY DEF ServedInv, Calls
<1>1. TypeOK /\ FunctionsInv /\ ServedInv /\ u \in Updates
  BY DEF IInv, Calls
<1>2. pc[u] = "ended" => ~UpdateStep(u)
  BY DEF UpdateStep, List, NextItem, NilLimit, Return, Fetch, CannotFetch,
         Describe, Emit, Goes
<1>3. CASE served'[k] = served[k]
  <2>1. pc[u] = "ended" /\ ~errs[u]
    BY <1>1, <1>3 DEF ServedInv
  <2>2. Still(u)
    BY <1>1, <1>2, <2>1, OwnOrStill
  <2>3. QED
    BY <2>1, <2>2 DEF Still
<1>4. CASE served'[k] # served[k]
  <2>1. PICK c \in Collectors, v \in Updates : Finish(c, Cycle[v])
    BY <1>4, CyclesFrame DEF Next, Begin, vars, cycleVars
  <2>2. MayServe(c, Cycle[v]) /\ c = k /\ served'[k] = Cycle[v]
    BY <1>1, <1>4, <2>1 DEF Finish, FunctionsInv
  <2>3. ~errs[u] /\ pc'[u] = "ended"
    BY <1>1, <2>1, <2>2 DEF Finish, MayServe
  <2>4. QED
    BY <2>1, <2>3, WalksFrame
<1>5. QED
  BY <1>3, <1>4

\* The invariant is inductive.
LEMMA InductiveStep == IInv /\ [Next]_vars => IInv'
BY TypeStep, MeetingStep, CurrentStep, LabelsStep, WalkStep, ServedStep DEF IInv

-----------------------------------------------------------------------------
(* The theorems.                                                           *)

\* The invariant holds throughout.
THEOREM InvariantTheorem == Spec => []IInv
BY InitInv, InductiveStep, PTL DEF Spec

\* The metric to emit next is one the item has, a descriptor is in the field when
\* it is emitted, and no cycle is served that has not begun.
THEOREM TypeCorrect == Spec => []TypeOK
<1>1. IInv => TypeOK
  BY DEF IInv
<1>2. QED
  BY <1>1, InvariantTheorem, PTL

\* An Update that has its collector object to itself labels each metric with the
\* realm and the item whose value it has, whatever ran on the object before.
THEOREM LabelsTheorem == Spec => []LabelsAreRight
<1>1. IInv => LabelsAreRight
  BY DEF IInv
<1>2. QED
  BY <1>1, InvariantTheorem, PTL

\* Unless a panic ended it, a walk that returns has asked for every item listed
\* and sent every metric of each that it could fetch.
THEOREM LocalTheorem == Spec => []FailuresStayLocal
<1>1. IInv => FailuresStayLocal
  <2>. SUFFICES ASSUME IInv, NEW u \in Updates, pc[u] = "returned", ~Panicked(u)
                PROVE  /\ listed[u] = failed[u] \cup {f[1] : f \in fetched[u]}
                       /\ \A f \in fetched[u], n \in 1..Total(u) :
                             n <= Share(u, f[2]) =>
                                \E m \in sent[u] : m.of.item = f[1] /\ m.of.metric = n
    BY DEF FailuresStayLocal
  <2>1. item[u] = {} /\ todo[u] = {} /\ Listed(u) /\ Fetched(u)
    BY DEF IInv, WalkInv, Place, AtEnd, Panicked
  <2>2. QED
    BY <2>1 DEF Listed, Fetched, SentFor
<1>2. QED
  BY <1>1, InvariantTheorem, PTL

\* What is served of a collector has every metric of every item that was listed in
\* every realm, whatever failed, panicked or was abandoned.
THEOREM ServedTheorem == Spec => []ServedIsWhole
<1>1. IInv => ServedIsWhole
  <2>. SUFFICES ASSUME IInv, NEW k \in Collectors, NEW u \in Calls(k, served[k]),
                       NEW i \in listed[u]
                PROVE  \E q \in {Disabled, Complete(u)} :
                          /\ <<i, q>> \in fetched[u]
                          /\ \A n \in 1..Share(u, q) :
                                \E m \in sent[u] : m.of.item = i /\ m.of.metric = n
    BY DEF ServedIsWhole
  <2>1. u \in Updates /\ pc[u] = "ended" /\ ~errs[u]
    BY DEF IInv, ServedInv, Calls
  <2>2. item[u] = {} /\ todo[u] = {} /\ failed[u] = {} /\ Listed(u) /\ Fetched(u)
    BY <2>1 DEF IInv, WalkInv, Place, Listed, AtEnd
  <2>3. PICK f \in fetched[u] : f[1] = i
    BY <2>2 DEF Listed
  <2>4. f = <<i, f[2]>> /\ f[2] \in {Disabled, Complete(u)}
    BY <2>1, <2>2, <2>3 DEF Fetched, IInv, FunctionsInv
  <2>5. \A n \in 1..Share(u, f[2]) : n \in 1..Total(u) /\ n <= Share(u, f[2])
    BY <2>1, Numbers
  <2>6. QED
    BY <2>2, <2>3, <2>4, <2>5 DEF Fetched, SentFor
<1>2. QED
  BY <1>1, InvariantTheorem, PTL
=============================================================================
