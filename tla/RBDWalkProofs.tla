---------------------------- MODULE RBDWalkProofs ---------------------------
(***************************************************************************)
(* Proofs about RBDWalk for any cluster and any rbd.pools: its type        *)
(* invariant, that its handles nest and are released, that an expired      *)
(* context stops it, and which images it may miss.                         *)
(***************************************************************************)
EXTENDS RBDWalk, FiniteSetTheorems, TLAPS

\* Where the walk stands: outside any pool, in the pool with its IO context, or
\* with an image open as well.
OutsidePools == {"list", "pool", "returned"}
InImage == {"function", "close"}
WithIOContext == {"probe", "probeNamespaces", "namespaces", "namespace", "image",
                  "open", "destroy"}

\* The handles are those of the place the walk stands at.
HandleInv ==
    /\ pc \notin OutsidePools => pool \in Pools
    /\ pc \in OutsidePools \cup {"ioctx"} => ioctx = {} /\ opened = {}
    /\ pc \in WithIOContext => ioctx = {pool} /\ opened = {}
    /\ pc \in InImage \cup {"panicked"} =>
          /\ ioctx = {pool}
          /\ \E i \in In(pool, namespace) : opened = {i}

\* After the context expired: one image may have been past the check.
ExpiryInv ==
    expired => \/ visited \subseteq early
               \/ /\ pc \notin {"open", "function"}
                  /\ \E i \in Images : visited \ early = {i}

\* The image is still to come.
Ahead(i) ==
    \/ pc = "list"
    \/ pc # "returned" /\ i.pool \in pools
    \/ /\ i.pool = pool
       /\ \/ pc \in {"ioctx", "probe", "namespaces"}
          \/ pc = "probeNamespaces" /\ i.namespace # Default
          \/ /\ pc \in {"namespace", "image", "open"} \cup InImage
             /\ i.namespace \in namespaces
          \/ /\ pc \in {"image", "open"} \cup InImage
             /\ i.namespace = namespace
             /\ i.name \in names
    \/ pc = "function" /\ opened = {i}

\* What hides an image is an error, and what may be missing is still to come,
\* behind a failed call, or given up.
WalkInv ==
    /\ lost # {} => errs
    /\ pc # "panicked" =>
          \A i \in stable \cap Wanted :
             i \in visited \cup lost \/ Ahead(i) \/ (expired /\ errs)

IInv == TypeOK /\ HandleInv /\ ExpiryInv /\ WalkInv

-----------------------------------------------------------------------------
(* Small facts about the model's operators.                                *)

\* A namespace that is configured or found is one of Namespaces.
LEMMA NamespaceTypes ==
    ASSUME NEW p, config \in Configs
    PROVE  /\ Configured(p) \subseteq Namespaces
           /\ \A found \in NamespaceList(p) :
                 {Default} \cup found \subseteq Namespaces
<1>1. Configured(p) \subseteq
         UNION {UNION {c[n].namespaces : n \in DOMAIN c} : c \in Configs}
  <2>1. Configured(p) \subseteq UNION {config[n].namespaces : n \in DOMAIN config}
    BY DEF Configured, Entries
  <2>2. QED  BY <2>1
<1>2. \A i \in Of(p) : i.namespace \in Namespaces
  BY DEF Of, Namespaces
<1>3. QED
  BY <1>1, <1>2 DEF Namespaces, NamespaceList

\* An image that rbd.pools asks for is in a selected pool, and in a namespace
\* that is configured for it, if any is: of its pool's entries, its own is the
\* first.
LEMMA WantedIsSelected ==
    ASSUME config \in Configs, NEW i \in Wanted
    PROVE  /\ i.pool \in Selected
           /\ Configured(i.pool) # {} => i.namespace \in Configured(i.pool)
<1>. DEFINE first(n) == /\ config[n].name = i.pool
                        /\ \A m \in 1..(n-1) : config[m].name # i.pool
                        /\ \/ config[n].namespaces = {}
                           \/ i.namespace \in config[n].namespaces
<1>1. i \in Images /\ i.pool \in Pools
  BY RBDWalkAssumption DEF Wanted
<1>2. DOMAIN config \subseteq Nat
  BY RBDWalkAssumption
<1>3. CASE config = <<>>
  BY <1>1, <1>3 DEF Selected, Configured, Entries
<1>4. CASE \E n \in DOMAIN config : first(n)
  <2>1. PICK n \in DOMAIN config : first(n)
    BY <1>4
  <2>2. n \in Nat /\ n \in Entries(i.pool)
    BY <2>1, <1>2 DEF Entries
  <2>3. ConfiguredPools \cap Pools \subseteq Selected
    BY DEF Selected, ConfiguredPools
  <2>4. i.pool \in Selected
    BY <2>1, <2>3, <1>1 DEF ConfiguredPools
  <2>5. \A e \in Entries(i.pool) : e \in Nat /\ (e # n => e >= n)
    BY <2>1, <2>2, <1>2, RBDWalkAssumption DEF Entries
  <2>. DEFINE least == {e \in Entries(i.pool) : Entries(i.pool) \cap (1..(e-1)) = {}}
  <2>6. least \subseteq {n}
    BY <2>2, <2>5, RBDWalkAssumption DEF Entries
  <2>7. Configured(i.pool) \subseteq config[n].namespaces
    BY <2>6 DEF Configured
  <2>8. n \in least
    BY <2>2, <2>5
  <2>9. config[n].namespaces \subseteq Configured(i.pool)
    BY <2>8 DEF Configured
  <2>10. QED
    BY <2>1, <2>4, <2>7, <2>9
<1>5. QED
  BY <1>3, <1>4 DEF Wanted
-----------------------------------------------------------------------------
(* The invariant.                                                          *)

\* Before the walk nothing is open, and everything is ahead.
LEMMA InitInv == Init => IInv
<1>. SUFFICES ASSUME Init PROVE IInv
  OBVIOUS
<1>1. TypeOK
  BY DEF Init, TypeOK, Namespaces
<1>2. HandleInv
  BY DEF Init, HandleInv, OutsidePools, InImage, WithIOContext
<1>3. ExpiryInv
  BY DEF Init, ExpiryInv
<1>4. WalkInv
  BY DEF Init, WalkInv, Ahead
<1>5. QED
  BY <1>1, <1>2, <1>3, <1>4 DEF IInv

\* No step leaves the types: the pools to visit are the cluster's even when
\* rbd.pools names others.
LEMMA TypeStep == TypeOK /\ HandleInv /\ [Next]_vars => TypeOK'
<1>. SUFFICES ASSUME TypeOK, HandleInv, [Next]_vars
              PROVE  TypeOK'
  OBVIOUS
<1>. USE DEF TypeOK, handleVars, envVars, clusterVars, historyVars, placeVars,
             Fails, Succeeds
<1>1. CASE ListPools
  <2>1. Selected \subseteq Pools
    BY DEF Selected
  <2>2. QED
    BY <1>1, <2>1 DEF ListPools
<1>2. CASE \E p \in pools : NextPool(p)
  BY <1>2 DEF NextPool
<1>3. CASE OpenIOContext
  <2>1. pool \in Pools
    BY <1>3 DEF OpenIOContext, HandleInv, OutsidePools
  <2>2. Of(pool) \subseteq Images
    BY DEF Of
  <2>3. QED
    BY <1>3, <2>1, <2>2 DEF OpenIOContext
<1>4. CASE NamespacesForPool
  <2>1. Of(pool) \subseteq Images
    BY DEF Of
  <2>2. QED
    BY <1>4, <2>1, NamespaceTypes DEF NamespacesForPool
<1>5. CASE \E n \in namespaces : NextNamespace(n)
  <2>1. PICK n \in namespaces : NextNamespace(n)
    BY <1>5
  <2>2. In(pool, n) \subseteq Images
    BY DEF In, Of
  <2>3. QED
    BY <2>1, <2>2 DEF NextNamespace, SkipsNamespace
<1>6. CASE \E name \in names : OpenImage(name)
  <2>1. PICK name \in names : OpenImage(name)
    BY <1>6
  <2>2. Named(pool, namespace, name) \subseteq Images
    BY DEF Named, In, Of
  <2>3. QED
    BY <2>1, <2>2 DEF OpenImage
<1>7. CASE \E i \in opened : CallFunction(i) \/ CloseImage(i)
  BY <1>7 DEF CallFunction, CloseImage, Closed
<1>8. CASE \/ NoMorePools \/ Stat \/ ProbeNamespaces \/ Destroy \/ NoMoreNamespaces
           \/ CheckExpired \/ NoMoreImages \/ Panic
  <2>1. CASE NoMorePools \/ Destroy \/ NoMoreNamespaces \/ NoMoreImages \/ Panic
    BY <2>1 DEF NoMorePools, Destroy, NoMoreNamespaces, NoMoreImages, Panic
  <2>2. CASE Stat \/ ProbeNamespaces
    BY <2>2 DEF Stat, ProbeNamespaces, AfterProbe, Namespaces
  <2>3. CASE CheckExpired
    BY <2>3 DEF CheckExpired, GivesUp
  <2>4. QED
    BY <1>8, <2>1, <2>2, <2>3
<1>9. CASE Environment
  BY <1>9 DEF Environment, Expire, Create, Delete
<1>10. CASE UNCHANGED vars
  BY <1>10 DEF vars
<1>11. QED
  BY <1>1, <1>2, <1>3, <1>4, <1>5, <1>6, <1>7, <1>8, <1>9, <1>10
     DEF Next, Walk

\* Handles are opened and closed with the place: each step that opens one goes
\* further in, each that closes one comes back out.
LEMMA HandleStep == TypeOK /\ HandleInv /\ [Next]_vars => HandleInv'
<1>. SUFFICES ASSUME TypeOK, HandleInv, [Next]_vars
              PROVE  HandleInv'
  OBVIOUS
<1>. USE DEF HandleInv, OutsidePools, InImage, WithIOContext, handleVars,
             envVars, placeVars
<1>1. CASE ListPools \/ NoMorePools
  BY <1>1 DEF ListPools, NoMorePools
<1>2. CASE \E p \in pools : NextPool(p)
  <2>1. pools \subseteq Pools
    BY DEF TypeOK
  <2>2. QED
    BY <1>2, <2>1 DEF NextPool
<1>3. CASE OpenIOContext
  BY <1>3 DEF OpenIOContext
<1>4. CASE NamespacesForPool
  BY <1>4 DEF NamespacesForPool
<1>5. CASE \E n \in namespaces : NextNamespace(n)
  BY <1>5 DEF NextNamespace, SkipsNamespace
<1>6. CASE \E name \in names : OpenImage(name)
  <2>1. PICK name \in names : OpenImage(name)
    BY <1>6
  <2>2. \A i \in Named(pool, namespace, name) : i \in In(pool, namespace)
    BY DEF Named
  <2>3. ioctx' = {pool'} /\ pool' \in Pools
    BY <2>1 DEF OpenImage
  <2>4. In(pool, namespace)' = In(pool, namespace)
    BY <2>1 DEF OpenImage, In, Of
  <2>5. CASE pc' = "function"
    <3>1. PICK i \in In(pool, namespace) : opened' = opened \cup {i}
      BY <2>1, <2>2, <2>5 DEF OpenImage
    <3>2. opened' = {i} /\ i \in In(pool, namespace)'
      BY <2>1, <2>4, <3>1 DEF OpenImage
    <3>3. QED
      BY <2>3, <2>5, <3>2
  <2>6. CASE pc' = "image"
    BY <2>1, <2>3, <2>6 DEF OpenImage
  <2>7. QED
    BY <2>1, <2>5, <2>6 DEF OpenImage
<1>7. CASE \E i \in opened : CallFunction(i) \/ CloseImage(i)
  <2>1. CASE \E i \in opened : CallFunction(i)
    BY <2>1 DEF CallFunction, In, Of
  <2>2. CASE \E i \in opened : CloseImage(i)
    BY <2>2 DEF CloseImage, Closed
  <2>3. QED
    BY <1>7, <2>1, <2>2
<1>8. CASE \/ Stat \/ ProbeNamespaces \/ Destroy \/ NoMoreNamespaces
           \/ CheckExpired \/ NoMoreImages
  BY <1>8 DEF Stat, ProbeNamespaces, AfterProbe, Destroy, NoMoreNamespaces, CheckExpired,
              GivesUp, NoMoreImages
<1>9. CASE Panic
  BY <1>9 DEF Panic, In, Of
<1>10. CASE Environment \/ UNCHANGED vars
  BY <1>10 DEF Environment, Expire, Create, Delete, vars, In, Of
<1>11. QED
  BY <1>1, <1>2, <1>3, <1>4, <1>5, <1>6, <1>7, <1>8, <1>9, <1>10
     DEF Next, Walk

\* After the context expired no image gets past the check; the one that had is
\* the only one the function can still get.
LEMMA ExpiryStep == TypeOK /\ HandleInv /\ ExpiryInv /\ [Next]_vars => ExpiryInv'
<1>. SUFFICES ASSUME TypeOK, HandleInv, ExpiryInv, [Next]_vars
              PROVE  ExpiryInv'
  OBVIOUS
<1>. USE DEF ExpiryInv, envVars, historyVars
<1>1. CASE ListPools \/ NoMorePools \/ OpenIOContext \/ NamespacesForPool
  BY <1>1 DEF ListPools, NoMorePools, OpenIOContext, NamespacesForPool
<1>2. CASE \E p \in pools : NextPool(p)
  BY <1>2 DEF NextPool
<1>3. CASE \E n \in namespaces : NextNamespace(n)
  BY <1>3 DEF NextNamespace, SkipsNamespace
<1>4. CASE \E name \in names : OpenImage(name)
  BY <1>4 DEF OpenImage
<1>5. CASE \E i \in opened : CallFunction(i)
  <2>1. PICK i \in opened : CallFunction(i)
    BY <1>5
  <2>2. i \in Images
    BY DEF TypeOK
  <2>3. expired => visited' \ early' \subseteq {i}
    BY <2>1 DEF CallFunction
  <2>4. pc' = "close"
    BY <2>1 DEF CallFunction
  <2>5. expired' => visited' \subseteq early' \/ visited' \ early' = {i}
    BY <2>1, <2>3 DEF CallFunction
  <2>6. QED
    BY <2>2, <2>4, <2>5
<1>6. CASE \E i \in opened : CloseImage(i)
  BY <1>6 DEF CloseImage
<1>7. CASE \/ Stat \/ ProbeNamespaces \/ Destroy \/ NoMoreNamespaces
           \/ CheckExpired \/ NoMoreImages \/ Panic
  BY <1>7 DEF Stat, ProbeNamespaces, AfterProbe, Destroy, NoMoreNamespaces, CheckExpired,
              GivesUp, NoMoreImages, Panic
<1>8. CASE Expire
  BY <1>8 DEF Expire
<1>9. CASE \/ \E i \in Images : Create(i) \/ Delete(i)
           \/ UNCHANGED vars
  BY <1>9 DEF Create, Delete, vars
<1>10. QED
  BY <1>1, <1>2, <1>3, <1>4, <1>5, <1>6, <1>7, <1>8, <1>9
     DEF Next, Walk, Environment

\* No step leaves an image behind without a reason, provided the calls that tell
\* an RBD pool do not fail: what is asked for is selected, what is there is listed,
\* what is listed is opened and handed over, and each failure names what it hides.
LEMMA WalkStep ==
    ASSUME ProbeFaults = FALSE, TypeOK, HandleInv, WalkInv, [Next]_vars
    PROVE  WalkInv'
<1>. USE DEF handleVars, envVars, clusterVars, historyVars, placeVars
<1>1. lost' # {} => errs'
  <2>1. (lost' = lost /\ (errs => errs')) \/ errs' = TRUE
    BY DEF Next, Walk, ListPools, NextPool, NoMorePools, OpenIOContext, Stat,
           ProbeNamespaces, Destroy, NamespacesForPool, NextNamespace, SkipsNamespace,
           NoMoreNamespaces, CheckExpired, NoMoreImages, OpenImage,
           CallFunction, Panic, CloseImage, Environment, Expire, Create,
           Delete, vars, Fails, Succeeds, TypeOK
  <2>2. QED
    BY <2>1 DEF WalkInv
<1>2. ASSUME pc' # "panicked", NEW i \in (stable \cap Wanted)'
      PROVE  (i \in visited \cup lost \/ Ahead(i) \/ (expired /\ errs))'
  <2>1. pc # "panicked" /\ i \in stable \cap Wanted
    BY <1>2 DEF Next, Walk, ListPools, NextPool, NoMorePools, OpenIOContext,
                Stat, ProbeNamespaces, Destroy, NamespacesForPool, NextNamespace,
                NoMoreNamespaces, CheckExpired, NoMoreImages, OpenImage,
                CallFunction, Panic, CloseImage, Environment, Expire, Create,
                Delete, vars, Wanted
  <2>2. i \in visited \cup lost \/ Ahead(i) \/ (expired /\ errs)
    BY <2>1 DEF WalkInv
  <2>3. i \in Images /\ i.pool \in Selected /\ i \in existing
    BY <2>1, WantedIsSelected DEF TypeOK, Wanted
  <2>4. visited \subseteq visited' /\ lost \subseteq lost'
          /\ (expired /\ errs => expired' /\ errs')
    BY DEF Next, Walk, ListPools, NextPool, NoMorePools, OpenIOContext, Stat,
           ProbeNamespaces, Destroy, NamespacesForPool, NextNamespace, SkipsNamespace,
           NoMoreNamespaces, CheckExpired, NoMoreImages, OpenImage,
           CallFunction, Panic, CloseImage, Environment, Expire, Create,
           Delete, vars, Fails, Succeeds, TypeOK
  <2>. SUFFICES ASSUME Ahead(i)
                PROVE  (i \in visited \cup lost \/ Ahead(i) \/ (expired /\ errs))'
    BY <2>2, <2>4
  <2>. USE DEF Ahead, InImage, Fails, Succeeds
  <2>5. CASE ListPools
    BY <2>3, <2>5 DEF ListPools
  <2>6. CASE NoMorePools
    BY <2>6 DEF NoMorePools
  <2>7. CASE \E p \in pools : NextPool(p)
    BY <2>7 DEF NextPool
  <2>8. CASE OpenIOContext
    BY <2>3, <2>8 DEF OpenIOContext, Of
  <2>9. CASE Stat \/ ProbeNamespaces
    <3>1. CASE Stat
      <4>1. i \in In(pool, Default) => pc' = "namespaces"
        BY <2>3, <3>1 DEF Stat
      <4>2. i.pool = pool /\ i.namespace = Default => i \in In(pool, Default)
        BY <2>3 DEF In, Of
      <4>3. QED
        BY <3>1, <4>1, <4>2 DEF Stat
    <3>2. CASE ProbeNamespaces
      <4>1. PICK found \in NamespaceList(pool) : pc' = AfterProbe(Tells(found))
        BY <3>2 DEF ProbeNamespaces
      <4>2. i.pool = pool /\ i.namespace # Default => Tells(found)
        BY <2>3, <4>1 DEF Tells, NamespaceList, Of
      <4>3. QED
        BY <3>2, <4>1, <4>2 DEF ProbeNamespaces, AfterProbe
    <3>3. QED
      BY <2>9, <3>1, <3>2
  <2>10. CASE Destroy
    BY <2>10 DEF Destroy
  <2>11. CASE NamespacesForPool
    <3>1. CASE i.pool = pool /\ pc' = "namespace"
      <4>1. i.namespace \in namespaces'
        <5>1. CASE Configured(pool) # {}
          BY <2>1, <2>11, <3>1, <5>1, WantedIsSelected
             DEF NamespacesForPool, TypeOK
        <5>2. CASE Configured(pool) = {}
          BY <2>3, <2>11, <3>1, <5>2 DEF NamespacesForPool, NamespaceList, Of
        <5>3. QED
          BY <5>1, <5>2
      <4>2. QED
        BY <2>11, <3>1, <4>1 DEF NamespacesForPool
    <3>2. CASE i.pool = pool /\ pc' = "destroy"
      BY <2>3, <2>11, <3>2 DEF NamespacesForPool, Of
    <3>3. CASE i.pool # pool
      BY <2>11, <3>3 DEF NamespacesForPool
    <3>4. QED
      BY <2>11, <3>1, <3>2, <3>3 DEF NamespacesForPool
  <2>12. CASE \E n \in namespaces : NextNamespace(n)
    <3>1. PICK n \in namespaces : NextNamespace(n)
      BY <2>12
    <3>2. CASE i \in In(pool, n)
      BY <2>3, <3>1, <3>2 DEF NextNamespace, SkipsNamespace, In, Of
    <3>3. CASE i \notin In(pool, n)
      BY <2>3, <3>1, <3>3 DEF NextNamespace, SkipsNamespace, In, Of
    <3>4. QED
      BY <3>2, <3>3
  <2>13. CASE NoMoreNamespaces
    BY <2>13 DEF NoMoreNamespaces
  <2>14. CASE CheckExpired
    BY <2>14 DEF CheckExpired, GivesUp, TypeOK
  <2>15. CASE NoMoreImages
    BY <2>15 DEF NoMoreImages
  <2>16. CASE \E name \in names : OpenImage(name)
    <3>1. PICK name \in names : OpenImage(name)
      BY <2>16
    <3>2. CASE i \in Named(pool, namespace, name)
      <4>1. \A j \in Named(pool, namespace, name) : j = i
        BY <2>3, <3>2, RBDWalkAssumption DEF Named, In, Of
      <4>2. CASE pc' = "function"
        <5>1. opened' = opened \cup {i}
          BY <3>1, <4>1, <4>2 DEF OpenImage
        <5>2. opened = {}
          BY <3>1 DEF OpenImage, HandleInv, WithIOContext
        <5>3. QED
          BY <4>2, <5>1, <5>2
      <4>3. CASE pc' = "image"
        BY <3>1, <3>2, <4>3 DEF OpenImage
      <4>4. QED
        BY <3>1, <4>2, <4>3 DEF OpenImage
    <3>3. CASE i \notin Named(pool, namespace, name)
      BY <2>3, <3>1, <3>3 DEF OpenImage, Named, In, Of
    <3>4. QED
      BY <3>2, <3>3
  <2>17. CASE \E j \in opened : CallFunction(j)
    BY <2>17 DEF CallFunction
  <2>18. CASE \E j \in opened : CloseImage(j)
    BY <2>18 DEF CloseImage
  <2>19. CASE Panic
    BY <1>2, <2>19 DEF Panic
  <2>20. CASE Environment
    BY <2>20 DEF Environment, Expire, Create, Delete
  <2>21. CASE UNCHANGED vars
    BY <2>21 DEF vars
  <2>22. QED
    BY <2>5, <2>6, <2>7, <2>8, <2>9, <2>10, <2>11, <2>12, <2>13, <2>14,
       <2>15, <2>16, <2>17, <2>18, <2>19, <2>20, <2>21 DEF Next, Walk
<1>3. QED
  BY <1>1, <1>2 DEF WalkInv

-----------------------------------------------------------------------------
(* The theorems.                                                           *)

\* The part of the invariant that holds whatever the cluster does.
THEOREM InvariantTheorem == Spec => [](TypeOK /\ HandleInv /\ ExpiryInv)
<1>1. TypeOK /\ HandleInv /\ ExpiryInv /\ [Next]_vars
         => (TypeOK /\ HandleInv /\ ExpiryInv)'
  BY TypeStep, HandleStep, ExpiryStep
<1>2. Init => TypeOK /\ HandleInv /\ ExpiryInv
  BY InitInv DEF IInv
<1>3. QED
  BY <1>1, <1>2, PTL DEF Spec

\* The pools that are walked are the cluster's, and the images its images,
\* whatever rbd.pools names.
THEOREM TypeCorrect == Spec => []TypeOK
BY InvariantTheorem, PTL

\* At any time one IO context and one image at most are open, the image within
\* the pool and the namespace of the context: nothing closes the context, or
\* sets it to another namespace, under an open image.
THEOREM NestTheorem == Spec => []HandlesNest
<1>1. TypeOK /\ HandleInv => HandlesNest
  <2>. SUFFICES ASSUME TypeOK, HandleInv PROVE HandlesNest
    OBVIOUS
  <2>1. ioctx = {} \/ ioctx = {pool}
    BY DEF TypeOK, HandleInv, OutsidePools, InImage, WithIOContext
  <2>2. opened = {} \/ \E i \in In(pool, namespace) : opened = {i} /\ ioctx = {pool}
    BY DEF TypeOK, HandleInv, OutsidePools, InImage, WithIOContext
  <2>3. Cardinality(ioctx) <= 1 /\ Cardinality(opened) <= 1
    BY <2>1, <2>2, FS_EmptySet, FS_Singleton
  <2>4. \A i \in opened : i.pool \in ioctx /\ i.namespace = namespace
    BY <2>2 DEF In, Of
  <2>5. QED
    BY <2>3, <2>4 DEF HandlesNest
<1>2. QED
  BY <1>1, InvariantTheorem, PTL

\* A walk that returns has closed every image and released every IO context it
\* opened, from wherever it returns and whatever failed on the way.
THEOREM ReleaseTheorem == Spec => []ReturnsReleaseHandles
<1>1. HandleInv => ReturnsReleaseHandles
  BY DEF HandleInv, ReturnsReleaseHandles, OutsidePools
<1>2. QED
  BY <1>1, InvariantTheorem, PTL

\* However large the cluster, an expired context lets the walk work on one more
\* image at most.
THEOREM ExpiryTheorem == Spec => []ExpiryStopsTheWalk
<1>1. ExpiryInv => ExpiryStopsTheWalk
  <2>. SUFFICES ASSUME ExpiryInv, expired
                PROVE  Cardinality(visited \ early) <= 1
    BY DEF ExpiryStopsTheWalk
  <2>1. visited \ early = {} \/ \E i : visited \ early = {i}
    BY DEF ExpiryInv
  <2>2. Cardinality(visited \ early) \in {0, 1}
    BY <2>1, FS_EmptySet, FS_Singleton
  <2>3. QED
    BY <2>2
<1>2. QED
  BY <1>1, InvariantTheorem, PTL

\* The whole invariant, while the calls that tell an RBD pool do not fail.
LEMMA WholeInvariant == ASSUME ProbeFaults = FALSE PROVE Spec => []IInv
<1>1. IInv /\ [Next]_vars => IInv'
  BY TypeStep, HandleStep, ExpiryStep, WalkStep DEF IInv
<1>2. QED
  BY <1>1, InitInv, PTL DEF Spec

\* A walk without an error has handed over every image that was asked for and
\* existed all along.  isRBDPool must not fail: when it does the walk skips the
\* pool without an error.
THEOREM CompleteTheorem ==
    ASSUME ProbeFaults = FALSE PROVE Spec => []NilMeansComplete
<1>1. IInv => NilMeansComplete
  <2>. SUFFICES ASSUME IInv, pc = "returned", ~errs
                PROVE  stable \cap Wanted \subseteq visited
    BY DEF NilMeansComplete
  <2>1. lost = {}
    BY DEF IInv, WalkInv
  <2>2. QED
    BY <2>1 DEF IInv, WalkInv, Ahead, InImage
<1>2. QED
  BY <1>1, WholeInvariant, PTL

\* With time left, an image is missed only when a call about itself, its namespace
\* or its pool failed: one failure does not hide the rest.
THEOREM LocalTheorem ==
    ASSUME ProbeFaults = FALSE PROVE Spec => []FailuresStayLocal
<1>1. IInv => FailuresStayLocal
  BY DEF FailuresStayLocal, IInv, WalkInv, Ahead, InImage
<1>2. QED
  BY <1>1, WholeInvariant, PTL
=============================================================================
