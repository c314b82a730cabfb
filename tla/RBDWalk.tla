------------------------------ MODULE RBDWalk -------------------------------
(***************************************************************************)
(* The walk over every RBD image that the RBD collectors share             *)
(* (collector/rbd.go): pool after pool, namespace after namespace, image   *)
(* after image, opening and closing librados and librbd handles on the     *)
(* way, going on after an error, and giving up when its context expires.   *)
(*                                                                         *)
(* The cluster is the environment: images come and go during the walk and  *)
(* any call into it may fail.                                              *)
(***************************************************************************)
EXTENDS Naturals, Sequences, FiniteSets

CONSTANTS
    Pools,            \* the pools of the cluster
    Images,           \* images there may ever be, [pool, namespace, name]
    Default,          \* the unnamed namespace
    NoPool,           \* no pool is being visited
    Configs,          \* what rbd.pools may be: entries [name, namespaces]; no
                      \* entry for all pools, no namespace for all of a pool
    ProbeFaults       \* whether the calls of isRBDPool may fail

ASSUME RBDWalkAssumption ==
    /\ \A i \in Images : i.pool \in Pools
    /\ \A i, j \in Images :
          i.pool = j.pool /\ i.namespace = j.namespace /\ i.name = j.name => i = j
    /\ NoPool \notin Pools
    /\ \A c \in Configs : Len(c) \in Nat /\ DOMAIN c = 1..Len(c)
    /\ ProbeFaults \in BOOLEAN

VARIABLES
    pc,         \* the next call
    pools,      \* pools still to visit
    pool,       \* the pool being visited
    namespaces, \* its namespaces still to visit
    namespace,  \* the namespace the IO context is set to
    names,      \* names listed in it and still to visit
    ioctx,      \* the pools with an open IO context
    opened,     \* the open images
    errs,       \* whether an error has been accumulated
    expired,    \* the context of the collection is done
    config,     \* rbd.pools
    existing,   \* the images of the cluster
    stable,     \* history: the images that have existed all along
    visited,    \* history: the images handed to the function
    early,      \* history: those handed to it before the context expired
    lost        \* history: the images behind a call that failed

placeVars == <<pools, pool, namespaces, namespace, names>>
handleVars == <<ioctx, opened>>
clusterVars == <<config, existing, stable>>
envVars == <<expired, clusterVars>>
historyVars == <<visited, early, lost>>
vars == <<pc, placeVars, handleVars, errs, envVars, historyVars>>

Of(p) == {i \in Images : i.pool = p}
In(p, n) == {i \in Of(p) : i.namespace = n}
Named(p, n, name) == {i \in In(p, n) : i.name = name}

\* Those of the images, and those that rbd.pools names, which need not exist.
Namespaces ==
    {Default} \cup {i.namespace : i \in Images}
      \cup UNION {UNION {c[n].namespaces : n \in DOMAIN c} : c \in Configs}

\* What rbd.NamespaceList may report: a namespace with images in it, and maybe
\* one without; these come and go too.
NamespaceList(p) ==
    LET NamespacesOf(S) == {i.namespace : i \in S} \ {Default}
    IN {found \in SUBSET NamespacesOf(Of(p)) :
             NamespacesOf(existing \cap Of(p)) \subseteq found}

TypeOK ==
    /\ pc \in {"list", "pool", "ioctx", "probe", "probeNamespaces",
               "namespaces", "namespace", "image", "open", "function", "close",
               "destroy", "returned", "panicked"}
    /\ pools \in SUBSET Pools
    /\ pool \in Pools \cup {NoPool}
    /\ namespaces \in SUBSET Namespaces
    /\ namespace \in Namespaces
    /\ names \in SUBSET {i.name : i \in Images}
    /\ ioctx \in SUBSET Pools
    /\ opened \in SUBSET Images
    /\ errs \in BOOLEAN /\ expired \in BOOLEAN
    /\ config \in Configs
    /\ existing \in SUBSET Images /\ stable \in SUBSET existing
    /\ visited \in SUBSET Images /\ early \in SUBSET visited
    /\ lost \in SUBSET Images

Init ==
    /\ pc = "list"
    /\ pools = {} /\ pool = NoPool
    /\ namespaces = {} /\ namespace = Default
    /\ names = {}
    /\ ioctx = {} /\ opened = {}
    /\ errs = FALSE /\ expired = FALSE
    /\ config \in Configs
    /\ existing \in SUBSET Images /\ stable = existing
    /\ visited = {} /\ early = {} /\ lost = {}

\* A call that failed: its error is accumulated, what it hides is remembered.
Fails(hidden) == errs' = TRUE /\ lost' = lost \cup hidden

Succeeds == UNCHANGED <<errs, lost>>

-----------------------------------------------------------------------------
(* eachRBDImage                                                            *)

ConfiguredPools == {config[n].name : n \in DOMAIN config}

\* mutant: the configured pools are walked whether the cluster has them or not
SelectedUnchecked == IF config = <<>> THEN Pools ELSE ConfiguredPools

\* mutant: the filter is the wrong way round
Deselected == IF config = <<>> THEN Pools ELSE Pools \ ConfiguredPools

Selected == IF config = <<>> THEN Pools ELSE ConfiguredPools \cap Pools

\* A client without a rados connection fails here too.
ListPools ==
    /\ pc = "list"
    /\ \/ pools' = Selected /\ pc' = "pool" /\ Succeeds
       \/ UNCHANGED pools /\ pc' = "returned" /\ Fails(Images)
    /\ UNCHANGED <<pool, namespaces, namespace, names, handleVars, envVars,
                   visited, early>>

\* ctx.Err() at the head of the loop, for the pool p.
NextPool(p) ==
    /\ pc = "pool"
    /\ \/ /\ expired
          /\ pc' = "returned"
          /\ errs' = TRUE
          /\ UNCHANGED <<pools, pool>>
       \/ /\ ~expired
          /\ pc' = "ioctx"
          /\ pools' = pools \ {p}
          /\ pool' = p
          /\ UNCHANGED errs
    /\ UNCHANGED <<namespaces, namespace, names, handleVars, envVars,
                   historyVars>>

NoMorePools ==
    /\ pc = "pool"
    /\ pools = {}
    /\ pc' = "returned"
    /\ UNCHANGED <<placeVars, handleVars, errs, envVars, historyVars>>

OpenIOContext ==
    /\ pc = "ioctx"
    /\ \/ ioctx' = ioctx \cup {pool} /\ pc' = "probe" /\ Succeeds
       \/ UNCHANGED ioctx /\ pc' = "pool" /\ Fails(Of(pool))
    /\ UNCHANGED <<placeVars, opened, envVars, visited, early>>

-----------------------------------------------------------------------------
(* isRBDPool, to which an error of either call means "no".                 *)

\* rbd_directory exists while an image is in the default namespace, and may
\* outlive it.
Stat ==
    /\ pc = "probe"
    /\ namespace' = Default
    /\ \E stat \in BOOLEAN :
          /\ ProbeFaults \/ existing \cap In(pool, Default) = {} \/ stat
          /\ pc' = IF stat THEN "namespaces" ELSE "probeNamespaces"
    /\ UNCHANGED <<pools, pool, namespaces, names, handleVars, errs, envVars,
                   historyVars>>

\* mutant: only the default namespace tells an RBD pool
NeverTells(found) == FALSE

\* There may be images in the namespaces found.
Tells(found) == found # {}

\* mutant: a pool that is skipped keeps its IO context
SkippedOpen(isRBD) == IF isRBD THEN "namespaces" ELSE "pool"

AfterProbe(isRBD) == IF isRBD THEN "namespaces" ELSE "destroy"

ProbeNamespaces ==
    /\ pc = "probeNamespaces"
    /\ \E found \in NamespaceList(pool) \cup {{}} :
          /\ ProbeFaults \/ found \in NamespaceList(pool)
          /\ pc' = AfterProbe(Tells(found))
    /\ UNCHANGED <<placeVars, handleVars, errs, envVars, historyVars>>

-----------------------------------------------------------------------------
(* The rest of eachRBDImage's loop.                                        *)

Destroy ==
    /\ pc = "destroy"
    /\ ioctx' = ioctx \ {pool}
    /\ pc' = "pool"
    /\ UNCHANGED <<placeVars, opened, errs, envVars, historyVars>>

-----------------------------------------------------------------------------
(* eachRBDImageInPool and namespacesForPool                                *)

Entries(p) == {n \in DOMAIN config : config[n].name = p}

\* mutant: the last entry of a pool counts
LastConfigured(p) ==
    UNION {config[n].namespaces : n \in {e \in Entries(p) : Entries(p) \subseteq 1..e}}

\* IndexFunc finds the first entry of the pool.
Configured(p) ==
    UNION {config[n].namespaces :
             n \in {e \in Entries(p) : Entries(p) \cap (1..(e-1)) = {}}}

NamespacesForPool ==
    /\ pc = "namespaces"
    /\ \/ /\ Configured(pool) # {}
          /\ namespaces' = Configured(pool)
          /\ pc' = "namespace" /\ Succeeds
       \/ /\ Configured(pool) = {}
          /\ \E found \in NamespaceList(pool) : namespaces' = {Default} \cup found
          /\ pc' = "namespace" /\ Succeeds
       \/ /\ Configured(pool) = {}
          /\ UNCHANGED namespaces
          /\ pc' = "destroy" /\ Fails(Of(pool))
    /\ UNCHANGED <<pools, pool, namespace, names, handleVars, envVars, visited,
                   early>>

\* mutant: the first namespace that cannot be listed ends the pool
LeavesPool == pc' = "destroy"

\* A namespace that cannot be listed is skipped.
SkipsNamespace == pc' = "namespace"

\* SetNamespace and GetImageNames.
NextNamespace(n) ==
    /\ pc = "namespace"
    /\ namespaces' = namespaces \ {n}
    /\ namespace' = n
    /\ \/ /\ names' = {i.name : i \in existing \cap In(pool, namespace')}
          /\ pc' = "image" /\ Succeeds
       \/ UNCHANGED names /\ SkipsNamespace /\ Fails(In(pool, n))
    /\ UNCHANGED <<pools, pool, handleVars, envVars, visited, early>>

NoMoreNamespaces ==
    /\ pc = "namespace"
    /\ namespaces = {}
    /\ pc' = "destroy"
    /\ UNCHANGED <<placeVars, handleVars, errs, envVars, historyVars>>

\* mutant: the context is only looked at between pools
NeverGivesUp == FALSE

\* ctx.Err() before each image
GivesUp == expired

\* Giving up leaves the other names unvisited.
CheckExpired ==
    /\ pc = "image"
    /\ names # {}
    /\ pc' = IF GivesUp THEN "destroy" ELSE "open"
    /\ errs' = (errs \/ GivesUp)
    /\ names' = IF GivesUp THEN {} ELSE names
    /\ UNCHANGED <<pools, pool, namespaces, namespace, handleVars, envVars,
                   historyVars>>

NoMoreImages ==
    /\ pc = "image"
    /\ names = {}
    /\ pc' = "namespace"
    /\ UNCHANGED <<placeVars, handleVars, errs, envVars, historyVars>>

-----------------------------------------------------------------------------
(* withRBDImage                                                            *)

\* The image is looked up in the namespace the IO context is set to; it may be
\* gone since it was listed.
OpenImage(name) ==
    /\ pc = "open"
    /\ names' = names \ {name}
    /\ \/ \E i \in existing \cap Named(pool, namespace, name) :
             opened' = opened \cup {i} /\ pc' = "function" /\ Succeeds
       \/ /\ pc' = "image"
          /\ Fails(Named(pool, namespace, name))
          /\ UNCHANGED opened
    /\ UNCHANGED <<pools, pool, namespaces, namespace, ioctx, envVars, visited,
                   early>>

\* The collector's own function, whose error is kept but not returned yet.
CallFunction(i) ==
    /\ pc = "function"
    /\ visited' = visited \cup {i}
    /\ errs' \in {errs, TRUE}
    /\ pc' = "close"
    /\ UNCHANGED <<placeVars, handleVars, envVars, early, lost>>

\* A panic unwinds through the walk up to the recover of updateCollector.
Panic ==
    /\ pc = "function"
    /\ errs' = TRUE
    /\ pc' = "panicked"
    /\ UNCHANGED <<placeVars, handleVars, envVars, historyVars>>

\* mutant: the image is not closed
NotClosed(i) == opened

Closed(i) == opened \ {i}

CloseImage(i) ==
    /\ pc = "close"
    /\ opened' = Closed(i)
    /\ errs' \in {errs, TRUE}
    /\ pc' = "image"
    /\ UNCHANGED <<placeVars, ioctx, envVars, historyVars>>

-----------------------------------------------------------------------------
(* The environment.                                                        *)

Expire ==
    /\ ~expired
    /\ expired' = TRUE
    /\ early' = visited
    /\ UNCHANGED <<pc, placeVars, handleVars, errs, clusterVars, visited,
                   lost>>

Create(i) ==
    /\ existing' = existing \cup {i}
    /\ UNCHANGED <<pc, placeVars, handleVars, errs, expired, config, stable,
                   historyVars>>

Delete(i) ==
    /\ existing' = existing \ {i}
    /\ stable' = stable \ {i}
    /\ UNCHANGED <<pc, placeVars, handleVars, errs, expired, config,
                   historyVars>>

Walk == \/ ListPools \/ NoMorePools \/ OpenIOContext
        \/ Stat \/ ProbeNamespaces \/ Destroy
        \/ NamespacesForPool \/ NoMoreNamespaces
        \/ CheckExpired \/ NoMoreImages \/ Panic
        \/ \E p \in pools : NextPool(p)
        \/ \E n \in namespaces : NextNamespace(n)
        \/ \E name \in names : OpenImage(name)
        \/ \E i \in opened : CallFunction(i) \/ CloseImage(i)

Environment == \/ Expire
               \/ \E i \in Images : Create(i) \/ Delete(i)

Next == Walk \/ Environment

Spec == Init /\ [][Next]_vars

-----------------------------------------------------------------------------
(* Properties.                                                             *)

\* The images the configuration asks for.  Of two entries for one pool the first
\* is the one that counts (rbd.go:117).
Wanted ==
    {i \in Images :
       \/ config = <<>>
       \/ \E n \in DOMAIN config :
             /\ config[n].name = i.pool
             /\ \A m \in 1..(n-1) : config[m].name # i.pool
             /\ config[n].namespaces = {} \/ i.namespace \in config[n].namespaces}

\* A walk that reports no error has handed over every image asked for that
\* existed all along, whatever else came and went: refresh then replaces all of
\* the collector's metrics by the result.
NilMeansComplete ==
    pc = "returned" /\ ~errs => stable \cap Wanted \subseteq visited

\* "a single unreadable pool or image cannot hide the metrics of all the
\* others" (rbd.go:46): unless time ran out, an image is missed only when a call
\* about itself, its namespace or its pool failed.
FailuresStayLocal ==
    pc = "returned" /\ ~expired => stable \cap Wanted \subseteq visited \cup lost

\* A walk that returns, however and from wherever, has closed the images and
\* released the IO contexts it opened.
ReturnsReleaseHandles == pc = "returned" => ioctx = {} /\ opened = {}

\* "Every IO context has to be released again" (rbd.go:83), and withRBDImage
\* "always closes" the image (rbd.go:162), also when the function panics and
\* updateCollector recovers.
HandlesAreReleased ==
    pc \in {"returned", "panicked"} => ioctx = {} /\ opened = {}

\* At any time one IO context at most is open, and one image at most, in the
\* pool and namespace that context stands for: it is never closed, nor set to
\* another namespace, under an open image.
HandlesNest ==
    /\ Cardinality(ioctx) <= 1 /\ Cardinality(opened) <= 1
    /\ \A i \in opened : i.pool \in ioctx /\ i.namespace = namespace

\* Once the context has expired at most one more image is worked on, however
\* many pools and namespaces are left (rbd.go:148).
ExpiryStopsTheWalk == expired => Cardinality(visited \ early) <= 1

\* What isRBDPool is documented to skip (rbd.go:91): pools that have no images
\* to report.
SkippingIsHarmless ==
    [][pc = "probeNamespaces" /\ pc' = "destroy" => stable \cap Of(pool) = {}]_vars
=============================================================================
