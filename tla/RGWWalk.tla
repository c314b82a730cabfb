------------------------------ MODULE RGWWalk -------------------------------
(***************************************************************************)
(* The walk of an RGW collector over the buckets or users of a realm       *)
(* (collector/rgw_buckets.go and collector/rgw_user_quota.go).  Both have  *)
(* the same shape: list, then per item fetch its information, emit the     *)
(* metrics every item has (buckets only) and then, when the quota of the   *)
(* item is enabled, the quota metrics.                                     *)
(*                                                                         *)
(* Before each metric the descriptor, which carries the labels, goes       *)
(* through the field current of the collector object.  There is one object *)
(* per collector: the Updates of all realms, and that of an abandoned      *)
(* cycle, run on it at the same time.                                      *)
(*                                                                         *)
(* The walks are composed with the cycles of refresh that call them: a     *)
(* cycle may begin at any time, for the one before may have been           *)
(* abandoned, and only the newest one is served, if it has no error.       *)
(***************************************************************************)
EXTENDS Naturals, FiniteSets

CONSTANTS Updates,      \* the calls of Update that run
          Collector,    \* Collector[u]: the object Update u runs on
          Realm,        \* Realm[u]: the client Update u was given
          Cycle,        \* Cycle[u]: the number of the cycle that calls u
          Enabling,     \* the choices of collectors to enable
          Items,        \* the buckets or users a realm may have
          UsageMetrics, \* UsageMetrics[k]: how many metrics every item has
          QuotaMetrics  \* QuotaMetrics[k]: how many more one with a quota has

Collectors == {Collector[u] : u \in Updates}

ASSUME RGWWalkAssumption ==
    /\ IsFiniteSet(Updates)
    /\ \A u \in Updates : Cycle[u] \in Nat \ {0}
    /\ \A E \in Enabling : E \subseteq Collectors
    /\ \A k \in Collectors : UsageMetrics[k] \in Nat /\ QuotaMetrics[k] \in Nat

VARIABLES current,  \* current[k]: the descriptor in the field; <<>> at first
          pc,       \* pc[u]: the next step of u
          todo,     \* todo[u]: items listed and still to visit
          item,     \* item[u]: the item visited, as a set
          quota,    \* quota[u]: the quota of that item, see Quota
          metric,   \* metric[u]: number of the metric to emit next
          errs,     \* errs[u]: whether u has an error to return
          sent,     \* sent[u]: what u has sent, and for which item
          latest,   \* latest[k]: the number of the newest cycle of k
          served,   \* served[k]: the cycle whose result is served; 0 for none
          listed,   \* history: listed[u]: the items u had to visit
          fetched,  \* history: fetched[u]: those it fetched, and their quota
          failed,   \* history: failed[u]: those it could not fetch
          mixed     \* history: the Updates that have met another on their object

itemVars == <<item, quota, metric>>
cycleVars == <<latest, served, mixed>>
historyVars == <<listed, fetched, failed>>
vars == <<current, pc, todo, itemVars, errs, sent, cycleVars, historyVars>>

\* The Updates that cycle n of k waits for, and those that are in progress on k.
Calls(k, n) == {u \in Updates : Collector[u] = k /\ Cycle[u] = n}
Running(k) == {u \in Updates : Collector[u] = k
                  /\ pc[u] \in {"list", "item", "describe", "emit"}}

Total(u) == UsageMetrics[Collector[u]] + QuotaMetrics[Collector[u]]

Metrics == UNION {1..Total(u) : u \in Updates}

\* A descriptor: the realm and item labels, and the metric name.
Desc == [realm : {Realm[u] : u \in Updates}, item : Items, metric : Metrics]

\* An enabled quota is the number of the first metric whose limit is missing.
Disabled == 0
Complete(u) == Total(u) + 1
Quota(u) == {Disabled} \cup ((UsageMetrics[Collector[u]] + 1)..Complete(u))

TypeOK ==
    /\ current \in [Collectors -> Desc \cup {<<>>}]
    /\ pc \in [Updates -> {"disabled", "waiting", "list", "item",
                          "describe", "emit", "returned", "ended"}]
    /\ todo \in [Updates -> SUBSET Items]
    /\ item \in [Updates -> SUBSET Items]
    /\ \A u \in Updates : quota[u] \in Quota(u) /\ metric[u] \in 1..Complete(u)
    /\ errs \in [Updates -> BOOLEAN]
    /\ sent \in [Updates -> SUBSET [desc : Desc, of : Desc]]
    /\ listed \in [Updates -> SUBSET Items]
    /\ \A u \in Updates : fetched[u] \subseteq Items \X Quota(u)
    /\ failed \in [Updates -> SUBSET Items]
    /\ latest \in [Collectors -> Nat] /\ mixed \in SUBSET Updates
    /\ \A k \in Collectors : served[k] \in 0..latest[k]

Init ==
    /\ current = [k \in Collectors |-> <<>>]
    /\ \E E \in Enabling :
          pc = [u \in Updates |-> IF Collector[u] \in E THEN "waiting" ELSE "disabled"]
    /\ todo = [u \in Updates |-> {}]
    /\ item = [u \in Updates |-> {}]
    /\ quota = [u \in Updates |-> Disabled]
    /\ metric = [u \in Updates |-> 1]
    /\ errs = [u \in Updates |-> FALSE]
    /\ sent = [u \in Updates |-> {}]
    /\ listed = [u \in Updates |-> {}]
    /\ fetched = [u \in Updates |-> {}]
    /\ failed = [u \in Updates |-> {}]
    /\ latest = [k \in Collectors |-> 0]
    /\ served = [k \in Collectors |-> 0]
    /\ mixed = {}

Goes(u, from, to) == pc[u] = from /\ pc' = [pc EXCEPT ![u] = to]

Errs(u) == errs' = [errs EXCEPT ![u] = TRUE]

\* mutant: one metric too many
ShareAndOne(u, q) ==
    IF q = Disabled THEN UsageMetrics[Collector[u]] + 1 ELSE Total(u) + 1

\* How many metrics an item has.
Share(u, q) == IF q = Disabled THEN UsageMetrics[Collector[u]] ELSE Total(u)

\* The descriptor Update u means for its next metric.
Meant(u, i) == [realm |-> Realm[u], item |-> i, metric |-> metric[u]]

-----------------------------------------------------------------------------
(* The cycles of refresh.                                                  *)

\* Once the cycle before is done, or has been abandoned.
Begin(k) ==
    LET new == Calls(k, latest[k] + 1)
        together == Running(k) \cup new
    IN
    /\ new # {} /\ \A u \in new : pc[u] = "waiting"
    /\ pc' = [u \in Updates |-> IF u \in new THEN "list" ELSE pc[u]]
    /\ latest' = [latest EXCEPT ![k] = @ + 1]
    /\ mixed' = IF Cardinality(together) > 1 THEN mixed \cup together ELSE mixed
    /\ UNCHANGED <<current, todo, itemVars, errs, sent, served, historyVars>>

\* mutant: also the result of a cycle with an error is served
MayServeAny(k, n) == n = latest[k]

MayServe(k, n) == n = latest[k] /\ \A u \in Calls(k, n) : ~errs[u]

\* All Updates of the cycle have returned.
Finish(k, n) ==
    /\ \A u \in Calls(k, n) : pc[u] = "returned"
    /\ pc' = [u \in Updates |-> IF u \in Calls(k, n) THEN "ended" ELSE pc[u]]
    /\ served' = IF MayServe(k, n) THEN [served EXCEPT ![k] = n] ELSE served
    /\ UNCHANGED <<current, todo, itemVars, errs, sent, latest, mixed, historyVars>>

-----------------------------------------------------------------------------
(* The walk.                                                               *)

\* ListBuckets or GetUsers; a client without RGW API fails at once.
List(u) ==
    /\ \/ \E found \in SUBSET Items :
             /\ Goes(u, "list", "item")
             /\ todo' = [todo EXCEPT ![u] = found]
             /\ listed' = [listed EXCEPT ![u] = found]
             /\ UNCHANGED errs
       \/ Goes(u, "list", "returned") /\ Errs(u) /\ UNCHANGED <<todo, listed>>
    /\ UNCHANGED <<current, itemVars, sent, cycleVars, fetched, failed>>

\* mutant: the first item that cannot be fetched ends the walk
FetchFails(u) == Goes(u, "item", "returned") /\ Errs(u)

\* A failure skips the item.
CannotFetch(u) == Goes(u, "item", "item") /\ Errs(u)

\* GetBucketInfo or GetUserQuota
Fetch(u, i) ==
    /\ todo' = [todo EXCEPT ![u] = @ \ {i}]
    /\ \/ /\ Goes(u, "item", "describe")
          /\ \E q \in Quota(u) :
                /\ quota' = [quota EXCEPT ![u] = q]
                /\ fetched' = [fetched EXCEPT ![u] = @ \cup {<<i, q>>}]
          /\ item' = [item EXCEPT ![u] = {i}]
          /\ metric' = [metric EXCEPT ![u] = 1]
          /\ UNCHANGED <<errs, failed>>
       \/ /\ CannotFetch(u)
          /\ failed' = [failed EXCEPT ![u] = @ \cup {i}]
          /\ UNCHANGED <<itemVars, fetched>>
    /\ UNCHANGED <<current, sent, cycleVars, listed>>

\* mutant: the quota metrics reuse the last descriptor
DescribedOnce(u, i) == IF metric[u] > UsageMetrics[Collector[u]]
                       THEN current[Collector[u]] ELSE Meant(u, i)

\* prometheus.NewDesc
Described(u, i) == Meant(u, i)

\* c.current = prometheus.NewDesc(...)
Describe(u, i) ==
    /\ metric[u] <= Share(u, quota[u])
    /\ Goes(u, "describe", "emit")
    /\ current' = [current EXCEPT ![Collector[u]] = Described(u, i)]
    /\ UNCHANGED <<todo, itemVars, errs, sent, cycleVars, historyVars>>

\* ch <- prometheus.MustNewConstMetric(c.current, ...), with the limit there
Emit(u, i) ==
    /\ metric[u] # quota[u]
    /\ Goes(u, "emit", "describe")
    /\ sent' = [sent EXCEPT ![u] = @ \cup {[desc |-> current[Collector[u]],
                                           of |-> Meant(u, i)]}]
    /\ metric' = [metric EXCEPT ![u] = @ + 1]
    /\ UNCHANGED <<current, todo, item, quota, errs, cycleVars, historyVars>>

\* mutant: the panic is recovered without setting the error
Swallowed(u) == UNCHANGED errs

\* The deferred recover of updateCollector sets err.
Recovered(u) == Errs(u)

\* The limit is a nil pointer: a panic.
NilLimit(u) ==
    /\ metric[u] = quota[u]
    /\ Goes(u, "emit", "returned")
    /\ Recovered(u)
    /\ UNCHANGED <<current, todo, itemVars, sent, cycleVars, historyVars>>

NextItem(u) ==
    /\ metric[u] > Share(u, quota[u])
    /\ Goes(u, "describe", "item")
    /\ item' = [item EXCEPT ![u] = {}]
    /\ UNCHANGED <<current, todo, quota, metric, errs, sent, cycleVars, historyVars>>

Return(u) ==
    /\ todo[u] = {}
    /\ Goes(u, "item", "returned")
    /\ UNCHANGED <<current, todo, itemVars, errs, sent, cycleVars, historyVars>>

UpdateStep(u) ==
    \/ List(u) \/ NextItem(u) \/ NilLimit(u) \/ Return(u)
    \/ \E i \in todo[u] : Fetch(u, i)
    \/ \E i \in item[u] : Describe(u, i) \/ Emit(u, i)

Next == \/ \E k \in Collectors :
              Begin(k) \/ \E u \in Updates : Collector[u] = k /\ Finish(k, Cycle[u])
        \/ \E u \in Updates : UpdateStep(u)

Spec == Init /\ [][Next]_vars

-----------------------------------------------------------------------------
(* Properties.                                                             *)

\* A metric carries the labels of the item whose value it has, and the name of
\* the quantity it is, in an Update that has had its collector object to itself:
\* whatever cycles before it, which may have panicked, left in current.
LabelsAreRight == \A u \in Updates \ mixed : \A m \in sent[u] : m.desc = m.of

\* NilLimit ended u: it was not done with its item.
Panicked(u) == pc[u] \in {"returned", "ended"} /\ item[u] # {}

\* Unless a panic ended it, a walk has asked for every item listed and sent all
\* the metrics of each that it could fetch, whichever others failed.
FailuresStayLocal ==
    \A u \in Updates : pc[u] = "returned" /\ ~Panicked(u) =>
       /\ listed[u] = failed[u] \cup {f[1] : f \in fetched[u]}
       /\ \A f \in fetched[u], n \in 1..Total(u) :
             n <= Share(u, f[2]) =>
                \E m \in sent[u] : m.of.item = f[1] /\ m.of.metric = n

\* What is served of a collector is whole: every item that was listed, in every
\* realm, has all its metrics, whatever failed or panicked and whichever cycle
\* was abandoned (collector.go:239: a partial result "would silently shrink the
\* exported series set").
ServedIsWhole ==
    \A k \in Collectors : \A u \in Calls(k, served[k]) : \A i \in listed[u] :
       \E q \in {Disabled, Complete(u)} :
          /\ <<i, q>> \in fetched[u]
          /\ \A n \in 1..Share(u, q) :
                \E m \in sent[u] : m.of.item = i /\ m.of.metric = n

\* "You can use the exporter to scrape metrics from multiple RGW realms"
\* (README.md:200): no metric served that the Update of one realm sent is
\* labelled with another.
RealmsStayApart ==
    \A k \in Collectors : \A u \in Calls(k, served[k]) :
       \A m \in sent[u] : m.desc.realm = Realm[u]
=============================================================================
