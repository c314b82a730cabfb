# A formal model of extended-ceph-exporter

The exporter collects metrics from a Ceph cluster in the background and answers
a Prometheus scrape from what it stored. This directory models it in TLA+:
modules that follow the Go code action by action, configurations that check
them with TLC, and theorems for every value of the constants that TLAPS proves.
`PROJECT.json` maps every definition to the lines it models, and lists the runs,
the findings and the hazards.

## The system

| Component | Source | State it keeps | Operations |
|---|---|---|---|
| Refreshers and scrape cache | `collector.go` | `cache`, `self`, `lastRefresh`, `generation` by collector, under `cacheMutex` | a `refreshLoop` goroutine per collector, a goroutine per cycle in `refresh`, `Collect`/`snapshot` per scrape |
| One collection | `collector.go`, `collectors.go` | channel, `WaitGroup`, `failed`, `selfMu`, `data`, `self`; all local to one call | `runCollector`: a goroutine per client, a drainer, the caller; `updateCollector`; `Emit` |
| RBD walk | `collector/rbd.go` | open IO context and image, accumulated errors | `eachRBDImage` over pools, namespaces, images |
| RBD collectors | `rbd_images.go`, `rbd_image_usage.go`, `rbd_volumes.go` | none | `Update` for each, called per image by the walk |
| RGW collectors | `rgw_buckets.go`, `rgw_user_quota.go` | the field `current` | `Update` over the buckets or users of a realm |
| Startup | `main.go` | RADOS connection, clients, collectors | flags over file, connect, clients, collectors, start, listen |
| Configuration loading | `pkg/config` | none | the two files over the defaults |
| HTTP server, registry | libraries | | calls `Collect` per scrape |
| Dashboards, packaging, CI | `grafana`, `scripts`, `.github`, ... | none | |

How they interact. `main` builds one client per realm, or a default one, with one
RADOS connection between them, one object per collector, and starts a loop
goroutine per collector. A loop runs a cycle at once and then one per tick. A
cycle runs the collector against all clients side by side (`runCollector`), takes
`cacheMutex`, and stores the result unless a later cycle has begun. The loop waits for its cycle until
the interval has passed, then abandons it; the abandoned goroutine goes on and
may end at any later time, or never. Scrapes take the read lock, copy, and send
after they released it.

What is hard in it:

* an abandoned cycle races its successors and the scrapes;
* three maps are stored one after the other while scrapes read them;
* a collection has four kinds of goroutine that end in a certain order;
* librados may block for ever, and the scraping client may never read;
* ticker, watchdog and the deadline of a collection run on different clocks;
* the cluster changes during a walk, and any call may fail or panic;
* one collector object serves all realms at once.

What makes each part correct:

* *refreshers*: only the newest cycle publishes, its result is not lost, a scrape
  is one instant, nothing waits for ever on the lock; cycles begin when they are due,
  the timestamp does not flatter the data, and old data is not served as a success;
* *collection*: what is returned is complete and final, as if handed over at once, nobody sends on a closed
  channel, a hanging client stops no other from sending;
* *RBD walk*: no error means no image was missed, failures stay local, handles
  are released, an expired context stops the walk;
* *RBD collectors*: the series served are those the metadata read calls for;
* *RGW collectors*: a metric has the labels of what it is about, and what is served
  of a collector is whole;
* *startup*: what serves has clients, a connection that is connected and bounded,
  and the settings given.

## Modules

| Module | What it models |
|---|---|
| `MetricsCache` | abstract: cycles begin, the newest publishes at once, a scrape answers with one instant |
| `Refresher` | `StartRefreshers`, `refreshLoop`, `refresh`, `snapshot`, `Collect` and `cacheMutex` |
| `RefresherProofs` | theorems about `Refresher`, and that it implements `MetricsCache` |
| `RefreshTiming` | the refresher of one collector against a clock: ticker, watchdog, deadline |
| `Gathering` | abstract: clients contribute and report, the result is handed over at once |
| `Collection` | `runCollector`, `updateCollector`, `Emit`; implements `Gathering` |
| `RBDWalk` | `eachRBDImage` and below, with the cluster as environment |
| `ImageMetrics` | the three RBD `Update` functions up to what is served of them |
| `RGWWalk` | the two RGW `Update` functions, composed with the cycles that call them |
| `Startup` | `main` and `pkg/config` |
| `CollectionProofs`, `StartupProofs`, `RBDWalkProofs`, `RGWWalkProofs`, `ImageMetricsProofs`, `RefreshTimingProofs` | theorems about the module of that name |
| `MC...` | instances for TLC |

**Refresher.** A metric is the number of the cycle that produced it; 0 is none.
`loop[c]` and `cycle[c][g]` are program counters of the loop of `c` and of its
`g`-th cycle. `writer` holds whoever has called `Lock` and not `Unlock`; a writer
proceeds once no scrape is `reading`, and keeps new ones out meanwhile, as
`sync.RWMutex` does. `PublishSelf`, `PublishData` and `PublishStamp` are the three
assignments of a success; a failure has one. The last of them and `Discard`
include the deferred unlock; `CloseDone` is the deferred `close(done)`.
`Watchdog` may win over a `done` that is ready, as in `select`. `Copy` appends
one collector's metrics, in any order, as ranging over a map does. `main` only
cancels the context when it returns, which it never does (`logger.Fatal` exits
before deferred calls); `Cancel` is there because `StartRefreshers` takes a
context, and at any time, since its callers may.

**RefreshTiming.** One collector, whose clock advances (`Elapse`) only when nobody has
something due: a call that has taken as long as it may, a tick, a watchdog, a lock
that has been awaited for `Lag`. The settings are a *regime* of interval,
`collector-timeout` and `call`, the longest that the calls between two looks at the context
take; 0 stands for an `opTimeout` of 0, with which they may block for ever. Locks and
scrapes are `Refresher`'s; here publishing is one step. The deadline of a
collection is looked at before each item (`Visit`, `GiveUp`), as the RBD walk
does; `visited` says whether a cycle got to one. `self` has, of the scrape metrics, the
cycle that stored them and its success.

**Collection.** `append` is a read and a store (`ReadSelf`, `StoreDuration`,
`StoreSuccess`), so a lost update would show. A rendezvous on the unbuffered
channel is one step of both sides (`Receive`). `Update` emits any number of
metrics up to `MaxEmit`, returns an error or none, panics, or never returns; `Recovered` is
what the deferred function of `updateCollector` makes of a panic. `constMetric` cannot fail
for the two scrape metrics, whose numbers of labels are fixed, so `self` always gets both.
`HandsOverAtOnce` is the refinement of `Gathering`: what a client has emitted is what it
contributed, how its `Update` ended is its report, where a panic is an error, and the return
of `runCollector` is the hand-over.

**RBDWalk.** `existing` changes at any step. A call succeeds or fails at will,
except that the two calls of `isRBDPool` (`Stat`, `ProbeNamespaces`) fail only with
`ProbeFaults`: that they may is a finding of its own, and the other properties are checked without it. The
function may panic, which ends the walk (`"panicked"`) with an image open.
`config` is `rbd.pools`, a sequence of entries chosen at the start; of several for one
pool the first counts, as `IndexFunc` finds it. An entry repeats no namespace, and
may name one without images. An image is known by its pool, namespace and name.
`stable`, `visited`, `early` and `lost` are history. A pool's `rbd_directory` object exists at least as long as an image in
the default namespace does, which is why `stat` is bounded from below. A listing of
namespaces has those with an image in them and any others: they come and go between
the listing of `isRBDPool` and that of the walk.

**ImageMetrics.** `meta` gives the metadata of the images that exist and changes
at any step. The collectors enabled are chosen at the start among `Enabling`. The
walk is one listing of one namespace; `Tick` starts a cycle of every enabled
collector at once, the case most favourable to equal intervals. A
value `"bad"` neither parses as a number nor is valid as a label. `errs` holds the
images about which an error was accumulated.

**RGWWalk.** Both collectors list, fetch per item, send what every item has and,
with an enabled quota, what the quota has. `rgw_user_quota` has no metrics of the
first kind. `Collector[u]` is the object that `Update` `u` runs on: `Describe` sets
its field `current`, `Emit` reads it. A quota is disabled or the number of the
first metric whose limit is missing, at which `NilLimit` panics. `Cycle[u]` is the cycle
of `refresh` that calls `u`: `Begin` may come while the cycle before is running, which then
has been abandoned, and `Finish` serves a cycle if it is the newest and no `Update` of it
has an error. `mixed` is history: the `Update`s that have met another on their object.

**Startup.** A configuration is chosen at the start: the state of the two files
(given, missing, malformed), what they say, and the flags. A setting named nowhere has
its default; one in the file goes over it, and a flag over that (`Over`). Every call that
can fail may (`Fatal`). ceph.conf sets the librados options at will, also to what is no
number (`NoNumber`). Times are seconds and may be negative.

## Runs

| Run | Shows |
|---|---|
| `Refresher_overrun` | one collector, three cycles, one scrape, with fairness: `NoResultLost`, `ScrapesAreCoherent`, `ScrapesAreACut`, `OnlyTheNewestPublishes`, the refinement `KeepsThePromise`, and `CyclesSettle`, `LoopsAdvance`, `ScrapesReturn` |
| `RefreshTiming_all` | four regimes, time for up to five cycles: `CyclesKeepPace`, `StampIsHonest`, `InFlightIsBounded`, `NoTimeNoData`, `InTimeMeansPublished`, `StalenessIsVisible` |
| `Collection_all` | two clients, two metrics each, either may hang or panic: `ResultIsComplete`, `NoSendOnClosed`, the refinement `HandsOverAtOnce`, `SendersAreServed`, `CollectionEnds` |
| `RBDWalk_all` | three pools, two namespaces, four images, with and without a selection that names a missing pool and one pool twice: `NilMeansComplete`, `FailuresStayLocal`, `ReturnsReleaseHandles`, `HandlesNest`, `ExpiryStopsTheWalk` |
| `RGWWalk_realm` | each collector on one realm, the first for two cycles, two items, any limit may be missing: `LabelsAreRight`, `FailuresStayLocal`, `ServedIsWhole` |
| `ImageMetrics_all` | each RBD collector, two images, two cycles, four kinds of metadata: `PublishedIsWhole`, `OwnersAreExact`, `LimitsAreExact` |
| `Startup_all` | 1628 configurations of files, collectors, realms, timeouts and intervals, and failures: `CollectorsCanCollect`, `OperationsAreBounded`, `FlagsWin` |
| `RBDWalk_skip`, `RBDWalk_panic`, `RGWWalk_realms`, `ImageMetrics_hide`, `ImageMetrics_join` | expected violations, below |

Why the bounds are enough. All the safety properties, action properties and refinements
above are proved for every value of the constants too (below), so the bounds
matter for liveness and for what the violations show; besides that they make every
action happen and every mutant fail.

* `Refresher`: the rules of `refresh` compare a cycle with the newest one, so two
  cycles show a stale one and three show two stale ones racing a current one.
  Collectors share only the lock, and a second one, or a second scrape, contends
  for it as the cycles and the scrape of the first do. That a scrape is one instant
  across several collectors (`ScrapesAreACut`) is shown by the theorem alone.
* `RefreshTiming`: the regimes are collections that fit their interval (4, 1, 1),
  that outlive two intervals (2, 4, 1), that have no time at all (3, 0, 1) and that
  may block for ever (3, 2, 0). `MaxNow` = 9 has five cycles of the second regime, of
  which three can be under way together, and is one more than data of the first may be old
  beside a success (8); a `Lag` of 1 is enough for a cycle to begin off the ticker's grid.
* `Collection`: two clients contend for channel and mutex, and with two metrics each one
  may send between the other's.
* `RBDWalk`: one pool has images inside and outside a named namespace under one
  name, one has two images in a named namespace and none outside, so that one image can fail
  beside another, and one has none.
* `RGWWalk`, `ImageMetrics`: two items or images show one failing beside one that
  does not, and two cycles an abandoned or failed one beside a good one. Collectors run one at a
  time, as they share only the cluster, except in the run about joins. One metric of
  each kind for `rgw_buckets` (5 and 2 in the code) and none and two for `rgw_user_quota` (0
  and 3) have each boundary: the last without a quota, the first and the last with one.
* `Startup`: realms of different and of equal names, a collector that does not
  exist, times below 0, at 0 and above it, and each group of settings varied in full while the others stay at their default, since
  no step reads two of them.

Images and items are symmetric in `ImageMetrics_all` and `RGWWalk_realm`, which check
invariants only; no liveness run uses symmetry.

Deadlock is checked except in `Collection`, `RGWWalk` and `Startup`, where the call
or the process really ends. In `RefreshTiming` the clock stops at `MaxNow` by repeating
the instant, and what is due then still happens.

Fairness. Go's scheduler runs every goroutine that can run: weak fairness of each
step. `sync.Mutex` hands the lock to a waiter starved for a millisecond, `RWMutex`
lets in the readers that waited for a writer, and an unbuffered channel serves
senders in order: strong fairness of taking either lock and of `Receive`. Timers
fire. Nothing is assumed of `RunCollector` and `Update` (librados may block for
ever), of `Deliver` (the scraping client sets the pace), `Arrive` or `Cancel`.
`Tick` is fair within the bound on cycles. `RefreshTiming` needs none: that something
happens in time is an invariant about the clock.

Each property of a passing run has a mutant: a definition marked `mutant:` in the
module, in place of the one it precedes, which breaks it.

## What was found

1. `RBDWalk_skip`: an error inside `isRBDPool` (`rbd.go:98`, `rbd.go:106`) reads as
   "no RBD pool": a pool with images is skipped and the cycle succeeds with fewer series.
2. `RBDWalk_panic`: `ioctx.Destroy()` and `image.Close()` are not deferred, so a
   recovered panic leaks both.
3. `RGWWalk_realms`: `c.current` is shared by the `Update`s of all realms, so a metric
   can carry the labels of another realm.
4. `ImageMetrics_hide`: errors are accumulated so that one image cannot hide the
   others, and then any error keeps `refresh` from publishing the others.
5. `ImageMetrics_join`: equal intervals do not make joins exact; each collector
   lists the images at its own time.

Finding 3 does not need two realms: an abandoned cycle and its successor share the
object in the same way, which is why `LabelsAreRight` leaves out every `Update` that has
met another. What is then served still has every metric of every item (`ServedIsWhole`), under
labels that may be another's: it counts metrics by the item they were sent for.

Three more were met on the way and have no run. The message for a discarded result
(`collector.go:263`) says that a later cycle has published; `Discard` needs it only to
have *begun*, so a collector that always overruns its interval never publishes, even
when every collection succeeds. `InTimeMeansPublished` is what does hold: a collection
that is well within its interval is served. And `StalenessIsVisible` is what a scrape can
rely on: while a collector whose collections fit its interval reports success, its data is no
older than the time from the end of one collection to that of the next. So where the alert on
the age of the timestamp (`src/README.md:188`) goes off, with a threshold above that, either the
success is gone or collections no longer fit.

Nothing reads the global `skipTLSVerify`
(`config.example.yaml:8`): a client looks at that of its realm alone (`main.go:341`). And
of two `rbd.pools` entries for one pool the second is silently without effect
(`rbd.go:117`).

## What is proved

Every invariant, action property and refinement that a passing run checks is a
theorem for every value of the constants. Each proof module has the
same shape. The properties are not inductive, so an invariant `IInv` is stated as a
conjunction of named parts and TLC has checked it on the run's instance; `InitInv`
shows that it holds at first, a lemma per part (`TypeStep`, `LockStep`, ...) goes
through the actions, `InvariantTheorem` (`Inductive` in `RefresherProofs`) combines
them, and the theorems follow. The type invariants are the `TypeCorrect` of each module.

| Module | Theorem | Property |
|---|---|---|
| `RefresherProofs` | `NoResultLostTheorem` | `NoResultLost` |
| | `NewestTheorem` | `OnlyTheNewestPublishes` |
| | `ScrapeCutTheorem`, `CoherenceTheorem` | `ScrapesAreACut`, `ScrapesAreCoherent` |
| | `PromiseTheorem` | `KeepsThePromise`: implements `MetricsCache` |
| `RefreshTimingProofs` | `PaceTheorem` | `CyclesKeepPace` |
| | `StampTheorem`, `NoTimeTheorem` | `StampIsHonest`, `NoTimeNoData` |
| | `FlightTheorem` | `InFlightIsBounded` |
| | `InTimeTheorem` | `InTimeMeansPublished` |
| | `VisibleTheorem` | `StalenessIsVisible` |
| `CollectionProofs` | `NoSendTheorem`, `CompleteTheorem` | `NoSendOnClosed`, `ResultIsComplete` |
| | `HandOverTheorem` | `HandsOverAtOnce`: implements `Gathering` |
| `RBDWalkProofs` | `NestTheorem`, `ReleaseTheorem` | `HandlesNest`, `ReturnsReleaseHandles` |
| | `ExpiryTheorem` | `ExpiryStopsTheWalk` |
| | `CompleteTheorem`, `LocalTheorem` | `NilMeansComplete`, `FailuresStayLocal`, if `ProbeFaults` is `FALSE` |
| `RGWWalkProofs` | `LabelsTheorem` | `LabelsAreRight` |
| | `LocalTheorem`, `ServedTheorem` | `FailuresStayLocal`, `ServedIsWhole` |
| `ImageMetricsProofs` | `WholeTheorem` | `PublishedIsWhole` |
| | `OwnersTheorem`, `LimitsTheorem` | `OwnersAreExact`, `LimitsAreExact` |
| `StartupProofs` | `CollectTheorem`, `BoundedTheorem`, `FlagsTheorem` | `CollectorsCanCollect`, `OperationsAreBounded`, `FlagsWin` |

**From which assumptions.** Those named in the modules, and no others except one.

* `MaxGenAssumption`: the bound on cycles is a positive natural number.
* `RefreshTimingAssumption`: `Lag`, the end of time and the settings are natural
  numbers, the interval a positive one (`intervalFor` returns no less than `minRefreshInterval`).
* `CollectionAssumption`: there are finitely many clients, else `wgCollection` could
  not count them, and `MaxEmit` is a natural number.
* `RBDWalkAssumption`: images are in pools and known by pool, namespace and name;
  `rbd.pools` is a sequence.
* `RGWWalkAssumption`: there are finitely many `Update`s, cycles are numbered from 1, the
  numbers of metrics are natural numbers.
* `ImageMetricsAssumption`: only existing collectors are enabled, metadata has keys and values of
  those considered, "no image" is not an image, the number of cycles is bounded.
* `StartupAssumption`: the default of each setting is positive, only collectors with a
  factory are enabled by default, times are integers and `NoNumber` is none, configurations have
  their shape and at most `MaxRealms` realms.

`CompleteTheorem` and `LocalTheorem` of `RBDWalkProofs` have the hypothesis
`ProbeFaults = FALSE`, as the run has: with failing probes both are false, which is finding 1.
The other theorems about the walk hold with it or without.

**Along which arguments.** Besides the types:

* `RefresherProofs`. `CyclesInv`: which cycles have begun, and where the loop stands to its
  newest one. `LockInv`: at most one writer, exactly the goroutines in a critical section
  hold the lock, and none is between its assignments while a scrape is reading. `MapsInv`:
  what the three maps hold, in terms of how far the newest cycle is. `SeenInv`: what a
  scrape has copied is current while it is reading, and coherent afterwards. That a
  scrape copies current data needs `LockInv`: nobody assigns while it reads. The
  refinement maps a success to the moment `self` is assigned; until the lock is
  released no scrape can see the difference (`PublishedIsServed`).
* `RefreshTimingProofs`. `EpochInv`, `LoopInv` and `TickerInv` place the loop and the
  next tick within the turn of the newest cycle. `PaceInv` adds up: the loop is behind
  the ticker's grid by no more than `Lag` for each slow cycle, and the ticks dropped
  fit in that. It is stated over `Pace(f, c, d)`, whose arguments are the products, so
  that the steps are linear arithmetic. `CycleInv` bounds how long a cycle is where it is. `WaitInv`
  and `FlightInv` say that cycles under way are an interval apart, so the span from
  the oldest (`Oldest`: a set of natural numbers has a least one) to the newest bounds their number.
  `SelfInv` says that the newest cycle has stored its scrape metrics exactly if it is done.
  `FirstInv` says that the first cycle, alone in starting before the ticker, is followed by the
  second at its first tick; `FreshInv`, which is for collections that fit, that a success is that of the
  newest cycle or the one before it, whose data was stored after its turn began.
* `CollectionProofs`. `ClientsInv` relates what a client reported to where it is; `WaitInv`
  says what each of the three waits established (`wg` is the number of clients counted, so
  zero means all are gone; only then is the channel closed); `DataInv`: `data` is what was
  sent but for the metric in the drainer's hand, without repetitions; `SelfInv`: whoever
  is between read and store of `self` holds `selfMu` alone, so what it read is still
  `self`. The refinement maps `Receive` to a contribution, the end of an `Update` to a report and `Return`
  to the hand-over; the lemmas on sequences without repetitions make the bags equal.
* `RBDWalkProofs`. `HandleInv`: the handles open are those of the place the walk is at.
  `ExpiryInv`: what was visited after the expiry is at most one image, and
  until it is that one the walk is past no second check. `WalkInv`: an image asked for that existed all
  along is visited, behind a failed call, given up for want of time, or `Ahead`, which spells out for
  each place what the loops still hold.
* `RGWWalkProofs`. `MeetingInv`: `Update`s in progress on one object have met. `CurrentInv`: the
  descriptor in the field is that of the item, if the `Update` has met no other. `WalkInv`:
  per `Update` what is still to be visited, fetched and sent. `ServedInv`: the `Update`s of the cycle
  served have ended without an error.
* `ImageMetricsProofs`. `PlacesInv`: where each collector is and what it has at hand there.
  `AllSeriesInv`: of each image visited every series is still due, or is right for the metadata
  seen, or an error was accumulated; a walk that ends without an error has nothing due, so all is right.
* `StartupProofs`. `LoadInv`: settings and collectors are what the layers come to as far as
  they have been read. `RadosInv`: an option already looked at is bounded or preset. `ClientsInv`:
  the clients are those of the realms added, each as the last of its name says. `RunInv`: what was built.

**Only model-checked.** Liveness under fairness, which is out of the prover's reach: `CyclesSettle`,
`LoopsAdvance`, `ScrapesReturn`, `SendersAreServed`, `CollectionEnds`. And the five
properties that are expected to be violated.

## What is not modelled

* Values of metrics; the sum over extents in `rbdImageUsedBytes` is a call that
  succeeds or fails.
* The duty cycle warning and all other logging.
* Parsing of files and flags (viper, pflag): whether a file parses and what it says are
  inputs of `Startup`. Search paths, environment expansion and decoding are libraries'.
* net/http, promhttp and the registry; that it refuses duplicate series (realms
  with RBD collectors, `main.go:192`) is noted as a hazard.
* A restart of the exporter: nothing is persisted, so it is `Init`.
* Dashboards, packaging, CI: no state.

## Plan

Done, in this order: `MetricsCache` and `Refresher`, `RefresherProofs`, `Collection`,
`RBDWalk`, `RGWWalk`, `ImageMetrics`, `Startup`, `RefreshTiming`, `Gathering` with its
refinement, `RGWWalk` composed with cycles; then the proofs: `CollectionProofs`,
`StartupProofs`, `RBDWalkProofs`, `RGWWalkProofs`, `RefreshTimingProofs`,
`ImageMetricsProofs`.

What is left:

1. theorems about the abstract specifications alone, which by the refinements hold of the code's
   models too: that what `MetricsCache` answers is coherent and never goes back, that what
   `Gathering` hands over is final;
2. what holds of `RBDWalk` when probes fail: an image is missed only in a pool one of whose
   probes failed;
3. shorter proofs for the steps of `RefreshTimingProofs` and `ImageMetricsProofs` that
   repeat one another.
