----------------------------- MODULE Refresher ------------------------------
(***************************************************************************)
(* The background refreshers and the scrapes that replay what they stored  *)
(* (collector.go: StartRefreshers, refreshLoop, refresh, snapshot and      *)
(* Collect).                                                               *)
(*                                                                         *)
(* Every collector has a loop goroutine, which begins cycles and stops     *)
(* waiting for one when its watchdog fires, and one goroutine per cycle it *)
(* ever began: an abandoned cycle keeps running and may end at any later   *)
(* time.  Cycles publish under the write lock of cacheMutex, one map at a  *)
(* time; scrapes copy under its read lock, one collector at a time, and    *)
(* deliver the copy after they released it.                                *)
(*                                                                         *)
(* A metric is named by the cycle (generation) that produced it, a refresh *)
(* timestamp by the cycle that stored it; 0 stands for no metric.          *)
(***************************************************************************)
EXTENDS Integers, FiniteSets

CONSTANTS Collectors,   \* the enabled collectors
          Scrapers,     \* the concurrent scrapes
          MaxGen        \* bound: cycles a collector begins

ASSUME MaxGenAssumption == MaxGen \in Nat \ {0}

VARIABLES
    loop,         \* loop[c]: where refreshLoop of c is
    generation,   \* generation[c]: the generation map
    cycle,        \* cycle[c][g]: where the goroutine of c's g-th cycle is
    cancelled,    \* the context of the refreshers is done
    writer,       \* who has called cacheMutex.Lock and not yet Unlock
    cache,        \* cache[c]: the cycle whose data metrics are stored
    self,         \* self[c]: the scrape metrics stored, of which cycle
    lastRefresh,  \* lastRefresh[c]: the cycle that set the timestamp
    scraper,      \* scraper[s]: where Collect is
    seen          \* seen[s]: the part of the snapshot copied so far

cacheVars == <<cache, self, lastRefresh>>
scrapeVars == <<scraper, seen>>
vars == <<loop, generation, cycle, cancelled, writer, cacheVars, scrapeVars>>

Generation == 1..MaxGen

\* The goroutines that write: <<c, 0>> is the loop of c, <<c, g>> its cycle g.
Actor == Collectors \X (0..MaxGen)

LoopState == {"begin", "waiting", "select", "returned"}

\* ok and failed: runCollector has returned, and how.  self, data and stamp:
\* that map is the next to be assigned.
CycleState == {"idle", "running", "ok", "failed",
               "data", "stamp", "closing", "done"}

View == [data : 0..MaxGen, self : 0..MaxGen, success : BOOLEAN,
         stamp : 0..MaxGen]

\* Snapshots under construction, and the empty one.
Copies == UNION {[D -> View] : D \in SUBSET Collectors}

Nothing == [c \in {} |-> 0]

TypeOK ==
    /\ loop \in [Collectors -> LoopState]
    /\ generation \in [Collectors -> 0..MaxGen]
    /\ cycle \in [Collectors -> [Generation -> CycleState]]
    /\ cancelled \in BOOLEAN
    /\ writer \in SUBSET Actor
    /\ cache \in [Collectors -> 0..MaxGen]
    /\ self \in [Collectors -> [cycle : 0..MaxGen, success : BOOLEAN]]
    /\ lastRefresh \in [Collectors -> 0..MaxGen]
    /\ scraper \in [Scrapers -> {"idle", "rlock", "reading", "sending"}]
    /\ seen \in [Scrapers -> Copies]

Init ==
    /\ loop = [c \in Collectors |-> "begin"]
    /\ generation = [c \in Collectors |-> 0]
    /\ cycle = [c \in Collectors |-> [g \in Generation |-> "idle"]]
    /\ cancelled = FALSE
    /\ writer = {}
    /\ cache = [c \in Collectors |-> 0]
    /\ self = [c \in Collectors |-> [cycle |-> 0, success |-> FALSE]]
    /\ lastRefresh = [c \in Collectors |-> 0]
    /\ scraper = [s \in Scrapers |-> "idle"]
    /\ seen = [s \in Scrapers |-> Nothing]

-----------------------------------------------------------------------------
(* cacheMutex, a sync.RWMutex: a writer first keeps out the other writers  *)
(* and any new reader, then waits for the readers that are inside.         *)

\* mutant: the read lock is kept while the metrics are sent
LockedWhileSending == {s \in Scrapers : scraper[s] \in {"reading", "sending"}}

Reading == {s \in Scrapers : scraper[s] = "reading"}

MayLock == writer = {}

\* mutant: snapshot does not take the read lock
NoRLock == TRUE

MayRLock == writer = {}

\* mutant: a writer does not wait for the readers inside
HoldsBesideReaders(a) == a \in writer

Holds(a) == a \in writer /\ Reading = {}

Locked(a) == writer' = writer \cup {a}

\* mutant: a return that does not unlock
StillLocked(a) == UNCHANGED writer

Unlocked(a) == writer' = writer \ {a}

-----------------------------------------------------------------------------
(* refreshLoop and the part of refresh that it runs.                       *)

LoopLock(c) ==
    /\ loop[c] = "begin"
    /\ MayLock
    /\ Locked(<<c, 0>>)
    /\ UNCHANGED <<loop, generation, cycle, cancelled, cacheVars, scrapeVars>>

\* mutant: the generation counts down
BumpedDown(c) == generation[c] - 1

Bumped(c) == generation[c] + 1

\* The generation is bumped and read in one critical section, and the
\* goroutine of the cycle is started.
BeginCycle(c) ==
    /\ loop[c] = "begin"
    /\ Holds(<<c, 0>>)
    /\ generation' = [generation EXCEPT ![c] = Bumped(c)]
    /\ cycle' = [cycle EXCEPT ![c][Bumped(c)] = "running"]
    /\ loop' = [loop EXCEPT ![c] = "waiting"]
    /\ Unlocked(<<c, 0>>)
    /\ UNCHANGED <<cancelled, cacheVars, scrapeVars>>

\* case <-done
Complete(c) ==
    /\ loop[c] = "waiting"
    /\ cycle[c][generation[c]] = "done"
    /\ loop' = [loop EXCEPT ![c] = "select"]
    /\ UNCHANGED <<generation, cycle, cancelled, writer, cacheVars, scrapeVars>>

\* mutant: refresh only waits for done
NoWatchdog(c) == FALSE

\* case <-time.After(bound), which may also win against a done that is ready
Watchdog(c) ==
    /\ loop[c] = "waiting"
    /\ loop' = [loop EXCEPT ![c] = "select"]
    /\ UNCHANGED <<generation, cycle, cancelled, writer, cacheVars, scrapeVars>>

\* case <-ticker.C; select picks either case when both are ready
Tick(c) ==
    /\ loop[c] = "select"
    /\ generation[c] < MaxGen
    /\ loop' = [loop EXCEPT ![c] = "begin"]
    /\ UNCHANGED <<generation, cycle, cancelled, writer, cacheVars, scrapeVars>>

\* case <-ctx.Done()
Stop(c) ==
    /\ loop[c] = "select"
    /\ cancelled
    /\ loop' = [loop EXCEPT ![c] = "returned"]
    /\ UNCHANGED <<generation, cycle, cancelled, writer, cacheVars, scrapeVars>>

Cancel ==
    /\ ~cancelled
    /\ cancelled' = TRUE
    /\ UNCHANGED <<loop, generation, cycle, writer, cacheVars, scrapeVars>>

-----------------------------------------------------------------------------
(* The goroutine of a cycle.                                               *)

\* runCollector returns; nothing forces it to, as it may block in librados.
RunCollector(c, g) ==
    /\ cycle[c][g] = "running"
    /\ \E result \in {"ok", "failed"} :
          cycle' = [cycle EXCEPT ![c][g] = result]
    /\ UNCHANGED <<loop, generation, cancelled, writer, cacheVars, scrapeVars>>

CycleLock(c, g) ==
    /\ cycle[c][g] \in {"ok", "failed"}
    /\ MayLock
    /\ Locked(<<c, g>>)
    /\ UNCHANGED <<loop, generation, cycle, cancelled, cacheVars, scrapeVars>>

\* mutant: the generation is read before it is bumped
ReadTooEarly(c, g) == generation[c] = g - 1

\* mutant: an abandoned cycle still publishes
AlwaysCurrent(c, g) == TRUE

\* No later cycle of c has begun.
Current(c, g) == generation[c] = g

\* The result of a stale cycle is dropped, whatever it is.
Discard(c, g) ==
    /\ cycle[c][g] \in {"ok", "failed"}
    /\ Holds(<<c, g>>)
    /\ ~Current(c, g)
    /\ cycle' = [cycle EXCEPT ![c][g] = "closing"]
    /\ Unlocked(<<c, g>>)
    /\ UNCHANGED <<loop, generation, cancelled, cacheVars, scrapeVars>>

\* mutant: a failed cycle publishes its partial data as well
PublishPartial(c, g) ==
    /\ cycle[c][g] = "failed"
    /\ Holds(<<c, g>>)
    /\ Current(c, g)
    /\ self' = [self EXCEPT ![c] = [cycle |-> g, success |-> FALSE]]
    /\ cache' = [cache EXCEPT ![c] = g]
    /\ lastRefresh' = [lastRefresh EXCEPT ![c] = g]
    /\ cycle' = [cycle EXCEPT ![c][g] = "closing"]
    /\ Unlocked(<<c, g>>)
    /\ UNCHANGED <<loop, generation, cancelled, scrapeVars>>

\* A failed cycle publishes its scrape metrics and returns.
PublishFailure(c, g) ==
    /\ cycle[c][g] = "failed"
    /\ Holds(<<c, g>>)
    /\ Current(c, g)
    /\ self' = [self EXCEPT ![c] = [cycle |-> g, success |-> FALSE]]
    /\ cycle' = [cycle EXCEPT ![c][g] = "closing"]
    /\ Unlocked(<<c, g>>)
    /\ UNCHANGED <<loop, generation, cancelled, cache, lastRefresh, scrapeVars>>

\* A successful one assigns self, cache and lastRefresh in turn.
PublishSelf(c, g) ==
    /\ cycle[c][g] = "ok"
    /\ Holds(<<c, g>>)
    /\ Current(c, g)
    /\ self' = [self EXCEPT ![c] = [cycle |-> g, success |-> TRUE]]
    /\ cycle' = [cycle EXCEPT ![c][g] = "data"]
    /\ UNCHANGED <<loop, generation, cancelled, writer, cache, lastRefresh,
                   scrapeVars>>

PublishData(c, g) ==
    /\ cycle[c][g] = "data"
    /\ cache' = [cache EXCEPT ![c] = g]
    /\ cycle' = [cycle EXCEPT ![c][g] = "stamp"]
    /\ UNCHANGED <<loop, generation, cancelled, writer, self, lastRefresh,
                   scrapeVars>>

PublishStamp(c, g) ==
    /\ cycle[c][g] = "stamp"
    /\ lastRefresh' = [lastRefresh EXCEPT ![c] = g]
    /\ cycle' = [cycle EXCEPT ![c][g] = "closing"]
    /\ Unlocked(<<c, g>>)
    /\ UNCHANGED <<loop, generation, cancelled, cache, self, scrapeVars>>

\* The deferred close(done), after the deferred unlock.
CloseDone(c, g) ==
    /\ cycle[c][g] = "closing"
    /\ cycle' = [cycle EXCEPT ![c][g] = "done"]
    /\ UNCHANGED <<loop, generation, cancelled, writer, cacheVars, scrapeVars>>

-----------------------------------------------------------------------------
(* Collect and snapshot.                                                   *)

Arrive(s) ==
    /\ scraper[s] = "idle"
    /\ scraper' = [scraper EXCEPT ![s] = "rlock"]
    /\ UNCHANGED <<loop, generation, cycle, cancelled, writer, cacheVars, seen>>

RLock(s) ==
    /\ scraper[s] = "rlock"
    /\ MayRLock
    /\ scraper' = [scraper EXCEPT ![s] = "reading"]
    /\ UNCHANGED <<loop, generation, cycle, cancelled, writer, cacheVars, seen>>

Served(c) == [data |-> cache[c], self |-> self[c].cycle,
              success |-> self[c].success, stamp |-> lastRefresh[c]]

\* A copy, and the metrics of c appended to it.
Extended(copy, c) == [d \in DOMAIN copy \cup {c} |->
                        IF d = c THEN Served(c) ELSE copy[d]]

\* The collectors are visited in no particular order.
Copy(s, c) ==
    /\ scraper[s] = "reading"
    /\ c \notin DOMAIN seen[s]
    /\ seen' = [seen EXCEPT ![s] = Extended(seen[s], c)]
    /\ UNCHANGED <<loop, generation, cycle, cancelled, writer, cacheVars,
                   scraper>>

RUnlock(s) ==
    /\ scraper[s] = "reading"
    /\ DOMAIN seen[s] = Collectors
    /\ scraper' = [scraper EXCEPT ![s] = "sending"]
    /\ UNCHANGED <<loop, generation, cycle, cancelled, writer, cacheVars, seen>>

\* The scrape takes the metrics at its own pace, possibly never.
Deliver(s) ==
    /\ scraper[s] = "sending"
    /\ scraper' = [scraper EXCEPT ![s] = "idle"]
    /\ seen' = [seen EXCEPT ![s] = Nothing]
    /\ UNCHANGED <<loop, generation, cycle, cancelled, writer, cacheVars>>

-----------------------------------------------------------------------------
LoopStep(c) == \/ LoopLock(c) \/ BeginCycle(c) \/ Complete(c)
               \/ Watchdog(c) \/ Tick(c) \/ Stop(c)

CycleStep(c, g) == \/ RunCollector(c, g) \/ CycleLock(c, g) \/ Discard(c, g)
                   \/ PublishFailure(c, g) \/ PublishSelf(c, g)
                   \/ PublishData(c, g) \/ PublishStamp(c, g)
                   \/ CloseDone(c, g)

ScrapeStep(s) == \/ Arrive(s) \/ RLock(s) \/ RUnlock(s) \/ Deliver(s)
                 \/ \E c \in Collectors : Copy(s, c)

Next == \/ \E c \in Collectors : LoopStep(c)
        \/ \E c \in Collectors, g \in Generation : CycleStep(c, g)
        \/ \E s \in Scrapers : ScrapeStep(s)
        \/ Cancel

Spec == Init /\ [][Next]_vars

\* Go runs every goroutine that can run; sync.Mutex hands the lock to a waiter
\* that has starved for a millisecond and RWMutex lets in the readers that
\* waited for a writer, hence SF on taking either lock.  A timer fires
\* eventually.  Nothing is assumed of RunCollector, which may block for ever in
\* librados, of Deliver, which the scraping client paces, of Arrive or Cancel.
Fairness ==
    /\ \A c \in Collectors :
          /\ SF_vars(LoopLock(c))
          /\ WF_vars(BeginCycle(c))
          /\ WF_vars(Complete(c))
          /\ WF_vars(Watchdog(c))
          /\ WF_vars(Tick(c))
          /\ \A g \in Generation :
                /\ SF_vars(CycleLock(c, g))
                /\ WF_vars(Discard(c, g) \/ PublishFailure(c, g)
                             \/ PublishSelf(c, g))
                /\ WF_vars(PublishData(c, g))
                /\ WF_vars(PublishStamp(c, g))
                /\ WF_vars(CloseDone(c, g))
    /\ \A s \in Scrapers :
          /\ SF_vars(RLock(s))
          /\ WF_vars(RUnlock(s) \/ \E c \in Collectors : Copy(s, c))

LiveSpec == Spec /\ Fairness

-----------------------------------------------------------------------------
(* Properties.                                                             *)

\* Whatever the order in which abandoned and current cycles end, a map entry
\* only ever moves forward, and only to the cycle that is the newest begun
\* (the generation check of collector.go:262).
OnlyTheNewestPublishes ==
    [][\A c \in Collectors :
         /\ self'[c] # self[c] => /\ self'[c].cycle = generation[c]
                                 /\ self[c].cycle < generation[c]
         /\ cache'[c] # cache[c] => /\ cache'[c] = generation[c]
                                   /\ cache[c] < generation[c]
         /\ lastRefresh'[c] # lastRefresh[c] =>
              /\ lastRefresh'[c] = generation[c]
              /\ lastRefresh[c] < generation[c]]_vars

\* When a cycle has ended and none was begun since, its outcome is what is
\* served: no result is lost to an earlier, abandoned cycle, and the check that
\* drops stale results never drops a current one.
NoResultLost ==
    \A c \in Collectors, g \in Generation :
       cycle[c][g] \in {"closing", "done"} /\ generation[c] = g =>
          /\ self[c].cycle = g
          /\ self[c].success => cache[c] = g /\ lastRefresh[c] = g

\* What a scrape delivers hangs together although cycles store it in three
\* assignments: the timestamp is the one of the data, scrape_collector_success
\* is 1 exactly when the data is that very cycle's, and never older data comes
\* with a newer success.
ScrapesAreCoherent ==
    \A s \in Scrapers : scraper[s] = "sending" =>
       \A c \in Collectors :
          LET v == seen[s][c] IN
          /\ v.stamp = v.data
          /\ v.data <= v.self
          /\ v.success <=> v.self > 0 /\ v.data = v.self

\* While a scrape copies collector after collector, nothing it has copied goes
\* out of date: a scrape is one instant of all three maps (the read lock held
\* over the whole of snapshot).
ScrapesAreACut ==
    \A s \in Reading : \A c \in DOMAIN seen[s] : seen[s][c] = Served(c)

\* A cycle whose collection has returned always gets to store or drop its
\* result and to release its waiter, however scrapes and other cycles contend
\* for the lock and however slowly scrapes take their metrics.
CyclesSettle ==
    \A c \in Collectors, g \in Generation :
       cycle[c][g] \in {"ok", "failed"} ~> cycle[c][g] = "done"

\* The loop comes back to its select even when the cycle it began never
\* returns (the watchdog of refresh).
LoopsAdvance ==
    \A c \in Collectors : loop[c] \in {"begin", "waiting"} ~> loop[c] = "select"

\* A scrape gets its copy however often cycles take the lock and even if every
\* collection is blocked.
ScrapesReturn ==
    \A s \in Scrapers : scraper[s] = "rlock" ~> scraper[s] = "sending"

-----------------------------------------------------------------------------
(* The promise this implements.  A successful cycle publishes when it      *)
(* assigns self: the read lock hides the other two assignments.            *)

Published(c) == IF self[c].success
                THEN [data |-> self[c].cycle, self |-> self[c].cycle,
                      success |-> TRUE, stamp |-> self[c].cycle]
                ELSE Served(c)

Answered(s) == IF scraper[s] = "sending" THEN seen[s] ELSE Nothing

Promise == INSTANCE MetricsCache
              WITH begun <- generation,
                   published <- [c \in Collectors |-> Published(c)],
                   answer <- [s \in Scrapers |-> Answered(s)]

\* Refreshers, cycles and scrapes together implement the cache that publishes
\* each newest cycle at once and answers a scrape with one instant of it.
KeepsThePromise == Promise!Spec
=============================================================================
