---------------------------- MODULE RefreshTiming ---------------------------
(***************************************************************************)
(* The refresher of one collector against the clock (collector.go:         *)
(* refreshLoop, refresh, updateCollector): the ticker, the watchdog of a   *)
(* cycle, the deadline of its context, and calls into the cluster that     *)
(* take their time.  Refresher has the locks, the three maps and the       *)
(* scrapes, and leaves out how long anything takes.                        *)
(*                                                                         *)
(* The clock advances only when no goroutine has something to do that      *)
(* takes no time: what is due at an instant happens at that instant.       *)
(***************************************************************************)
EXTENDS Integers, FiniteSets, Sequences

CONSTANTS Regimes,   \* the settings considered, each [interval, timeout, call]
          Lag,       \* the longest wait for cacheMutex
          MaxNow     \* bound: the clock

\* interval is what intervalFor returns, timeout is ctxTimeout.  call is the
\* longest that the calls between two looks at the context take, librados being
\* bounded by opTimeout; 0 is an opTimeout of 0: they may block for ever.
Regime == [interval : Nat \ {0}, timeout : Nat, call : Nat]

ASSUME RefreshTimingAssumption ==
    /\ Regimes \subseteq Regime
    /\ Lag \in Nat /\ MaxNow \in Nat

VARIABLES
    regime,      \* the settings
    now,         \* the clock
    loop,        \* where refreshLoop is
    since,       \* when the loop got there
    epoch,       \* when the ticker was created; -1 before that
    fired,       \* how often it has fired
    pending,     \* a tick is in its channel, which holds one
    cycle,       \* cycle[g]: the g-th cycle begun, of which Len(cycle) is newest
    self,        \* the cycle whose scrape metrics are stored, and its success
    cache,       \* the cycle whose data is stored; 0 for none
    lastRefresh, \* when it was
    slow         \* history: cycles that took up all but Lag of their interval

loopVars == <<loop, since>>
tickerVars == <<epoch, fired, pending>>
servedVars == <<self, cache, lastRefresh>>
vars == <<regime, now, loopVars, tickerVars, cycle, servedVars, slow>>

Instant == 0..MaxNow
Generation == 0..Len(cycle)

\* list: in the first call, which lists what there is to visit.  item: in the
\* calls on an item.  ok and failed: runCollector has returned and the lock is
\* yet to be had.
Cycle == [at : {"list", "item", "ok", "failed", "done"},
          began : Instant,      \* when the cycle began
          since : Instant,      \* when it got where it is
          visited : BOOLEAN]    \* whether it got to an item

TypeOK ==
    /\ regime \in Regimes
    /\ now \in Instant /\ since \in 0..now /\ epoch \in -1..now
    /\ loop \in {"begin", "waiting", "select"}
    /\ fired \in Nat /\ pending \in BOOLEAN
    /\ cycle \in Seq(Cycle)
    /\ self \in [cycle : Generation, success : BOOLEAN]
    /\ cache \in Generation /\ lastRefresh \in 0..now
    /\ slow \in Generation

Init ==
    /\ regime \in Regimes
    /\ now = 0
    /\ loop = "begin" /\ since = 0
    /\ epoch = -1 /\ fired = 0 /\ pending = FALSE
    /\ cycle = <<>>
    /\ self = [cycle |-> 0, success |-> FALSE]
    /\ cache = 0 /\ lastRefresh = 0
    /\ slow = 0

interval == regime.interval

-----------------------------------------------------------------------------
(* refreshLoop                                                             *)

\* The generation is bumped once the lock is had; the watchdog and the context
\* of the collection start then.
BeginCycle ==
    /\ loop = "begin"
    /\ loop' = "waiting" /\ since' = now
    /\ cycle' = Append(cycle, [at |-> "list", began |-> now,
                               since |-> now, visited |-> FALSE])
    /\ UNCHANGED <<regime, now, tickerVars, servedVars, slow>>

\* time.After(bound)
BoundElapsed == now >= since + interval

Completed == cycle[Len(cycle)].at = "done"

\* mutant: every cycle is followed by a whole interval
RestartTicker == epoch' = now /\ fired' = 0

\* mutant: the first tick comes an interval late
LateTicker == IF epoch = -1 THEN epoch' = now + interval /\ fired' = 0
              ELSE UNCHANGED <<epoch, fired>>

\* The ticker is created when the first refresh has returned.
CreateTicker == IF epoch = -1 THEN epoch' = now /\ fired' = 0
                ELSE UNCHANGED <<epoch, fired>>

\* refresh returns: either case, also when both are ready.
StopWaiting ==
    /\ loop = "waiting"
    /\ Completed \/ BoundElapsed
    /\ loop' = "select" /\ since' = now
    /\ CreateTicker
    /\ slow' = IF now > since + interval - Lag THEN slow + 1 ELSE slow
    /\ UNCHANGED <<regime, now, pending, cycle, servedVars>>

NextTick == epoch + (fired + 1) * interval

\* A tick that finds one in the channel is dropped.
Fire ==
    /\ epoch # -1
    /\ now >= NextTick
    /\ fired' = fired + 1
    /\ pending' = TRUE
    /\ UNCHANGED <<regime, now, loopVars, epoch, cycle, servedVars, slow>>

Tick ==
    /\ loop = "select"
    /\ pending
    /\ pending' = FALSE
    /\ loop' = "begin" /\ since' = now
    /\ UNCHANGED <<regime, now, epoch, fired, cycle, servedVars, slow>>

-----------------------------------------------------------------------------
(* A cycle: the collection, then the result.                               *)

Deadline(g) == cycle[g].began + regime.timeout

\* mutant: no timeout when it is 0
ZeroIsNever(g) == regime.timeout > 0 /\ now >= Deadline(g)

\* mutant: nothing looks at the context
NeverExpires(g) == FALSE

\* ctx.Err() # nil
Expired(g) == now >= Deadline(g)

Calling(g) == cycle[g].at \in {"list", "item"}

Gets(g, at) ==
    /\ cycle' = [cycle EXCEPT ![g].at = at, ![g].since = now,
                              ![g].visited = @ \/ at = "item"]
    /\ UNCHANGED <<regime, now, loopVars, tickerVars, servedVars, slow>>

\* The calls return and there is another item: the context is looked at first.
Visit(g) ==
    /\ Calling(g)
    /\ ~Expired(g)
    /\ Gets(g, "item")

GiveUp(g) ==
    /\ Calling(g)
    /\ Expired(g)
    /\ Gets(g, "failed")

\* They return and there is none: whether any call failed counts now.
Return(g) ==
    /\ Calling(g)
    /\ Gets(g, "ok") \/ Gets(g, "failed")

\* mutant: an abandoned cycle still publishes
AlwaysCurrent(g) == TRUE

\* mutant: a cycle that took longer than its timeout does not publish
CurrentInTime(g) == g = Len(cycle) /\ now < Deadline(g)

\* No later cycle has begun.
Current(g) == g = Len(cycle)

\* mutant: a failure publishes nothing
SelfOfSuccess(g) == IF Current(g) /\ cycle[g].at = "ok"
                    THEN [cycle |-> g, success |-> TRUE] ELSE self

\* The scrape metrics are published even on failure.
SelfAfter(g) == IF Current(g) THEN [cycle |-> g, success |-> cycle[g].at = "ok"]
                ELSE self

\* What the cycle does with its result, once it has the lock.
Finish(g) ==
    /\ cycle[g].at \in {"ok", "failed"}
    /\ cycle' = [cycle EXCEPT ![g].at = "done", ![g].since = 0]
    /\ self' = SelfAfter(g)
    /\ IF Current(g) /\ cycle[g].at = "ok"
       THEN cache' = g /\ lastRefresh' = now
       ELSE UNCHANGED <<cache, lastRefresh>>
    /\ UNCHANGED <<regime, now, loopVars, tickerVars, slow>>

-----------------------------------------------------------------------------
(* The clock.                                                              *)

\* Some goroutine has something to do now.
LoopIsDue ==
    \/ loop = "begin" /\ now >= since + Lag
    \/ loop = "waiting" /\ (Completed \/ BoundElapsed)
    \/ loop = "select" /\ pending
    \/ epoch # -1 /\ now >= NextTick

CycleIsDue(g) ==
    \/ /\ Calling(g)
       /\ regime.call > 0
       /\ now >= cycle[g].since + regime.call
    \/ cycle[g].at \in {"ok", "failed"} /\ now >= cycle[g].since + Lag

Running == {g \in DOMAIN cycle : cycle[g].at # "done"}

\* At its bound the clock stops.
Elapse ==
    /\ ~LoopIsDue
    /\ \A g \in Running : ~CycleIsDue(g)
    /\ now' = IF now < MaxNow THEN now + 1 ELSE now
    /\ UNCHANGED <<regime, loopVars, tickerVars, cycle, servedVars, slow>>

CycleStep(g) == \/ Visit(g) \/ GiveUp(g) \/ Return(g) \/ Finish(g)

Next == \/ BeginCycle \/ StopWaiting \/ Fire \/ Tick
        \/ \E g \in Running : CycleStep(g)
        \/ Elapse

Spec == Init /\ [][Next]_vars

-----------------------------------------------------------------------------
(* Properties.                                                             *)

Newest == cycle[Len(cycle)]

\* How long the g-th cycle is the newest one, at most: the ticker is only created
\* after the first.
Reign(g) == (IF g = 1 THEN 2 ELSE 1) * interval + Lag

\* However long collections take, and when they block for ever, the next cycle
\* begins when it is due, and never early.  The period does not drift by what a
\* collection took (collector.go:208): the begin of a cycle is off the grid of
\* the ticker by no more than the waits for the lock of those that used up their
\* interval.
CyclesKeepPace ==
    cycle # <<>> =>
       /\ now <= Newest.began + Reign(Len(cycle))
       /\ Len(cycle) > 1 =>
             Newest.began - (epoch + (Len(cycle) - 1) * interval)
                \in 0..((1 + slow) * Lag)

\* The timestamp says when the data was stored, which may be long after it was
\* read; yet data that is stamped as fresh was never read by a cycle that began
\* more than its turn ago, whatever abandoned cycles are still under way.
StampIsHonest ==
    cache > 0 => lastRefresh - cycle[cache].began <= Reign(cache)

\* A collection that succeeds well before its interval is over is what is served:
\* neither the watchdog nor the next cycle gets in between.
InTimeMeansPublished ==
    [][\A g \in Running :
         /\ cycle[g].at = "ok"
         /\ cycle'[g].at = "done"
         /\ cycle[g].since < cycle[g].began + interval - Lag
         => cache' = g /\ lastRefresh' = now]_vars

\* Abandoned cycles pile up, but only as many as begin in the time one of them
\* can still take once its calls return: they are bounded unless opTimeout is 0.
InFlightIsBounded ==
    regime.call > 0 =>
       (Cardinality(Running) - 1) * interval
          <= regime.timeout + regime.call + Lag

\* collector-timeout 0 is no time at all, not no limit: nothing but an empty
\* listing is ever served, and the timestamp does not hide it.
NoTimeNoData ==
    regime.timeout = 0 /\ cache > 0 => ~cycle[cache].visited

\* Collections that always end well within their interval.
Fits == /\ regime.call > 0
        /\ regime.timeout + regime.call + Lag < interval

\* The exporter does not serve old data without a word (collector.go:231): while a
\* collector whose collections fit their interval reports success, its timestamp is no
\* older than the time from the end of one collection to that of the next.  So where
\* the alert on its age (README.md:188) would go off, either the success is gone or
\* collections no longer fit.
StalenessIsVisible ==
    Fits /\ self.success =>
       now - lastRefresh <= interval + regime.timeout + regime.call + 2 * Lag
=============================================================================
