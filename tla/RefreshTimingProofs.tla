------------------------- MODULE RefreshTimingProofs ------------------------
(***************************************************************************)
(* Proofs about RefreshTiming for any settings, any wait for the lock and  *)
(* any bound of the clock: its type invariant, that cycles keep pace, that *)
(* the timestamp is honest, that data which is there in time is published, *)
(* how many cycles can be under way, and that the age of the data shows    *)
(* when collections fail.                                                  *)
(***************************************************************************)
EXTENDS RefreshTiming, FiniteSetTheorems, SequenceTheorems, WellFoundedInduction,
        TLAPS

Count == Len(cycle)

\* How long the newest cycle can go on before the tick that ends its turn.
Turn == (IF Count = 1 THEN 2 ELSE 1) * interval

\* How often the channel has been read, and how often it has been or can be.
Consumed == IF loop = "begin" THEN Count ELSE Count - 1
Taken == Consumed + (IF pending THEN 1 ELSE 0)

\* The ticker exists from the end of the first wait.
EpochInv ==
    /\ epoch = -1 <=> \/ loop = "begin" /\ Count = 0
                      \/ loop = "waiting" /\ Count = 1
    /\ epoch = -1 => fired = 0 /\ ~pending
    /\ loop # "begin" => Count > 0
    /\ slow <= IF loop = "waiting" THEN Count - 1 ELSE Count

\* Where the loop is within the turn of the newest cycle.
LoopInv ==
    /\ loop = "begin" => now <= since + Lag
    /\ loop = "begin" /\ Count > 0 => since <= Newest.began + Turn
    /\ loop = "waiting" => since = Newest.began /\ now <= since + interval
    /\ loop = "select" => now <= Newest.began + Turn

\* The ticks fired are those whose time has come, and the next of them is no later
\* than the turn of the newest cycle lasts, unless one is there already.
TickerInv ==
    epoch # -1 =>
       /\ epoch + fired * interval <= now
       /\ now <= epoch + (fired + 1) * interval
       /\ fired >= Taken
       /\ loop \in {"waiting", "select"} =>
             pending \/ NextTick <= Newest.began + Turn

\* A wait that is already known to be one of the slow ones.
SlowAlready == \/ loop = "waiting" /\ now > since + interval - Lag
               \/ loop = "begin" /\ Lag > interval

\* With f the time that the ticks fired span, c that of as many intervals as there
\* are cycles, and d how far slow cycles have put the loop behind the grid: the loop
\* is behind by no more than d and a wait for the lock, and the ticks dropped are no
\* more than fit in that.
Pace(f, c, d) ==
    /\ f <= c - (IF loop = "begin" THEN 0 ELSE interval)
              + (IF pending THEN interval ELSE 0)
              + d + (IF SlowAlready THEN Lag ELSE 0)
    /\ loop = "select" => now <= epoch + c + d
    /\ loop = "begin" => since <= epoch + c + d
    /\ Count > 1 => /\ epoch + c - interval <= Newest.began
                    /\ Newest.began <= epoch + c - interval + d + Lag

\* When even an interval is less than Lag all cycles are slow, and the first has
\* put nothing behind.
Behind == slow * Lag - (IF Lag > interval THEN interval ELSE 0)

PaceInv == epoch # -1 => Pace(fired * interval, Count * interval, Behind)

\* How long a cycle is where it is, and when it got there.
CycleInv ==
    \A g \in DOMAIN cycle :
       /\ cycle[g].began <= now
       /\ Calling(g) /\ regime.call > 0 =>
             /\ now <= cycle[g].since + regime.call
             /\ cycle[g].since <= Deadline(g)
       /\ cycle[g].at \in {"ok", "failed"} =>
             /\ now <= cycle[g].since + Lag
             /\ regime.call > 0 => cycle[g].since <= Deadline(g) + regime.call
       /\ regime.timeout = 0 => ~cycle[g].visited

\* A cycle that is not done was waited for during a whole interval.
WaitInv ==
    \A g \in Running :
       /\ g < Count => cycle[g].began + interval <= Newest.began
       /\ g = Count /\ loop # "waiting" => cycle[g].began + interval <= now

\* So the cycles in progress are an interval apart.
Live == Running \cup {Count}
After(g) == {h \in Live : h > g}
FlightInv ==
    \A g \in Running :
       Cardinality(After(g)) * interval <= Newest.began - cycle[g].began

\* The newest cycle sets the scrape metrics when it is done, and not before.
SelfInv == Count > 0 => (self.cycle = Count <=> Newest.at = "done")

\* When the interval that the newest cycle's turn lasts begins.
Origin == IF Count = 1 THEN epoch ELSE Newest.began

\* The tick that ends the turn of the first cycle is the first one fired.
FirstInv ==
    epoch # -1 /\ Count = 1 =>
       /\ loop = "begin" => since <= epoch + interval
       /\ loop = "select" => now <= epoch + interval /\ (pending \/ fired = 0)

\* Success is that of the newest cycle, or of the one before it, which published in
\* its turn.
FreshInv ==
    Fits /\ self.success =>
       /\ cache = self.cycle /\ cache > 0 /\ cache >= Count - 1
       /\ cache = Count =>
             IF epoch = -1 THEN lastRefresh = now ELSE Origin <= lastRefresh
       /\ cache < Count => Newest.began <= lastRefresh + interval + Lag

IInv == /\ TypeOK /\ EpochInv /\ LoopInv /\ TickerInv /\ PaceInv
        /\ CycleInv /\ WaitInv /\ FlightInv /\ StampIsHonest /\ SelfInv
        /\ FirstInv /\ FreshInv

-----------------------------------------------------------------------------
(* Small facts.                                                            *)

\* The types one by one.
LEMMA Types ==
    ASSUME TypeOK
    PROVE  /\ interval \in Nat /\ interval > 0 /\ regime.timeout \in Nat
           /\ regime.call \in Nat /\ Lag \in Nat /\ MaxNow \in Nat
           /\ now \in Nat /\ since \in Nat /\ since <= now /\ now <= MaxNow
           /\ epoch \in Int /\ -1 <= epoch /\ epoch <= now
           /\ fired \in Nat /\ slow \in Nat /\ slow <= Count
           /\ Count \in Nat /\ DOMAIN cycle = 1..Count
<1>1. regime \in Regime
  BY RefreshTimingAssumption DEF TypeOK
<1>2. regime.interval \in Nat \ {0} /\ regime.timeout \in Nat /\ regime.call \in Nat
  BY <1>1 DEF Regime
<1>3. interval \in Nat /\ interval > 0
  BY <1>2 DEF interval
<1>4. cycle \in Seq(Cycle)
  BY DEF TypeOK
<1>5. Count \in Nat /\ DOMAIN cycle = 1..Count
  BY <1>4 DEF Count
<1>6. /\ now \in Instant /\ since \in 0..now /\ epoch \in -1..now
      /\ fired \in Nat /\ slow \in 0..Count
  BY DEF TypeOK, Generation, Count
<1>7. Lag \in Nat /\ MaxNow \in Nat
  BY RefreshTimingAssumption
<1>8. QED
  BY <1>2, <1>3, <1>5, <1>6, <1>7 DEF Instant

\* And those of a cycle.
LEMMA CycleTypes ==
    ASSUME TypeOK, NEW g \in DOMAIN cycle
    PROVE  /\ g \in 1..Count /\ g \in Nat
           /\ cycle[g].at \in {"list", "item", "ok", "failed", "done"}
           /\ cycle[g].began \in Nat /\ cycle[g].since \in Nat
           /\ cycle[g].visited \in BOOLEAN
<1>1. cycle \in Seq(Cycle)
  BY DEF TypeOK
<1>2. cycle[g] \in Cycle
  BY <1>1
<1>3. g \in 1..Count /\ g \in Nat
  BY Types
<1>4. QED
  BY <1>2, <1>3, Types DEF Cycle, Instant

\* What the begin of a cycle does to the sequence.
LEMMA Begun ==
    ASSUME TypeOK, BeginCycle
    PROVE  /\ Count' = Count + 1 /\ DOMAIN cycle' = 1..(Count + 1)
           /\ \A g \in 1..Count : cycle'[g] = cycle[g]
           /\ cycle'[Count + 1] = [at |-> "list", began |-> now,
                                   since |-> now, visited |-> FALSE]
<1>1. cycle \in Seq(Cycle) /\ now \in Instant
  BY DEF TypeOK
<1>. DEFINE new == [at |-> "list", began |-> now, since |-> now, visited |-> FALSE]
<1>2. new \in Cycle
  BY <1>1 DEF Cycle
<1>3. cycle' = Append(cycle, new)
  BY DEF BeginCycle
<1>. HIDE DEF new
<1>4. /\ Len(cycle') = Len(cycle) + 1
      /\ \A g \in 1..Len(cycle) : cycle'[g] = cycle[g]
      /\ cycle'[Len(cycle) + 1] = new
      /\ cycle' \in Seq(Cycle)
  BY <1>1, <1>2, <1>3, AppendProperties
<1>5. QED
  BY <1>4 DEF Count, new

\* A cycle moved on: where it is, when it got there, and whether it got to an item.
Moved(c, at, instant) ==
    [at |-> at, began |-> c.began, since |-> instant,
     visited |-> c.visited \/ at = "item"]

\* What a step of a cycle changes: where that cycle is.
LEMMA CycleMoves ==
    ASSUME TypeOK, NEW g \in Running, CycleStep(g)
    PROVE  /\ g \in DOMAIN cycle /\ cycle[g].at # "done"
           /\ \E at \in {"item", "ok", "failed", "done"}, t \in {now, 0} :
                 /\ cycle'[g] = Moved(cycle[g], at, t)
                 /\ t = IF at = "done" THEN 0 ELSE now
                 /\ at # "done" => Calling(g)
                 /\ at = "item" => ~Expired(g)
           /\ Count' = Count /\ DOMAIN cycle' = DOMAIN cycle
           /\ \A h \in DOMAIN cycle : /\ cycle'[h].began = cycle[h].began
                                      /\ h # g => cycle'[h] = cycle[h]
           /\ cycle' \in Seq(Cycle)
           /\ UNCHANGED <<regime, now, loop, since, epoch, fired, pending, slow>>
<1>1. cycle \in Seq(Cycle)
  BY DEF TypeOK
<1>2. g \in DOMAIN cycle /\ cycle[g].at # "done"
  BY DEF Running
<1>3. cycle[g] \in Cycle
  BY <1>1, <1>2
<1>. DEFINE ends == {"item", "ok", "failed", "done"}
<1>4. PICK at \in ends, t \in {now, 0} :
         /\ t = IF at = "done" THEN 0 ELSE now
         /\ at # "done" => Calling(g)
         /\ at = "item" => ~Expired(g)
         /\ cycle' = [cycle EXCEPT ![g] = Moved(cycle[g], at, t)]
  <2>1. ASSUME NEW at \in ends, Gets(g, at), at # "done"
        PROVE  cycle' = [cycle EXCEPT ![g] = Moved(cycle[g], at, now)]
    <3>1. cycle' = [cycle EXCEPT ![g].at = at, ![g].since = now,
                                 ![g].visited = @ \/ at = "item"]
      BY <2>1 DEF Gets
    <3>2. cycle'[g] = Moved(cycle[g], at, now)
      BY <1>2, <1>3, <3>1 DEF Moved, Cycle
    <3>3. QED
      BY <3>1, <3>2
  <2>2. ASSUME Finish(g)
        PROVE  cycle' = [cycle EXCEPT ![g] = Moved(cycle[g], "done", 0)]
    <3>1. cycle' = [cycle EXCEPT ![g].at = "done", ![g].since = 0]
      BY <2>2 DEF Finish
    <3>2. cycle'[g] = Moved(cycle[g], "done", 0)
      BY <1>2, <1>3, <3>1 DEF Moved, Cycle
    <3>3. QED
      BY <3>1, <3>2
  <2>3. \/ \E at \in ends : /\ at # "done" /\ Gets(g, at)
                            /\ Calling(g) /\ (at = "item" => ~Expired(g))
        \/ Finish(g)
    BY DEF CycleStep, Visit, GiveUp, Return
  <2>4. QED
    BY <2>1, <2>2, <2>3
<1>5. Moved(cycle[g], at, t) \in Cycle
  <2>1. now \in Instant /\ 0 \in Instant
    BY Types DEF Instant
  <2>2. QED
    BY <1>3, <1>4, <2>1 DEF Moved, Cycle
<1>6. cycle' \in Seq(Cycle) /\ Len(cycle') = Len(cycle)
        /\ \A h \in 1..Len(cycle) :
              cycle'[h] = IF h = g THEN Moved(cycle[g], at, t) ELSE cycle[h]
  BY <1>1, <1>2, <1>4, <1>5, ExceptSeq
<1>7. DOMAIN cycle' = DOMAIN cycle /\ cycle'[g] = Moved(cycle[g], at, t)
        /\ \A h \in DOMAIN cycle : h # g => cycle'[h] = cycle[h]
  BY <1>2, <1>4
<1>8. cycle'[g].began = cycle[g].began
  BY <1>7 DEF Moved
<1>9. UNCHANGED <<regime, now, loop, since, epoch, fired, pending, slow>>
  BY DEF CycleStep, Visit, GiveUp, Return, Gets, Finish, loopVars, tickerVars
<1>10. QED
  BY <1>2, <1>4, <1>6, <1>7, <1>8, <1>9 DEF Count

\* The newest cycle and its turn, once another has begun.
LEMMA NewestBegun ==
    ASSUME TypeOK, BeginCycle
    PROVE  /\ Count' = Count + 1 /\ Newest'.began = now /\ Newest'.at = "list"
           /\ interval' = interval
BY Begun DEF Count, Newest, BeginCycle, interval

\* The newest cycle is as old and its turn as long when one has moved.
LEMMA NewestMoves ==
    ASSUME TypeOK, NEW g \in Running, CycleStep(g)
    PROVE  /\ Count' = Count /\ Count > 0 /\ Newest'.began = Newest.began
           /\ interval' = interval
BY CycleMoves, Types DEF Count, Newest, interval

\* Time passes when nothing is due.
LEMMA TimePasses ==
    ASSUME TypeOK, Elapse
    PROVE  /\ now' \in {now, now + 1} /\ now' \in Nat /\ now' <= MaxNow
           /\ UNCHANGED <<regime, loop, since, epoch, fired, pending, cycle,
                          self, cache, lastRefresh, slow>>
           /\ ~LoopIsDue /\ \A g \in Running : ~CycleIsDue(g)
<1>1. now' = IF now < MaxNow THEN now + 1 ELSE now
  BY DEF Elapse
<1>2. QED
  BY <1>1, Types DEF Elapse, loopVars, tickerVars, servedVars

-----------------------------------------------------------------------------
(* The invariant.                                                          *)

\* At first no cycle has begun.
LEMMA InitInv == Init => IInv
<1>. SUFFICES ASSUME Init PROVE IInv
  OBVIOUS
<1>. USE DEF Init
<1>1. Count = 0 /\ DOMAIN cycle = {}
  BY DEF Count
<1>2. Lag \in Nat /\ MaxNow \in Nat
  BY RefreshTimingAssumption
<1>3. TypeOK
  <2>1. now \in Instant /\ since \in 0..now /\ epoch \in -1..now /\ lastRefresh \in 0..now
    BY <1>2 DEF Instant
  <2>2. Generation = 0..0
    BY <1>1 DEF Generation, Count
  <2>3. self \in [cycle : Generation, success : BOOLEAN]
    BY <2>2
  <2>4. cycle \in Seq(Cycle)
    OBVIOUS
  <2>5. QED
    BY <2>1, <2>2, <2>3, <2>4 DEF TypeOK
<1>4. EpochInv /\ LoopInv /\ TickerInv /\ PaceInv
  BY <1>1, <1>2 DEF EpochInv, LoopInv, TickerInv, PaceInv
<1>5. CycleInv /\ WaitInv /\ FlightInv /\ StampIsHonest /\ SelfInv
  BY <1>1 DEF CycleInv, WaitInv, FlightInv, StampIsHonest, SelfInv, Running
<1>6. FirstInv /\ FreshInv
  BY DEF FirstInv, FreshInv
<1>7. QED
  BY <1>3, <1>4, <1>5, <1>6 DEF IInv

\* A wait is counted as slow once, at its end.
LEMMA TypeStep == TypeOK /\ EpochInv /\ [Next]_vars => TypeOK'
<1>. SUFFICES ASSUME TypeOK, EpochInv, [Next]_vars PROVE TypeOK'
  OBVIOUS
<1>. USE DEF loopVars, tickerVars, servedVars
<1>1. /\ regime \in Regimes /\ now \in Instant /\ since \in 0..now /\ epoch \in -1..now
      /\ loop \in {"begin", "waiting", "select"}
      /\ fired \in Nat /\ pending \in BOOLEAN
      /\ cycle \in Seq(Cycle)
      /\ self \in [cycle : 0..Count, success : BOOLEAN]
      /\ cache \in 0..Count /\ lastRefresh \in 0..now /\ slow \in 0..Count
  BY DEF TypeOK, Generation, Count
<1>2. SUFFICES /\ regime' \in Regimes /\ now' \in Instant
               /\ since' \in 0..now' /\ epoch' \in -1..now'
               /\ loop' \in {"begin", "waiting", "select"}
               /\ fired' \in Nat /\ pending' \in BOOLEAN
               /\ cycle' \in Seq(Cycle)
               /\ self' \in [cycle : 0..Count', success : BOOLEAN]
               /\ cache' \in 0..Count' /\ lastRefresh' \in 0..now'
               /\ slow' \in 0..Count'
  BY DEF TypeOK, Generation, Count
<1>3. CASE BeginCycle
  <2>1. cycle' \in Seq(Cycle)
    <3>. DEFINE new == [at |-> "list", began |-> now, since |-> now, visited |-> FALSE]
    <3>1. new \in Cycle
      BY <1>1 DEF Cycle
    <3>2. cycle' = Append(cycle, new)
      BY <1>3 DEF BeginCycle
    <3>. HIDE DEF new
    <3>3. QED
      BY <1>1, <3>1, <3>2, AppendProperties
  <2>2. Count' = Count + 1 /\ Count \in Nat
    BY <1>3, Begun, Types
  <2>3. self' \in [cycle : 0..Count', success : BOOLEAN]
    BY <1>1, <1>3, <2>2 DEF BeginCycle
  <2>4. now \in Nat
    BY Types
  <2>5. QED
    BY <1>1, <1>3, <2>1, <2>2, <2>3, <2>4 DEF BeginCycle
<1>4. CASE StopWaiting
  <2>1. Count' = Count /\ Count \in Nat /\ now \in Nat
    BY <1>4, Types DEF StopWaiting, Count
  <2>2. slow' \in 0..Count
    BY <1>1, <1>4, <2>1 DEF StopWaiting, EpochInv
  <2>3. epoch' \in -1..now /\ fired' \in Nat
    BY <1>1, <1>4, <2>1 DEF StopWaiting, CreateTicker
  <2>4. /\ loop' = "select" /\ since' = now
        /\ UNCHANGED <<regime, now, pending, cycle, self, cache, lastRefresh>>
    BY <1>4 DEF StopWaiting
  <2>5. now \in 0..now
    BY <2>1
  <2>6. QED
    BY <1>1, <2>1, <2>2, <2>3, <2>4, <2>5
<1>5. CASE Fire \/ Tick
  <2>1. Count' = Count /\ now \in 0..now
    BY <1>5, Types DEF Fire, Tick, Count
  <2>2. /\ loop' \in {"begin", "waiting", "select"} /\ since' \in 0..now
        /\ fired' \in Nat /\ pending' \in BOOLEAN
        /\ UNCHANGED <<regime, now, epoch, cycle, self, cache, lastRefresh, slow>>
    <3>1. UNCHANGED <<regime, now, epoch, cycle, self, cache, lastRefresh, slow>>
      BY <1>5 DEF Fire, Tick
    <3>2. /\ loop' \in {"begin", "waiting", "select"} /\ since' \in {since, now}
          /\ fired' \in {fired, fired + 1} /\ pending' \in BOOLEAN
      BY <1>1, <1>5 DEF Fire, Tick
    <3>3. QED
      BY <1>1, <2>1, <3>1, <3>2
  <2>3. QED
    BY <1>1, <2>1, <2>2
<1>6. CASE \E g \in Running : CycleStep(g)
  <2>1. PICK g \in Running : CycleStep(g)
    BY <1>6
  <2>2. /\ cycle' \in Seq(Cycle) /\ Count' = Count /\ g \in 0..Count
        /\ UNCHANGED <<regime, now, loop, since, epoch, fired, pending, slow>>
    BY <2>1, CycleMoves, Types
  <2>3. /\ self' \in [cycle : 0..Count, success : BOOLEAN]
        /\ cache' \in 0..Count /\ lastRefresh' \in 0..now
    <3>1. CASE Finish(g)
      <4>1. now \in 0..now
        BY Types
      <4>2. self' \in [cycle : 0..Count, success : BOOLEAN]
        BY <1>1, <2>2, <3>1 DEF Finish, SelfAfter
      <4>3. QED
        BY <1>1, <2>2, <3>1, <4>1, <4>2 DEF Finish
    <3>2. CASE UNCHANGED servedVars
      BY <1>1, <3>2
    <3>3. QED
      BY <2>1, <3>1, <3>2 DEF CycleStep, Visit, GiveUp, Return, Gets
  <2>4. QED
    BY <1>1, <2>2, <2>3
<1>7. CASE Elapse
  <2>1. /\ now' \in {now, now + 1} /\ now' \in Instant /\ now \in Nat
        /\ Count' = Count
    BY <1>7, TimePasses, Types DEF Instant, Count
  <2>2. since' \in 0..now' /\ epoch' \in -1..now' /\ lastRefresh' \in 0..now'
    BY <1>1, <1>7, <2>1, TimePasses
  <2>3. QED
    BY <1>1, <1>7, <2>1, <2>2, TimePasses
<1>8. CASE UNCHANGED vars
  BY <1>1, <1>8 DEF vars, Count
<1>9. QED
  BY <1>3, <1>4, <1>5, <1>6, <1>7, <1>8 DEF Next

\* The ticker is created once.
LEMMA EpochStep == TypeOK /\ EpochInv /\ [Next]_vars => EpochInv'
<1>. SUFFICES ASSUME TypeOK, EpochInv, [Next]_vars PROVE EpochInv'
  OBVIOUS
<1>. USE DEF loopVars, tickerVars, servedVars, EpochInv
<1>1. /\ Count \in Nat /\ slow \in Nat /\ slow <= Count /\ now \in Nat /\ epoch \in Int
      /\ loop \in {"begin", "waiting", "select"} /\ pending \in BOOLEAN
  BY Types DEF TypeOK
<1>2. CASE BeginCycle
  <2>1. Count' = Count + 1
    BY <1>2, Begun
  <2>2. QED
    BY <1>1, <1>2, <2>1 DEF BeginCycle
<1>3. CASE StopWaiting
  <2>1. Count' = Count
    BY <1>3 DEF StopWaiting, Count
  <2>2. QED
    BY <1>1, <1>3, <2>1 DEF StopWaiting, CreateTicker
<1>4. CASE Fire \/ Tick
  <2>1. Count' = Count
    BY <1>4 DEF Fire, Tick, Count
  <2>2. QED
    BY <1>1, <1>4, <2>1 DEF Fire, Tick
<1>5. CASE \E g \in Running : CycleStep(g)
  BY <1>1, <1>5, CycleMoves
<1>6. CASE Elapse \/ UNCHANGED vars
  <2>1. Count' = Count /\ UNCHANGED <<loop, epoch, fired, pending, slow>>
    BY <1>6, TimePasses DEF vars, Count
  <2>2. QED
    BY <1>1, <2>1
<1>7. QED
  BY <1>2, <1>3, <1>4, <1>5, <1>6 DEF Next

\* The loop leaves each place in time.
LEMMA LoopStep ==
    TypeOK /\ EpochInv /\ LoopInv /\ TickerInv /\ [Next]_vars => LoopInv'
<1>. SUFFICES ASSUME TypeOK, EpochInv, LoopInv, TickerInv, [Next]_vars
              PROVE  LoopInv'
  OBVIOUS
<1>. USE DEF loopVars, tickerVars, servedVars, LoopInv, Turn
<1>1. /\ Count \in Nat /\ now \in Nat /\ since \in Nat /\ since <= now
      /\ Lag \in Nat /\ interval \in Nat
      /\ epoch \in Int /\ fired \in Nat
  BY Types
<1>2. Count > 0 => Newest.began \in Nat
  BY <1>1, CycleTypes, Types DEF Newest, Count
<1>3. CASE BeginCycle
  <2>1. loop' = "waiting" /\ since' = now /\ now' = now
    BY <1>3 DEF BeginCycle
  <2>2. QED
    BY <1>1, <1>3, <2>1, NewestBegun
<1>4. CASE StopWaiting
  <2>1. loop' = "select" /\ now' = now /\ cycle' = cycle /\ regime' = regime
          /\ loop = "waiting"
    BY <1>4 DEF StopWaiting
  <2>2. now <= Newest.began + interval /\ Count > 0
    BY <2>1 DEF EpochInv
  <2>3. now <= Newest.began + Turn
    BY <1>1, <1>2, <2>2
  <2>4. Turn' = Turn /\ Newest' = Newest
    BY <2>1 DEF Count, Newest, interval
  <2>5. QED
    BY <2>1, <2>3, <2>4
<1>5. CASE Fire
  <2>1. UNCHANGED <<loop, since, now, cycle, regime>>
    BY <1>5 DEF Fire
  <2>2. QED
    BY <2>1 DEF Count, Newest, interval
<1>6. CASE Tick
  <2>1. loop = "select" /\ loop' = "begin" /\ since' = now
          /\ UNCHANGED <<now, cycle, regime>>
    BY <1>6 DEF Tick
  <2>2. now <= Newest.began + Turn
    BY <2>1
  <2>3. Turn' = Turn /\ Newest' = Newest /\ Count' = Count
    BY <2>1 DEF Count, Newest, interval
  <2>4. QED
    BY <1>1, <2>1, <2>2, <2>3
<1>7. CASE \E g \in Running : CycleStep(g)
  <2>1. PICK g \in Running : CycleStep(g)
    BY <1>7
  <2>2. UNCHANGED <<loop, since, now>>
    BY <2>1, CycleMoves
  <2>3. QED
    BY <2>1, <2>2, NewestMoves
<1>8. CASE Elapse
  <2>1. /\ now' \in {now, now + 1}
        /\ UNCHANGED <<loop, since, cycle, regime, epoch, fired, pending>>
        /\ ~LoopIsDue
    BY <1>8, TimePasses
  <2>2. Turn' = Turn /\ Newest' = Newest /\ Count' = Count /\ interval' = interval
    BY <2>1 DEF Count, Newest, interval
  <2>3. loop = "begin" => now < since + Lag
    BY <1>1, <2>1 DEF LoopIsDue
  <2>4. loop = "waiting" => now < since + interval
    BY <1>1, <2>1 DEF LoopIsDue, BoundElapsed
  <2>5. loop = "select" => now < Newest.began + Turn
    <3>1. ASSUME loop = "select" PROVE ~pending /\ epoch # -1 /\ now < NextTick
      <4>1. NextTick \in Int
        BY <1>1 DEF NextTick
      <4>2. QED
        BY <1>1, <2>1, <3>1, <4>1 DEF LoopIsDue, EpochInv
    <3>2. ASSUME loop = "select" PROVE NextTick <= Newest.began + Turn /\ Count > 0
      BY <3>1, <3>2 DEF TickerInv, EpochInv
    <3>3. NextTick \in Int /\ Turn \in Nat
      BY <1>1 DEF NextTick
    <3>. HIDE DEF Turn
    <3>4. QED
      BY <1>1, <1>2, <3>1, <3>2, <3>3
  <2>6. Turn \in Nat
    BY <1>1
  <2>7. loop' = "begin" => now' <= since' + Lag
    BY <1>1, <2>1, <2>3
  <2>8. loop' = "begin" /\ Count' > 0 => since' <= Newest'.began + Turn'
    BY <2>1, <2>2
  <2>9. loop' = "waiting" => since' = Newest'.began /\ now' <= since' + interval'
    BY <1>1, <2>1, <2>2, <2>4
  <2>10. loop' = "select" => now' <= Newest'.began + Turn'
    <3>. SUFFICES ASSUME loop = "select" PROVE now' <= Newest.began + Turn
      BY <2>1, <2>2
    <3>1. Newest.began \in Nat
      BY <1>2 DEF EpochInv
    <3>. HIDE DEF Turn
    <3>2. QED
      BY <1>1, <2>1, <2>5, <2>6, <3>1
  <2>11. QED
    BY <2>7, <2>8, <2>9, <2>10
<1>9. CASE UNCHANGED vars
  BY <1>9 DEF vars, Count, Newest, interval
<1>10. QED
  BY <1>3, <1>4, <1>5, <1>6, <1>7, <1>8, <1>9 DEF Next

\* The ticker fires when it is due, and its next tick ends the turn.
LEMMA TickerStep ==
    TypeOK /\ EpochInv /\ LoopInv /\ TickerInv /\ [Next]_vars => TickerInv'
<1>. SUFFICES ASSUME TypeOK, EpochInv, LoopInv, TickerInv, [Next]_vars,
                     epoch' # -1
              PROVE  /\ epoch' + fired' * interval' <= now'
                     /\ now' <= epoch' + (fired' + 1) * interval'
                     /\ fired' >= Taken'
                     /\ loop' \in {"waiting", "select"} =>
                           \/ pending'
                           \/ epoch' + (fired' + 1) * interval' <= Newest'.began + Turn'
  BY DEF TickerInv, NextTick
<1>. USE DEF loopVars, tickerVars, servedVars
<1>1. /\ Count \in Nat /\ now \in Nat /\ interval \in Nat /\ interval > 0
      /\ epoch \in Int /\ fired \in Nat /\ pending \in BOOLEAN
      /\ loop \in {"begin", "waiting", "select"}
  BY Types DEF TypeOK
<1>2. epoch # -1 =>
         /\ epoch + fired * interval <= now
         /\ now <= epoch + (fired + 1) * interval
         /\ fired >= Taken
         /\ loop \in {"waiting", "select"} =>
               \/ pending
               \/ epoch + (fired + 1) * interval <= Newest.began + Turn
  BY DEF TickerInv, NextTick
<1>3. (fired + 1) * interval = fired * interval + interval
        /\ (fired + 2) * interval = fired * interval + 2 * interval
        /\ fired * interval \in Nat
  BY <1>1
<1>4. CASE BeginCycle
  <2>1. /\ loop = "begin" /\ loop' = "waiting"
        /\ UNCHANGED <<regime, now, epoch, fired, pending>>
    BY <1>4 DEF BeginCycle
  <2>2. Count' = Count + 1 /\ Newest'.began = now /\ interval' = interval
    BY <1>4, NewestBegun
  <2>3. Taken' = Taken
    BY <1>1, <2>1, <2>2 DEF Taken, Consumed
  <2>4. Turn' \in Nat /\ Turn' >= interval
    BY <1>1, <2>2 DEF Turn
  <2>5. epoch + (fired + 1) * interval <= now + Turn'
    <3>1. epoch + fired * interval <= now
      BY <1>2, <2>1
    <3>. DEFINE elapsed == fired * interval
    <3>2. elapsed \in Nat /\ epoch + elapsed <= now
      BY <1>3, <3>1
    <3>3. (fired + 1) * interval = elapsed + interval
      BY <1>3
    <3>. HIDE DEF elapsed
    <3>4. epoch + (elapsed + interval) <= now + interval
      BY <1>1, <3>2
    <3>5. PICK t \in Nat : t = Turn'
      BY <2>4
    <3>6. interval <= t
      BY <2>4, <3>5
    <3>7. now \in Nat /\ interval \in Nat /\ epoch \in Int
      BY <1>1
    <3>8. now + interval <= now + t
      BY <3>6, <3>7
    <3>9. epoch + (elapsed + interval) <= now + t
      BY <3>2, <3>4, <3>7, <3>8
    <3>10. QED
      BY <3>3, <3>5, <3>9
  <2>6. QED
    BY <1>2, <2>1, <2>2, <2>3, <2>5
<1>5. CASE StopWaiting
  <2>1. /\ loop = "waiting" /\ loop' = "select"
        /\ UNCHANGED <<regime, now, pending, cycle>>
        /\ IF epoch = -1 THEN epoch' = now /\ fired' = 0 ELSE UNCHANGED <<epoch, fired>>
    BY <1>5 DEF StopWaiting, CreateTicker
  <2>2. /\ Count' = Count /\ Newest' = Newest /\ interval' = interval /\ Turn' = Turn
        /\ Taken' = Taken
    BY <2>1 DEF Count, Newest, interval, Turn, Taken, Consumed
  <2>3. CASE epoch # -1
    BY <1>2, <2>1, <2>2, <2>3
  <2>4. CASE epoch = -1
    <3>1. Count = 1 /\ ~pending /\ fired' = 0 /\ epoch' = now
      BY <2>1, <2>4 DEF EpochInv
    <3>2. Turn = 2 * interval /\ Taken = 0
      BY <2>1, <3>1 DEF Turn, Taken, Consumed
    <3>3. now <= Newest.began + interval /\ Newest.began \in Nat
      BY <2>1, <3>1, CycleTypes, Types DEF LoopInv, Newest, Count
    <3>4. 0 * interval = 0 /\ (0 + 1) * interval = interval
      BY <1>1
    <3>5. QED
      BY <1>1, <2>1, <2>2, <3>1, <3>2, <3>3, <3>4
  <2>5. QED
    BY <2>3, <2>4
<1>6. CASE Fire
  <2>1. /\ epoch # -1 /\ now >= epoch + (fired + 1) * interval
        /\ fired' = fired + 1 /\ pending' = TRUE
        /\ UNCHANGED <<regime, now, loop, epoch, cycle>>
    BY <1>6 DEF Fire, NextTick
  <2>2. interval' = interval /\ Taken' <= Taken + 1 /\ Taken \in Int
    <3>1. interval' = interval /\ Consumed' = Consumed
      BY <2>1 DEF interval, Consumed, Count
    <3>2. Consumed \in Int
      BY <1>1 DEF Consumed
    <3>3. QED
      BY <1>1, <2>1, <3>1, <3>2 DEF Taken
  <2>3. Taken' \in Int
    BY <1>1, <2>1 DEF Taken, Consumed, Count
  <2>4. fired' >= Taken'
    BY <1>1, <1>2, <2>1, <2>2, <2>3
  <2>5. (fired' + 1) * interval = (fired + 2) * interval
    BY <1>1, <2>1
  <2>6. QED
    BY <1>1, <1>2, <1>3, <2>1, <2>2, <2>4, <2>5
<1>7. CASE Tick
  <2>1. /\ loop = "select" /\ loop' = "begin" /\ pending /\ pending' = FALSE
        /\ UNCHANGED <<regime, now, epoch, fired, cycle>>
    BY <1>7 DEF Tick
  <2>2. interval' = interval /\ Taken' = Taken
    BY <1>1, <2>1 DEF interval, Taken, Consumed, Count
  <2>3. QED
    BY <1>2, <2>1, <2>2
<1>8. CASE \E g \in Running : CycleStep(g)
  <2>1. PICK g \in Running : CycleStep(g)
    BY <1>8
  <2>2. UNCHANGED <<now, loop, epoch, fired, pending>>
    BY <2>1, CycleMoves
  <2>3. /\ Count' = Count /\ Newest'.began = Newest.began /\ interval' = interval
        /\ Turn' = Turn /\ Taken' = Taken
    BY <2>1, <2>2, NewestMoves DEF Turn, Taken, Consumed
  <2>4. QED
    BY <1>2, <2>2, <2>3
<1>9. CASE Elapse
  <2>1. /\ now' \in {now, now + 1}
        /\ UNCHANGED <<regime, loop, epoch, fired, pending, cycle>>
        /\ ~LoopIsDue
    BY <1>9, TimePasses
  <2>2. /\ Count' = Count /\ Newest' = Newest /\ interval' = interval /\ Turn' = Turn
        /\ Taken' = Taken
    BY <2>1 DEF Count, Newest, interval, Turn, Taken, Consumed
  <2>3. now < epoch + (fired + 1) * interval
    BY <1>1, <1>3, <2>1 DEF LoopIsDue, NextTick
  <2>4. now' <= epoch + (fired + 1) * interval /\ epoch + fired * interval <= now'
    BY <1>1, <1>2, <1>3, <2>1, <2>3
  <2>5. QED
    BY <1>2, <2>1, <2>2, <2>4
<1>10. CASE UNCHANGED vars
  <2>1. UNCHANGED <<regime, now, loop, epoch, fired, pending, cycle>>
    BY <1>10 DEF vars
  <2>2. /\ Count' = Count /\ Newest' = Newest /\ interval' = interval /\ Turn' = Turn
        /\ Taken' = Taken
    BY <2>1 DEF Count, Newest, interval, Turn, Taken, Consumed
  <2>3. QED
    BY <1>2, <2>1, <2>2
<1>11. QED
  BY <1>4, <1>5, <1>6, <1>7, <1>8, <1>9, <1>10 DEF Next

\* The loop falls behind the grid by a wait for the lock in slow cycles only, and a
\* tick is dropped only when it has fallen behind that far.
LEMMA PaceStep ==
    ASSUME TypeOK, EpochInv, LoopInv, TickerInv, PaceInv, [Next]_vars
    PROVE  PaceInv'
<1>. USE DEF loopVars, tickerVars, servedVars
<1>1. /\ Count \in Nat /\ now \in Nat /\ since \in Nat /\ since <= now
      /\ interval \in Nat /\ interval > 0 /\ Lag \in Nat
      /\ epoch \in Int /\ fired \in Nat /\ slow \in Nat
      /\ loop \in {"begin", "waiting", "select"} /\ pending \in BOOLEAN
  BY Types DEF TypeOK
<1>2. Count > 0 => Newest.began \in Nat
  BY <1>1, CycleTypes, Types DEF Newest, Count
<1>. DEFINE f == fired * interval
            c == Count * interval
            d == Behind
<1>3. f \in Nat /\ c \in Nat /\ d \in Int
  BY <1>1 DEF Behind
<1>4. /\ (fired + 1) * interval = f + interval
      /\ (Count + 1) * interval = c + interval
      /\ (slow + 1) * Lag = slow * Lag + Lag
  BY <1>1
<1>5. epoch # -1 => Pace(f, c, d)
  BY DEF PaceInv
<1>6. epoch # -1 => epoch + f <= now
  BY DEF TickerInv
<1>7. epoch # -1 /\ loop = "begin" => c <= f
  <2>. SUFFICES ASSUME epoch # -1, loop = "begin" PROVE c <= f
    OBVIOUS
  <2>1. fired >= Count
    BY <1>1 DEF TickerInv, Taken, Consumed
  <2>2. QED
    BY <1>1, <2>1
<1>. HIDE DEF f, c, d
<1>8. CASE BeginCycle
  <2>. SUFFICES ASSUME epoch # -1 PROVE Pace(fired * interval, Count * interval, Behind)'
    BY <1>8 DEF PaceInv, BeginCycle
  <2>1. /\ loop = "begin" /\ loop' = "waiting" /\ since' = now
        /\ UNCHANGED <<regime, now, epoch, fired, pending, slow>>
    BY <1>8 DEF BeginCycle
  <2>2. Count' = Count + 1 /\ Newest'.began = now /\ interval' = interval
    BY <1>8, NewestBegun
  <2>3. fired' * interval' = f /\ Count' * interval' = c + interval /\ Behind' = d
    BY <1>4, <2>1, <2>2 DEF f, d, Behind
  <2>4. SlowAlready' <=> SlowAlready
    BY <1>1, <2>1, <2>2 DEF SlowAlready
  <2>5. /\ f <= c + (IF pending THEN interval ELSE 0) + d
                  + (IF SlowAlready THEN Lag ELSE 0)
        /\ since <= epoch + c + d
    BY <1>1, <1>3, <1>5, <2>1 DEF Pace
  <2>6. epoch + c <= now /\ now <= epoch + c + d + Lag
    BY <1>1, <1>3, <1>6, <1>7, <2>1, <2>5 DEF LoopInv
  <2>7. f <= (c + interval) - interval + (IF pending THEN interval ELSE 0)
              + d + (IF SlowAlready THEN Lag ELSE 0)
    BY <1>1, <1>3, <2>5
  <2>8. /\ epoch + (c + interval) - interval <= now
        /\ now <= epoch + (c + interval) - interval + d + Lag
    BY <1>1, <1>3, <2>6
  <2>9. QED
    BY <2>1, <2>2, <2>3, <2>4, <2>7, <2>8 DEF Pace
<1>9. CASE StopWaiting
  <2>1. /\ loop = "waiting" /\ loop' = "select" /\ since' = now
        /\ UNCHANGED <<regime, now, pending, cycle>>
        /\ IF epoch = -1 THEN epoch' = now /\ fired' = 0 ELSE UNCHANGED <<epoch, fired>>
        /\ slow' = IF now > since + interval - Lag THEN slow + 1 ELSE slow
    BY <1>9 DEF StopWaiting, CreateTicker
  <2>2. /\ Count' = Count /\ Newest' = Newest /\ interval' = interval /\ Count > 0
    BY <2>1 DEF Count, Newest, interval, EpochInv
  <2>3. ~SlowAlready' /\ (SlowAlready <=> now > since + interval - Lag)
    BY <2>1 DEF SlowAlready
  <2>4. Count' * interval' = c /\ Behind' = d + (IF SlowAlready THEN Lag ELSE 0)
    BY <1>1, <1>4, <2>1, <2>2, <2>3 DEF c, d, Behind
  <2>5. CASE epoch # -1
    <3>1. Pace(f, c, d) /\ since = Newest.began /\ now <= since + interval /\ Count > 1
      BY <1>1, <1>5, <2>1, <2>2, <2>5 DEF LoopInv, EpochInv
    <3>2. fired' * interval' = f
      BY <2>1, <2>2, <2>5 DEF f
    <3>3. /\ f <= c - interval + (IF pending THEN interval ELSE 0)
                    + d + (IF SlowAlready THEN Lag ELSE 0)
          /\ epoch + c - interval <= Newest.began
          /\ Newest.began <= epoch + c - interval + d + Lag
      BY <2>1, <3>1 DEF Pace
    <3>4. now <= epoch + c + (d + (IF SlowAlready THEN Lag ELSE 0))
      BY <1>1, <1>3, <2>3, <3>1, <3>3
    <3>5. f <= c - interval + (IF pending THEN interval ELSE 0)
                 + (d + (IF SlowAlready THEN Lag ELSE 0)) + 0
      BY <1>1, <1>3, <3>3
    <3>6. Newest.began <=
             epoch + c - interval + (d + (IF SlowAlready THEN Lag ELSE 0)) + Lag
      BY <1>1, <1>2, <1>3, <2>2, <3>3
    <3>7. QED
      BY <2>1, <2>2, <2>3, <2>4, <2>5, <3>2, <3>3, <3>4, <3>5, <3>6 DEF PaceInv, Pace
  <2>6. CASE epoch = -1
    <3>1. Count = 1 /\ ~pending /\ epoch' = now /\ fired' = 0
      BY <2>1, <2>6 DEF EpochInv
    <3>2. c = interval /\ fired' * interval' = 0
      BY <1>1, <2>2, <3>1 DEF c
    <3>3. slow * Lag \in Nat
      BY <1>1
    <3>4. 0 <= d + (IF SlowAlready THEN Lag ELSE 0)
      BY <1>1, <2>3, <3>3 DEF d, Behind
    <3>5. QED
      BY <1>1, <1>3, <2>1, <2>2, <2>3, <2>4, <3>1, <3>2, <3>4 DEF PaceInv, Pace
  <2>7. QED
    BY <2>5, <2>6
<1>10. CASE Fire
  <2>1. /\ epoch # -1 /\ fired' = fired + 1 /\ pending' = TRUE
        /\ UNCHANGED <<regime, now, loop, since, epoch, cycle, slow>>
    BY <1>10 DEF Fire
  <2>2. epoch + f + interval <= now
    <3>1. now >= epoch + (fired + 1) * interval
      BY <1>10 DEF Fire, NextTick
    <3>2. QED
      BY <1>1, <1>3, <1>4, <3>1
  <2>3. /\ Count' = Count /\ Newest' = Newest /\ interval' = interval
        /\ (SlowAlready' <=> SlowAlready)
    BY <2>1 DEF Count, Newest, interval, SlowAlready
  <2>4. fired' * interval' = f + interval /\ Count' * interval' = c /\ Behind' = d
    BY <1>4, <2>1, <2>3 DEF c, d, Behind
  <2>5. Pace(f, c, d)
    BY <1>5, <2>1
  <2>6. f <= c - (IF loop = "begin" THEN 0 ELSE interval) + d
              + (IF SlowAlready THEN Lag ELSE 0)
    <3>1. CASE ~pending
      BY <1>1, <1>3, <2>5, <3>1 DEF Pace
    <3>2. CASE loop = "select"
      <4>1. now <= epoch + c + d /\ ~SlowAlready
        BY <2>5, <3>2 DEF Pace, SlowAlready
      <4>2. QED
        BY <1>1, <1>3, <2>2, <3>2, <4>1
    <3>3. CASE loop = "begin"
      <4>1. /\ since <= epoch + c + d /\ now <= since + Lag
            /\ SlowAlready <=> Lag > interval
        BY <2>5, <3>3 DEF Pace, SlowAlready, LoopInv
      <4>2. QED
        BY <1>1, <1>3, <2>2, <3>3, <4>1
    <3>4. CASE loop = "waiting"
      <4>1. /\ Count > 1 /\ since = Newest.began /\ now <= since + interval
            /\ SlowAlready <=> now > since + interval - Lag
        BY <1>1, <2>1, <3>4 DEF LoopInv, EpochInv, SlowAlready
      <4>2. Newest.began <= epoch + c - interval + d + Lag
        BY <2>5, <4>1 DEF Pace
      <4>3. QED
        BY <1>1, <1>3, <2>2, <3>4, <4>1, <4>2
    <3>5. QED
      BY <1>1, <3>2, <3>3, <3>4
  <2>7. f + interval <= c - (IF loop = "begin" THEN 0 ELSE interval) + interval
                          + d + (IF SlowAlready THEN Lag ELSE 0)
    BY <1>1, <1>3, <2>6
  <2>8. QED
    BY <2>1, <2>3, <2>4, <2>5, <2>7 DEF PaceInv, Pace
<1>11. CASE Tick
  <2>1. /\ loop = "select" /\ loop' = "begin"
        /\ pending /\ pending' = FALSE /\ since' = now
        /\ UNCHANGED <<regime, now, epoch, fired, cycle, slow>>
    BY <1>11 DEF Tick
  <2>2. Count' = Count /\ Newest' = Newest /\ interval' = interval
    BY <2>1 DEF Count, Newest, interval
  <2>3. fired' * interval' = f /\ Count' * interval' = c /\ Behind' = d
    BY <2>1, <2>2 DEF f, c, d, Behind
  <2>4. epoch # -1 /\ Pace(f, c, d) /\ ~SlowAlready
    BY <1>5, <2>1 DEF EpochInv, SlowAlready
  <2>5. f <= c - 0 + 0 + d + (IF SlowAlready' THEN Lag ELSE 0)
    BY <1>1, <1>3, <2>1, <2>4 DEF Pace
  <2>6. QED
    BY <2>1, <2>2, <2>3, <2>4, <2>5 DEF PaceInv, Pace
<1>12. CASE \E g \in Running : CycleStep(g)
  <2>1. PICK g \in Running : CycleStep(g)
    BY <1>12
  <2>2. UNCHANGED <<now, loop, since, epoch, fired, pending, slow>>
    BY <2>1, CycleMoves
  <2>3. Count' = Count /\ Newest'.began = Newest.began /\ interval' = interval
    BY <2>1, NewestMoves
  <2>4. (SlowAlready' <=> SlowAlready) /\ Behind' = Behind
    BY <2>2, <2>3 DEF SlowAlready, Behind
  <2>5. QED
    BY <2>2, <2>3, <2>4 DEF PaceInv, Pace
<1>13. CASE Elapse
  <2>1. /\ now' \in {now, now + 1}
        /\ UNCHANGED <<regime, loop, since, epoch, fired, pending, cycle, slow>>
        /\ ~LoopIsDue
    BY <1>13, TimePasses
  <2>2. Count' = Count /\ Newest' = Newest /\ interval' = interval
    BY <2>1 DEF Count, Newest, interval
  <2>3. fired' * interval' = f /\ Count' * interval' = c /\ Behind' = d
    BY <2>1, <2>2 DEF f, c, d, Behind
  <2>. SUFFICES ASSUME epoch # -1 PROVE Pace(fired * interval, Count * interval, Behind)'
    BY <2>1 DEF PaceInv
  <2>4. Pace(f, c, d)
    BY <1>5
  <2>5. SlowAlready => SlowAlready'
    BY <1>1, <2>1, <2>2 DEF SlowAlready
  <2>6. f <= c - (IF loop = "begin" THEN 0 ELSE interval)
              + (IF pending THEN interval ELSE 0)
              + d + (IF SlowAlready' THEN Lag ELSE 0)
    BY <1>1, <1>3, <2>4, <2>5 DEF Pace
  <2>7. loop = "select" => now' <= epoch + c + d
    <3>. SUFFICES ASSUME loop = "select" PROVE now' <= epoch + c + d
      OBVIOUS
    <3>1. now < epoch + (fired + 1) * interval /\ ~pending
      BY <1>1, <1>3, <1>4, <2>1 DEF LoopIsDue, NextTick
    <3>2. now < epoch + f + interval
      BY <1>1, <1>3, <1>4, <3>1
    <3>3. f <= c - interval + 0 + d + 0
      BY <2>4, <3>1 DEF Pace, SlowAlready
    <3>4. QED
      BY <1>1, <1>3, <2>1, <3>2, <3>3
  <2>8. QED
    BY <2>1, <2>2, <2>3, <2>4, <2>6, <2>7 DEF Pace
<1>14. CASE UNCHANGED vars
  BY <1>14 DEF vars, PaceInv, Pace, Count, Newest, interval, Behind, SlowAlready
<1>15. QED
  BY <1>8, <1>9, <1>10, <1>11, <1>12, <1>13, <1>14 DEF Next

\* What is due happens before time passes, so no cycle stays where it is too long;
\* and with no time at all the deadline has passed before the first item.
LEMMA CycleInvStep == TypeOK /\ CycleInv /\ [Next]_vars => CycleInv'
<1>. SUFFICES ASSUME TypeOK, CycleInv, [Next]_vars PROVE CycleInv'
  OBVIOUS
<1>. USE DEF loopVars, tickerVars, servedVars
<1>1. /\ now \in Nat /\ Lag \in Nat /\ regime.timeout \in Nat /\ regime.call \in Nat
      /\ Count \in Nat /\ DOMAIN cycle = 1..Count
  BY Types
<1>2. \A g \in DOMAIN cycle :
         /\ cycle[g].began \in Nat /\ cycle[g].since \in Nat
         /\ cycle[g].at \in {"list", "item", "ok", "failed", "done"}
         /\ cycle[g].visited \in BOOLEAN
  BY CycleTypes
<1>3. CASE UNCHANGED <<regime, now, cycle>>
  BY <1>3 DEF CycleInv, Calling, Deadline
<1>4. CASE BeginCycle
  <2>1. /\ DOMAIN cycle' = 1..(Count + 1)
        /\ \A g \in 1..Count : cycle'[g] = cycle[g]
        /\ cycle'[Count + 1] = [at |-> "list", began |-> now,
                                since |-> now, visited |-> FALSE]
        /\ regime' = regime /\ now' = now
    BY <1>4, Begun DEF BeginCycle
  <2>2. QED
    BY <1>1, <2>1 DEF CycleInv, Calling, Deadline
<1>5. CASE \E g \in Running : CycleStep(g)
  <2>1. PICK g \in Running : CycleStep(g)
    BY <1>5
  <2>2. g \in DOMAIN cycle /\ cycle[g].at # "done"
    BY <2>1, CycleMoves
  <2>3. /\ DOMAIN cycle' = DOMAIN cycle /\ regime' = regime /\ now' = now
        /\ \A h \in DOMAIN cycle : h # g => cycle'[h] = cycle[h]
    BY <2>1, CycleMoves
  <2>4. PICK at \in {"item", "ok", "failed", "done"}, t \in {now, 0} :
           /\ cycle'[g] = Moved(cycle[g], at, t)
           /\ t = IF at = "done" THEN 0 ELSE now
           /\ at # "done" => Calling(g)
           /\ at = "item" => ~Expired(g)
    BY <2>1, CycleMoves
  <2>5. at # "done" => cycle[g].at \in {"list", "item"}
    BY <2>4 DEF Calling
  <2>6. /\ cycle'[g].at = at /\ cycle'[g].began = cycle[g].began /\ cycle'[g].since = t
        /\ cycle'[g].visited = (cycle[g].visited \/ at = "item")
    BY <2>4 DEF Moved
  <2>7. /\ cycle[g].began <= now
        /\ Calling(g) /\ regime.call > 0 =>
              now <= cycle[g].since + regime.call /\ cycle[g].since <= Deadline(g)
        /\ regime.timeout = 0 => ~cycle[g].visited
    BY <2>2 DEF CycleInv
  <2>8. at = "item" => now <= cycle[g].began + regime.timeout
    BY <1>1, <1>2, <2>2, <2>4 DEF Expired, Deadline
  <2>9. at = "item" => regime.timeout # 0
    BY <1>1, <1>2, <2>2, <2>4, <2>7 DEF Expired, Deadline
  <2>10. /\ cycle'[g].began <= now
         /\ at = "item" /\ regime.call > 0 =>
               now <= t + regime.call /\ t <= cycle[g].began + regime.timeout
         /\ at \in {"ok", "failed"} =>
               /\ now <= t + Lag
               /\ regime.call > 0 =>
                     t <= cycle[g].began + regime.timeout + regime.call
         /\ regime.timeout = 0 => ~cycle'[g].visited
    <3>1. at # "done" /\ regime.call > 0 =>
             now <= cycle[g].began + regime.timeout + regime.call
      BY <1>1, <1>2, <2>2, <2>4, <2>7 DEF Deadline
    <3>2. at # "done" => t = now
      BY <2>4
    <3>3. at \in {"ok", "failed"} => now <= t + Lag
      BY <1>1, <3>2
    <3>4. at = "item" => now <= t + regime.call
      BY <1>1, <3>2
    <3>5. regime.timeout = 0 => ~cycle'[g].visited
      BY <2>6, <2>7, <2>9
    <3>6. QED
      BY <2>6, <2>7, <2>8, <3>1, <3>2, <3>3, <3>4, <3>5
  <2>11. \A h \in DOMAIN cycle : h # g =>
            /\ cycle[h].began <= now
            /\ Calling(h) /\ regime.call > 0 =>
                  /\ now <= cycle[h].since + regime.call
                  /\ cycle[h].since <= Deadline(h)
            /\ cycle[h].at \in {"ok", "failed"} =>
                  /\ now <= cycle[h].since + Lag
                  /\ regime.call > 0 => cycle[h].since <= Deadline(h) + regime.call
            /\ regime.timeout = 0 => ~cycle[h].visited
    BY DEF CycleInv
  <2>12. QED
    BY <2>3, <2>6, <2>10, <2>11 DEF CycleInv, Calling, Deadline
<1>6. CASE Elapse
  <2>1. /\ now' \in {now, now + 1} /\ UNCHANGED <<regime, cycle>>
        /\ \A g \in Running : ~CycleIsDue(g)
    BY <1>6, TimePasses
  <2>2. ASSUME NEW g \in DOMAIN cycle
        PROVE  /\ Calling(g) /\ regime.call > 0 => now < cycle[g].since + regime.call
               /\ cycle[g].at \in {"ok", "failed"} => now < cycle[g].since + Lag
    <3>1. cycle[g].at # "done" => ~CycleIsDue(g)
      BY <2>1 DEF Running
    <3>2. QED
      BY <1>1, <1>2, <3>1 DEF CycleIsDue, Calling
  <2>3. ASSUME NEW g \in DOMAIN cycle
        PROVE  /\ cycle[g].began <= now'
               /\ Calling(g) /\ regime.call > 0 => now' <= cycle[g].since + regime.call
               /\ cycle[g].at \in {"ok", "failed"} => now' <= cycle[g].since + Lag
    BY <1>1, <1>2, <2>1, <2>2 DEF CycleInv
  <2>4. QED
    BY <2>1, <2>3 DEF CycleInv, Calling, Deadline
<1>7. QED
  BY <1>3, <1>4, <1>5, <1>6 DEF Next, vars, StopWaiting, Fire, Tick

\* The wait ends before the cycle is done only when the interval is over.
LEMMA WaitStep ==
    TypeOK /\ EpochInv /\ LoopInv /\ CycleInv /\ WaitInv /\ [Next]_vars => WaitInv'
<1>. SUFFICES ASSUME TypeOK, EpochInv, LoopInv, CycleInv, WaitInv, [Next]_vars
              PROVE  WaitInv'
  OBVIOUS
<1>. USE DEF loopVars, tickerVars, servedVars
<1>1. /\ now \in Nat /\ interval \in Nat /\ since \in Nat
      /\ Count \in Nat /\ DOMAIN cycle = 1..Count
      /\ \A g \in DOMAIN cycle : cycle[g].began \in Nat
  BY Types, CycleTypes
<1>2. Count > 0 => Newest = cycle[Count] /\ Newest.began \in Nat /\ Newest.began <= now
  BY <1>1 DEF Newest, Count, CycleInv
<1>3. CASE UNCHANGED <<regime, now, loop, cycle>>
  BY <1>3 DEF WaitInv, Running, Count, Newest, interval
<1>4. CASE BeginCycle
  <2>1. /\ DOMAIN cycle' = 1..(Count + 1) /\ Count' = Count + 1
        /\ \A g \in 1..Count : cycle'[g] = cycle[g]
        /\ Newest'.began = now /\ interval' = interval
        /\ loop = "begin" /\ loop' = "waiting"
    BY <1>4, Begun, NewestBegun DEF BeginCycle
  <2>. SUFFICES ASSUME NEW g \in Running', g < Count + 1
                PROVE  cycle'[g].began + interval <= now
    BY <2>1 DEF WaitInv
  <2>2. g \in Running /\ g \in 1..Count /\ cycle'[g] = cycle[g]
    BY <1>1, <2>1 DEF Running
  <2>3. CASE g < Count
    BY <1>1, <1>2, <2>2, <2>3 DEF WaitInv
  <2>4. CASE g = Count
    BY <2>1, <2>2, <2>4 DEF WaitInv
  <2>5. QED
    BY <1>1, <2>2, <2>3, <2>4
<1>5. CASE StopWaiting
  <2>1. /\ loop = "waiting" /\ loop' = "select" /\ UNCHANGED <<regime, now, cycle>>
        /\ Completed \/ BoundElapsed
    BY <1>5 DEF StopWaiting
  <2>2. Count \in Running => cycle[Count].began + interval <= now
    <3>. SUFFICES ASSUME Count \in Running PROVE cycle[Count].began + interval <= now
      OBVIOUS
    <3>1. BoundElapsed /\ since = cycle[Count].began
      BY <1>2, <1>1, <2>1 DEF Completed, Running, Count, LoopInv, Newest
    <3>2. QED
      BY <1>1, <3>1 DEF BoundElapsed
  <2>3. QED
    BY <2>1, <2>2 DEF WaitInv, Running, Count, Newest, interval
<1>6. CASE Tick
  <2>1. loop = "select" /\ loop' = "begin" /\ UNCHANGED <<regime, now, cycle>>
    BY <1>6 DEF Tick
  <2>2. QED
    BY <2>1 DEF WaitInv, Running, Count, Newest, interval
<1>7. CASE \E g \in Running : CycleStep(g)
  <2>1. PICK g \in Running : CycleStep(g)
    BY <1>7
  <2>2. /\ Count' = Count /\ Newest'.began = Newest.began /\ interval' = interval
        /\ UNCHANGED <<now, loop>> /\ DOMAIN cycle' = DOMAIN cycle
        /\ \A h \in DOMAIN cycle : cycle'[h].began = cycle[h].began
    BY <2>1, NewestMoves, CycleMoves
  <2>3. Running' \subseteq Running
    BY <2>1, CycleMoves DEF Running
  <2>4. \A h \in Running : h \in DOMAIN cycle
    BY DEF Running
  <2>5. QED
    BY <2>2, <2>3, <2>4 DEF WaitInv
<1>8. CASE Elapse
  <2>1. now' \in {now, now + 1} /\ UNCHANGED <<regime, loop, cycle>>
    BY <1>8, TimePasses
  <2>2. \A g \in Running : g \in DOMAIN cycle
    BY DEF Running
  <2>3. \A g \in Running :
           /\ g < Count => cycle[g].began + interval <= Newest.began
           /\ g = Count /\ loop # "waiting" => cycle[g].began + interval <= now'
    BY <1>1, <2>1, <2>2 DEF WaitInv
  <2>4. QED
    BY <2>1, <2>3 DEF WaitInv, Running, Count, Newest, interval
<1>9. QED
  BY <1>3, <1>4, <1>5, <1>6, <1>7, <1>8 DEF Next, vars, Fire

\* A finite set of cycles that is part of another has no more intervals.
LEMMA FewerIntervals ==
    ASSUME NEW S, IsFiniteSet(S), NEW T, T \subseteq S, NEW i \in Nat
    PROVE  Cardinality(T) \in Nat /\ Cardinality(S) \in Nat
           /\ Cardinality(T) * i <= Cardinality(S) * i
<1>1. /\ Cardinality(T) <= Cardinality(S)
      /\ Cardinality(T) \in Nat /\ Cardinality(S) \in Nat
  BY FS_Subset, FS_CardinalityType
<1>2. \A m, n \in Nat : m <= n => m * i <= n * i
  OBVIOUS
<1>3. QED
  BY <1>1, <1>2

\* The cycles after another are finitely many.
LEMMA AfterFinite ==
    ASSUME TypeOK, NEW g
    PROVE  IsFiniteSet(Running) /\ IsFiniteSet(After(g))
<1>1. Count \in Nat /\ Running \subseteq 1..Count
  BY Types DEF Running
<1>2. Live \subseteq 0..Count /\ After(g) \subseteq Live
  BY <1>1 DEF After, Live
<1>3. IsFiniteSet(0..Count) /\ IsFiniteSet(1..Count)
  BY <1>1, FS_Interval
<1>4. QED
  BY <1>1, <1>2, <1>3, FS_Subset

\* One more is an interval later, unless the newest cycle was done.
LEMMA FlightStep ==
    TypeOK /\ CycleInv /\ WaitInv /\ FlightInv /\ [Next]_vars => FlightInv'
<1>. SUFFICES ASSUME TypeOK, CycleInv, WaitInv, FlightInv, [Next]_vars PROVE FlightInv'
  OBVIOUS
<1>. USE DEF loopVars, tickerVars, servedVars
<1>1. /\ now \in Nat /\ interval \in Nat /\ Count \in Nat /\ DOMAIN cycle = 1..Count
      /\ \A g \in DOMAIN cycle : cycle[g].began \in Nat
  BY Types, CycleTypes
<1>2. Running \subseteq 1..Count /\ \A g \in Running : cycle[g].at # "done"
  BY <1>1 DEF Running
<1>3. CASE UNCHANGED <<regime, cycle>>
  BY <1>3 DEF FlightInv, After, Live, Running, Count, Newest, interval
<1>4. CASE BeginCycle
  <2>1. /\ DOMAIN cycle' = 1..(Count + 1) /\ Count' = Count + 1
        /\ \A g \in 1..Count : cycle'[g] = cycle[g]
        /\ cycle'[Count + 1].at = "list" /\ cycle'[Count + 1].began = now
        /\ Newest'.began = now /\ interval' = interval /\ loop = "begin"
    <3>1. cycle'[Count + 1] = [at |-> "list", began |-> now,
                               since |-> now, visited |-> FALSE]
      BY <1>4, Begun
    <3>2. cycle'[Count + 1].at = "list" /\ cycle'[Count + 1].began = now
      BY <3>1
    <3>3. QED
      BY <1>4, <3>2, Begun, NewestBegun DEF BeginCycle
  <2>2. Running' = Running \cup {Count + 1}
    BY <1>1, <1>2, <2>1 DEF Running
  <2>. SUFFICES ASSUME NEW g \in Running'
                PROVE  Cardinality(After(g)') * interval <= now - cycle'[g].began
    BY <2>1 DEF FlightInv, After, Live
  <2>. DEFINE later == {h \in Running : h > g}
  <2>3. CASE g = Count + 1
    <3>1. Live' = Running \cup {Count + 1}
      BY <2>1, <2>2 DEF Live
    <3>2. \A h \in Running \cup {Count + 1} : ~(h > Count + 1)
      BY <1>1, <1>2
    <3>3. After(g)' = {}
      BY <2>3, <3>1, <3>2 DEF After
    <3>4. Cardinality(After(g)') = 0
      BY <3>3, FS_EmptySet
    <3>5. 0 * interval = 0 /\ cycle'[g].began = now
      BY <1>1, <2>1, <2>3
    <3>6. QED
      BY <1>1, <3>4, <3>5
  <2>4. CASE g # Count + 1
    <3>1. g \in Running /\ g \in 1..Count /\ cycle'[g].began = cycle[g].began
      BY <1>1, <1>2, <2>1, <2>2, <2>4
    <3>2. After(g)' = later \cup {Count + 1} /\ Count + 1 \notin later
      BY <1>1, <1>2, <2>1, <2>2, <3>1 DEF After, Live
    <3>3. IsFiniteSet(later) /\ Cardinality(later) \in Nat
      BY AfterFinite, FS_Subset, FS_CardinalityType
    <3>4. Cardinality(After(g)') = Cardinality(later) + 1
      BY <3>2, <3>3, FS_AddElement
    <3>5. Cardinality(After(g)) * interval <= Newest.began - cycle[g].began
      BY <3>1 DEF FlightInv
    <3>6. Newest = cycle[Count] /\ Newest.began \in Nat /\ Newest.began <= now
      BY <1>1, <3>1 DEF Newest, Count, CycleInv
    <3>7. CASE Count \in Running
      <4>1. After(g) = later
        BY <3>7 DEF After, Live
      <4>2. Newest.began + interval <= now
        BY <2>1, <3>6, <3>7 DEF WaitInv
      <4>. DEFINE so == Cardinality(later) * interval
      <4>3. so \in Nat /\ (Cardinality(later) + 1) * interval = so + interval
        BY <1>1, <3>3
      <4>4. so <= Newest.began - cycle[g].began
        BY <3>5, <4>1
      <4>. HIDE DEF so
      <4>5. so + interval <= now - cycle[g].began
        BY <1>1, <3>1, <3>6, <4>2, <4>3, <4>4
      <4>6. QED
        BY <3>1, <3>4, <4>3, <4>5
    <3>8. CASE Count \notin Running
      <4>1. After(g) = later \cup {Count} /\ Count \notin later
        BY <1>1, <3>1, <3>8 DEF After, Live
      <4>2. Cardinality(After(g)) = Cardinality(later) + 1
        BY <3>3, <4>1, FS_AddElement
      <4>. DEFINE so == (Cardinality(later) + 1) * interval
      <4>3. so \in Nat /\ so <= Newest.began - cycle[g].began
        BY <1>1, <3>3, <3>5, <4>2
      <4>. HIDE DEF so
      <4>4. so <= now - cycle[g].began
        BY <1>1, <3>1, <3>6, <4>3
      <4>5. QED
        BY <3>1, <3>4, <4>4 DEF so
    <3>9. QED
      BY <3>7, <3>8
  <2>5. QED
    BY <2>3, <2>4
<1>5. CASE \E g \in Running : CycleStep(g)
  <2>1. PICK g \in Running : CycleStep(g)
    BY <1>5
  <2>2. /\ Count' = Count /\ Newest'.began = Newest.began /\ interval' = interval
        /\ \A h \in DOMAIN cycle : cycle'[h].began = cycle[h].began
    BY <2>1, NewestMoves, CycleMoves
  <2>3. Running' \subseteq Running
    BY <2>1, CycleMoves DEF Running
  <2>. SUFFICES ASSUME NEW h \in Running'
                PROVE  Cardinality(After(h)') * interval <= Newest.began - cycle[h].began
    BY <1>2, <1>1, <2>2, <2>3 DEF FlightInv, After, Live
  <2>4. After(h)' \subseteq After(h)
    BY <2>2, <2>3 DEF After, Live
  <2>5. /\ Cardinality(After(h)') * interval <= Cardinality(After(h)) * interval
        /\ Cardinality(After(h)') * interval \in Nat
        /\ Cardinality(After(h)) * interval \in Nat
    <3>1. IsFiniteSet(After(h))
      BY AfterFinite
    <3>2. /\ Cardinality(After(h)') \in Nat /\ Cardinality(After(h)) \in Nat
          /\ Cardinality(After(h)') * interval <= Cardinality(After(h)) * interval
      BY <1>1, <2>4, <3>1, FewerIntervals
    <3>3. \A m \in Nat : m * interval \in Nat
      BY <1>1
    <3>4. QED
      BY <3>2, <3>3
  <2>6. Cardinality(After(h)) * interval <= Newest.began - cycle[h].began
    BY <2>3 DEF FlightInv
  <2>7. Newest.began \in Nat /\ cycle[h].began \in Nat
    BY <1>1, <1>2, <2>3 DEF Newest, Count
  <2>8. QED
    BY <2>5, <2>6, <2>7
<1>6. QED
  BY <1>3, <1>4, <1>5 DEF Next, vars, StopWaiting, Fire, Tick, Elapse

\* The newest cycle's turn is its reign, but for the wait for the lock.
LEMMA WithinReign ==
    ASSUME TypeOK, EpochInv, LoopInv, Count > 0
    PROVE  now <= Newest.began + Reign(Count)
<1>1. /\ Count \in Nat /\ now \in Nat /\ since \in Nat /\ interval \in Nat /\ Lag \in Nat
      /\ loop \in {"begin", "waiting", "select"}
  BY Types DEF TypeOK
<1>2. Newest.began \in Nat
  BY <1>1, CycleTypes, Types DEF Newest, Count
<1>3. Turn \in Nat /\ interval <= Turn /\ Reign(Count) = Turn + Lag
  BY <1>1 DEF Turn, Reign
<1>4. QED
  BY <1>1, <1>2, <1>3 DEF LoopInv

\* What is stored was stored by the newest cycle of the time.
LEMMA StampStep ==
    TypeOK /\ EpochInv /\ LoopInv /\ StampIsHonest /\ [Next]_vars => StampIsHonest'
<1>. SUFFICES ASSUME TypeOK, EpochInv, LoopInv, StampIsHonest, [Next]_vars
              PROVE  StampIsHonest'
  OBVIOUS
<1>. USE DEF loopVars, tickerVars, servedVars
<1>1. Count \in Nat /\ DOMAIN cycle = 1..Count /\ cache \in 0..Count /\ now \in Nat
        /\ interval \in Nat /\ Lag \in Nat
  BY Types DEF TypeOK, Generation, Count
<1>2. ASSUME UNCHANGED <<regime, cache, lastRefresh>>,
             \A h \in 1..Count : cycle'[h].began = cycle[h].began
      PROVE  StampIsHonest'
  BY <1>1, <1>2 DEF StampIsHonest, Reign, interval
<1>3. CASE BeginCycle
  BY <1>2, <1>3, Begun DEF BeginCycle
<1>4. CASE StopWaiting \/ Fire \/ Tick \/ Elapse \/ UNCHANGED vars
  BY <1>2, <1>4 DEF StopWaiting, Fire, Tick, Elapse, vars
<1>5. CASE \E g \in Running : CycleStep(g)
  <2>1. PICK g \in Running : CycleStep(g)
    BY <1>5
  <2>2. /\ \A h \in 1..Count : cycle'[h].began = cycle[h].began
        /\ regime' = regime /\ g \in 1..Count
    BY <1>1, <2>1, CycleMoves
  <2>3. CASE UNCHANGED <<cache, lastRefresh>>
    BY <1>2, <2>2, <2>3
  <2>4. CASE Finish(g) /\ Current(g) /\ cache' = g /\ lastRefresh' = now
    <3>1. g = Count /\ Newest = cycle[g]
      BY <2>4 DEF Current, Count, Newest
    <3>2. now <= cycle[g].began + Reign(g)
      BY <1>1, <2>2, <3>1, WithinReign
    <3>3. Reign(g)' = Reign(g) /\ Reign(g) \in Nat /\ cycle[g].began \in Nat
      BY <1>1, <2>2, CycleTypes DEF Reign, interval
    <3>4. now - cycle[g].began <= Reign(g)
      BY <1>1, <3>2, <3>3
    <3>5. QED
      BY <2>2, <2>4, <3>3, <3>4 DEF StampIsHonest, Reign, interval
  <2>5. QED
    BY <2>1, <2>3, <2>4 DEF CycleStep, Visit, GiveUp, Return, Gets, Finish
<1>6. QED
  BY <1>3, <1>4, <1>5 DEF Next

\* Only with its result published is a cycle done.
LEMMA Advances ==
    ASSUME TypeOK, NEW g \in Running, CycleStep(g), ~Finish(g)
    PROVE  cycle'[g].at # "done"
<1>1. g \in DOMAIN cycle /\ cycle \in Seq(Cycle)
  BY DEF Running, TypeOK
<1>2. cycle[g] \in Cycle
  BY <1>1
<1>3. PICK at \in {"item", "ok", "failed"} : Gets(g, at)
  BY DEF CycleStep, Visit, GiveUp, Return
<1>4. cycle' = [cycle EXCEPT ![g].at = at, ![g].since = now,
                             ![g].visited = @ \/ at = "item"]
  BY <1>3 DEF Gets
<1>5. cycle'[g].at = at
  BY <1>1, <1>2, <1>4 DEF Cycle
<1>6. QED
  BY <1>5

\* A cycle sets the scrape metrics in the step in which it is done.
LEMMA SelfStep == TypeOK /\ SelfInv /\ [Next]_vars => SelfInv'
<1>. SUFFICES ASSUME TypeOK, SelfInv, [Next]_vars PROVE SelfInv'
  OBVIOUS
<1>. USE DEF loopVars, tickerVars, servedVars
<1>1. Count \in Nat /\ DOMAIN cycle = 1..Count /\ self.cycle \in 0..Count
  BY Types DEF TypeOK, Generation, Count
<1>2. CASE BeginCycle
  <2>1. Count' = Count + 1 /\ self' = self /\ Newest'.at = "list"
    BY <1>2, NewestBegun DEF BeginCycle
  <2>2. QED
    BY <1>1, <2>1 DEF SelfInv
<1>3. CASE StopWaiting \/ Fire \/ Tick \/ Elapse \/ UNCHANGED vars
  BY <1>3 DEF StopWaiting, Fire, Tick, Elapse, vars, SelfInv, Count, Newest
<1>4. CASE \E g \in Running : CycleStep(g)
  <2>1. PICK g \in Running : CycleStep(g)
    BY <1>4
  <2>2. /\ g \in 1..Count /\ Count' = Count /\ cycle[g].at # "done"
        /\ \A h \in 1..Count : h # g => cycle'[h] = cycle[h]
    BY <1>1, <2>1, CycleMoves
  <2>3. Newest = cycle[Count] /\ Newest' = cycle'[Count]
    BY <2>2 DEF Newest, Count
  <2>4. CASE g = Count
    <3>1. CASE Finish(g)
      <4>1. cycle' = [cycle EXCEPT ![g].at = "done", ![g].since = 0]
        BY <3>1 DEF Finish
      <4>2. cycle \in Seq(Cycle) /\ cycle[g] \in Cycle
        BY <1>1, <2>2 DEF TypeOK
      <4>3. cycle'[g].at = "done"
        BY <1>1, <2>2, <4>1, <4>2 DEF Cycle
      <4>4. self' = [cycle |-> g, success |-> cycle[g].at = "ok"]
        BY <2>4, <3>1 DEF Finish, SelfAfter, Current, Count
      <4>5. QED
        BY <2>2, <2>3, <2>4, <4>3, <4>4 DEF SelfInv
    <3>2. CASE ~Finish(g)
      <4>1. self' = self
        BY <2>1, <3>2 DEF CycleStep, Visit, GiveUp, Return, Gets
      <4>2. cycle'[g].at # "done"
        BY <2>1, <3>2, Advances
      <4>3. QED
        BY <2>2, <2>3, <2>4, <4>1, <4>2 DEF SelfInv
    <3>3. QED
      BY <3>1, <3>2
  <2>5. CASE g # Count
    <3>1. self' = self
      BY <2>1, <2>5 DEF CycleStep, Visit, GiveUp, Return, Gets, Finish, SelfAfter,
                        Current, Count
    <3>2. QED
      BY <1>1, <2>2, <2>3, <2>5, <3>1 DEF SelfInv
  <2>6. QED
    BY <2>4, <2>5
<1>5. QED
  BY <1>2, <1>3, <1>4 DEF Next

\* The first tick comes an interval after the ticker is created.
LEMMA FirstStep ==
    TypeOK /\ EpochInv /\ FirstInv /\ [Next]_vars => FirstInv'
<1>. SUFFICES ASSUME TypeOK, EpochInv, FirstInv, [Next]_vars PROVE FirstInv'
  OBVIOUS
<1>. USE DEF loopVars, tickerVars, servedVars, FirstInv
<1>1. /\ Count \in Nat /\ now \in Nat /\ since \in Nat /\ interval \in Nat
      /\ epoch \in Int /\ fired \in Nat /\ pending \in BOOLEAN
      /\ loop \in {"begin", "waiting", "select"}
  BY Types DEF TypeOK
<1>2. CASE BeginCycle
  <2>1. loop' = "waiting"
    BY <1>2 DEF BeginCycle
  <2>2. QED
    BY <2>1
<1>3. CASE StopWaiting
  <2>1. /\ Count' = Count /\ interval' = interval /\ loop = "waiting"
        /\ loop' = "select" /\ now' = now
        /\ IF epoch = -1 THEN epoch' = now /\ fired' = 0 ELSE UNCHANGED <<epoch, fired>>
    BY <1>3 DEF StopWaiting, CreateTicker, Count, interval
  <2>2. epoch # -1 => Count # 1
    BY <2>1 DEF EpochInv
  <2>3. QED
    BY <1>1, <2>1, <2>2
<1>4. CASE Fire
  <2>1. /\ Count' = Count /\ interval' = interval /\ pending' = TRUE
        /\ UNCHANGED <<loop, since, now, epoch>>
    BY <1>4 DEF Fire, Count, interval
  <2>2. QED
    BY <2>1
<1>5. CASE Tick
  <2>1. /\ Count' = Count /\ interval' = interval /\ loop = "select"
        /\ loop' = "begin" /\ since' = now /\ UNCHANGED <<now, epoch>>
    BY <1>5 DEF Tick, Count, interval
  <2>2. QED
    BY <2>1
<1>6. CASE \E g \in Running : CycleStep(g)
  <2>1. /\ Count' = Count /\ interval' = interval
        /\ UNCHANGED <<loop, since, now, epoch, fired, pending>>
    BY <1>6, CycleMoves DEF interval
  <2>2. QED
    BY <2>1
<1>7. CASE Elapse
  <2>1. /\ Count' = Count /\ interval' = interval /\ now' \in {now, now + 1}
        /\ UNCHANGED <<loop, since, epoch, fired, pending>> /\ ~LoopIsDue
    BY <1>7, TimePasses DEF Count, interval
  <2>2. ASSUME loop = "select", epoch # -1, Count = 1
        PROVE  now' <= epoch + interval /\ fired = 0
    <3>1. ~pending /\ fired = 0 /\ ~(now >= NextTick)
      BY <2>1, <2>2 DEF LoopIsDue
    <3>2. NextTick = epoch + interval
      BY <1>1, <3>1 DEF NextTick
    <3>3. QED
      BY <1>1, <2>1, <3>1, <3>2
  <2>3. QED
    BY <2>1, <2>2
<1>8. CASE UNCHANGED vars
  BY <1>8 DEF vars, Count, interval
<1>9. QED
  BY <1>2, <1>3, <1>4, <1>5, <1>6, <1>7, <1>8 DEF Next

\* The next cycle begins an interval after its predecessor, or after the ticker was
\* created.
LEMMA WithinInterval ==
    ASSUME TypeOK, EpochInv, LoopInv, FirstInv, Count > 0, epoch # -1
    PROVE  now <= Origin + interval + Lag
<1>1. /\ Count \in Nat /\ now \in Nat /\ since \in Nat /\ interval \in Nat
      /\ Lag \in Nat /\ epoch \in Int /\ loop \in {"begin", "waiting", "select"}
  BY Types DEF TypeOK
<1>2. Newest.began \in Nat
  BY <1>1, CycleTypes, Types DEF Newest, Count
<1>3. CASE Count = 1
  <2>1. loop # "waiting"
    BY <1>3 DEF EpochInv
  <2>2. QED
    BY <1>1, <1>3, <2>1 DEF LoopInv, FirstInv, Origin
<1>4. CASE Count # 1
  <2>1. Turn = interval /\ Origin = Newest.began
    BY <1>1, <1>4 DEF Turn, Origin
  <2>2. QED
    BY <1>1, <1>2, <2>1 DEF LoopInv
<1>5. QED
  BY <1>3, <1>4

\* A cycle in progress began no longer ago than a collection can take and a wait for
\* the lock.
LEMMA StillGoing ==
    ASSUME TypeOK, CycleInv, regime.call > 0,
           NEW g \in DOMAIN cycle, cycle[g].at # "done"
    PROVE  now <= cycle[g].began + regime.timeout + regime.call + Lag
<1>1. /\ now \in Nat /\ Lag \in Nat /\ regime.timeout \in Nat /\ regime.call \in Nat
      /\ cycle[g].began \in Nat /\ cycle[g].since \in Nat
      /\ cycle[g].at \in {"list", "item", "ok", "failed"}
  BY Types, CycleTypes
<1>2. CASE Calling(g)
  <2>1. /\ now <= cycle[g].since + regime.call
        /\ cycle[g].since <= cycle[g].began + regime.timeout
    BY <1>2 DEF CycleInv, Deadline
  <2>2. QED
    BY <1>1, <2>1
<1>3. CASE cycle[g].at \in {"ok", "failed"}
  <2>1. /\ now <= cycle[g].since + Lag
        /\ cycle[g].since <= cycle[g].began + regime.timeout + regime.call
    BY <1>3 DEF CycleInv, Deadline
  <2>2. QED
    BY <1>1, <2>1
<1>4. QED
  BY <1>1, <1>2, <1>3 DEF Calling

\* A collection that fits its interval is not waited for in vain.
LEMMA WaitedFor ==
    ASSUME TypeOK, CycleInv, WaitInv, Fits, Count > 0, Newest.at # "done"
    PROVE  /\ now <= Newest.began + regime.timeout + regime.call + Lag
           /\ loop = "waiting"
<1>1. /\ now \in Nat /\ interval \in Nat /\ Lag \in Nat /\ Count \in Nat
      /\ regime.timeout \in Nat /\ regime.call \in Nat /\ DOMAIN cycle = 1..Count
  BY Types
<1>2. Count \in DOMAIN cycle /\ Newest = cycle[Count]
  BY <1>1 DEF Newest, Count
<1>3. /\ cycle[Count].began \in Nat /\ cycle[Count].since \in Nat
      /\ cycle[Count].at \in {"list", "item", "ok", "failed"}
  BY <1>2, CycleTypes
<1>4. now <= cycle[Count].began + regime.timeout + regime.call + Lag
  BY <1>1, <1>2, StillGoing DEF Fits
<1>5. Count \in Running
  BY <1>2, <1>3 DEF Running
<1>6. loop # "waiting" => cycle[Count].began + interval <= now
  BY <1>5 DEF WaitInv
<1>7. QED
  BY <1>1, <1>2, <1>3, <1>4, <1>6 DEF Fits

\* The scrape metrics stop saying success before the data gets old.
LEMMA FreshStep ==
    ASSUME TypeOK, EpochInv, LoopInv, CycleInv, WaitInv, SelfInv, FirstInv, FreshInv,
           [Next]_vars
    PROVE  FreshInv'
<1>. USE DEF loopVars, tickerVars, servedVars
<1>. SUFFICES ASSUME Fits', self'.success
              PROVE  /\ cache' = self'.cycle /\ cache' > 0 /\ cache' >= Count' - 1
                     /\ cache' = Count' =>
                           IF epoch' = -1 THEN lastRefresh' = now'
                           ELSE Origin' <= lastRefresh'
                     /\ cache' < Count' =>
                           Newest'.began <= lastRefresh' + interval' + Lag
  BY DEF FreshInv
<1>1. /\ Count \in Nat /\ now \in Nat /\ interval \in Nat /\ Lag \in Nat
      /\ epoch \in Int /\ epoch <= now /\ DOMAIN cycle = 1..Count
      /\ cache \in 0..Count /\ lastRefresh \in 0..now
  BY Types DEF TypeOK, Generation, Count
<1>2. Count > 0 => Newest.began \in Nat /\ Newest.began <= now
  BY <1>1, CycleTypes DEF Newest, Count, CycleInv
<1>3. regime' = regime /\ interval' = interval /\ Fits
  <2>1. regime' = regime
    BY CycleMoves DEF Next, BeginCycle, StopWaiting, Fire, Tick, Elapse, vars
  <2>2. QED
    BY <2>1 DEF Fits, interval
<1>4. self.success =>
         /\ cache = self.cycle /\ cache > 0 /\ cache >= Count - 1
         /\ cache = Count => IF epoch = -1 THEN lastRefresh = now
                             ELSE Origin <= lastRefresh
         /\ cache < Count => Newest.began <= lastRefresh + interval + Lag
  BY <1>3 DEF FreshInv
<1>5. CASE BeginCycle
  <2>1. /\ Count' = Count + 1 /\ Newest'.began = now /\ loop = "begin"
        /\ UNCHANGED <<self, cache, lastRefresh, epoch, now>>
    BY <1>5, NewestBegun DEF BeginCycle
  <2>2. self.success /\ Count > 0
    BY <1>1, <1>4, <2>1
  <2>3. Newest.at = "done"
    BY <1>3, <2>1, <2>2, WaitedFor
  <2>4. cache = Count /\ epoch # -1
    BY <1>1, <1>4, <2>1, <2>2, <2>3 DEF SelfInv, EpochInv
  <2>5. now <= Origin + interval + Lag /\ Origin \in Int
    BY <1>1, <1>2, <2>2, <2>4, WithinInterval DEF Origin
  <2>6. now <= lastRefresh + interval + Lag
    BY <1>1, <1>4, <2>2, <2>4, <2>5
  <2>7. QED
    BY <1>1, <1>3, <1>4, <2>1, <2>2, <2>4, <2>6
<1>6. CASE StopWaiting
  <2>1. /\ Count' = Count /\ Newest' = Newest /\ loop = "waiting"
        /\ UNCHANGED <<self, cache, lastRefresh, now>>
        /\ IF epoch = -1 THEN epoch' = now ELSE epoch' = epoch
    BY <1>6 DEF StopWaiting, CreateTicker, Count, Newest
  <2>2. epoch = -1 <=> Count = 1
    BY <2>1 DEF EpochInv
  <2>3. QED
    BY <1>1, <1>3, <1>4, <2>1, <2>2 DEF Origin
<1>7. CASE Fire \/ Tick
  <2>1. UNCHANGED <<Count, Newest, self, cache, lastRefresh, epoch, now>>
    BY <1>7 DEF Fire, Tick, Count, Newest
  <2>2. QED
    BY <1>3, <1>4, <2>1 DEF Origin
<1>8. CASE \E g \in Running : CycleStep(g)
  <2>1. PICK g \in Running : CycleStep(g)
    BY <1>8
  <2>2. /\ Count' = Count /\ Newest'.began = Newest.began /\ g \in 1..Count /\ Count > 0
        /\ UNCHANGED <<epoch, now>>
    BY <1>1, <2>1, CycleMoves, NewestMoves
  <2>3. Origin' = Origin
    BY <2>2 DEF Origin
  <2>4. CASE UNCHANGED servedVars
    BY <1>3, <1>4, <2>2, <2>3, <2>4
  <2>5. CASE Finish(g) /\ Current(g)
    <3>1. g = Count /\ self' = [cycle |-> g, success |-> cycle[g].at = "ok"]
      BY <2>5 DEF Finish, SelfAfter, Current, Count
    <3>2. cycle[g].at = "ok"
      BY <3>1
    <3>3. cache' = g /\ lastRefresh' = now
      BY <2>5, <3>2 DEF Finish
    <3>4. Origin <= now
      BY <1>1, <1>2, <2>2 DEF Origin
    <3>5. QED
      BY <1>1, <2>2, <2>3, <3>1, <3>3, <3>4
  <2>6. QED
    BY <2>1, <2>4, <2>5
       DEF CycleStep, Visit, GiveUp, Return, Gets, Finish, SelfAfter
<1>9. CASE Elapse
  <2>1. /\ UNCHANGED <<loop, since, epoch, cycle, self, cache, lastRefresh>>
        /\ ~LoopIsDue
    BY <1>9, TimePasses
  <2>2. UNCHANGED <<Count, Newest, Origin>>
    BY <2>1 DEF Count, Newest, Origin
  <2>3. ASSUME cache = Count PROVE epoch # -1
    <3>1. Count > 0 /\ Newest.at = "done"
      BY <1>4, <2>1, <2>3 DEF SelfInv
    <3>2. loop # "waiting"
      BY <2>1, <3>1 DEF LoopIsDue, Completed, Newest
    <3>3. QED
      BY <1>1, <3>1, <3>2 DEF EpochInv
  <2>4. QED
    BY <1>3, <1>4, <2>1, <2>2, <2>3
<1>10. CASE UNCHANGED vars
  <2>1. UNCHANGED <<Count, Newest, Origin, self, cache, lastRefresh, epoch, now>>
    BY <1>10 DEF vars, Count, Newest, Origin
  <2>2. QED
    BY <1>3, <1>4, <2>1
<1>11. QED
  BY <1>5, <1>6, <1>7, <1>8, <1>9, <1>10 DEF Next

\* All of it together.
LEMMA WholeInvariant == IInv /\ [Next]_vars => IInv'
BY TypeStep, EpochStep, LoopStep, TickerStep, PaceStep, CycleInvStep, WaitStep,
   FlightStep, StampStep, SelfStep, FirstStep, FreshStep DEF IInv

\* Every part of the invariant holds at all times.
THEOREM InvariantTheorem == Spec => []IInv
BY InitInv, WholeInvariant, PTL DEF Spec

-----------------------------------------------------------------------------
(* Properties.                                                             *)

\* The variables have their types.
THEOREM TypeCorrect == Spec => []TypeOK
<1>1. IInv => TypeOK
  BY DEF IInv
<1>2. QED
  BY <1>1, InvariantTheorem, PTL

\* Cycles begin when they are due, and off the grid of the ticker by no more than the
\* waits for the lock of those that used up their interval (collector.go:208).
THEOREM PaceTheorem == Spec => []CyclesKeepPace
<1>1. ASSUME IInv PROVE CyclesKeepPace
  <2>. USE <1>1 DEF IInv
  <2>. SUFFICES ASSUME cycle # <<>>
                PROVE  /\ now <= Newest.began + Reign(Count)
                       /\ Count > 1 =>
                             Newest.began - (epoch + (Count - 1) * interval)
                                \in 0..((1 + slow) * Lag)
    BY DEF CyclesKeepPace, Count
  <2>1. /\ Count \in Nat /\ interval \in Nat /\ Lag \in Nat /\ slow \in Nat
        /\ epoch \in Int /\ DOMAIN cycle = 1..Count
    BY Types
  <2>2. Count > 0
    <3>1. cycle \in Seq(Cycle)
      BY DEF TypeOK
    <3>2. QED
      BY <2>1, <3>1, EmptySeq DEF Count
  <2>3. now <= Newest.began + Reign(Count)
    BY <2>2, WithinReign
  <2>4. ASSUME Count > 1
        PROVE  Newest.began - (epoch + (Count - 1) * interval) \in 0..((1 + slow) * Lag)
    <3>1. epoch # -1 /\ Newest.began \in Nat
      BY <2>1, <2>4, CycleTypes DEF EpochInv, Newest, Count
    <3>. DEFINE c == Count * interval
                l == slow * Lag
    <3>2. /\ c \in Nat /\ (Count - 1) * interval = c - interval
          /\ l \in Nat /\ (1 + slow) * Lag = l + Lag
          /\ Behind \in Int /\ Behind <= l
      BY <2>1 DEF Behind
    <3>3. /\ epoch + c - interval <= Newest.began
          /\ Newest.began <= epoch + c - interval + Behind + Lag
      BY <2>4, <3>1 DEF PaceInv, Pace
    <3>. HIDE DEF c, l
    <3>4. QED
      BY <2>1, <3>1, <3>2, <3>3
  <2>5. QED
    BY <2>3, <2>4
<1>2. QED
  BY <1>1, InvariantTheorem, PTL

\* Data that is stamped as fresh was not read by a cycle that began more than its
\* turn before.
THEOREM StampTheorem == Spec => []StampIsHonest
<1>1. IInv => StampIsHonest
  BY DEF IInv
<1>2. QED
  BY <1>1, InvariantTheorem, PTL

\* Without any time nothing but an empty listing is served.
THEOREM NoTimeTheorem == Spec => []NoTimeNoData
<1>1. ASSUME IInv PROVE NoTimeNoData
  <2>1. cache \in 0..Count /\ Count \in Nat /\ DOMAIN cycle = 1..Count
    BY <1>1, Types DEF IInv, TypeOK, Generation, Count
  <2>2. QED
    BY <1>1, <2>1 DEF IInv, CycleInv, NoTimeNoData
<1>2. QED
  BY <1>1, InvariantTheorem, PTL

\* Some cycle in progress is the oldest.
LEMMA Oldest ==
    ASSUME NEW S \in SUBSET Nat, S # {}
    PROVE  \E g \in S : \A h \in S : g <= h
<1>. DEFINE Less == {p \in Nat \X Nat : p[1] < p[2]}
<1>1. IsWellFoundedOn(Less, Nat)
  BY NatLessThanWellFounded DEF OpToRel
<1>. HIDE DEF Less
<1>2. PICK g \in S : \A h \in S : ~(<<h, g>> \in Less)
  BY <1>1, WFMin
<1>3. \A h \in S : ~(h < g)
  BY <1>2 DEF Less
<1>4. QED
  BY <1>3

\* No more cycles are under way than begin in the time the oldest can still take.
THEOREM FlightTheorem == Spec => []InFlightIsBounded
<1>1. ASSUME IInv PROVE InFlightIsBounded
  <2>. SUFFICES ASSUME regime.call > 0
                PROVE  (Cardinality(Running) - 1) * interval
                          <= regime.timeout + regime.call + Lag
    BY DEF InFlightIsBounded
  <2>. USE <1>1 DEF IInv
  <2>1. /\ now \in Nat /\ interval \in Nat /\ Lag \in Nat
        /\ regime.timeout \in Nat /\ regime.call \in Nat
        /\ Count \in Nat /\ DOMAIN cycle = 1..Count
    BY Types
  <2>2. Running \subseteq 1..Count /\ IsFiniteSet(Running)
    BY <2>1, AfterFinite DEF Running
  <2>3. CASE Running = {}
    <3>1. Cardinality(Running) = 0
      BY <2>3, FS_EmptySet
    <3>2. (0 - 1) * interval = -interval
      BY <2>1
    <3>3. QED
      BY <2>1, <3>1, <3>2
  <2>4. CASE Running # {}
    <3>1. PICK g \in Running : \A h \in Running : g <= h
      <4>1. Running \in SUBSET Nat
        BY <2>1, <2>2
      <4>2. QED
        BY <2>4, <4>1, Oldest
    <3>2. Running \ {g} \subseteq After(g)
      BY <2>1, <2>2, <3>1 DEF After, Live
    <3>3. /\ Cardinality(Running \ {g}) = Cardinality(Running) - 1
          /\ IsFiniteSet(Running \ {g})
      BY <2>2, <3>1, FS_RemoveElement
    <3>4. IsFiniteSet(After(g))
      BY AfterFinite
    <3>. DEFINE span == Cardinality(After(g)) * interval
                most == (Cardinality(Running) - 1) * interval
    <3>5. most <= span /\ most \in Int /\ span \in Int
      <4>1. /\ Cardinality(Running \ {g}) \in Nat /\ Cardinality(After(g)) \in Nat
            /\ Cardinality(Running \ {g}) * interval <= Cardinality(After(g)) * interval
        BY <2>1, <3>2, <3>4, FewerIntervals
      <4>2. \A m \in Nat : m * interval \in Nat
        BY <2>1
      <4>3. QED
        BY <3>3, <4>1, <4>2
    <3>6. span <= Newest.began - cycle[g].began
      BY <3>1 DEF FlightInv
    <3>7. g \in DOMAIN cycle /\ cycle[g].began \in Nat /\ cycle[g].since \in Nat
            /\ cycle[g].at \in {"list", "item", "ok", "failed"}
      BY <3>1, CycleTypes DEF Running
    <3>8. Newest.began <= now /\ Newest.began \in Nat
      BY <2>1, <2>2, <3>1, CycleTypes DEF Newest, Count, CycleInv
    <3>9. now <= cycle[g].began + regime.timeout + regime.call + Lag
      BY <3>1, StillGoing DEF Running
    <3>. HIDE DEF span, most
    <3>10. most <= regime.timeout + regime.call + Lag
      BY <2>1, <3>5, <3>6, <3>7, <3>8, <3>9
    <3>11. QED
      BY <3>10 DEF most
  <2>5. QED
    BY <2>3, <2>4
<1>2. QED
  BY <1>1, InvariantTheorem, PTL

\* A collection that succeeds well before its interval is over is published.
THEOREM InTimeTheorem == Spec => InTimeMeansPublished
<1>. DEFINE InTime ==
       \A g \in Running :
          /\ cycle[g].at = "ok"
          /\ cycle'[g].at = "done"
          /\ cycle[g].since < cycle[g].began + interval - Lag
          => cache' = g /\ lastRefresh' = now
<1>1. ASSUME IInv, [Next]_vars PROVE [InTime]_vars
  <2>. USE <1>1 DEF IInv
  <2>. SUFFICES ASSUME ~UNCHANGED vars, NEW g \in Running,
                       cycle[g].at = "ok", cycle'[g].at = "done",
                       cycle[g].since < cycle[g].began + interval - Lag
                PROVE  cache' = g /\ lastRefresh' = now
    OBVIOUS
  <2>1. /\ now \in Nat /\ interval \in Nat /\ Lag \in Nat
        /\ Count \in Nat /\ g \in 1..Count /\ DOMAIN cycle = 1..Count
        /\ cycle[g].began \in Nat /\ cycle[g].since \in Nat
    BY Types, CycleTypes DEF Running
  <2>2. Finish(g)
    <3>1. PICK h \in Running : CycleStep(h)
      <4>1. cycle'[g] # cycle[g]
        OBVIOUS
      <4>2. CASE BeginCycle
        BY <2>1, <4>1, <4>2, Begun
      <4>3. QED
        BY <4>1, <4>2 DEF Next, StopWaiting, Fire, Tick, Elapse
    <3>2. h = g
      BY <2>1, <3>1, CycleMoves
    <3>3. QED
      BY <3>1, <3>2 DEF CycleStep, Visit, GiveUp, Return, Calling
  <2>3. now <= cycle[g].since + Lag
    BY <2>1 DEF CycleInv
  <2>4. g = Count
    <3>1. Newest.began <= now /\ Newest.began \in Nat
      BY <2>1, CycleTypes DEF Newest, Count, CycleInv
    <3>2. g < Count => cycle[g].began + interval <= Newest.began
      BY DEF WaitInv
    <3>3. QED
      BY <2>1, <2>3, <3>1, <3>2
  <2>5. QED
    BY <2>2, <2>4 DEF Finish, Current, Count
<1>2. QED
  BY <1>1, InvariantTheorem, PTL DEF Spec, InTimeMeansPublished

\* Where collections fit their interval, data that is older than the time from the end
\* of one to that of the next is not served along with a success (collector.go:271).
THEOREM VisibleTheorem == Spec => []StalenessIsVisible
<1>1. ASSUME IInv PROVE StalenessIsVisible
  <2>. USE <1>1 DEF IInv
  <2>. SUFFICES ASSUME Fits, self.success
                PROVE  now - lastRefresh
                          <= interval + regime.timeout + regime.call + 2 * Lag
    BY DEF StalenessIsVisible
  <2>1. /\ Count \in Nat /\ now \in Nat /\ interval \in Nat /\ Lag \in Nat
        /\ regime.timeout \in Nat /\ regime.call \in Nat /\ epoch \in Int
        /\ DOMAIN cycle = 1..Count /\ cache \in 0..Count /\ lastRefresh \in 0..now
    BY Types DEF TypeOK, Generation, Count
  <2>2. /\ cache = self.cycle /\ cache > 0
        /\ cache = Count => IF epoch = -1 THEN lastRefresh = now
                            ELSE Origin <= lastRefresh
        /\ cache < Count => Newest.began <= lastRefresh + interval + Lag
    BY DEF FreshInv
  <2>3. Count > 0 /\ Newest.began \in Nat
    BY <2>1, <2>2, CycleTypes DEF Newest, Count
  <2>4. CASE cache = Count
    <3>1. epoch # -1 => now <= Origin + interval + Lag
      BY <2>3, WithinInterval
    <3>2. Origin \in Int
      BY <2>1, <2>3 DEF Origin
    <3>3. QED
      BY <2>1, <2>2, <2>4, <3>1, <3>2
  <2>5. CASE cache < Count
    <3>1. Newest.at # "done"
      BY <2>1, <2>2, <2>3, <2>5 DEF SelfInv
    <3>2. now <= Newest.began + regime.timeout + regime.call + Lag
      BY <2>3, <3>1, WaitedFor
    <3>. DEFINE most == regime.timeout + regime.call
    <3>3. most \in Nat /\ now <= Newest.began + most + Lag
      BY <2>1, <2>3, <3>2
    <3>4. Newest.began <= lastRefresh + interval + Lag
      BY <2>2, <2>5
    <3>. HIDE DEF most
    <3>5. now - lastRefresh <= interval + most + 2 * Lag
      BY <2>1, <2>3, <3>3, <3>4
    <3>6. QED
      BY <2>1, <3>5 DEF most
  <2>6. QED
    BY <2>1, <2>4, <2>5
<1>2. QED
  BY <1>1, InvariantTheorem, PTL
=============================================================================
