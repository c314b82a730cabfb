-------------------------- MODULE RefresherProofs ---------------------------
(***************************************************************************)
(* Proofs about Refresher for any collectors, scrapes and MaxGen: its type *)
(* invariant, its safety properties, and that it implements MetricsCache.  *)
(***************************************************************************)
EXTENDS Refresher, TLAPS

Publishing == {"data", "stamp"}

\* The loop that will begin a cycle has room for it, and no cycle runs that
\* has not begun.
CyclesInv ==
    \A c \in Collectors :
       /\ loop[c] = "begin" => generation[c] < MaxGen
       /\ \A g \in Generation : g > generation[c] => cycle[c][g] = "idle"

\* The lock: one writer, who is where the code holds or awaits it; a cycle in
\* the middle of publishing is it, is current, and has no reader beside it.
LockInv ==
    /\ \A a, b \in writer : a = b
    /\ \A c \in Collectors :
          /\ <<c, 0>> \in writer => loop[c] = "begin"
          /\ \A g \in Generation :
                /\ <<c, g>> \in writer =>
                      cycle[c][g] \in {"ok", "failed"} \cup Publishing
                /\ cycle[c][g] \in Publishing =>
                      <<c, g>> \in writer /\ Reading = {} /\ Current(c, g)

Coherent(v) == /\ v.stamp = v.data
               /\ v.data <= v.self
               /\ v.success <=> v.self > 0 /\ v.data = v.self

\* The three maps: coherent except in the middle of publishing, and never ahead
\* of the cycles.
CycleInv(c, g) ==
    /\ cycle[c][g] \in {"idle", "running", "ok", "failed"} => self[c].cycle # g
    /\ cycle[c][g] \in Publishing =>
          self[c] = [cycle |-> g, success |-> TRUE] /\ lastRefresh[c] < g
    /\ cycle[c][g] = "data" => cache[c] < g
    /\ cycle[c][g] = "stamp" => cache[c] = g
    /\ cycle[c][g] \in {"closing", "done"} /\ Current(c, g) =>
          self[c].cycle = g

Quiet(c) == \A g \in Generation : cycle[c][g] \notin Publishing

MapsInvOf(c) ==
    /\ self[c].cycle <= generation[c]
    /\ cache[c] <= self[c].cycle
    /\ lastRefresh[c] <= self[c].cycle
    /\ Quiet(c) => Coherent(Served(c))
    /\ \A g \in Generation : CycleInv(c, g)

MapsInv == \A c \in Collectors : MapsInvOf(c)

\* What scrapes have copied.
SeenInv ==
    \A s \in Scrapers :
       /\ scraper[s] \in {"idle", "rlock"} => seen[s] = Nothing
       /\ scraper[s] = "reading" =>
             \A c \in DOMAIN seen[s] : seen[s][c] = Served(c)
       /\ scraper[s] = "reading" =>
             \A c \in Collectors, g \in Generation :
                cycle[c][g] \notin Publishing
       /\ scraper[s] = "sending" =>
             /\ seen[s] \in [Collectors -> View]
             /\ \A c \in Collectors : Coherent(seen[s][c])

IInv == TypeOK /\ CyclesInv /\ LockInv /\ MapsInv /\ SeenInv

-----------------------------------------------------------------------------
\* The copy a scrape starts from is a copy of no collector at all.
LEMMA NothingIsACopy == Nothing \in Copies
<1>1. Nothing \in [{} -> View]
  BY DEF Nothing
<1> QED
  BY <1>1 DEF Copies

\* A copy of one more collector is a copy.
LEMMA CopyOneMore ==
  ASSUME NEW f \in Copies, NEW c \in Collectors, Served(c) \in View
  PROVE  Extended(f, c) \in Copies
<1>1. PICK D \in SUBSET Collectors : f \in [D -> View]
  BY DEF Copies
<1>2. Extended(f, c) \in [D \cup {c} -> View]
  BY <1>1 DEF Extended
<1>3. D \cup {c} \in SUBSET Collectors
  OBVIOUS
<1> QED
  BY <1>2, <1>3 DEF Copies

\* Before the loops start, nobody holds cacheMutex and the maps are empty.
LEMMA InitInv == Init => IInv
<1> SUFFICES ASSUME Init PROVE IInv
  OBVIOUS
<1> USE MaxGenAssumption DEF Init
<1>1. TypeOK
  <2>1. self \in [Collectors -> [cycle : 0..MaxGen, success : BOOLEAN]]
    OBVIOUS
  <2>2. cycle \in [Collectors -> [Generation -> CycleState]]
    BY DEF CycleState
  <2>3. seen \in [Scrapers -> Copies]
    BY NothingIsACopy
  <2> QED
    BY <2>1, <2>2, <2>3 DEF TypeOK, LoopState, Actor
<1>2. CyclesInv
  BY DEF CyclesInv, Generation
<1>3. LockInv
  BY DEF LockInv, Publishing, Generation
<1>4. MapsInv
  BY DEF MapsInv, MapsInvOf, CycleInv, Publishing, Generation, Coherent, Served
<1>5. SeenInv
  BY DEF SeenInv
<1> QED
  BY <1>1, <1>2, <1>3, <1>4, <1>5 DEF IInv

\* Every step of loops, cycles and scrapes keeps the types.
LEMMA TypeStep == IInv /\ [Next]_vars => TypeOK'
<1> SUFFICES ASSUME IInv, [Next]_vars PROVE TypeOK'
  OBVIOUS
<1> USE MaxGenAssumption DEF IInv, TypeOK, LoopState, CycleState, Generation,
        Actor, vars, cacheVars, scrapeVars
<1>1. ASSUME NEW c \in Collectors, LoopStep(c) PROVE TypeOK'
  <2>1. CASE LoopLock(c)
    BY <2>1 DEF LoopLock, Locked
  <2>2. CASE BeginCycle(c)
    <3>1. generation[c] + 1 \in Generation
      BY <2>2 DEF BeginCycle, Bumped, CyclesInv
    <3>2. cycle' \in [Collectors -> [Generation -> CycleState]]
      BY <2>2, <3>1 DEF BeginCycle, Bumped
    <3>3. generation' \in [Collectors -> 0..MaxGen]
      BY <2>2, <3>1 DEF BeginCycle, Bumped
    <3>4. loop' \in [Collectors -> LoopState] /\ writer' \in SUBSET Actor
      BY <2>2 DEF BeginCycle, Bumped, Unlocked
    <3> QED
      BY <2>2, <3>2, <3>3, <3>4 DEF BeginCycle, Bumped
  <2>3. CASE Complete(c) \/ Watchdog(c) \/ Tick(c) \/ Stop(c)
    BY <2>3 DEF Complete, Watchdog, Tick, Stop
  <2> QED
    BY <1>1, <2>1, <2>2, <2>3 DEF LoopStep
<1>2. ASSUME NEW c \in Collectors, NEW g \in Generation, CycleStep(c, g)
      PROVE TypeOK'
  <2>1. CASE RunCollector(c, g)
    BY <2>1 DEF RunCollector
  <2>2. CASE CycleLock(c, g)
    BY <2>2 DEF CycleLock, Locked
  <2>3. CASE Discard(c, g)
    BY <2>3 DEF Discard, Unlocked
  <2>8. CASE CloseDone(c, g)
    BY <2>8 DEF CloseDone
  <2>4. CASE PublishFailure(c, g)
    BY <2>4 DEF PublishFailure, Unlocked
  <2>5. CASE PublishSelf(c, g)
    BY <2>5 DEF PublishSelf
  <2>6. CASE PublishData(c, g)
    BY <2>6 DEF PublishData
  <2>7. CASE PublishStamp(c, g)
    BY <2>7 DEF PublishStamp, Unlocked
  <2> QED
    BY <1>2, <2>1, <2>2, <2>3, <2>4, <2>5, <2>6, <2>7, <2>8
       DEF CycleStep
<1>3. ASSUME NEW s \in Scrapers, ScrapeStep(s) PROVE TypeOK'
  <2>1. CASE Arrive(s) \/ RLock(s) \/ RUnlock(s)
    BY <2>1 DEF Arrive, RLock, RUnlock
  <2>2. CASE Deliver(s)
    BY <2>2, NothingIsACopy DEF Deliver
  <2>3. ASSUME NEW c \in Collectors, Copy(s, c) PROVE TypeOK'
    <3>1. Served(c) \in View
      BY DEF Served, View
    <3>2. Extended(seen[s], c) \in Copies
      BY <3>1, CopyOneMore
    <3> QED
      BY <2>3, <3>2 DEF Copy
  <2> QED
    BY <1>3, <2>1, <2>2, <2>3 DEF ScrapeStep
<1>4. CASE Cancel \/ UNCHANGED vars
  BY <1>4 DEF Cancel
<1> QED
  BY <1>1, <1>2, <1>3, <1>4 DEF Next

\* Every step keeps the cycles that have begun those that the loop and the
\* generation say.
LEMMA CyclesStep == IInv /\ [Next]_vars => CyclesInv'
<1> SUFFICES ASSUME IInv, [Next]_vars PROVE CyclesInv'
  OBVIOUS
<1> USE MaxGenAssumption DEF IInv, TypeOK, CyclesInv, LoopState, CycleState,
        Generation, vars, cacheVars, scrapeVars
<1>1. ASSUME NEW c \in Collectors, LoopStep(c) PROVE CyclesInv'
  <2>1. CASE LoopLock(c)
    BY <2>1 DEF LoopLock
  <2>2. CASE BeginCycle(c)
    BY <2>2 DEF BeginCycle, Bumped
  <2>3. CASE Complete(c)
    BY <2>3 DEF Complete
  <2>4. CASE Watchdog(c)
    BY <2>4 DEF Watchdog
  <2>5. CASE Tick(c)
    BY <2>5 DEF Tick
  <2>6. CASE Stop(c)
    BY <2>6 DEF Stop
  <2> QED
    BY <1>1, <2>1, <2>2, <2>3, <2>4, <2>5, <2>6 DEF LoopStep
<1>2. ASSUME NEW c \in Collectors, NEW g \in Generation, CycleStep(c, g)
      PROVE CyclesInv'
  <2>1. /\ UNCHANGED <<loop, generation>>
        /\ UNCHANGED cycle \/ \E r : cycle' = [cycle EXCEPT ![c][g] = r]
    BY <1>2 DEF CycleStep, RunCollector, CycleLock, Discard, PublishFailure,
                PublishSelf, PublishData, PublishStamp, CloseDone
  <2>2. cycle[c][g] # "idle" \/ UNCHANGED cycle
    BY <1>2 DEF CycleStep, RunCollector, CycleLock, Discard, PublishFailure,
                PublishSelf, PublishData, PublishStamp, CloseDone
  <2>3. CASE UNCHANGED cycle
    BY <2>1, <2>3
  <2>4. ASSUME NEW r, cycle' = [cycle EXCEPT ![c][g] = r], cycle[c][g] # "idle"
        PROVE CyclesInv'
    <3>1. ~(g > generation[c])
      BY <2>4
    <3>2. ASSUME NEW d \in Collectors, NEW h \in Generation,
                 h > generation[d]
          PROVE cycle'[d][h] = cycle[d][h]
      BY <2>4, <3>1, <3>2
    <3> QED
      BY <2>1, <3>2
  <2> QED
    BY <2>1, <2>2, <2>3, <2>4
<1>3. ASSUME NEW s \in Scrapers, ScrapeStep(s) PROVE CyclesInv'
  BY <1>3 DEF ScrapeStep, Arrive, RLock, Copy, RUnlock, Deliver
<1>4. CASE Cancel \/ UNCHANGED vars
  BY <1>4 DEF Cancel
<1> QED
  BY <1>1, <1>2, <1>3, <1>4 DEF Next

\* Nobody publishes while the loop of a collector holds or awaits the lock, nor
\* while another cycle does.
LEMMA LoopExcludes ==
  ASSUME LockInv, NEW c \in Collectors, <<c, 0>> \in writer,
         NEW d \in Collectors, NEW h \in Generation
  PROVE  cycle[d][h] \notin Publishing
<1> SUFFICES ASSUME cycle[d][h] \in Publishing PROVE FALSE
  OBVIOUS
<1>1. <<d, h>> \in writer
  BY DEF LockInv
<1>2. <<d, h>> # <<c, 0>>
  BY MaxGenAssumption DEF Generation
<1> QED
  BY <1>1, <1>2 DEF LockInv

\* No second cycle is between its assignments while one holds cacheMutex.
LEMMA CycleExcludes ==
  ASSUME LockInv, NEW c \in Collectors, NEW g \in Generation,
         <<c, g>> \in writer, NEW d \in Collectors, NEW h \in Generation,
         cycle[d][h] \in Publishing
  PROVE  d = c /\ h = g
<1>1. <<d, h>> \in writer
  BY DEF LockInv
<1>2. <<d, h>> = <<c, g>>
  BY <1>1 DEF LockInv
<1> QED
  BY <1>2

\* Every step keeps cacheMutex held by those in a critical section, and by
\* writers or readers only.
LEMMA LockStep == IInv /\ [Next]_vars => LockInv'
<1> SUFFICES ASSUME IInv, [Next]_vars PROVE LockInv'
  OBVIOUS
<1> USE MaxGenAssumption DEF IInv, TypeOK, LockInv, LoopState, CycleState,
        Generation, Publishing, Reading, Current, vars, cacheVars, scrapeVars
<1>1. ASSUME NEW c \in Collectors, LoopStep(c) PROVE LockInv'
  <2>1. CASE LoopLock(c)
    BY <2>1 DEF LoopLock, MayLock, Locked
  <2>2. CASE BeginCycle(c)
    BY <2>2 DEF BeginCycle, Bumped, Holds, Unlocked, CyclesInv
  <2>3. CASE Complete(c)
    BY <2>3 DEF Complete
  <2>4. CASE Watchdog(c)
    BY <2>4 DEF Watchdog
  <2>5. CASE Tick(c)
    BY <2>5 DEF Tick
  <2>6. CASE Stop(c)
    BY <2>6 DEF Stop
  <2> QED
    BY <1>1, <2>1, <2>2, <2>3, <2>4, <2>5, <2>6 DEF LoopStep
<1>2. ASSUME NEW c \in Collectors, NEW g \in Generation, CycleStep(c, g)
      PROVE LockInv'
  <2>1. CASE RunCollector(c, g)
    BY <2>1 DEF RunCollector
  <2>2. CASE CycleLock(c, g)
    BY <2>2 DEF CycleLock, MayLock, Locked
  <2>3. CASE Discard(c, g)
    BY <2>3 DEF Discard, Holds, Unlocked
  <2>4. CASE PublishFailure(c, g)
    BY <2>4 DEF PublishFailure, Holds, Unlocked
  <2>5. CASE PublishSelf(c, g)
    <3>1. /\ <<c, g>> \in writer /\ Reading = {} /\ Current(c, g)
          /\ UNCHANGED <<loop, generation, writer, scraper>>
          /\ cycle'[c][g] = "data"
      BY <2>5 DEF PublishSelf, Holds
    <3>2. \A d \in Collectors, h \in Generation :
             cycle'[d][h] = cycle[d][h] \/ (d = c /\ h = g)
      BY <2>5 DEF PublishSelf
    <3>3. \A a, b \in writer' : a = b
      BY <3>1
    <3> HIDE DEF TypeOK, LoopState, CycleState
    <3>4. ASSUME NEW d \in Collectors, NEW h \in Generation
          PROVE  /\ <<d, h>> \in writer' =>
                       cycle'[d][h] \in {"ok", "failed"} \cup Publishing
                 /\ cycle'[d][h] \in Publishing =>
                       <<d, h>> \in writer' /\ Reading' = {} /\ Current(d, h)'
      <4>1. CASE cycle'[d][h] = cycle[d][h]
        <5>1. /\ <<d, h>> \in writer =>
                    cycle[d][h] \in {"ok", "failed"} \cup Publishing
              /\ cycle[d][h] \in Publishing =>
                    <<d, h>> \in writer /\ Reading = {} /\ Current(d, h)
          OBVIOUS
        <5> HIDE DEF LockInv, Publishing
        <5> QED
          BY <3>1, <4>1, <5>1
      <4>2. CASE d = c /\ h = g
        BY <3>1, <4>2
      <4> QED
        BY <3>2, <4>1, <4>2
    <3> QED
      BY <3>1, <3>3, <3>4
  <2>6. CASE PublishData(c, g)
    BY <2>6 DEF PublishData
  <2>7. CASE PublishStamp(c, g)
    BY <2>7 DEF PublishStamp, Unlocked
  <2>8. CASE CloseDone(c, g)
    BY <2>8 DEF CloseDone
  <2> QED
    BY <1>2, <2>1, <2>2, <2>3, <2>4, <2>5, <2>6, <2>7, <2>8 DEF CycleStep
<1>3. ASSUME NEW s \in Scrapers, ScrapeStep(s) PROVE LockInv'
  <2>1. CASE RLock(s)
    BY <2>1 DEF RLock, MayRLock
  <2>2. Arrive(s) \/ RUnlock(s) \/ Deliver(s) \/ (\E c \in Collectors : Copy(s, c))
          => Reading' \subseteq Reading
    BY DEF Arrive, RUnlock, Deliver, Copy
  <2> QED
    BY <1>3, <2>1, <2>2 DEF ScrapeStep, Arrive, RUnlock, Deliver, Copy
<1>4. CASE Cancel \/ UNCHANGED vars
  BY <1>4 DEF Cancel
<1> QED
  BY <1>1, <1>2, <1>3, <1>4 DEF Next

\* The maps invariant of a collector speaks of what belongs to it alone.
LEMMA MapsFrame ==
  ASSUME NEW c \in Collectors, MapsInvOf(c),
         UNCHANGED <<self[c], cache[c], lastRefresh[c], generation[c], cycle[c]>>
  PROVE  MapsInvOf(c)'
BY DEF MapsInvOf, CycleInv, Quiet, Served, Coherent, Current, Generation

\* What the maps owe to one cycle depends on them and on that cycle alone.
LEMMA CycleFrame ==
  ASSUME NEW c \in Collectors, NEW h \in Generation, CycleInv(c, h),
         UNCHANGED <<self[c], cache[c], lastRefresh[c], generation[c],
                     cycle[c][h]>>
  PROVE  CycleInv(c, h)'
BY DEF CycleInv, Current

\* Every step keeps the three maps what the newest cycle has made of them.
LEMMA MapsStep == IInv /\ [Next]_vars => MapsInv'
<1> SUFFICES ASSUME IInv, [Next]_vars PROVE MapsInv'
  OBVIOUS
<1> USE MaxGenAssumption DEF IInv, vars, cacheVars, scrapeVars
<1>1. ASSUME NEW c \in Collectors, LoopStep(c) PROVE MapsInv'
  <2>1. CASE BeginCycle(c)
    <3>1. ASSUME NEW d \in Collectors, d # c PROVE MapsInvOf(d)'
      BY <2>1, <3>1, MapsFrame DEF BeginCycle, Bumped, TypeOK, MapsInv
    <3>2. MapsInvOf(c)'
      <4>1. Coherent(Served(c)) => Coherent(Served(c))'
        BY <2>1 DEF BeginCycle, Bumped, Coherent, Served
      <4>2. /\ generation'[c] = generation[c] + 1
            /\ UNCHANGED <<self[c], cache[c], lastRefresh[c]>>
            /\ cycle[c][generation[c] + 1] = "idle"
            /\ cycle'[c][generation[c] + 1] = "running"
            /\ \A h \in Generation : h # generation[c] + 1 =>
                  cycle'[c][h] = cycle[c][h]
        BY <2>1 DEF BeginCycle, Bumped, CyclesInv, TypeOK, Generation
      <4>3. Quiet(c)
        BY <2>1, LoopExcludes DEF BeginCycle, Bumped, Holds, Quiet
      <4>4. ASSUME NEW h \in Generation PROVE CycleInv(c, h)'
        <5>1. CASE h = generation[c] + 1
          BY <4>2, <5>1 DEF MapsInv, MapsInvOf, CycleInv, TypeOK, Publishing
        <5>2. CASE h # generation[c] + 1 /\ h <= generation[c]
          <6>1. ~Current(c, h)'
            BY <4>2, <5>2 DEF Current, TypeOK, Generation
          <6>2. CycleInv(c, h)
            BY DEF MapsInv, MapsInvOf
          <6> QED
            BY <4>2, <5>2, <6>1, <6>2 DEF CycleInv
        <5>3. CASE h > generation[c] + 1
          BY <4>2, <5>3 DEF MapsInv, MapsInvOf, CycleInv, TypeOK, Current,
                            Generation
        <5> QED
          BY <5>1, <5>2, <5>3 DEF Generation, TypeOK
      <4> QED
        BY <4>1, <4>2, <4>3, <4>4 DEF TypeOK, MapsInv, MapsInvOf
    <3> QED
      BY <3>1, <3>2 DEF MapsInv
  <2>2. LoopStep(c) /\ ~BeginCycle(c) =>
          UNCHANGED <<cacheVars, generation, cycle>>
    BY DEF LoopStep, LoopLock, Complete, Watchdog, Tick, Stop
  <2> QED
    BY <1>1, <2>1, <2>2, MapsFrame DEF MapsInv
<1>2. ASSUME NEW c \in Collectors, NEW g \in Generation, CycleStep(c, g)
      PROVE MapsInv'
  <2>1. ASSUME NEW d \in Collectors, d # c PROVE MapsInvOf(d)'
    <3>1. UNCHANGED <<self[d], cache[d], lastRefresh[d], generation[d], cycle[d]>>
      BY <1>2, <2>1 DEF TypeOK, CycleStep, RunCollector, CycleLock, Discard,
         PublishFailure, PublishSelf, PublishData, PublishStamp, CloseDone
    <3> QED
      BY <3>1, MapsFrame DEF MapsInv
  <2>2. MapsInvOf(c)'
    <3> DEFINE Bounds == /\ self[c].cycle <= generation[c]
                         /\ cache[c] <= self[c].cycle
                         /\ lastRefresh[c] <= self[c].cycle
    <3>1. /\ UNCHANGED generation
          /\ \A h \in Generation : h # g => cycle'[c][h] = cycle[c][h]
      BY <1>2 DEF TypeOK, CycleStep, RunCollector, CycleLock, Discard,
         PublishFailure, PublishSelf, PublishData, PublishStamp, CloseDone
    <3>2. CASE UNCHANGED cacheVars
      <4>1. cycle[c][g] \notin Publishing
        BY <1>2, <3>2 DEF CycleStep, RunCollector, CycleLock, Discard,
           PublishFailure, PublishSelf, PublishData, PublishStamp, CloseDone,
           Publishing, TypeOK, MapsInv, MapsInvOf, CycleInv
      <4>2. ASSUME NEW h \in Generation, h # g PROVE CycleInv(c, h)'
        BY <3>1, <3>2, <4>2, CycleFrame DEF MapsInv, MapsInvOf
      <4>3. CycleInv(c, g)'
        BY <1>2, <3>1, <3>2, <4>1 DEF CycleStep, RunCollector, CycleLock, Discard,
           PublishFailure, PublishSelf, PublishData, PublishStamp, CloseDone,
           Publishing, TypeOK, MapsInv, MapsInvOf, CycleInv, Current
      <4>4. Quiet(c)' => Quiet(c)
        BY <3>1, <4>1 DEF Quiet
      <4>5. Coherent(Served(c)) => Coherent(Served(c))'
        BY <3>2 DEF Coherent, Served
      <4> QED
        BY <3>1, <3>2, <4>2, <4>3, <4>4, <4>5 DEF MapsInv, MapsInvOf
    <3>3. CASE PublishFailure(c, g) \/ PublishSelf(c, g)
      <4>1. Quiet(c) /\ cycle[c][g] \notin Publishing
        BY <3>3, CycleExcludes DEF PublishFailure, PublishSelf, Holds, Quiet,
                                   Publishing
      <4>2. /\ generation[c] = g
            /\ self'[c].cycle = g
            /\ UNCHANGED <<cache, lastRefresh>>
        BY <3>3 DEF PublishFailure, PublishSelf, Current, TypeOK
      <4>3. self[c].cycle < g
        BY <3>3, <4>2 DEF PublishFailure, PublishSelf, TypeOK, Generation,
                          MapsInv, MapsInvOf, CycleInv
      <4>4. cache[c] = lastRefresh[c] /\ cache[c] < g
        BY <4>1, <4>3 DEF Coherent, Served, TypeOK, MapsInv, MapsInvOf,
                          Generation
      <4>5. Bounds'
        BY <3>1, <4>2, <4>4 DEF TypeOK, Generation
      <4>6. ASSUME NEW h \in Generation, h # g PROVE CycleInv(c, h)'
        BY <3>1, <4>1, <4>2, <4>6 DEF CycleInv, Quiet, Current, Publishing
      <4>7. CycleInv(c, g)' /\ (Quiet(c)' => Coherent(Served(c))')
        <5>1. CASE PublishFailure(c, g)
          <6>1. /\ cycle'[c][g] = "closing"
                /\ self'[c] = [cycle |-> g, success |-> FALSE]
            BY <5>1 DEF PublishFailure, TypeOK
          <6>2. CycleInv(c, g)'
            BY <6>1 DEF CycleInv, Publishing
          <6>3. cache[c] \in Nat /\ g \in Nat
            BY DEF TypeOK, Generation
          <6>4. Coherent(Served(c))'
            BY <4>2, <4>4, <6>1, <6>3 DEF Coherent, Served
          <6> QED
            BY <6>2, <6>4
        <5>2. CASE PublishSelf(c, g)
          <6>1. /\ cycle'[c][g] = "data"
                /\ self'[c] = [cycle |-> g, success |-> TRUE]
            BY <5>2 DEF PublishSelf, TypeOK
          <6> QED
            BY <4>2, <4>4, <6>1 DEF CycleInv, Publishing, Quiet
        <5> QED
          BY <3>3, <5>1, <5>2
      <4> QED
        BY <4>5, <4>6, <4>7 DEF MapsInvOf
    <3>4. CASE PublishData(c, g) \/ PublishStamp(c, g)
      <4>0. cycle[c][g] \in Publishing /\ CycleInv(c, g)
        BY <3>4 DEF PublishData, PublishStamp, Publishing, MapsInv, MapsInvOf
      <4>1. /\ cycle[c][g] \in Publishing
            /\ cycle[c][g] = "stamp" => cache[c] = g
            /\ self[c] = [cycle |-> g, success |-> TRUE]
            /\ lastRefresh[c] < g
            /\ generation[c] = g
        BY <4>0 DEF CycleInv, LockInv, Current
      <4>2. <<c, g>> \in writer
        BY <4>1 DEF LockInv
      <4>3. \A h \in Generation : h # g => cycle[c][h] \notin Publishing
        BY <4>2, CycleExcludes
      <4>4. /\ UNCHANGED self
            /\ cache'[c] = g
            /\ PublishData(c, g) =>
                  lastRefresh'[c] < g /\ cycle'[c][g] = "stamp"
            /\ PublishStamp(c, g) =>
                  lastRefresh'[c] = g /\ cycle'[c][g] = "closing"
        BY <3>4, <4>1 DEF PublishData, PublishStamp, TypeOK
      <4>5. ASSUME NEW h \in Generation, h # g PROVE CycleInv(c, h)'
        BY <3>1, <4>1, <4>3, <4>4, <4>5
           DEF CycleInv, Current, Publishing, MapsInv, MapsInvOf
      <4>6. CycleInv(c, g)' /\ Bounds'
        <5>1. CycleInv(c, g)'
          BY <3>4, <4>1, <4>4 DEF CycleInv, Publishing
        <5>2. lastRefresh'[c] <= g
          <6>1. TypeOK'
            BY TypeStep
          <6>2. lastRefresh'[c] \in Nat /\ g \in Nat
            BY <6>1 DEF TypeOK, Generation
          <6> QED
            BY <3>4, <4>4, <6>2
        <5>3. Bounds'
          BY <3>1, <4>1, <4>4, <5>2 DEF Generation
        <5> QED
          BY <5>1, <5>3
      <4>7. Quiet(c)' => Coherent(Served(c))'
        BY <3>4, <4>1, <4>4 DEF Quiet, Publishing, Coherent, Served, Generation
      <4> QED
        BY <4>5, <4>6, <4>7 DEF MapsInvOf
    <3> QED
      BY <1>2, <3>2, <3>3, <3>4 DEF CycleStep, RunCollector, CycleLock, Discard,
                                    CloseDone
  <2> QED
    BY <2>1, <2>2 DEF MapsInv
<1>3. ASSUME NEW s \in Scrapers, ScrapeStep(s) PROVE MapsInv'
  BY <1>3, MapsFrame DEF MapsInv, ScrapeStep, Arrive, RLock, Copy, RUnlock,
                         Deliver
<1>4. CASE Cancel \/ UNCHANGED vars
  BY <1>4, MapsFrame DEF MapsInv, Cancel
<1> QED
  BY <1>1, <1>2, <1>3, <1>4 DEF Next

\* Every step keeps what a scrape has copied current while it reads, and
\* coherent afterwards.
LEMMA SeenStep == IInv /\ [Next]_vars => SeenInv'
<1> SUFFICES ASSUME IInv, [Next]_vars PROVE SeenInv'
  OBVIOUS
<1> USE MaxGenAssumption DEF IInv, TypeOK, SeenInv, LoopState, CycleState,
        Generation, Publishing, Reading, vars, cacheVars, scrapeVars
<1>1. ASSUME NEW c \in Collectors, LoopStep(c) PROVE SeenInv'
  <2>1. CASE BeginCycle(c)
    BY <2>1 DEF BeginCycle, Bumped, CyclesInv, Served
  <2> QED
    BY <1>1, <2>1 DEF LoopStep, LoopLock, Complete, Watchdog, Tick, Stop, Served
<1>2. ASSUME NEW c \in Collectors, NEW g \in Generation, CycleStep(c, g)
      PROVE SeenInv'
  <2>1. CASE RunCollector(c, g)
    BY <2>1 DEF RunCollector, Served
  <2>2. CASE CycleLock(c, g)
    BY <2>2 DEF CycleLock, Served
  <2>3. CASE Discard(c, g)
    BY <2>3 DEF Discard, Served
  <2>4. CASE PublishFailure(c, g)
    BY <2>4 DEF PublishFailure, Holds
  <2>5. CASE PublishSelf(c, g)
    BY <2>5 DEF PublishSelf, Holds
  <2>6. CASE PublishData(c, g)
    BY <2>6 DEF PublishData
  <2>7. CASE PublishStamp(c, g)
    BY <2>7 DEF PublishStamp
  <2>8. CASE CloseDone(c, g)
    BY <2>8 DEF CloseDone, Served
  <2> QED
    BY <1>2, <2>1, <2>2, <2>3, <2>4, <2>5, <2>6, <2>7, <2>8 DEF CycleStep
<1>3. ASSUME NEW s \in Scrapers, ScrapeStep(s) PROVE SeenInv'
  <2>1. CASE Arrive(s)
    BY <2>1 DEF Arrive, Served
  <2>2. CASE RLock(s)
    BY <2>2 DEF RLock, MayRLock, LockInv, Served, Nothing
  <2>3. ASSUME NEW c \in Collectors, Copy(s, c) PROVE SeenInv'
    BY <2>3 DEF Copy, Served, Extended
  <2>4. CASE RUnlock(s)
    <3>1. seen[s] \in [Collectors -> View]
      BY <2>4 DEF RUnlock, Copies
    <3>2. ASSUME NEW c \in Collectors PROVE Coherent(seen[s][c])
      <4>1. seen[s][c] = Served(c) /\ Quiet(c)
        BY <2>4 DEF RUnlock, Quiet
      <4> QED
        BY <4>1 DEF MapsInv, MapsInvOf
    <3> QED
      BY <2>4, <3>1, <3>2 DEF RUnlock, Served
  <2>5. CASE Deliver(s)
    BY <2>5 DEF Deliver, Served
  <2> QED
    BY <1>3, <2>1, <2>2, <2>3, <2>4, <2>5 DEF ScrapeStep
<1>4. CASE Cancel \/ UNCHANGED vars
  BY <1>4 DEF Cancel, Served
<1> QED
  BY <1>1, <1>2, <1>3, <1>4 DEF Next

\* Every step keeps the whole of it.
LEMMA InductiveStep == IInv /\ [Next]_vars => IInv'
BY TypeStep, CyclesStep, LockStep, MapsStep, SeenStep DEF IInv

\* The inductive invariant holds of every behaviour of the refreshers.
LEMMA Inductive == Spec => []IInv
<1>1. Init => IInv
  BY InitInv
<1>2. IInv /\ [Next]_vars => IInv'
  BY InductiveStep
<1> QED
  BY <1>1, <1>2, PTL DEF Spec

-----------------------------------------------------------------------------
\* Every variable keeps its type, for any number of collectors, scrapes and
\* cycles.
THEOREM TypeCorrect == Spec => []TypeOK
<1>1. IInv => TypeOK
  BY DEF IInv
<1> QED
  BY <1>1, Inductive, PTL

\* A scrape is one instant of the three maps (collector.go:137-168).
THEOREM ScrapeCutTheorem == Spec => []ScrapesAreACut
<1>1. IInv => ScrapesAreACut
  BY DEF IInv, SeenInv, ScrapesAreACut, Reading
<1> QED
  BY <1>1, Inductive, PTL

\* What a scrape delivers hangs together (collector.go:254-281 against
\* 137-168).
THEOREM CoherenceTheorem == Spec => []ScrapesAreCoherent
<1>1. IInv => ScrapesAreCoherent
  BY DEF IInv, SeenInv, Coherent, ScrapesAreCoherent
<1> QED
  BY <1>1, Inductive, PTL

\* The outcome of the newest cycle is served as soon as it has ended.
THEOREM NoResultLostTheorem == Spec => []NoResultLost
<1>1. ASSUME IInv PROVE NoResultLost
  <2> SUFFICES ASSUME NEW c \in Collectors, NEW g \in Generation,
                      cycle[c][g] \in {"closing", "done"}, generation[c] = g
               PROVE  /\ self[c].cycle = g
                      /\ self[c].success => cache[c] = g /\ lastRefresh[c] = g
    BY DEF NoResultLost
  <2>1. self[c].cycle = g
    BY <1>1 DEF IInv, MapsInv, MapsInvOf, CycleInv, Current
  <2>2. Quiet(c)
    <3> SUFFICES ASSUME NEW h \in Generation, cycle[c][h] \in Publishing
                 PROVE FALSE
      BY DEF Quiet
    <3>1. Current(c, h)
      BY <1>1 DEF IInv, LockInv
    <3> QED
      BY <3>1 DEF Current, Publishing
  <2>3. Coherent(Served(c))
    BY <1>1, <2>2 DEF IInv, MapsInv, MapsInvOf
  <2>4. self[c].success => cache[c] = g /\ lastRefresh[c] = g
    BY <2>1, <2>3 DEF Coherent, Served
  <2> QED
    BY <2>1, <2>4
<1> QED
  BY <1>1, Inductive, PTL

\* No map entry ever moves but forward, and to the newest cycle begun.
THEOREM NewestTheorem == Spec => OnlyTheNewestPublishes
<1> DEFINE Forward ==
      \A c \in Collectors :
         /\ self'[c] # self[c] => /\ self'[c].cycle = generation[c]
                                 /\ self[c].cycle < generation[c]
         /\ cache'[c] # cache[c] => /\ cache'[c] = generation[c]
                                   /\ cache[c] < generation[c]
         /\ lastRefresh'[c] # lastRefresh[c] =>
              /\ lastRefresh'[c] = generation[c]
              /\ lastRefresh[c] < generation[c]
<1>1. ASSUME IInv, [Next]_vars PROVE Forward
  <2> USE <1>1 DEF IInv, TypeOK, MapsInv, MapsInvOf
  <2>1. CASE UNCHANGED cacheVars
    BY <2>1 DEF cacheVars
  <2>2. ASSUME NEW c \in Collectors, NEW g \in Generation,
               PublishFailure(c, g) \/ PublishSelf(c, g)
        PROVE Forward
    <3>1. generation[c] = g /\ self[c].cycle < g
      BY <2>2 DEF PublishFailure, PublishSelf, Current, CycleInv, Generation
    <3> QED
      BY <2>2, <3>1 DEF PublishFailure, PublishSelf
  <2>3. ASSUME NEW c \in Collectors, NEW g \in Generation, PublishData(c, g)
        PROVE Forward
    <3>1. generation[c] = g /\ cache[c] < g
      BY <2>3 DEF PublishData, CycleInv, LockInv, Current, Publishing
    <3> QED
      BY <2>3, <3>1 DEF PublishData
  <2>4. ASSUME NEW c \in Collectors, NEW g \in Generation, PublishStamp(c, g)
        PROVE Forward
    <3>1. generation[c] = g /\ lastRefresh[c] < g
      BY <2>4 DEF PublishStamp, CycleInv, LockInv, Current, Publishing
    <3> QED
      BY <2>4, <3>1 DEF PublishStamp
  <2>5. \/ UNCHANGED cacheVars
        \/ \E c \in Collectors, g \in Generation :
              \/ PublishFailure(c, g) \/ PublishSelf(c, g)
              \/ PublishData(c, g) \/ PublishStamp(c, g)
    BY <1>1 DEF Next, vars, LoopStep, LoopLock, BeginCycle, Complete, Watchdog,
       Tick, Stop, Cancel, CycleStep, RunCollector, CycleLock, Discard,
       CloseDone, ScrapeStep, Arrive, RLock, Copy, RUnlock, Deliver
  <2> QED
    BY <2>1, <2>2, <2>3, <2>4, <2>5
<1>2. IInv /\ [Next]_vars => [Forward]_vars
  BY <1>1
<1> QED
  BY <1>2, Inductive, PTL DEF Spec, OnlyTheNewestPublishes

-----------------------------------------------------------------------------
\* Between publications, what the promise says is published is what the maps
\* hold.
LEMMA PublishedIsServed ==
  ASSUME IInv, NEW c \in Collectors, Quiet(c)
  PROVE  Published(c) = Served(c)
<1>1. Coherent(Served(c))
  BY DEF IInv, MapsInv, MapsInvOf
<1>2. CASE self[c].success
  <2>1. cache[c] = self[c].cycle /\ lastRefresh[c] = self[c].cycle
    BY <1>1, <1>2 DEF Coherent, Served
  <2>2. self[c].success = TRUE
    BY <1>2 DEF IInv, TypeOK
  <2> QED
    BY <1>2, <2>1, <2>2 DEF Published, Served
<1>3. CASE ~self[c].success
  BY <1>3 DEF Published
<1> QED
  BY <1>2, <1>3

\* What is published of a collector changes only with its own maps, and what a
\* scrape answers only with its own state.
LEMMA PublishedFrame ==
  ASSUME NEW c \in Collectors,
         UNCHANGED <<self[c], cache[c], lastRefresh[c]>>
  PROVE  Published(c)' = Published(c)
BY DEF Published, Served

\* The refreshers begin as the promise does: nothing published or answered.
LEMMA PromiseInit == Init => Promise!Init
<1> SUFFICES ASSUME Init PROVE Promise!Init
  OBVIOUS
<1>1. \A c \in Collectors : Published(c) = Promise!Absent
  BY DEF Init, Published, Served, Promise!Absent
<1>2. \A s \in Scrapers : Answered(s) = Promise!NoAnswer
  BY DEF Init, Answered, Nothing, Promise!NoAnswer
<1> QED
  BY <1>1, <1>2 DEF Init, Promise!Init

\* Every step of the refreshers is a step of the promise, or none.
LEMMA PromiseStep == IInv /\ [Next]_vars => [Promise!Next]_Promise!vars
<1> SUFFICES ASSUME IInv, [Next]_vars PROVE [Promise!Next]_Promise!vars
  OBVIOUS
<1> DEFINE published == [c \in Collectors |-> Published(c)]
           answer == [s \in Scrapers |-> Answered(s)]
<1> USE DEF IInv, TypeOK
<1>1. UNCHANGED cacheVars => UNCHANGED published
  BY PublishedFrame DEF cacheVars
<1>2. UNCHANGED scrapeVars => UNCHANGED answer
  BY DEF scrapeVars, Answered
<1>3. ASSUME UNCHANGED <<generation, cacheVars, scrapeVars>>
      PROVE  UNCHANGED Promise!vars
  BY <1>1, <1>2, <1>3 DEF Promise!vars
<1>4. ASSUME NEW c \in Collectors, BeginCycle(c) PROVE Promise!Begin(c)
  BY <1>1, <1>2, <1>4 DEF BeginCycle, Bumped, Promise!Begin
<1>5. ASSUME NEW c \in Collectors, NEW g \in Generation,
             PublishFailure(c, g) \/ PublishSelf(c, g)
      PROVE  Promise!Fail(c) \/ Promise!Succeed(c)
  <2>1. /\ generation[c] = g
        /\ UNCHANGED <<generation, scrapeVars, cache, lastRefresh>>
    BY <1>5 DEF PublishFailure, PublishSelf, Current
  <2>2. self[c].cycle < g
    BY <1>5, <2>1 DEF PublishFailure, PublishSelf, Generation, MapsInv,
                      MapsInvOf, CycleInv
  <2>3. Quiet(c)
    BY <1>5, CycleExcludes DEF PublishFailure, PublishSelf, Holds, Quiet,
                               Publishing
  <2>4. Published(c) = Served(c)
    BY <2>3, PublishedIsServed
  <2>5. Promise!MayPublish(c)
    BY <2>1, <2>2, <2>4 DEF Promise!MayPublish, Served
  <2>6. \A d \in Collectors : d # c => Published(d)' = Published(d)
    BY <1>5, PublishedFrame DEF PublishFailure, PublishSelf
  <2>7. UNCHANGED <<generation, answer>>
    BY <1>2, <2>1
  <2>8. CASE PublishFailure(c, g)
    <3>1. Published(c)' = [data |-> cache[c], self |-> g, success |-> FALSE,
                           stamp |-> lastRefresh[c]]
      BY <2>8 DEF PublishFailure, Published, Served
    <3>2. Published(c)' = [data |-> published[c].data, self |-> generation[c],
                           success |-> FALSE, stamp |-> published[c].stamp]
      <4>1. published[c] = Served(c)
        BY <2>4
      <4>2. Served(c).data = cache[c] /\ Served(c).stamp = lastRefresh[c]
        BY DEF Served
      <4> QED
        BY <2>1, <3>1, <4>1, <4>2
    <3>3. published' = [published EXCEPT ![c] =
                          [data |-> published[c].data, self |-> generation[c],
                           success |-> FALSE, stamp |-> published[c].stamp]]
      BY <2>6, <3>2
    <3> QED
      BY <2>5, <2>7, <3>3 DEF Promise!Fail
  <2>9. CASE PublishSelf(c, g)
    <3>1. Published(c)' = [data |-> g, self |-> g, success |-> TRUE, stamp |-> g]
      BY <2>9 DEF PublishSelf, Published
    <3>2. published' = [published EXCEPT ![c] =
                          [data |-> generation[c], self |-> generation[c],
                           success |-> TRUE, stamp |-> generation[c]]]
      BY <2>1, <2>6, <3>1
    <3> QED
      BY <2>5, <2>7, <3>2 DEF Promise!Succeed
  <2> QED
    BY <1>5, <2>8, <2>9
<1>6. ASSUME NEW c \in Collectors, NEW g \in Generation,
             PublishData(c, g) \/ PublishStamp(c, g)
      PROVE  UNCHANGED Promise!vars
  <2>1. self[c] = [cycle |-> g, success |-> TRUE]
    BY <1>6 DEF PublishData, PublishStamp, MapsInv, MapsInvOf, CycleInv,
                Publishing
  <2>2. UNCHANGED <<generation, scrapeVars, self>>
    BY <1>6 DEF PublishData, PublishStamp
  <2>3. Published(c)' = Published(c)
    <3>1. self[c].success = TRUE /\ self'[c].success = TRUE
      BY <2>1, <2>2
    <3>2. self'[c].cycle = self[c].cycle
      BY <2>2
    <3> QED
      BY <3>1, <3>2 DEF Published
  <2>4. \A d \in Collectors : d # c => Published(d)' = Published(d)
    BY <1>6, PublishedFrame DEF PublishData, PublishStamp
  <2>5. UNCHANGED published
    BY <2>3, <2>4
  <2> QED
    BY <1>2, <2>2, <2>5 DEF Promise!vars
<1>7. ASSUME NEW s \in Scrapers, RUnlock(s) PROVE Promise!Answer(s)
  <2>1. \A c \in Collectors : seen[s][c] = Published(c)
    <3> TAKE c \in Collectors
    <3>1. Quiet(c) /\ seen[s][c] = Served(c)
      BY <1>7 DEF RUnlock, SeenInv, Quiet
    <3> QED
      BY <3>1, PublishedIsServed
  <2>2. seen[s] \in [Collectors -> View]
    BY <1>7 DEF RUnlock, Copies
  <2>3. seen[s] = published
    BY <2>1, <2>2
  <2>4. answer[s] = Promise!NoAnswer
    BY <1>7 DEF RUnlock, Answered, Nothing, Promise!NoAnswer
  <2>5. answer' = [answer EXCEPT ![s] = published]
    BY <1>7, <2>3 DEF RUnlock, Answered
  <2> QED
    BY <1>1, <1>7, <2>4, <2>5 DEF RUnlock, Promise!Answer
<1>8. ASSUME NEW s \in Scrapers, Deliver(s) PROVE Promise!Deliver(s)
  <2>1. answer' = [answer EXCEPT ![s] = Nothing]
    BY <1>8 DEF Deliver, Answered
  <2> QED
    BY <1>1, <1>8, <2>1 DEF Deliver, Promise!Deliver, Promise!NoAnswer, Nothing
<1>9. ASSUME NEW s \in Scrapers,
             Arrive(s) \/ RLock(s) \/ \E c \in Collectors : Copy(s, c)
      PROVE  UNCHANGED Promise!vars
  <2>1. UNCHANGED <<generation, cacheVars>>
    BY <1>9 DEF Arrive, RLock, Copy
  <2>2. UNCHANGED answer
    BY <1>9 DEF Arrive, RLock, Copy, Answered
  <2> QED
    BY <1>1, <2>1, <2>2 DEF Promise!vars
<1>10. \/ UNCHANGED <<generation, cacheVars, scrapeVars>>
       \/ \E c \in Collectors : BeginCycle(c)
       \/ \E c \in Collectors, g \in Generation :
             \/ PublishFailure(c, g) \/ PublishSelf(c, g)
             \/ PublishData(c, g) \/ PublishStamp(c, g)
       \/ \E s \in Scrapers :
             \/ RUnlock(s) \/ Deliver(s) \/ Arrive(s) \/ RLock(s)
             \/ \E c \in Collectors : Copy(s, c)
  BY DEF Next, vars, LoopStep, LoopLock, Complete, Watchdog, Tick, Stop, Cancel,
         CycleStep, RunCollector, CycleLock, Discard, CloseDone, ScrapeStep
<1> HIDE DEF published, answer
<1> QED
  BY <1>3, <1>4, <1>5, <1>6, <1>7, <1>8, <1>9, <1>10 DEF Promise!Next

\* Refreshers, cycles and scrapes implement the promise of MetricsCache.
THEOREM PromiseTheorem == Spec => KeepsThePromise
<1>1. Init => Promise!Init
  BY PromiseInit
<1>2. IInv /\ [Next]_vars => [Promise!Next]_Promise!vars
  BY PromiseStep
<1> QED
  BY <1>1, <1>2, Inductive, PTL DEF Spec, KeepsThePromise, Promise!Spec
=============================================================================
