----------------------------- MODULE Collection -----------------------------
(***************************************************************************)
(* One collection of one collector (collector.go: runCollector and         *)
(* updateCollector): a goroutine per client sends metrics into an          *)
(* unbuffered channel, a drainer appends them to the result, and the       *)
(* caller waits for both before it hands the result back.                  *)
(*                                                                         *)
(* A metric is <<client, n>>, the n-th one Update emitted for that client. *)
(* A scrape metric is <<client, kind>>.                                    *)
(***************************************************************************)
EXTENDS Naturals, FiniteSets, SequencesExt

CONSTANTS Clients,      \* the configured clients
          MaxEmit       \* bound: metrics one Update emits

ASSUME CollectionAssumption == IsFiniteSet(Clients) /\ MaxEmit \in Nat

VARIABLES
    main,       \* where runCollector is
    client,     \* client[k]: where the goroutine of client k is
    emitted,    \* emitted[k]: metrics Update has delivered into the channel
    outcome,    \* outcome[k]: how Update ended
    wg,         \* wgCollection
    closed,     \* metricsCh is closed
    drainer,    \* where the draining goroutine is
    hand,       \* the metrics the drainer has received and not yet appended
    data,       \* the data metrics collected
    failed,     \* the atomic flag
    selfMu,     \* who holds selfMu
    read,       \* read[k]: the value of self that k is about to append to
    self,       \* the scrape metrics collected
    ok          \* the third result of runCollector

channelVars == <<closed, drainer, hand, data>>
selfVars == <<selfMu, read, self>>
vars == <<main, client, emitted, outcome, wg, channelVars, failed, selfVars, ok>>

\* append has two halves, the read of the slice and the store of the new one.
\* The duration is appended first, then the success.
ClientState == {"absent", "updating", "sending", "lock",
                "readDuration", "storeDuration", "readSuccess", "storeSuccess",
                "leaving", "gone"}

SelfMetric == Clients \X {"duration", "success"}

Sent == {m \in Clients \X (1..MaxEmit) : m[2] <= emitted[m[1]]}

TypeOK ==
    /\ main \in {"launch", "wait", "close", "drain", "returned"}
    /\ client \in [Clients -> ClientState]
    /\ emitted \in [Clients -> 0..MaxEmit]
    /\ outcome \in [Clients -> {"none", "nil", "error", "panic"}]
    /\ wg \in 0..Cardinality(Clients)
    /\ closed \in BOOLEAN
    /\ drainer \in {"receive", "append", "finished"}
    /\ hand \in Clients \X (0..MaxEmit) \cup {<<>>}
    /\ data \in Seq(Clients \X (1..MaxEmit))
    /\ failed \in BOOLEAN
    /\ selfMu \in SUBSET Clients
    /\ read \in [Clients -> Seq(SelfMetric)]
    /\ self \in Seq(SelfMetric)
    /\ ok \in BOOLEAN

Init ==
    /\ main = "launch"
    /\ client = [k \in Clients |-> "absent"]
    /\ emitted = [k \in Clients |-> 0]
    /\ outcome = [k \in Clients |-> "none"]
    /\ wg = 0
    /\ closed = FALSE
    /\ drainer = "receive"
    /\ hand = <<>>
    /\ data = <<>>
    /\ failed = FALSE
    /\ selfMu = {}
    /\ read = [k \in Clients |-> <<>>]
    /\ self = <<>>
    /\ ok = FALSE

Goes(k, from, to) == /\ client[k] = from
                     /\ client' = [client EXCEPT ![k] = to]

-----------------------------------------------------------------------------
(* The caller.                                                             *)

\* mutant: wgCollection.Add is missing
NotAdded == wg

Added == wg + 1

Launch(k) ==
    /\ main = "launch"
    /\ Goes(k, "absent", "updating")
    /\ wg' = Added
    /\ UNCHANGED <<main, emitted, outcome, channelVars, failed, selfVars, ok>>

AllLaunched ==
    /\ main = "launch"
    /\ \A k \in Clients : client[k] # "absent"
    /\ main' = "wait"
    /\ UNCHANGED <<client, emitted, outcome, wg, channelVars, failed, selfVars, ok>>

\* mutant: the wait for the clients is missing
NobodyToAwait == TRUE

AllDone == wg = 0

Wait ==
    /\ main = "wait"
    /\ AllDone
    /\ main' = "close"
    /\ UNCHANGED <<client, emitted, outcome, wg, channelVars, failed, selfVars, ok>>

Close ==
    /\ main = "close"
    /\ closed' = TRUE
    /\ main' = "drain"
    /\ UNCHANGED <<client, emitted, outcome, wg, drainer, hand, data, failed,
                   selfVars, ok>>

\* mutant: the wait for drained is missing
DrainedOrNot == TRUE

Drained == drainer = "finished"

Return ==
    /\ main = "drain"
    /\ Drained
    /\ ok' = ~failed
    /\ main' = "returned"
    /\ UNCHANGED <<client, emitted, outcome, wg, channelVars, failed, selfVars>>

-----------------------------------------------------------------------------
(* The goroutine of a client.                                              *)

\* Update has a metric and blocks in the send.
Send(k) ==
    /\ Goes(k, "updating", "sending")
    /\ emitted[k] < MaxEmit
    /\ UNCHANGED <<main, emitted, outcome, wg, channelVars, failed, selfVars, ok>>

\* err is what updateCollector returns of it.
Ends(k, how, err) ==
    /\ Goes(k, "updating", "lock")
    /\ outcome' = [outcome EXCEPT ![k] = how]
    /\ failed' = (failed \/ err = "error")
    /\ UNCHANGED <<main, emitted, wg, channelVars, selfVars, ok>>

\* Update returns, also because its context expired; it may also never do so.
UpdateReturns(k) == \E err \in {"nil", "error"} : Ends(k, err, err)

\* mutant: the deferred function recovers and leaves err alone
Swallowed == "nil"

\* What the deferred function makes of a panic.
Recovered == "error"

UpdatePanics(k) == Ends(k, "panic", Recovered)

MayLockSelf == selfMu = {}

LockSelf(k) ==
    /\ MayLockSelf
    /\ Goes(k, "lock", "readDuration")
    /\ selfMu' = selfMu \cup {k}
    /\ UNCHANGED <<main, emitted, outcome, wg, channelVars, failed, read, self, ok>>

ReadSelf(k) ==
    /\ \/ Goes(k, "readDuration", "storeDuration")
       \/ Goes(k, "readSuccess", "storeSuccess")
    /\ read' = [read EXCEPT ![k] = self]
    /\ UNCHANGED <<main, emitted, outcome, wg, channelVars, failed, selfMu, self, ok>>

StoreDuration(k) ==
    /\ Goes(k, "storeDuration", "readSuccess")
    /\ self' = Append(read[k], <<k, "duration">>)
    /\ UNCHANGED <<main, emitted, outcome, wg, channelVars, failed, selfMu, read, ok>>

\* mutant: the deferred unlock of selfMu is missing
StillHeld(k) == selfMu

Released(k) == selfMu \ {k}

\* The deferred unlock runs before the deferred Done.
StoreSuccess(k) ==
    /\ Goes(k, "storeSuccess", "leaving")
    /\ self' = Append(read[k], <<k, "success">>)
    /\ selfMu' = Released(k)
    /\ UNCHANGED <<main, emitted, outcome, wg, channelVars, failed, read, ok>>

Done(k) ==
    /\ Goes(k, "leaving", "gone")
    /\ wg' = wg - 1
    /\ UNCHANGED <<main, emitted, outcome, channelVars, failed, selfVars, ok>>

-----------------------------------------------------------------------------
(* The drainer.                                                            *)

\* mutant: the drainer is started after the clients have been waited for
ReceivesLate == main = "drain" /\ drainer = "receive"

Receives == drainer = "receive"

\* The rendezvous of a blocked sender and the drainer.
Receive(k) ==
    /\ Receives
    /\ ~closed
    /\ Goes(k, "sending", "updating")
    /\ emitted' = [emitted EXCEPT ![k] = @ + 1]
    /\ hand' = <<k, emitted[k] + 1>>
    /\ drainer' = "append"
    /\ UNCHANGED <<main, outcome, wg, closed, data, failed, selfVars, ok>>

AppendData ==
    /\ drainer = "append"
    /\ data' = Append(data, hand)
    /\ hand' = <<>>
    /\ drainer' = "receive"
    /\ UNCHANGED <<main, client, emitted, outcome, wg, closed, failed, selfVars, ok>>

\* range ends on a closed channel, and drained is closed.
FinishDraining ==
    /\ drainer = "receive"
    /\ closed
    /\ drainer' = "finished"
    /\ UNCHANGED <<main, client, emitted, outcome, wg, closed, hand, data, failed,
                   selfVars, ok>>

-----------------------------------------------------------------------------
ClientStep(k) == \/ Launch(k) \/ Send(k) \/ Receive(k)
                 \/ UpdateReturns(k) \/ UpdatePanics(k)
                 \/ LockSelf(k) \/ ReadSelf(k) \/ StoreDuration(k)
                 \/ StoreSuccess(k) \/ Done(k)

MainStep == AllLaunched \/ Wait \/ Close \/ Return

Next == \/ \E k \in Clients : ClientStep(k)
        \/ MainStep \/ AppendData \/ FinishDraining

Spec == Init /\ [][Next]_vars

\* Go runs every goroutine that can run, an unbuffered channel serves its
\* blocked senders in order, and a mutex serves a starved waiter, hence SF on
\* the two that are contended.  Nothing makes Update return or emit.
Fairness ==
    /\ WF_vars(MainStep) /\ WF_vars(AppendData) /\ WF_vars(FinishDraining)
    /\ \A k \in Clients :
          /\ WF_vars(Launch(k))
          /\ SF_vars(Receive(k))
          /\ SF_vars(LockSelf(k))
          /\ WF_vars(ReadSelf(k) \/ StoreDuration(k) \/ StoreSuccess(k) \/ Done(k))

LiveSpec == Spec /\ Fairness

-----------------------------------------------------------------------------
(* Properties.                                                             *)

\* From the moment runCollector returns, what it returned is all there is and
\* stays so: every metric sent is there exactly once, every client has exactly
\* its two scrape metrics, and ok says whether no client failed or panicked.
\* refresh publishes these slices, so nobody may still be appending to them.
ResultIsComplete ==
    main = "returned" =>
       /\ Len(data) = Cardinality(Sent) /\ ToSet(data) = Sent
       /\ Len(self) = 2 * Cardinality(Clients) /\ ToSet(self) = SelfMetric
       /\ ok <=> \A k \in Clients : outcome[k] = "nil"

\* The channel is closed only when no client can send any more: a send on a
\* closed channel panics, and an Update that still runs would fail for it.
NoSendOnClosed == closed => \A k \in Clients : client[k] \in {"leaving", "gone"}

\* A client that has a metric to send is served even when another client hangs
\* in Update for ever.
SendersAreServed ==
    \A k \in Clients : client[k] = "sending" ~> client[k] = "updating"

\* Once every Update has returned or panicked, so does runCollector.
CollectionEnds ==
    (\A k \in Clients : outcome[k] # "none") ~> main = "returned"
-----------------------------------------------------------------------------
(* The promise this implements.                                            *)

\* A panic is reported like any other error.
Report(k) == IF outcome[k] = "panic" THEN "error" ELSE outcome[k]

Promise == INSTANCE Gathering
              WITH contributed <- emitted,
                   reported <- [k \in Clients |-> Report(k)],
                   result <- IF main # "returned" THEN <<>>
                             ELSE [data |-> ToBag(data), self |-> ToBag(self),
                                   ok |-> ok]

\* Channel, drainer, wait group and mutexes implement one step that hands over
\* what all clients contributed, after which nobody touches it: refresh publishes
\* these very slices.
HandsOverAtOnce == Promise!Spec
=============================================================================
