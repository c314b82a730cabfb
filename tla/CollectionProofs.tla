-------------------------- MODULE CollectionProofs --------------------------
(***************************************************************************)
(* Proofs about Collection for any finite set of clients and any MaxEmit:  *)
(* its type invariant, that what runCollector returns is complete, that    *)
(* nobody sends on the closed channel, and that it implements Gathering.   *)
(***************************************************************************)
EXTENDS Collection, FiniteSetTheorems, SequenceTheorems, TLAPS

Holding == {"readDuration", "storeDuration", "readSuccess", "storeSuccess"}

\* Where a client is once it has stored a scrape metric of a kind.
Past == [kind \in {"duration", "success"} |->
           IF kind = "duration"
           THEN {"readSuccess", "storeSuccess", "leaving", "gone"}
           ELSE {"leaving", "gone"}]

\* What a client has reported, and where it is.
ClientsInv ==
    /\ \A k \in Clients :
          /\ client[k] = "absent" => main = "launch"
          /\ outcome[k] = "none" <=> client[k] \in {"absent", "updating", "sending"}
          /\ client[k] = "sending" => emitted[k] < MaxEmit
    /\ failed <=> \E k \in Clients : outcome[k] \in {"error", "panic"}

\* The clients that wgCollection counts.
Counted == {k \in Clients : client[k] \notin {"absent", "gone"}}

\* What each of the three waits has established.
WaitInv ==
    /\ wg = Cardinality(Counted)
    /\ main \in {"close", "drain", "returned"} =>
          \A k \in Clients : client[k] = "gone"
    /\ closed <=> main \in {"drain", "returned"}
    /\ drainer = "finished" => closed
    /\ main = "returned" => drainer = "finished" /\ (ok <=> ~failed)

InHand == IF drainer = "append" THEN {hand} ELSE {}

\* The drainer has every metric sent, once, except for the one in its hand.
DataInv ==
    /\ IsInjective(data)
    /\ InHand \subseteq Sent
    /\ ToSet(data) = Sent \ InHand

\* Whoever is between lock and unlock is alone there, so that the slice it has
\* read is the one it appends to.
SelfInv ==
    /\ \A k \in Clients : k \in selfMu <=> client[k] \in Holding
    /\ \A k, l \in selfMu : k = l
    /\ \A k \in Clients :
          client[k] \in {"storeDuration", "storeSuccess"} => read[k] = self
    /\ IsInjective(self)
    /\ ToSet(self) = {m \in SelfMetric : client[m[1]] \in Past[m[2]]}

IInv == TypeOK /\ ClientsInv /\ WaitInv /\ DataInv /\ SelfInv

-----------------------------------------------------------------------------
(* Sequences without repetitions.                                          *)

\* Appending adds one element.
LEMMA AppendedSet ==
  ASSUME NEW S, NEW s \in Seq(S), NEW e \in S
  PROVE  ToSet(Append(s, e)) = ToSet(s) \cup {e}
<1>1. DOMAIN s = 1..Len(s) /\ Len(s) \in Nat
  OBVIOUS
<1>2. DOMAIN Append(s, e) = 1..(Len(s) + 1)
  OBVIOUS
<1>3. \A i \in 1..Len(s) : Append(s, e)[i] = s[i]
  OBVIOUS
<1>4. Append(s, e)[Len(s) + 1] = e
  OBVIOUS
<1> QED
  BY <1>1, <1>2, <1>3, <1>4 DEF ToSet

\* Appending what is not there yet repeats nothing.
LEMMA AppendedInjective ==
  ASSUME NEW S, NEW s \in Seq(S), NEW e \in S, IsInjective(s), e \notin ToSet(s)
  PROVE  IsInjective(Append(s, e))
<1>1. DOMAIN s = 1..Len(s) /\ Len(s) \in Nat
  OBVIOUS
<1>2. DOMAIN Append(s, e) = 1..(Len(s) + 1)
  OBVIOUS
<1>3. \A i \in 1..Len(s) : Append(s, e)[i] = s[i] /\ s[i] # e
  BY <1>1 DEF ToSet
<1>4. Append(s, e)[Len(s) + 1] = e
  OBVIOUS
<1> QED
  BY <1>1, <1>2, <1>3, <1>4 DEF IsInjective

\* Without repetitions there are as many elements as positions.
LEMMA InjectiveLength ==
  ASSUME NEW S, NEW s \in Seq(S), IsInjective(s)
  PROVE  Len(s) = Cardinality(ToSet(s))
<1>1. DOMAIN s = 1..Len(s) /\ Len(s) \in Nat
  OBVIOUS
<1>2. s \in [1..Len(s) -> ToSet(s)]
  BY <1>1 DEF ToSet
<1>3. s \in Injection(1..Len(s), ToSet(s))
  BY <1>2 DEF Injection
<1>4. s \in Surjection(1..Len(s), ToSet(s))
  BY <1>1, <1>2 DEF Surjection, ToSet
<1>5. ExistsBijection(1..Len(s), ToSet(s))
  BY <1>3, <1>4 DEF ExistsBijection, Bijection
<1>6. IsFiniteSet(1..Len(s)) /\ Cardinality(1..Len(s)) = Len(s)
  BY <1>1, FS_Interval
<1> QED
  BY <1>5, <1>6, FS_Bijection

\* and every element is in the bag once.
LEMMA InjectiveBag ==
  ASSUME NEW S, NEW s \in Seq(S), IsInjective(s)
  PROVE  ToBag(s) = SetToBag(ToSet(s))
<1>1. Range(s) = ToSet(s)
  BY DEF Range, ToSet
<1>2. ASSUME NEW x \in ToSet(s)
      PROVE  Cardinality({i \in DOMAIN s : s[i] = x}) = 1
  <2>1. PICK j \in DOMAIN s : s[j] = x
    BY <1>2 DEF ToSet
  <2>2. {i \in DOMAIN s : s[i] = x} = {j}
    BY <2>1 DEF IsInjective
  <2> QED
    BY <2>2, FS_Singleton
<1> QED
  BY <1>1, <1>2 DEF ToBag, SetToBag

-----------------------------------------------------------------------------
(* IInv is inductive.                                                      *)

\* Before runCollector starts anything, nothing has been sent, counted or reported.
LEMMA InitInv == Init => IInv
<1> SUFFICES ASSUME Init PROVE IInv
  OBVIOUS
<1> USE CollectionAssumption DEF Init
<1>1. Cardinality(Clients) \in Nat
  BY FS_CardinalityType
<1>2. ToSet(<<>>) = {} /\ IsInjective(<<>>)
  BY DEF ToSet, IsInjective
<1>3. TypeOK
  <2>1. read \in [Clients -> Seq(SelfMetric)] /\ self \in Seq(SelfMetric)
    OBVIOUS
  <2>2. hand \in Clients \X (0..MaxEmit) \cup {<<>>}
    OBVIOUS
  <2>3. data \in Seq(Clients \X (1..MaxEmit))
    OBVIOUS
  <2>4. client \in [Clients -> ClientState]
    BY DEF ClientState
  <2>5. emitted \in [Clients -> 0..MaxEmit]
    OBVIOUS
  <2>6. outcome \in [Clients -> {"none", "nil", "error", "panic"}]
    OBVIOUS
  <2>7. wg \in 0..Cardinality(Clients) /\ selfMu \in SUBSET Clients
    BY <1>1
  <2> QED
    BY <2>1, <2>2, <2>3, <2>4, <2>5, <2>6, <2>7 DEF TypeOK
<1>4. ClientsInv
  BY DEF ClientsInv
<1>5. WaitInv
  <2>1. Counted = {}
    BY DEF Counted
  <2> QED
    BY <2>1, FS_EmptySet DEF WaitInv
<1>6. DataInv
  <2>1. Sent = {} /\ InHand = {}
    BY DEF Sent, InHand
  <2> QED
    BY <1>2, <2>1 DEF DataInv
<1>7. SelfInv
  <2>1. {m \in SelfMetric : client[m[1]] \in Past[m[2]]} = {}
    BY DEF SelfMetric, Past
  <2> QED
    BY <1>2, <2>1 DEF SelfInv, Holding
<1> QED
  BY <1>3, <1>4, <1>5, <1>6, <1>7 DEF IInv

\* However Update ends, updateCollector returns nil or an error.
LEMMA UpdateEnds ==
  ASSUME NEW k \in Clients, UpdateReturns(k) \/ UpdatePanics(k)
  PROVE  \E how \in {"nil", "error", "panic"} :
            Ends(k, how, IF how = "nil" THEN "nil" ELSE "error")
  BY DEF UpdateReturns, UpdatePanics, Recovered

\* The steps of one client, and what they move it between.
LEMMA Moves ==
  ASSUME IInv, NEW k \in Clients, ClientStep(k)
  PROVE  /\ client' = [client EXCEPT ![k] = client'[k]]
         /\ client'[k] \in ClientState \ {"absent"}
         /\ main = "launch" \/ client[k] # "absent"
         /\ client[k] # "gone"
         /\ UNCHANGED main
<1> QED
  BY DEF IInv, TypeOK, ClientsInv, ClientState, ClientStep, Goes, Launch, Send,
         Receive, UpdateReturns, UpdatePanics, Ends, LockSelf, ReadSelf, StoreDuration,
         StoreSuccess, Done

\* wgCollection counts the goroutines that have been started and have not left.
LEMMA CountStep == IInv /\ [Next]_vars => wg' = Cardinality(Counted')
<1> SUFFICES ASSUME IInv, [Next]_vars PROVE wg' = Cardinality(Counted')
  OBVIOUS
<1> USE DEF IInv, TypeOK, ClientsInv, WaitInv
<1>1. IsFiniteSet(Counted)
  BY CollectionAssumption, FS_Subset DEF Counted
<1>2. ASSUME NEW k \in Clients, Launch(k) PROVE wg' = Cardinality(Counted')
  <2>1. k \notin Counted /\ Counted' = Counted \cup {k}
    BY <1>2 DEF Launch, Goes, Counted
  <2> QED
    BY <1>1, <1>2, <2>1, FS_AddElement DEF Launch, Added
<1>3. ASSUME NEW k \in Clients, Done(k) PROVE wg' = Cardinality(Counted')
  <2>1. k \in Counted /\ Counted' = Counted \ {k}
    BY <1>3 DEF Done, Goes, Counted
  <2> QED
    BY <1>1, <1>3, <2>1, FS_RemoveElement DEF Done
<1>4. ASSUME NEW k \in Clients, ClientStep(k), ~Launch(k), ~Done(k)
      PROVE  wg' = Cardinality(Counted')
  <2>1. wg' = wg
    BY <1>4 DEF ClientStep, Send, Receive, UpdateReturns, UpdatePanics, Ends,
                LockSelf, ReadSelf, StoreDuration, StoreSuccess
  <2>2. Counted' = Counted
    BY <1>4, Moves DEF ClientStep, Goes, Send, Receive, UpdateReturns, UpdatePanics,
                       Ends, LockSelf, ReadSelf, StoreDuration, StoreSuccess, Counted
  <2> QED
    BY <2>1, <2>2
<1>5. ASSUME UNCHANGED <<client, wg>> PROVE wg' = Cardinality(Counted')
  BY <1>5 DEF Counted
<1> QED
  BY <1>2, <1>3, <1>4, <1>5 DEF Next, vars, MainStep, AllLaunched, Wait, Close,
     Return, AppendData, FinishDraining

\* Every step of runCollector and its goroutines keeps the types.
LEMMA TypeStep == IInv /\ [Next]_vars => TypeOK'
<1> SUFFICES ASSUME IInv, [Next]_vars PROVE TypeOK'
  OBVIOUS
<1> USE CollectionAssumption DEF IInv, TypeOK, channelVars, selfVars
<1>1. wg' \in 0..Cardinality(Clients)
  <2>1. Counted' \in SUBSET Clients
    BY DEF Counted
  <2> QED
    BY <2>1, CountStep, FS_Subset, FS_CardinalityType
<1>2. ASSUME NEW k \in Clients, ClientStep(k) PROVE TypeOK'
  <2>1. client' \in [Clients -> ClientState] /\ UNCHANGED main
    BY <1>2, Moves
  <2>2. CASE Launch(k) \/ Send(k) \/ Done(k)
    BY <1>1, <2>1, <2>2 DEF Launch, Send, Done
  <2>3. CASE Receive(k)
    <3>1. emitted[k] + 1 \in 0..MaxEmit
      BY <2>3 DEF Receive, Goes, ClientsInv
    <3> QED
      BY <1>1, <2>1, <2>3, <3>1 DEF Receive
  <2>4. CASE UpdateReturns(k) \/ UpdatePanics(k)
    BY <1>1, <2>1, <2>4, UpdateEnds DEF Ends
  <2>5. CASE LockSelf(k)
    BY <1>1, <2>1, <2>5 DEF LockSelf
  <2>6. CASE ReadSelf(k)
    BY <1>1, <2>1, <2>6 DEF ReadSelf
  <2>7. CASE StoreDuration(k) \/ StoreSuccess(k)
    <3>1. <<k, "duration">> \in SelfMetric /\ <<k, "success">> \in SelfMetric
      BY DEF SelfMetric
    <3>2. read[k] \in Seq(SelfMetric)
      OBVIOUS
    <3>3. /\ Append(read[k], <<k, "duration">>) \in Seq(SelfMetric)
          /\ Append(read[k], <<k, "success">>) \in Seq(SelfMetric)
      BY <3>1, <3>2, AppendProperties
    <3>4. self' \in Seq(SelfMetric)
      BY <2>7, <3>3 DEF StoreDuration, StoreSuccess
    <3> QED
      BY <1>1, <2>1, <2>7, <3>4 DEF StoreDuration, StoreSuccess, Released
  <2> QED
    BY <1>2, <2>2, <2>3, <2>4, <2>5, <2>6, <2>7 DEF ClientStep
<1>3. CASE AllLaunched \/ Wait \/ Close
  BY <1>1, <1>3 DEF AllLaunched, Wait, Close
<1>4. CASE Return
  BY <1>1, <1>4 DEF Return
<1>5. CASE AppendData
  <2>1. hand \in Clients \X (1..MaxEmit)
    BY <1>5 DEF AppendData, DataInv, InHand, Sent
  <2> QED
    BY <1>1, <1>5, <2>1 DEF AppendData
<1>6. CASE FinishDraining
  BY <1>1, <1>6 DEF FinishDraining
<1>7. CASE UNCHANGED vars
  BY <1>1, <1>7 DEF vars
<1> QED
  BY <1>2, <1>3, <1>4, <1>5, <1>6, <1>7 DEF Next, MainStep

\* Every step keeps what a client has reported in line with where it is, and
\* the failed flag with the reports.
LEMMA ClientsStep == IInv /\ [Next]_vars => ClientsInv'
<1> SUFFICES ASSUME IInv, [Next]_vars PROVE ClientsInv'
  OBVIOUS
<1> USE DEF ClientsInv
<1>a. ClientsInv
  BY DEF IInv
<1>b. /\ client \in [Clients -> ClientState]
      /\ emitted \in [Clients -> 0..MaxEmit]
      /\ outcome \in [Clients -> {"none", "nil", "error", "panic"}]
      /\ failed \in BOOLEAN
  BY DEF IInv, TypeOK
<1>1. ASSUME NEW k \in Clients, ClientStep(k) PROVE ClientsInv'
  <2>1. CASE UpdateReturns(k) \/ UpdatePanics(k)
    <3>1. PICK how \in {"nil", "error", "panic"} :
             Ends(k, how, IF how = "nil" THEN "nil" ELSE "error")
      BY <2>1, UpdateEnds
    <3> QED
      BY <1>a, <1>b, <3>1 DEF Ends, Goes
  <2>2. CASE Receive(k)
    BY <1>a, <1>b, <2>2 DEF Receive, Goes, Receives
  <2>3. CASE Launch(k) \/ Send(k)
    BY <1>a, <1>b, <2>3 DEF Launch, Send, Goes
  <2>4. CASE LockSelf(k) \/ ReadSelf(k)
    BY <1>a, <1>b, <2>4 DEF LockSelf, ReadSelf, Goes
  <2>5. CASE StoreDuration(k) \/ StoreSuccess(k) \/ Done(k)
    BY <1>a, <1>b, <2>5 DEF StoreDuration, StoreSuccess, Done, Goes
  <2> QED
    BY <1>1, <2>1, <2>2, <2>3, <2>4, <2>5 DEF ClientStep
<1>2. CASE MainStep
  BY <1>a, <1>2 DEF MainStep, AllLaunched, Wait, Close, Return
<1>3. CASE AppendData \/ FinishDraining \/ UNCHANGED vars
  BY <1>a, <1>3 DEF AppendData, FinishDraining, vars
<1> QED
  BY <1>1, <1>2, <1>3 DEF Next

\* Every step keeps the count of wgCollection right, and what each wait of
\* runCollector has established.
LEMMA WaitStep == IInv /\ [Next]_vars => WaitInv'
<1> SUFFICES ASSUME IInv, [Next]_vars PROVE WaitInv'
  OBVIOUS
<1> USE CountStep DEF IInv, TypeOK, WaitInv, channelVars
<1>1. ASSUME NEW k \in Clients, ClientStep(k) PROVE WaitInv'
  <2>1. main \notin {"close", "drain", "returned"} /\ UNCHANGED main
    BY <1>1, Moves
  <2>2. UNCHANGED closed /\ (drainer' = drainer \/ drainer' = "append")
    BY <1>1 DEF ClientStep, Launch, Send, Receive, UpdateReturns, UpdatePanics,
                Ends, LockSelf, ReadSelf, StoreDuration, StoreSuccess, Done
  <2> QED
    BY <2>1, <2>2
<1>2. CASE AllLaunched
  BY <1>2 DEF AllLaunched
<1>3. CASE Wait
  <2>1. IsFiniteSet(Counted)
    BY CollectionAssumption, FS_Subset DEF Counted
  <2>2. Counted = {}
    BY <1>3, <2>1, FS_EmptySet DEF Wait, AllDone
  <2>3. \A k \in Clients : client[k] = "gone"
    BY <1>3, <2>2 DEF Wait, Counted, ClientsInv
  <2> QED
    BY <1>3, <2>3 DEF Wait
<1>4. CASE Close
  BY <1>4 DEF Close
<1>5. CASE Return
  BY <1>5 DEF Return, Drained
<1>6. CASE AppendData \/ FinishDraining \/ UNCHANGED vars
  BY <1>6 DEF AppendData, FinishDraining, vars
<1> QED
  BY <1>1, <1>2, <1>3, <1>4, <1>5, <1>6 DEF Next, MainStep

\* Every step keeps the drainer's data what has been sent, without repetition.
LEMMA DataStep == IInv /\ [Next]_vars => DataInv'
<1> SUFFICES ASSUME IInv, [Next]_vars PROVE DataInv'
  OBVIOUS
<1> USE DEF IInv, TypeOK, DataInv, channelVars
<1>1. ASSUME NEW k \in Clients, Receive(k) PROVE DataInv'
  <2>1. emitted[k] + 1 \in 1..MaxEmit
    BY <1>1, CollectionAssumption DEF Receive, Goes, ClientsInv
  <2>2. Sent' = Sent \cup {hand'} /\ hand' \notin Sent
    BY <1>1, <2>1 DEF Receive, Sent
  <2>3. InHand = {} /\ InHand' = {hand'}
    BY <1>1 DEF Receive, Receives, InHand
  <2> QED
    BY <1>1, <2>2, <2>3 DEF Receive
<1>2. CASE AppendData
  <2>1. hand \in Sent /\ hand \notin ToSet(data)
    BY <1>2 DEF AppendData, InHand
  <2>2. data \in Seq(Clients \X (1..MaxEmit)) /\ hand \in Clients \X (1..MaxEmit)
    BY <2>1 DEF Sent
  <2>3. IsInjective(data') /\ ToSet(data') = ToSet(data) \cup {hand}
    BY <1>2, <2>1, <2>2, AppendedSet, AppendedInjective DEF AppendData
  <2>4. InHand = {hand} /\ InHand' = {} /\ Sent' = Sent
    BY <1>2 DEF AppendData, InHand, Sent
  <2> QED
    BY <2>1, <2>3, <2>4
<1>3. CASE FinishDraining
  BY <1>3 DEF FinishDraining, InHand, Sent
<1>4. ASSUME UNCHANGED <<emitted, drainer, hand, data>> PROVE DataInv'
  BY <1>4 DEF InHand, Sent
<1> QED
  BY <1>1, <1>2, <1>3, <1>4 DEF Next, vars, ClientStep, MainStep, Launch, Send,
     UpdateReturns, UpdatePanics, Ends, LockSelf, ReadSelf, StoreDuration,
     StoreSuccess, Done, AllLaunched, Wait, Close, Return

\* The scrape metrics stored so far.
Stored == {m \in SelfMetric : client[m[1]] \in Past[m[2]]}

\* Every step keeps selfMu exclusive and self what has been stored under it.
LEMMA SelfStep == IInv /\ [Next]_vars => SelfInv'
<1> SUFFICES ASSUME IInv, [Next]_vars PROVE SelfInv'
  OBVIOUS
<1> USE DEF SelfInv
<1>1. SelfInv /\ ToSet(self) = Stored
  BY DEF IInv, Stored
<1>2. /\ client \in [Clients -> ClientState] /\ selfMu \in SUBSET Clients
      /\ read \in [Clients -> Seq(SelfMetric)] /\ self \in Seq(SelfMetric)
  BY DEF IInv, TypeOK
<1>3. ASSUME NEW k \in Clients, StoreDuration(k) PROVE SelfInv'
  <2>1. selfMu = {k} /\ read[k] = self /\ UNCHANGED <<selfMu, read>>
    BY <1>1, <1>2, <1>3 DEF StoreDuration, Goes, Holding
  <2>2. Stored' = Stored \cup {<<k, "duration">>} /\ <<k, "duration">> \notin Stored
    <3>1. \A l \in Clients : client'[l] = IF l = k THEN "readSuccess" ELSE client[l]
      BY <1>2, <1>3 DEF StoreDuration, Goes
    <3>2. client[k] = "storeDuration"
      BY <1>3 DEF StoreDuration, Goes
    <3> QED
      BY <3>1, <3>2 DEF Stored, SelfMetric, Past
  <2>3. <<k, "duration">> \in SelfMetric /\ self' = Append(self, <<k, "duration">>)
    BY <1>3, <2>1 DEF SelfMetric, StoreDuration
  <2>4. IsInjective(self') /\ ToSet(self') = Stored'
    <3> DEFINE m == <<k, "duration">>
    <3>1. IsInjective(self) /\ ToSet(self) = Stored
      BY <1>1
    <3>2. m \in SelfMetric /\ m \notin ToSet(self) /\ self \in Seq(SelfMetric)
      BY <1>2, <2>2, <2>3, <3>1
    <3>3. self' = Append(self, m) /\ Stored' = Stored \cup {m}
      BY <2>2, <2>3
    <3> HIDE DEF m, SelfInv
    <3> QED
      BY <3>1, <3>2, <3>3, AppendedSet, AppendedInjective
  <2>5. client' = [client EXCEPT ![k] = "readSuccess"] /\ client[k] = "storeDuration"
    BY <1>3 DEF StoreDuration, Goes
  <2> QED
    BY <1>1, <1>2, <2>1, <2>4, <2>5 DEF Holding, Stored
<1>4. ASSUME NEW k \in Clients, StoreSuccess(k) PROVE SelfInv'
  <2>1. selfMu = {k} /\ read[k] = self /\ selfMu' = {} /\ UNCHANGED read
    BY <1>1, <1>2, <1>4 DEF StoreSuccess, Goes, Holding, Released
  <2>2. Stored' = Stored \cup {<<k, "success">>} /\ <<k, "success">> \notin Stored
    <3>1. \A l \in Clients : client'[l] = IF l = k THEN "leaving" ELSE client[l]
      BY <1>2, <1>4 DEF StoreSuccess, Goes
    <3>2. client[k] = "storeSuccess"
      BY <1>4 DEF StoreSuccess, Goes
    <3> QED
      BY <3>1, <3>2 DEF Stored, SelfMetric, Past
  <2>3. <<k, "success">> \in SelfMetric /\ self' = Append(self, <<k, "success">>)
    BY <1>4, <2>1 DEF SelfMetric, StoreSuccess
  <2>4. IsInjective(self') /\ ToSet(self') = Stored'
    <3> DEFINE m == <<k, "success">>
    <3>1. IsInjective(self) /\ ToSet(self) = Stored
      BY <1>1
    <3>2. m \in SelfMetric /\ m \notin ToSet(self) /\ self \in Seq(SelfMetric)
      BY <1>2, <2>2, <2>3, <3>1
    <3>3. self' = Append(self, m) /\ Stored' = Stored \cup {m}
      BY <2>2, <2>3
    <3> HIDE DEF m, SelfInv
    <3> QED
      BY <3>1, <3>2, <3>3, AppendedSet, AppendedInjective
  <2>5. client' = [client EXCEPT ![k] = "leaving"] /\ client[k] = "storeSuccess"
    BY <1>4 DEF StoreSuccess, Goes
  <2> QED
    BY <1>1, <1>2, <2>1, <2>4, <2>5 DEF Holding, Stored
<1>5. ASSUME NEW k \in Clients, LockSelf(k) PROVE SelfInv'
  <2>1. Stored' = Stored
    BY <1>2, <1>5 DEF LockSelf, Goes, Stored, SelfMetric, Past
  <2> QED
    BY <1>1, <1>2, <1>5, <2>1 DEF LockSelf, MayLockSelf, Goes, Holding, Stored
<1>6. ASSUME NEW k \in Clients, ReadSelf(k) PROVE SelfInv'
  <2>1. Stored' = Stored
    BY <1>2, <1>6 DEF ReadSelf, Goes, Stored, SelfMetric, Past
  <2> QED
    BY <1>1, <1>2, <1>6, <2>1 DEF ReadSelf, Goes, Holding, Stored
<1>7. ASSUME NEW k \in Clients,
             Launch(k) \/ Send(k) \/ Receive(k) \/ UpdateReturns(k)
                \/ UpdatePanics(k) \/ Done(k)
      PROVE  SelfInv'
  <2>1. UNCHANGED selfVars
    BY <1>7 DEF Launch, Send, Receive, UpdateReturns, UpdatePanics, Ends, Done
  <2>2. PICK from \in {"absent", "updating", "sending", "leaving"},
             to \in {"updating", "sending", "lock", "gone"} :
                /\ Goes(k, from, to)
                /\ from = "leaving" <=> to = "gone"
    BY <1>7 DEF Launch, Send, Receive, UpdateReturns, UpdatePanics, Ends, Done
  <2>3. Stored' = Stored
    BY <1>2, <2>2 DEF Goes, Stored, SelfMetric, Past
  <2> QED
    BY <1>1, <1>2, <2>1, <2>2, <2>3 DEF Goes, Holding, Stored, selfVars
<1>8. ASSUME UNCHANGED <<client, selfVars>> PROVE SelfInv'
  BY <1>1, <1>8 DEF selfVars
<1> QED
  BY <1>3, <1>4, <1>5, <1>6, <1>7, <1>8 DEF Next, vars, ClientStep, MainStep,
     AllLaunched, Wait, Close, Return, AppendData, FinishDraining

\* Every step keeps the whole of it.
LEMMA InductiveStep == IInv /\ [Next]_vars => IInv'
  BY TypeStep, ClientsStep, WaitStep, DataStep, SelfStep DEF IInv

\* The inductive invariant holds of every collection.
LEMMA InvariantTheorem == Spec => []IInv
  BY InitInv, InductiveStep, PTL DEF Spec

-----------------------------------------------------------------------------
(* Properties.                                                             *)

\* The variables have their types.
THEOREM TypeCorrect == Spec => []TypeOK
<1>1. IInv => TypeOK
  BY DEF IInv
<1> QED
  BY <1>1, InvariantTheorem, PTL

\* Nobody sends on the closed channel.
THEOREM NoSendTheorem == Spec => []NoSendOnClosed
<1>1. IInv => NoSendOnClosed
  BY DEF IInv, WaitInv, NoSendOnClosed
<1> QED
  BY <1>1, InvariantTheorem, PTL

\* What is handed over once every client is gone.
LEMMA ReturnedIsWhole ==
  ASSUME IInv, main = "returned" \/ (main = "drain" /\ drainer = "finished")
  PROVE  /\ IsInjective(data) /\ ToSet(data) = Sent
         /\ IsInjective(self) /\ ToSet(self) = SelfMetric
         /\ \A k \in Clients : client[k] = "gone"
         /\ ~failed <=> \A k \in Clients : outcome[k] = "nil"
<1>1. \A k \in Clients : client[k] = "gone" /\ drainer = "finished"
  BY DEF IInv, WaitInv
<1>2. IsInjective(data) /\ ToSet(data) = Sent
  BY <1>1 DEF IInv, WaitInv, DataInv, InHand
<1>3. IsInjective(self) /\ ToSet(self) = SelfMetric
  BY <1>1 DEF IInv, SelfInv, SelfMetric, Past
<1>4. ~failed <=> \A k \in Clients : outcome[k] = "nil"
  BY <1>1 DEF IInv, TypeOK, ClientsInv
<1> QED
  BY <1>1, <1>2, <1>3, <1>4

\* There are two scrape metrics for each client.
LEMMA TwoForEach == Cardinality(SelfMetric) = 2 * Cardinality(Clients)
<1> DEFINE Kinds == {"duration", "success"}
<1>1. IsFiniteSet(Kinds) /\ Cardinality(Kinds) = 2
  <2>1. IsFiniteSet({"duration"}) /\ Cardinality({"duration"}) = 1
    BY FS_Singleton
  <2>2. Kinds = {"duration"} \cup {"success"} /\ "success" \notin {"duration"}
    OBVIOUS
  <2>3. /\ IsFiniteSet({"duration"} \cup {"success"})
        /\ Cardinality({"duration"} \cup {"success"}) = 1 + 1
    BY <2>1, <2>2, FS_AddElement
  <2> QED
    BY <2>2, <2>3
<1>2. IsFiniteSet(Clients) /\ Cardinality(Clients) \in Nat
  BY CollectionAssumption, FS_CardinalityType
<1>3. SelfMetric = Clients \X Kinds
  BY DEF SelfMetric
<1> HIDE DEF Kinds
<1>4. Cardinality(Clients \X Kinds) = Cardinality(Clients) * 2
  BY <1>1, <1>2, FS_Product
<1> QED
  BY <1>2, <1>3, <1>4

\* What runCollector returns is complete, without repetitions, and final.
THEOREM CompleteTheorem == Spec => []ResultIsComplete
<1>1. ASSUME IInv, main = "returned"
      PROVE  /\ Len(data) = Cardinality(Sent) /\ ToSet(data) = Sent
             /\ Len(self) = 2 * Cardinality(Clients) /\ ToSet(self) = SelfMetric
             /\ ok <=> \A k \in Clients : outcome[k] = "nil"
  <2>1. data \in Seq(Clients \X (1..MaxEmit)) /\ self \in Seq(SelfMetric)
    BY <1>1 DEF IInv, TypeOK
  <2>2. ok <=> ~failed
    BY <1>1 DEF IInv, WaitInv
  <2> QED
    BY <1>1, <2>1, <2>2, ReturnedIsWhole, InjectiveLength, TwoForEach
<1>2. IInv => ResultIsComplete
  BY <1>1 DEF ResultIsComplete
<1> QED
  BY <1>2, InvariantTheorem, PTL

-----------------------------------------------------------------------------
(* Collection implements Gathering.                                        *)

\* Until runCollector returns there is no result.
LEMMA NoResultYet ==
  ASSUME main # "returned", main' # "returned",
         UNCHANGED <<emitted, outcome>>
  PROVE  UNCHANGED Promise!vars
  BY DEF Promise!vars, Report

\* The return is the hand-over of everything contributed.
LEMMA ReturnHandsOver == IInv /\ Return => Promise!HandOver
<1> SUFFICES ASSUME IInv, Return PROVE Promise!HandOver
  OBVIOUS
<1> USE DEF Return
<1>1. main = "drain" /\ drainer = "finished"
  BY DEF Drained
<1>2. /\ IsInjective(data) /\ ToSet(data) = Sent
      /\ IsInjective(self) /\ ToSet(self) = SelfMetric
      /\ \A k \in Clients : client[k] = "gone"
      /\ ~failed <=> \A k \in Clients : outcome[k] = "nil"
  BY <1>1, ReturnedIsWhole
<1>3. data \in Seq(Clients \X (1..MaxEmit)) /\ self \in Seq(SelfMetric)
  BY DEF IInv, TypeOK
<1>4. ToBag(data) = SetToBag(Sent) /\ ToBag(self) = SetToBag(SelfMetric)
  BY <1>2, <1>3, InjectiveBag
<1>5. Sent = UNION {{k} \X (1..emitted[k]) : k \in Clients}
  <2>1. \A k \in Clients : emitted[k] \in 0..MaxEmit
    BY DEF IInv, TypeOK
  <2> QED
    BY <2>1, CollectionAssumption DEF Sent
<1> DEFINE reported == [k \in Clients |-> Report(k)]
<1>6. \A k \in Clients : /\ Report(k) # "none"
                         /\ Report(k) = "nil" <=> outcome[k] = "nil"
  BY <1>2 DEF IInv, ClientsInv, Report
<1>7. ok' <=> \A k \in Clients : outcome[k] = "nil"
  BY <1>2
<1>8. UNCHANGED <<data, self, emitted, outcome>> /\ main' = "returned"
  BY DEF channelVars, selfVars
<1>9. [data |-> ToBag(data'), self |-> ToBag(self'), ok |-> ok']
        = [data |-> Promise!SetToBag(UNION {{k} \X (1..emitted[k]) : k \in Clients}),
           self |-> Promise!SetToBag(Clients \X {"duration", "success"}),
           ok |-> \A k \in Clients : reported[k] = "nil"]
  BY <1>4, <1>5, <1>6, <1>7, <1>8 DEF SelfMetric, SetToBag, Promise!SetToBag
<1>10. UNCHANGED reported
  BY <1>8 DEF Report
<1>11. \A k \in Clients : reported[k] # "none"
  BY <1>6
<1> HIDE DEF reported
<1> DEFINE whole == [data |-> ToBag(data), self |-> ToBag(self), ok |-> ok]
<1>12. whole' = [data |-> Promise!SetToBag(UNION {{k} \X (1..emitted[k]) :
                                                   k \in Clients}),
                 self |-> Promise!SetToBag(Clients \X {"duration", "success"}),
                 ok |-> \A k \in Clients : reported[k] = "nil"]
  BY <1>9
<1> HIDE DEF whole
<1>13. /\ main # "returned" /\ main' = "returned" /\ UNCHANGED emitted
  BY <1>1, <1>8
<1> QED
  BY <1>10, <1>11, <1>12, <1>13 DEF Promise!HandOver, reported, whole

\* A step of a client is what Gathering calls a contribution or a report, or nothing.
LEMMA ClientStepMaps ==
  ASSUME IInv, NEW k \in Clients, ClientStep(k)
  PROVE  [Promise!Next]_Promise!vars
<1>1. main # "returned" /\ main' # "returned"
  BY Moves DEF IInv, WaitInv
<1>2. /\ emitted \in [Clients -> 0..MaxEmit]
      /\ outcome \in [Clients -> {"none", "nil", "error", "panic"}]
      /\ client[k] \in {"updating", "sending"} => outcome[k] = "none"
  BY DEF IInv, TypeOK, ClientsInv
<1>3. CASE Receive(k)
  <2>1. Promise!Contribute(k)
    <3>1. /\ outcome[k] = "none" /\ outcome' = outcome
          /\ emitted' = [emitted EXCEPT ![k] = @ + 1]
      BY <1>2, <1>3 DEF Receive, Goes
    <3>2. \A c \in Clients : Report(c)' = Report(c)
      BY <3>1 DEF Report
    <3>3. Report(k) = "none"
      BY <3>1 DEF Report
    <3> QED
      BY <1>1, <3>1, <3>2, <3>3 DEF Promise!Contribute
  <2> QED
    BY <2>1 DEF Promise!Next
<1>4. CASE UpdateReturns(k) \/ UpdatePanics(k)
  <2>1. PICK how \in {"nil", "error", "panic"} :
           Ends(k, how, IF how = "nil" THEN "nil" ELSE "error")
    BY <1>4, UpdateEnds
  <2>2. /\ outcome[k] = "none" /\ outcome' = [outcome EXCEPT ![k] = how]
        /\ emitted' = emitted
    BY <1>2, <2>1 DEF Ends, Goes
  <2> DEFINE reported == [c \in Clients |-> Report(c)]
             told == IF how = "panic" THEN "error" ELSE how
  <2>3. reported[k] = "none" /\ reported' = [reported EXCEPT ![k] = told]
    BY <1>2, <2>2 DEF Report
  <2>4. Promise!Report(k)
    BY <1>1, <2>2, <2>3 DEF Promise!Report
  <2> QED
    BY <2>4 DEF Promise!Next
<1>5. CASE ~Receive(k) /\ ~UpdateReturns(k) /\ ~UpdatePanics(k)
  <2>1. UNCHANGED <<emitted, outcome>>
    BY <1>5 DEF ClientStep, Launch, Send, LockSelf, ReadSelf, StoreDuration,
                StoreSuccess, Done
  <2> QED
    BY <1>1, <2>1, NoResultYet
<1> QED
  BY <1>3, <1>4, <1>5

\* Every step of runCollector is a step of what it promises refresh, or none:
\* the sends contribute, the ends of Update report, the return hands over.
LEMMA StepMaps == IInv /\ [Next]_vars => [Promise!Next]_Promise!vars
<1> SUFFICES ASSUME IInv, [Next]_vars PROVE [Promise!Next]_Promise!vars
  OBVIOUS
<1>1. CASE \E k \in Clients : ClientStep(k)
  BY <1>1, ClientStepMaps
<1>2. CASE AllLaunched \/ Wait \/ Close
  BY <1>2, NoResultYet DEF AllLaunched, Wait, Close
<1>3. CASE Return
  BY <1>3, ReturnHandsOver DEF Promise!Next
<1>4. CASE AppendData \/ FinishDraining
  <2>1. main # "returned" /\ UNCHANGED <<main, emitted, outcome>>
    BY <1>4 DEF IInv, WaitInv, AppendData, FinishDraining
  <2> QED
    BY <2>1, NoResultYet
<1>5. CASE UNCHANGED vars
  BY <1>5 DEF vars, channelVars, selfVars, Promise!vars, Report
<1> QED
  BY <1>1, <1>2, <1>3, <1>4, <1>5 DEF Next, MainStep

\* Channel, drainer, wait group and mutexes implement the one step of Gathering.
THEOREM HandOverTheorem == Spec => HandsOverAtOnce
<1>1. Init => Promise!Init
  BY DEF Init, Promise!Init, Report
<1> QED
  BY <1>1, StepMaps, InvariantTheorem, PTL DEF Spec, HandsOverAtOnce, Promise!Spec
=============================================================================
