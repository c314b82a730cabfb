---------------------------- MODULE StartupProofs ---------------------------
(***************************************************************************)
(* Proofs about Startup for any configurations, collectors and defaults:   *)
(* its type invariant, that what serves can collect, that operations are   *)
(* bounded, and that flags win.                                            *)
(***************************************************************************)
EXTENDS Startup, SequenceTheorems, TLAPS

Given(s) == cfg.given[s]

\* What the files and the flags come to.
WantedSetting(s) == Over(Given(s), "flag", FromFile(s))
WantedEnabled ==
    Over(cfg.collectors, "flag", Over(cfg.collectors, "file", DefaultEnabled))
WantedRealms == IF cfg.realmsConfig = "given" THEN cfg.realms ELSE <<>>

\* The stages, by what is known once they are reached.
Overridden == {"logger", "rados", "readConfig", "opTimeouts", "connect", "clients",
               "collectors", "start", "serve"}
HasClients == {"collectors", "start", "serve"}

\* What has been read, and what has been made of it.
LoadInv ==
    /\ pc = "flags" => enabled = DefaultEnabled
    /\ pc \in {"config", "realms", "overrides"} =>
          enabled = Over(cfg.collectors, "flag", DefaultEnabled)
    /\ pc \in {"realms", "overrides"} =>
          settings = [s \in Settings |-> FromFile(s)]
    /\ pc \in {"overrides"} \cup Overridden => cfg.realmsConfig # "malformed"
    /\ pc \in Overridden =>
          /\ settings = [s \in Settings |-> WantedSetting(s)]
          /\ enabled = WantedEnabled

Pending == {unset[n] : n \in DOMAIN unset}

\* How far the connection is, and which options have been looked at.
RadosInv ==
    /\ pc \in {"readConfig", "opTimeouts", "connect"} => NeedsRados
    /\ pc \in {"clients"} \cup HasClients => (radosConn <=> NeedsRados)
    /\ radosConn => conn = "connected" /\ pc \in {"clients", "exited"} \cup HasClients
    /\ pc = "connect" => unset = <<>>
    /\ pc \in {"opTimeouts", "connect"} \/ radosConn =>
          \A o \in DOMAIN option :
             /\ IsBound(preset[o]) => option[o] = preset[o]
             /\ WantedSetting("opTimeout") > 0 /\ (radosConn \/ o \notin Pending) =>
                   IsBound(option[o])

\* The realms that have got their client.
Added == Len(WantedRealms) - Len(realms)

\* No later realm up to the n-th has the name of the m-th.
LastOfName(m, n) == \A l \in (m+1)..n : WantedRealms[l].name # WantedRealms[m].name

\* The clients are those of the realms added, each of the last of its name.
ClientsOf(n) ==
    /\ DOMAIN clients = {WantedRealms[m].name : m \in 1..n}
    /\ \A m \in 1..n : LastOfName(m, n) =>
          clients[WantedRealms[m].name] = RealmClient(WantedRealms[m])
    /\ \A c \in DOMAIN clients : clients[c].rados = radosConn

ClientsInv ==
    /\ pc \in {"flags", "config", "realms"} => clients = NoClients
    /\ pc \in {"overrides", "logger", "rados", "readConfig", "opTimeouts",
               "connect"} =>
          clients = NoClients /\ realms = WantedRealms
    /\ pc = "clients" =>
          /\ Len(realms) <= Len(WantedRealms)
          /\ \A m \in 1..Len(realms) : realms[m] = WantedRealms[Added + m]
          /\ ClientsOf(Added)
    /\ pc \in HasClients =>
          IF WantedRealms = <<>>
          THEN /\ DOMAIN clients = {DefaultClient}
               /\ clients[DefaultClient].rados = radosConn
          ELSE ClientsOf(Len(WantedRealms))

RunInv ==
    /\ pc \in {"start", "serve"} => built = enabled
    /\ pc = "serve" => interval = [c \in built |-> IntervalFor(c)]

IInv == TypeOK /\ cfg \in Configs /\ LoadInv /\ RadosInv /\ ClientsInv /\ RunInv

-----------------------------------------------------------------------------
(* What a configuration is made of.                                        *)

\* A partial function has values of its type.
LEMMA PartialType ==
  ASSUME NEW S, NEW T, NEW f \in PartialTo(S, T), NEW x \in DOMAIN f
  PROVE  f[x] \in T
  BY DEF PartialTo

\* What goes over a value of a type has that type.
LEMMA OverType ==
  ASSUME NEW S, NEW T, NEW f \in PartialTo(S, T), NEW below \in T, NEW source
  PROVE  Over(f, source, below) \in T
  BY PartialType DEF Over

\* The parts of a configuration that files and flags may give.
LEMMA ConfigTypes ==
  ASSUME cfg \in Configs
  PROVE  /\ cfg.config \in File /\ cfg.realmsConfig \in File
         /\ cfg.collectors \in PartialTo(Source, SUBSET Collectors)
         /\ cfg.realms \in Seq(Realm)
         /\ \A s \in Settings : Given(s) \in PartialTo(Source, Times)
         /\ "flag" \notin DOMAIN Given("opTimeout")
         /\ \A source \in Source :
               cfg.intervals[source] \in PartialTo(Collectors, Times)
<1>1. cfg \in Configuration
  BY StartupAssumption
<1>2. cfg.realms \in UNION {[1..n -> Realm] : n \in 0..MaxRealms}
  BY <1>1 DEF Configuration
<1>3. PICK n \in 0..MaxRealms : cfg.realms \in [1..n -> Realm]
  BY <1>2
<1>4. cfg.realms \in Seq(Realm)
  BY <1>3, StartupAssumption, SeqDef
<1>5. /\ cfg.given \in [Settings -> PartialTo(Source, Times)]
      /\ "flag" \notin DOMAIN cfg.given["opTimeout"]
  BY <1>1 DEF Configuration
<1>6. /\ cfg.config \in File /\ cfg.realmsConfig \in File
      /\ cfg.collectors \in PartialTo(Source, SUBSET Collectors)
      /\ cfg.intervals \in [Source -> PartialTo(Collectors, Times)]
  BY <1>1 DEF Configuration
<1> QED
  BY <1>4, <1>5, <1>6 DEF Given

\* Settings, collectors and intervals have a value of their type, whichever layers
\* are there.
LEMMA LayerTypes ==
  ASSUME cfg \in Configs, settings \in [Settings -> Times]
  PROVE  /\ \A s \in Settings : FromFile(s) \in Times /\ WantedSetting(s) \in Times
         /\ WantedEnabled \in SUBSET Collectors
         /\ WantedRealms \in Seq(Realm)
         /\ \A c \in Factories : Resolved(c) \in Times
         /\ \A c \in Factories : IntervalFor(c) \in Times \cup {MinInterval}
<1>1. \A s \in Settings : FromFile(s) \in Times
  BY ConfigTypes, StartupAssumption, OverType DEF FromFile, Given
<1>2. \A s \in Settings : WantedSetting(s) \in Times
  BY <1>1, ConfigTypes, OverType DEF WantedSetting
<1>3. WantedEnabled \in SUBSET Collectors
  <2>1. DefaultEnabled \in SUBSET Collectors
    BY StartupAssumption
  <2>2. Over(cfg.collectors, "file", DefaultEnabled) \in SUBSET Collectors
    BY <2>1, ConfigTypes, OverType
  <2> QED
    BY <2>2, ConfigTypes, OverType DEF WantedEnabled
<1>4. WantedRealms \in Seq(Realm)
  BY ConfigTypes DEF WantedRealms
<1>5. \A c \in Factories : Resolved(c) \in Times
  <2> SUFFICES ASSUME NEW c \in Factories PROVE Resolved(c) \in Times
    OBVIOUS
  <2>1. 0 \in Times /\ cfg.intervals["file"] \in PartialTo(Collectors, Times)
        /\ cfg.intervals["flag"] \in PartialTo(Collectors, Times)
    BY ConfigTypes, StartupAssumption DEF Source
  <2>2. Over(cfg.intervals["file"], c, 0) \in Times
    BY <2>1, OverType
  <2> QED
    BY <2>1, <2>2, OverType DEF Resolved
<1>6. \A c \in Factories : IntervalFor(c) \in Times \cup {MinInterval}
  BY <1>5 DEF IntervalFor, Settings
<1> QED
  BY <1>1, <1>2, <1>3, <1>4, <1>5, <1>6

-----------------------------------------------------------------------------
(* IInv is inductive.                                                      *)

\* Before main has read anything, the invariant holds.
LEMMA InitInv == Init => IInv
<1> SUFFICES ASSUME Init PROVE IInv
  OBVIOUS
<1> USE StartupAssumption DEF Init
<1>1. TypeOK
  <2>1. settings \in [Settings -> Times] /\ enabled \in SUBSET Collectors
    OBVIOUS
  <2>2. /\ option \in [DOMAIN Unlimited -> OptionValue]
        /\ preset \in [DOMAIN Unlimited -> OptionValue]
    BY DEF Unlimited, OptionValue
  <2>3. unset \in Seq(DOMAIN Unlimited) /\ realms \in Seq(Realm)
    OBVIOUS
  <2>4. /\ clients \in [DOMAIN clients -> Client]
        /\ DOMAIN clients \subseteq RealmNames \cup {DefaultClient}
    BY DEF NoClients
  <2>5. /\ interval \in [DOMAIN interval -> Times \cup {MinInterval}]
        /\ DOMAIN interval \subseteq Factories
    OBVIOUS
  <2> QED
    BY <2>1, <2>2, <2>3, <2>4, <2>5 DEF TypeOK
<1>2. LoadInv /\ RunInv
  BY DEF LoadInv, RunInv, Overridden
<1>3. RadosInv
  BY DEF RadosInv, HasClients
<1>4. ClientsInv
  BY DEF ClientsInv, HasClients
<1> QED
  BY <1>1, <1>2, <1>3, <1>4 DEF IInv

\* Every step of main keeps the types, and the configuration as it was given.
LEMMA TypeStep == IInv /\ [Next]_vars => TypeOK' /\ (cfg \in Configs)'
<1> SUFFICES ASSUME IInv, [Next]_vars PROVE TypeOK' /\ (cfg \in Configs)'
  OBVIOUS
<1>1. cfg \in Configs /\ TypeOK
  BY DEF IInv
<1>2. (cfg \in Configs)'
  BY <1>1 DEF Next, vars, Refuse, ParseFlags, LoadConfig, LoadRealms, LoadFails,
     ApplyFlagOverrides, BuildLogger, Fatal, SkipRados, NewConn, ReadConfig,
     SetOpTimeout, OpTimeoutsSet, Connect, AddRealm, RealmsAdded, LoadCollectors,
     StartRefreshers, ServeFails, Goes, Exits
<1> USE DEF TypeOK, Goes
<1>3. CASE ParseFlags
  <2>1. enabled' \in SUBSET Collectors
    BY <1>1, <1>3, ConfigTypes, StartupAssumption, OverType DEF ParseFlags
  <2> QED
    BY <1>1, <1>3, <2>1 DEF ParseFlags, connVars, runVars
<1>4. CASE LoadConfig
  <2>1. settings' \in [Settings -> Times]
    BY <1>1, <1>4, LayerTypes DEF LoadConfig
  <2> QED
    BY <1>1, <1>4, <2>1 DEF LoadConfig, connVars, runVars
<1>5. CASE LoadRealms
  <2>1. realms' \in Seq(Realm)
    BY <1>1, <1>5, ConfigTypes DEF LoadRealms
  <2> QED
    BY <1>1, <1>5, <2>1 DEF LoadRealms, loadVars, connVars, runVars
<1>6. CASE ApplyFlagOverrides
  <2>1. enabled' \in SUBSET Collectors
    BY <1>1, <1>6, ConfigTypes, OverType DEF ApplyFlagOverrides, Enabled
  <2>2. settings' \in [Settings -> Times]
    BY <1>1, <1>6, ConfigTypes, OverType DEF ApplyFlagOverrides, Given
  <2> QED
    BY <1>1, <1>6, <2>1, <2>2 DEF ApplyFlagOverrides, connVars, runVars
<1>7. CASE BuildLogger \/ SkipRados \/ OpTimeoutsSet
  BY <1>1, <1>7 DEF BuildLogger, SkipRados, OpTimeoutsSet, loadVars, connVars, runVars
<1>8. CASE NewConn \/ Connect
  BY <1>1, <1>8 DEF NewConn, Connect, loadVars, runVars
<1>9. CASE ReadConfig
  <2>1. unset' \in Seq(DOMAIN Unlimited)
    <3>1. Options \in Seq(DOMAIN Unlimited)
      BY DEF Options, Unlimited
    <3>2. <<>> \in Seq(DOMAIN Unlimited)
      OBVIOUS
    <3>3. unset' \in {<<>>, Options}
      BY <1>9 DEF ReadConfig
    <3> QED
      BY <3>1, <3>2, <3>3
  <2> QED
    BY <1>1, <1>9, <2>1 DEF ReadConfig, loadVars, runVars
<1>10. CASE SetOpTimeout
  <2>1. Head(unset) \in DOMAIN Unlimited /\ unset' \in Seq(DOMAIN Unlimited)
    BY <1>1, <1>10 DEF SetOpTimeout
  <2>2. Bounded(Head(unset)) \in OptionValue
    BY <1>1, <2>1 DEF Bounded, Settings, OptionValue
  <2>3. option' \in [DOMAIN Unlimited -> OptionValue]
    BY <1>1, <1>10, <2>1, <2>2 DEF SetOpTimeout
  <2> QED
    BY <1>1, <1>10, <2>1, <2>3 DEF SetOpTimeout, loadVars, runVars
<1>11. CASE AddRealm
  <2>1. Head(realms) \in Realm /\ realms' \in Seq(Realm)
    BY <1>1, <1>11 DEF AddRealm
  <2>2. RealmClient(Head(realms)) \in Client /\ Head(realms).name \in RealmNames
    BY <1>1, <2>1 DEF RealmClient, Client, Realm
  <2>3. /\ clients' \in [DOMAIN clients' -> Client]
        /\ DOMAIN clients' \subseteq RealmNames \cup {DefaultClient}
    BY <1>1, <1>11, <2>2 DEF AddRealm, With
  <2> QED
    BY <1>1, <1>11, <2>1, <2>3 DEF AddRealm, loadVars, connVars, runVars
<1>12. CASE RealmsAdded
  <2>1. [realm |-> FALSE, skipTLS |-> FALSE, rados |-> radosConn] \in Client
    BY <1>1 DEF Client
  <2>2. /\ clients' \in [DOMAIN clients' -> Client]
        /\ DOMAIN clients' \subseteq RealmNames \cup {DefaultClient}
    BY <1>1, <1>12, <2>1 DEF RealmsAdded, OrDefault, With
  <2> QED
    BY <1>1, <1>12, <2>2 DEF RealmsAdded, loadVars, connVars, runVars
<1>13. CASE LoadCollectors
  BY <1>1, <1>13 DEF LoadCollectors, Available, loadVars, connVars
<1>14. CASE StartRefreshers
  <2>1. interval' \in [built -> Times \cup {MinInterval}]
    BY <1>1, <1>14, LayerTypes DEF StartRefreshers
  <2> QED
    BY <1>1, <1>14, <2>1 DEF StartRefreshers, loadVars, connVars
<1>15. ASSUME Refuse \/ LoadFails \/ Fatal \/ ServeFails PROVE TypeOK'
  <2>1. pc' = "exited" /\ status' \in {<<0>>, <<1>>, <<2>>}
        /\ UNCHANGED <<loadVars, connVars, realms, clients, runVars>>
    BY <1>15 DEF Refuse, LoadFails, Fatal, ServeFails, Exits
  <2> QED
    BY <1>1, <2>1 DEF loadVars, connVars, runVars
<1>16. CASE UNCHANGED vars
  BY <1>1, <1>16 DEF vars, loadVars, connVars, runVars
<1> QED
  BY <1>2, <1>3, <1>4, <1>5, <1>6, <1>7, <1>8, <1>9, <1>10, <1>11, <1>12, <1>13,
     <1>14, <1>15, <1>16 DEF Next

\* The steps after which the process is no more, or goes on with nothing changed.
LEMMA ExitSteps ==
  ASSUME IInv, Refuse \/ LoadFails \/ Fatal \/ ServeFails
  PROVE  /\ pc' = "exited"
         /\ UNCHANGED <<cfg, loadVars, connVars, realms, clients, runVars>>
  BY DEF Refuse, LoadFails, Fatal, ServeFails, Exits

\* Every step keeps what has been loaded what the layers come to so far.
LEMMA LoadStep == IInv /\ [Next]_vars => LoadInv'
<1> SUFFICES ASSUME IInv, [Next]_vars PROVE LoadInv'
  OBVIOUS
<1>1. LoadInv /\ TypeOK /\ cfg \in Configs
  BY DEF IInv
<1> USE DEF LoadInv, Overridden, Goes
<1>2. CASE ParseFlags
  BY <1>1, <1>2 DEF ParseFlags
<1>3. CASE LoadConfig
  BY <1>1, <1>3 DEF LoadConfig, FromFile
<1>4. CASE LoadRealms
  BY <1>1, <1>4 DEF LoadRealms, loadVars, Tolerated, FromFile
<1>5. CASE ApplyFlagOverrides
  <2>1. settings' = [s \in Settings |-> WantedSetting(s)]
    BY <1>1, <1>5 DEF ApplyFlagOverrides, WantedSetting, Given
  <2>2. enabled' = WantedEnabled
    BY <1>1, <1>5 DEF ApplyFlagOverrides, Enabled, WantedEnabled, Over
  <2>3. /\ WantedEnabled' = WantedEnabled
        /\ \A s \in Settings : WantedSetting(s)' = WantedSetting(s)
    BY <1>5 DEF ApplyFlagOverrides, WantedEnabled, WantedSetting, Given, FromFile, Over
  <2> QED
    BY <1>1, <1>5, <2>1, <2>2, <2>3 DEF ApplyFlagOverrides
<1>6. ASSUME UNCHANGED <<cfg, loadVars>>, pc' \in Overridden => pc \in Overridden,
             pc' \in Overridden \cup {"exited"} \/ UNCHANGED pc
      PROVE  LoadInv'
  <2>1. /\ WantedEnabled' = WantedEnabled
        /\ \A s \in Settings : WantedSetting(s)' = WantedSetting(s)
                               /\ FromFile(s)' = FromFile(s)
    BY <1>6 DEF WantedEnabled, WantedSetting, Given, FromFile, Over
  <2> QED
    BY <1>1, <1>6, <2>1 DEF loadVars
<1>7. CASE Refuse \/ LoadFails \/ Fatal \/ ServeFails
  BY <1>6, <1>7, ExitSteps
<1>8. CASE BuildLogger \/ SkipRados \/ NewConn \/ ReadConfig \/ SetOpTimeout
           \/ OpTimeoutsSet \/ Connect
  BY <1>6, <1>8 DEF BuildLogger, SkipRados, NewConn, ReadConfig, SetOpTimeout,
     OpTimeoutsSet, Connect
<1>9. CASE AddRealm \/ RealmsAdded \/ LoadCollectors \/ StartRefreshers
  BY <1>6, <1>9 DEF AddRealm, RealmsAdded, LoadCollectors, StartRefreshers
<1>10. CASE UNCHANGED vars
  BY <1>6, <1>10 DEF vars
<1> QED
  BY <1>2, <1>3, <1>4, <1>5, <1>7, <1>8, <1>9, <1>10 DEF Next

\* Every step keeps the collectors built those enabled, at their interval.
LEMMA RunStep == IInv /\ [Next]_vars => RunInv'
<1> SUFFICES ASSUME IInv, [Next]_vars PROVE RunInv'
  OBVIOUS
<1>1. RunInv /\ TypeOK
  BY DEF IInv
<1> USE DEF RunInv, Goes
<1>2. CASE LoadCollectors
  BY <1>2 DEF LoadCollectors, loadVars
<1>3. CASE StartRefreshers
  <2>1. \A c \in built : IntervalFor(c)' = IntervalFor(c)
    BY <1>3 DEF StartRefreshers, IntervalFor, Resolved, Over, loadVars
  <2> QED
    BY <1>1, <1>3, <2>1 DEF StartRefreshers, loadVars
<1>4. CASE Refuse \/ LoadFails \/ Fatal \/ ServeFails
  BY <1>4, ExitSteps
<1>5. CASE ParseFlags \/ LoadConfig \/ LoadRealms \/ ApplyFlagOverrides
           \/ BuildLogger \/ SkipRados \/ NewConn \/ ReadConfig
  BY <1>5 DEF ParseFlags, LoadConfig, LoadRealms, ApplyFlagOverrides, BuildLogger,
     SkipRados, NewConn, ReadConfig
<1>6. CASE SetOpTimeout \/ OpTimeoutsSet \/ Connect \/ AddRealm \/ RealmsAdded
  BY <1>6 DEF SetOpTimeout, OpTimeoutsSet, Connect, AddRealm, RealmsAdded
<1>7. CASE UNCHANGED vars
  <2>1. \A c \in built : IntervalFor(c)' = IntervalFor(c)
    BY <1>7 DEF vars, IntervalFor, Resolved, Over, loadVars
  <2> QED
    BY <1>1, <1>7, <2>1 DEF vars, loadVars, runVars
<1> QED
  BY <1>2, <1>3, <1>4, <1>5, <1>6, <1>7 DEF Next

\* Looking at an option takes it, and nothing else, off the list.
LEMMA PendingTail ==
  ASSUME NEW T, unset \in Seq(T), unset # <<>>, unset' = Tail(unset)
  PROVE  Pending \subseteq Pending' \cup {Head(unset)} /\ Head(unset) \in Pending
<1>1. Len(unset) \in Nat \ {0} /\ DOMAIN unset = 1..Len(unset)
  OBVIOUS
<1>2. DOMAIN unset' = 1..(Len(unset) - 1)
  BY <1>1
<1>3. \A n \in 1..(Len(unset) - 1) : unset'[n] = unset[n + 1]
  BY <1>1
<1>4. Head(unset) = unset[1]
  OBVIOUS
<1>5. ASSUME NEW n \in DOMAIN unset, n # 1 PROVE unset[n] \in Pending'
  <2>1. n - 1 \in 1..(Len(unset) - 1) /\ unset'[n - 1] = unset[n]
    BY <1>1, <1>3, <1>5
  <2> QED
    BY <1>2, <2>1 DEF Pending
<1> QED
  BY <1>1, <1>4, <1>5 DEF Pending

\* Every step keeps the connection as far as main has brought it, and each
\* librados option that has been looked at bounded.
LEMMA RadosStep == IInv /\ [Next]_vars => RadosInv'
<1> SUFFICES ASSUME IInv, [Next]_vars PROVE RadosInv'
  OBVIOUS
<1>1. RadosInv /\ LoadInv /\ TypeOK
  BY DEF IInv
<1>2. \A w \in Int : w > 0 => IsBound(w)
  BY StartupAssumption DEF IsBound
<1>3. pc \in Overridden => settings["opTimeout"] = WantedSetting("opTimeout")
  BY <1>1 DEF LoadInv, Settings
<1> DEFINE W == WantedSetting("opTimeout")
<1>4. ASSUME UNCHANGED cfg PROVE W' = W
  BY <1>4 DEF WantedSetting, Given, FromFile, Over
<1> HIDE DEF W
<1> USE DEF Goes
<1>5. CASE ReadConfig
  <2>1. ~radosConn /\ ~radosConn' /\ NeedsRados'
    BY <1>1, <1>5 DEF ReadConfig, RadosInv, HasClients, NeedsRados, loadVars
  <2>2. pc' = "opTimeouts" /\ preset' = option' /\ W' = W
    BY <1>4, <1>5 DEF ReadConfig
  <2>3. DOMAIN option' = DOMAIN Unlimited
    BY <1>5 DEF ReadConfig
  <2>4. W > 0 => Pending' = DOMAIN Unlimited
    <3>1. settings["opTimeout"] = W /\ W \in Int
      BY <1>1, <1>3, <1>5, StartupAssumption
         DEF ReadConfig, W, Overridden, TypeOK, Settings
    <3>2. W > 0 => unset' = Options
      BY <1>5, <3>1 DEF ReadConfig
    <3>3. QED
      BY <3>2 DEF Options, Pending, Unlimited
  <2> QED
    BY <2>1, <2>2, <2>3, <2>4 DEF RadosInv, HasClients, W
<1>6. CASE SetOpTimeout
  <2>1. pc = "opTimeouts" /\ pc' = "opTimeouts" /\ ~radosConn /\ ~radosConn'
    BY <1>1, <1>6 DEF SetOpTimeout, RadosInv, HasClients
  <2>2. NeedsRados' /\ W' = W /\ preset' = preset
    BY <1>1, <1>4, <1>6 DEF SetOpTimeout, RadosInv, NeedsRados, loadVars
  <2>3. option' = [option EXCEPT ![Head(unset)] = Bounded(Head(unset))]
    BY <1>6 DEF SetOpTimeout
  <2>4. Pending \subseteq Pending' \cup {Head(unset)} /\ Head(unset) \in Pending
    BY <1>1, <1>6, PendingTail DEF SetOpTimeout, TypeOK
  <2>5. settings["opTimeout"] = W /\ W \in Int
    BY <1>1, <1>3, <2>1, StartupAssumption DEF W, Overridden, TypeOK, Settings
  <2>6. ASSUME NEW o \in DOMAIN option
        PROVE  /\ IsBound(preset[o]) => option'[o] = preset[o]
               /\ W > 0 /\ o \notin Pending' => IsBound(option'[o])
    <3>1. /\ IsBound(preset[o]) => option[o] = preset[o]
          /\ W > 0 /\ o \notin Pending => IsBound(option[o])
      BY <1>1, <2>1 DEF RadosInv, W
    <3>2. CASE o = Head(unset)
      BY <1>2, <2>3, <2>5, <3>1, <3>2 DEF Bounded
    <3>3. CASE o # Head(unset)
      BY <2>3, <2>4, <3>1, <3>3
    <3> QED
      BY <3>2, <3>3
  <2>7. DOMAIN option' = DOMAIN option
    BY <2>3
  <2> QED
    BY <2>1, <2>2, <2>6, <2>7 DEF RadosInv, HasClients, W
<1>7. ASSUME UNCHANGED <<cfg, unset, option, preset>>
      PROVE  W' = W /\ Pending' = Pending /\ DOMAIN option' = DOMAIN option
  BY <1>4, <1>7 DEF Pending
<1>8. CASE OpTimeoutsSet
  BY <1>1, <1>7, <1>8 DEF OpTimeoutsSet, RadosInv, connVars, loadVars, NeedsRados,
     HasClients, W
<1>9. CASE Connect
  <2>1. Pending = {}
    BY <1>1, <1>9 DEF Connect, RadosInv, Pending
  <2> QED
    BY <1>1, <1>7, <1>9, <2>1 DEF Connect, RadosInv, loadVars, NeedsRados,
       HasClients, W
<1>10. CASE SkipRados \/ NewConn
  BY <1>1, <1>10 DEF SkipRados, NewConn, RadosInv, connVars, loadVars, NeedsRados,
     HasClients
<1>11. CASE ParseFlags \/ LoadConfig \/ LoadRealms \/ ApplyFlagOverrides \/ BuildLogger
  BY <1>1, <1>11 DEF ParseFlags, LoadConfig, LoadRealms, ApplyFlagOverrides,
     BuildLogger, RadosInv, connVars, HasClients
<1>12. ASSUME UNCHANGED <<cfg, enabled, connVars>>,
              pc \in {"clients"} \cup HasClients,
              pc' \in {"clients"} \cup HasClients
       PROVE  RadosInv'
  BY <1>1, <1>7, <1>12 DEF RadosInv, connVars, NeedsRados, HasClients, W
<1>13. CASE AddRealm \/ RealmsAdded \/ LoadCollectors \/ StartRefreshers
  BY <1>12, <1>13 DEF AddRealm, RealmsAdded, LoadCollectors, StartRefreshers,
     loadVars, HasClients
<1>14. CASE Refuse \/ LoadFails \/ Fatal \/ ServeFails
  BY <1>1, <1>7, <1>14, ExitSteps DEF RadosInv, connVars, HasClients, W
<1>15. CASE UNCHANGED vars
  BY <1>1, <1>7, <1>15 DEF RadosInv, vars, connVars, loadVars, NeedsRados, W
<1> QED
  BY <1>5, <1>6, <1>8, <1>9, <1>10, <1>11, <1>13, <1>14, <1>15 DEF Next

\* One more realm gets its client, which replaces that of an earlier realm of the
\* same name.
LEMMA OneMoreClient ==
  ASSUME TypeOK, WantedRealms \in Seq(Realm), NEW n \in Nat,
         n < Len(WantedRealms), ClientsOf(n), UNCHANGED <<cfg, radosConn>>,
         clients' = With(WantedRealms[n + 1].name, RealmClient(WantedRealms[n + 1]))
  PROVE  ClientsOf(n + 1)'
<1> DEFINE R == WantedRealms
           c == RealmClient(R[n + 1])
<1>1. R' = R /\ \A m \in 1..(n + 1) : RealmClient(R[m])' = RealmClient(R[m])
  BY DEF WantedRealms, RealmClient
<1>2. c.rados = radosConn
  BY DEF RealmClient
<1>3. /\ DOMAIN clients = {R[m].name : m \in 1..n}
      /\ \A m \in 1..n : LastOfName(m, n) => clients[R[m].name] = RealmClient(R[m])
      /\ \A d \in DOMAIN clients : clients[d].rados = radosConn
  BY DEF ClientsOf
<1>4. /\ DOMAIN clients' = DOMAIN clients \cup {R[n + 1].name}
      /\ \A d \in DOMAIN clients' :
            clients'[d] = IF d = R[n + 1].name THEN c ELSE clients[d]
  BY DEF With
<1> HIDE DEF R, c
<1>5. DOMAIN clients' = {R[m].name : m \in 1..(n + 1)}
  BY <1>3, <1>4
<1>6. ASSUME NEW m \in 1..(n + 1),
             \A l \in (m + 1)..(n + 1) : R[l].name # R[m].name
      PROVE  clients'[R[m].name] = RealmClient(R[m])
  <2>1. CASE m = n + 1
    BY <1>4, <1>5, <2>1 DEF c
  <2>2. CASE m # n + 1
    <3>1. m \in 1..n /\ n + 1 \in (m + 1)..(n + 1)
      BY <2>2
    <3>2. R[n + 1].name # R[m].name /\ LastOfName(m, n)
      BY <1>6, <3>1 DEF LastOfName, R
    <3> QED
      BY <1>3, <1>4, <1>5, <3>1, <3>2
  <2> QED
    BY <2>1, <2>2
<1>7. \A d \in DOMAIN clients' : clients'[d].rados = radosConn
  BY <1>2, <1>3, <1>4
<1> QED
  BY <1>1, <1>5, <1>6, <1>7 DEF ClientsOf, LastOfName, R

\* Every step keeps the clients those of the realms added so far.
LEMMA ClientsStep == IInv /\ [Next]_vars => ClientsInv'
<1> SUFFICES ASSUME IInv, [Next]_vars PROVE ClientsInv'
  OBVIOUS
<1>1. ClientsInv /\ LoadInv /\ TypeOK /\ cfg \in Configs
  BY DEF IInv
<1>2. WantedRealms \in Seq(Realm) /\ realms \in Seq(Realm)
  BY <1>1, LayerTypes DEF TypeOK
<1>3. ASSUME UNCHANGED cfg PROVE WantedRealms' = WantedRealms
  BY <1>3 DEF WantedRealms
<1> USE DEF Goes
<1>4. CASE LoadRealms
  BY <1>1, <1>3, <1>4 DEF LoadRealms, ClientsInv, HasClients, WantedRealms
<1>5. CASE ParseFlags \/ LoadConfig \/ ApplyFlagOverrides \/ BuildLogger \/ NewConn
           \/ ReadConfig \/ SetOpTimeout \/ OpTimeoutsSet
  BY <1>1, <1>3, <1>5 DEF ParseFlags, LoadConfig, ApplyFlagOverrides, BuildLogger,
     NewConn, ReadConfig, SetOpTimeout, OpTimeoutsSet, ClientsInv, HasClients
<1>6. CASE SkipRados \/ Connect
  <2>1. /\ clients' = NoClients /\ realms' = WantedRealms
        /\ WantedRealms' = WantedRealms /\ pc' = "clients"
    BY <1>1, <1>3, <1>6 DEF SkipRados, Connect, ClientsInv
  <2>2. Added' = 0 /\ Len(realms') = Len(WantedRealms)
    BY <1>2, <2>1 DEF Added
  <2>3. ClientsOf(0)'
    BY <2>1 DEF ClientsOf, NoClients
  <2> QED
    BY <1>2, <2>1, <2>2, <2>3 DEF ClientsInv, HasClients
<1>7. CASE AddRealm
  <2>1. /\ pc = "clients" /\ pc' = "clients" /\ realms # <<>>
        /\ UNCHANGED <<cfg, radosConn>> /\ WantedRealms' = WantedRealms
        /\ realms' = Tail(realms)
        /\ clients' = With(Head(realms).name, RealmClient(Head(realms)))
    BY <1>3, <1>7 DEF AddRealm, connVars
  <2>2. /\ Len(realms) <= Len(WantedRealms) /\ ClientsOf(Added)
        /\ \A m \in 1..Len(realms) : realms[m] = WantedRealms[Added + m]
    BY <1>1, <2>1 DEF ClientsInv
  <2>3. /\ Len(realms) \in Nat \ {0} /\ Head(realms) = realms[1]
        /\ Len(realms') = Len(realms) - 1
        /\ \A m \in 1..Len(realms') : realms'[m] = realms[m + 1]
    BY <1>2, <2>1
  <2>4. /\ Added \in Nat /\ Added < Len(WantedRealms) /\ Added' = Added + 1
        /\ Head(realms) = WantedRealms[Added + 1]
    BY <1>2, <2>1, <2>2, <2>3 DEF Added
  <2>5. PICK n \in Nat : n = Added
    BY <2>4
  <2>6. ClientsOf(n + 1)'
    <3>1. ClientsOf(n)
      BY <2>2, <2>5
    <3>2. /\ n < Len(WantedRealms)
          /\ clients' = With(WantedRealms[n + 1].name,
                             RealmClient(WantedRealms[n + 1]))
      BY <2>1, <2>4, <2>5
    <3> QED
      BY <1>1, <1>2, <2>1, <3>1, <3>2, OneMoreClient
  <2>7. \A m \in 1..Len(realms') : realms'[m] = WantedRealms[Added + 1 + m]
    BY <2>2, <2>3, <2>4
  <2>8. ClientsOf(Added)'
    BY <2>4, <2>5, <2>6 DEF ClientsOf, LastOfName
  <2> QED
    BY <2>1, <2>2, <2>3, <2>4, <2>7, <2>8 DEF ClientsInv, HasClients
<1>8. CASE RealmsAdded
  <2>1. /\ pc' = "collectors" /\ UNCHANGED radosConn
        /\ WantedRealms' = WantedRealms /\ clients' = OrDefault
    BY <1>3, <1>8 DEF RealmsAdded, connVars
  <2>2. Added = Len(WantedRealms) /\ ClientsOf(Len(WantedRealms))
    BY <1>1, <1>2, <1>8 DEF RealmsAdded, ClientsInv, Added
  <2>3. CASE WantedRealms = <<>>
    <3>1. DOMAIN clients = {}
      BY <2>2, <2>3 DEF ClientsOf
    <3>2. clients = NoClients
      BY <1>1, <3>1 DEF NoClients, TypeOK
    <3> QED
      BY <2>1, <2>3, <3>1, <3>2 DEF OrDefault, With, ClientsInv, HasClients
  <2>4. CASE WantedRealms # <<>>
    <3>1. WantedRealms[1].name \in DOMAIN clients
      BY <1>2, <2>2, <2>4 DEF ClientsOf
    <3>2. clients' = clients
      BY <2>1, <3>1 DEF OrDefault, NoClients
    <3>3. ClientsOf(Len(WantedRealms))'
      BY <2>1, <2>2, <3>2 DEF ClientsOf, LastOfName, RealmClient
    <3> QED
      BY <2>1, <2>4, <3>3 DEF ClientsInv, HasClients
  <2> QED
    BY <2>3, <2>4
<1>9. ASSUME UNCHANGED <<cfg, radosConn, clients, realms>>
      PROVE  WantedRealms' = WantedRealms /\ Added' = Added
             /\ \A n : ClientsOf(n)' <=> ClientsOf(n)
  BY <1>3, <1>9 DEF ClientsOf, LastOfName, RealmClient, Added
<1>10. CASE LoadCollectors \/ StartRefreshers
  <2>1. /\ UNCHANGED <<cfg, radosConn, clients, realms>>
        /\ pc \in HasClients /\ pc' \in HasClients
    BY <1>10 DEF LoadCollectors, StartRefreshers, connVars, HasClients
  <2> QED
    BY <1>1, <1>9, <2>1 DEF ClientsInv, HasClients
<1>11. CASE Refuse \/ LoadFails \/ Fatal \/ ServeFails
  BY <1>11, ExitSteps DEF ClientsInv, HasClients
<1>12. CASE UNCHANGED vars
  <2>1. UNCHANGED <<pc, cfg, radosConn, clients, realms>>
    BY <1>12 DEF vars, connVars
  <2> QED
    BY <1>1, <1>9, <2>1 DEF ClientsInv, HasClients
<1> QED
  BY <1>4, <1>5, <1>6, <1>7, <1>8, <1>10, <1>11, <1>12 DEF Next

\* Every step keeps the whole of it.
LEMMA InductiveStep == IInv /\ [Next]_vars => IInv'
  BY TypeStep, LoadStep, RadosStep, ClientsStep, RunStep DEF IInv

\* The inductive invariant holds from the first step of main on.
LEMMA InvariantTheorem == Spec => []IInv
  BY InitInv, InductiveStep, PTL DEF Spec

-----------------------------------------------------------------------------
(* Properties.                                                             *)

\* The variables have their types.
THEOREM TypeCorrect == Spec => []TypeOK
<1>1. IInv => TypeOK
  BY DEF IInv
<1> QED
  BY <1>1, InvariantTheorem, PTL

\* Every collector that runs has the right clients to collect against, and an RBD
\* collector a connection.
THEOREM CollectTheorem == Spec => []CollectorsCanCollect
<1>1. ASSUME IInv, pc = "serve" PROVE CollectorsCanCollect
  <2> DEFINE list == IF cfg.realmsConfig = "missing" THEN <<>> ELSE cfg.realms
  <2>1. cfg.realmsConfig # "malformed"
    BY <1>1 DEF IInv, LoadInv, Overridden
  <2>2. WantedRealms = list /\ WantedRealms \in Seq(Realm)
    BY <1>1, <2>1, ConfigTypes, LayerTypes DEF WantedRealms, File, IInv, TypeOK
  <2>3. IF list = <<>>
        THEN DOMAIN clients = {DefaultClient} /\ clients[DefaultClient].rados = radosConn
        ELSE ClientsOf(Len(list))
    BY <1>1, <2>2 DEF IInv, ClientsInv, HasClients
  <2>4. DOMAIN list = 1..Len(list) /\ Len(list) \in Nat
    BY <2>2
  <2>5. DOMAIN clients = IF list = <<>> THEN {DefaultClient}
                         ELSE {list[n].name : n \in DOMAIN list}
    BY <2>2, <2>3, <2>4 DEF ClientsOf
  <2>6. ASSUME NEW n \in DOMAIN list,
               \A m \in (n + 1)..Len(list) : list[m].name # list[n].name
        PROVE  /\ clients[list[n].name].realm
               /\ clients[list[n].name].skipTLS = list[n].skipTLS
    <3>1. ClientsOf(Len(list)) /\ LastOfName(n, Len(list))
      BY <2>2, <2>3, <2>4, <2>6 DEF LastOfName
    <3>2. clients[list[n].name] = RealmClient(list[n])
      BY <2>2, <2>4, <3>1 DEF ClientsOf
    <3> QED
      BY <3>2 DEF RealmClient
  <2>7. ASSUME built \cap RBD # {}
        PROVE  conn = "connected" /\ \A n \in DOMAIN clients : clients[n].rados
    <3>1. radosConn
      BY <1>1, <2>7 DEF IInv, RadosInv, RunInv, HasClients, NeedsRados
    <3>2. conn = "connected"
      BY <1>1, <3>1 DEF IInv, RadosInv
    <3> QED
      BY <2>2, <2>3, <3>1, <3>2 DEF ClientsOf
  <2> QED
    BY <2>1, <2>5, <2>6, <2>7 DEF CollectorsCanCollect
<1>2. IInv => CollectorsCanCollect
  BY <1>1 DEF CollectorsCanCollect
<1> QED
  BY <1>2, InvariantTheorem, PTL

\* Operations of a connection in use are bounded unless asked not to be.
THEOREM BoundedTheorem == Spec => []OperationsAreBounded
<1>1. ASSUME IInv, radosConn PROVE OperationsAreBounded
  <2> DEFINE g == cfg.given["opTimeout"]
  <2>1. g \in PartialTo({"file"}, Times)
    BY <1>1, ConfigTypes DEF IInv, Given, Settings, Source, PartialTo
  <2>2. WantedSetting("opTimeout") = Over(g, "file", Default["opTimeout"])
    BY <2>1 DEF WantedSetting, FromFile, Given, Over, PartialTo
  <2>3. ASSUME \A source \in DOMAIN g : g[source] > 0
        PROVE  WantedSetting("opTimeout") > 0
    <3>1. Default["opTimeout"] > 0
      BY StartupAssumption DEF Settings
    <3> HIDE DEF g
    <3> QED
      BY <2>2, <2>3, <3>1 DEF Over
  <2> QED
    BY <1>1, <2>3 DEF IInv, RadosInv, OperationsAreBounded
<1>2. IInv => OperationsAreBounded
  BY <1>1 DEF OperationsAreBounded
<1> QED
  BY <1>2, InvariantTheorem, PTL

\* What runs is what flags, file and defaults ask for, in that order, and no
\* refresher is a hot loop.
THEOREM FlagsTheorem == Spec => []FlagsWin
<1>1. ASSUME IInv, pc = "serve" PROVE FlagsWin
  <2> DEFINE Wanted(given, default) ==
                IF "flag" \in DOMAIN given THEN given["flag"]
                ELSE IF "file" \in DOMAIN given THEN given["file"] ELSE default
             all == Wanted(cfg.given["interval"], Default["interval"])
             flags == cfg.intervals["flag"]
             files == cfg.intervals["file"]
             Stated(c) == c \in DOMAIN flags \cup DOMAIN files
             Own(c) == IF c \in DOMAIN flags THEN flags[c] ELSE files[c]
  <2>1. /\ settings = [s \in Settings |-> WantedSetting(s)]
        /\ built = WantedEnabled
        /\ interval = [c \in built |-> IntervalFor(c)]
        /\ built \subseteq Factories /\ cfg \in Configs
        /\ settings \in [Settings -> Times]
    BY <1>1 DEF IInv, LoadInv, Overridden, RunInv, TypeOK
  <2>2. built = Wanted(cfg.collectors, DefaultEnabled)
    BY <2>1 DEF WantedEnabled, Over
  <2>3. \A s \in Settings : settings[s] = Wanted(cfg.given[s], Default[s])
    BY <2>1 DEF WantedSetting, FromFile, Given, Over
  <2>4. \A c \in built : Resolved(c) \in Int
    BY <2>1, LayerTypes, StartupAssumption
  <2>5. settings["interval"] \in Int /\ settings["interval"] = all
    BY <2>1, <2>3, StartupAssumption DEF Settings
  <2>6. ASSUME NEW c \in built
        PROVE  /\ interval[c] >= MinInterval
               /\ Stated(c) /\ Own(c) >= MinInterval => interval[c] = Own(c)
               /\ (Stated(c) => Own(c) <= 0) /\ all >= MinInterval => interval[c] = all
    <3>1. interval[c] = IntervalFor(c)
      BY <2>1
    <3>2. Resolved(c) = IF Stated(c) THEN Own(c) ELSE 0
      BY DEF Resolved, Over
    <3> HIDE DEF all, Stated, Own
    <3> QED
      BY <2>4, <2>5, <3>1, <3>2 DEF IntervalFor, MinInterval
  <2> QED
    BY <2>2, <2>3, <2>6 DEF FlagsWin, Settings
<1>2. IInv => FlagsWin
  BY <1>1 DEF FlagsWin
<1> QED
  BY <1>2, InvariantTheorem, PTL
=============================================================================
