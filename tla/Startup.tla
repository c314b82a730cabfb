------------------------------- MODULE Startup ------------------------------
(***************************************************************************)
(* What main does before it serves (main.go, pkg/config): read the two     *)
(* configuration files over the defaults, fold the flags into them,        *)
(* connect to RADOS, build a client per realm, build the collectors, start *)
(* their refreshers, listen.  Any step may fail, which ends the process.   *)
(*                                                                         *)
(* Times are in seconds, and may be given as 0 or less; a librados option  *)
(* that is 0 waits for ever.                                               *)
(***************************************************************************)
EXTENDS Integers, Sequences

CONSTANTS Collectors,   \* the names that may be enabled
          Factories,    \* those that have a factory
          RBD,          \* those that begin with rbd_
          DefaultEnabled, \* defaultEnabledCollectors
          RealmNames,   \* the names a realm may have
          DefaultClient,\* defaultClientName
          MaxRealms,    \* bound: realms configured
          Times,        \* bound: the intervals and timeouts given
          NoNumber,     \* the value of a librados option that is not a number
          Default,      \* Default[s]: the default tag of the setting s
          Configs       \* the configurations considered

Options == <<"rados_osd_op_timeout", "rados_mon_op_timeout">>
MinInterval == 1
Settings == {"opTimeout", "interval", "timeout"}

VARIABLES
    cfg,        \* the configuration files and the flags
    pc,         \* the next step
    settings,   \* settings[s]: cfg.RBD.OpTimeout, cfg.Refresh.Interval and
                \* cfg.Timeouts.Collector
    enabled,    \* opts.CollectorsEnabled
    conn,       \* the connection: none, created, configured or connected
    option,     \* option[o]: the value of that librados option
    preset,     \* history: its value in ceph.conf
    unset,      \* options setRadosOpTimeouts has still to look at
    radosConn,  \* whether the collectors get the connection
    realms,     \* realms still without a client
    clients,    \* clients[n]: the client named n
    built,      \* collectors built
    interval,   \* interval[c]: how often the refresher of c runs
    status      \* exit status of the process; <<>> while it runs

loadVars == <<settings, enabled>>
connVars == <<conn, option, preset, unset, radosConn>>
runVars == <<built, interval>>
vars == <<cfg, pc, loadVars, connVars, realms, clients, runVars, status>>

Unlimited == [o \in {Options[n] : n \in DOMAIN Options} |-> 0]
NoClients == [n \in {} |-> 0]

Realm == [name : RealmNames, skipTLS : BOOLEAN]
Client == [realm : BOOLEAN, skipTLS : BOOLEAN, rados : BOOLEAN]

PartialTo(S, T) == UNION {[D -> T] : D \in SUBSET S}

Source == {"file", "flag"}
File == {"missing", "malformed", "given"}

OptionValue == Times \cup {NoNumber}

\* Either file may be missing or not parse.  A setting is named in the file,
\* passed as a flag, both or neither; there is no flag for rbd.opTimeout.
Configuration ==
    [config : File, realmsConfig : File,
     collectors : PartialTo(Source, SUBSET Collectors),
     realms : UNION {[1..n -> Realm] : n \in 0..MaxRealms},
     given : {f \in [Settings -> PartialTo(Source, Times)] :
                "flag" \notin DOMAIN f["opTimeout"]},
     intervals : [Source -> PartialTo(Collectors, Times)]]

ASSUME StartupAssumption ==
    /\ Factories \subseteq Collectors /\ RBD \subseteq Collectors
    /\ DefaultEnabled \subseteq Factories
    /\ MaxRealms \in Nat /\ Times \subseteq Int /\ 0 \in Times
    /\ NoNumber \notin Int
    /\ Default \in [Settings -> Times] /\ \A s \in Settings : Default[s] > 0
    /\ Configs \subseteq Configuration

TypeOK ==
    /\ pc \in {"flags", "config", "realms", "overrides", "logger", "rados",
               "readConfig", "opTimeouts", "connect", "clients", "collectors",
               "start", "serve", "exited"}
    /\ settings \in [Settings -> Times]
    /\ enabled \in SUBSET Collectors
    /\ conn \in {"none", "created", "configured", "connected"}
    /\ option \in [DOMAIN Unlimited -> OptionValue]
    /\ preset \in [DOMAIN Unlimited -> OptionValue]
    /\ unset \in Seq(DOMAIN Unlimited)
    /\ radosConn \in BOOLEAN
    /\ realms \in Seq(Realm)
    /\ clients \in [DOMAIN clients -> Client]
    /\ DOMAIN clients \subseteq RealmNames \cup {DefaultClient}
    /\ built \in SUBSET Factories
    /\ interval \in [DOMAIN interval -> Times \cup {MinInterval}]
    /\ DOMAIN interval \subseteq Factories
    /\ status \in {<<>>, <<0>>, <<1>>, <<2>>}

Init ==
    /\ cfg \in Configs
    /\ pc = "flags"
    /\ settings = [s \in Settings |-> 0]
    /\ enabled = DefaultEnabled
    /\ conn = "none" /\ option = Unlimited /\ preset = Unlimited
    /\ unset = <<>>
    /\ radosConn = FALSE
    /\ realms = <<>>
    /\ clients = NoClients
    /\ built = {}
    /\ interval = [c \in {} |-> 0]
    /\ status = <<>>

Goes(from, to) == pc = from /\ pc' = to /\ UNCHANGED <<cfg, status>>

Exits(code) ==
    /\ pc' = "exited"
    /\ status' = <<code>>
    /\ UNCHANGED <<cfg, loadVars, connVars, realms, clients, runVars>>

-----------------------------------------------------------------------------
(* Flags and files.                                                        *)

\* What a source gives for a setting, if it does, goes over what is below.
Over(given, source, below) == IF source \in DOMAIN given THEN given[source]
                              ELSE below

\* The flags do not parse, or ask for the version.
Refuse ==
    /\ pc = "flags"
    /\ Exits(2) \/ Exits(0)

ParseFlags ==
    /\ Goes("flags", "config")
    /\ enabled' = Over(cfg.collectors, "flag", DefaultEnabled)
    /\ UNCHANGED <<settings, connVars, realms, clients, runVars>>

\* mutant: the defaults are not set
FromFileAlone(s) == Over(cfg.given[s], "file", 0)

\* The file is decoded into a Config that has the defaults already.
FromFile(s) == Over(cfg.given[s], "file", Default[s])

LoadConfig ==
    /\ cfg.config = "given"
    /\ Goes("config", "realms")
    /\ settings' = [s \in Settings |-> FromFile(s)]
    /\ UNCHANGED <<enabled, connVars, realms, clients, runVars>>

\* mutant: a realms file that does not parse is like none
AlwaysTolerated == TRUE

\* A realms file that is missing is like one without realms.
Tolerated == cfg.realmsConfig # "malformed"

LoadRealms ==
    /\ Tolerated
    /\ Goes("realms", "overrides")
    /\ realms' = IF cfg.realmsConfig = "given" THEN cfg.realms ELSE <<>>
    /\ UNCHANGED <<loadVars, connVars, clients, runVars>>

LoadFails ==
    /\ \/ pc = "config" /\ cfg.config # "given"
       \/ pc = "realms" /\ ~Tolerated
    /\ Exits(1)

\* mutant: the collectors named in the file win over those of the flag
EnabledByFile == Over(cfg.collectors, "file", enabled)

\* cfg.Collectors, unless the flag was passed.
Enabled == IF "flag" \in DOMAIN cfg.collectors THEN enabled
           ELSE Over(cfg.collectors, "file", enabled)

ApplyFlagOverrides ==
    /\ Goes("overrides", "logger")
    /\ enabled' = Enabled
    /\ settings' = [s \in Settings |-> Over(cfg.given[s], "flag", settings[s])]
    /\ UNCHANGED <<connVars, realms, clients, runVars>>

\* The refresh intervals of the flags and the log level parse.
BuildLogger ==
    /\ Goes("logger", "rados")
    /\ UNCHANGED <<loadVars, connVars, realms, clients, runVars>>

NeedsRados == enabled \cap RBD # {}

\* logger.Fatal, os.Exit: any later step that can fail.
Fatal ==
    /\ pc \in {"logger", "rados", "readConfig", "opTimeouts", "connect",
               "clients", "collectors", "start"}
    /\ pc = "rados" => NeedsRados
    /\ pc = "opTimeouts" => unset # <<>>
    /\ pc = "clients" => realms # <<>>
    /\ pc = "collectors" => enabled \ Factories # {}
    /\ Exits(1)

-----------------------------------------------------------------------------
(* The connection to RADOS.                                                *)

SkipRados ==
    /\ ~NeedsRados
    /\ Goes("rados", "clients")
    /\ UNCHANGED <<loadVars, connVars, realms, clients, runVars>>

NewConn ==
    /\ NeedsRados
    /\ Goes("rados", "readConfig")
    /\ conn' = "created"
    /\ UNCHANGED <<loadVars, option, preset, unset, radosConn, realms, clients,
                   runVars>>

\* ceph.conf may set the options.
ReadConfig ==
    /\ Goes("readConfig", "opTimeouts")
    /\ conn' = "configured"
    /\ option' \in [DOMAIN Unlimited -> OptionValue]
    /\ preset' = option'
    /\ unset' = IF settings["opTimeout"] <= 0 THEN <<>> ELSE Options
    /\ UNCHANGED <<loadVars, radosConn, realms, clients, runVars>>

\* mutant: a value that is set already is overwritten
Overwritten(o) == settings["opTimeout"]

\* It parses as a number, which is a bound.
IsBound(value) == value # NoNumber /\ value > 0

\* One iteration of setRadosOpTimeouts.
Bounded(o) == IF IsBound(option[o]) THEN option[o] ELSE settings["opTimeout"]

SetOpTimeout ==
    /\ unset # <<>>
    /\ Goes("opTimeouts", "opTimeouts")
    /\ option' = [option EXCEPT ![Head(unset)] = Bounded(Head(unset))]
    /\ unset' = Tail(unset)
    /\ UNCHANGED <<loadVars, conn, preset, radosConn, realms, clients, runVars>>

OpTimeoutsSet ==
    /\ unset = <<>>
    /\ Goes("opTimeouts", "connect")
    /\ UNCHANGED <<loadVars, connVars, realms, clients, runVars>>

\* radosConn is assigned once the connection is usable.
Connect ==
    /\ Goes("connect", "clients")
    /\ conn' = "connected"
    /\ radosConn' = TRUE
    /\ UNCHANGED <<loadVars, option, preset, unset, realms, clients, runVars>>

-----------------------------------------------------------------------------
(* Clients and collectors.                                                 *)

\* The client of a name; another of the same name replaces it.
With(name, client) == [n \in DOMAIN clients \cup {name} |->
                         IF n = name THEN client ELSE clients[n]]

RealmClient(r) == [realm |-> TRUE, skipTLS |-> r.skipTLS, rados |-> radosConn]

AddRealm ==
    /\ realms # <<>>
    /\ Goes("clients", "clients")
    /\ clients' = With(Head(realms).name, RealmClient(Head(realms)))
    /\ realms' = Tail(realms)
    /\ UNCHANGED <<loadVars, connVars, runVars>>

\* mutants: there is no client without a realm; there is always one more
NoDefault == clients
AlwaysDefault == With(DefaultClient, [realm |-> FALSE, skipTLS |-> FALSE,
                                      rados |-> radosConn])

OrDefault ==
    IF clients # NoClients THEN clients
    ELSE With(DefaultClient, [realm |-> FALSE, skipTLS |-> FALSE,
                              rados |-> radosConn])

RealmsAdded ==
    /\ realms = <<>>
    /\ Goes("clients", "collectors")
    /\ clients' = OrDefault
    /\ UNCHANGED <<loadVars, connVars, realms, runVars>>

\* mutant: a name without a factory is accepted
AllAvailable == TRUE

\* A name without a factory is fatal.
Available == enabled \subseteq Factories

LoadCollectors ==
    /\ Available
    /\ Goes("collectors", "start")
    /\ built' = enabled
    /\ UNCHANGED <<loadVars, connVars, realms, clients, interval>>

\* resolveRefreshIntervals: the command line wins; 0 where neither names c.
Resolved(c) == Over(cfg.intervals["flag"], c, Over(cfg.intervals["file"], c, 0))

\* intervalFor
IntervalFor(c) ==
    LET wanted == IF Resolved(c) > 0 THEN Resolved(c) ELSE settings["interval"]
    IN IF wanted < MinInterval THEN MinInterval ELSE wanted

StartRefreshers ==
    /\ Goes("start", "serve")
    /\ interval' = [c \in built |-> IntervalFor(c)]
    /\ UNCHANGED <<loadVars, connVars, realms, clients, built>>

\* ListenAndServe returns, which it only does on a failure.
ServeFails ==
    /\ pc = "serve"
    /\ Exits(1)

Next == \/ Refuse \/ ParseFlags \/ LoadConfig \/ LoadRealms \/ LoadFails
        \/ ApplyFlagOverrides \/ BuildLogger \/ Fatal
        \/ SkipRados \/ NewConn \/ ReadConfig \/ SetOpTimeout \/ OpTimeoutsSet
        \/ Connect
        \/ AddRealm \/ RealmsAdded \/ LoadCollectors \/ StartRefreshers
        \/ ServeFails

Spec == Init /\ [][Next]_vars

-----------------------------------------------------------------------------
(* Properties.                                                             *)

\* Once the refreshers run, every collector has someone to collect against, and
\* nobody else: the clients are one per name of a realm, made from the last
\* realm of that name alone, or only the default one when no realm is
\* configured, in a realms file that parses (load_test.go:123); and each of
\* them has the connection, connected, when an RBD collector is enabled
\* (main.go:162 and main.go:182).
CollectorsCanCollect ==
    pc = "serve" =>
       LET list == IF cfg.realmsConfig = "missing" THEN <<>> ELSE cfg.realms IN
       /\ cfg.realmsConfig # "malformed"
       /\ DOMAIN clients = IF list = <<>> THEN {DefaultClient}
                           ELSE {list[n].name : n \in DOMAIN list}
       /\ \A n \in DOMAIN list :
             (\A m \in (n+1)..Len(list) : list[m].name # list[n].name) =>
                /\ clients[list[n].name].realm
                /\ clients[list[n].name].skipTLS = list[n].skipTLS
       /\ built \cap RBD # {} =>
             conn = "connected" /\ \A n \in DOMAIN clients : clients[n].rados

\* No collector ever runs on a connection whose operations may wait for ever
\* unless rbd.opTimeout was given as 0 or less (load_test.go:81: "opTimeout being
\* unset would leave librados waiting forever"), whatever ceph.conf has for either
\* option; and a bound that it has is left untouched (main.go:303).
OperationsAreBounded ==
    LET asked == cfg.given["opTimeout"] IN
    radosConn => \A o \in DOMAIN option :
       /\ (\A source \in DOMAIN asked : asked[source] > 0) => IsBound(option[o])
       /\ IsBound(preset[o]) => option[o] = preset[o]

\* "Any flag that is explicitly passed overrides the equivalent config file
\* setting" (README.md:206), and "the config file stays authoritative for
\* everything left at its default" (main.go:256): this is so of the collectors,
\* of their timeout and of their intervals.  A collector's own interval goes before
\* the one for all, which holds where it has none or the one that counts is 0 or less
\* (collector.go:197); yet no interval, by whatever way it comes, makes a refresher a
\* hot loop (collector.go:33).
FlagsWin ==
    pc = "serve" =>
       LET Wanted(given, default) ==
              IF "flag" \in DOMAIN given THEN given["flag"]
              ELSE IF "file" \in DOMAIN given THEN given["file"] ELSE default
           all == Wanted(cfg.given["interval"], Default["interval"])
           flags == cfg.intervals["flag"]
           files == cfg.intervals["file"]
           Stated(c) == c \in DOMAIN flags \cup DOMAIN files
           Own(c) == IF c \in DOMAIN flags THEN flags[c] ELSE files[c]
       IN
       /\ built = Wanted(cfg.collectors, DefaultEnabled)
       /\ settings["timeout"] = Wanted(cfg.given["timeout"], Default["timeout"])
       /\ \A c \in built :
             /\ interval[c] >= MinInterval
             /\ Stated(c) /\ Own(c) >= MinInterval => interval[c] = Own(c)
             /\ (Stated(c) => Own(c) <= 0) /\ all >= MinInterval => interval[c] = all
=============================================================================
