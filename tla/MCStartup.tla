----------------------------- MODULE MCStartup ------------------------------
(* Startup on configurations few enough for TLC. *)
EXTENDS Startup, TLC

CONSTANTS east, west

MCTimes == {-5, 0, 5, 30, 180, 240}

MCDefault == [s \in Settings |-> CASE s = "opTimeout" -> 30
                                   [] s = "interval" -> 240
                                   [] s = "timeout" -> 180]

None == [x \in {} |-> 0]
NoneGiven == [s \in Settings |-> None]
NoIntervals == [s \in Source |-> None]

\* A configuration of which only what a family varies is told.
Plain == [config |-> "given", realmsConfig |-> "given", collectors |-> None,
          realms |-> <<>>, given |-> NoneGiven, intervals |-> NoIntervals]

\* Three lists of realms: none, two, and two of the same name.
SomeRealms ==
    {<<>>, <<[name |-> east, skipTLS |-> TRUE], [name |-> west, skipTLS |-> FALSE]>>,
     <<[name |-> east, skipTLS |-> TRUE], [name |-> east, skipTLS |-> FALSE]>>}

\* Every state of the two files; every choice of collectors, realms and
\* rbd.opTimeout; every choice of the timeout of collectors; and every choice of
\* intervals.
MCConfigs ==
    {[Plain EXCEPT !.config = c, !.realmsConfig = r, !.realms = list] :
        c \in File, r \in File, list \in SomeRealms}
      \cup
    {[Plain EXCEPT !.collectors = collectors, !.realms = list,
                   !.given = [@ EXCEPT !["opTimeout"] = op]] :
        collectors \in PartialTo(Source, SUBSET Collectors),
        list \in SomeRealms, op \in PartialTo({"file"}, {-5, 0, 5})}
      \cup
    {[Plain EXCEPT !.collectors = "flag" :> {"rgw_buckets"},
                   !.given = [@ EXCEPT !["timeout"] = t]] :
        t \in PartialTo(Source, {0, 5})}
      \cup
    {[Plain EXCEPT !.collectors = "flag" :> {"rgw_buckets"},
                   !.given = [@ EXCEPT !["interval"] = all],
                   !.intervals = own] :
        all \in PartialTo(Source, {-5, 0, 5, 240}),
        own \in [Source -> PartialTo({"rgw_buckets"}, {-5, 0, 5, 30})]}
=============================================================================
