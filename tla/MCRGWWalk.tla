----------------------------- MODULE MCRGWWalk ------------------------------
(* RGWWalk on instances small enough for TLC. *)
EXTENDS RGWWalk, TLC

CONSTANTS buckets, users, east, west, u1, u2, u3

\* Both collectors on one realm, the first for two cycles.
BothCollectors == (u1 :> buckets) @@ (u2 :> buckets) @@ (u3 :> users)
OneRealm == (u1 :> east) @@ (u2 :> east) @@ (u3 :> east)
TwoCycles == (u1 :> 1) @@ (u2 :> 2) @@ (u3 :> 1)

\* One at a time: they share nothing.
OneAtATime == {{buckets}, {users}}

\* One collector on two realms, in one cycle.
OneCollector == (u1 :> buckets) @@ (u2 :> buckets)
TwoRealms == (u1 :> east) @@ (u2 :> west)
JustThat == {{buckets}}
OneCycle == (u1 :> 1) @@ (u2 :> 1)

MCUsageMetrics == (buckets :> 1) @@ (users :> 0)
MCQuotaMetrics == (buckets :> 1) @@ (users :> 2)

Symmetry == Permutations(Items)
=============================================================================
