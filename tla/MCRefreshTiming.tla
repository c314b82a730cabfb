-------------------------- MODULE MCRefreshTiming ---------------------------
(* RefreshTiming on regimes few enough for TLC. *)
EXTENDS RefreshTiming

Setting(i, t, c) == [interval |-> i, timeout |-> t, call |-> c]

\* Collections that fit their interval, that outlive several, that have no time at
\* all, and that may block for ever.
MCRegimes == {Setting(4, 1, 1), Setting(2, 4, 1), Setting(3, 0, 1),
              Setting(3, 2, 0)}
=============================================================================
