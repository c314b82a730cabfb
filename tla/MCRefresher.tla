---------------------------- MODULE MCRefresher -----------------------------
(* Refresher on instances small enough for TLC. *)
EXTENDS Refresher
=============================================================================
