---------------------------- MODULE MCCollection ----------------------------
(* Collection on instances small enough for TLC; the runs give the constants.  *)
(* Clients are interchangeable, but liveness excludes symmetry.                *)
EXTENDS Collection
=============================================================================
