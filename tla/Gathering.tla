----------------------------- MODULE Gathering ------------------------------
(***************************************************************************)
(* What refresh may rely on when it calls runCollector: each client adds   *)
(* metrics until it reports how it fared, and once all have, everything is *)
(* handed over at once.  There is no channel, no goroutine and no lock.    *)
(***************************************************************************)
EXTENDS Naturals, Bags

CONSTANT Clients        \* the configured clients

VARIABLES contributed,  \* contributed[k]: how many metrics client k has added
          reported,     \* reported[k]: how it fared; none until it is done
          result        \* the result handed over; <<>> before that

vars == <<contributed, reported, result>>

Init == /\ contributed = [k \in Clients |-> 0]
        /\ reported = [k \in Clients |-> "none"]
        /\ result = <<>>

Contribute(k) ==
    /\ reported[k] = "none"
    /\ contributed' = [contributed EXCEPT ![k] = @ + 1]
    /\ UNCHANGED <<reported, result>>

Report(k) ==
    /\ reported[k] = "none"
    /\ \E how \in {"nil", "error"} : reported' = [reported EXCEPT ![k] = how]
    /\ UNCHANGED <<contributed, result>>

\* The data is what was contributed, each metric once, also when a client failed;
\* there are two scrape metrics for each client.
HandOver ==
    /\ result = <<>>
    /\ \A k \in Clients : reported[k] # "none"
    /\ result' = [data |-> SetToBag(UNION {{k} \X (1..contributed[k]) :
                                         k \in Clients}),
                  self |-> SetToBag(Clients \X {"duration", "success"}),
                  ok |-> \A k \in Clients : reported[k] = "nil"]
    /\ UNCHANGED <<contributed, reported>>

Next == \/ \E k \in Clients : Contribute(k) \/ Report(k)
        \/ HandOver

Spec == Init /\ [][Next]_vars
=============================================================================
