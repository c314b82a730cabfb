---------------------------- MODULE MetricsCache ----------------------------
(***************************************************************************)
(* What the exporter promises about the metrics it serves, with no lock,   *)
(* no goroutine and no partial update in sight.                            *)
(*                                                                         *)
(* Refresh cycles of one collector are numbered in the order they begin.   *)
(* Whatever ends last, only the newest cycle may still publish; it         *)
(* publishes everything at once, and a failed one publishes only that it   *)
(* failed.  A scrape answers with one instant of what is published.        *)
(***************************************************************************)
EXTENDS Naturals

CONSTANTS Collectors,   \* the enabled collectors
          Scrapers      \* the concurrent scrapes

VARIABLES begun,        \* begun[c]: how many cycles of c have begun
          published,    \* published[c]: what is served of c
          answer        \* answer[s]: what scrape s is delivering, if any

vars == <<begun, published, answer>>

\* One collector's share of a scrape, each metric named by the cycle it comes
\* from; 0 is a metric that is not there yet.
View == [data : Nat, self : Nat, success : BOOLEAN, stamp : Nat]

Absent == [data |-> 0, self |-> 0, success |-> FALSE, stamp |-> 0]

NoAnswer == [c \in {} |-> 0]

Init == /\ begun = [c \in Collectors |-> 0]
        /\ published = [c \in Collectors |-> Absent]
        /\ answer = [s \in Scrapers |-> NoAnswer]

Begin(c) == /\ begun' = [begun EXCEPT ![c] = @ + 1]
            /\ UNCHANGED <<published, answer>>

\* The newest cycle has not published yet.
MayPublish(c) == published[c].self < begun[c]

Succeed(c) ==
    /\ MayPublish(c)
    /\ published' = [published EXCEPT ![c] =
                       [data |-> begun[c], self |-> begun[c],
                        success |-> TRUE, stamp |-> begun[c]]]
    /\ UNCHANGED <<begun, answer>>

Fail(c) ==
    /\ MayPublish(c)
    /\ published' = [published EXCEPT ![c] =
                       [data |-> published[c].data, self |-> begun[c],
                        success |-> FALSE, stamp |-> published[c].stamp]]
    /\ UNCHANGED <<begun, answer>>

Answer(s) == /\ answer[s] = NoAnswer
             /\ answer' = [answer EXCEPT ![s] = published]
             /\ UNCHANGED <<begun, published>>

Deliver(s) == /\ answer' = [answer EXCEPT ![s] = NoAnswer]
              /\ UNCHANGED <<begun, published>>

Next == \/ \E c \in Collectors : Begin(c) \/ Succeed(c) \/ Fail(c)
        \/ \E s \in Scrapers : Answer(s) \/ Deliver(s)

Spec == Init /\ [][Next]_vars
=============================================================================
