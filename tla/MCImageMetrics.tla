--------------------------- MODULE MCImageMetrics ---------------------------
(* ImageMetrics on instances small enough for TLC. *)
EXTENDS ImageMetrics, TLC

\* Partially tagged with a limit of 0, untagged with a secret, and unreadable in
\* two ways.
MCMetadata ==
    {"e2e.project" :> "v" @@ QoSKeys[1] :> "0",
     Secret :> "v",
     "e2e.customer_id" :> "bad",
     QoSKeys[1] :> "bad"}

\* Metadata that can always be read.
GoodMetadata == {"e2e.project" :> "v"}

\* One collector at a time: they share nothing but the images.
MCEnabling == {{k} : k \in DOMAIN Reads}

\* Images are interchangeable.
Symmetry == Permutations(Images)
=============================================================================
