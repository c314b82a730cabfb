---------------------------- MODULE ImageMetrics ----------------------------
(***************************************************************************)
(* What the RBD collectors read of each image and turn into series         *)
(* (collector/rbd_images.go, rbd_image_usage.go, rbd_volumes.go), and what *)
(* becomes of it when the cycle ends.                                      *)
(*                                                                         *)
(* RBDWalk is the walk over pools and namespaces; here it is one listing   *)
(* of one namespace.  Refresher is what happens to cycles that overrun     *)
(* their interval; here all collectors have the same one and every cycle   *)
(* ends within it.  The images and their metadata change all the time.     *)
(***************************************************************************)
EXTENDS Naturals, Sequences

CONSTANTS Enabling,    \* the choices of collectors to enable
          Images,      \* the names an image may have
          Metadata,    \* the metadata an image may carry, key to value
          NoImage,     \* no image is open; an error about none
          MaxCycles    \* bound: ticks of the interval

\* bad is not a number, nor a label value.
Values == {"v", "0", "bad"}

OwnerKeys == {"e2e.project", "e2e.customer_id"}
QoSKeys == <<"conf_rbd_qos_read_iops_limit", "conf_rbd_qos_write_iops_limit">>
Secret == "rbd.csi.ceph.com/dek"

Consumed == OwnerKeys \cup {QoSKeys[n] : n \in DOMAIN QoSKeys}

\* The values each collector reads, a series for each.
Reads == [rbd_images |-> <<"provisioned_bytes", "create_timestamp_seconds">>,
          rbd_image_usage |-> <<"used_bytes">>,
          rbd_volumes |-> <<"volume_size">>]

ASSUME ImageMetricsAssumption ==
    /\ \A E \in Enabling : E \subseteq DOMAIN Reads
    /\ \A m \in Metadata :
         /\ DOMAIN m \subseteq Consumed \cup {Secret}
         /\ \A key \in DOMAIN m : m[key] \in Values
    /\ NoImage \notin Images
    /\ MaxCycles \in Nat

VARIABLES
    meta,       \* meta[i]: the metadata of image i, for those that exist
    tick,       \* ticks so far
    pc,         \* pc[k]: the next step of collector k
    names,      \* names[k]: images listed and still to visit
    image,      \* image[k]: the image open
    due,        \* due[k]: what is still to read of it
    read,       \* read[k]: the metadata kept of it
    errs,       \* errs[k]: the images about which an error was accumulated
    out,        \* out[k]: the series sent
    history,    \* history[k]: images listed and metadata they had when read
    published   \* published[k]: the series served, their tick and history

openVars == <<image, due, read>>
outVars == <<errs, out>>
vars == <<meta, tick, pc, names, openVars, outVars, history, published>>

\* The collectors that were enabled at the start.
Enabled == DOMAIN pc

NoMeta == [key \in {} |-> ""]
NoHistory == [listed |-> {}, saw |-> NoMeta]

\* The value of the owner series is its labels; the others have one value.
Series(name, i, value) == [name |-> name, image |-> i, value |-> value]

Single(v) == [key \in {"value"} |-> v]

Existing == DOMAIN meta

Clusters == UNION {[D -> Metadata] : D \in SUBSET Images}

AllSeries ==
    [name : (UNION {{Reads[k][n] : n \in DOMAIN Reads[k]} : k \in DOMAIN Reads})
              \cup Consumed \cup {"owner"},
     image : Images,
     value : [OwnerKeys -> Values \cup {""}] \cup [{"value"} -> Values]]

History == [listed : SUBSET Images, saw : Clusters]

TypeOK ==
    /\ meta \in Clusters
    /\ tick \in 0..MaxCycles
    /\ Enabled \in Enabling
    /\ pc \in [Enabled -> {"idle", "list", "image", "read", "metadata", "owner",
                           "qos", "close"}]
    /\ names \in [Enabled -> SUBSET Images]
    /\ image \in [Enabled -> Images \cup {NoImage}]
    /\ DOMAIN due = Enabled
    /\ \A k \in Enabled : due[k] \in Seq({Reads[k][n] : n \in DOMAIN Reads[k]})
                          \/ due[k] \in Seq(Consumed)
    /\ read \in [Enabled -> UNION {[D -> Values] : D \in SUBSET Consumed}]
    /\ errs \in [Enabled -> SUBSET (Images \cup {NoImage})]
    /\ out \in [Enabled -> SUBSET AllSeries]
    /\ history \in [Enabled -> History]
    /\ published \in [Enabled -> [series : SUBSET AllSeries, tick : 0..MaxCycles,
                                 history : History]]

Init ==
    /\ meta \in Clusters
    /\ tick = 0
    /\ \E E \in Enabling : pc = [k \in E |-> "idle"]
    /\ names = [k \in Enabled |-> {}]
    /\ image = [k \in Enabled |-> NoImage]
    /\ due = [k \in Enabled |-> <<>>]
    /\ read = [k \in Enabled |-> NoMeta]
    /\ errs = [k \in Enabled |-> {}]
    /\ out = [k \in Enabled |-> {}]
    /\ history = [k \in Enabled |-> NoHistory]
    /\ published = [k \in Enabled |->
                      [series |-> {}, tick |-> 0, history |-> NoHistory]]

Goes(k, from, to) == pc[k] = from /\ pc' = [pc EXCEPT ![k] = to]

Fails(k, i) == errs' = [errs EXCEPT ![k] = @ \cup {i}]

\* Emit
Sends(k, series) == out' = [out EXCEPT ![k] = @ \cup {series}]

\* A call that succeeds, with a series to emit, or fails.
SendsOrFails(k, ok, series) ==
    \/ ok /\ Sends(k, series) /\ UNCHANGED errs
    \/ ~ok /\ Fails(k, image[k]) /\ UNCHANGED out

-----------------------------------------------------------------------------
(* A cycle: list, visit, publish.                                          *)

\* The tickers of all collectors have the same period and fire at once.
Tick ==
    /\ tick < MaxCycles
    /\ tick' = tick + 1
    /\ \A k \in Enabled : pc[k] = "idle"
    /\ pc' = [k \in Enabled |-> "list"]
    /\ errs' = [k \in Enabled |-> {}]
    /\ out' = [k \in Enabled |-> {}]
    /\ history' = [k \in Enabled |-> NoHistory]
    /\ UNCHANGED <<meta, names, image, due, read, published>>

List(k) ==
    /\ Goes(k, "list", "image")
    /\ \/ /\ names' = [names EXCEPT ![k] = Existing]
          /\ history' = [history EXCEPT ![k].listed = Existing]
          /\ UNCHANGED errs
       \/ Fails(k, NoImage) /\ UNCHANGED <<names, history>>
    /\ UNCHANGED <<meta, tick, image, due, read, out, published>>

\* mutant: an image that is gone is no error
Forgotten(k, i) == UNCHANGED errs

\* withRBDImage returns an error for an image that cannot be opened.
CannotOpen(k, i) == Fails(k, i)

Open(k, i) ==
    /\ i \in names[k]
    /\ names' = [names EXCEPT ![k] = @ \ {i}]
    /\ \/ /\ i \in Existing
          /\ Goes(k, "image", "read")
          /\ image' = [image EXCEPT ![k] = i]
          /\ due' = [due EXCEPT ![k] = Reads[k]]
          /\ UNCHANGED errs
       \/ Goes(k, "image", "image") /\ CannotOpen(k, i) /\ UNCHANGED <<image, due>>
    /\ UNCHANGED <<meta, tick, read, out, history, published>>

\* Closing may fail too.
Close(k) ==
    /\ Goes(k, "close", "image")
    /\ Fails(k, image[k]) \/ UNCHANGED errs
    /\ image' = [image EXCEPT ![k] = NoImage]
    /\ read' = [read EXCEPT ![k] = NoMeta]
    /\ UNCHANGED <<meta, tick, names, due, out, history, published>>

\* The walk returns, and refresh stores the series if it returned no error.
Publish(k) ==
    /\ names[k] = {}
    /\ Goes(k, "image", "idle")
    /\ published' = IF errs[k] # {} THEN published
                    ELSE [published EXCEPT ![k] = [series |-> out[k],
                                                   tick |-> tick,
                                                   history |-> history[k]]]
    /\ UNCHANGED <<meta, tick, names, image, due, read, errs, out, history>>

-----------------------------------------------------------------------------
(* What is read of an image.                                               *)

\* rbd_images: a value that cannot be read is an error, and the next one is tried.
ReadHeader(k) ==
    /\ k = "rbd_images"
    /\ due[k] # <<>>
    /\ Goes(k, "read", IF Len(due[k]) > 1 THEN "read" ELSE "metadata")
    /\ due' = [due EXCEPT ![k] = Tail(@)]
    /\ \E ok \in BOOLEAN :
          SendsOrFails(k, ok, Series(Head(due[k]), image[k], Single("v")))
    /\ UNCHANGED <<meta, tick, names, image, read, history, published>>

\* The others ask for two things, the first failure ends it, and have one series.
ReadValue(k) ==
    /\ Goes(k, "read", "close")
    /\ due' = [due EXCEPT ![k] = <<>>]
    /\ UNCHANGED <<meta, tick, names, image, read, history, published>>

\* mutant: an image whose usage cannot be determined is left out
UsageIfAny(k, ok) ==
    IF ok THEN Sends(k, Series(Head(due[k]), image[k], Single("v"))) /\ UNCHANGED errs
    ELSE UNCHANGED outVars

\* rbdImageUsedBytes: GetSize and DiffIterate
UsedBytes(k, ok) ==
    SendsOrFails(k, ok, Series(Head(due[k]), image[k], Single("v")))

Usage(k) ==
    /\ k = "rbd_image_usage"
    /\ ReadValue(k)
    /\ \E ok \in BOOLEAN : UsedBytes(k, ok)

\* GetId and GetSize
Volume(k) ==
    /\ k = "rbd_volumes"
    /\ ReadValue(k)
    /\ \E ok \in BOOLEAN :
          SendsOrFails(k, ok, Series(Head(due[k]), image[k], Single("v")))

\* mutant: the metadata is not narrowed
RetainedAll(m) == m

\* retainConsumedMetadata
Retained(m) == [key \in DOMAIN m \cap Consumed |-> m[key]]

\* The history of collector k, once it has read the metadata of its image.
Saw(k) == [history[k] EXCEPT !.saw = [i \in DOMAIN @ \cup {image[k]} |->
                                        IF i = image[k] THEN meta[i] ELSE @[i]]]

ListMetadata(k) ==
    /\ \/ /\ image[k] \in Existing
          /\ Goes(k, "metadata", "owner")
          /\ due' = [due EXCEPT ![k] = QoSKeys]
          /\ read' = [read EXCEPT ![k] = Retained(meta[image[k]])]
          /\ history' = [history EXCEPT ![k] = Saw(k)]
          /\ UNCHANGED errs
       \/ /\ Goes(k, "metadata", "close")
          /\ Fails(k, image[k])
          /\ UNCHANGED <<due, read, history>>
    /\ UNCHANGED <<meta, tick, names, image, out, published>>

\* mutant: only an image with every key has an owner
FullyTagged(m) == OwnerKeys \subseteq DOMAIN m

Tagged(m) == OwnerKeys \cap DOMAIN m # {}

Labels(m) == [key \in OwnerKeys |-> IF key \in DOMAIN m THEN m[key] ELSE ""]

\* emitRBDImageOwner; a value that is no label value fails in NewConstMetric.
EmitOwner(k) ==
    LET labels == Labels(read[k]) IN
    /\ Goes(k, "owner", "qos")
    /\ IF Tagged(read[k])
       THEN SendsOrFails(k, \A key \in OwnerKeys : labels[key] # "bad",
                         Series("owner", image[k], labels))
       ELSE UNCHANGED outVars
    /\ UNCHANGED <<meta, tick, names, openVars, history, published>>

\* mutant: a limit that does not parse is skipped silently
LimitOrNone(k, key) ==
    IF key \in DOMAIN read[k] /\ read[k][key] # "bad"
    THEN Sends(k, Series(key, image[k], Single(read[k][key]))) /\ UNCHANGED errs
    ELSE UNCHANGED outVars

Limit(k, key) ==
    IF key \in DOMAIN read[k]
    THEN SendsOrFails(k, read[k][key] # "bad",
                      Series(key, image[k], Single(read[k][key])))
    ELSE UNCHANGED outVars

\* emitRBDImageQoS, for the next key
EmitQoS(k) ==
    /\ due[k] # <<>>
    /\ Goes(k, "qos", IF Len(due[k]) > 1 THEN "qos" ELSE "close")
    /\ due' = [due EXCEPT ![k] = Tail(@)]
    /\ Limit(k, Head(due[k]))
    /\ UNCHANGED <<meta, tick, names, image, read, history, published>>

-----------------------------------------------------------------------------
(* The environment.                                                        *)

\* A new image, or new metadata of one that exists.
Tag(i) ==
    /\ \E m \in Metadata :
          meta' = [j \in Existing \cup {i} |-> IF j = i THEN m ELSE meta[j]]
    /\ UNCHANGED <<tick, pc, names, openVars, outVars, history, published>>

Delete(i) ==
    /\ i \in Existing
    /\ meta' = [j \in Existing \ {i} |-> meta[j]]
    /\ UNCHANGED <<tick, pc, names, openVars, outVars, history, published>>

CollectorStep(k) == \/ List(k) \/ Close(k) \/ Publish(k)
                    \/ ReadHeader(k) \/ Usage(k) \/ Volume(k)
                    \/ ListMetadata(k) \/ EmitOwner(k) \/ EmitQoS(k)
                    \/ \E i \in names[k] : Open(k, i)

Next == \/ Tick
        \/ \E k \in Enabled : CollectorStep(k)
        \/ \E i \in Images : Tag(i) \/ Delete(i)

Spec == Init /\ [][Next]_vars

-----------------------------------------------------------------------------
(* Properties.                                                             *)

\* The images that have a series in what collector k serves.
Having(k, name) == {s.image : s \in {t \in published[k].series : t.name = name}}

\* The series of that name and image that k serves.
Served(k, name, i) ==
    {s \in published[k].series : s.name = name /\ s.image = i}

\* What is served is whole: each image that was listed has every one of its
\* series, whatever could not be read or was removed during the cycle
\* ("publishing that would silently shrink the exported series set",
\* collector.go:241).
PublishedIsWhole ==
    \A k \in Enabled : \A n \in DOMAIN Reads[k] :
       Having(k, Reads[k][n]) = published[k].history.listed

\* An image is served without an owner exactly when it carried no ownership key
\* when it was read; with one, its labels are its values and are empty where it
\* has none (rbd_images.go:185).
OwnersAreExact ==
    \A k \in Enabled \cap {"rbd_images"} :
       LET h == published[k].history IN
       \A i \in h.listed :
          Served(k, "owner", i) =
             IF \E key \in OwnerKeys : key \in DOMAIN h.saw[i]
             THEN {Series("owner", i, Labels(h.saw[i]))} ELSE {}

\* No limit configured stays distinguishable from a limit of 0, and from one that
\* could not be parsed (rbd_images.go:208).
LimitsAreExact ==
    \A k \in Enabled \cap {"rbd_images"}, n \in DOMAIN QoSKeys :
       LET h == published[k].history IN
       \A i \in h.listed :
          Served(k, QoSKeys[n], i) =
             IF QoSKeys[n] \in DOMAIN h.saw[i]
             THEN {Series(QoSKeys[n], i, Single(h.saw[i][QoSKeys[n]]))} ELSE {}

\* "a single unreadable pool or image cannot hide the metrics of all the others"
\* (rbd.go:46): what was read of the images that caused no error is served when
\* the cycle ends.
NoImageHidesOthers ==
    [][\A k \in Enabled : pc[k] = "image" /\ pc'[k] = "idle" =>
         {s \in out[k] : s.image \notin errs[k]} \subseteq published'[k].series]_vars

\* "Use the same interval for both if such a join has to be exact"
\* (README.md:195): when both collectors serve the result of the same tick, they
\* serve the same images.
JoinIsExact ==
    \A k, l \in Enabled :
       published[k].tick = published[l].tick =>
          Having(k, Reads[k][1]) = Having(l, Reads[l][1])
=============================================================================
