------------------------- MODULE ImageMetricsProofs -------------------------
(***************************************************************************)
(* Proofs about ImageMetrics for any images, any metadata, any choice of   *)
(* collectors and any number of cycles: its type invariant, that what is   *)
(* served is whole, and that owners and limits are exact.                  *)
(***************************************************************************)
EXTENDS ImageMetrics, TLAPS

\* The images that collector k has begun to visit in this cycle.
Visited(k) == history[k].listed \ names[k]

ReadNames(k) == {Reads[k][n] : n \in DOMAIN Reads[k]}
LimitNames == {QoSKeys[n] : n \in DOMAIN QoSKeys}
Extras(k) == IF k = "rbd_images" THEN {"owner"} \cup LimitNames ELSE {}

\* The names of the series that k sends of an image, and those yet to be tried.
SeriesNames(k) == ReadNames(k) \cup Extras(k)

Due(k, j) ==
    LET now == {due[k][n] : n \in DOMAIN due[k]} IN
    IF j # image[k] THEN {}
    ELSE CASE pc[k] = "read" -> now \cup Extras(k)
           [] pc[k] \in {"metadata", "owner"} -> Extras(k)
           [] pc[k] = "qos" -> now
           [] OTHER -> {}

\* The series sent of image j by name, and what they should be when it was seen
\* with metadata m.
Sent(k, name, j) == {s \in out[k] : s.name = name /\ s.image = j}

OwnerSeries(m, j) == IF Tagged(m) THEN {Series("owner", j, Labels(m))} ELSE {}

LimitSeries(m, key, j) ==
    IF key \in DOMAIN m THEN {Series(key, j, Single(m[key]))} ELSE {}

\* S is what is to be sent by that name, as the image was seen according to saw.
Right(k, name, j, saw, S) ==
    /\ name \in ReadNames(k) => S # {}
    /\ name = "owner" => j \in DOMAIN saw /\ S = OwnerSeries(saw[j], j)
    /\ name \in LimitNames => j \in DOMAIN saw /\ S = LimitSeries(saw[j], name, j)

\* Where a collector is, and what it has at hand there.
PlaceInv(k) ==
    /\ names[k] \subseteq history[k].listed
    /\ pc[k] \in {"idle", "list"} => names[k] = {}
    /\ pc[k] = "list" => errs[k] = {} /\ out[k] = {} /\ history[k] = NoHistory
    /\ pc[k] \in {"idle", "list", "image"} => image[k] = NoImage
    /\ pc[k] \notin {"idle", "list", "image"} => image[k] \in Visited(k)
    /\ pc[k] = "read" => \/ due[k] = Reads[k]
                         \/ k = "rbd_images" /\ due[k] = <<Reads[k][2]>>
    /\ pc[k] \in {"metadata", "owner", "qos"} => k = "rbd_images"
    /\ pc[k] = "owner" => due[k] = QoSKeys
    /\ pc[k] = "qos" => due[k] \in {QoSKeys, <<QoSKeys[2]>>}
    /\ pc[k] \in {"owner", "qos"} =>
          LET saw == history[k].saw IN
          image[k] \in DOMAIN saw /\ read[k] = Retained(saw[image[k]])

\* Of the images visited each series is due, or right, or an error was
\* accumulated; of the others nothing was sent.
SeriesInv(k) ==
    /\ \A s \in out[k] : s.image \in Visited(k)
    /\ \A j \in Visited(k), name \in SeriesNames(k) :
          IF name \in Due(k, j) THEN Sent(k, name, j) = {}
          ELSE \/ j \in errs[k]
               \/ Right(k, name, j, history[k].saw, Sent(k, name, j))

PlacesInv == \A k \in Enabled : PlaceInv(k)
AllSeriesInv == \A k \in Enabled : SeriesInv(k)

IInv == /\ TypeOK /\ PlacesInv /\ AllSeriesInv
        /\ PublishedIsWhole /\ OwnersAreExact /\ LimitsAreExact

-----------------------------------------------------------------------------
(* The names.                                                              *)

\* What each collector reads.
LEMMA ReadsAre ==
    /\ DOMAIN Reads = {"rbd_images", "rbd_image_usage", "rbd_volumes"}
    /\ Reads["rbd_images"] = <<"provisioned_bytes", "create_timestamp_seconds">>
    /\ Reads["rbd_image_usage"] = <<"used_bytes">>
    /\ Reads["rbd_volumes"] = <<"volume_size">>
BY DEF Reads

\* What a collector and the sequence it works through are called.
LEMMA NamesAre ==
    /\ ReadNames("rbd_images") = {"provisioned_bytes", "create_timestamp_seconds"}
    /\ ReadNames("rbd_image_usage") = {"used_bytes"}
    /\ ReadNames("rbd_volumes") = {"volume_size"}
    /\ LimitNames = {"conf_rbd_qos_read_iops_limit", "conf_rbd_qos_write_iops_limit"}
    /\ Consumed = OwnerKeys \cup LimitNames
<1>1. DOMAIN <<"provisioned_bytes", "create_timestamp_seconds">> = {1, 2}
  OBVIOUS
<1>2. DOMAIN QoSKeys = {1, 2}
  BY DEF QoSKeys
<1>3. LimitNames = {"conf_rbd_qos_read_iops_limit", "conf_rbd_qos_write_iops_limit"}
  BY <1>2 DEF LimitNames, QoSKeys
<1>4. DOMAIN <<"used_bytes">> = {1} /\ DOMAIN <<"volume_size">> = {1}
  OBVIOUS
<1>5. QED
  BY <1>1, <1>3, <1>4, ReadsAre DEF ReadNames, Consumed, LimitNames

\* No name is that of two kinds of series.
LEMMA NamesDiffer ==
    ASSUME NEW k \in DOMAIN Reads
    PROVE  /\ "owner" \notin ReadNames(k) /\ "owner" \notin LimitNames
           /\ ReadNames(k) \cap LimitNames = {}
BY ReadsAre, NamesAre

\* A sequence of two is worked through in two steps, one of one in one.
LEMMA Work ==
    ASSUME NEW a, NEW b
    PROVE  /\ <<a, b>> # <<>> /\ Len(<<a, b>>) = 2
           /\ Head(<<a, b>>) = a /\ Tail(<<a, b>>) = <<b>>
           /\ <<b>> # <<>> /\ Len(<<b>>) = 1
           /\ Head(<<b>>) = b /\ Tail(<<b>>) = <<>>
           /\ {<<a, b>>[n] : n \in DOMAIN <<a, b>>} = {a, b}
           /\ {<<b>>[n] : n \in DOMAIN <<b>>} = {b}
           /\ {<<>>[n] : n \in DOMAIN <<>>} = {}
<1>1. DOMAIN <<a, b>> = {1, 2} /\ DOMAIN <<b>> = {1} /\ DOMAIN <<>> = {}
  OBVIOUS
<1>2. /\ {<<a, b>>[n] : n \in DOMAIN <<a, b>>} = {a, b}
      /\ {<<b>>[n] : n \in DOMAIN <<b>>} = {b}
      /\ {<<>>[n] : n \in DOMAIN <<>>} = {}
  BY <1>1
<1>3. Tail(<<a, b>>) = <<b>> /\ Tail(<<b>>) = <<>>
  OBVIOUS
<1>4. QED
  BY <1>2, <1>3

\* Narrowed metadata has the same owner and limits.
LEMMA RetainedSame ==
    ASSUME NEW m
    PROVE  /\ DOMAIN Retained(m) = DOMAIN m \cap Consumed
           /\ Tagged(Retained(m)) <=> Tagged(m)
           /\ Labels(Retained(m)) = Labels(m)
           /\ \A key \in LimitNames : \A j :
                 LimitSeries(Retained(m), key, j) = LimitSeries(m, key, j)
<1>1. OwnerKeys \subseteq Consumed /\ LimitNames \subseteq Consumed
  BY NamesAre
<1>2. /\ DOMAIN Retained(m) = DOMAIN m \cap Consumed
      /\ \A key \in DOMAIN m \cap Consumed : Retained(m)[key] = m[key]
  BY DEF Retained
<1>3. Tagged(Retained(m)) <=> Tagged(m)
  BY <1>1, <1>2 DEF Tagged
<1>4. Labels(Retained(m)) = Labels(m)
  <2>1. \A key \in OwnerKeys :
           (IF key \in DOMAIN Retained(m) THEN Retained(m)[key] ELSE "")
              = IF key \in DOMAIN m THEN m[key] ELSE ""
    BY <1>1, <1>2
  <2>2. QED
    BY <2>1 DEF Labels
<1>5. \A key \in LimitNames : \A j :
         LimitSeries(Retained(m), key, j) = LimitSeries(m, key, j)
  BY <1>1, <1>2 DEF LimitSeries
<1>6. QED
  BY <1>2, <1>3, <1>4, <1>5

-----------------------------------------------------------------------------
(* The collectors.                                                         *)

\* The types of what belongs to a collector.
LEMMA Types ==
    ASSUME TypeOK
    PROVE  /\ Enabled \subseteq DOMAIN Reads
           /\ names \in [Enabled -> SUBSET Images]
           /\ image \in [Enabled -> Images \cup {NoImage}]
           /\ errs \in [Enabled -> SUBSET (Images \cup {NoImage})]
           /\ out \in [Enabled -> SUBSET AllSeries]
           /\ history \in [Enabled -> History]
           /\ DOMAIN due = Enabled /\ DOMAIN read = Enabled
           /\ published \in [Enabled -> [series : SUBSET AllSeries, tick : 0..MaxCycles,
                                         history : History]]
           /\ NoImage \notin Images
<1>1. Enabled \subseteq DOMAIN Reads
  BY ImageMetricsAssumption DEF TypeOK
<1>2. QED
  BY <1>1, ImageMetricsAssumption DEF TypeOK

\* The types of its history.
LEMMA HistoryTypes ==
    ASSUME TypeOK, NEW k \in Enabled
    PROVE  /\ history[k].listed \subseteq Images
           /\ history[k] = [listed |-> history[k].listed, saw |-> history[k].saw]
           /\ Visited(k) \subseteq Images
<1>1. history[k] \in History
  BY Types
<1>2. QED
  BY <1>1 DEF History, Visited

\* A collector keeps to its own, and stays enabled.
LEMMA Others ==
    ASSUME TypeOK, NEW k \in Enabled, CollectorStep(k)
    PROVE  /\ Enabled' = Enabled /\ UNCHANGED <<meta, tick>>
           /\ \A l \in Enabled \ {k} :
                 /\ pc'[l] = pc[l] /\ names'[l] = names[l] /\ image'[l] = image[l]
                 /\ due'[l] = due[l] /\ read'[l] = read[l] /\ errs'[l] = errs[l]
                 /\ out'[l] = out[l] /\ history'[l] = history[l]
                 /\ published'[l] = published[l]
<1>. USE DEF Goes, openVars, outVars
<1>0. /\ DOMAIN pc = Enabled /\ DOMAIN names = Enabled /\ DOMAIN image = Enabled
      /\ DOMAIN due = Enabled /\ DOMAIN read = Enabled /\ DOMAIN errs = Enabled
      /\ DOMAIN out = Enabled /\ DOMAIN history = Enabled
      /\ DOMAIN published = Enabled
  <2>1. DOMAIN pc = Enabled
    BY DEF Enabled
  <2>2. QED
    BY <2>1, Types
<1>1. CASE List(k) \/ Close(k) \/ Publish(k)
  BY <1>0, <1>1 DEF Enabled, List, Close, Publish, Fails
<1>2. CASE ReadHeader(k)
  BY <1>0, <1>2 DEF Enabled, ReadHeader, SendsOrFails, Sends, Fails
<1>3. CASE Usage(k)
  BY <1>0, <1>3 DEF Enabled, Usage, ReadValue, UsedBytes, SendsOrFails, Sends, Fails
<1>4. CASE Volume(k)
  BY <1>0, <1>4 DEF Enabled, Volume, ReadValue, SendsOrFails, Sends, Fails
<1>5. CASE ListMetadata(k)
  BY <1>0, <1>5 DEF Enabled, ListMetadata, Fails
<1>6. CASE EmitOwner(k)
  BY <1>0, <1>6 DEF Enabled, EmitOwner, SendsOrFails, Sends, Fails
<1>7. CASE EmitQoS(k)
  BY <1>0, <1>7 DEF Enabled, EmitQoS, Limit, SendsOrFails, Sends, Fails
<1>8. CASE \E i \in names[k] : Open(k, i)
  BY <1>0, <1>8 DEF Enabled, Open, CannotOpen, Fails
<1>9. QED
  BY <1>1, <1>2, <1>3, <1>4, <1>5, <1>6, <1>7, <1>8 DEF CollectorStep

\* What holds of a collector holds as long as nothing of it changes.
LEMMA Same ==
    ASSUME NEW l, pc'[l] = pc[l], names'[l] = names[l], image'[l] = image[l],
           due'[l] = due[l], read'[l] = read[l], errs'[l] = errs[l],
           out'[l] = out[l], history'[l] = history[l]
    PROVE  (PlaceInv(l) => PlaceInv(l)') /\ (SeriesInv(l) => SeriesInv(l)')
<1>1. Visited(l)' = Visited(l)
  BY DEF Visited
<1>2. \A j : Due(l, j)' = Due(l, j)
  BY DEF Due
<1>3. \A name, j : Sent(l, name, j)' = Sent(l, name, j)
  BY DEF Sent
<1>4. PlaceInv(l) => PlaceInv(l)'
  BY <1>1 DEF PlaceInv
<1>5. SeriesInv(l) => SeriesInv(l)'
  BY <1>1, <1>2, <1>3 DEF SeriesInv, Right
<1>6. QED
  BY <1>4, <1>5

\* Trying a series that is due: it is sent and right, or there is an error.
LEMMA Attempt ==
    ASSUME NEW k, SeriesInv(k), NEW j \in Visited(k), image[k] = j,
           NEW name \in Due(k, j),
           names'[k] = names[k], image'[k] = j, history'[k] = history[k],
           Due(k, j)' = Due(k, j) \ {name},
           \/ errs'[k] = errs[k] \cup {j} /\ out'[k] = out[k]
           \/ /\ errs'[k] = errs[k]
              /\ \E S : /\ out'[k] = out[k] \cup S
                        /\ \A s \in S : s.name = name /\ s.image = j
                        /\ Right(k, name, j, history[k].saw, S)
    PROVE  SeriesInv(k)'
<1>1. Visited(k)' = Visited(k)
  BY DEF Visited
<1>2. PICK S : /\ out'[k] = out[k] \cup S
               /\ \A s \in S : s.name = name /\ s.image = j
               /\ \/ errs'[k] = errs[k] \cup {j} /\ S = {}
                  \/ errs'[k] = errs[k] /\ Right(k, name, j, history[k].saw, S)
  OBVIOUS
<1>3. \A s \in out'[k] : s.image \in Visited(k)
  BY <1>2 DEF SeriesInv
<1>4. \A i : i # j => Due(k, i)' = Due(k, i) /\ Due(k, i) = {}
  BY DEF Due
<1>5. ASSUME NEW i, NEW n, i # j \/ n # name
      PROVE  Sent(k, n, i)' = Sent(k, n, i)
  BY <1>2, <1>5 DEF Sent
<1>6. Sent(k, name, j)' = Sent(k, name, j) \cup S
  BY <1>2 DEF Sent
<1>7. ASSUME NEW i \in Visited(k), NEW n \in SeriesNames(k)
      PROVE  IF n \in Due(k, i)' THEN Sent(k, n, i)' = {}
             ELSE \/ i \in errs'[k]
                  \/ Right(k, n, i, history[k].saw, Sent(k, n, i)')
  <2>1. IF n \in Due(k, i) THEN Sent(k, n, i) = {}
        ELSE i \in errs[k] \/ Right(k, n, i, history[k].saw, Sent(k, n, i))
    BY <1>7 DEF SeriesInv
  <2>2. CASE i = j /\ n = name
    <3>1. Sent(k, n, i) = {} /\ n \notin Due(k, i)'
      BY <2>1, <2>2
    <3>2. Sent(k, n, i)' = S
      BY <1>6, <2>2, <3>1
    <3>3. QED
      BY <1>2, <2>2, <3>1, <3>2
  <2>3. CASE i # j \/ n # name
    <3>1. Sent(k, n, i)' = Sent(k, n, i)
      BY <1>5, <2>3
    <3>2. n \in Due(k, i)' <=> n \in Due(k, i)
      BY <1>4, <2>3
    <3>3. QED
      BY <1>2, <2>1, <3>1, <3>2
  <2>4. QED
    BY <2>2, <2>3
<1>8. SeriesNames(k)' = SeriesNames(k)
  OBVIOUS
<1>9. QED
  BY <1>1, <1>3, <1>7 DEF SeriesInv, Right

\* The domains of what the collectors have.
LEMMA Domains ==
    ASSUME TypeOK
    PROVE  /\ DOMAIN pc = Enabled /\ DOMAIN names = Enabled /\ DOMAIN image = Enabled
           /\ DOMAIN due = Enabled /\ DOMAIN read = Enabled /\ DOMAIN errs = Enabled
           /\ DOMAIN out = Enabled /\ DOMAIN history = Enabled
           /\ DOMAIN published = Enabled
<1>1. DOMAIN pc = Enabled
  BY DEF Enabled
<1>2. QED
  BY <1>1, Types

-----------------------------------------------------------------------------
(* What each step does to the place and the series of its collector.       *)

\* A new cycle has nothing yet.
LEMMA ListStep ==
    ASSUME TypeOK, NEW k \in Enabled, PlaceInv(k), SeriesInv(k), List(k)
    PROVE  PlaceInv(k)' /\ SeriesInv(k)'
<1>1. /\ pc[k] = "list" /\ pc'[k] = "image"
      /\ image'[k] = image[k] /\ due'[k] = due[k] /\ read'[k] = read[k]
      /\ out'[k] = out[k]
  BY Domains DEF List, Goes
<1>2. image[k] = NoImage /\ out[k] = {} /\ names[k] = {} /\ history[k] = NoHistory
  BY <1>1 DEF PlaceInv
<1>3. names'[k] = history'[k].listed
  <2>1. \/ names'[k] = Existing /\ history' = [history EXCEPT ![k].listed = Existing]
        \/ names' = names /\ history' = history
    BY Domains DEF List
  <2>2. CASE names'[k] = Existing /\ history' = [history EXCEPT ![k].listed = Existing]
    <3>1. history'[k] = [history[k] EXCEPT !.listed = Existing]
      BY <2>2, Domains
    <3>2. history'[k].listed = Existing
      BY <1>2, <3>1 DEF NoHistory
    <3>3. QED
      BY <2>2, <3>2
  <2>3. CASE names' = names /\ history' = history
    BY <1>2, <2>3 DEF NoHistory
  <2>4. QED
    BY <2>1, <2>2, <2>3
<1>4. Visited(k)' = {}
  BY <1>3 DEF Visited
<1>5. PlaceInv(k)'
  BY <1>1, <1>2, <1>3 DEF PlaceInv
<1>6. SeriesInv(k)'
  BY <1>1, <1>2, <1>4 DEF SeriesInv
<1>7. QED
  BY <1>5, <1>6

\* An image that was opened has all its series due, one that was not has an error.
LEMMA OpenStep ==
    ASSUME TypeOK, NEW k \in Enabled, PlaceInv(k), SeriesInv(k),
           NEW i \in names[k], Open(k, i)
    PROVE  PlaceInv(k)' /\ SeriesInv(k)'
<1>1. /\ pc[k] = "image" /\ names'[k] = names[k] \ {i}
      /\ read'[k] = read[k] /\ out'[k] = out[k] /\ history'[k] = history[k]
      /\ \/ /\ pc'[k] = "read" /\ image'[k] = i /\ due'[k] = Reads[k]
            /\ errs'[k] = errs[k]
         \/ /\ pc'[k] = "image" /\ image'[k] = image[k] /\ due'[k] = due[k]
            /\ errs'[k] = errs[k] \cup {i}
  BY Domains DEF Open, Goes, CannotOpen, Fails
<1>2. image[k] = NoImage /\ names[k] \subseteq history[k].listed
  BY <1>1 DEF PlaceInv
<1>3. Visited(k)' = Visited(k) \cup {i} /\ i \notin Visited(k)
  BY <1>1, <1>2 DEF Visited
<1>4. i # NoImage /\ \A j \in Visited(k) : j # NoImage
  BY <1>2, HistoryTypes, Types
<1>5. PlaceInv(k)'
  BY <1>1, <1>2, <1>3, <1>4 DEF PlaceInv
<1>6. \A s \in out'[k] : s.image \in Visited(k)'
  BY <1>1, <1>3 DEF SeriesInv
<1>7. \A name : Sent(k, name, i)' = {}
  BY <1>1, <1>3 DEF Sent, SeriesInv
<1>8. \A name, j : Sent(k, name, j)' = Sent(k, name, j)
  BY <1>1 DEF Sent
<1>9. \A j \in Visited(k) : Due(k, j) = {} /\ Due(k, j)' = {}
  BY <1>1, <1>2, <1>3, <1>4 DEF Due
<1>10. i \in errs'[k] \/ Due(k, i)' = SeriesNames(k)
  BY <1>1 DEF Due, SeriesNames, ReadNames
<1>11. ASSUME NEW j \in Visited(k)', NEW name \in SeriesNames(k)
       PROVE  IF name \in Due(k, j)' THEN Sent(k, name, j)' = {}
              ELSE \/ j \in errs'[k]
                   \/ Right(k, name, j, history'[k].saw, Sent(k, name, j)')
  <2>1. CASE j = i
    BY <1>7, <1>10, <2>1
  <2>2. CASE j \in Visited(k)
    <3>1. j \in errs[k] \/ Right(k, name, j, history[k].saw, Sent(k, name, j))
      BY <1>9, <2>2 DEF SeriesInv
    <3>2. QED
      BY <1>1, <1>8, <1>9, <2>2, <3>1
  <2>3. QED
    BY <1>3, <2>1, <2>2
<1>12. SeriesInv(k)'
  BY <1>6, <1>11 DEF SeriesInv, Right, SeriesNames, ReadNames, Extras
<1>13. QED
  BY <1>5, <1>12

\* With the image closed nothing is due.
LEMMA CloseStep ==
    ASSUME TypeOK, NEW k \in Enabled, PlaceInv(k), SeriesInv(k), Close(k)
    PROVE  PlaceInv(k)' /\ SeriesInv(k)'
<1>1. /\ pc[k] = "close" /\ pc'[k] = "image" /\ image'[k] = NoImage
      /\ names'[k] = names[k] /\ out'[k] = out[k] /\ history'[k] = history[k]
      /\ errs[k] \subseteq errs'[k]
  BY Domains DEF Close, Goes, Fails
<1>2. Visited(k)' = Visited(k) /\ \A name, j : Sent(k, name, j)' = Sent(k, name, j)
  BY <1>1 DEF Visited, Sent
<1>3. \A j : Due(k, j) = {} /\ Due(k, j)' = {}
  BY <1>1 DEF Due
<1>4. PlaceInv(k)'
  BY <1>1 DEF PlaceInv
<1>5. SeriesInv(k)'
  BY <1>1, <1>2, <1>3 DEF SeriesInv, Right, SeriesNames, ReadNames, Extras
<1>6. QED
  BY <1>4, <1>5

\* The walk ends with every image visited.
LEMMA PublishStep ==
    ASSUME TypeOK, NEW k \in Enabled, PlaceInv(k), SeriesInv(k), Publish(k)
    PROVE  PlaceInv(k)' /\ SeriesInv(k)'
<1>1. /\ pc[k] = "image" /\ pc'[k] = "idle" /\ names[k] = {}
      /\ image'[k] = image[k] /\ names'[k] = names[k] /\ out'[k] = out[k]
      /\ history'[k] = history[k] /\ errs'[k] = errs[k]
  BY Domains DEF Publish, Goes
<1>2. Visited(k)' = Visited(k) /\ \A name, j : Sent(k, name, j)' = Sent(k, name, j)
  BY <1>1 DEF Visited, Sent
<1>3. \A j : Due(k, j) = {} /\ Due(k, j)' = {}
  BY <1>1 DEF Due
<1>4. PlaceInv(k)'
  BY <1>1 DEF PlaceInv
<1>5. SeriesInv(k)'
  BY <1>1, <1>2, <1>3 DEF SeriesInv, Right, SeriesNames, ReadNames, Extras
<1>6. QED
  BY <1>4, <1>5

\* What a call that succeeds or fails makes of series and errors.
LEMMA SentOrFailed ==
    ASSUME TypeOK, NEW k \in Enabled, NEW ok, NEW s, SendsOrFails(k, ok, s)
    PROVE  \/ ok /\ errs'[k] = errs[k] /\ out'[k] = out[k] \cup {s}
           \/ errs'[k] = errs[k] \cup {image[k]} /\ out'[k] = out[k]
BY Domains DEF SendsOrFails, Sends, Fails

\* The same for one series, which is sent unless there is an error.
LEMMA AttemptOne ==
    ASSUME NEW k, SeriesInv(k), NEW j \in Visited(k), image[k] = j,
           NEW name \in Due(k, j),
           names'[k] = names[k], image'[k] = j, history'[k] = history[k],
           Due(k, j)' = Due(k, j) \ {name},
           NEW s, s.name = name, s.image = j,
           Right(k, name, j, history[k].saw, {s}),
           \/ errs'[k] = errs[k] \cup {j} /\ out'[k] = out[k]
           \/ errs'[k] = errs[k] /\ out'[k] = out[k] \cup {s}
    PROVE  SeriesInv(k)'
<1>1. CASE errs'[k] = errs[k] \cup {j} /\ out'[k] = out[k]
  BY <1>1, Attempt
<1>2. CASE errs'[k] = errs[k] /\ out'[k] = out[k] \cup {s}
  <2>1. \E S : /\ out'[k] = out[k] \cup S
               /\ \A x \in S : x.name = name /\ x.image = j
               /\ Right(k, name, j, history[k].saw, S)
    <3>1. WITNESS {s}
    <3>2. QED
      BY <1>2
  <2>2. QED
    BY <1>2, <2>1, Attempt
<1>3. QED
  BY <1>1, <1>2

\* A series that was read is right.
LEMMA ReadIsRight ==
    ASSUME NEW k \in DOMAIN Reads, NEW name \in ReadNames(k), NEW j, NEW saw, NEW v
    PROVE  /\ Right(k, name, j, saw, {Series(name, j, v)})
           /\ Series(name, j, v).name = name /\ Series(name, j, v).image = j
BY NamesDiffer DEF Right, Series

\* The first of the values read is size, the second the creation.
LEMMA HeaderStep ==
    ASSUME TypeOK, NEW k \in Enabled, PlaceInv(k), SeriesInv(k), ReadHeader(k)
    PROVE  PlaceInv(k)' /\ SeriesInv(k)'
<1>. DEFINE a == Reads[k][1]
            b == Reads[k][2]
<1>1. k = "rbd_images" /\ k \in DOMAIN Reads
  BY Types DEF ReadHeader
<1>2. Reads[k] = <<a, b>> /\ ReadNames(k) = {a, b} /\ a # b
  BY <1>1, ReadsAre, NamesAre
<1>3. {a, b} \cap Extras(k) = {}
  BY <1>1, <1>2, NamesDiffer DEF Extras
<1>. HIDE DEF a, b
<1>4. /\ pc[k] = "read" /\ due[k] \in {<<a, b>>, <<b>>} /\ image[k] \in Visited(k)
      /\ names[k] \subseteq history[k].listed
  BY <1>2 DEF ReadHeader, Goes, PlaceInv, b
<1>5. PICK ok \in BOOLEAN :
         SendsOrFails(k, ok, Series(Head(due[k]), image[k], Single("v")))
  BY DEF ReadHeader
<1>6. /\ pc'[k] = IF Len(due[k]) > 1 THEN "read" ELSE "metadata"
      /\ due'[k] = Tail(due[k])
      /\ names'[k] = names[k] /\ image'[k] = image[k] /\ read'[k] = read[k]
      /\ history'[k] = history[k]
  BY Domains DEF ReadHeader, Goes
<1>7. Visited(k)' = Visited(k)
  BY <1>6 DEF Visited
<1>8. CASE due[k] = <<a, b>>
  <2>1. pc'[k] = "read" /\ due'[k] = <<b>> /\ Head(due[k]) = a
    BY <1>6, <1>8, Work
  <2>2. Due(k, image[k]) = {a, b} \cup Extras(k)
    BY <1>4, <1>8, Work DEF Due
  <2>3. Due(k, image[k])' = {b} \cup Extras(k)
    <3>1. {due'[k][n] : n \in DOMAIN due'[k]} = {b}
      BY <2>1, Work
    <3>2. QED
      BY <1>6, <2>1, <3>1 DEF Due, Extras, LimitNames
  <2>4. PlaceInv(k)'
    BY <1>1, <1>4, <1>6, <1>7, <2>1 DEF PlaceInv, b
  <2>5. SeriesInv(k)'
    <3>1. Due(k, image[k])' = Due(k, image[k]) \ {a} /\ a \in Due(k, image[k])
      BY <1>2, <1>3, <2>2, <2>3
    <3>2. \/ /\ errs'[k] = errs[k]
             /\ out'[k] = out[k] \cup {Series(a, image[k], Single("v"))}
          \/ errs'[k] = errs[k] \cup {image[k]} /\ out'[k] = out[k]
      BY <1>5, <2>1, SentOrFailed
    <3>3. PICK j \in Visited(k) : j = image[k]
      BY <1>4
    <3>4. Due(k, j)' = Due(k, j) \ {a}
      BY <1>6, <3>1, <3>3 DEF Due
    <3>. DEFINE sent == Series(a, j, Single("v"))
    <3>5. /\ Right(k, a, j, history[k].saw, {sent})
          /\ sent.name = a /\ sent.image = j
      BY <1>1, <1>2, ReadIsRight
    <3>6. \/ errs'[k] = errs[k] \cup {j} /\ out'[k] = out[k]
          \/ errs'[k] = errs[k] /\ out'[k] = out[k] \cup {sent}
      BY <3>2, <3>3
    <3>7. a \in Due(k, j) /\ image'[k] = j /\ image[k] = j
      BY <1>6, <3>1, <3>3
    <3>. HIDE DEF sent
    <3>8. QED
      BY <1>6, <3>4, <3>5, <3>6, <3>7, AttemptOne
  <2>6. QED
    BY <2>4, <2>5
<1>9. CASE due[k] = <<b>>
  <2>1. pc'[k] = "metadata" /\ Head(due[k]) = b
    BY <1>6, <1>9, Work
  <2>2. Due(k, image[k]) = {b} \cup Extras(k)
    BY <1>4, <1>9, Work DEF Due
  <2>3. Due(k, image[k])' = Extras(k)
    BY <1>6, <2>1 DEF Due, Extras, LimitNames
  <2>4. PlaceInv(k)'
    BY <1>1, <1>4, <1>6, <1>7, <2>1 DEF PlaceInv
  <2>5. SeriesInv(k)'
    <3>1. Due(k, image[k])' = Due(k, image[k]) \ {b} /\ b \in Due(k, image[k])
      BY <1>2, <1>3, <2>2, <2>3
    <3>2. \/ /\ errs'[k] = errs[k]
             /\ out'[k] = out[k] \cup {Series(b, image[k], Single("v"))}
          \/ errs'[k] = errs[k] \cup {image[k]} /\ out'[k] = out[k]
      BY <1>5, <2>1, SentOrFailed
    <3>3. PICK j \in Visited(k) : j = image[k]
      BY <1>4
    <3>4. Due(k, j)' = Due(k, j) \ {b}
      BY <1>6, <3>1, <3>3 DEF Due
    <3>. DEFINE sent == Series(b, j, Single("v"))
    <3>5. /\ Right(k, b, j, history[k].saw, {sent})
          /\ sent.name = b /\ sent.image = j
      BY <1>1, <1>2, ReadIsRight
    <3>6. \/ errs'[k] = errs[k] \cup {j} /\ out'[k] = out[k]
          \/ errs'[k] = errs[k] /\ out'[k] = out[k] \cup {sent}
      BY <3>2, <3>3
    <3>7. b \in Due(k, j) /\ image'[k] = j /\ image[k] = j
      BY <1>6, <3>1, <3>3
    <3>. HIDE DEF sent
    <3>8. QED
      BY <1>6, <3>4, <3>5, <3>6, <3>7, AttemptOne
  <2>6. QED
    BY <2>4, <2>5
<1>10. QED
  BY <1>4, <1>8, <1>9

\* The other collectors have one series.
LEMMA ValueStep ==
    ASSUME TypeOK, NEW k \in Enabled, PlaceInv(k), SeriesInv(k), Usage(k) \/ Volume(k)
    PROVE  PlaceInv(k)' /\ SeriesInv(k)'
<1>. DEFINE a == Reads[k][1]
<1>1. k # "rbd_images" /\ k \in DOMAIN Reads
  BY Types DEF Usage, Volume
<1>2. Reads[k] = <<a>> /\ ReadNames(k) = {a} /\ Extras(k) = {}
  BY <1>1, ReadsAre, NamesAre DEF Extras
<1>. HIDE DEF a
<1>3. ReadValue(k) /\ \E ok \in BOOLEAN :
         SendsOrFails(k, ok, Series(Head(due[k]), image[k], Single("v")))
  BY DEF Usage, Volume, UsedBytes
<1>4. PICK ok \in BOOLEAN :
         SendsOrFails(k, ok, Series(Head(due[k]), image[k], Single("v")))
  BY <1>3
<1>5. /\ pc[k] = "read" /\ pc'[k] = "close"
      /\ names'[k] = names[k] /\ image'[k] = image[k] /\ history'[k] = history[k]
  BY <1>3, Domains DEF ReadValue, Goes
<1>6. due[k] = <<a>> /\ image[k] \in Visited(k) /\ names[k] \subseteq history[k].listed
  BY <1>1, <1>2, <1>5 DEF PlaceInv
<1>7. Visited(k)' = Visited(k)
  BY <1>5 DEF Visited
<1>8. PlaceInv(k)'
  BY <1>5, <1>6, <1>7 DEF PlaceInv
<1>9. SeriesInv(k)'
  <2>1. PICK j \in Visited(k) : j = image[k]
    BY <1>6
  <2>2. Due(k, j) = {a} /\ Due(k, j)' = {} /\ Head(due[k]) = a
    BY <1>2, <1>5, <1>6, <2>1, Work DEF Due
  <2>3. \/ errs'[k] = errs[k] /\ out'[k] = out[k] \cup {Series(a, j, Single("v"))}
        \/ errs'[k] = errs[k] \cup {j} /\ out'[k] = out[k]
    BY <1>4, <2>1, <2>2, SentOrFailed
  <2>4. a \in Due(k, j) /\ Due(k, j)' = Due(k, j) \ {a}
    BY <2>2
  <2>. DEFINE sent == Series(a, j, Single("v"))
  <2>5. /\ Right(k, a, j, history[k].saw, {sent})
        /\ sent.name = a /\ sent.image = j
    BY <1>1, <1>2, ReadIsRight
  <2>6. \/ errs'[k] = errs[k] \cup {j} /\ out'[k] = out[k]
        \/ errs'[k] = errs[k] /\ out'[k] = out[k] \cup {sent}
    BY <2>3
  <2>7. image'[k] = j /\ image[k] = j
    BY <1>5, <2>1
  <2>. HIDE DEF sent
  <2>8. QED
    BY <1>5, <2>4, <2>5, <2>6, <2>7, AttemptOne
<1>10. QED
  BY <1>8, <1>9

\* The metadata is read once, before the series that come from it.
LEMMA MetadataStep ==
    ASSUME TypeOK, NEW k \in Enabled, PlaceInv(k), SeriesInv(k), ListMetadata(k)
    PROVE  PlaceInv(k)' /\ SeriesInv(k)'
<1>1. /\ pc[k] = "metadata"
      /\ names'[k] = names[k] /\ image'[k] = image[k] /\ out'[k] = out[k]
      /\ k \in DOMAIN Reads
  BY Types, Domains DEF ListMetadata, Goes
<1>2. k = "rbd_images" /\ image[k] \in Visited(k) /\ names[k] \subseteq history[k].listed
  BY <1>1 DEF PlaceInv
<1>3. \A name, j : Sent(k, name, j)' = Sent(k, name, j)
  BY <1>1 DEF Sent
<1>4. \A j : Due(k, j) = IF j = image[k] THEN Extras(k) ELSE {}
  BY <1>1 DEF Due
<1>. DEFINE j0 == image[k]
<1>5. CASE /\ pc'[k] = "owner" /\ due'[k] = QoSKeys /\ read'[k] = Retained(meta[j0])
           /\ history'[k] = Saw(k) /\ errs'[k] = errs[k]
  <2>. DEFINE old == history[k].saw
              new == history'[k].saw
  <2>1. /\ new = [i \in DOMAIN old \cup {j0} |-> IF i = j0 THEN meta[i] ELSE old[i]]
        /\ history'[k].listed = history[k].listed
    <3>1. history[k] = [listed |-> history[k].listed, saw |-> old]
      BY HistoryTypes
    <3>2. QED
      BY <1>5, <3>1 DEF Saw
  <2>2. /\ DOMAIN new = DOMAIN old \cup {j0} /\ new[j0] = meta[j0]
        /\ \A i \in DOMAIN old : i # j0 => new[i] = old[i]
    BY <2>1
  <2>3. Visited(k)' = Visited(k)
    BY <1>1, <2>1 DEF Visited
  <2>4. PlaceInv(k)'
    <3>1. j0 \in DOMAIN new /\ read'[k] = Retained(new[j0])
      BY <1>5, <2>2
    <3>. HIDE DEF new
    <3>2. history'[k].saw = new
      BY DEF new
    <3>3. QED
      BY <1>1, <1>2, <1>5, <2>1, <2>3, <3>1, <3>2 DEF PlaceInv
  <2>5. \A j : Due(k, j)' = Due(k, j)
    BY <1>1, <1>4, <1>5 DEF Due, Extras, LimitNames
  <2>6. ASSUME NEW j \in Visited(k), NEW name \in SeriesNames(k),
               Right(k, name, j, old, Sent(k, name, j)), name \notin Due(k, j)
        PROVE  Right(k, name, j, new, Sent(k, name, j))
    <3>. HIDE DEF old, new
    <3>1. CASE j = j0
      <4>1. name \in ReadNames(k)
        BY <1>4, <2>6, <3>1 DEF SeriesNames
      <4>2. QED
        BY <1>1, <2>6, <4>1, NamesDiffer DEF Right
    <3>2. CASE j # j0
      BY <2>2, <2>6, <3>2 DEF Right
    <3>3. QED
      BY <3>1, <3>2
  <2>7. ASSUME NEW j \in Visited(k), NEW name \in SeriesNames(k)
        PROVE  IF name \in Due(k, j)' THEN Sent(k, name, j)' = {}
               ELSE j \in errs'[k] \/ Right(k, name, j, new, Sent(k, name, j)')
    BY <1>3, <1>5, <2>5, <2>6 DEF SeriesInv
  <2>8. SeriesInv(k)'
    BY <1>1, <2>3, <2>7 DEF SeriesInv, Right, SeriesNames, ReadNames, Extras
  <2>9. QED
    BY <2>4, <2>8
<1>6. CASE /\ pc'[k] = "close" /\ errs'[k] = errs[k] \cup {j0}
           /\ history'[k] = history[k]
  <2>1. Visited(k)' = Visited(k)
    BY <1>1, <1>6 DEF Visited
  <2>2. PlaceInv(k)'
    BY <1>1, <1>2, <1>6, <2>1 DEF PlaceInv
  <2>3. \A j : Due(k, j)' = {}
    BY <1>6 DEF Due
  <2>4. ASSUME NEW j \in Visited(k), NEW name \in SeriesNames(k)
        PROVE  \/ j \in errs'[k]
               \/ Right(k, name, j, history[k].saw, Sent(k, name, j)')
    BY <1>3, <1>4, <1>6 DEF SeriesInv
  <2>5. SeriesInv(k)'
    BY <1>1, <1>6, <2>1, <2>3, <2>4
       DEF SeriesInv, Right, SeriesNames, ReadNames, Extras
  <2>6. QED
    BY <2>2, <2>5
<1>7. QED
  BY <1>1, <1>5, <1>6, Domains DEF ListMetadata, Goes, Fails

\* The owner is that of the metadata read.
LEMMA OwnerStep ==
    ASSUME TypeOK, NEW k \in Enabled, PlaceInv(k), SeriesInv(k), EmitOwner(k)
    PROVE  PlaceInv(k)' /\ SeriesInv(k)'
<1>1. /\ pc[k] = "owner" /\ pc'[k] = "qos"
      /\ names'[k] = names[k] /\ image'[k] = image[k] /\ due'[k] = due[k]
      /\ read'[k] = read[k] /\ history'[k] = history[k] /\ k \in DOMAIN Reads
  BY Types, Domains DEF EmitOwner, Goes, openVars
<1>2. k = "rbd_images" /\ due[k] = QoSKeys /\ image[k] \in Visited(k)
        /\ names[k] \subseteq history[k].listed
  BY <1>1 DEF PlaceInv
<1>3. PICK j \in Visited(k) : j = image[k]
  BY <1>2
<1>. DEFINE saw == history[k].saw
<1>4. j \in DOMAIN saw /\ read[k] = Retained(saw[j])
  BY <1>1, <1>3 DEF PlaceInv
<1>5. PlaceInv(k)'
  <2>1. Visited(k)' = Visited(k)
    BY <1>1 DEF Visited
  <2>2. QED
    BY <1>1, <1>2, <1>3, <1>4, <2>1 DEF PlaceInv
<1>6. Due(k, j) = {"owner"} \cup LimitNames /\ Due(k, j)' = LimitNames
  <2>1. Due(k, j) = {"owner"} \cup LimitNames
    BY <1>1, <1>2, <1>3 DEF Due, Extras
  <2>2. Due(k, j)' = LimitNames
    BY <1>1, <1>2, <1>3 DEF Due, LimitNames
  <2>3. QED
    BY <2>1, <2>2
<1>7. "owner" \in Due(k, j) /\ Due(k, j)' = Due(k, j) \ {"owner"}
  BY <1>1, <1>6, NamesDiffer
<1>8. Tagged(read[k]) <=> Tagged(saw[j])
  BY <1>4, RetainedSame
<1>9. \A S : S = OwnerSeries(saw[j], j) => Right(k, "owner", j, saw, S)
  BY <1>1, <1>4, NamesDiffer DEF Right
<1>. DEFINE sent == Series("owner", j, Labels(saw[j]))
<1>10. CASE Tagged(saw[j])
  <2>1. PICK ok \in BOOLEAN : SendsOrFails(k, ok, sent)
    <3>1. Labels(read[k]) = Labels(saw[j])
      BY <1>4, RetainedSame
    <3>2. SendsOrFails(k, \A key \in OwnerKeys : Labels(read[k])[key] # "bad",
                       Series("owner", image[k], Labels(read[k])))
      BY <1>8, <1>10 DEF EmitOwner
    <3>3. QED
      BY <1>3, <3>1, <3>2
  <2>2. \/ errs'[k] = errs[k] \cup {j} /\ out'[k] = out[k]
        \/ errs'[k] = errs[k] /\ out'[k] = out[k] \cup {sent}
    BY <1>3, <2>1, SentOrFailed
  <2>3. sent.name = "owner" /\ sent.image = j
    BY DEF Series
  <2>4. Right(k, "owner", j, saw, {sent})
    BY <1>9, <1>10 DEF OwnerSeries
  <2>. HIDE DEF sent
  <2>5. QED
    BY <1>1, <1>3, <1>5, <1>7, <2>2, <2>3, <2>4, AttemptOne
<1>11. CASE ~Tagged(saw[j])
  <2>1. errs'[k] = errs[k] /\ out'[k] = out[k]
    BY <1>8, <1>11 DEF EmitOwner, outVars
  <2>2. Right(k, "owner", j, saw, {})
    BY <1>9, <1>11 DEF OwnerSeries
  <2>3. \E S : /\ out'[k] = out[k] \cup S
               /\ \A x \in S : x.name = "owner" /\ x.image = j
               /\ Right(k, "owner", j, history[k].saw, S)
    <3>1. WITNESS {}
    <3>2. QED
      BY <2>1, <2>2
  <2>4. QED
    BY <1>1, <1>3, <1>5, <1>7, <2>1, <2>3, Attempt
<1>12. QED
  BY <1>10, <1>11

\* A limit that is there is sent, or does not parse.
LEMMA LimitIsTried ==
    ASSUME TypeOK, NEW k \in Enabled, SeriesInv(k), k = "rbd_images",
           NEW j \in Visited(k), image[k] = j,
           NEW key \in LimitNames, key \in Due(k, j), Limit(k, key),
           names'[k] = names[k], image'[k] = j, history'[k] = history[k],
           Due(k, j)' = Due(k, j) \ {key},
           j \in DOMAIN history[k].saw, read[k] = Retained(history[k].saw[j])
    PROVE  SeriesInv(k)'
<1>. DEFINE saw == history[k].saw
            sent == Series(key, j, Single(read[k][key]))
<1>1. LimitSeries(read[k], key, j) = LimitSeries(saw[j], key, j)
  <2>1. \A m : LimitSeries(Retained(m), key, j) = LimitSeries(m, key, j)
    BY RetainedSame
  <2>2. QED
    BY <2>1
<1>2. Right(k, key, j, saw, LimitSeries(read[k], key, j))
  <2>1. key # "owner" /\ key \notin ReadNames(k)
    BY Types, NamesDiffer
  <2>2. QED
    BY <1>1, <2>1 DEF Right
<1>3. CASE key \in DOMAIN read[k]
  <2>1. LimitSeries(read[k], key, j) = {sent} /\ sent.name = key /\ sent.image = j
    BY <1>3 DEF LimitSeries, Series
  <2>2. PICK ok \in BOOLEAN : SendsOrFails(k, ok, sent)
    BY <1>3 DEF Limit
  <2>3. \/ errs'[k] = errs[k] \cup {j} /\ out'[k] = out[k]
        \/ errs'[k] = errs[k] /\ out'[k] = out[k] \cup {sent}
    BY <2>2, SentOrFailed
  <2>4. Right(k, key, j, history[k].saw, {sent})
    BY <1>2, <2>1
  <2>. HIDE DEF sent
  <2>5. QED
    BY <2>1, <2>3, <2>4, AttemptOne
<1>4. CASE key \notin DOMAIN read[k]
  <2>1. errs'[k] = errs[k] /\ out'[k] = out[k]
    BY <1>4 DEF Limit, outVars
  <2>2. Right(k, key, j, saw, {})
    BY <1>2, <1>4 DEF LimitSeries
  <2>3. \E S : /\ out'[k] = out[k] \cup S
               /\ \A x \in S : x.name = key /\ x.image = j
               /\ Right(k, key, j, history[k].saw, S)
    <3>1. WITNESS {}
    <3>2. QED
      BY <2>1, <2>2
  <2>4. QED
    BY <2>1, <2>3, Attempt
<1>5. QED
  BY <1>3, <1>4

\* Each limit is tried, one after the other.
LEMMA LimitStep ==
    ASSUME TypeOK, NEW k \in Enabled, PlaceInv(k), SeriesInv(k), EmitQoS(k)
    PROVE  PlaceInv(k)' /\ SeriesInv(k)'
<1>. DEFINE a == QoSKeys[1]
            b == QoSKeys[2]
<1>1. QoSKeys = <<a, b>> /\ LimitNames = {a, b} /\ a # b
  BY NamesAre DEF QoSKeys
<1>. HIDE DEF a, b
<1>2. /\ pc[k] = "qos" /\ Limit(k, Head(due[k]))
      /\ pc'[k] = IF Len(due[k]) > 1 THEN "qos" ELSE "close"
      /\ names'[k] = names[k] /\ image'[k] = image[k] /\ due'[k] = Tail(due[k])
      /\ read'[k] = read[k] /\ history'[k] = history[k]
  BY Domains DEF EmitQoS, Goes
<1>3. /\ k = "rbd_images" /\ due[k] \in {<<a, b>>, <<b>>} /\ image[k] \in Visited(k)
      /\ names[k] \subseteq history[k].listed
  BY <1>1, <1>2 DEF PlaceInv, b
<1>4. PICK j \in Visited(k) : j = image[k]
  BY <1>3
<1>5. j \in DOMAIN history[k].saw /\ read[k] = Retained(history[k].saw[j])
  BY <1>2, <1>4 DEF PlaceInv
<1>6. Visited(k)' = Visited(k)
  BY <1>2 DEF Visited
<1>7. CASE due[k] = <<a, b>>
  <2>1. pc'[k] = "qos" /\ due'[k] = <<b>> /\ Head(due[k]) = a
    BY <1>2, <1>7, Work
  <2>2. Due(k, j) = {a, b}
    BY <1>2, <1>4, <1>7, Work DEF Due
  <2>3. Due(k, j)' = {b}
    <3>1. {due'[k][n] : n \in DOMAIN due'[k]} = {b}
      BY <2>1, Work
    <3>2. QED
      BY <1>2, <1>4, <2>1, <3>1 DEF Due
  <2>4. PlaceInv(k)'
    BY <1>1, <1>2, <1>3, <1>4, <1>5, <1>6, <2>1 DEF PlaceInv, b
  <2>5. SeriesInv(k)'
    <3>1. a \in Due(k, j) /\ Due(k, j)' = Due(k, j) \ {a}
      BY <1>1, <2>2, <2>3
    <3>2. QED
      BY <1>1, <1>2, <1>3, <1>4, <1>5, <2>1, <3>1, LimitIsTried
  <2>6. QED
    BY <2>4, <2>5
<1>8. CASE due[k] = <<b>>
  <2>1. pc'[k] = "close" /\ Head(due[k]) = b
    BY <1>2, <1>8, Work
  <2>2. Due(k, j) = {b} /\ Due(k, j)' = {}
    BY <1>2, <1>4, <1>8, <2>1, Work DEF Due
  <2>3. PlaceInv(k)'
    BY <1>2, <1>3, <1>4, <1>6, <2>1 DEF PlaceInv
  <2>4. SeriesInv(k)'
    <3>1. b \in Due(k, j) /\ Due(k, j)' = Due(k, j) \ {b}
      BY <2>2
    <3>2. QED
      BY <1>1, <1>2, <1>3, <1>4, <1>5, <2>1, <3>1, LimitIsTried
  <2>5. QED
    BY <2>3, <2>4
<1>9. QED
  BY <1>3, <1>7, <1>8

\* Together, for whichever collector takes a step.
LEMMA CollectorInvStep ==
    ASSUME TypeOK, NEW k \in Enabled, PlaceInv(k), SeriesInv(k), CollectorStep(k)
    PROVE  PlaceInv(k)' /\ SeriesInv(k)'
BY ListStep, OpenStep, CloseStep, PublishStep, HeaderStep, ValueStep, MetadataStep,
   OwnerStep, LimitStep DEF CollectorStep

\* The images may change at any time, and nothing of a collector with them.
LEMMA CollectorsStep ==
    TypeOK /\ PlacesInv /\ AllSeriesInv /\ [Next]_vars => PlacesInv' /\ AllSeriesInv'
<1>. SUFFICES ASSUME TypeOK, PlacesInv, AllSeriesInv, [Next]_vars
              PROVE  PlacesInv' /\ AllSeriesInv'
  OBVIOUS
<1>1. CASE Tick
  <2>1. /\ Enabled' = Enabled /\ UNCHANGED <<names, image>>
        /\ \A k \in Enabled : /\ pc[k] = "idle" /\ pc'[k] = "list"
                              /\ errs'[k] = {} /\ out'[k] = {}
                              /\ history'[k] = NoHistory
    BY <1>1 DEF Tick, Enabled
  <2>2. ASSUME NEW k \in Enabled PROVE PlaceInv(k)' /\ SeriesInv(k)'
    <3>1. names[k] = {} /\ image[k] = NoImage
      BY <2>1 DEF PlacesInv, PlaceInv
    <3>2. Visited(k)' = {}
      BY <2>1 DEF Visited, NoHistory
    <3>3. QED
      BY <2>1, <3>1, <3>2 DEF PlaceInv, SeriesInv
  <2>3. QED
    BY <2>1, <2>2 DEF PlacesInv, AllSeriesInv
<1>2. CASE \E k \in Enabled : CollectorStep(k)
  <2>1. PICK k \in Enabled : CollectorStep(k)
    BY <1>2
  <2>2. PlaceInv(k)' /\ SeriesInv(k)'
    BY <2>1, CollectorInvStep DEF PlacesInv, AllSeriesInv
  <2>3. ASSUME NEW l \in Enabled, l # k PROVE PlaceInv(l)' /\ SeriesInv(l)'
    BY <2>1, <2>3, Others, Same DEF PlacesInv, AllSeriesInv
  <2>4. Enabled' = Enabled
    BY <2>1, Others
  <2>5. QED
    BY <2>2, <2>3, <2>4 DEF PlacesInv, AllSeriesInv
<1>3. CASE (\E i \in Images : Tag(i) \/ Delete(i)) \/ UNCHANGED vars
  <2>1. UNCHANGED <<pc, names, image, due, read, errs, out, history>>
    BY <1>3 DEF Tag, Delete, vars, openVars, outVars
  <2>2. Enabled' = Enabled
    BY <2>1 DEF Enabled
  <2>3. \A k \in Enabled : PlaceInv(k)' /\ SeriesInv(k)'
    BY <2>1, Same DEF PlacesInv, AllSeriesInv
  <2>4. QED
    BY <2>2, <2>3 DEF PlacesInv, AllSeriesInv
<1>4. QED
  BY <1>1, <1>2, <1>3 DEF Next

-----------------------------------------------------------------------------
(* What is served.                                                         *)

\* Without an error the series at the end of a cycle are right, each of them.
LEMMA CompleteIsRight ==
    ASSUME NEW k, PlaceInv(k), SeriesInv(k),
           pc[k] = "image", names[k] = {}, errs[k] = {}
    PROVE  /\ \A s \in out[k] : s.image \in history[k].listed
           /\ \A j \in history[k].listed, name \in SeriesNames(k) :
                 Right(k, name, j, history[k].saw, Sent(k, name, j))
<1>1. Visited(k) = history[k].listed
  BY DEF Visited
<1>2. \A j : Due(k, j) = {}
  BY DEF Due
<1>3. QED
  BY <1>1, <1>2 DEF SeriesInv

\* Only the end of a cycle without errors changes what is served.
LEMMA ServedChanges ==
    ASSUME TypeOK, [Next]_vars, NEW l \in Enabled
    PROVE  \/ published'[l] = published[l]
           \/ /\ pc[l] = "image" /\ names[l] = {} /\ errs[l] = {}
              /\ published'[l] = [series |-> out[l], tick |-> tick,
                                  history |-> history[l]]
<1>1. CASE \E k \in Enabled : CollectorStep(k)
  <2>1. PICK k \in Enabled : CollectorStep(k)
    BY <1>1
  <2>2. CASE l # k
    BY <2>1, <2>2, Others
  <2>3. CASE l = k /\ Publish(k)
    BY <2>3, Domains DEF Publish, Goes
  <2>4. CASE UNCHANGED published
    BY <2>4
  <2>5. QED
    BY <2>1, <2>2, <2>3, <2>4
       DEF CollectorStep, List, Close, ReadHeader, Usage, Volume, ReadValue,
           ListMetadata, EmitOwner, EmitQoS, Open
<1>2. CASE UNCHANGED published
  BY <1>2
<1>3. QED
  BY <1>1, <1>2 DEF Next, vars, Tick, Tag, Delete

\* The collectors that are enabled stay so.
LEMMA StayEnabled == TypeOK /\ [Next]_vars => Enabled' = Enabled
<1>. SUFFICES ASSUME TypeOK, [Next]_vars PROVE Enabled' = Enabled
  OBVIOUS
<1>1. CASE Tick
  BY <1>1 DEF Tick, Enabled
<1>2. CASE \E k \in Enabled : CollectorStep(k)
  BY <1>2, Others
<1>3. CASE UNCHANGED pc
  BY <1>3 DEF Enabled
<1>4. QED
  BY <1>1, <1>2, <1>3 DEF Next, vars, Tag, Delete

\* Each image listed has its series.
LEMMA WholeStep ==
    TypeOK /\ PlacesInv /\ AllSeriesInv /\ PublishedIsWhole /\ [Next]_vars
       => PublishedIsWhole'
<1>. SUFFICES ASSUME TypeOK, PlacesInv, AllSeriesInv, PublishedIsWhole, [Next]_vars,
                     NEW k \in Enabled, NEW n \in DOMAIN Reads[k]
              PROVE  Having(k, Reads[k][n])' = published'[k].history.listed
  BY StayEnabled DEF PublishedIsWhole
<1>1. CASE published'[k] = published[k]
  BY <1>1 DEF PublishedIsWhole, Having
<1>2. CASE /\ pc[k] = "image" /\ names[k] = {} /\ errs[k] = {}
           /\ published'[k] = [series |-> out[k], tick |-> tick,
                               history |-> history[k]]
  <2>1. /\ \A s \in out[k] : s.image \in history[k].listed
        /\ \A j \in history[k].listed, name \in SeriesNames(k) :
              Right(k, name, j, history[k].saw, Sent(k, name, j))
    BY <1>2, CompleteIsRight DEF PlacesInv, AllSeriesInv
  <2>2. Reads[k][n] \in ReadNames(k) /\ Reads[k][n] \in SeriesNames(k)
    BY DEF ReadNames, SeriesNames
  <2>3. \A j \in history[k].listed : \E s \in out[k] : s.name = Reads[k][n] /\ s.image = j
    BY <2>1, <2>2 DEF Right, Sent
  <2>4. published'[k].series = out[k] /\ published'[k].history = history[k]
    BY <1>2
  <2>5. QED
    BY <2>1, <2>3, <2>4 DEF Having
<1>3. QED
  BY <1>1, <1>2, ServedChanges

\* Each has the owner and the limits it was seen with.
LEMMA ExactStep ==
    ASSUME TypeOK, PlacesInv, AllSeriesInv, OwnersAreExact, LimitsAreExact, [Next]_vars
    PROVE  OwnersAreExact' /\ LimitsAreExact'
<1>. DEFINE k == "rbd_images"
            Exact(h) ==
              \A i \in h.listed :
                 /\ Served(k, "owner", i)' = OwnerSeries(h.saw[i], i)
                 /\ \A n \in DOMAIN QoSKeys :
                       Served(k, QoSKeys[n], i)' = LimitSeries(h.saw[i], QoSKeys[n], i)
<1>1. ASSUME k \in Enabled PROVE Exact(published'[k].history)
  <2>1. CASE published'[k] = published[k]
    BY <1>1, <2>1 DEF OwnersAreExact, LimitsAreExact, Served, OwnerSeries, LimitSeries,
                      Tagged
  <2>2. CASE /\ pc[k] = "image" /\ names[k] = {} /\ errs[k] = {}
             /\ published'[k] = [series |-> out[k], tick |-> tick,
                                 history |-> history[k]]
    <3>1. \A j \in history[k].listed, name \in SeriesNames(k) :
             Right(k, name, j, history[k].saw, Sent(k, name, j))
      BY <1>1, <2>2, CompleteIsRight DEF PlacesInv, AllSeriesInv
    <3>2. "owner" \in SeriesNames(k) /\ LimitNames \subseteq SeriesNames(k)
      BY DEF SeriesNames, Extras
    <3>3. \A n \in DOMAIN QoSKeys : QoSKeys[n] \in LimitNames
      BY DEF LimitNames
    <3>4. \A name, i : Served(k, name, i)' = Sent(k, name, i)
      BY <2>2 DEF Served, Sent
    <3>5. published'[k].history = history[k]
      BY <2>2
    <3>6. ASSUME NEW i \in history[k].listed
          PROVE  /\ Sent(k, "owner", i) = OwnerSeries(history[k].saw[i], i)
                 /\ \A name \in LimitNames :
                       Sent(k, name, i) = LimitSeries(history[k].saw[i], name, i)
      BY <3>1, <3>2 DEF Right
    <3>7. QED
      BY <3>3, <3>4, <3>5, <3>6
  <2>3. QED
    BY <1>1, <2>1, <2>2, ServedChanges
<1>2. QED
  BY <1>1, StayEnabled
     DEF OwnersAreExact, LimitsAreExact, OwnerSeries, LimitSeries, Tagged

-----------------------------------------------------------------------------
(* The types.                                                              *)

\* The places of a collector.
Places == {"idle", "list", "image", "read", "metadata", "owner", "qos", "close"}

\* The metadata kept of an image.
Kept == UNION {[D -> Values] : D \in SUBSET Consumed}

\* What a collector has to read.
Task(k) == Seq(ReadNames(k)) \cup Seq(Consumed)

\* A step changes a collector's own part of the state, and nothing else.
LEMMA Shapes ==
    ASSUME NEW k \in Enabled, CollectorStep(k)
    PROVE  /\ pc' = pc \/ \E x : pc' = [pc EXCEPT ![k] = x]
           /\ names' = names \/ \E x : names' = [names EXCEPT ![k] = x]
           /\ image' = image \/ \E x : image' = [image EXCEPT ![k] = x]
           /\ due' = due \/ \E x : due' = [due EXCEPT ![k] = x]
           /\ read' = read \/ \E x : read' = [read EXCEPT ![k] = x]
           /\ errs' = errs \/ \E x : errs' = [errs EXCEPT ![k] = x]
           /\ out' = out \/ \E x : out' = [out EXCEPT ![k] = x]
           /\ history' = history \/ \E x : history' = [history EXCEPT ![k] = x]
           /\ published' = published \/ \E x : published' = [published EXCEPT ![k] = x]
<1>1. pc' = pc \/ \E x : pc' = [pc EXCEPT ![k] = x]
  BY DEF CollectorStep, List, Open, Close, Publish, ReadHeader, Usage, Volume,
         ReadValue, ListMetadata, EmitOwner, EmitQoS,
         Goes
<1>2. names' = names \/ \E x : names' = [names EXCEPT ![k] = x]
  BY DEF CollectorStep, List, Open, Close, Publish, ReadHeader, Usage, Volume,
         ReadValue, ListMetadata, EmitOwner, EmitQoS
<1>3. image' = image \/ \E x : image' = [image EXCEPT ![k] = x]
  BY DEF CollectorStep, List, Open, Close, Publish, ReadHeader, Usage, Volume,
         ReadValue, ListMetadata, EmitOwner, EmitQoS,
         openVars
<1>4. due' = due \/ \E x : due' = [due EXCEPT ![k] = x]
  BY DEF CollectorStep, List, Open, Close, Publish, ReadHeader, Usage, Volume,
         ReadValue, ListMetadata, EmitOwner, EmitQoS,
         openVars
<1>5. read' = read \/ \E x : read' = [read EXCEPT ![k] = x]
  BY DEF CollectorStep, List, Open, Close, Publish, ReadHeader, Usage, Volume,
         ReadValue, ListMetadata, EmitOwner, EmitQoS,
         openVars
<1>6. errs' = errs \/ \E x : errs' = [errs EXCEPT ![k] = x]
  BY DEF CollectorStep, List, Open, Close, Publish, ReadHeader, Usage, Volume,
         ReadValue, ListMetadata, EmitOwner, EmitQoS,
         CannotOpen, Fails, UsedBytes, Limit, SendsOrFails, outVars
<1>7. out' = out \/ \E x : out' = [out EXCEPT ![k] = x]
  BY DEF CollectorStep, List, Open, Close, Publish, ReadHeader, Usage, Volume,
         ReadValue, ListMetadata, EmitOwner, EmitQoS,
         Sends, UsedBytes, Limit, SendsOrFails, outVars
<1>8. history' = history \/ \E x : history' = [history EXCEPT ![k] = x]
  BY DEF CollectorStep, List, Open, Close, Publish, ReadHeader, Usage, Volume,
         ReadValue, ListMetadata, EmitOwner, EmitQoS
<1>9. published' = published \/ \E x : published' = [published EXCEPT ![k] = x]
  BY DEF CollectorStep, List, Open, Close, Publish, ReadHeader, Usage, Volume,
         ReadValue, ListMetadata, EmitOwner, EmitQoS
<1>10. QED
  BY <1>1, <1>2, <1>3, <1>4, <1>5, <1>6, <1>7, <1>8, <1>9

\* A function changed at one argument keeps its type.
LEMMA ChangedAt ==
    ASSUME NEW D, NEW X, NEW f \in [D -> X], NEW k \in D,
           NEW g, g = f \/ \E x : g = [f EXCEPT ![k] = x], g[k] \in X
    PROVE  g \in [D -> X]
OBVIOUS

\* Every series is one of those that there may be.
LEMMA SeriesTypes ==
    ASSUME NEW i \in Images
    PROVE  /\ \A k \in DOMAIN Reads : \A name \in ReadNames(k), v \in Values :
                 Series(name, i, Single(v)) \in AllSeries
           /\ \A key \in LimitNames, v \in Values :
                 Series(key, i, Single(v)) \in AllSeries
           /\ \A l \in [OwnerKeys -> Values \cup {""}] :
                 Series("owner", i, l) \in AllSeries
<1>. DEFINE all == (UNION {ReadNames(k) : k \in DOMAIN Reads})
                      \cup Consumed \cup {"owner"}
            labels == [OwnerKeys -> Values \cup {""}] \cup [{"value"} -> Values]
<1>1. AllSeries = [name : all, image : Images, value : labels]
  BY DEF AllSeries, ReadNames
<1>2. \A v \in Values : Single(v) \in labels
  BY DEF Single
<1>3. /\ \A k \in DOMAIN Reads : ReadNames(k) \subseteq all
      /\ LimitNames \subseteq all /\ "owner" \in all
  <2>1. LimitNames \subseteq Consumed
    BY NamesAre
  <2>2. ASSUME NEW k \in DOMAIN Reads PROVE ReadNames(k) \subseteq all
    OBVIOUS
  <2>3. LimitNames \subseteq all
    BY <2>1
  <2>4. "owner" \in all
    OBVIOUS
  <2>. HIDE DEF all
  <2>5. QED
    BY <2>2, <2>3, <2>4
<1>. HIDE DEF all, labels
<1>4. \A name \in all, v \in labels : Series(name, i, v) \in AllSeries
  BY <1>1 DEF Series
<1>5. \A l \in [OwnerKeys -> Values \cup {""}] : l \in labels
  BY DEF labels
<1>6. QED
  BY <1>2, <1>3, <1>4, <1>5

\* The types of the metadata, before and after it is narrowed.
LEMMA MetadataTypes ==
    ASSUME TypeOK
    PROVE  /\ \A i \in Existing : meta[i] \in Metadata /\ Retained(meta[i]) \in Kept
           /\ Existing \subseteq Images
           /\ \A k \in Enabled : /\ DOMAIN read[k] \subseteq Consumed
                                 /\ \A key \in DOMAIN read[k] : read[k][key] \in Values
                                 /\ Labels(read[k]) \in [OwnerKeys -> Values \cup {""}]
           /\ NoMeta \in Kept
<1>1. PICK D \in SUBSET Images : meta \in [D -> Metadata]
  BY DEF TypeOK, Clusters
<1>2. Existing = D
  BY <1>1 DEF Existing
<1>3. ASSUME NEW m \in Metadata PROVE Retained(m) \in Kept
  <2>1. \A key \in DOMAIN m : m[key] \in Values
    BY ImageMetricsAssumption
  <2>2. Retained(m) \in [DOMAIN m \cap Consumed -> Values]
    BY <2>1 DEF Retained
  <2>3. QED
    BY <2>2 DEF Kept
<1>4. ASSUME NEW k \in Enabled
      PROVE  /\ DOMAIN read[k] \subseteq Consumed
             /\ \A key \in DOMAIN read[k] : read[k][key] \in Values
             /\ Labels(read[k]) \in [OwnerKeys -> Values \cup {""}]
  <2>1. read[k] \in Kept
    BY DEF TypeOK, Kept
  <2>2. PICK E \in SUBSET Consumed : read[k] \in [E -> Values]
    BY <2>1 DEF Kept
  <2>3. QED
    BY <2>2 DEF Labels
<1>5. NoMeta \in [{} -> Values]
  BY DEF NoMeta
<1>6. QED
  BY <1>1, <1>2, <1>3, <1>4, <1>5 DEF Kept

\* What a step makes of the errors and the series of its collector.
LEMMA OutTypes ==
    ASSUME TypeOK, NEW k \in Enabled, PlaceInv(k), CollectorStep(k)
    PROVE  /\ errs'[k] \in SUBSET (Images \cup {NoImage})
           /\ out'[k] \in SUBSET AllSeries
<1>1. /\ errs[k] \in SUBSET (Images \cup {NoImage}) /\ out[k] \in SUBSET AllSeries
      /\ image[k] \in Images \cup {NoImage} /\ names[k] \in SUBSET Images
      /\ k \in DOMAIN Reads
  BY Types
<1>2. ASSUME NEW ok, NEW s \in AllSeries, SendsOrFails(k, ok, s)
      PROVE  /\ errs'[k] \in SUBSET (Images \cup {NoImage})
             /\ out'[k] \in SUBSET AllSeries
  BY <1>1, <1>2, SentOrFailed
<1>3. pc[k] \in {"read", "owner", "qos"} => image[k] \in Images
  BY HistoryTypes DEF PlaceInv
<1>4. pc[k] = "read" => Head(due[k]) \in ReadNames(k)
  <2>1. Reads[k] = <<Reads[k][1], Reads[k][2]>> \/ Reads[k] = <<Reads[k][1]>>
    BY <1>1, ReadsAre
  <2>2. /\ Head(Reads[k]) = Reads[k][1] /\ Reads[k][1] \in ReadNames(k)
        /\ k = "rbd_images" => Reads[k][2] \in ReadNames(k)
    BY <1>1, ReadsAre, NamesAre
  <2>3. QED
    BY <2>2, Work DEF PlaceInv
<1>5. "v" \in Values
  BY DEF Values
<1>6. CASE ReadHeader(k) \/ Usage(k) \/ Volume(k)
  <2>1. pc[k] = "read" /\ \E ok \in BOOLEAN :
           SendsOrFails(k, ok, Series(Head(due[k]), image[k], Single("v")))
    BY <1>6 DEF ReadHeader, Usage, Volume, ReadValue, UsedBytes, Goes
  <2>2. Series(Head(due[k]), image[k], Single("v")) \in AllSeries
    BY <1>1, <1>3, <1>4, <1>5, <2>1, SeriesTypes
  <2>3. QED
    BY <1>2, <2>1, <2>2
<1>7. CASE EmitOwner(k)
  <2>1. pc[k] = "owner" /\ Series("owner", image[k], Labels(read[k])) \in AllSeries
    BY <1>3, <1>7, MetadataTypes, SeriesTypes DEF EmitOwner, Goes
  <2>2. QED
    BY <1>1, <1>2, <1>7, <2>1 DEF EmitOwner, outVars
<1>8. CASE EmitQoS(k)
  <2>. DEFINE key == Head(due[k])
  <2>1. pc[k] = "qos" /\ Limit(k, key)
    BY <1>8 DEF EmitQoS, Goes
  <2>2. key \in LimitNames
    <3>1. QoSKeys = <<QoSKeys[1], QoSKeys[2]>>
      BY DEF QoSKeys
    <3>2. QoSKeys[1] \in LimitNames /\ QoSKeys[2] \in LimitNames
      BY NamesAre DEF QoSKeys
    <3>3. QED
      BY <2>1, <3>1, <3>2, Work DEF PlaceInv
  <2>. HIDE DEF key
  <2>3. key \in DOMAIN read[k] =>
           Series(key, image[k], Single(read[k][key])) \in AllSeries
    BY <1>3, <2>1, <2>2, MetadataTypes, SeriesTypes
  <2>4. QED
    BY <1>1, <1>2, <2>1, <2>3 DEF Limit, outVars
<1>9. CASE List(k) \/ Close(k) \/ ListMetadata(k) \/ Publish(k)
  BY <1>1, <1>9, Domains DEF List, Close, ListMetadata, Publish, Fails
<1>10. CASE \E i \in names[k] : Open(k, i)
  BY <1>1, <1>10, Domains DEF Open, CannotOpen, Fails
<1>11. QED
  BY <1>6, <1>7, <1>8, <1>9, <1>10 DEF CollectorStep

\* And of the rest.
LEMMA OwnTypes ==
    ASSUME TypeOK, NEW k \in Enabled, PlaceInv(k), CollectorStep(k)
    PROVE  /\ pc'[k] \in Places
           /\ names'[k] \in SUBSET Images /\ image'[k] \in Images \cup {NoImage}
           /\ due'[k] \in Task(k) /\ read'[k] \in Kept /\ history'[k] \in History
           /\ published'[k] \in [series : SUBSET AllSeries, tick : 0..MaxCycles,
                                 history : History]
<1>1. /\ names[k] \in SUBSET Images /\ image[k] \in Images \cup {NoImage}
      /\ due[k] \in Task(k) /\ read[k] \in Kept /\ history[k] \in History
      /\ pc[k] \in Places
      /\ published[k] \in [series : SUBSET AllSeries, tick : 0..MaxCycles,
                           history : History]
  BY DEF TypeOK, Task, ReadNames, Kept, Places
<1>2. pc'[k] \in Places
  BY <1>1, Domains
     DEF CollectorStep, List, Open, Close, Publish, ReadHeader, Usage, Volume,
         ReadValue, ListMetadata, EmitOwner, EmitQoS, Goes, Places
<1>3. names'[k] \in SUBSET Images /\ image'[k] \in Images \cup {NoImage}
  BY <1>1, Domains, MetadataTypes
     DEF CollectorStep, List, Open, Close, Publish, ReadHeader, Usage, Volume,
         ReadValue, ListMetadata, EmitOwner, EmitQoS, openVars
<1>4. due'[k] \in Task(k)
  <2>1. CASE ReadHeader(k) \/ EmitQoS(k)
    <3>1. due[k] # <<>> /\ due'[k] = Tail(due[k])
      BY <2>1, Domains DEF ReadHeader, EmitQoS
    <3>2. \A S, s : s \in Seq(S) /\ s # <<>> => Tail(s) \in Seq(S)
      OBVIOUS
    <3>3. QED
      BY <1>1, <3>1, <3>2 DEF Task
  <2>2. CASE due'[k] = <<>>
    <3>1. <<>> \in Seq(Consumed)
      OBVIOUS
    <3>2. QED
      BY <2>2, <3>1 DEF Task
  <2>3. CASE due'[k] = Reads[k]
    <3>1. Reads[k] \in Seq(ReadNames(k))
      <4>1. k \in {"rbd_images", "rbd_image_usage", "rbd_volumes"}
        BY Types, ReadsAre
      <4>2. Reads["rbd_images"] \in Seq(ReadNames("rbd_images"))
        BY ReadsAre, NamesAre
      <4>3. /\ Reads["rbd_image_usage"] \in Seq(ReadNames("rbd_image_usage"))
            /\ Reads["rbd_volumes"] \in Seq(ReadNames("rbd_volumes"))
        BY ReadsAre, NamesAre
      <4>4. QED
        BY <4>1, <4>2, <4>3
    <3>2. QED
      BY <2>3, <3>1 DEF Task
  <2>4. CASE due'[k] = QoSKeys
    <3>1. QoSKeys \in Seq(Consumed)
      <4>1. QoSKeys[1] \in Consumed /\ QoSKeys[2] \in Consumed
        BY NamesAre DEF QoSKeys
      <4>2. QED
        BY <4>1 DEF QoSKeys
    <3>2. QED
      BY <2>4, <3>1 DEF Task
  <2>5. CASE due' = due
    BY <1>1, <2>5
  <2>6. QED
    BY <2>1, <2>2, <2>3, <2>4, <2>5, Domains
       DEF CollectorStep, List, Open, Close, Publish, Usage, Volume, ReadValue,
           ListMetadata, EmitOwner, openVars
<1>5. read'[k] \in Kept
  <2>1. CASE ListMetadata(k)
    <3>1. \/ read'[k] = read[k]
          \/ image[k] \in Existing /\ read'[k] = Retained(meta[image[k]])
      BY <2>1, Domains DEF ListMetadata
    <3>2. QED
      BY <1>1, <3>1, MetadataTypes
  <2>2. CASE Close(k)
    BY <2>2, Domains, MetadataTypes DEF Close
  <2>3. CASE read' = read
    BY <1>1, <2>3
  <2>4. QED
    BY <2>1, <2>2, <2>3
       DEF CollectorStep, List, Open, Publish, ReadHeader, Usage, Volume, ReadValue,
           EmitOwner, EmitQoS, openVars
<1>6. history'[k] \in History
  <2>1. CASE history'[k] = [history[k] EXCEPT !.listed = Existing]
    BY <1>1, <2>1, MetadataTypes DEF History
  <2>2. CASE history'[k] = Saw(k) /\ image[k] \in Existing
    <3>. DEFINE old == history[k].saw
                new == [i \in DOMAIN old \cup {image[k]} |->
                          IF i = image[k] THEN meta[i] ELSE old[i]]
    <3>1. old \in Clusters /\ history'[k] = [listed |-> history[k].listed, saw |-> new]
      BY <1>1, <2>2 DEF History, Saw
    <3>2. PICK D \in SUBSET Images : old \in [D -> Metadata]
      BY <3>1 DEF Clusters
    <3>3. new \in [D \cup {image[k]} -> Metadata] /\ D \cup {image[k]} \in SUBSET Images
      BY <2>2, <3>2, MetadataTypes
    <3>4. new \in Clusters
      BY <3>3 DEF Clusters
    <3>. HIDE DEF new
    <3>5. QED
      BY <1>1, <3>1, <3>4 DEF History
  <2>3. CASE history' = history
    BY <1>1, <2>3
  <2>4. QED
    BY <2>1, <2>2, <2>3, Domains
       DEF CollectorStep, List, Open, Close, Publish, ReadHeader, Usage, Volume,
           ReadValue, ListMetadata, EmitOwner, EmitQoS
<1>7. published'[k] \in [series : SUBSET AllSeries, tick : 0..MaxCycles,
                         history : History]
  <2>1. tick \in 0..MaxCycles /\ out[k] \in SUBSET AllSeries
    BY DEF TypeOK
  <2>2. [Next]_vars
    BY DEF Next
  <2>3. \/ published'[k] = published[k]
        \/ published'[k] = [series |-> out[k], tick |-> tick, history |-> history[k]]
    BY <2>2, ServedChanges
  <2>4. QED
    BY <1>1, <2>1, <2>3
<1>8. QED
  BY <1>2, <1>3, <1>4, <1>5, <1>6, <1>7

\* The types of all collectors' parts are kept.
LEMMA TypeStep == TypeOK /\ PlacesInv /\ [Next]_vars => TypeOK'
<1>. SUFFICES ASSUME TypeOK, PlacesInv, [Next]_vars PROVE TypeOK'
  OBVIOUS
<1>. DEFINE View == [series : SUBSET AllSeries, tick : 0..MaxCycles, history : History]
<1>1. /\ meta \in Clusters /\ tick \in 0..MaxCycles /\ Enabled \in Enabling
      /\ pc \in [Enabled -> Places] /\ names \in [Enabled -> SUBSET Images]
      /\ image \in [Enabled -> Images \cup {NoImage}]
      /\ DOMAIN due = Enabled /\ \A k \in Enabled : due[k] \in Task(k)
      /\ read \in [Enabled -> Kept]
      /\ errs \in [Enabled -> SUBSET (Images \cup {NoImage})]
      /\ out \in [Enabled -> SUBSET AllSeries] /\ history \in [Enabled -> History]
      /\ published \in [Enabled -> View]
  BY DEF TypeOK, Places, Task, ReadNames, Kept
<1>. SUFFICES /\ meta' \in Clusters /\ tick' \in 0..MaxCycles
              /\ pc' \in [Enabled -> Places] /\ names' \in [Enabled -> SUBSET Images]
              /\ image' \in [Enabled -> Images \cup {NoImage}]
              /\ DOMAIN due' = Enabled /\ \A k \in Enabled : due'[k] \in Task(k)
              /\ read' \in [Enabled -> Kept]
              /\ errs' \in [Enabled -> SUBSET (Images \cup {NoImage})]
              /\ out' \in [Enabled -> SUBSET AllSeries]
              /\ history' \in [Enabled -> History]
              /\ published' \in [Enabled -> View]
  <2>1. Enabled' = Enabled /\ Enabled' \in Enabling
    BY <1>1, StayEnabled
  <2>2. QED
    BY <2>1 DEF TypeOK, Places, Task, ReadNames, Kept
<1>. HIDE DEF View
<1>2. CASE Tick
  <2>1. tick' \in 0..MaxCycles
    BY <1>1, <1>2, ImageMetricsAssumption DEF Tick
  <2>2. NoHistory \in History
    <3>1. NoMeta \in [{} -> Metadata]
      BY DEF NoMeta
    <3>2. QED
      BY <3>1 DEF NoHistory, History, Clusters
  <2>3. UNCHANGED <<meta, names, image, due, read, published>>
    BY <1>2 DEF Tick
  <2>4. /\ pc' \in [Enabled -> Places]
        /\ errs' \in [Enabled -> SUBSET (Images \cup {NoImage})]
        /\ out' \in [Enabled -> SUBSET AllSeries] /\ history' \in [Enabled -> History]
    BY <1>2, <2>2 DEF Tick, Places
  <2>5. QED
    BY <1>1, <2>1, <2>3, <2>4
<1>3. CASE \E k \in Enabled : CollectorStep(k)
  <2>1. PICK k \in Enabled : CollectorStep(k)
    BY <1>3
  <2>2. PlaceInv(k) /\ UNCHANGED <<meta, tick>>
    BY <2>1, Others DEF PlacesInv
  <2>3. /\ pc'[k] \in Places
        /\ names'[k] \in SUBSET Images /\ image'[k] \in Images \cup {NoImage}
        /\ due'[k] \in Task(k) /\ read'[k] \in Kept /\ history'[k] \in History
        /\ published'[k] \in View
    BY <2>1, <2>2, OwnTypes DEF View
  <2>4. /\ errs'[k] \in SUBSET (Images \cup {NoImage})
        /\ out'[k] \in SUBSET AllSeries
    BY <2>1, <2>2, OutTypes
  <2>5. pc' \in [Enabled -> Places] /\ read' \in [Enabled -> Kept]
    BY <1>1, <2>1, <2>3, Shapes, ChangedAt
  <2>6. names' \in [Enabled -> SUBSET Images]
    BY <1>1, <2>1, <2>3, Shapes, ChangedAt
  <2>7. image' \in [Enabled -> Images \cup {NoImage}]
    BY <1>1, <2>1, <2>3, Shapes, ChangedAt
  <2>8. history' \in [Enabled -> History]
    BY <1>1, <2>1, <2>3, Shapes, ChangedAt
  <2>9. published' \in [Enabled -> View]
    BY <1>1, <2>1, <2>3, Shapes, ChangedAt
  <2>10. errs' \in [Enabled -> SUBSET (Images \cup {NoImage})]
    BY <1>1, <2>1, <2>4, Shapes, ChangedAt
  <2>11. out' \in [Enabled -> SUBSET AllSeries]
    BY <1>1, <2>1, <2>4, Shapes, ChangedAt
  <2>12. DOMAIN due' = Enabled /\ \A l \in Enabled : due'[l] \in Task(l)
    <3>1. due' = due \/ \E x : due' = [due EXCEPT ![k] = x]
      BY <2>1, Shapes
    <3>2. DOMAIN due' = Enabled
      BY <1>1, <3>1
    <3>3. \A l \in Enabled : l # k => due'[l] = due[l]
      BY <2>1, Others
    <3>4. QED
      BY <1>1, <2>3, <3>2, <3>3
  <2>13. QED
    BY <1>1, <2>2, <2>5, <2>6, <2>7, <2>8, <2>9, <2>10, <2>11, <2>12
<1>4. CASE \E i \in Images : Tag(i) \/ Delete(i)
  <2>1. PICK i \in Images : Tag(i) \/ Delete(i)
    BY <1>4
  <2>2. PICK D \in SUBSET Images : meta \in [D -> Metadata] /\ Existing = D
    BY <1>1 DEF Clusters, Existing
  <2>3. \/ \E m \in Metadata : meta' = [j \in D \cup {i} |-> IF j = i THEN m ELSE meta[j]]
        \/ meta' = [j \in D \ {i} |-> meta[j]]
    BY <2>1, <2>2 DEF Tag, Delete
  <2>4. meta' \in [D \cup {i} -> Metadata] \/ meta' \in [D \ {i} -> Metadata]
    BY <2>2, <2>3
  <2>5. meta' \in Clusters
    BY <2>4 DEF Clusters
  <2>6. UNCHANGED <<tick, pc, names, image, due, read, errs, out, history, published>>
    BY <2>1 DEF Tag, Delete, openVars, outVars
  <2>7. QED
    BY <1>1, <2>5, <2>6
<1>5. CASE UNCHANGED vars
  BY <1>1, <1>5 DEF vars, openVars, outVars
<1>6. QED
  BY <1>2, <1>3, <1>4, <1>5 DEF Next

-----------------------------------------------------------------------------
(* The invariant and the properties.                                       *)

\* At first nothing is served, and nothing is listed.
LEMMA InitInv == Init => IInv
<1>. SUFFICES ASSUME Init PROVE IInv
  OBVIOUS
<1>1. PICK E \in Enabling : pc = [k \in E |-> "idle"]
  BY DEF Init
<1>2. Enabled = E
  BY <1>1 DEF Enabled
<1>3. NoHistory \in History /\ NoHistory.listed = {}
  <2>1. NoMeta \in [{} -> Metadata]
    BY DEF NoMeta
  <2>2. QED
    BY <2>1 DEF NoHistory, History, Clusters
<1>4. \A k \in Enabled :
         /\ pc[k] = "idle" /\ names[k] = {} /\ image[k] = NoImage /\ out[k] = {}
         /\ history[k] = NoHistory
         /\ published[k] = [series |-> {}, tick |-> 0, history |-> NoHistory]
  BY <1>1, <1>2 DEF Init
<1>5. TypeOK
  <2>1. tick \in 0..MaxCycles /\ 0 \in 0..MaxCycles
    BY ImageMetricsAssumption DEF Init
  <2>2. DOMAIN due = Enabled /\ \A k \in Enabled : due[k] = <<>> /\ <<>> \in Seq(Consumed)
    BY DEF Init
  <2>3. NoMeta \in UNION {[D -> Values] : D \in SUBSET Consumed}
    <3>1. NoMeta \in [{} -> Values]
      BY DEF NoMeta
    <3>2. QED
      BY <3>1
  <2>4. pc \in [Enabled -> {"idle", "list", "image", "read", "metadata", "owner",
                            "qos", "close"}]
    BY <1>1, <1>2
  <2>5. read \in [Enabled -> UNION {[D -> Values] : D \in SUBSET Consumed}]
    BY <2>3 DEF Init
  <2>6. history \in [Enabled -> History]
    BY <1>3 DEF Init
  <2>7. published \in [Enabled -> [series : SUBSET AllSeries, tick : 0..MaxCycles,
                                   history : History]]
    BY <1>3, <2>1 DEF Init
  <2>8. /\ names \in [Enabled -> SUBSET Images]
        /\ image \in [Enabled -> Images \cup {NoImage}]
        /\ errs \in [Enabled -> SUBSET (Images \cup {NoImage})]
        /\ out \in [Enabled -> SUBSET AllSeries]
    BY DEF Init
  <2>9. QED
    BY <1>2, <2>1, <2>2, <2>4, <2>5, <2>6, <2>7, <2>8 DEF TypeOK, Init
<1>6. ASSUME NEW k \in Enabled PROVE PlaceInv(k) /\ SeriesInv(k)
  <2>1. Visited(k) = {}
    BY <1>3, <1>4 DEF Visited
  <2>2. QED
    BY <1>3, <1>4, <2>1 DEF PlaceInv, SeriesInv
<1>7. PublishedIsWhole /\ OwnersAreExact /\ LimitsAreExact
  BY <1>3, <1>4 DEF PublishedIsWhole, OwnersAreExact, LimitsAreExact, Having
<1>8. QED
  BY <1>5, <1>6, <1>7 DEF IInv, PlacesInv, AllSeriesInv

\* Every part of the invariant holds at all times.
THEOREM InvariantTheorem == Spec => []IInv
<1>1. IInv /\ [Next]_vars => IInv'
  BY TypeStep, CollectorsStep, WholeStep, ExactStep DEF IInv
<1>2. QED
  BY <1>1, InitInv, PTL DEF Spec

\* The variables have their types.
THEOREM TypeCorrect == Spec => []TypeOK
<1>1. IInv => TypeOK
  BY DEF IInv
<1>2. QED
  BY <1>1, InvariantTheorem, PTL

\* Each image listed is served with every one of its series (collector.go:241).
THEOREM WholeTheorem == Spec => []PublishedIsWhole
<1>1. IInv => PublishedIsWhole
  BY DEF IInv
<1>2. QED
  BY <1>1, InvariantTheorem, PTL

\* The owner served is that of the metadata read (rbd_images.go:185).
THEOREM OwnersTheorem == Spec => []OwnersAreExact
<1>1. IInv => OwnersAreExact
  BY DEF IInv
<1>2. QED
  BY <1>1, InvariantTheorem, PTL

\* So are the limits (rbd_images.go:208).
THEOREM LimitsTheorem == Spec => []LimitsAreExact
<1>1. IInv => LimitsAreExact
  BY DEF IInv
<1>2. QED
  BY <1>1, InvariantTheorem, PTL
=============================================================================
