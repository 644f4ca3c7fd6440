-------------------------- MODULE ApplyQueueProofs --------------------------
(***************************************************************************)
(* Proofs about ApplyQueue for any set of files and any number of          *)
(* versions.  The conjuncts of ApplyInv hold each other up: the history    *)
(* tells that a compare-and-swap which succeeds was made from the current  *)
(* version, the base of that version tells which version is published, so  *)
(* the next publish is newer than every one before.                        *)
(***************************************************************************)
EXTENDS ApplyQueue, TLAPS

\* A file that was never published is not in use.
UnpublishedIsNotInUse ==
    \A f \in Files : conf[f].ver = 0 => ~conf[f].inuse

ApplyInv ==
    /\ ApplyTypeOK
    /\ SnapshotsAreHistory
    /\ ConfigIsLatestPublish
    /\ EditsAreBasedOnPublished
    /\ UnpublishedIsNotInUse
    /\ DeletedIsNotInUse

USE ApplyQueueAssumption
-----------------------------------------------------------------------------
\* What the history says of one file.
LEMMA History ==
    ASSUME ApplyInv, NEW f \in Files
    PROVE  /\ \A w \in Versions : snap[f][w].st # "NONE" <=> w <= cand[f].edit
           /\ cand[f].edit > 0 => snap[f][cand[f].edit] = [based |-> cand[f].based, st |-> cand[f].st]
  BY DEF ApplyInv, SnapshotsAreHistory, HasSnapshot

\* The published version is one of the versions of the file.
LEMMA PublishedIsInHistory ==
    ASSUME ApplyInv, NEW f \in Files
    PROVE  conf[f].ver <= cand[f].edit
<1>1. conf[f].ver \in 0..MaxVersion /\ cand[f].edit \in 0..MaxVersion
  BY DEF ApplyInv, ApplyTypeOK, ConfigRow, CandidateRow
<1>2. CASE conf[f].ver = 0
  BY <1>1, <1>2
<1>3. CASE conf[f].ver # 0
  <2>1. conf[f].ver \in Versions
    BY <1>1, <1>3 DEF Versions
  <2>2. snap[f][conf[f].ver].st = "PUBLISH"
    BY <2>1 DEF ApplyInv, ConfigIsLatestPublish
  <2> QED
    BY <2>1, <2>2, History
<1> QED
  BY <1>2, <1>3

\* The base of an edit on top of the newest version is the published version.
LEMMA BaseOfCurrent ==
    ASSUME ApplyInv, NEW f \in Files, NEW v \in Versions, cand[f].edit = v
    PROVE  BasedVersion(f, v) = conf[f].ver
<1>1. cand[f].edit > 0
  BY DEF Versions
<1>2. snap[f][v] = [based |-> cand[f].based, st |-> cand[f].st]
  BY <1>1, History
<1> QED
  BY <1>2 DEF ApplyInv, EditsAreBasedOnPublished, BasedVersion

\* A save that succeeds was made from the newest version of the file, and its
\* base is the version that is published.
LEMMA SavesFromCurrent ==
    ASSUME ApplyInv, NEW f \in Files, NEW v \in Versions, NEW st, UpdateCandidate(f, v, st)
    PROVE  /\ v + 1 \in Versions
           /\ cand[f].edit = v
           /\ BasedVersion(f, v) = conf[f].ver
<1>1. v + 1 \in Versions /\ cand[f].edit = v
  BY DEF UpdateCandidate, Unmodified, Versions
<1> QED
  BY <1>1, BaseOfCurrent
-----------------------------------------------------------------------------
\* An edit, review, cancellation or deletion of one file keeps the invariant.
LEMMA EditKeepsInv ==
    ASSUME ApplyInv, NEW f \in Files, NEW b, NEW st \in StatusType \ {"PUBLISH"},
           cand[f].edit + 1 \in Versions, b = conf[f].ver,
           cand' = [cand EXCEPT ![f] = [edit |-> cand[f].edit + 1, based |-> b, st |-> st]],
           snap' = [snap EXCEPT ![f][cand[f].edit + 1] = [based |-> b, st |-> st]],
           \/ UNCHANGED conf
           \/ conf' = [conf EXCEPT ![f].inuse = FALSE],
           st = "DELETE" => ~conf'[f].inuse,
           UNCHANGED mapping
    PROVE  ApplyInv'
<1> DEFINE v == cand[f].edit
<1>1. /\ cand \in [Files -> CandidateRow] /\ conf \in [Files -> ConfigRow]
      /\ snap \in [Files -> [Versions -> SnapshotRow]]
      /\ mapping \in [Files -> MappingRow]
  BY DEF ApplyInv, ApplyTypeOK
<1>2. v + 1 \in Versions /\ v \in Nat /\ conf[f].ver <= v
  BY <1>1, PublishedIsInHistory DEF CandidateRow
<1>3. b \in 0..MaxVersion
  BY <1>1 DEF ConfigRow
<1> DEFINE row == [edit |-> v + 1, based |-> b, st |-> st]
           sn  == [based |-> b, st |-> st]
<1>4. row \in CandidateRow /\ sn \in SnapshotRow
  BY <1>2, <1>3 DEF CandidateRow, SnapshotRow, Versions
<1>5. /\ cand' = [cand EXCEPT ![f] = row]
      /\ snap' = [snap EXCEPT ![f][v + 1] = sn]
  OBVIOUS
<1> HIDE DEF v, row, sn
<1>6. /\ \A g \in Files : cand'[g] = IF g = f THEN row ELSE cand[g]
      /\ \A g \in Files, w \in Versions :
            snap'[g][w] = IF g = f /\ w = v + 1 THEN sn ELSE snap[g][w]
      /\ \A g \in Files : conf'[g].ver = conf[g].ver /\ (conf'[g].inuse => conf[g].inuse)
      /\ \A g \in Files \ {f} : conf'[g] = conf[g]
  <2>1. \A g \in Files : cand'[g] = IF g = f THEN row ELSE cand[g]
    BY <1>1, <1>5
  <2>2. \A g \in Files, w \in Versions :
            snap'[g][w] = IF g = f /\ w = v + 1 THEN sn ELSE snap[g][w]
    BY <1>1, <1>2, <1>5
  <2>3. \A g \in Files : conf[g] \in ConfigRow
    BY <1>1
  <2>4. /\ \A g \in Files : conf'[g].ver = conf[g].ver /\ (conf'[g].inuse => conf[g].inuse)
        /\ \A g \in Files \ {f} : conf'[g] = conf[g]
    <3>1. CASE UNCHANGED conf
      BY <3>1
    <3>2. CASE conf' = [conf EXCEPT ![f].inuse = FALSE]
      BY <1>1, <2>3, <3>2 DEF ConfigRow
    <3> QED
      BY <3>1, <3>2
  <2> QED
    BY <2>1, <2>2, <2>4
<1>7. ApplyTypeOK'
  <2>1. cand' \in [Files -> CandidateRow]
    BY <1>1, <1>4, <1>5
  <2>2. snap' \in [Files -> [Versions -> SnapshotRow]]
    BY <1>1, <1>2, <1>4, <1>5
  <2>3. conf' \in [Files -> ConfigRow]
    BY <1>1 DEF ConfigRow
  <2> QED
    BY <1>1, <2>1, <2>2, <2>3 DEF ApplyTypeOK
<1>8. SnapshotsAreHistory'
  <2> SUFFICES ASSUME NEW g \in Files
               PROVE  /\ \A w \in Versions : snap'[g][w].st # "NONE" <=> w <= cand'[g].edit
                      /\ cand'[g].edit > 0 =>
                            snap'[g][cand'[g].edit] = [based |-> cand'[g].based, st |-> cand'[g].st]
    BY DEF SnapshotsAreHistory, HasSnapshot
  <2>1. CASE g # f
    <3>1. cand'[g] = cand[g] /\ \A w \in Versions : snap'[g][w] = snap[g][w]
      BY <1>6, <2>1
    <3>2. cand[g].edit > 0 => cand[g].edit \in Versions
      BY <1>1 DEF CandidateRow, Versions
    <3> QED
      BY <3>1, <3>2, History
  <2>2. CASE g = f
    <3>1. cand'[g].edit = v + 1 /\ cand'[g].based = b /\ cand'[g].st = st
      BY <1>6, <2>2 DEF row
    <3>2. snap'[g][v + 1] = [based |-> b, st |-> st] /\ st # "NONE"
      BY <1>2, <1>6, <2>2 DEF sn, StatusType
    <3>3. \A w \in Versions : w # v + 1 => snap'[g][w] = snap[g][w]
      BY <1>6, <2>2
    <3>4. \A w \in Versions : snap[g][w].st # "NONE" <=> w <= v
      <4>1. v = cand[g].edit
        BY <2>2 DEF v
      <4> QED
        BY <4>1, History
    <3> QED
      BY <1>2, <3>1, <3>2, <3>3, <3>4 DEF Versions
  <2> QED
    BY <2>1, <2>2
<1>9. ConfigIsLatestPublish'
  BY <1>1, <1>2, <1>5, <1>6, SMTT(30) DEF ApplyInv, ConfigIsLatestPublish, sn, Versions
<1>10. EditsAreBasedOnPublished'
  BY <1>1, <1>2, <1>6, SMTT(30) DEF ApplyInv, EditsAreBasedOnPublished, row
<1>11. UnpublishedIsNotInUse' /\ DeletedIsNotInUse'
  BY <1>1, <1>6, SMTT(30) DEF ApplyInv, UnpublishedIsNotInUse, DeletedIsNotInUse, row
<1> QED
  BY <1>7, <1>8, <1>9, <1>10, <1>11 DEF ApplyInv
-----------------------------------------------------------------------------
\* What a publish does to file f: a PUBLISH row above the history, perhaps over
\* a PASSED one of the same transaction, and the same version in `config`.
Publishes(f) ==
    /\ cand'[f].edit \in Versions /\ cand[f].edit < cand'[f].edit
    /\ cand'[f].st = "PUBLISH"
    /\ conf'[f] = [ver |-> cand'[f].edit, inuse |-> TRUE]
    /\ snap'[f][cand'[f].edit] = [based |-> cand'[f].based, st |-> "PUBLISH"]
    /\ \A w \in Versions :
          /\ cand[f].edit < w /\ w < cand'[f].edit => snap'[f][w].st \notin {"NONE", "PUBLISH"}
          /\ w <= cand[f].edit \/ cand'[f].edit < w => snap'[f][w] = snap[f][w]

PublishesOnly(S) ==
    /\ ApplyTypeOK'
    /\ \A f \in S : Publishes(f)
    /\ \A f \in Files \ S : cand'[f] = cand[f] /\ snap'[f] = snap[f] /\ conf'[f] = conf[f]

\* Publishing any set of files keeps the invariant.
LEMMA PublishKeepsInv ==
    ASSUME ApplyInv, NEW S \in SUBSET Files, PublishesOnly(S)
    PROVE  ApplyInv'
<1>1. /\ ApplyTypeOK'
      /\ \A f \in S : Publishes(f)
      /\ \A f \in Files \ S : cand'[f] = cand[f] /\ snap'[f] = snap[f] /\ conf'[f] = conf[f]
  BY DEF PublishesOnly
<1>2. /\ cand \in [Files -> CandidateRow] /\ conf \in [Files -> ConfigRow]
      /\ snap \in [Files -> [Versions -> SnapshotRow]]
      /\ cand' \in [Files -> CandidateRow]
  BY <1>1 DEF ApplyInv, ApplyTypeOK
<1>3. ASSUME NEW f \in S
      PROVE  /\ \A w \in Versions : snap'[f][w].st # "NONE" <=> w <= cand'[f].edit
             /\ snap'[f][cand'[f].edit] = [based |-> cand'[f].based, st |-> cand'[f].st]
             /\ \A w \in Versions : snap'[f][w].st = "PUBLISH" => w <= cand'[f].edit
  <2>1. Publishes(f) /\ f \in Files
    BY <1>1, <1>3
  <2>2. cand[f].edit \in Nat /\ cand'[f].edit \in Nat /\ Versions \subseteq Nat
    BY <1>2, <2>1 DEF CandidateRow, Versions
  <2>3. ASSUME NEW w \in Versions
        PROVE  snap'[f][w].st # "NONE" <=> w <= cand'[f].edit
    <3>1. CASE w <= cand[f].edit
      <4>1. snap'[f][w] = snap[f][w] /\ w <= cand'[f].edit
        BY <2>1, <2>2, <3>1 DEF Publishes
      <4> QED
        BY <2>1, <3>1, <4>1, History
    <3>2. CASE cand'[f].edit < w
      <4>1. snap'[f][w] = snap[f][w] /\ ~(w <= cand[f].edit) /\ ~(w <= cand'[f].edit)
        BY <2>1, <2>2, <3>2 DEF Publishes
      <4> QED
        BY <2>1, <4>1, History
    <3>3. CASE cand[f].edit < w /\ w < cand'[f].edit
      BY <2>1, <2>2, <3>3 DEF Publishes
    <3>4. CASE w = cand'[f].edit
      BY <2>1, <2>2, <3>4 DEF Publishes
    <3> QED
      BY <2>2, <3>1, <3>2, <3>3, <3>4
  <2>4. snap'[f][cand'[f].edit] = [based |-> cand'[f].based, st |-> cand'[f].st]
    BY <2>1 DEF Publishes
  <2> QED
    BY <2>3, <2>4
<1>4. ASSUME NEW f \in S
       PROVE  /\ cand'[f].st = "PUBLISH"
              /\ conf'[f].ver = cand'[f].edit /\ conf'[f].inuse
              /\ cand'[f].edit > 0
              /\ snap'[f][cand'[f].edit].st = "PUBLISH"
  <2>1. Publishes(f)
    BY <1>1, <1>4
  <2> QED
    BY <2>1 DEF Publishes, Versions
<1>5. SnapshotsAreHistory'
  <2> SUFFICES ASSUME NEW f \in Files
               PROVE  /\ \A w \in Versions : snap'[f][w].st # "NONE" <=> w <= cand'[f].edit
                      /\ cand'[f].edit > 0 =>
                            snap'[f][cand'[f].edit] = [based |-> cand'[f].based, st |-> cand'[f].st]
    BY DEF SnapshotsAreHistory, HasSnapshot
  <2>1. CASE f \in S
    BY <1>3, <2>1
  <2>2. CASE f \notin S
    <3>1. cand'[f] = cand[f] /\ snap'[f] = snap[f]
      BY <1>1, <2>2
    <3> QED
      BY <3>1, History
  <2> QED
    BY <2>1, <2>2
<1>6. ConfigIsLatestPublish'
  <2> SUFFICES ASSUME NEW f \in Files, NEW w \in Versions
               PROVE  /\ conf'[f].ver = w => snap'[f][w].st = "PUBLISH"
                      /\ snap'[f][w].st = "PUBLISH" => w <= conf'[f].ver
    BY DEF ConfigIsLatestPublish
  <2>1. CASE f \in S
    <3>1. conf'[f].ver = cand'[f].edit /\ snap'[f][cand'[f].edit].st = "PUBLISH"
      BY <1>4, <2>1
    <3> QED
      BY <1>3, <2>1, <3>1
  <2>2. CASE f \notin S
    BY <1>1, <2>2 DEF ApplyInv, ConfigIsLatestPublish
  <2> QED
    BY <2>1, <2>2
<1>7. EditsAreBasedOnPublished'
  <2> SUFFICES ASSUME NEW f \in Files
               PROVE  conf'[f].ver = (IF cand'[f].st = "PUBLISH" THEN cand'[f].edit ELSE cand'[f].based)
    BY DEF EditsAreBasedOnPublished
  <2>1. CASE f \in S
    BY <1>4, <2>1
  <2>2. CASE f \notin S
    BY <1>1, <2>2 DEF ApplyInv, EditsAreBasedOnPublished
  <2> QED
    BY <2>1, <2>2
<1>8. UnpublishedIsNotInUse' /\ DeletedIsNotInUse'
  <2> SUFFICES ASSUME NEW f \in Files
               PROVE  /\ conf'[f].ver = 0 => ~conf'[f].inuse
                      /\ cand'[f].st = "DELETE" => ~conf'[f].inuse
    BY DEF UnpublishedIsNotInUse, DeletedIsNotInUse
  <2>1. CASE f \in S
    <3>1. cand'[f].st = "PUBLISH" /\ conf'[f].ver = cand'[f].edit /\ cand'[f].edit > 0
      BY <1>4, <2>1
    <3>2. cand'[f].edit \in Nat
      BY <1>2 DEF CandidateRow
    <3> QED
      BY <3>1, <3>2
  <2>2. CASE f \notin S
    BY <1>1, <2>2 DEF ApplyInv, UnpublishedIsNotInUse, DeletedIsNotInUse
  <2> QED
    BY <2>1, <2>2
<1> QED
  BY <1>1, <1>5, <1>6, <1>7, <1>8 DEF ApplyInv
-----------------------------------------------------------------------------
\* A successful save of any status but PUBLISH.
LEMMA UpdateKeepsInv ==
    ASSUME ApplyInv, NEW f \in Files, NEW v \in Versions,
           NEW st \in StatusType \ {"PUBLISH"}, UpdateCandidate(f, v, st),
           \/ UNCHANGED conf
           \/ conf' = [conf EXCEPT ![f].inuse = FALSE],
           st = "DELETE" => ~conf'[f].inuse,
           UNCHANGED mapping
    PROVE  ApplyInv'
<1> DEFINE b == BasedVersion(f, v)
<1>1. cand[f].edit = v /\ v + 1 \in Versions /\ b = conf[f].ver
  BY SavesFromCurrent
<1>2. /\ cand' = [cand EXCEPT ![f] = [edit |-> v + 1, based |-> b, st |-> st]]
      /\ snap' = [snap EXCEPT ![f][v + 1] = [based |-> b, st |-> st]]
  BY DEF UpdateCandidate
<1> HIDE DEF b
<1> QED
  BY <1>1, <1>2, EditKeepsInv

LEMMA ApplyNewKeepsInv ==
    ASSUME ApplyInv, NEW f \in Files, ApplyNew(f)
    PROVE  ApplyInv'
<1>1. cand[f].edit = 0 /\ conf[f].ver = 0
  <2>1. cand[f].edit = 0 /\ conf[f].ver \in Nat
    BY DEF ApplyNew, ApplyInv, ApplyTypeOK, ConfigRow
  <2> QED
    BY <2>1, PublishedIsInHistory
<1>2. cand[f].edit + 1 \in Versions /\ "PENDING" \in StatusType \ {"PUBLISH"}
  BY <1>1 DEF Versions, StatusType
<1>3. /\ cand' = [cand EXCEPT ![f] = [edit |-> cand[f].edit + 1, based |-> 0, st |-> "PENDING"]]
      /\ snap' = [snap EXCEPT ![f][cand[f].edit + 1] = [based |-> 0, st |-> "PENDING"]]
      /\ UNCHANGED <<conf, mapping>>
  BY <1>1 DEF ApplyNew
<1> QED
  BY <1>1, <1>2, <1>3, EditKeepsInv

LEMMA DeleteKeepsInv ==
    ASSUME ApplyInv, NEW f \in Files, NEW v \in Versions, Delete(f, v)
    PROVE  ApplyInv'
<1>1. UpdateCandidate(f, v, "DELETE") /\ UNCHANGED mapping
  BY DEF Delete
<1>2. conf \in [Files -> ConfigRow]
  BY DEF ApplyInv, ApplyTypeOK
<1>3. "DELETE" \in StatusType \ {"PUBLISH"}
  BY DEF StatusType
<1>4. CASE snap[f][v].st = "PUBLISH"
  <2>1. conf' = [conf EXCEPT ![f].inuse = FALSE]
    BY <1>4 DEF Delete
  <2>2. ~conf'[f].inuse
    BY <1>2, <2>1 DEF ConfigRow
  <2> QED
    BY <1>1, <1>3, <2>1, <2>2, UpdateKeepsInv
<1>5. CASE snap[f][v].st # "PUBLISH"
  <2>1. UNCHANGED conf /\ snap[f][v].based = 0
    BY <1>5 DEF Delete
  <2>2. conf[f].ver = 0
    BY <1>1, <1>5, <2>1, SavesFromCurrent DEF BasedVersion
  <2>3. ~conf'[f].inuse
    BY <2>1, <2>2 DEF ApplyInv, UnpublishedIsNotInUse
  <2> QED
    BY <1>1, <1>3, <2>1, <2>3, UpdateKeepsInv
<1> QED
  BY <1>4, <1>5

LEMMA PublishIsPublish ==
    ASSUME ApplyInv, NEW f \in Files, NEW v \in Versions, Publish(f, v)
    PROVE  PublishesOnly({f})
<1> DEFINE b == BasedVersion(f, v)
<1>1. UpdateCandidate(f, v, "PUBLISH")
  BY DEF Publish, ChangeStatusAndSave
<1>2. cand[f].edit = v /\ v + 1 \in Versions /\ b = conf[f].ver /\ v \in Nat
  <2>1. v \in Nat
    BY DEF Versions
  <2> QED
    BY <1>1, <2>1, SavesFromCurrent
<1>3. /\ cand \in [Files -> CandidateRow] /\ conf \in [Files -> ConfigRow]
      /\ snap \in [Files -> [Versions -> SnapshotRow]]
      /\ mapping \in [Files -> MappingRow]
  BY DEF ApplyInv, ApplyTypeOK
<1>4. /\ cand' = [cand EXCEPT ![f] = [edit |-> v + 1, based |-> b, st |-> "PUBLISH"]]
      /\ snap' = [snap EXCEPT ![f][v + 1] = [based |-> b, st |-> "PUBLISH"]]
      /\ conf' = [conf EXCEPT ![f] = [ver |-> v + 1, inuse |-> TRUE]]
      /\ UNCHANGED mapping
  BY <1>1 DEF Publish, UpdateCandidate
<1>5. b \in 0..MaxVersion
  BY <1>2, <1>3 DEF ConfigRow
<1> HIDE DEF b
<1>6. ApplyTypeOK'
  <2>1. [edit |-> v + 1, based |-> b, st |-> "PUBLISH"] \in CandidateRow
    BY <1>2, <1>5 DEF CandidateRow, StatusType, Versions
  <2>2. [based |-> b, st |-> "PUBLISH"] \in SnapshotRow
    BY <1>5 DEF SnapshotRow, StatusType
  <2>3. [ver |-> v + 1, inuse |-> TRUE] \in ConfigRow
    BY <1>2 DEF ConfigRow, Versions
  <2>4. cand' \in [Files -> CandidateRow] /\ conf' \in [Files -> ConfigRow]
    BY <1>3, <1>4, <2>1, <2>3
  <2>5. snap' \in [Files -> [Versions -> SnapshotRow]]
    BY <1>2, <1>3, <1>4, <2>2
  <2> QED
    BY <1>3, <1>4, <2>4, <2>5 DEF ApplyTypeOK
<1>7. Publishes(f)
  <2>1. /\ cand'[f] = [edit |-> v + 1, based |-> b, st |-> "PUBLISH"]
        /\ conf'[f] = [ver |-> v + 1, inuse |-> TRUE]
        /\ snap'[f] = [snap[f] EXCEPT ![v + 1] = [based |-> b, st |-> "PUBLISH"]]
    BY <1>3, <1>4
  <2>2. snap[f] \in [Versions -> SnapshotRow]
    BY <1>3
  <2> QED
    BY <1>2, <2>1, <2>2 DEF Publishes, Versions
<1>8. \A g \in Files \ {f} : cand'[g] = cand[g] /\ snap'[g] = snap[g] /\ conf'[g] = conf[g]
  BY <1>3, <1>4
<1>9. {f} \in SUBSET Files /\ \A g \in {f} : Publishes(g)
  BY <1>7
<1> QED
  BY <1>6, <1>8, <1>9 DEF PublishesOnly

LEMMA ApproveAndPublishIsPublish ==
    ASSUME ApplyInv, NEW f \in Files, ApproveAndPublish(f)
    PROVE  PublishesOnly({f})
<1> DEFINE v == cand[f].edit
           b == cand[f].based
<1>1. /\ cand \in [Files -> CandidateRow] /\ conf \in [Files -> ConfigRow]
      /\ snap \in [Files -> [Versions -> SnapshotRow]]
      /\ mapping \in [Files -> MappingRow]
  BY DEF ApplyInv, ApplyTypeOK
<1>2. v \in Nat /\ b \in 0..MaxVersion
  BY <1>1 DEF CandidateRow
<1>3. /\ v + 1 < MaxVersion
      /\ cand' = [cand EXCEPT ![f] = [edit |-> v + 2, based |-> b, st |-> "PUBLISH"]]
      /\ snap' = [snap EXCEPT ![f][v + 1] = [based |-> b, st |-> "PASSED"],
                              ![f][v + 2] = [based |-> b, st |-> "PUBLISH"]]
      /\ conf' = [conf EXCEPT ![f] = [ver |-> v + 2, inuse |-> TRUE]]
      /\ UNCHANGED mapping
  BY DEF ApproveAndPublish
<1> DEFINE passed == [based |-> b, st |-> "PASSED"]
           published == [based |-> b, st |-> "PUBLISH"]
<1>4. v + 1 \in Versions /\ v + 2 \in Versions
  BY <1>2, <1>3 DEF Versions
<1>5. passed \in SnapshotRow /\ published \in SnapshotRow
  BY <1>2 DEF SnapshotRow, StatusType
<1>6. snap'[f] = [snap[f] EXCEPT ![v + 1] = passed, ![v + 2] = published]
  BY <1>1, <1>3
<1>7. \A g \in Files \ {f} : cand'[g] = cand[g] /\ snap'[g] = snap[g] /\ conf'[g] = conf[g]
  BY <1>1, <1>3
<1>8. ApplyTypeOK'
  <2>1. [edit |-> v + 2, based |-> b, st |-> "PUBLISH"] \in CandidateRow
    BY <1>2, <1>4 DEF CandidateRow, StatusType, Versions
  <2>2. [ver |-> v + 2, inuse |-> TRUE] \in ConfigRow
    BY <1>4 DEF ConfigRow, Versions
  <2>3. cand' \in [Files -> CandidateRow] /\ conf' \in [Files -> ConfigRow]
    BY <1>1, <1>3, <2>1, <2>2
  <2>4. snap'[f] \in [Versions -> SnapshotRow]
    BY <1>1, <1>4, <1>5, <1>6
  <2>5. snap' = [snap EXCEPT ![f] = snap'[f]]
    BY <1>1, <1>3, <1>6
  <2>6. snap' \in [Files -> [Versions -> SnapshotRow]]
    BY <1>1, <2>4, <2>5
  <2> QED
    BY <1>1, <1>3, <2>3, <2>6 DEF ApplyTypeOK
<1>9. Publishes(f)
  <2>1. /\ cand'[f] = [edit |-> v + 2, based |-> b, st |-> "PUBLISH"]
        /\ conf'[f] = [ver |-> v + 2, inuse |-> TRUE]
    BY <1>1, <1>3
  <2>2. snap[f] \in [Versions -> SnapshotRow]
    BY <1>1
  <2>3. \A w \in Versions : snap'[f][w] =
           IF w = v + 2 THEN published ELSE IF w = v + 1 THEN passed ELSE snap[f][w]
    BY <1>2, <1>6, <2>2
  <2> HIDE DEF passed, published
  <2>4. passed.st = "PASSED" /\ published = [based |-> b, st |-> "PUBLISH"]
    BY DEF passed, published
  <2> QED
    BY <1>2, <1>4, <2>1, <2>3, <2>4 DEF Publishes, Versions
<1>10. {f} \in SUBSET Files /\ \A g \in {f} : Publishes(g)
  BY <1>9
<1> QED
  BY <1>7, <1>8, <1>10 DEF PublishesOnly

\* One button publishes pass the checks only from the newest version of each file.
LEMMA OneButtonFromCurrent ==
    ASSUME ApplyInv, NEW f \in Files, NEW v \in 0..MaxVersion, OneButtonAccepts(f, v)
    PROVE  /\ cand[f].edit = v /\ v + 1 \in Versions
           /\ OneButtonBased(f, v) = conf[f].ver
           /\ OneButtonCandidate(f, v) = [edit |-> v + 1, based |-> conf[f].ver, st |-> "PUBLISH"]
           /\ OneButtonConfig(f, v) = [ver |-> v + 1, inuse |-> TRUE]
<1>1. v + 1 \in Versions /\ snap[f][v + 1].st = "NONE"
  BY DEF OneButtonAccepts, HasSnapshot, Versions
<1>2. cand[f].edit \in 0..MaxVersion /\ conf[f].ver \in 0..MaxVersion
  BY DEF ApplyInv, ApplyTypeOK, CandidateRow, ConfigRow
<1>3. cand[f].edit = v
  <2>1. CASE v = 0 /\ cand[f].edit = 0
    BY <2>1
  <2>2. CASE OneButtonForced(f, v) /\ Unmodified(f, v)
    BY <2>2 DEF Unmodified
  <2>3. CASE OneButtonUpdate(f, v)
    <3>1. v \in Versions /\ snap[f][v].st # "NONE"
      BY <2>3 DEF OneButtonUpdate, Versions
    <3>2. v <= cand[f].edit
      BY <3>1, History
    <3>3. ~(v + 1 <= cand[f].edit)
      BY <1>1, History
    <3> QED
      BY <1>2, <3>1, <3>2, <3>3 DEF Versions
  <2> QED
    BY <2>1, <2>2, <2>3 DEF OneButtonAccepts
<1>4. OneButtonBased(f, v) = conf[f].ver
  <2>1. CASE v = 0
    <3>1. conf[f].ver <= 0
      BY <1>3, <2>1, PublishedIsInHistory
    <3> QED
      BY <1>2, <2>1, <3>1 DEF OneButtonBased
  <2>2. CASE v # 0
    <3>1. v \in Versions
      BY <2>2 DEF Versions
    <3> QED
      BY <1>3, <2>2, <3>1, BaseOfCurrent DEF OneButtonBased
  <2> QED
    BY <2>1, <2>2
<1>5. OneButtonBased(f, v) = 0 \/ conf[f].ver > 0
  BY <1>2, <1>4
<1> QED
  BY <1>1, <1>3, <1>4, <1>5 DEF OneButtonCandidate, OneButtonConfig

LEMMA OneButtonIsPublish ==
    ASSUME ApplyInv, NEW S \in SUBSET Files, NEW v \in [S -> 0..MaxVersion],
           OneButtonBatchPublish(S, v)
    PROVE  PublishesOnly(S)
<1>1. /\ cand \in [Files -> CandidateRow] /\ conf \in [Files -> ConfigRow]
      /\ snap \in [Files -> [Versions -> SnapshotRow]]
      /\ mapping \in [Files -> MappingRow]
  BY DEF ApplyInv, ApplyTypeOK
<1> DEFINE row(f)       == [edit |-> v[f] + 1, based |-> conf[f].ver, st |-> "PUBLISH"]
           published(f) == [based |-> conf[f].ver, st |-> "PUBLISH"]
           config(f)    == [ver |-> v[f] + 1, inuse |-> TRUE]
<1>2. ASSUME NEW f \in S
      PROVE  /\ f \in Files /\ v[f] \in Nat
             /\ cand[f].edit = v[f] /\ v[f] + 1 \in Versions
             /\ OneButtonBased(f, v[f]) = conf[f].ver
             /\ OneButtonCandidate(f, v[f]) = row(f)
             /\ OneButtonConfig(f, v[f]) = config(f)
  <2>1. f \in Files /\ v[f] \in 0..MaxVersion /\ OneButtonAccepts(f, v[f])
    BY DEF OneButtonBatchPublish
  <2> QED
    BY <2>1, OneButtonFromCurrent
<1>3. /\ \A f \in Files : cand'[f] = IF f \in S THEN row(f) ELSE cand[f]
      /\ \A f \in Files : conf'[f] = IF f \in S THEN config(f) ELSE conf[f]
      /\ \A f \in Files : snap'[f] = IF f \in S THEN [snap[f] EXCEPT ![v[f] + 1] = published(f)]
                                                ELSE snap[f]
      /\ cand' = [f \in Files |-> cand'[f]] /\ conf' = [f \in Files |-> conf'[f]]
      /\ snap' = [f \in Files |-> snap'[f]]
      /\ mapping' = mapping
  <2>1. \A f \in Files : cand'[f] = IF f \in S THEN row(f) ELSE cand[f]
    BY <1>2 DEF OneButtonBatchPublish
  <2>2. \A f \in Files : conf'[f] = IF f \in S THEN config(f) ELSE conf[f]
    BY <1>2 DEF OneButtonBatchPublish
  <2>3. \A f \in Files : snap'[f] = IF f \in S THEN [snap[f] EXCEPT ![v[f] + 1] = published(f)]
                                              ELSE snap[f]
    BY <1>2 DEF OneButtonBatchPublish
  <2>4. /\ cand' = [f \in Files |-> cand'[f]] /\ conf' = [f \in Files |-> conf'[f]]
        /\ snap' = [f \in Files |-> snap'[f]]
        /\ mapping' = mapping
    BY DEF OneButtonBatchPublish
  <2> QED
    BY <2>1, <2>2, <2>3, <2>4
<1>4. ASSUME NEW f \in S
      PROVE  row(f) \in CandidateRow /\ config(f) \in ConfigRow /\ published(f) \in SnapshotRow
  <2>1. conf[f].ver \in 0..MaxVersion /\ v[f] + 1 \in Versions
    BY <1>1, <1>2 DEF ConfigRow
  <2> QED
    BY <2>1 DEF CandidateRow, ConfigRow, SnapshotRow, StatusType, Versions
<1>5. ApplyTypeOK'
  <2> HIDE DEF row, config, published
  <2>1. \A f \in Files : cand'[f] \in CandidateRow /\ conf'[f] \in ConfigRow
    <3> TAKE f \in Files
    <3>1. CASE f \in S
      BY <1>3, <1>4, <3>1
    <3>2. CASE f \notin S
      BY <1>1, <1>3, <3>2
    <3> QED
      BY <3>1, <3>2
  <2>2. \A f \in Files : snap'[f] \in [Versions -> SnapshotRow]
    <3> TAKE f \in Files
    <3>1. CASE f \in S
      <4>1. published(f) \in SnapshotRow /\ snap[f] \in [Versions -> SnapshotRow]
        BY <1>1, <1>4, <3>1
      <4>2. snap'[f] = [snap[f] EXCEPT ![v[f] + 1] = published(f)]
        BY <1>3, <3>1
      <4> QED
        BY <4>1, <4>2
    <3>2. CASE f \notin S
      BY <1>1, <1>3, <3>2
    <3> QED
      BY <3>1, <3>2
  <2>3. cand' \in [Files -> CandidateRow]
    BY <1>3, <2>1
  <2>4. conf' \in [Files -> ConfigRow]
    BY <1>3, <2>1
  <2>5. snap' \in [Files -> [Versions -> SnapshotRow]]
    BY <1>3, <2>2
  <2> QED
    BY <1>1, <1>3, <2>3, <2>4, <2>5 DEF ApplyTypeOK
<1>6. ASSUME NEW f \in S
      PROVE  Publishes(f)
  <2>1. /\ cand'[f] = row(f) /\ conf'[f] = config(f)
        /\ snap'[f] = [snap[f] EXCEPT ![v[f] + 1] = published(f)]
        /\ cand[f].edit = v[f] /\ v[f] \in Nat /\ v[f] + 1 \in Versions
        /\ snap[f] \in [Versions -> SnapshotRow]
    BY <1>1, <1>2, <1>3
  <2> QED
    BY <2>1 DEF Publishes, Versions
<1>7. \A f \in Files \ S : cand'[f] = cand[f] /\ snap'[f] = snap[f] /\ conf'[f] = conf[f]
  BY <1>3
<1> QED
  BY <1>5, <1>6, <1>7 DEF PublishesOnly
-----------------------------------------------------------------------------
LEMMA ApplyInitInv == ApplyInit => ApplyInv
<1> SUFFICES ASSUME ApplyInit PROVE ApplyInv
  OBVIOUS
<1> USE DEF ApplyInit, NoCandidate, NoSnapshot, NoConfig, NoLock
<1>1. ApplyTypeOK
  BY DEF ApplyTypeOK, CandidateRow, SnapshotRow, ConfigRow, MappingRow, Versions
<1>2. SnapshotsAreHistory
  <2>1. \A f \in Files : cand[f].edit = 0 /\ \A w \in Versions : snap[f][w].st = "NONE"
    OBVIOUS
  <2>2. \A w \in Versions : ~(w <= 0)
    BY DEF Versions
  <2>3. ~(0 > 0)
    OBVIOUS
  <2> QED
    BY <2>1, <2>2, <2>3, Zenon DEF SnapshotsAreHistory, HasSnapshot
<1>3. ConfigIsLatestPublish
  BY DEF ConfigIsLatestPublish, Versions
<1>4. EditsAreBasedOnPublished /\ UnpublishedIsNotInUse /\ DeletedIsNotInUse
  BY DEF EditsAreBasedOnPublished, UnpublishedIsNotInUse, DeletedIsNotInUse
<1> QED
  BY <1>1, <1>2, <1>3, <1>4 DEF ApplyInv

LEMMA ApplyStepInv == ApplyInv /\ [ApplyQueueStep]_applyVars => ApplyInv'
<1> SUFFICES ASSUME ApplyInv, [ApplyQueueStep]_applyVars PROVE ApplyInv'
  OBVIOUS
<1>1. ASSUME NEW f \in Files, ApplyNew(f) PROVE ApplyInv'
  BY <1>1, ApplyNewKeepsInv
<1>2. ASSUME NEW f \in Files, ApproveAndPublish(f) PROVE ApplyInv'
  <2>1. {f} \in SUBSET Files /\ PublishesOnly({f})
    BY <1>2, ApproveAndPublishIsPublish
  <2> QED
    BY <2>1, PublishKeepsInv
<1>3. ASSUME NEW f \in Files, NEW v \in Versions,
             Apply(f, v) \/ ForceApply(f, v) \/ Approve(f, v) \/ Reject(f, v) \/ Cancel(f, v)
      PROVE  ApplyInv'
  <2>1. PICK st \in StatusType \ {"PUBLISH", "DELETE"} : UpdateCandidate(f, v, st)
    BY <1>3 DEF Apply, ForceApply, Approve, Reject, Cancel, ChangeStatusAndSave, StatusType
  <2>2. UNCHANGED <<conf, mapping>>
    BY <1>3 DEF Apply, ForceApply, Approve, Reject, Cancel
  <2> QED
    BY <2>1, <2>2, UpdateKeepsInv
<1>4. ASSUME NEW f \in Files, NEW v \in Versions, Publish(f, v) PROVE ApplyInv'
  <2>1. {f} \in SUBSET Files /\ PublishesOnly({f})
    BY <1>4, PublishIsPublish
  <2> QED
    BY <2>1, PublishKeepsInv
<1>5. ASSUME NEW f \in Files, NEW v \in Versions, Delete(f, v) PROVE ApplyInv'
  BY <1>5, DeleteKeepsInv
<1>6. ASSUME NEW S \in SUBSET Files, NEW v \in [S -> 0..MaxVersion], OneButtonBatchPublish(S, v)
      PROVE  ApplyInv'
  BY <1>6, OneButtonIsPublish, PublishKeepsInv
<1>7. CASE UNCHANGED applyVars
  BY <1>7 DEF applyVars, ApplyInv, ApplyTypeOK, SnapshotsAreHistory, HasSnapshot,
     ConfigIsLatestPublish, EditsAreBasedOnPublished, UnpublishedIsNotInUse, DeletedIsNotInUse
<1> QED
  BY <1>1, <1>2, <1>3, <1>4, <1>5, <1>6, <1>7 DEF ApplyQueueStep

\* The invariant holds of every behaviour of the workflow.
THEOREM ApplyInvariant == ApplyQueueSpec => []ApplyInv
<1> QED
  BY ApplyInitInv, ApplyStepInv, PTL DEF ApplyQueueSpec

\* Every row keeps its type: no handler lets a version leave smallint, and no
\* base or status is ever undefined (UpdateCandidate and the publishes).
THEOREM ApplyTypeCorrect == ApplyQueueSpec => []ApplyTypeOK
<1>1. ApplyInv => ApplyTypeOK
  BY DEF ApplyInv
<1> QED
  BY <1>1, ApplyInvariant, PTL

\* config_candidate_snapshot is the whole history of config_candidate.
THEOREM HistoryIsComplete == ApplyQueueSpec => []SnapshotsAreHistory
<1>1. ApplyInv => SnapshotsAreHistory
  BY DEF ApplyInv
<1> QED
  BY <1>1, ApplyInvariant, PTL

\* `config` always names the newest version that was ever published.
THEOREM LatestIsPublished == ApplyQueueSpec => []ConfigIsLatestPublish
<1>1. ApplyInv => ConfigIsLatestPublish
  BY DEF ApplyInv
<1> QED
  BY <1>1, ApplyInvariant, PTL

\* Whatever edit is open, it was made on the version that is published.
THEOREM NoEditIsOutdated == ApplyQueueSpec => []EditsAreBasedOnPublished
<1>1. ApplyInv => EditsAreBasedOnPublished
  BY DEF ApplyInv
<1> QED
  BY <1>1, ApplyInvariant, PTL

\* No handler leaves a deleted file in use.
THEOREM DeletedStaysOutOfUse == ApplyQueueSpec => []DeletedIsNotInUse
<1>1. ApplyInv => DeletedIsNotInUse
  BY DEF ApplyInv
<1> QED
  BY <1>1, ApplyInvariant, PTL

-----------------------------------------------------------------------------
(* Refinement of ConfigTable.                                                *)

\* A publish is one of the table.
LEMMA PublishIsTableStep ==
    ASSUME ApplyInv, NEW S \in SUBSET Files, S # {}, PublishesOnly(S)
    PROVE  Table!ConfigNext
<1>1. /\ conf \in [Files -> ConfigRow] /\ conf' \in [Files -> ConfigRow]
      /\ cand \in [Files -> CandidateRow] /\ cand' \in [Files -> CandidateRow]
  BY DEF PublishesOnly, ApplyInv, ApplyTypeOK
<1>2. ASSUME NEW f \in S
      PROVE  f \in Files /\ conf'[f].ver > conf[f].ver /\ conf'[f].inuse
  <2>1. f \in Files /\ Publishes(f)
    BY DEF PublishesOnly
  <2>2. conf'[f].ver = cand'[f].edit /\ conf'[f].inuse /\ cand[f].edit < cand'[f].edit
    BY <2>1 DEF Publishes
  <2>3. conf[f].ver <= cand[f].edit
    BY <2>1, PublishedIsInHistory
  <2>4. conf[f].ver \in Nat /\ cand[f].edit \in Nat /\ cand'[f].edit \in Nat
    BY <1>1, <2>1 DEF ConfigRow, CandidateRow
  <2> QED
    BY <2>1, <2>2, <2>3, <2>4
<1>3. \A f \in Files \ S : conf'[f] = conf[f]
  BY DEF PublishesOnly
<1>4. \A f \in Files : conf'[f].ver \in 0..MaxVersion /\ conf'[f].inuse \in BOOLEAN
                       /\ conf[f].inuse \in BOOLEAN
  BY <1>1 DEF ConfigRow
<1>5. Table!PublishFiles(S)
  <2>1. [f \in Files |-> conf'[f].ver] \in [Files -> 0..MaxVersion]
    BY <1>4
  <2>2. \A f \in S : [g \in Files |-> conf'[g].ver][f] > [g \in Files |-> conf[g].ver][f]
    BY <1>2
  <2>3. \A f \in Files \ S : [g \in Files |-> conf'[g].ver][f] = [g \in Files |-> conf[g].ver][f]
    BY <1>3
  <2>4. \A f \in Files : conf'[f].inuse = (f \in S \/ conf[f].inuse)
    BY <1>2, <1>3, <1>4
  <2>5. [f \in Files |-> conf'[f].inuse]
          = [f \in Files |-> f \in S \/ [g \in Files |-> conf[g].inuse][f]]
    BY <2>4
  <2> QED
    BY <2>1, <2>2, <2>3, <2>5 DEF Table!PublishFiles
<1>6. S \in (SUBSET Files) \ {{}}
  OBVIOUS
<1> QED
  BY <1>5, <1>6, Zenon DEF Table!ConfigNext

\* A deletion takes one file out of use, or does not touch the table.
LEMMA DeleteIsTableStep ==
    ASSUME ApplyInv, NEW f \in Files, NEW v \in Versions, Delete(f, v)
    PROVE  [Table!ConfigNext]_(Table!configVars)
<1>1. conf \in [Files -> ConfigRow]
  BY DEF ApplyInv, ApplyTypeOK
<1>2. UNCHANGED conf \/ conf' = [conf EXCEPT ![f].inuse = FALSE]
  BY DEF Delete
<1>3. CASE UNCHANGED conf
  BY <1>3 DEF Table!configVars
<1>4. CASE conf' = [conf EXCEPT ![f].inuse = FALSE]
  <2>1. /\ \A g \in Files : conf'[g].ver = conf[g].ver
        /\ \A g \in Files \ {f} : conf'[g].inuse = conf[g].inuse
        /\ ~conf'[f].inuse
    <3>1. \A g \in Files : conf[g] \in ConfigRow
      BY <1>1
    <3> QED
      BY <1>1, <1>4, <3>1 DEF ConfigRow
  <2>2. \A g \in Files : conf'[g].inuse \in BOOLEAN /\ conf[g].inuse \in BOOLEAN
    BY <1>1, <1>4 DEF ConfigRow
  <2>3. [g \in Files |-> conf'[g].ver] = [g \in Files |-> conf[g].ver]
    BY <2>1
  <2>4. CASE conf[f].inuse
    <3>1. [g \in Files |-> conf'[g].inuse] = [[g \in Files |-> conf[g].inuse] EXCEPT ![f] = FALSE]
      BY <2>1, <2>2
    <3>2. Table!TakeOutOfUse(f)
      BY <2>3, <2>4, <3>1 DEF Table!TakeOutOfUse
    <3> QED
      BY <3>2 DEF Table!ConfigNext
  <2>5. CASE ~conf[f].inuse
    <3>1. [g \in Files |-> conf'[g].inuse] = [g \in Files |-> conf[g].inuse]
      BY <2>1, <2>2, <2>5
    <3> QED
      BY <2>3, <3>1 DEF Table!configVars
  <2> QED
    BY <2>4, <2>5
<1> QED
  BY <1>2, <1>3, <1>4

LEMMA ApplyStepIsTableStep ==
    ApplyInv /\ [ApplyQueueStep]_applyVars => [Table!ConfigNext]_(Table!configVars)
<1> SUFFICES ASSUME ApplyInv, [ApplyQueueStep]_applyVars
             PROVE  [Table!ConfigNext]_(Table!configVars)
  OBVIOUS
<1>1. CASE UNCHANGED conf
  BY <1>1 DEF Table!configVars
<1>2. ASSUME NEW f \in Files, ApproveAndPublish(f) PROVE Table!ConfigNext
  <2>1. {f} \in SUBSET Files /\ {f} # {} /\ PublishesOnly({f})
    BY <1>2, ApproveAndPublishIsPublish
  <2> QED
    BY <2>1, PublishIsTableStep
<1>3. ASSUME NEW f \in Files, NEW v \in Versions, Publish(f, v) PROVE Table!ConfigNext
  <2>1. {f} \in SUBSET Files /\ {f} # {} /\ PublishesOnly({f})
    BY <1>3, PublishIsPublish
  <2> QED
    BY <2>1, PublishIsTableStep
<1>4. ASSUME NEW S \in SUBSET Files, S # {}, NEW v \in [S -> 0..MaxVersion],
             OneButtonBatchPublish(S, v)
      PROVE  Table!ConfigNext
  BY <1>4, OneButtonIsPublish, PublishIsTableStep
<1>5. ASSUME NEW f \in Files, NEW v \in Versions, Delete(f, v)
      PROVE  [Table!ConfigNext]_(Table!configVars)
  BY <1>5, DeleteIsTableStep
<1>6. ASSUME NEW f \in Files, NEW v \in Versions,
             Apply(f, v) \/ ForceApply(f, v) \/ Approve(f, v) \/ Reject(f, v) \/ Cancel(f, v)
      PROVE  UNCHANGED conf
  BY <1>6 DEF Apply, ForceApply, Approve, Reject, Cancel
<1>7. CASE UNCHANGED applyVars
  BY <1>1, <1>7 DEF applyVars
<1>8. CASE \E f \in Files : ApplyNew(f) \/ ApproveAndPublish(f)
  <2>1. CASE \E f \in Files : ApplyNew(f)
    BY <1>1, <2>1 DEF ApplyNew
  <2> QED
    BY <1>2, <1>8, <2>1
<1>9. CASE \E f \in Files, v \in Versions :
              \/ Apply(f, v) \/ ForceApply(f, v)
              \/ Approve(f, v) \/ Reject(f, v) \/ Cancel(f, v)
              \/ Publish(f, v) \/ Delete(f, v)
  BY <1>1, <1>3, <1>5, <1>6, <1>9
<1>10. CASE \E S \in (SUBSET Files) \ {{}} : \E v \in [S -> 0..MaxVersion] :
              OneButtonBatchPublish(S, v)
  BY <1>4, <1>10
<1> QED
  BY <1>7, <1>8, <1>9, <1>10 DEF ApplyQueueStep

\* The workflow implements the table the servers rely on: whatever pages, reviews
\* and one-button publishes race, `config` only ever moves to newer versions, a
\* batch is published as a whole, and only a deletion takes a file out of use.
THEOREM WorkflowImplementsTable == ApplyQueueSpec => ImplementsConfigTable
<1>1. ApplyInit => Table!ConfigInit
  BY DEF ApplyInit, NoConfig, Table!ConfigInit
<1> QED
  BY <1>1, ApplyInvariant, ApplyStepIsTableStep, PTL
     DEF ApplyQueueSpec, ImplementsConfigTable, Table!ConfigSpec

=============================================================================
