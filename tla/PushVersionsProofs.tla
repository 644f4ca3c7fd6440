-------------------------- MODULE PushVersionsProofs ------------------------
(***************************************************************************)
(* For any machines and versions: types, and what was pushed stays pushed  *)
(* until a publication makes it equal for all (GrantsKept, PublishLevels). *)
(***************************************************************************)
EXTENDS PushVersions, TLAPS

\* Versions are pushed after they were edited, and a row holds one that was pushed.
PushesAreEdits ==
    /\ passed => edit # 0
    /\ finishing => edit < MaxVersion /\ release # 0
    /\ \A v \in begun : v <= edit
    /\ \A p \in prepared : p[2] \in begun
    /\ \A m \in Machines : row[m] = 0 \/ <<m, row[m]>> \in prepared

\* What may still be deleted: versions that are published over, but for those finishTask
\* has posted too early.
Cleaned(v) == published > v \/ \E e \in early : v <= e
DeletesAreOld ==
    /\ \A max \in deletes : Cleaned(max)
    /\ \A p \in selected : Cleaned(p[2])

PushInv == PushTypeOK /\ PushesAreEdits /\ DeletesAreOld /\ GrantsKept

USE PushAssumption

LEMMA InitPushInv == PushInit => PushInv
<1> SUFFICES ASSUME PushInit PROVE PushInv
  OBVIOUS
<1> USE DEF PushInit
<1>1. PushTypeOK
  <2>1. row \in [Machines -> 0..MaxVersion] /\ pushed \in [Machines -> 0..MaxVersion]
    OBVIOUS
  <2>2. published \in 0..MaxVersion /\ edit \in published..MaxVersion /\ release \in 0..edit /\ seen \in 0..published
    OBVIOUS
  <2>3. loaded \in {NoMap} \cup Map
    OBVIOUS
  <2>4. QED
    BY <2>1, <2>2, <2>3 DEF PushTypeOK
<1>2. PushesAreEdits /\ DeletesAreOld /\ GrantsKept
  BY DEF PushesAreEdits, DeletesAreOld, GrantsKept
<1>3. QED
  BY <1>1, <1>2 DEF PushInv

LEMMA Numbers ==
    ASSUME PushTypeOK
    PROVE  /\ published \in Nat /\ edit \in Nat /\ release \in Nat /\ published <= edit
           /\ edit <= MaxVersion /\ release <= edit
           /\ \A m \in Machines : row[m] \in Nat
           /\ \A p \in prepared \cup selected : p[1] \in Machines /\ p[2] \in Nat
           /\ \A v \in begun \cup deletes \cup early : v \in Nat
  BY DEF PushTypeOK, Push, Version

\* What is cleaned stays so when the published version and `early` only grow, and a
\* grant stays when its row does.
LEMMA CleanedStays ==
    ASSUME PushInv, PushTypeOK', published' >= published, early \subseteq early',
           deletes' \subseteq deletes, selected' \subseteq selected
    PROVE  DeletesAreOld'
<1>1. ASSUME NEW v \in Nat, Cleaned(v) PROVE Cleaned(v)'
  BY <1>1, Numbers, published' \in Nat DEF Cleaned, PushInv, PushTypeOK
<1>2. QED
  BY <1>1, Numbers DEF DeletesAreOld, PushInv

LEMMA GrantsStayWith ==
    ASSUME PushInv, PushTypeOK', published' >= published, early \subseteq early',
           prepared' = prepared, row' = row
    PROVE  GrantsKept'
<1> SUFFICES ASSUME NEW p \in prepared
             PROVE  row[p[1]] >= p[2] \/ published' > p[2] \/ \E e \in early' : p[2] <= e
  BY DEF GrantsKept
<1>1. row[p[1]] >= p[2] \/ published > p[2] \/ \E e \in early : p[2] <= e
  BY DEF GrantsKept, PushInv
<1>2. p[2] \in Nat /\ published \in Nat /\ published' \in Nat
  BY Numbers DEF PushInv, PushTypeOK
<1>3. QED
  BY <1>1, <1>2

\* Steps of a server, and those that do not concern the table of pushes.
LEMMA ServerKeeps == PushInv /\ ServerStep => PushInv'
<1> SUFFICES ASSUME PushInv, ServerStep PROVE PushInv'
  OBVIOUS
<1> USE DEF PushInv
<1>1. UNCHANGED <<fileVars, tableVars>>
  BY DEF ServerStep, Learn, PutRow, Fresh, FreshSelect, FreshReplace, Restart, PushWithIp, PushByHand, ReadRow
<1>2. PushesAreEdits' /\ DeletesAreOld' /\ GrantsKept'
  BY <1>1 DEF PushesAreEdits, DeletesAreOld, Cleaned, GrantsKept, fileVars, tableVars
<1>3. /\ seen' \in 0..published
      /\ pushed' \in [Machines -> 0..MaxVersion]
      /\ loaded' \in {NoMap} \cup Map
      /\ read' \subseteq Push
  <2> USE DEF PushTypeOK
  <2>1. CASE Learn
    BY <2>1 DEF Learn, Row
  <2>2. CASE PutRow
    BY <2>2 DEF PutRow, Raised, Newer, Push, Version
  <2>3. CASE FreshSelect
    BY <2>3 DEF FreshSelect, Map
  <2>4. CASE FreshReplace
    BY <2>4 DEF FreshReplace, FreshMap, Map, NoMap
  <2>5. CASE Restart
    BY <2>5 DEF Restart, Row
  <2>6. CASE \E m \in Machines, v \in Version : PushWithIp(m, v) \/ PushByHand(m, v)
    BY <2>6 DEF PushWithIp, PushByHand, Raised, Newer, Version
  <2>7. CASE \E m \in Machines : ReadRow(m)
    BY <2>7 DEF ReadRow, Push, Version
  <2>8. QED
    BY <2>1, <2>2, <2>3, <2>4, <2>5, <2>6, <2>7 DEF ServerStep, Fresh
<1>4. QED
  BY <1>1, <1>2, <1>3 DEF PushTypeOK, fileVars, tableVars

LEMMA FileKeeps == PushInv /\ FileStep => PushInv'
<1> SUFFICES ASSUME PushInv, FileStep PROVE PushInv'
  OBVIOUS
<1>1. PushTypeOK /\ PushesAreEdits /\ DeletesAreOld
  BY DEF PushInv
<1>2. PushTypeOK'
  <2>1. edit' = edit + 1 /\ edit < MaxVersion
    BY DEF FileStep, Edit, Publish, TakeOutOfUse
  <2>2. published' \in {published, edit + 1} /\ release' = release
        /\ inuse' \in BOOLEAN /\ passed' \in BOOLEAN /\ finishing' = finishing
    BY <1>1 DEF FileStep, Edit, Publish, TakeOutOfUse, NewVersion, PushTypeOK
  <2>3. UNCHANGED <<row, prepared, begun, selected, early, serverVars>>
    BY DEF FileStep, Edit, Publish, TakeOutOfUse, tableVars
  <2>4. deletes' \subseteq Version
    <3>1. deletes \subseteq Version /\ (passed => edit \in Version)
      BY <1>1, Numbers DEF PushTypeOK, PushesAreEdits, Version
    <3>2. deletes' = deletes \/ (passed /\ deletes' = deletes \cup {edit})
      <4>1. CASE Edit \/ TakeOutOfUse
        BY <4>1 DEF Edit, TakeOutOfUse, tableVars
      <4>2. CASE Publish
        BY <4>2 DEF Publish
      <4>3. QED
        BY <4>1, <4>2 DEF FileStep
    <3>3. QED
      BY <3>1, <3>2
  <2>5. QED
    BY <1>1, <2>1, <2>2, <2>3, <2>4 DEF PushTypeOK, serverVars
<1>3. PushesAreEdits'
  <2>1. edit \in Nat /\ edit' = edit + 1 /\ ~finishing /\ ~finishing'
    BY <1>1, Numbers DEF FileStep, Edit, Publish, TakeOutOfUse, PushesAreEdits
  <2>2. row' = row /\ prepared' = prepared /\ begun' = begun
    BY DEF FileStep, Edit, Publish, TakeOutOfUse, tableVars
  <2>3. \A v \in begun : v \in Nat /\ v <= edit
    BY <1>1, Numbers DEF PushesAreEdits
  <2>4. \A v \in begun' : v <= edit'
    BY <2>1, <2>2, <2>3
  <2>5. edit' # 0
    BY <2>1
  <2>6. QED
    BY <1>1, <2>1, <2>2, <2>4, <2>5 DEF PushesAreEdits
<1>4. published' >= published /\ published' \in Nat
  BY <1>1, Numbers DEF FileStep, Edit, Publish, TakeOutOfUse, NewVersion
<1>5. early' = early /\ selected' = selected /\ prepared' = prepared /\ row' = row
  BY DEF FileStep, Edit, Publish, TakeOutOfUse, tableVars
<1>6. GrantsKept'
  BY <1>2, <1>4, <1>5, GrantsStayWith
<1>7. DeletesAreOld'
  <2>1. CASE Edit \/ TakeOutOfUse
    BY <2>1, <1>2, <1>4, <1>5, CleanedStays DEF Edit, TakeOutOfUse, tableVars
  <2>2. CASE Publish
    <3>1. edit \in Nat /\ published' > edit /\ deletes' \subseteq deletes \cup {edit}
      BY <2>2, <1>1, Numbers DEF Publish, NewVersion
    <3>2. ASSUME NEW v \in Nat, Cleaned(v) PROVE Cleaned(v)'
      BY <3>2, <1>1, <1>4, <1>5, Numbers DEF Cleaned
    <3>3. published' > edit \/ \E e \in early' : edit <= e
      BY <3>1
    <3>4. \A max \in deletes' : published' > max \/ \E e \in early' : max <= e
      <4> SUFFICES ASSUME NEW max \in deletes' PROVE published' > max \/ \E e \in early' : max <= e
        OBVIOUS
      <4>1. CASE max \in deletes
        BY <4>1, <3>2, <1>1, Numbers DEF DeletesAreOld, Cleaned
      <4>2. QED
        BY <4>1, <3>1, <3>3
    <3>5. \A p \in selected' : Cleaned(p[2])'
      BY <3>2, <1>1, <1>5, Numbers DEF DeletesAreOld
    <3>6. QED
      BY <3>4, <3>5 DEF DeletesAreOld, Cleaned
  <2>3. QED
    BY <2>1, <2>2 DEF FileStep
<1>8. QED
  BY <1>2, <1>3, <1>6, <1>7 DEF PushInv

\* A thread, late or not, never lowers a row.
LEMMA PrepareKeeps ==
    ASSUME NEW m \in Machines, NEW v \in Version, PushInv, PreparePush(m, v)
    PROVE  PushInv'
<1> USE DEF PreparePush, fileVars, serverVars
<1>1. PushTypeOK /\ PushesAreEdits /\ DeletesAreOld /\ GrantsKept
  BY DEF PushInv
<1>2. v \in Nat /\ v <= edit /\ v <= MaxVersion /\ row \in [Machines -> 0..MaxVersion]
  BY <1>1, Numbers DEF Version, PushesAreEdits, PushTypeOK
<1>3. row[m] \in 0..MaxVersion
  BY <1>1 DEF PushTypeOK
<1>4. Upserted(m, v) \in {row[m], v} /\ Upserted(m, v) >= row[m] /\ Upserted(m, v) >= v
  BY <1>2, <1>3 DEF Upserted, Newer
<1>5. row' = [row EXCEPT ![m] = Upserted(m, v)] /\ prepared' = prepared \cup {<<m, v>>}
  OBVIOUS
<1>6. row' \in [Machines -> 0..MaxVersion] /\ prepared' \subseteq Push
  BY <1>1, <1>2, <1>3, <1>4, <1>5 DEF PushTypeOK, Push
<1>7. \A n \in Machines : row[n] \in Nat /\ row'[n] \in Nat /\ row'[n] >= row[n] /\ (row'[n] = row[n] \/ (n = m /\ row'[n] = v))
  <2> SUFFICES ASSUME NEW n \in Machines
               PROVE  row[n] \in Nat /\ row'[n] \in Nat /\ row'[n] >= row[n] /\ (row'[n] = row[n] \/ (n = m /\ row'[n] = v))
    OBVIOUS
  <2>1. row'[n] = IF n = m THEN Upserted(m, v) ELSE row[n]
    BY <1>2, <1>5
  <2>2. row[n] \in Nat
    BY <1>2
  <2>3. CASE n = m
    BY <1>2, <1>4, <2>1, <2>2, <2>3
  <2>4. CASE n # m
    BY <2>1, <2>2, <2>4
  <2>5. QED
    BY <2>3, <2>4
<1>8. PushTypeOK'
  BY <1>1, <1>6 DEF PushTypeOK
<1>9. PushesAreEdits'
  <2>1. \A p \in prepared' : p[2] \in begun
    BY <1>1, <1>5 DEF PushesAreEdits
  <2>2. \A n \in Machines : row'[n] = 0 \/ <<n, row'[n]>> \in prepared'
    BY <1>1, <1>5, <1>7 DEF PushesAreEdits
  <2>3. QED
    BY <1>1, <2>1, <2>2 DEF PushesAreEdits
<1>10. DeletesAreOld'
  BY <1>1 DEF DeletesAreOld, Cleaned
<1>11. GrantsKept'
  <2> SUFFICES ASSUME NEW p \in prepared'
               PROVE  row'[p[1]] >= p[2] \/ published > p[2] \/ \E e \in early : p[2] <= e
    BY DEF GrantsKept
  <2>1. CASE p \in prepared
    <3>1. p[1] \in Machines /\ p[2] \in Nat
      BY <1>1, <2>1, Numbers
    <3>2. row[p[1]] >= p[2] \/ published > p[2] \/ \E e \in early : p[2] <= e
      BY <1>1, <2>1 DEF GrantsKept
    <3>3. row'[p[1]] \in Nat /\ row[p[1]] \in Nat /\ row'[p[1]] >= row[p[1]]
      BY <1>7, <3>1
    <3>4. QED
      BY <3>1, <3>2, <3>3
  <2>2. CASE p = <<m, v>>
    BY <2>2, <1>2, <1>4, <1>5
  <2>3. QED
    BY <1>5, <2>1, <2>2
<1>12. QED
  BY <1>8, <1>9, <1>10, <1>11 DEF PushInv

LEMMA ReleaseKeeps == PushInv /\ ReleaseStep => PushInv'
<1> SUFFICES ASSUME PushInv, ReleaseStep PROVE PushInv'
  OBVIOUS
<1> USE DEF PushInv, PushTypeOK, fileVars, serverVars, Version, Push
<1>0. passed => edit \in Version /\ edit \in 0..edit
  BY Numbers DEF PushesAreEdits
<1>1. CASE BeginRelease \/ FinishPosts
  <2>1. /\ published' = published /\ early \subseteq early' /\ selected' = selected
        /\ prepared' = prepared /\ row' = row /\ edit' = edit /\ passed' = passed /\ inuse' = inuse
        /\ passed /\ UNCHANGED serverVars
    BY <1>1 DEF BeginRelease, FinishPosts
  <2>2. PushTypeOK'
    <3>1. release' \in 0..edit /\ begun' \subseteq Version /\ deletes' \subseteq Version
          /\ early' \subseteq Version /\ finishing' \in BOOLEAN
      BY <1>0, <1>1 DEF BeginRelease, FinishPosts
    <3>2. QED
      BY <2>1, <3>1
  <2>3. PushesAreEdits'
    <3>1. \A v \in begun' : v <= edit
      <4>1. \A v \in begun : v <= edit
        BY DEF PushesAreEdits
      <4>2. begun' \subseteq begun \cup {edit} /\ edit <= edit
        BY <1>1, Numbers DEF BeginRelease, FinishPosts
      <4>3. QED
        BY <4>1, <4>2
    <3>2. begun \subseteq begun' /\ (finishing' => edit < MaxVersion /\ release' # 0)
      BY <1>1 DEF BeginRelease, FinishPosts, PushesAreEdits
    <3>3. QED
      BY <2>1, <3>1, <3>2 DEF PushesAreEdits
  <2>4. GrantsKept'
    <3>1. published' >= published
      BY <2>1, Numbers
    <3>2. QED
      BY <2>1, <2>2, <3>1, GrantsStayWith
  <2>5. DeletesAreOld'
    <3>1. ASSUME NEW v, Cleaned(v) PROVE Cleaned(v)'
      BY <3>1, <2>1 DEF Cleaned
    <3>2. \A max \in deletes' : Cleaned(max)'
      <4>1. CASE BeginRelease
        BY <4>1, <3>1 DEF BeginRelease, DeletesAreOld
      <4>2. CASE FinishPosts
        <5>1. Cleaned(release)'
          BY <4>2, Numbers DEF FinishPosts, Cleaned
        <5>2. QED
          BY <4>2, <5>1, <3>1 DEF FinishPosts, DeletesAreOld
      <4>3. QED
        BY <1>1, <4>1, <4>2
    <3>3. \A p \in selected' : Cleaned(p[2])'
      BY <2>1, <3>1 DEF DeletesAreOld
    <3>4. QED
      BY <3>2, <3>3 DEF DeletesAreOld
  <2>6. QED
    BY <2>2, <2>3, <2>4, <2>5
<1>2. CASE CancelRelease \/ FinishRollsBack
  <2>1. UNCHANGED <<published, inuse, edit, passed, tableVars, serverVars>> /\ ~finishing'
        /\ finishing' \in BOOLEAN /\ release' \in {0, release}
    <3>1. CASE CancelRelease
      BY <3>1 DEF CancelRelease
    <3>2. CASE FinishRollsBack
      BY <3>2 DEF FinishRollsBack
    <3>3. QED
      BY <1>2, <3>1, <3>2
  <2>2. PushTypeOK'
    <3>1. release' \in 0..edit
      BY <2>1, Numbers
    <3>2. UNCHANGED <<row, prepared, begun, deletes, selected, early>> /\ UNCHANGED <<seen, pushed, loaded, read>>
      BY <2>1 DEF tableVars
    <3> HIDE DEF Push, Version
    <3>3. QED
      BY <2>1, <3>1, <3>2
  <2>3. PushesAreEdits'
    BY <2>1 DEF tableVars, PushesAreEdits
  <2>4. DeletesAreOld' /\ GrantsKept'
    BY <2>1 DEF tableVars, DeletesAreOld, Cleaned, GrantsKept
  <2>5. QED
    BY <2>2, <2>3, <2>4
<1>3. CASE FinishCommits
  <2>1. PushTypeOK'
    <3>1. edit \in Nat /\ edit < MaxVersion /\ published <= edit /\ published \in Nat
      BY <1>3, Numbers DEF FinishCommits, PushesAreEdits
    <3>2. published' = edit + 1 /\ edit' = edit + 1 /\ release' = 0 /\ inuse' = TRUE /\ passed' = FALSE
          /\ finishing' = FALSE /\ UNCHANGED <<tableVars, serverVars>>
      BY <1>3 DEF FinishCommits, NewVersion
    <3>3. published' \in 0..MaxVersion /\ edit' \in published'..MaxVersion /\ release' \in 0..edit'
          /\ seen' \in 0..published'
      BY <3>1, <3>2
    <3>4. QED
      BY <3>2, <3>3 DEF tableVars
  <2>2. PushesAreEdits'
    BY <1>3, Numbers DEF FinishCommits, tableVars, PushesAreEdits
  <2>3. published' >= published
    BY <1>3, Numbers DEF FinishCommits, NewVersion
  <2>4. GrantsKept' /\ DeletesAreOld'
    BY <1>3, <2>1, <2>3, GrantsStayWith, CleanedStays DEF FinishCommits, tableVars
  <2>5. QED
    BY <2>1, <2>2, <2>4
<1>5. CASE \E m \in Machines, v \in Version : PreparePush(m, v)
  BY <1>5, PrepareKeeps
<1>6. QED
  BY <1>1, <1>2, <1>3, <1>5 DEF ReleaseStep

LEMMA RowDeleted ==
    ASSUME NEW m \in Machines, NEW v, row \in [Machines -> 0..MaxVersion], DeleteRow(m, v)
    PROVE  /\ row' \in [Machines -> 0..MaxVersion]
           /\ \A n \in Machines : row'[n] = row[n] \/ (n = m /\ row[n] <= v /\ row'[n] = 0)
<1>1. row' = IF row[m] <= v THEN [row EXCEPT ![m] = 0] ELSE row
  BY DEF DeleteRow, Deletes
<1>2. CASE row[m] <= v
  BY <1>1, <1>2
<1>3. CASE ~(row[m] <= v)
  BY <1>1, <1>3
<1>4. QED
  BY <1>2, <1>3

\* A row is deleted with the version that was selected, and never a newer one.
LEMMA DeleteKeeps == PushInv /\ DeleteStep => PushInv'
<1> SUFFICES ASSUME PushInv, DeleteStep PROVE PushInv'
  OBVIOUS
<1> USE DEF PushInv, PushTypeOK, fileVars, serverVars, Version, Push
<1>1. ASSUME NEW max \in Version, DeleteSelect(max) PROVE PushInv'
  <2>1. PushesAreEdits' /\ GrantsKept'
    BY <1>1 DEF DeleteSelect, PushesAreEdits, GrantsKept
  <2>2. Cleaned(max) /\ \A q \in deletes : Cleaned(q)
    BY <1>1 DEF DeleteSelect, DeletesAreOld
  <2>3. \A p \in selected' : Cleaned(p[2])
    <3> SUFFICES ASSUME NEW p \in selected' PROVE Cleaned(p[2])
      OBVIOUS
    <3>1. CASE p \in selected
      BY <3>1 DEF DeletesAreOld
    <3>2. CASE p \in Push /\ p[2] <= max
      BY <3>2, <2>2, Numbers DEF Cleaned
    <3>3. QED
      BY <1>1, <3>1, <3>2 DEF DeleteSelect
  <2>4. DeletesAreOld'
    BY <1>1, <2>2, <2>3 DEF DeleteSelect, DeletesAreOld, Cleaned
  <2>5. QED
    BY <1>1, <2>1, <2>4 DEF DeleteSelect
<1>2. ASSUME NEW m \in Machines, NEW v \in Version, DeleteRow(m, v) PROVE PushInv'
  <2>1. row \in [Machines -> 0..MaxVersion] /\ v \in Nat
    OBVIOUS
  <2>2. /\ row' \in [Machines -> 0..MaxVersion]
        /\ \A n \in Machines : row'[n] = row[n] \/ (n = m /\ row[n] <= v /\ row'[n] = 0)
    BY <1>2, <2>1, RowDeleted
  <2>3. PushesAreEdits'
    <3>1. UNCHANGED <<passed, edit, release, finishing, begun, prepared>>
      BY <1>2 DEF DeleteRow
    <3>2. \A n \in Machines : row'[n] = 0 \/ <<n, row'[n]>> \in prepared
      <4>1. \A n \in Machines : row[n] = 0 \/ <<n, row[n]>> \in prepared
        BY DEF PushesAreEdits
      <4>2. QED
        BY <2>2, <4>1
    <3>3. QED
      BY <3>1, <3>2 DEF PushesAreEdits
  <2>4. DeletesAreOld'
    BY <1>2 DEF DeleteRow, DeletesAreOld, Cleaned
  <2>5. Cleaned(v)
    <3>1. <<m, v>> \in selected
      BY <1>2 DEF DeleteRow
    <3>2. QED
      BY <3>1 DEF DeletesAreOld
  <2>6. GrantsKept'
    <3> SUFFICES ASSUME NEW p \in prepared
                 PROVE  row'[p[1]] >= p[2] \/ published > p[2] \/ \E e \in early : p[2] <= e
      BY <1>2 DEF DeleteRow, GrantsKept
    <3>1. row[p[1]] >= p[2] \/ published > p[2] \/ \E e \in early : p[2] <= e
      BY DEF GrantsKept
    <3>2. p[1] \in Machines /\ p[2] \in Nat /\ row[p[1]] \in Nat /\ published \in Nat
      BY Numbers
    <3>3. CASE row'[p[1]] = row[p[1]]
      BY <3>1, <3>3
    <3>4. CASE row[p[1]] <= v /\ row[p[1]] >= p[2]
      BY <2>1, <2>5, <3>2, <3>4, Numbers DEF Cleaned
    <3>5. QED
      BY <2>2, <3>1, <3>2, <3>3, <3>4
  <2>7. QED
    BY <1>2, <2>2, <2>3, <2>4, <2>6 DEF DeleteRow
<1>3. CASE LoseDeletes
  BY <1>3 DEF LoseDeletes, PushesAreEdits, DeletesAreOld, Cleaned, GrantsKept
<1>4. QED
  BY <1>1, <1>2, <1>3 DEF DeleteStep

LEMMA PushInvHolds == PushSpec => []PushInv
<1>1. PushInv /\ [PushNext]_pushVars => PushInv'
  <2> SUFFICES ASSUME PushInv, [PushNext]_pushVars PROVE PushInv'
    OBVIOUS
  <2>1. CASE UNCHANGED pushVars
    BY <2>1 DEF PushInv, PushTypeOK, PushesAreEdits, DeletesAreOld, Cleaned, GrantsKept,
                pushVars, fileVars, tableVars, serverVars
  <2>2. QED
    BY <2>1, ServerKeeps, FileKeeps, ReleaseKeeps, DeleteKeeps DEF PushNext
<1>2. QED
  BY <1>1, InitPushInv, PTL DEF PushSpec

\* The state of table and caches is well typed, and editing never falls behind publishing.
THEOREM PushTypes == PushSpec => []PushTypeOK
  BY PushInvHolds, PTL DEF PushInv

\* A machine that was given a version is not set back before a newer one is published.
THEOREM GrantsStay == PushSpec => []GrantsKept
  BY PushInvHolds, PTL DEF PushInv

\* Publishing gives every machine the same version: a row is at most the edit that was
\* published, and the publication gets the next number.
THEOREM PublishingLevels == PushSpec => PublishLevels
<1> DEFINE Levels == published' # published => \A m \in Machines : InTable(m)' = published'
<1>1. PushInv /\ [PushNext]_pushVars => [Levels]_pushVars
  <2> SUFFICES ASSUME PushInv, PushNext, published' # published, NEW m \in Machines
               PROVE  InTable(m)' = published'
    BY DEF pushVars, fileVars
  <2>1. Publish \/ FinishCommits
    BY DEF PushNext, FileStep, Edit, TakeOutOfUse, ReleaseStep, BeginRelease, PreparePush, CancelRelease,
           FinishPosts, FinishRollsBack, DeleteStep, DeleteSelect, DeleteRow, LoseDeletes, ServerStep,
           Learn, PutRow, Fresh, FreshSelect, FreshReplace, Restart, PushWithIp, PushByHand, ReadRow, fileVars
  <2>2. published' = edit + 1 /\ inuse' /\ row' = row
    BY <2>1 DEF Publish, FinishCommits, NewVersion, tableVars
  <2>3. row[m] \in Nat /\ edit \in Nat /\ row[m] <= edit
    <3>1. row[m] \in Nat /\ edit \in Nat
      BY Numbers DEF PushInv
    <3>2. row[m] = 0 \/ <<m, row[m]>> \in prepared
      BY DEF PushInv, PushesAreEdits
    <3>3. \A p \in prepared : p[2] <= edit
      BY DEF PushInv, PushesAreEdits
    <3>4. QED
      BY <3>1, <3>2, <3>3
  <2>4. QED
    BY <2>2, <2>3 DEF InTable, LoadVersion, Row, Newer
<1>2. QED
  BY <1>1, PushInvHolds, PTL DEF PushSpec, PublishLevels
=============================================================================
