------------------------- MODULE GreyReleaseProofs --------------------------
(***************************************************************************)
(* Proofs about GreyRelease for any files, tasks, admins, threads and      *)
(* number of batches: the lock rows follow the tasks, and the workflow     *)
(* keeps its invariant although grey releases publish through it.          *)
(***************************************************************************)
EXTENDS GreyRelease, ApplyQueueProofs

\* The lock rows of one task: LocksFollowTask of t, and no rows before there is
\* a task.
Follows(t) ==
    /\ Leaked(t) = {} =>
          IF Active(t)
          THEN \A f \in taskConfig[t].files : mapping[f] = [uuid |-> t, lv |-> status[t].lv]
          ELSE Locks(t) = {}
    /\ status[t].st \in {"NONE", "DRAFT"} => Locks(t) = {}

GreyInv ==
    /\ ApplyInv
    /\ GreyTypeOK
    /\ \A t \in Uuids : Follows(t)

USE ApplyQueueAssumption, GreyAssumption
-----------------------------------------------------------------------------
(* Types of what threads hold.                                               *)

LEMMA BusyType ==
    ASSUME NEW pc \in {"pause", "next", "cancel", "work"}, NEW t \in Uuids, NEW info \in InfoRow
    PROVE  Busy(pc, t, info) \in WorkerState
  BY DEF Busy, WorkerState

LEMMA IdleType == Idle \in WorkerState
  BY DEF WorkerState

\* A thread that is not idle holds a StatusInfo of an active task.
LEMMA WorkerHolds ==
    ASSUME GreyTypeOK, NEW w \in Workers, worker[w].pc # "idle"
    PROVE  worker[w].task \in Uuids /\ worker[w].info \in InfoRow
<1>1. worker[w] \in WorkerState
  BY DEF GreyTypeOK
<1>2. worker[w] # Idle
  BY DEF Idle
<1> QED
  BY <1>1, <1>2 DEF WorkerState

\* The StatusInfo of an active task can be held.
LEMMA ActiveInfo ==
    ASSUME GreyTypeOK, NEW t \in Uuids, Active(t)
    PROVE  status[t] \in InfoRow
<1>1. status[t] \in StatusRow /\ status[t].fin < Batches
  BY DEF GreyTypeOK
<1>2. status[t].st \in ActiveStates
  BY DEF Active
<1> QED
  BY <1>1, <1>2 DEF StatusRow, InfoRow, ActiveStates

\* Where `next` leads: only the last batch finishes a task.
LEMMA NextInfo ==
    ASSUME NEW t \in Uuids, NEW info \in InfoRow, NEW n \in NextStates(t, info)
    PROVE  /\ n.st = "FINISH" => n \in StatusRow
           /\ n.st # "FINISH" => n \in InfoRow
           /\ n.lv = info.lv + 1
<1>1. info.st \in ActiveStates /\ info.fin \in -1..(Batches - 1) /\ info.lv \in Nat
  BY DEF InfoRow
<1>2. Batches \in Nat \ {0}
  BY DEF GreyAssumption
<1>3. ASSUME NEW st \in {"WAIT_PUBLISH", "PUBLISHING"}, n = Becomes(info, st)
      PROVE  n \in InfoRow /\ n.st # "FINISH" /\ n.lv = info.lv + 1
  BY <1>1, <1>3 DEF Becomes, Info, InfoRow, ActiveStates
<1>4. ASSUME NEW st \in ActiveStates, n = BatchDone(info, st), info.fin # Batches - 1
      PROVE  n \in InfoRow /\ n.st # "FINISH" /\ n.lv = info.lv + 1
  BY <1>1, <1>2, <1>4 DEF BatchDone, Info, InfoRow, ActiveStates
<1>5. ASSUME n = BatchDone(info, "FINISH"), info.fin = Batches - 1
      PROVE  n \in StatusRow /\ n.st = "FINISH" /\ n.lv = info.lv + 1
  BY <1>1, <1>2, <1>5 DEF BatchDone, Info, StatusRow, GreyReleaseState
<1>6. CASE info.st \in {"WAIT_PUBLISH", "DELAY_PUBLISH"}
  BY <1>3, <1>6 DEF NextStates
<1>7. CASE info.st = "PUBLISHING"
  <2>1. n = NextOfPublishing(t, info)
    BY <1>7 DEF NextStates
  <2>2. \/ n = BatchDone(info, "FINISH") /\ info.fin = Batches - 1
        \/ n = BatchDone(info, "WAIT_PUBLISH") /\ info.fin # Batches - 1
        \/ n = BatchDone(info, "DELAY_PUBLISH") /\ info.fin # Batches - 1
    BY <1>1, <1>2, <2>1 DEF NextOfPublishing
  <2> QED
    BY <1>4, <1>5, <2>2 DEF ActiveStates
<1> QED
  BY <1>1, <1>6, <1>7 DEF ActiveStates
-----------------------------------------------------------------------------
(* The lock rows follow the tasks.                                           *)

LEMMA FilesOfTask ==
    ASSUME GreyTypeOK, NEW t \in Uuids
    PROVE  taskConfig[t].files \in SUBSET Files
  BY DEF GreyTypeOK, ConfigOfTask

\* A step that touches neither a task nor its lock rows.
LEMMA Untouched ==
    ASSUME GreyTypeOK, NEW u \in Uuids, Follows(u),
           status'[u] = status[u], taskConfig'[u] = taskConfig[u],
           \A f \in Files : \/ mapping'[f] = mapping[f]
                            \/ mapping[f].uuid # u /\ mapping'[f].uuid # u
    PROVE  Follows(u)'
<1>1. Locks(u)' = Locks(u)
  BY DEF Locks
<1>2. Leaked(u)' = Leaked(u) /\ (Active(u))' = Active(u)
  BY <1>1 DEF Leaked, Active
<1>3. ASSUME Leaked(u) = {}, Active(u), NEW f \in taskConfig[u].files
      PROVE  mapping'[f] = [uuid |-> u, lv |-> status[u].lv]
  <2>1. mapping[f] = [uuid |-> u, lv |-> status[u].lv]
    BY <1>3 DEF Follows
  <2>2. f \in Files
    BY FilesOfTask
  <2> QED
    BY <2>1, <2>2
<1> QED
  BY <1>1, <1>2, <1>3 DEF Follows

\* createAndInitTasks: all rows it inserts belong to the new task.
LEMMA BatchCreateFollows ==
    ASSUME GreyInv, NEW t \in Uuids, NEW w \in Workers, BatchCreate(t, w), NEW u \in Uuids
    PROVE  Follows(u)'
<1>1. Locks(t) = {} /\ Follows(u) /\ GreyTypeOK /\ status[t].st = "DRAFT"
  BY DEF GreyInv, Follows, BatchCreate
<1>2. status \in [Uuids -> StatusRow] /\ taskConfig \in [Uuids -> ConfigOfTask]
  BY <1>1 DEF GreyTypeOK
<1>3. CASE CreateAborts(t)
  <2>1. mapping' = mapping /\ status' = [status EXCEPT ![t] = NoTask]
    BY <1>3 DEF BatchCreate
  <2>2. taskConfig' = [taskConfig EXCEPT ![t] = NoConfigOfTask]
    BY <1>3 DEF BatchCreate
  <2>3. CASE u # t
    BY <1>1, <1>2, <2>1, <2>2, <2>3, Untouched
  <2>4. CASE u = t
    <3>1. Locks(t)' = {}
      BY <1>1, <2>1 DEF Locks
    <3>2. status'[t].st = "NONE"
      BY <1>2, <2>1 DEF NoTask, Info
    <3>3. ~(Active(t))'
      BY <3>2 DEF Active, ActiveStates
    <3> QED
      BY <2>4, <3>1, <3>3 DEF Follows
  <2> QED
    BY <2>3, <2>4
<1>4. CASE ~CreateAborts(t)
  <2>1. mapping' = [f \in Files |-> IF f \in Inserted(t) THEN [uuid |-> t, lv |-> 0] ELSE mapping[f]]
    BY <1>4 DEF BatchCreate
  <2>2. /\ status' = [status EXCEPT ![t] = Info("PUBLISHING", status[t].fin, 0)]
        /\ taskConfig' = [taskConfig EXCEPT ![t] =
              [files |-> Accepted(t), ver |-> taskConfig[t].ver,
               auto |-> taskConfig[t].auto, first |-> taskConfig[t].first]]
    BY <1>4 DEF BatchCreate
  <2>3. CASE u # t
    <3>1. \A f \in Inserted(t) : mapping[f].uuid = Free
      BY DEF Inserted, LockFree
    <3>2. u # Free
      OBVIOUS
    <3>3. \A f \in Files : \/ mapping'[f] = mapping[f]
                           \/ mapping[f].uuid # u /\ mapping'[f].uuid # u
      BY <2>1, <2>3, <3>1, <3>2
    <3>4. status'[u] = status[u] /\ taskConfig'[u] = taskConfig[u]
      BY <1>2, <2>2, <2>3
    <3> QED
      BY <1>1, <3>3, <3>4, Untouched
  <2>4. CASE u = t
    <3>1. status'[t].st = "PUBLISHING" /\ status'[t].lv = 0
      BY <1>2, <2>2 DEF Info
    <3>2. taskConfig'[t].files = Accepted(t)
      BY <1>2, <2>2
    <3>3. \A f \in Accepted(t) : f \in Files /\ f \in Inserted(t)
      BY <1>1, FilesOfTask DEF Accepted, Inserted
    <3>4. \A f \in Accepted(t) : mapping'[f] = [uuid |-> t, lv |-> 0]
      BY <2>1, <3>3
    <3>5. (Active(t))'
      BY <3>1 DEF Active, ActiveStates
    <3> QED
      BY <2>4, <3>1, <3>2, <3>4, <3>5 DEF Follows
  <2> QED
    BY <2>3, <2>4
<1> QED
  BY <1>3, <1>4

\* updateTask: if the compare-and-swap hits one row of a task without leaked
\* rows, the thread has seen the task as it is and hits them all.
LEMMA UpdateTaskFollows ==
    ASSUME GreyInv, NEW w \in Workers, NEW t \in Uuids, NEW n \in InfoRow, UpdateTask(w, t, n),
           NEW u \in Uuids
    PROVE  Follows(u)'
<1>1. Follows(u) /\ Follows(t) /\ GreyTypeOK /\ taskConfig' = taskConfig
  BY DEF GreyInv, UpdateTask
<1>2. status \in [Uuids -> StatusRow] /\ n.st \in ActiveStates
  BY <1>1 DEF GreyTypeOK, InfoRow
<1>3. CASE ~MaySave(t, n)
  <2>1. UNCHANGED <<mapping, status>>
    BY <1>3 DEF UpdateTask
  <2> QED
    BY <1>1, <2>1, Untouched
<1>4. CASE MaySave(t, n)
  <2>1. /\ mapping' = [f \in Files |->
              IF f \in Held(t, n) THEN [uuid |-> t, lv |-> n.lv] ELSE mapping[f]]
        /\ status' = [status EXCEPT ![t] = n]
    BY <1>4 DEF UpdateTask
  <2>2. \A f \in Held(t, n) : f \in Files /\ mapping[f].uuid = t /\ mapping[f].lv = n.lv - 1
    BY DEF Held, Locks
  <2>3. CASE u # t
    <3>1. \A f \in Files : \/ mapping'[f] = mapping[f]
                           \/ mapping[f].uuid # u /\ mapping'[f].uuid # u
      BY <2>1, <2>2, <2>3
    <3>2. status'[u] = status[u]
      BY <1>2, <2>1, <2>3
    <3> QED
      BY <1>1, <3>1, <3>2, Untouched
  <2>4. CASE u = t
    <3>1. status'[t] = n
      BY <1>2, <2>1
    <3>2. (Active(t))' /\ status'[t].st \notin {"NONE", "DRAFT"}
      BY <1>2, <3>1 DEF Active, ActiveStates
    <3>3. Leaked(t)' = Leaked(t)
      <4>1. \A f \in Files : mapping'[f].uuid = t <=> mapping[f].uuid = t
        BY <2>1, <2>2
      <4> QED
        BY <1>1, <4>1 DEF Leaked, Locks
    <3>4. ASSUME Leaked(t) = {}, NEW f \in taskConfig[t].files
          PROVE  mapping'[f] = [uuid |-> t, lv |-> n.lv]
      <4>1. PICK g \in Held(t, n) : TRUE
        BY <1>4 DEF MaySave
      <4>2. g \in Locks(t) /\ g \in taskConfig[t].files /\ mapping[g].lv = n.lv - 1
        BY <2>2, <3>4, <4>1 DEF Locks, Leaked
      <4>3. Active(t) /\ \A h \in taskConfig[t].files : mapping[h] = [uuid |-> t, lv |-> status[t].lv]
        BY <1>1, <3>4, <4>2 DEF Follows
      <4>4. mapping[g].lv = mapping[f].lv /\ mapping[f].uuid = t
        BY <3>4, <4>2, <4>3
      <4>5. f \in Files
        BY <1>1, <3>4, FilesOfTask
      <4>6. f \in Held(t, n)
        BY <4>2, <4>4, <4>5 DEF Held, Locks
      <4> QED
        BY <2>1, <4>5, <4>6
    <3> QED
      BY <1>1, <2>4, <3>1, <3>2, <3>3, <3>4 DEF Follows
  <2> QED
    BY <2>3, <2>4
<1> QED
  BY <1>3, <1>4

\* finishTask: the task gives up the rows of all its files.
LEMMA FinishTaskFollows ==
    ASSUME GreyInv, NEW w \in Workers, NEW t \in Uuids, NEW n, n.st = "FINISH",
           FinishTask(w, t, n), NEW u \in Uuids
    PROVE  Follows(u)'
<1>1. Follows(u) /\ GreyTypeOK /\ taskConfig' = taskConfig
  BY DEF GreyInv, FinishTask
<1>2. CASE UNCHANGED <<mapping, status>>
  BY <1>1, <1>2, Untouched
<1>3. CASE ~UNCHANGED <<mapping, status>>
  <2>1. /\ taskConfig[t].files \subseteq Held(t, n)
        /\ mapping' = [f \in Files |-> IF f \in taskConfig[t].files THEN NoLock ELSE mapping[f]]
        /\ status' = [status EXCEPT ![t] = n]
    BY <1>3 DEF FinishTask, Unlock
  <2>2. status \in [Uuids -> StatusRow] /\ taskConfig[t].files \in SUBSET Files
    BY <1>1, FilesOfTask DEF GreyTypeOK
  <2>3. \A f \in taskConfig[t].files : mapping[f].uuid = t /\ mapping'[f].uuid = Free
    BY <2>1, <2>2 DEF Held, Locks, NoLock
  <2>4. u # Free
    OBVIOUS
  <2>5. CASE u # t
    <3>1. \A f \in Files : \/ mapping'[f] = mapping[f]
                           \/ mapping[f].uuid # u /\ mapping'[f].uuid # u
      BY <2>1, <2>3, <2>4, <2>5
    <3>2. status'[u] = status[u]
      BY <2>1, <2>2, <2>5
    <3> QED
      BY <1>1, <3>1, <3>2, Untouched
  <2>6. CASE u = t
    <3>1. status'[t].st = "FINISH"
      BY <2>1, <2>2
    <3>2. ~(Active(t))' /\ status'[t].st \notin {"NONE", "DRAFT"}
      BY <3>1 DEF Active, ActiveStates
    <3>3. Leaked(t)' = Locks(t)'
      <4>1. \A f \in taskConfig[t].files : f \notin Locks(t)'
        BY <2>3, <2>4, <2>6 DEF Locks
      <4> QED
        BY <1>1, <4>1 DEF Leaked
    <3> QED
      BY <2>6, <3>2, <3>3 DEF Follows
  <2> QED
    BY <2>5, <2>6
<1> QED
  BY <1>2, <1>3

\* cancelTask: an unfinished task gives up the rows of its files; of a task that
\* is over only leaked rows are touched.
LEMMA CancelTaskFollows ==
    ASSUME GreyInv, NEW w \in Workers, NEW t \in Uuids, NEW n, CancelTask(w, t, n), NEW u \in Uuids
    PROVE  Follows(u)'
<1>1. Follows(u) /\ Follows(t) /\ GreyTypeOK /\ taskConfig' = taskConfig
  BY DEF GreyInv, CancelTask
<1>2. mapping' = [f \in Files |->
          IF f \notin Locks(t) THEN mapping[f]
          ELSE IF ~Terminal(t) /\ f \in taskConfig[t].files THEN NoLock
          ELSE [uuid |-> t, lv |-> mapping[f].lv + 1]]
  BY DEF CancelTask, Unlock
<1>3. status' = IF Locks(t) # {} /\ ~Terminal(t)
                THEN [status EXCEPT ![t] = Info("CANCEL", n.fin, n.lv)] ELSE status
  BY DEF CancelTask
<1>4. /\ status \in [Uuids -> StatusRow] /\ u # Free /\ t # Free
      /\ mapping \in [Files -> MappingRow]
  BY <1>1 DEF GreyTypeOK, ApplyTypeOK
<1>5. CASE u # t
  <2>1. \A f \in Files : \/ mapping'[f] = mapping[f]
                         \/ mapping[f].uuid # u /\ mapping'[f].uuid # u
    BY <1>2, <1>4, <1>5 DEF Locks, NoLock
  <2>2. status'[u] = status[u]
    BY <1>3, <1>4, <1>5
  <2> QED
    BY <1>1, <2>1, <2>2, Untouched
<1>6. CASE u = t /\ Locks(t) = {}
  <2>1. \A f \in Files : mapping'[f] = mapping[f]
    BY <1>2, <1>6
  <2> QED
    BY <1>1, <1>3, <1>6, <2>1, Untouched
<1>7. CASE u = t /\ Locks(t) # {} /\ ~Terminal(t)
  <2>1. status'[t].st = "CANCEL"
    BY <1>3, <1>4, <1>7 DEF Info
  <2>2. ~(Active(t))' /\ status'[t].st \notin {"NONE", "DRAFT"}
    BY <2>1 DEF Active, ActiveStates
  <2>3. \A f \in Files : f \in taskConfig[t].files => mapping'[f].uuid # t
    BY <1>2, <1>4, <1>7 DEF Locks, NoLock
  <2>4. Leaked(t)' = Locks(t)'
    <3>1. \A f \in taskConfig[t].files : f \notin Locks(t)'
      BY <2>3 DEF Locks
    <3> QED
      BY <1>1, <3>1 DEF Leaked
  <2> QED
    BY <1>7, <2>2, <2>4 DEF Follows
<1>8. CASE u = t /\ Locks(t) # {} /\ Terminal(t)
  <2>1. status' = status
    BY <1>3, <1>8
  <2>2. ~Active(t) /\ status[t].st \notin {"NONE", "DRAFT"}
    BY <1>8 DEF Terminal, Active, ActiveStates
  <2>3. Leaked(t) # {}
    BY <1>1, <1>8, <2>2 DEF Follows
  <2>4. \A f \in Files : mapping'[f].uuid = t <=> mapping[f].uuid = t
    BY <1>2, <1>8 DEF Locks
  <2>5. Leaked(t)' # {}
    BY <1>1, <2>3, <2>4 DEF Leaked, Locks
  <2> QED
    BY <1>8, <2>1, <2>2, <2>5 DEF Follows
<1> QED
  BY <1>5, <1>6, <1>7, <1>8
-----------------------------------------------------------------------------
(* The workflow under grey releases.                                         *)

\* Taking and giving up lock rows does not disturb the workflow.
LEMMA LocksKeepApplyInv ==
    ASSUME ApplyInv, UNCHANGED <<cand, snap, conf>>, mapping' \in [Files -> MappingRow]
    PROVE  ApplyInv'
  BY DEF ApplyInv, ApplyTypeOK, SnapshotsAreHistory, HasSnapshot, ConfigIsLatestPublish,
     EditsAreBasedOnPublished, UnpublishedIsNotInUse, DeletedIsNotInUse

\* finishTask publishes the files of the task and nothing else, or does nothing.
LEMMA FinishIsPublish ==
    ASSUME GreyInv, NEW w \in Workers, NEW t \in Uuids, NEW n, FinishTask(w, t, n)
    PROVE  PublishesOnly(taskConfig[t].files) \/ UNCHANGED <<mapping, status, cand, snap, conf>>
<1> DEFINE F == taskConfig[t].files
<1>1. /\ ApplyTypeOK /\ GreyTypeOK /\ F \in SUBSET Files
      /\ cand \in [Files -> CandidateRow] /\ conf \in [Files -> ConfigRow]
      /\ snap \in [Files -> [Versions -> SnapshotRow]]
      /\ mapping \in [Files -> MappingRow]
  BY FilesOfTask DEF GreyInv, GreyTypeOK, ApplyTypeOK
<1>2. SUFFICES ASSUME ~UNCHANGED <<mapping, status, cand, snap, conf>>
               PROVE  PublishesOnly(F)
  OBVIOUS
<1>3. \A f \in F : Publishable(t, f)
  BY <1>2 DEF FinishTask, FilesToPublish
<1>4. /\ mapping' = [f \in Files |-> IF f \in F THEN NoLock ELSE mapping[f]]
      /\ cand' = [f \in Files |-> IF f \notin F THEN cand[f] ELSE
            [edit |-> taskConfig[t].ver[f] + 1, based |-> cand[f].based, st |-> "PUBLISH"]]
      /\ snap' = [f \in Files |-> IF f \notin F THEN snap[f] ELSE
            [snap[f] EXCEPT ![taskConfig[t].ver[f] + 1] = [based |-> cand[f].based, st |-> "PUBLISH"]]]
      /\ conf' = [f \in Files |-> IF f \notin F THEN conf[f] ELSE
            [ver |-> taskConfig[t].ver[f] + 1, inuse |-> TRUE]]
  BY <1>2, Zenon DEF FinishTask, FilesToPublish, Unlock, NewVersion
<1> HIDE DEF F
<1>5. ASSUME NEW f \in F
      PROVE  /\ f \in Files
             /\ taskConfig[t].ver[f] = cand[f].edit
             /\ cand[f].edit \in Nat /\ cand[f].edit + 1 \in Versions
             /\ cand[f].based \in 0..MaxVersion
  <2>1. cand[f] \in CandidateRow /\ f \in Files
    BY <1>1
  <2>2. Valid(t, f) /\ cand[f].edit < MaxVersion
    BY <1>3 DEF Publishable
  <2> QED
    BY <2>1, <2>2 DEF Valid, CandidateRow, Versions
<1>6. ASSUME NEW f \in F
      PROVE  /\ cand'[f] = [edit |-> cand[f].edit + 1, based |-> cand[f].based, st |-> "PUBLISH"]
             /\ conf'[f] = [ver |-> cand[f].edit + 1, inuse |-> TRUE]
             /\ mapping'[f] = NoLock
  BY <1>4, <1>5
<1>7. ASSUME NEW f \in F
       PROVE  snap'[f] = [snap[f] EXCEPT ![cand[f].edit + 1] = [based |-> cand[f].based, st |-> "PUBLISH"]]
  BY <1>4, <1>5
<1>8. ASSUME NEW f \in Files \ F
      PROVE  cand'[f] = cand[f] /\ snap'[f] = snap[f] /\ conf'[f] = conf[f] /\ mapping'[f] = mapping[f]
  BY <1>4
<1>9. ASSUME NEW f \in F, NEW v \in Versions
      PROVE  snap'[f][v] = IF v = cand[f].edit + 1
                           THEN [based |-> cand[f].based, st |-> "PUBLISH"] ELSE snap[f][v]
  <2>1. snap[f] \in [Versions -> SnapshotRow]
    BY <1>1, <1>5
  <2> QED
    BY <1>7, <2>1
<1>10. ASSUME NEW f \in Files
      PROVE  /\ cand'[f] \in CandidateRow /\ conf'[f] \in ConfigRow
             /\ snap'[f] \in [Versions -> SnapshotRow] /\ mapping'[f] \in MappingRow
  <2>1. /\ cand[f] \in CandidateRow /\ conf[f] \in ConfigRow
        /\ snap[f] \in [Versions -> SnapshotRow] /\ mapping[f] \in MappingRow
    BY <1>1
  <2>2. CASE f \in F
    <3>1. /\ cand[f].edit + 1 \in 1..MaxVersion /\ cand[f].based \in 0..MaxVersion
          /\ cand[f].edit + 1 \in 0..MaxVersion
      BY <1>5, <2>2 DEF Versions
    <3>2. /\ cand'[f] = [edit |-> cand[f].edit + 1, based |-> cand[f].based, st |-> "PUBLISH"]
          /\ conf'[f] = [ver |-> cand[f].edit + 1, inuse |-> TRUE]
          /\ mapping'[f] = NoLock
      BY <1>6, <2>2, Zenon
    <3>3. cand'[f] \in CandidateRow
      BY <3>1, <3>2 DEF CandidateRow, StatusType
    <3>4. conf'[f] \in ConfigRow
      BY <3>1, <3>2 DEF ConfigRow
    <3>5. [based |-> cand[f].based, st |-> "PUBLISH"] \in SnapshotRow
      BY <3>1 DEF SnapshotRow, StatusType
    <3>6. snap'[f] \in [Versions -> SnapshotRow]
      BY <1>7, <2>1, <2>2, <3>5
    <3>7. mapping'[f] \in MappingRow
      BY <3>2 DEF MappingRow, NoLock
    <3> QED
      BY <3>3, <3>4, <3>6, <3>7
  <2>3. CASE f \notin F
    BY <1>8, <2>1, <2>3
  <2> QED
    BY <2>2, <2>3
<1>11. ApplyTypeOK'
  BY <1>4, <1>10 DEF ApplyTypeOK
<1>12. ASSUME NEW f \in F PROVE Publishes(f)
  <2>1. cand'[f] = [edit |-> cand[f].edit + 1, based |-> cand[f].based, st |-> "PUBLISH"]
    BY <1>6, Zenon
  <2>2. cand'[f].edit = cand[f].edit + 1 /\ cand'[f].st = "PUBLISH" /\ cand'[f].based = cand[f].based
    BY <2>1
  <2>3. conf'[f] = [ver |-> cand'[f].edit, inuse |-> TRUE]
    BY <1>6, <2>2
  <2>4. snap'[f][cand'[f].edit] = [based |-> cand'[f].based, st |-> "PUBLISH"]
    BY <1>5, <1>9, <2>2
  <2>5. ASSUME NEW v \in Versions
        PROVE  /\ ~(cand[f].edit < v /\ v < cand'[f].edit)
               /\ v <= cand[f].edit \/ cand'[f].edit < v => snap'[f][v] = snap[f][v]
    <3>1. v \in Nat /\ cand[f].edit \in Nat
      BY <1>5 DEF Versions
    <3>2. v = cand[f].edit + 1 \/ snap'[f][v] = snap[f][v]
      BY <1>9
    <3> QED
      BY <2>2, <3>1, <3>2
  <2>6. cand'[f].edit \in Versions /\ cand[f].edit < cand'[f].edit
    BY <1>5, <2>2
  <2> QED
    BY <2>2, <2>3, <2>4, <2>5, <2>6 DEF Publishes
<1> QED
  BY <1>8, <1>11, <1>12 DEF PublishesOnly
-----------------------------------------------------------------------------
(* Types, one part of the state after the other.                             *)

TaskTypeOK ==
    /\ status \in [Uuids -> StatusRow]
    /\ \A t \in Uuids : Active(t) \/ status[t].st = "DRAFT" => status[t].fin < Batches
    /\ taskConfig \in [Uuids -> ConfigOfTask]

ThreadTypeOK ==
    /\ worker \in [Workers -> WorkerState]
    /\ recover \in [Admins -> RecoverState]

OtherTypeOK ==
    /\ clock \in [Uuids -> Ages]
    /\ offered \in [Uuids -> SUBSET Nat]
    /\ prepared \in [Uuids -> SUBSET (0..Batches)]
    /\ requests \in 0..MaxRequests /\ crashes \in 0..MaxCrashes /\ dbErrors \in 0..MaxDbErrors

LEMMA TypeParts == GreyTypeOK <=> ApplyTypeOK /\ TaskTypeOK /\ ThreadTypeOK /\ OtherTypeOK
  BY DEF GreyTypeOK, TaskTypeOK, ThreadTypeOK, OtherTypeOK

LEMMA TypePartsNext ==
    ApplyInv' /\ TaskTypeOK' /\ ThreadTypeOK' /\ OtherTypeOK' => GreyTypeOK'
  BY DEF ApplyInv, GreyTypeOK, TaskTypeOK, ThreadTypeOK, OtherTypeOK

\* A task saved with a StatusInfo, none of which lies beyond the last batch.
LEMMA TaskSaved ==
    ASSUME TaskTypeOK, NEW t \in Uuids, NEW n \in StatusRow,
           n.st \in ActiveStates \cup {"DRAFT"} => n.fin < Batches,
           status' = [status EXCEPT ![t] = n], taskConfig' \in [Uuids -> ConfigOfTask]
    PROVE  TaskTypeOK'
<1>1. \A u \in Uuids : status'[u] = IF u = t THEN n ELSE status[u]
  BY DEF TaskTypeOK
<1>2. ASSUME NEW u \in Uuids, (Active(u))' \/ status'[u].st = "DRAFT"
      PROVE  status'[u].fin < Batches
  <2>1. CASE u = t
    BY <1>1, <1>2, <2>1 DEF Active
  <2>2. CASE u # t
    BY <1>1, <1>2, <2>2 DEF Active, TaskTypeOK
  <2> QED
    BY <2>1, <2>2
<1>3. status' \in [Uuids -> StatusRow]
  BY DEF TaskTypeOK
<1> QED
  BY <1>2, <1>3 DEF TaskTypeOK

\* A StatusInfo of a task under way is a row of the table, below the last batch.
LEMMA InfoIsRow ==
    ASSUME NEW n \in InfoRow
    PROVE  n \in StatusRow /\ n.fin < Batches /\ n.fin + 1 \in 0..Batches /\ n.lv \in Nat
<1>1. Batches \in Nat \ {0}
  BY DEF GreyAssumption
<1> QED
  BY <1>1 DEF InfoRow, StatusRow, ActiveStates, GreyReleaseState

\* Parts of the state a step leaves alone.
LEMMA TasksAlone ==
    TaskTypeOK /\ UNCHANGED <<status, taskConfig>> => TaskTypeOK'
  BY DEF TaskTypeOK, Active

LEMMA OneThread ==
    ASSUME ThreadTypeOK, NEW w \in Workers, NEW x \in WorkerState,
           worker' = [worker EXCEPT ![w] = x], UNCHANGED recover
    PROVE  ThreadTypeOK'
  BY DEF ThreadTypeOK

LEMMA OneRecover ==
    ASSUME ThreadTypeOK, NEW a \in Admins, NEW x \in RecoverState,
           recover' = [recover EXCEPT ![a] = x], worker' \in [Workers -> WorkerState]
    PROVE  ThreadTypeOK'
  BY DEF ThreadTypeOK
-----------------------------------------------------------------------------
(* Every action keeps the types.                                             *)

\* The request is checked: nothing but the new task is written.
LEMMA BatchCreateCheckType ==
    ASSUME GreyInv, NEW t \in Uuids, NEW F \in SUBSET Files, NEW option \in Options,
           BatchCreateCheck(t, F, option)
    PROVE  ApplyInv' /\ GreyTypeOK'
<1>1. ApplyInv /\ TaskTypeOK /\ ThreadTypeOK /\ OtherTypeOK
  BY TypeParts DEF GreyInv
<1>2. Batches \in Nat \ {0} /\ option \in [auto : BOOLEAN, first : {0, 1}]
  BY DEF GreyAssumption
<1>3. cand \in [Files -> CandidateRow]
  BY <1>1 DEF ApplyInv, ApplyTypeOK
<1>4. [f \in Files |-> IF f \in F THEN cand[f].edit ELSE 0] \in [Files -> 0..MaxVersion]
  BY <1>3 DEF CandidateRow
<1>5. Info("DRAFT", option.first - 1, 0) \in StatusRow /\ option.first - 1 < Batches
  BY <1>2 DEF Info, StatusRow
<1>6. [files |-> F, ver |-> [f \in Files |-> IF f \in F THEN cand[f].edit ELSE 0],
       auto |-> option.auto, first |-> option.first] \in ConfigOfTask
  BY <1>2, <1>4 DEF ConfigOfTask
<1>7. taskConfig' \in [Uuids -> ConfigOfTask]
  BY <1>1, <1>6 DEF BatchCreateCheck, TaskTypeOK
<1>8. TaskTypeOK'
  BY <1>1, <1>5, <1>7, TaskSaved DEF BatchCreateCheck, Info
<1>9. UNCHANGED <<applyVars, worker, recover, clock, offered, prepared, requests, crashes, dbErrors>>
  BY DEF BatchCreateCheck
<1>10. ApplyInv'
  BY <1>1, <1>9, ApplyStepInv
<1>11. ThreadTypeOK' /\ OtherTypeOK'
  BY <1>1, <1>9 DEF ThreadTypeOK, OtherTypeOK
<1> QED
  BY <1>8, <1>10, <1>11, TypePartsNext

LEMMA BatchCreateCheckFollows ==
    ASSUME GreyInv, NEW t \in Uuids, NEW F \in SUBSET Files, NEW option \in Options,
           BatchCreateCheck(t, F, option), NEW u \in Uuids
    PROVE  Follows(u)'
<1>1. Follows(u) /\ GreyTypeOK /\ Locks(t) = {} /\ mapping' = mapping
  BY DEF GreyInv, Follows, BatchCreateCheck, applyVars
<1>2. status \in [Uuids -> StatusRow] /\ taskConfig \in [Uuids -> ConfigOfTask]
  BY <1>1 DEF GreyTypeOK
<1>3. CASE u # t
  <2>1. status'[u] = status[u] /\ taskConfig'[u] = taskConfig[u]
    BY <1>2, <1>3 DEF BatchCreateCheck
  <2> QED
    BY <1>1, <2>1, Untouched
<1>4. CASE u = t
  <2>1. status'[t].st = "DRAFT"
    BY <1>2 DEF BatchCreateCheck, Info
  <2>2. ~(Active(t))'
    BY <2>1 DEF Active, ActiveStates
  <2>3. Locks(t)' = {}
    BY <1>1 DEF Locks
  <2> QED
    BY <1>4, <2>2, <2>3 DEF Follows
<1> QED
  BY <1>3, <1>4

LEMMA BatchCreateType ==
    ASSUME GreyInv, NEW t \in Uuids, NEW w \in Workers, BatchCreate(t, w)
    PROVE  ApplyInv' /\ GreyTypeOK'
<1>1. ApplyInv /\ TaskTypeOK /\ ThreadTypeOK /\ OtherTypeOK /\ GreyTypeOK
  BY TypeParts DEF GreyInv
<1>2. /\ status \in [Uuids -> StatusRow] /\ taskConfig \in [Uuids -> ConfigOfTask]
      /\ mapping \in [Files -> MappingRow]
  BY <1>1 DEF TaskTypeOK, ApplyInv, ApplyTypeOK
<1>3. status[t].fin \in -1..(Batches - 1)
  <2>1. status[t] \in StatusRow /\ status[t].fin < Batches
    BY <1>1, <1>2 DEF BatchCreate, TaskTypeOK
  <2> QED
    BY <2>1 DEF StatusRow, GreyAssumption
<1>4. UNCHANGED <<cand, snap, conf, recover, offered, prepared, requests, crashes, dbErrors>>
  BY DEF BatchCreate
<1>5. CASE CreateAborts(t)
  <2>1. UNCHANGED <<mapping, worker, clock>>
    BY <1>5 DEF BatchCreate
  <2>2. /\ status' = [status EXCEPT ![t] = NoTask]
        /\ taskConfig' = [taskConfig EXCEPT ![t] = NoConfigOfTask]
    BY <1>5 DEF BatchCreate
  <2>3. NoTask \in StatusRow /\ NoTask.st = "NONE"
    BY DEF NoTask, Info, StatusRow, GreyAssumption
  <2>4. NoConfigOfTask \in ConfigOfTask
    BY DEF NoConfigOfTask, ConfigOfTask
  <2>5. taskConfig' \in [Uuids -> ConfigOfTask]
    BY <1>2, <2>2, <2>4
  <2>6. TaskTypeOK'
    BY <1>1, <2>2, <2>3, <2>5, TaskSaved DEF ActiveStates
  <2>7. ApplyInv'
    BY <1>1, <1>2, <1>4, <2>1, LocksKeepApplyInv
  <2>8. ThreadTypeOK' /\ OtherTypeOK'
    BY <1>1, <1>4, <2>1 DEF ThreadTypeOK, OtherTypeOK
  <2> QED
    BY <2>6, <2>7, <2>8, TypePartsNext
<1>6. CASE ~CreateAborts(t)
  <2> DEFINE n == Info("PUBLISHING", status[t].fin, 0)
             c == [files |-> Accepted(t), ver |-> taskConfig[t].ver,
                   auto |-> taskConfig[t].auto, first |-> taskConfig[t].first]
  <2>1. /\ mapping' = [f \in Files |->
              IF f \in Inserted(t) THEN [uuid |-> t, lv |-> 0] ELSE mapping[f]]
        /\ worker' = [worker EXCEPT ![w] = Busy("work", t, n)]
        /\ clock' = [clock EXCEPT ![t] = "fresh"]
    BY <1>6 DEF BatchCreate
  <2>2. status' = [status EXCEPT ![t] = n] /\ taskConfig' = [taskConfig EXCEPT ![t] = c]
    BY <1>6 DEF BatchCreate
  <2>3. n \in InfoRow
    BY <1>3 DEF Info, InfoRow, ActiveStates
  <2>4. c \in ConfigOfTask
    <3>1. taskConfig[t] \in ConfigOfTask
      BY <1>2
    <3>2. Accepted(t) \in SUBSET Files
      BY <3>1 DEF Accepted, Inserted, ConfigOfTask
    <3> QED
      BY <3>1, <3>2 DEF ConfigOfTask
  <2>5. taskConfig' \in [Uuids -> ConfigOfTask]
    BY <1>2, <2>2, <2>4
  <2> HIDE DEF n, c
  <2>6. TaskTypeOK'
    BY <1>1, <2>2, <2>3, <2>5, InfoIsRow, TaskSaved
  <2>7. mapping' \in [Files -> MappingRow]
    <3>1. [uuid |-> t, lv |-> 0] \in MappingRow
      BY DEF MappingRow
    <3> QED
      BY <1>2, <2>1, <3>1
  <2>8. ApplyInv'
    BY <1>1, <1>4, <2>7, LocksKeepApplyInv
  <2>9. ThreadTypeOK'
    BY <1>1, <1>4, <2>1, <2>3, BusyType, OneThread
  <2>10. OtherTypeOK'
    BY <1>1, <1>4, <2>1 DEF OtherTypeOK, Ages
  <2> QED
    BY <2>6, <2>8, <2>9, <2>10, TypePartsNext
<1> QED
  BY <1>5, <1>6

\* What updateTask leaves the thread with.
LEMMA AfterSaveType ==
    ASSUME NEW t \in Uuids, NEW n \in InfoRow
    PROVE  AfterSave(t, n) \in WorkerState
<1>1. AfterSave(t, n) \in {Busy("work", t, n), Busy("next", t, n), Idle}
  BY DEF AfterSave
<1>2. Busy("work", t, n) \in WorkerState /\ Busy("next", t, n) \in WorkerState
  BY BusyType
<1> QED
  BY <1>1, <1>2, IdleType

LEMMA UpdateTaskType ==
    ASSUME GreyInv, NEW w \in Workers, NEW t \in Uuids, NEW n \in InfoRow, UpdateTask(w, t, n)
    PROVE  ApplyInv' /\ GreyTypeOK'
<1>1. ApplyInv /\ TaskTypeOK /\ ThreadTypeOK /\ OtherTypeOK
  BY TypeParts DEF GreyInv
<1>2. /\ taskConfig \in [Uuids -> ConfigOfTask] /\ mapping \in [Files -> MappingRow]
      /\ n.lv \in Nat /\ n \in StatusRow /\ n.fin < Batches
  BY <1>1, InfoIsRow DEF TaskTypeOK, ApplyInv, ApplyTypeOK
<1>3. UNCHANGED <<cand, snap, conf, taskConfig, recover, prepared, requests, crashes, dbErrors>>
  BY DEF UpdateTask
<1>4. CASE MaySave(t, n)
  <2>1. /\ mapping' = [f \in Files |->
              IF f \in Held(t, n) THEN [uuid |-> t, lv |-> n.lv] ELSE mapping[f]]
        /\ status' = [status EXCEPT ![t] = n]
        /\ clock' = [clock EXCEPT ![t] = "fresh"]
        /\ worker' = [worker EXCEPT ![w] = AfterSave(t, n)]
    BY <1>4 DEF UpdateTask
  <2>2. offered' = [offered EXCEPT ![t] = @ \cup {n.lv}] \/ offered' = offered
    BY <1>4 DEF UpdateTask
  <2>3. TaskTypeOK'
    BY <1>1, <1>2, <1>3, <2>1, TaskSaved
  <2>4. mapping' \in [Files -> MappingRow]
    <3>1. [uuid |-> t, lv |-> n.lv] \in MappingRow
      BY <1>2 DEF MappingRow
    <3> QED
      BY <1>2, <2>1, <3>1
  <2>5. ApplyInv'
    BY <1>1, <1>3, <2>4, LocksKeepApplyInv
  <2>6. ThreadTypeOK'
    BY <1>1, <1>3, <2>1, AfterSaveType, OneThread
  <2>7. clock' \in [Uuids -> Ages]
    BY <1>1, <2>1 DEF OtherTypeOK, Ages
  <2>8. offered' \in [Uuids -> SUBSET Nat]
    BY <1>1, <1>2, <2>2 DEF OtherTypeOK
  <2>9. OtherTypeOK'
    BY <1>1, <1>3, <2>7, <2>8 DEF OtherTypeOK
  <2> QED
    BY <2>3, <2>5, <2>6, <2>9, TypePartsNext
<1>5. CASE ~MaySave(t, n)
  <2>1. worker' = [worker EXCEPT ![w] = Idle] /\ UNCHANGED <<mapping, status, clock, offered>>
    BY <1>5 DEF UpdateTask
  <2>2. ApplyInv'
    BY <1>1, <1>2, <1>3, <2>1, LocksKeepApplyInv
  <2>3. ThreadTypeOK'
    BY <1>1, <1>3, <2>1, IdleType, OneThread
  <2>4. TaskTypeOK' /\ OtherTypeOK'
    BY <1>1, <1>3, <2>1, TasksAlone DEF OtherTypeOK
  <2> QED
    BY <2>2, <2>3, <2>4, TypePartsNext
<1> QED
  BY <1>4, <1>5
LEMMA FinishTaskType ==
    ASSUME GreyInv, NEW w \in Workers, NEW t \in Uuids, NEW n \in StatusRow, n.st = "FINISH",
           FinishTask(w, t, n)
    PROVE  ApplyInv' /\ GreyTypeOK'
<1>1. ApplyInv /\ TaskTypeOK /\ ThreadTypeOK /\ OtherTypeOK /\ GreyTypeOK
  BY TypeParts DEF GreyInv
<1>2. /\ worker' = [worker EXCEPT ![w] = Idle]
      /\ UNCHANGED <<taskConfig, recover, clock, offered, prepared, requests, crashes, dbErrors>>
  BY DEF FinishTask
<1>3. ApplyInv'
  <2>1. CASE PublishesOnly(taskConfig[t].files)
    BY <1>1, <2>1, FilesOfTask, PublishKeepsInv
  <2>2. CASE UNCHANGED <<mapping, cand, snap, conf>>
    BY <1>1, <2>2, ApplyStepInv DEF applyVars
  <2> QED
    BY <2>1, <2>2, FinishIsPublish
<1>4. TaskTypeOK'
  <2>1. CASE status' = [status EXCEPT ![t] = n]
    <3>1. taskConfig' \in [Uuids -> ConfigOfTask]
      BY <1>1, <1>2 DEF TaskTypeOK
    <3> QED
      BY <1>1, <2>1, <3>1, TaskSaved DEF ActiveStates
  <2>2. CASE UNCHANGED status
    BY <1>1, <1>2, <2>2, TasksAlone
  <2> QED
    BY <2>1, <2>2 DEF FinishTask
<1>5. ThreadTypeOK'
  BY <1>1, <1>2, IdleType, OneThread
<1>6. OtherTypeOK'
  BY <1>1, <1>2 DEF OtherTypeOK
<1> QED
  BY <1>3, <1>4, <1>5, <1>6, TypePartsNext

LEMMA CancelTaskType ==
    ASSUME GreyInv, NEW w \in Workers, NEW t \in Uuids, NEW n \in InfoRow, CancelTask(w, t, n)
    PROVE  ApplyInv' /\ GreyTypeOK'
<1>1. ApplyInv /\ TaskTypeOK /\ ThreadTypeOK /\ OtherTypeOK
  BY TypeParts DEF GreyInv
<1>2. /\ mapping \in [Files -> MappingRow] /\ taskConfig \in [Uuids -> ConfigOfTask]
      /\ n \in StatusRow
  BY <1>1, InfoIsRow DEF TaskTypeOK, ApplyInv, ApplyTypeOK
<1>3. /\ worker' = [worker EXCEPT ![w] = Idle]
      /\ UNCHANGED <<cand, snap, conf, taskConfig, recover, offered, prepared, requests, crashes, dbErrors>>
  BY DEF CancelTask
<1>4. mapping' \in [Files -> MappingRow]
  <2>1. mapping' = [f \in Files |->
          IF f \notin Locks(t) THEN mapping[f]
          ELSE IF ~Terminal(t) /\ f \in taskConfig[t].files THEN NoLock
          ELSE [uuid |-> t, lv |-> mapping[f].lv + 1]]
    BY DEF CancelTask, Unlock
  <2>2. NoLock \in MappingRow
    BY DEF NoLock, MappingRow
  <2>3. \A f \in Files : [uuid |-> t, lv |-> mapping[f].lv + 1] \in MappingRow
    <3>1. \A f \in Files : mapping[f].lv + 1 \in Nat
      BY <1>2 DEF MappingRow
    <3>2. \A lv \in Nat : [uuid |-> t, lv |-> lv] \in MappingRow
      BY DEF MappingRow
    <3> QED
      BY <3>1, <3>2, Zenon
  <2> QED
    BY <1>2, <2>1, <2>2, <2>3
<1>5. ApplyInv'
  BY <1>1, <1>3, <1>4, LocksKeepApplyInv
<1>6. TaskTypeOK'
  <2>1. CASE status' = [status EXCEPT ![t] = Info("CANCEL", n.fin, n.lv)]
    <3>1. /\ Info("CANCEL", n.fin, n.lv) \in StatusRow
          /\ Info("CANCEL", n.fin, n.lv).st = "CANCEL"
      BY <1>2 DEF Info, StatusRow, GreyReleaseState
    <3>2. taskConfig' \in [Uuids -> ConfigOfTask]
      BY <1>2, <1>3
    <3> QED
      BY <1>1, <2>1, <3>1, <3>2, TaskSaved DEF ActiveStates
  <2>2. CASE UNCHANGED status
    BY <1>1, <1>3, <2>2, TasksAlone
  <2> QED
    BY <2>1, <2>2 DEF CancelTask
<1>7. ThreadTypeOK'
  BY <1>1, <1>3, IdleType, OneThread
<1>8. clock' \in [Uuids -> Ages]
  BY <1>1 DEF CancelTask, OtherTypeOK, Ages
<1>9. OtherTypeOK'
  BY <1>1, <1>3, <1>8 DEF OtherTypeOK
<1> QED
  BY <1>5, <1>6, <1>7, <1>9, TypePartsNext

\* A step of threads and clocks that leaves the tables alone.
LEMMA TablesAlone ==
    ASSUME GreyInv, UNCHANGED <<applyVars, status, taskConfig>>, ThreadTypeOK', OtherTypeOK'
    PROVE  GreyInv'
<1>1. ApplyInv /\ TaskTypeOK /\ GreyTypeOK
  BY TypeParts DEF GreyInv
<1>2. ApplyInv' /\ TaskTypeOK'
  BY <1>1, ApplyStepInv, TasksAlone
<1>3. ASSUME NEW u \in Uuids PROVE Follows(u)'
  <2>1. \A f \in Files : mapping'[f] = mapping[f]
    BY DEF applyVars
  <2>2. Follows(u) /\ status'[u] = status[u] /\ taskConfig'[u] = taskConfig[u]
    BY DEF GreyInv
  <2> QED
    BY <1>1, <2>1, <2>2, Untouched
<1> QED
  BY <1>2, <1>3, TypePartsNext DEF GreyInv

\* preparePush counts one batch more than are finished.
LEMMA PreparePushType ==
    ASSUME OtherTypeOK, NEW t \in Uuids, NEW info \in InfoRow, PreparePush(t, info)
    PROVE  prepared' \in [Uuids -> SUBSET (0..Batches)]
<1>1. info.fin + 1 \in 0..Batches
  BY InfoIsRow
<1> QED
  BY <1>1 DEF PreparePush, OtherTypeOK

LEMMA WorkerStepInv ==
    ASSUME GreyInv, NEW w \in Workers, WorkerStep(w)
    PROVE  GreyInv'
<1> DEFINE t == worker[w].task
           info == worker[w].info
<1>1. GreyTypeOK /\ ThreadTypeOK /\ OtherTypeOK
  BY TypeParts DEF GreyInv
<1>2. worker[w].pc # "idle"
  BY DEF WorkerStep, AcceptNext, AcceptPause, AcceptCancel, Work
<1>3. t \in Uuids /\ info \in InfoRow
  BY <1>1, <1>2, WorkerHolds
<1>4. ASSUME NEW n \in InfoRow, UpdateTask(w, t, n) PROVE GreyInv'
  <2>1. ApplyInv' /\ GreyTypeOK'
    BY <1>3, <1>4, UpdateTaskType
  <2>2. \A u \in Uuids : Follows(u)'
    BY <1>3, <1>4, UpdateTaskFollows
  <2> QED
    BY <2>1, <2>2 DEF GreyInv
<1>5. CASE AcceptNext(w)
  <2>1. PICK n \in NextStates(t, info) :
            IF n.st = "FINISH" THEN FinishTask(w, t, n) ELSE UpdateTask(w, t, n)
    BY <1>5 DEF AcceptNext
  <2>2. CASE n.st = "FINISH"
    <3>1. n \in StatusRow /\ FinishTask(w, t, n)
      BY <1>3, <2>1, <2>2, NextInfo
    <3>2. ApplyInv' /\ GreyTypeOK'
      BY <1>3, <2>2, <3>1, FinishTaskType
    <3>3. \A u \in Uuids : Follows(u)'
      BY <1>3, <2>2, <3>1, FinishTaskFollows
    <3> QED
      BY <3>2, <3>3 DEF GreyInv
  <2>3. CASE n.st # "FINISH"
    <3>1. n \in InfoRow /\ UpdateTask(w, t, n)
      BY <1>3, <2>1, <2>3, NextInfo
    <3> QED
      BY <1>4, <3>1
  <2> QED
    BY <2>2, <2>3
<1>6. CASE AcceptPause(w)
  <2>1. CASE info.st = "WAIT_PUBLISH"
    <3>1. /\ worker' = [worker EXCEPT ![w] = Idle]
          /\ UNCHANGED <<applyVars, status, taskConfig, recover, clock, offered, prepared, requests, crashes, dbErrors>>
      BY <1>6, <2>1 DEF AcceptPause
    <3>2. ThreadTypeOK'
      BY <1>1, <3>1, IdleType, OneThread
    <3>3. OtherTypeOK'
      BY <1>1, <3>1 DEF OtherTypeOK
    <3> QED
      BY <3>1, <3>2, <3>3, TablesAlone
  <2>2. CASE info.st # "WAIT_PUBLISH"
    <3>1. UpdateTask(w, t, Becomes(info, "WAIT_PUBLISH"))
      BY <1>6, <2>2 DEF AcceptPause
    <3>2. Becomes(info, "WAIT_PUBLISH") \in InfoRow
      BY <1>3 DEF Becomes, Info, InfoRow, ActiveStates
    <3> QED
      BY <1>4, <3>1, <3>2
  <2> QED
    BY <2>1, <2>2
<1>7. CASE AcceptCancel(w)
  <2>1. CancelTask(w, t, info)
    BY <1>7 DEF AcceptCancel
  <2>2. ApplyInv' /\ GreyTypeOK'
    BY <1>3, <2>1, CancelTaskType
  <2>3. \A u \in Uuids : Follows(u)'
    BY <1>3, <2>1, CancelTaskFollows
  <2> QED
    BY <2>2, <2>3 DEF GreyInv
<1>8. CASE Work(w)
  <2>1. /\ worker' = [worker EXCEPT ![w] = Busy("next", t, info)]
        /\ PreparePush(t, info)
        /\ UNCHANGED <<applyVars, status, taskConfig, recover, clock, offered, requests, crashes, dbErrors>>
    BY <1>8 DEF Work
  <2>2. prepared' \in [Uuids -> SUBSET (0..Batches)]
    BY <1>1, <1>3, <2>1, PreparePushType
  <2>3. Busy("next", t, info) \in WorkerState
    BY <1>3, BusyType
  <2>4. ThreadTypeOK'
    BY <1>1, <2>1, <2>3, OneThread
  <2>5. OtherTypeOK'
    BY <1>1, <2>1, <2>2 DEF OtherTypeOK
  <2> QED
    BY <2>1, <2>4, <2>5, TablesAlone
<1> QED
  BY <1>5, <1>6, <1>7, <1>8 DEF WorkerStep

\* Requests, crashes, time and the recover task only move threads and clocks.
LEMMA OtherStepInv ==
    ASSUME GreyInv,
           \/ \E t \in Uuids, w \in Workers :
                 PauseTask(w, t) \/ ContinueTask(w, t) \/ CancelRequest(w, t)
           \/ \E w \in Workers : WorkerFails(w)
           \/ \E t \in Uuids : TimePasses(t)
           \/ \E a \in Admins : AdminCrash(a) \/ AdminRestart(a) \/ RecoverTick(a) \/ RecoverFails(a)
           \/ \E a \in Admins, w \in Workers : RecoverTask(a, w)
    PROVE  GreyInv'
<1>1. /\ GreyTypeOK /\ ThreadTypeOK /\ OtherTypeOK
      /\ MaxRequests \in Nat /\ MaxCrashes \in Nat /\ MaxDbErrors \in Nat
  BY TypeParts DEF GreyInv, GreyAssumption
<1>2. ASSUME NEW t \in Uuids, NEW w \in Workers, NEW cmd \in {"pause", "next", "cancel"},
             OperatorRequest(w, t, cmd)
      PROVE  GreyInv'
  <2>1. /\ Active(t) /\ requests < MaxRequests
        /\ worker' = [worker EXCEPT ![w] = Busy(cmd, t, status[t])]
        /\ requests' = requests + 1
        /\ UNCHANGED <<applyVars, status, taskConfig, recover, clock, offered, prepared, crashes, dbErrors>>
    BY <1>2 DEF OperatorRequest
  <2>2. Busy(cmd, t, status[t]) \in WorkerState
    BY <1>1, <2>1, ActiveInfo, BusyType
  <2>3. ThreadTypeOK'
    BY <1>1, <2>1, <2>2, OneThread
  <2>4. OtherTypeOK'
    BY <1>1, <2>1 DEF OtherTypeOK
  <2> QED
    BY <2>1, <2>3, <2>4, TablesAlone
<1>3. ASSUME NEW w \in Workers, WorkerFails(w) PROVE GreyInv'
  <2>1. /\ worker' = [worker EXCEPT ![w] = Idle]
        /\ dbErrors < MaxDbErrors /\ dbErrors' = dbErrors + 1
        /\ UNCHANGED <<applyVars, status, taskConfig, recover, clock, offered, prepared, requests, crashes>>
    BY <1>3 DEF WorkerFails
  <2>2. ThreadTypeOK'
    BY <1>1, <2>1, IdleType, OneThread
  <2>3. OtherTypeOK'
    BY <1>1, <2>1 DEF OtherTypeOK
  <2> QED
    BY <2>1, <2>2, <2>3, TablesAlone
<1>4. ASSUME NEW t \in Uuids, TimePasses(t) PROVE GreyInv'
  <2>1. /\ clock' = [clock EXCEPT ![t] = NextAge(t)]
        /\ UNCHANGED <<applyVars, status, taskConfig, worker, recover, offered, prepared, requests, crashes, dbErrors>>
    BY <1>4 DEF TimePasses
  <2>2. NextAge(t) \in Ages
    BY DEF NextAge, Ages
  <2>3. ThreadTypeOK'
    BY <1>1, <2>1 DEF ThreadTypeOK
  <2>4. OtherTypeOK'
    BY <1>1, <2>1, <2>2 DEF OtherTypeOK
  <2> QED
    BY <2>1, <2>3, <2>4, TablesAlone
<1>5. ASSUME NEW a \in Admins, AdminCrash(a) PROVE GreyInv'
  <2>1. /\ crashes < MaxCrashes /\ crashes' = crashes + 1
        /\ worker' = [w \in Workers |-> IF Home[w] = a THEN Idle ELSE worker[w]]
        /\ recover' = [recover EXCEPT ![a] = [up |-> FALSE, alive |-> FALSE, todo |-> {}]]
        /\ UNCHANGED <<applyVars, status, taskConfig, clock, offered, prepared, requests, dbErrors>>
    BY <1>5 DEF AdminCrash
  <2>2. worker' \in [Workers -> WorkerState]
    BY <1>1, <2>1, IdleType DEF ThreadTypeOK
  <2>3. [up |-> FALSE, alive |-> FALSE, todo |-> {}] \in RecoverState
    BY DEF RecoverState
  <2>4. ThreadTypeOK'
    BY <1>1, <2>1, <2>2, <2>3, OneRecover
  <2>5. OtherTypeOK'
    BY <1>1, <2>1 DEF OtherTypeOK
  <2> QED
    BY <2>1, <2>4, <2>5, TablesAlone
<1>6. ASSUME NEW a \in Admins, AdminRestart(a) PROVE GreyInv'
  <2>1. /\ recover' = [recover EXCEPT ![a] = [up |-> TRUE, alive |-> TRUE, todo |-> {}]]
        /\ UNCHANGED <<applyVars, status, taskConfig, worker, clock, offered, prepared, requests, crashes, dbErrors>>
    BY <1>6 DEF AdminRestart
  <2>2. [up |-> TRUE, alive |-> TRUE, todo |-> {}] \in RecoverState
    BY DEF RecoverState
  <2>3. ThreadTypeOK'
    BY <1>1, <2>1, <2>2, OneRecover DEF ThreadTypeOK
  <2>4. OtherTypeOK'
    BY <1>1, <2>1 DEF OtherTypeOK
  <2> QED
    BY <2>1, <2>3, <2>4, TablesAlone
<1>7. ASSUME NEW a \in Admins, RecoverTick(a) PROVE GreyInv'
  <2> DEFINE todo == {<<t, status[t]>> : t \in {u \in NotOperated : NeedRecover(u)}}
             row == [up |-> TRUE, alive |-> NotOperated # {}, todo |-> todo]
  <2>1. /\ recover' = [recover EXCEPT ![a] = row]
        /\ UNCHANGED <<applyVars, status, taskConfig, worker, clock, offered, prepared, requests, crashes, dbErrors>>
    BY <1>7 DEF RecoverTick
  <2>2. ASSUME NEW t \in Uuids, NeedRecover(t) PROVE status[t] \in InfoRow
    <3>1. Active(t)
      BY <2>2 DEF NeedRecover, Active, ActiveStates
    <3> QED
      BY <1>1, <3>1, ActiveInfo
  <2>3. todo \in SUBSET (Uuids \X InfoRow)
    BY <2>2 DEF NotOperated
  <2>4. row \in RecoverState
    BY <2>3 DEF RecoverState
  <2>5. ThreadTypeOK'
    BY <1>1, <2>1, <2>4, OneRecover DEF ThreadTypeOK
  <2>6. OtherTypeOK'
    BY <1>1, <2>1 DEF OtherTypeOK
  <2> QED
    BY <2>1, <2>5, <2>6, TablesAlone
<1>8. ASSUME NEW a \in Admins, RecoverFails(a) PROVE GreyInv'
  <2>1. /\ dbErrors < MaxDbErrors /\ dbErrors' = dbErrors + 1
        /\ recover' = [recover EXCEPT ![a] = [up |-> TRUE, alive |-> FALSE, todo |-> {}]]
        /\ UNCHANGED <<applyVars, status, taskConfig, worker, clock, offered, prepared, requests, crashes>>
    BY <1>8 DEF RecoverFails
  <2>2. [up |-> TRUE, alive |-> FALSE, todo |-> {}] \in RecoverState
    BY DEF RecoverState
  <2>3. ThreadTypeOK'
    BY <1>1, <2>1, <2>2, OneRecover DEF ThreadTypeOK
  <2>4. OtherTypeOK'
    BY <1>1, <2>1 DEF OtherTypeOK
  <2> QED
    BY <2>1, <2>3, <2>4, TablesAlone
<1>9. ASSUME NEW a \in Admins, NEW w \in Workers, RecoverTask(a, w) PROVE GreyInv'
  <2>1. UNCHANGED <<applyVars, status, taskConfig, clock, offered, requests, crashes, dbErrors>>
    BY <1>9 DEF RecoverTask
  <2>2. PICK r \in recover[a].todo :
          /\ recover' = [recover EXCEPT ![a] =
                [up |-> TRUE, alive |-> TRUE, todo |-> recover[a].todo \ {r}]]
          /\ worker' = [worker EXCEPT ![w] = Busy("next", r[1], r[2])]
          /\ IF r[2].st = "PUBLISHING" THEN PreparePush(r[1], r[2]) ELSE UNCHANGED prepared
    BY <1>9 DEF RecoverTask
  <2>3. recover[a].todo \in SUBSET (Uuids \X InfoRow)
    BY <1>1 DEF ThreadTypeOK, RecoverState
  <2>4. r[1] \in Uuids /\ r[2] \in InfoRow
    BY <2>3
  <2>5. [up |-> TRUE, alive |-> TRUE, todo |-> recover[a].todo \ {r}] \in RecoverState
    BY <2>3 DEF RecoverState
  <2>6. Busy("next", r[1], r[2]) \in WorkerState
    BY <2>4, BusyType
  <2>7. worker' \in [Workers -> WorkerState]
    BY <1>1, <2>2, <2>6 DEF ThreadTypeOK
  <2>8. ThreadTypeOK'
    BY <1>1, <2>2, <2>5, <2>7, OneRecover
  <2>9. prepared' \in [Uuids -> SUBSET (0..Batches)]
    <3>1. CASE PreparePush(r[1], r[2])
      BY <1>1, <2>4, <3>1, PreparePushType
    <3>2. CASE UNCHANGED prepared
      BY <1>1, <3>2 DEF OtherTypeOK
    <3> QED
      BY <2>2, <3>1, <3>2
  <2>10. OtherTypeOK'
    BY <1>1, <2>1, <2>9 DEF OtherTypeOK
  <2> QED
    BY <2>1, <2>8, <2>10, TablesAlone
<1> QED
  BY <1>2, <1>3, <1>4, <1>5, <1>6, <1>7, <1>8, <1>9 DEF PauseTask, ContinueTask, CancelRequest
-----------------------------------------------------------------------------
(* The invariant.                                                            *)

LEMMA GreyInitInv == GreyInit => GreyInv
<1> SUFFICES ASSUME GreyInit PROVE GreyInv
  OBVIOUS
<1>1. ApplyInv
  BY ApplyInitInv DEF GreyInit
<1>2. \A t \in Uuids : status[t].st = "NONE" /\ ~Active(t)
  BY DEF GreyInit, NoTask, Info, Active, ActiveStates
<1>3. GreyTypeOK
  <2>1. NoTask \in StatusRow
    BY DEF NoTask, Info, StatusRow, GreyAssumption
  <2>2. NoConfigOfTask \in ConfigOfTask
    BY DEF NoConfigOfTask, ConfigOfTask
  <2>3. TaskTypeOK
    BY <1>2, <2>1, <2>2 DEF GreyInit, TaskTypeOK
  <2>4. ThreadTypeOK
    BY IdleType DEF GreyInit, ThreadTypeOK, RecoverState
  <2>5. OtherTypeOK
    BY DEF GreyInit, OtherTypeOK, Ages, GreyAssumption
  <2> QED
    BY <1>1, <2>3, <2>4, <2>5, TypeParts DEF ApplyInv
<1>4. \A t \in Uuids : Follows(t)
  <2>1. \A f \in Files : mapping[f].uuid = Free
    BY DEF GreyInit, ApplyInit, NoLock
  <2>2. \A t \in Uuids : Locks(t) = {}
    BY <2>1 DEF Locks
  <2> QED
    BY <1>2, <2>2 DEF Follows
<1> QED
  BY <1>1, <1>3, <1>4 DEF GreyInv

\* A step of the workflow touches no lock row and nothing of a grey release.
LEMMA EditStepInv ==
    ASSUME GreyInv, EditStep
    PROVE  GreyInv'
<1>1. ApplyInv /\ GreyTypeOK /\ TaskTypeOK /\ ThreadTypeOK /\ OtherTypeOK
  BY TypeParts DEF GreyInv
<1>2. ApplyInv'
  BY <1>1, ApplyStepInv DEF EditStep
<1>3. mapping' = mapping
  BY DEF EditStep, ApplyQueueStep, ApplyNew, ApproveAndPublish, Apply, ForceApply, Approve,
     Reject, Cancel, Publish, Delete, OneButtonBatchPublish
<1>4. UNCHANGED greyVars
  BY DEF EditStep
<1>5. TaskTypeOK' /\ ThreadTypeOK' /\ OtherTypeOK'
  BY <1>1, <1>4, TasksAlone DEF greyVars, ThreadTypeOK, OtherTypeOK
<1>6. ASSUME NEW u \in Uuids PROVE Follows(u)'
  BY <1>1, <1>3, <1>4, Untouched DEF GreyInv, greyVars
<1> QED
  BY <1>2, <1>5, <1>6, TypePartsNext DEF GreyInv

LEMMA GreyStepInv == GreyInv /\ [Next]_vars => GreyInv'
<1> SUFFICES ASSUME GreyInv, [Next]_vars PROVE GreyInv'
  OBVIOUS
<1>1. CASE EditStep
  BY <1>1, EditStepInv
<1>2. ASSUME NEW t \in Uuids, NEW F \in SUBSET Files, NEW option \in Options,
             BatchCreateCheck(t, F, option)
      PROVE  GreyInv'
  BY <1>2, BatchCreateCheckType, BatchCreateCheckFollows DEF GreyInv
<1>3. ASSUME NEW t \in Uuids, NEW w \in Workers, BatchCreate(t, w) PROVE GreyInv'
  BY <1>3, BatchCreateType, BatchCreateFollows DEF GreyInv
<1>4. ASSUME NEW w \in Workers, WorkerStep(w) PROVE GreyInv'
  BY <1>4, WorkerStepInv
<1>5. CASE \/ \E t \in Uuids, w \in Workers :
                PauseTask(w, t) \/ ContinueTask(w, t) \/ CancelRequest(w, t)
           \/ \E w \in Workers : WorkerFails(w)
           \/ \E t \in Uuids : TimePasses(t)
           \/ \E a \in Admins : AdminCrash(a) \/ AdminRestart(a) \/ RecoverTick(a) \/ RecoverFails(a)
           \/ \E a \in Admins, w \in Workers : RecoverTask(a, w)
  BY <1>5, OtherStepInv
<1>6. CASE UNCHANGED vars
  <2>1. UNCHANGED <<applyVars, status, taskConfig>> /\ UNCHANGED greyVars
    BY <1>6 DEF vars, greyVars
  <2>2. ThreadTypeOK' /\ OtherTypeOK'
    BY <2>1, TypeParts DEF GreyInv, greyVars, ThreadTypeOK, OtherTypeOK
  <2> QED
    BY <2>1, <2>2, TablesAlone
<1>7. CASE GreyStep
  BY <1>2, <1>3, <1>4, <1>5, <1>7 DEF GreyStep
<1> QED
  BY <1>1, <1>6, <1>7 DEF Next

\* The invariant holds whatever users, threads, crashes and database errors do.
THEOREM GreyInvariant == Spec => []GreyInv
<1> QED
  BY GreyInitInv, GreyStepInv, PTL DEF Spec

\* Every table row and every StatusInfo a thread holds keeps its type: no batch
\* beyond the last is ever prepared or counted (NextOfPublishing, preparePush).
THEOREM GreyTypeCorrect == Spec => []GreyTypeOK
<1>1. GreyInv => GreyTypeOK
  BY DEF GreyInv
<1> QED
  BY <1>1, GreyInvariant, PTL

\* A task under way holds the rows of its files at its own lock_version and any
\* other task holds none, whichever threads race (updateTask, finishTask,
\* cancelTask, createAndInitTasks).
THEOREM LocksFollowTheTask == Spec => []LocksFollowTask
<1>1. GreyInv => LocksFollowTask
  BY DEF GreyInv, Follows, LocksFollowTask
<1> QED
  BY <1>1, GreyInvariant, PTL

\* Grey releases publish through the workflow without making `config` go back or
\* name a version that was not published (greyBatchPublish).
THEOREM GreyKeepsLatestPublish == Spec => []ConfigIsLatestPublish
<1>1. GreyInv => ConfigIsLatestPublish
  BY DEF GreyInv, ApplyInv
<1> QED
  BY <1>1, GreyInvariant, PTL

\* Nor do they leave a gap in the history of a file.
THEOREM GreyKeepsHistory == Spec => []SnapshotsAreHistory
<1>1. GreyInv => SnapshotsAreHistory
  BY DEF GreyInv, ApplyInv
<1> QED
  BY <1>1, GreyInvariant, PTL
-----------------------------------------------------------------------------
(* Refinement of ConfigTable.                                                *)

\* Grey releases publish through FinishTask only.
LEMMA OnlyFinishPublishes ==
    ASSUME GreyInv, [Next]_vars
    PROVE  \/ [ApplyQueueStep]_applyVars
           \/ UNCHANGED conf
           \/ \E S \in (SUBSET Files) \ {{}} : PublishesOnly(S)
<1>1. CASE EditStep \/ UNCHANGED vars
  BY <1>1 DEF EditStep, vars
<1>2. ASSUME NEW w \in Workers, WorkerStep(w)
      PROVE  UNCHANGED conf \/ \E S \in (SUBSET Files) \ {{}} : PublishesOnly(S)
  <2> DEFINE t == worker[w].task
  <2>1. CASE AcceptPause(w) \/ AcceptCancel(w) \/ Work(w)
    BY <2>1 DEF AcceptPause, UpdateTask, AcceptCancel, CancelTask, Work, applyVars
  <2>2. CASE AcceptNext(w)
    <3>1. t \in Uuids
      BY <2>2, WorkerHolds DEF AcceptNext, GreyInv
    <3>2. PICK n : FinishTask(w, t, n) \/ UpdateTask(w, t, n)
      BY <2>2 DEF AcceptNext
    <3>3. CASE UpdateTask(w, t, n)
      BY <3>3 DEF UpdateTask
    <3>4. CASE FinishTask(w, t, n)
      <4>1. CASE UNCHANGED conf
        BY <4>1
      <4>2. CASE PublishesOnly(taskConfig[t].files)
        <5>1. taskConfig[t].files \in SUBSET Files
          BY <3>1, FilesOfTask DEF GreyInv
        <5>2. CASE taskConfig[t].files # {}
          BY <4>2, <5>1, <5>2
        <5>3. CASE taskConfig[t].files = {}
          <6>1. conf \in [Files -> ConfigRow] /\ conf' \in [Files -> ConfigRow]
            BY <4>2 DEF GreyInv, ApplyInv, PublishesOnly, ApplyTypeOK
          <6>2. \A f \in Files : conf'[f] = conf[f]
            BY <4>2, <5>3 DEF PublishesOnly
          <6> QED
            BY <6>1, <6>2
        <5> QED
          BY <5>2, <5>3
      <4> QED
        BY <3>1, <3>4, <4>1, <4>2, FinishIsPublish
    <3> QED
      BY <3>2, <3>3, <3>4
  <2> QED
    BY <1>2, <2>1, <2>2 DEF WorkerStep
<1>3. ASSUME NEW t \in Uuids, NEW w \in Workers,
             BatchCreate(t, w) \/ PauseTask(w, t) \/ ContinueTask(w, t) \/ CancelRequest(w, t)
      PROVE  UNCHANGED conf
  BY <1>3 DEF BatchCreate, PauseTask, ContinueTask, CancelRequest, OperatorRequest, applyVars
<1>4. ASSUME NEW t \in Uuids, TimePasses(t) PROVE UNCHANGED conf
  BY <1>4 DEF TimePasses, applyVars
<1>5. ASSUME NEW w \in Workers, WorkerFails(w) PROVE UNCHANGED conf
  BY <1>5 DEF WorkerFails, applyVars
<1>6. ASSUME NEW a \in Admins,
             AdminCrash(a) \/ AdminRestart(a) \/ RecoverTick(a) \/ RecoverFails(a)
      PROVE  UNCHANGED conf
  BY <1>6 DEF AdminCrash, AdminRestart, RecoverTick, RecoverFails, applyVars
<1>7. ASSUME NEW a \in Admins, NEW w \in Workers, RecoverTask(a, w) PROVE UNCHANGED conf
  BY <1>7 DEF RecoverTask, applyVars
<1>8. ASSUME NEW t \in Uuids, NEW F, NEW option, BatchCreateCheck(t, F, option) PROVE UNCHANGED conf
  BY <1>8 DEF BatchCreateCheck, applyVars
<1> QED
  BY <1>1, <1>2, <1>3, <1>4, <1>5, <1>6, <1>7, <1>8 DEF Next, GreyStep

LEMMA GreyStepIsTableStep ==
    GreyInv /\ [Next]_vars => [Table!ConfigNext]_(Table!configVars)
<1> SUFFICES ASSUME GreyInv, [Next]_vars PROVE [Table!ConfigNext]_(Table!configVars)
  OBVIOUS
<1>1. ApplyInv
  BY DEF GreyInv
<1>2. CASE [ApplyQueueStep]_applyVars
  BY <1>1, <1>2, ApplyStepIsTableStep
<1>3. CASE UNCHANGED conf
  BY <1>3 DEF Table!configVars
<1>4. ASSUME NEW S \in (SUBSET Files) \ {{}}, PublishesOnly(S) PROVE Table!ConfigNext
  BY <1>1, <1>4, PublishIsTableStep
<1> QED
  BY <1>2, <1>3, <1>4, OnlyFinishPublishes

\* Workflow and grey releases together still implement the table the servers
\* read: a finished release is one publish of all its files.
THEOREM GreyImplementsTable == Spec => ImplementsConfigTable
<1>1. GreyInit => Table!ConfigInit
  BY DEF GreyInit, ApplyInit, NoConfig, Table!ConfigInit
<1> QED
  BY <1>1, GreyInvariant, GreyStepIsTableStep, PTL
     DEF Spec, ImplementsConfigTable, Table!ConfigSpec
=============================================================================
