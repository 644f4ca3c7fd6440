-------------------------- MODULE GreyTasksProofs ---------------------------
(***************************************************************************)
(* Proofs about what GreyRelease promises of one task: who may advance it,  *)
(* that its batches go in order, that over is over and that finishing      *)
(* publishes all.  The heart is what the StatusInfos in the hands of       *)
(* threads and recover lists may still say (Seen, Pushed).                 *)
(***************************************************************************)
EXTENDS GreyReleaseProofs

\* A thread or the list of a recover task holds StatusInfo i of task t.
View(t, i) ==
    \/ \E w \in Workers : worker[w].pc # "idle" /\ worker[w].task = t /\ worker[w].info = i
    \/ \E a \in Admins : <<t, i>> \in recover[a].todo

\* There is no task yet.
New(t) == status[t].st \in {"NONE", "DRAFT"}

\* A lock row of nobody has not been touched.
FreeRowsRest == \A f \in Files : LockFree(f) => mapping[f] = NoLock

\* The rows of one task, leaked or not, move together, and the page has offered
\* to continue only at versions the rows have reached.
Rows(t) ==
    /\ status[t].st # "NONE" => taskConfig[t].files # {}
    /\ Terminal(t) => Locks(t) \cap taskConfig[t].files = {}
    /\ \A f, g \in Locks(t) : mapping[f].lv = mapping[g].lv
    /\ \A f \in Locks(t) : \A lv \in offered[t] : lv <= mapping[f].lv
    /\ Active(t) /\ status[t].lv \in offered[t] => status[t].st = "WAIT_PUBLISH"
    /\ New(t) => offered[t] = {}

\* Whoever holds a StatusInfo at the lock_version of the task holds the task as
\* it is; all others are behind.
Seen(t) ==
    /\ New(t) => \A i \in InfoRow : ~View(t, i)
    /\ Leaked(t) = {} /\ Active(t) =>
          \A i \in InfoRow : View(t, i) =>
              /\ i.lv <= status[t].lv /\ i.fin <= status[t].fin
              /\ i.lv = status[t].lv => i = status[t]

\* The batches a StatusInfo counts were pushed, and so was the one a thread is
\* about to count.
Pushed(t) ==
    /\ New(t) => prepared[t] = {}
    /\ status[t].st = "DRAFT" => status[t].fin = taskConfig[t].first - 1
    /\ \A i \in InfoRow : View(t, i) => taskConfig[t].first..i.fin \subseteq prepared[t]
    /\ \A w \in Workers :
          worker[w].pc = "next" /\ worker[w].task = t /\ worker[w].info.st = "PUBLISHING" =>
              worker[w].info.fin + 1 \in prepared[t]
    /\ Active(t) \/ status[t].st = "FINISH" =>
          /\ taskConfig[t].first..status[t].fin \subseteq prepared[t]
          /\ Leaked(t) = {} => \A b \in prepared[t] : b <= status[t].fin + 1

\* A finished task has published the version it pushed of every file.
Finished(t) ==
    status[t].st = "FINISH" =>
        /\ status[t].fin = Batches
        /\ \A f \in taskConfig[t].files :
              /\ taskConfig[t].ver[f] < MaxVersion
              /\ snap[f][taskConfig[t].ver[f] + 1].st = "PUBLISH"

TasksInv ==
    /\ GreyInv
    /\ FreeRowsRest
    /\ \A t \in Uuids : Rows(t) /\ Seen(t) /\ Pushed(t) /\ Finished(t)

USE ApplyQueueAssumption, GreyAssumption
-----------------------------------------------------------------------------
(* The steps that touch tasks or lock rows.                                  *)

\* What a thread is about to save follows what it holds.
Advances(w, n) ==
    /\ worker[w].pc \in {"next", "pause"}
    /\ n.lv = worker[w].info.lv + 1
    /\ \/ n.fin = worker[w].info.fin
       \/ /\ n.fin = worker[w].info.fin + 1
          /\ worker[w].pc = "next" /\ worker[w].info.st = "PUBLISHING"

Saving(w, n) ==
    /\ n \in InfoRow /\ Advances(w, n)
    /\ UpdateTask(w, worker[w].task, n)

Finishing(w, n) ==
    /\ n \in StatusRow /\ n.st = "FINISH" /\ n.fin = Batches /\ Advances(w, n)
    /\ FinishTask(w, worker[w].task, n)

\* A thread that pushes a batch, or pauses a task that waits.
Resting(w) == Work(w) \/ (AcceptPause(w) /\ worker[w].info.st = "WAIT_PUBLISH")

Quiet == UNCHANGED <<mapping, status, taskConfig, offered>>

\* Where `next` leads, in batches.
LEMMA NextBatch ==
    ASSUME NEW t \in Uuids, NEW info \in InfoRow, NEW n \in NextStates(t, info)
    PROVE  /\ \/ n.fin = info.fin
              \/ n.fin = info.fin + 1 /\ info.st = "PUBLISHING"
           /\ n.st = "FINISH" => n.fin = Batches
<1>1. info.st \in ActiveStates /\ info.fin \in -1..(Batches - 1) /\ info.lv \in Nat
  BY DEF InfoRow
<1>2. Batches \in Nat \ {0}
  BY DEF GreyAssumption
<1>3. CASE info.st \in {"WAIT_PUBLISH", "DELAY_PUBLISH"}
  BY <1>1, <1>3 DEF NextStates, Becomes, Info
<1>4. CASE info.st = "PUBLISHING"
  <2>1. n = NextOfPublishing(t, info)
    BY <1>4 DEF NextStates
  <2>2. \/ n = BatchDone(info, "FINISH") /\ info.fin = Batches - 1
        \/ n = BatchDone(info, "WAIT_PUBLISH")
        \/ n = BatchDone(info, "DELAY_PUBLISH")
    BY <1>1, <1>2, <2>1 DEF NextOfPublishing
  <2> QED
    BY <1>1, <1>2, <1>4, <2>2 DEF BatchDone, Info
<1> QED
  BY <1>1, <1>3, <1>4 DEF ActiveStates

\* A thread that accepts a command saves, finishes, cancels, or leaves all alone.
LEMMA AcceptKinds ==
    ASSUME GreyInv, NEW w \in Workers, WorkerStep(w)
    PROVE  \/ \E n : Saving(w, n) \/ Finishing(w, n)
           \/ AcceptCancel(w)
           \/ Resting(w)
<1> DEFINE t == worker[w].task
           info == worker[w].info
<1>1. worker[w].pc # "idle"
  BY DEF WorkerStep, AcceptNext, AcceptPause, AcceptCancel, Work
<1>2. t \in Uuids /\ info \in InfoRow
  BY <1>1, WorkerHolds DEF GreyInv
<1>3. CASE AcceptNext(w)
  <2>1. PICK n \in NextStates(t, info) :
            IF n.st = "FINISH" THEN FinishTask(w, t, n) ELSE UpdateTask(w, t, n)
    BY <1>3 DEF AcceptNext
  <2>2. Advances(w, n)
    BY <1>2, <1>3, NextInfo, NextBatch DEF AcceptNext, Advances
  <2>3. CASE n.st = "FINISH"
    <3>1. n \in StatusRow /\ n.fin = Batches
      BY <1>2, <2>3, NextInfo, NextBatch
    <3> QED
      BY <2>1, <2>2, <2>3, <3>1 DEF Finishing
  <2>4. CASE n.st # "FINISH"
    <3>1. n \in InfoRow
      BY <1>2, <2>4, NextInfo
    <3> QED
      BY <2>1, <2>2, <2>4, <3>1 DEF Saving
  <2> QED
    BY <2>3, <2>4
<1>4. CASE AcceptPause(w)
  <2>1. CASE info.st = "WAIT_PUBLISH"
    BY <1>4, <2>1 DEF Resting
  <2>2. CASE info.st # "WAIT_PUBLISH"
    <3> DEFINE n == Becomes(info, "WAIT_PUBLISH")
    <3>1. n \in InfoRow /\ n.lv = info.lv + 1 /\ n.fin = info.fin
      BY <1>2 DEF Becomes, Info, InfoRow, ActiveStates
    <3>2. UpdateTask(w, t, n) /\ worker[w].pc = "pause"
      BY <1>4, <2>2 DEF AcceptPause
    <3>3. Saving(w, n)
      BY <3>1, <3>2 DEF Saving, Advances
    <3> QED
      BY <3>3
  <2> QED
    BY <2>1, <2>2
<1>5. CASE Work(w)
  BY <1>5 DEF Resting
<1> QED
  BY <1>3, <1>4, <1>5 DEF WorkerStep

LEMMA EditKeepsRows == ASSUME EditStep PROVE mapping' = mapping
  BY DEF EditStep, ApplyQueueStep, ApplyNew, ApproveAndPublish, Apply, ForceApply, Approve,
     Reject, Cancel, Publish, Delete, OneButtonBatchPublish

LEMMA StepKinds ==
    ASSUME GreyInv, [Next]_vars
    PROVE  \/ \E t \in Uuids, F \in SUBSET Files, option \in Options : BatchCreateCheck(t, F, option)
           \/ \E t \in Uuids, w \in Workers : BatchCreate(t, w)
           \/ \E w \in Workers : \E n : Saving(w, n) \/ Finishing(w, n)
           \/ \E w \in Workers : AcceptCancel(w)
           \/ Quiet
<1>1. CASE EditStep \/ UNCHANGED vars
  BY <1>1, EditKeepsRows DEF EditStep, vars, greyVars, applyVars, Quiet
<1>2. ASSUME NEW t \in Uuids, NEW w \in Workers,
             PauseTask(w, t) \/ ContinueTask(w, t) \/ CancelRequest(w, t)
      PROVE  Quiet
  BY <1>2 DEF PauseTask, ContinueTask, CancelRequest, OperatorRequest, applyVars, Quiet
<1>3. ASSUME NEW t \in Uuids, TimePasses(t) PROVE Quiet
  BY <1>3 DEF TimePasses, applyVars, Quiet
<1>4. ASSUME NEW w \in Workers, WorkerFails(w) PROVE Quiet
  BY <1>4 DEF WorkerFails, applyVars, Quiet
<1>5. ASSUME NEW a \in Admins,
             AdminCrash(a) \/ AdminRestart(a) \/ RecoverTick(a) \/ RecoverFails(a)
      PROVE  Quiet
  BY <1>5 DEF AdminCrash, AdminRestart, RecoverTick, RecoverFails, applyVars, Quiet
<1>6. ASSUME NEW a \in Admins, NEW w \in Workers, RecoverTask(a, w) PROVE Quiet
  BY <1>6 DEF RecoverTask, applyVars, Quiet
<1>7. ASSUME NEW w \in Workers, WorkerStep(w)
      PROVE  \/ \E n : Saving(w, n) \/ Finishing(w, n)
             \/ AcceptCancel(w)
             \/ Quiet
  <2>1. CASE Resting(w)
    BY <2>1 DEF Resting, Work, AcceptPause, Quiet, applyVars
  <2> QED
    BY <1>7, <2>1, AcceptKinds
<1> QED
  BY <1>1, <1>2, <1>3, <1>4, <1>5, <1>6, <1>7 DEF Next, GreyStep
-----------------------------------------------------------------------------
(* The lock rows of one task.                                                *)

\* A step that touches neither a task nor its lock rows.
LEMMA RowsAlone ==
    ASSUME GreyTypeOK, NEW u \in Uuids, Rows(u),
           status'[u] = status[u], taskConfig'[u] = taskConfig[u], offered'[u] = offered[u],
           \A f \in Files : \/ mapping'[f] = mapping[f]
                            \/ mapping[f].uuid # u /\ mapping'[f].uuid # u
    PROVE  Rows(u)'
<1>1. Locks(u)' = Locks(u) /\ Active(u)' = Active(u) /\ Terminal(u)' = Terminal(u) /\ New(u)' = New(u)
  BY DEF Locks, Active, Terminal, New
<1>2. \A f \in Locks(u) : mapping'[f] = mapping[f]
  BY DEF Locks
<1> QED
  BY <1>1, <1>2 DEF Rows

LEMMA CheckRows ==
    ASSUME TasksInv, NEW t \in Uuids, NEW F \in SUBSET Files, NEW option \in Options,
           BatchCreateCheck(t, F, option), NEW u \in Uuids
    PROVE  Rows(u)'
<1>1. /\ status \in [Uuids -> StatusRow] /\ taskConfig \in [Uuids -> ConfigOfTask]
      /\ GreyTypeOK /\ Rows(u) /\ Rows(t) /\ Follows(t)
  BY DEF TasksInv, GreyInv, GreyTypeOK
<1>2. /\ status[t].st = "NONE" /\ F # {}
      /\ status' = [status EXCEPT ![t] = Info("DRAFT", option.first - 1, 0)]
      /\ mapping' = mapping /\ offered' = offered
  BY DEF BatchCreateCheck, applyVars
<1>3. taskConfig' = [taskConfig EXCEPT ![t] =
          [files |-> F, ver |-> [f \in Files |-> IF f \in F THEN cand[f].edit ELSE 0],
           auto |-> option.auto, first |-> option.first]]
  BY DEF BatchCreateCheck
<1>4. CASE u # t
  BY <1>1, <1>2, <1>3, <1>4, RowsAlone
<1>5. CASE u = t
  <2>1. Locks(t)' = {}
    BY <1>1, <1>2 DEF Follows, Locks
  <2>2. status'[t].st = "DRAFT" /\ taskConfig'[t].files = F /\ offered'[t] = {}
    BY <1>1, <1>2, <1>3 DEF Info, Rows, New
  <2> QED
    BY <1>2, <1>5, <2>1, <2>2 DEF Rows, Active, ActiveStates, Terminal
<1> QED
  BY <1>4, <1>5

\* createAndInitTasks inserts all rows at lock_version 0.
LEMMA CreateRows ==
    ASSUME TasksInv, NEW t \in Uuids, NEW w \in Workers, BatchCreate(t, w), NEW u \in Uuids
    PROVE  Rows(u)'
<1>1. /\ status \in [Uuids -> StatusRow] /\ taskConfig \in [Uuids -> ConfigOfTask]
      /\ GreyTypeOK /\ Rows(u) /\ Rows(t) /\ Follows(t)
  BY DEF TasksInv, GreyInv, GreyTypeOK
<1>2. status[t].st = "DRAFT" /\ offered' = offered /\ Locks(t) = {} /\ offered[t] = {}
  BY <1>1 DEF BatchCreate, Follows, Rows, New
<1>3. CASE CreateAborts(t)
  <2>1. /\ mapping' = mapping /\ status' = [status EXCEPT ![t] = NoTask]
        /\ taskConfig' = [taskConfig EXCEPT ![t] = NoConfigOfTask]
    BY <1>3 DEF BatchCreate
  <2>2. CASE u # t
    BY <1>1, <1>2, <2>1, <2>2, RowsAlone
  <2>3. CASE u = t
    <3>1. Locks(t)' = {} /\ status'[t].st = "NONE"
      BY <1>1, <1>2, <2>1 DEF Locks, NoTask, Info
    <3> QED
      BY <1>2, <2>3, <3>1 DEF Rows, Active, ActiveStates, Terminal
  <2> QED
    BY <2>2, <2>3
<1>4. CASE ~CreateAborts(t)
  <2>1. mapping' = [f \in Files |-> IF f \in Inserted(t) THEN [uuid |-> t, lv |-> 0] ELSE mapping[f]]
    BY <1>4 DEF BatchCreate
  <2>2. /\ status' = [status EXCEPT ![t] = Info("PUBLISHING", status[t].fin, 0)]
        /\ taskConfig' = [taskConfig EXCEPT ![t] =
              [files |-> Accepted(t), ver |-> taskConfig[t].ver,
               auto |-> taskConfig[t].auto, first |-> taskConfig[t].first]]
    BY <1>4 DEF BatchCreate
  <2>3. CASE u # t
    <3>1. \A f \in Inserted(t) : mapping[f].uuid = Free
      BY DEF Inserted, LockFree
    <3>2. u # Free
      OBVIOUS
    <3>3. \A f \in Files : \/ mapping'[f] = mapping[f]
                           \/ mapping[f].uuid # u /\ mapping'[f].uuid # u
      BY <2>1, <2>3, <3>1, <3>2
    <3>4. status'[u] = status[u] /\ taskConfig'[u] = taskConfig[u]
      BY <1>1, <2>2, <2>3
    <3> QED
      BY <1>1, <1>2, <3>3, <3>4, RowsAlone
  <2>4. CASE u = t
    <3>1. status'[t].st = "PUBLISHING" /\ taskConfig'[t].files = Accepted(t) /\ Accepted(t) # {}
      BY <1>1, <1>4, <2>2 DEF Info, CreateAborts
    <3>2. \A f \in Locks(t)' : mapping'[f].lv = 0
      BY <1>2, <2>1 DEF Locks
    <3>3. offered'[t] = {} /\ ~Terminal(t)' /\ ~New(t)'
      BY <1>2, <3>1 DEF Terminal, New
    <3> QED
      BY <2>4, <3>1, <3>2, <3>3 DEF Rows
  <2> QED
    BY <2>3, <2>4
<1> QED
  BY <1>3, <1>4

\* updateTask hits all rows of the task or none, leaked or not.
LEMMA SaveRows ==
    ASSUME TasksInv, NEW w \in Workers, NEW t \in Uuids, NEW n \in InfoRow, UpdateTask(w, t, n),
           NEW u \in Uuids
    PROVE  Rows(u)'
<1>1. /\ status \in [Uuids -> StatusRow] /\ mapping \in [Files -> MappingRow]
      /\ offered \in [Uuids -> SUBSET Nat] /\ taskConfig' = taskConfig
      /\ GreyTypeOK /\ Rows(u) /\ Rows(t) /\ Follows(t)
  BY DEF TasksInv, GreyInv, GreyTypeOK, ApplyTypeOK, UpdateTask
<1>2. n.st \in ActiveStates /\ n.lv \in Nat
  BY DEF InfoRow
<1>3. CASE ~MaySave(t, n)
  <2>1. UNCHANGED <<mapping, status, offered>>
    BY <1>3 DEF UpdateTask
  <2> QED
    BY <1>1, <2>1, RowsAlone
<1>4. CASE MaySave(t, n)
  <2>1. /\ mapping' = [f \in Files |->
              IF f \in Held(t, n) THEN [uuid |-> t, lv |-> n.lv] ELSE mapping[f]]
        /\ status' = [status EXCEPT ![t] = n]
        /\ offered' = IF n.st = "WAIT_PUBLISH" THEN [offered EXCEPT ![t] = @ \cup {n.lv}] ELSE offered
    BY <1>4 DEF UpdateTask
  <2>2. \A f \in Held(t, n) : f \in Files /\ mapping[f].uuid = t /\ mapping[f].lv = n.lv - 1
    BY DEF Held, Locks
  <2>3. CASE u # t
    <3>1. \A f \in Files : \/ mapping'[f] = mapping[f]
                           \/ mapping[f].uuid # u /\ mapping'[f].uuid # u
      BY <2>1, <2>2, <2>3
    <3>2. status'[u] = status[u] /\ offered'[u] = offered[u]
      BY <1>1, <2>1, <2>3
    <3> QED
      BY <1>1, <3>1, <3>2, RowsAlone
  <2>4. CASE u = t
    <3>1. PICK g \in Held(t, n) : TRUE
      BY <1>4 DEF MaySave
    <3>2. g \in Locks(t) /\ mapping[g].lv = n.lv - 1
      BY <3>1 DEF Held
    <3>3. \A f \in Locks(t) : mapping[f].lv = n.lv - 1
      BY <1>1, <3>2 DEF Rows
    <3>4. Held(t, n) = Locks(t)
      BY <3>3 DEF Held
    <3>5. Locks(t)' = Locks(t)
      BY <2>1, <3>4 DEF Locks
    <3>6. \A f \in Locks(t) : mapping'[f].lv = n.lv
      BY <2>1, <3>4 DEF Locks
    <3>7. \A lv \in offered[t] : lv \in Nat /\ lv <= n.lv - 1
      BY <1>1, <3>2 DEF Rows
    <3>8. \A lv \in offered'[t] : lv <= n.lv
      BY <1>1, <1>2, <2>1, <3>7
    <3>9. n.lv \in offered'[t] => n.st = "WAIT_PUBLISH"
      BY <1>1, <1>2, <2>1, <3>7
    <3>10. status'[t] = n
      BY <1>1, <2>1
    <3>11. ~Terminal(t)' /\ ~New(t)'
      BY <1>2, <3>10 DEF Terminal, New, ActiveStates
    <3>12. status[t].st # "NONE"
      BY <1>1, <3>2 DEF Follows
    <3>13. taskConfig'[t].files # {}
      BY <1>1, <3>12 DEF Rows
    <3>14. \A f \in Locks(t)' : \A lv \in offered'[t] : lv <= mapping'[f].lv
      BY <3>5, <3>6, <3>8
    <3>15. \A f, g2 \in Locks(t)' : mapping'[f].lv = mapping'[g2].lv
      BY <3>5, <3>6
    <3> QED
      BY <2>4, <3>9, <3>10, <3>11, <3>13, <3>14, <3>15 DEF Rows
  <2> QED
    BY <2>3, <2>4
<1> QED
  BY <1>3, <1>4

\* finishTask deletes the rows of all its files.
LEMMA FinishRows ==
    ASSUME TasksInv, NEW w \in Workers, NEW t \in Uuids, NEW n, n.st = "FINISH",
           FinishTask(w, t, n), ~New(t), NEW u \in Uuids
    PROVE  Rows(u)'
<1>1. /\ status \in [Uuids -> StatusRow] /\ mapping \in [Files -> MappingRow]
      /\ taskConfig' = taskConfig /\ offered' = offered
      /\ GreyTypeOK /\ Rows(u) /\ Rows(t) /\ Follows(t)
  BY DEF TasksInv, GreyInv, GreyTypeOK, ApplyTypeOK, FinishTask
<1>2. CASE UNCHANGED <<mapping, status>>
  BY <1>1, <1>2, RowsAlone
<1>3. CASE ~UNCHANGED <<mapping, status>>
  <2>1. /\ taskConfig[t].files \subseteq Held(t, n)
        /\ mapping' = [f \in Files |-> IF f \in taskConfig[t].files THEN NoLock ELSE mapping[f]]
        /\ status' = [status EXCEPT ![t] = n]
    BY <1>3 DEF FinishTask, Unlock
  <2>2. taskConfig[t].files \in SUBSET Files
    BY <1>1, FilesOfTask
  <2>3. \A f \in taskConfig[t].files : mapping[f].uuid = t /\ mapping'[f].uuid = Free
    BY <2>1, <2>2 DEF Held, Locks, NoLock
  <2>4. u # Free /\ t # Free
    OBVIOUS
  <2>5. CASE u # t
    <3>1. \A f \in Files : \/ mapping'[f] = mapping[f]
                           \/ mapping[f].uuid # u /\ mapping'[f].uuid # u
      BY <2>1, <2>3, <2>4, <2>5
    <3>2. status'[u] = status[u]
      BY <1>1, <2>1, <2>5
    <3> QED
      BY <1>1, <3>1, <3>2, RowsAlone
  <2>6. CASE u = t
    <3>1. status'[t].st = "FINISH"
      BY <1>1, <2>1
    <3>2. Locks(t)' = Locks(t) \ taskConfig[t].files
      BY <2>1, <2>3, <2>4 DEF Locks
    <3>3. \A f \in Locks(t)' : mapping'[f] = mapping[f] /\ f \in Locks(t)
      BY <2>1, <3>2 DEF Locks
    <3>4. taskConfig[t].files # {}
      BY <1>1 DEF Rows, New
    <3> QED
      BY <1>1, <2>6, <3>1, <3>2, <3>3, <3>4 DEF Rows, Active, ActiveStates, New
  <2> QED
    BY <2>5, <2>6
<1> QED
  BY <1>2, <1>3

\* cancelTask deletes the rows of the files of an unfinished task; rows that stay
\* are raised together.
LEMMA CancelRows ==
    ASSUME TasksInv, NEW w \in Workers, NEW t \in Uuids, NEW n, CancelTask(w, t, n), ~New(t),
           NEW u \in Uuids
    PROVE  Rows(u)'
<1>1. /\ status \in [Uuids -> StatusRow] /\ mapping \in [Files -> MappingRow]
      /\ offered \in [Uuids -> SUBSET Nat]
      /\ taskConfig' = taskConfig /\ offered' = offered
      /\ GreyTypeOK /\ Rows(u) /\ Rows(t)
  BY DEF TasksInv, GreyInv, GreyTypeOK, ApplyTypeOK, CancelTask
<1>2. mapping' = [f \in Files |->
          IF f \notin Locks(t) THEN mapping[f]
          ELSE IF ~Terminal(t) /\ f \in taskConfig[t].files THEN NoLock
          ELSE [uuid |-> t, lv |-> mapping[f].lv + 1]]
  BY DEF CancelTask, Unlock
<1>3. status' = IF Locks(t) # {} /\ ~Terminal(t)
                THEN [status EXCEPT ![t] = Info("CANCEL", n.fin, n.lv)] ELSE status
  BY DEF CancelTask
<1>4. u # Free /\ t # Free
  OBVIOUS
<1>5. CASE u # t
  <2>1. \A f \in Files : \/ mapping'[f] = mapping[f]
                         \/ mapping[f].uuid # u /\ mapping'[f].uuid # u
    BY <1>2, <1>4, <1>5 DEF Locks, NoLock
  <2>2. status'[u] = status[u]
    BY <1>1, <1>3, <1>5
  <2> QED
    BY <1>1, <2>1, <2>2, RowsAlone
<1>6. CASE u = t
  <2>1. Locks(t)' \subseteq Locks(t)
    BY <1>2, <1>4 DEF Locks, NoLock
  <2>2. \A f \in Locks(t)' : f \in Files /\ mapping'[f].lv = mapping[f].lv + 1 /\ mapping[f].lv \in Nat
    BY <1>1, <1>2, <1>4, <2>1 DEF Locks, NoLock, MappingRow
  <2>3. \A f, g \in Locks(t)' : mapping'[f].lv = mapping'[g].lv
    <3> SUFFICES ASSUME NEW f \in Locks(t)', NEW g \in Locks(t)'
                 PROVE  mapping'[f].lv = mapping'[g].lv
      OBVIOUS
    <3>1. mapping[f].lv = mapping[g].lv
      BY <1>1, <2>1 DEF Rows
    <3> QED
      BY <2>2, <3>1
  <2>4. ASSUME NEW f \in Locks(t)', NEW lv \in offered'[t] PROVE lv <= mapping'[f].lv
    <3>1. lv \in Nat /\ lv <= mapping[f].lv
      BY <1>1, <2>1 DEF Rows
    <3> QED
      BY <2>2, <3>1
  <2>5. taskConfig[t].files # {}
    BY <1>1 DEF Rows, New
  <2>6. CASE Locks(t) # {} /\ ~Terminal(t)
    <3>1. status'[t].st = "CANCEL"
      BY <1>1, <1>3, <2>6 DEF Info
    <3>2. \A f \in Files : f \in taskConfig[t].files => mapping'[f].uuid # t
      BY <1>2, <1>4, <2>6 DEF Locks, NoLock
    <3>3. Locks(t)' \cap taskConfig[t].files = {}
      BY <2>2, <3>2 DEF Locks
    <3> QED
      BY <1>1, <1>6, <2>3, <2>4, <2>5, <3>1, <3>3 DEF Rows, Active, ActiveStates, New
  <2>7. CASE Locks(t) = {} \/ Terminal(t)
    <3>1. status' = status
      BY <1>3, <2>7
    <3>2. Active(t)' = Active(t) /\ Terminal(t)' = Terminal(t) /\ ~New(t)'
      BY <3>1 DEF Active, Terminal, New
    <3>3. Terminal(t) => Locks(t)' \cap taskConfig[t].files = {}
      BY <1>1, <2>1 DEF Rows
    <3> QED
      BY <1>1, <1>6, <2>3, <2>4, <2>5, <3>1, <3>2, <3>3 DEF Rows
  <2> QED
    BY <2>6, <2>7
<1> QED
  BY <1>5, <1>6

\* Whoever holds a StatusInfo of a task holds one of a task there is.
LEMMA HolderHasTask ==
    ASSUME TasksInv, NEW w \in Workers, worker[w].pc # "idle"
    PROVE  /\ worker[w].task \in Uuids /\ worker[w].info \in InfoRow
           /\ View(worker[w].task, worker[w].info) /\ ~New(worker[w].task)
<1>1. worker[w].task \in Uuids /\ worker[w].info \in InfoRow
  BY WorkerHolds DEF TasksInv, GreyInv
<1>2. View(worker[w].task, worker[w].info)
  BY DEF View
<1> QED
  BY <1>1, <1>2 DEF TasksInv, Seen

LEMMA RowsStep ==
    ASSUME TasksInv, [Next]_vars, NEW u \in Uuids
    PROVE  Rows(u)'
<1>1. GreyInv /\ GreyTypeOK /\ Rows(u)
  BY DEF TasksInv, GreyInv
<1>2. ASSUME NEW w \in Workers, NEW n, Saving(w, n) PROVE Rows(u)'
  <2>1. worker[w].task \in Uuids
    BY <1>2, HolderHasTask DEF Saving, Advances
  <2> QED
    BY <1>2, <2>1, SaveRows DEF Saving
<1>3. ASSUME NEW w \in Workers, NEW n, Finishing(w, n) PROVE Rows(u)'
  <2>1. worker[w].task \in Uuids /\ ~New(worker[w].task)
    BY <1>3, HolderHasTask DEF Finishing, Advances
  <2> QED
    BY <1>3, <2>1, FinishRows DEF Finishing
<1>4. ASSUME NEW w \in Workers, AcceptCancel(w) PROVE Rows(u)'
  <2>1. worker[w].task \in Uuids /\ ~New(worker[w].task)
    BY <1>4, HolderHasTask DEF AcceptCancel
  <2> QED
    BY <1>4, <2>1, CancelRows DEF AcceptCancel
<1>5. CASE Quiet
  BY <1>1, <1>5, RowsAlone DEF Quiet
<1> QED
  BY <1>1, <1>2, <1>3, <1>4, <1>5, StepKinds, CheckRows, CreateRows

LEMMA FreeRowsStep ==
    ASSUME TasksInv, [Next]_vars
    PROVE  FreeRowsRest'
<1>1. GreyInv /\ FreeRowsRest
  BY DEF TasksInv
<1>2. CASE UNCHANGED mapping
  BY <1>1, <1>2 DEF FreeRowsRest, LockFree
<1>3. ASSUME NEW t \in Uuids, NEW w \in Workers, BatchCreate(t, w) PROVE FreeRowsRest'
  BY <1>1, <1>3 DEF BatchCreate, FreeRowsRest, LockFree
<1>4. ASSUME NEW w \in Workers, NEW n, Saving(w, n) PROVE FreeRowsRest'
  <2>1. worker[w].task \in Uuids
    BY <1>4, HolderHasTask DEF Saving, Advances
  <2> QED
    BY <1>1, <1>4, <2>1 DEF Saving, UpdateTask, FreeRowsRest, LockFree
<1>5. ASSUME NEW w \in Workers, NEW n, Finishing(w, n) PROVE FreeRowsRest'
  BY <1>1, <1>5 DEF Finishing, FinishTask, Unlock, FreeRowsRest, LockFree
<1>6. ASSUME NEW w \in Workers, AcceptCancel(w) PROVE FreeRowsRest'
  <2>1. worker[w].task \in Uuids
    BY <1>6, HolderHasTask DEF AcceptCancel
  <2> QED
    BY <1>1, <1>6, <2>1 DEF AcceptCancel, CancelTask, Unlock, FreeRowsRest, LockFree
<1>7. ASSUME NEW t \in Uuids, NEW F, NEW option, BatchCreateCheck(t, F, option) PROVE FreeRowsRest'
  BY <1>2, <1>7 DEF BatchCreateCheck, applyVars
<1> QED
  BY <1>1, <1>2, <1>3, <1>4, <1>5, <1>6, <1>7, StepKinds DEF Quiet
-----------------------------------------------------------------------------
(* What threads and recover lists hold.                                      *)

LEMMA ThreadViews ==
    ASSUME GreyTypeOK, NEW w \in Workers, NEW x, worker' = [worker EXCEPT ![w] = x],
           recover' = recover, NEW u \in Uuids, NEW i, View(u, i)'
    PROVE  View(u, i) \/ (x.pc # "idle" /\ x.task = u /\ x.info = i)
<1>1. worker \in [Workers -> WorkerState]
  BY DEF GreyTypeOK
<1> QED
  BY <1>1 DEF View

LEMMA RecoverViews ==
    ASSUME GreyTypeOK, NEW a \in Admins, NEW x, recover' = [recover EXCEPT ![a] = x],
           worker' = worker, NEW u \in Uuids, NEW i, View(u, i)'
    PROVE  View(u, i) \/ <<u, i>> \in x.todo
<1>1. recover \in [Admins -> RecoverState]
  BY DEF GreyTypeOK
<1> QED
  BY <1>1 DEF View

\* A thread that becomes idle learns nothing.
LEMMA IdleViews ==
    ASSUME GreyTypeOK, NEW w \in Workers, worker' = [worker EXCEPT ![w] = Idle],
           recover' = recover, NEW u \in Uuids, NEW i, View(u, i)'
    PROVE  View(u, i)
<1>1. View(u, i) \/ Idle.pc # "idle"
  BY ThreadViews
<1> QED
  BY <1>1 DEF Idle

LEMMA BusyViews ==
    ASSUME GreyTypeOK, NEW w \in Workers, NEW pc, NEW t, NEW info,
           worker' = [worker EXCEPT ![w] = Busy(pc, t, info)],
           recover' = recover, NEW u \in Uuids, NEW i, View(u, i)'
    PROVE  View(u, i) \/ (t = u /\ info = i)
<1> DEFINE x == Busy(pc, t, info)
<1>1. View(u, i) \/ (x.pc # "idle" /\ x.task = u /\ x.info = i)
  <2> HIDE DEF x
  <2>1. worker' = [worker EXCEPT ![w] = x]
    BY DEF x
  <2> QED
    BY <2>1, ThreadViews
<1> QED
  BY <1>1 DEF Busy

\* What is new in anybody's hands is the task as it is.
LEMMA NewViews ==
    ASSUME TasksInv, [Next]_vars, NEW u \in Uuids, NEW i, View(u, i)'
    PROVE  View(u, i) \/ (Active(u)' /\ i = status'[u])
<1> DEFINE Goal == View(u, i) \/ (Active(u)' /\ i = status'[u])
<1>1. /\ GreyInv /\ GreyTypeOK /\ status \in [Uuids -> StatusRow]
      /\ worker \in [Workers -> WorkerState] /\ recover \in [Admins -> RecoverState]
  BY DEF TasksInv, GreyInv, GreyTypeOK
<1>2. CASE UNCHANGED <<worker, recover>>
  BY <1>2 DEF View
<1>3. CASE EditStep \/ UNCHANGED vars
  BY <1>2, <1>3 DEF EditStep, vars, greyVars
<1>4. ASSUME NEW t \in Uuids, NEW F, NEW option, BatchCreateCheck(t, F, option) PROVE Goal
  BY <1>2, <1>4 DEF BatchCreateCheck
<1>5. ASSUME NEW t \in Uuids, NEW w \in Workers, BatchCreate(t, w) PROVE Goal
  <2>1. CASE CreateAborts(t)
    BY <1>2, <1>5, <2>1 DEF BatchCreate
  <2>2. CASE ~CreateAborts(t)
    <3> DEFINE n == Info("PUBLISHING", status[t].fin, 0)
    <3>1. /\ status' = [status EXCEPT ![t] = n] /\ recover' = recover
          /\ worker' = [worker EXCEPT ![w] = Busy("work", t, n)]
      BY <1>5, <2>2 DEF BatchCreate
    <3>2. status'[t] = n /\ Active(t)'
      BY <1>1, <3>1 DEF Active, ActiveStates, Info
    <3> HIDE DEF n
    <3>3. View(u, i) \/ (t = u /\ n = i)
      BY <1>1, <3>1, BusyViews
    <3> QED
      BY <3>2, <3>3
  <2> QED
    BY <2>1, <2>2
<1>6. ASSUME NEW t \in Uuids, NEW w \in Workers, NEW cmd, OperatorRequest(w, t, cmd) PROVE Goal
  <2>1. /\ Active(t) /\ status' = status /\ recover' = recover
        /\ worker' = [worker EXCEPT ![w] = Busy(cmd, t, status[t])]
    BY <1>6 DEF OperatorRequest
  <2>2. View(u, i) \/ (t = u /\ status[t] = i)
    BY <1>1, <2>1, BusyViews
  <2> QED
    BY <2>1, <2>2 DEF Active
<1>7. ASSUME NEW w \in Workers, worker' = [worker EXCEPT ![w] = Idle], recover' = recover PROVE Goal
  BY <1>1, <1>7, IdleViews
<1>8. ASSUME NEW w \in Workers, NEW t \in Uuids, NEW n \in InfoRow, UpdateTask(w, t, n) PROVE Goal
  <2>2. recover' = recover
    BY <1>8 DEF UpdateTask
  <2>3. CASE ~MaySave(t, n)
    BY <1>7, <1>8, <2>2, <2>3 DEF UpdateTask
  <2>4. CASE MaySave(t, n)
    <3>1. status' = [status EXCEPT ![t] = n] /\ worker' = [worker EXCEPT ![w] = AfterSave(t, n)]
      BY <1>8, <2>4 DEF UpdateTask
    <3>2. status'[t] = n
      BY <1>1, <3>1
    <3>0. n.st \in ActiveStates
      BY DEF InfoRow
    <3>7. Active(t)'
      BY <3>0, <3>2 DEF Active
    <3>3. AfterSave(t, n) \in {Busy("work", t, n), Busy("next", t, n), Idle}
      BY DEF AfterSave
    <3>4. CASE worker' = [worker EXCEPT ![w] = Busy("work", t, n)]
      <4>1. View(u, i) \/ (t = u /\ n = i)
        BY <1>1, <1>8, <2>2, <3>4, BusyViews
      <4> QED
        BY <3>2, <3>7, <4>1
    <3>5. CASE worker' = [worker EXCEPT ![w] = Busy("next", t, n)]
      <4>1. View(u, i) \/ (t = u /\ n = i)
        BY <1>1, <1>8, <2>2, <3>5, BusyViews
      <4> QED
        BY <3>2, <3>7, <4>1
    <3> QED
      BY <1>7, <2>2, <3>1, <3>3, <3>4, <3>5
  <2> QED
    BY <2>3, <2>4
<1>9. ASSUME NEW w \in Workers, WorkerStep(w) PROVE Goal
  <2>1. CASE AcceptCancel(w)
    BY <1>7, <2>1 DEF AcceptCancel, CancelTask
  <2>2. CASE Work(w)
    <3>1. View(worker[w].task, worker[w].info)
      BY <2>2, HolderHasTask DEF Work
    <3>2. PICK t, info : t = worker[w].task /\ info = worker[w].info
      OBVIOUS
    <3>3. worker' = [worker EXCEPT ![w] = Busy("next", t, info)] /\ recover' = recover
      BY <2>2, <3>2 DEF Work
    <3>4. View(u, i) \/ (t = u /\ info = i)
      BY <1>1, <3>3, BusyViews
    <3> QED
      BY <3>1, <3>2, <3>4
  <2>3. ASSUME NEW n, Finishing(w, n) PROVE Goal
    BY <1>7, <2>3 DEF Finishing, FinishTask
  <2>4. CASE AcceptPause(w) /\ worker[w].info.st = "WAIT_PUBLISH"
    BY <1>7, <2>4 DEF AcceptPause
  <2>5. ASSUME NEW n, Saving(w, n) PROVE Goal
    <3>1. worker[w].task \in Uuids
      BY <2>5, HolderHasTask DEF Saving, Advances
    <3> QED
      BY <1>8, <2>5, <3>1 DEF Saving
  <2> QED
    BY <1>1, <1>9, <2>1, <2>2, <2>3, <2>4, <2>5, AcceptKinds DEF Resting
<1>10. ASSUME NEW w \in Workers, WorkerFails(w) PROVE Goal
  BY <1>7, <1>10 DEF WorkerFails
<1>11. ASSUME NEW t \in Uuids, TimePasses(t) PROVE Goal
  BY <1>2, <1>11 DEF TimePasses
<1>12. ASSUME NEW a \in Admins, NEW x, x.todo = {}, recover' = [recover EXCEPT ![a] = x],
              worker' = worker
       PROVE  Goal
  BY <1>1, <1>12, RecoverViews
<1>13. ASSUME NEW a \in Admins, AdminCrash(a) PROVE Goal
  BY <1>1, <1>13 DEF AdminCrash, View, Idle
<1>14. ASSUME NEW a \in Admins, AdminRestart(a) PROVE Goal
  <2> DEFINE x == [up |-> TRUE, alive |-> TRUE, todo |-> {}]
  <2>1. recover' = [recover EXCEPT ![a] = x] /\ worker' = worker
    BY <1>14 DEF AdminRestart
  <2> QED
    BY <1>12, <2>1
<1>15. ASSUME NEW a \in Admins, RecoverFails(a) PROVE Goal
  <2> DEFINE x == [up |-> TRUE, alive |-> FALSE, todo |-> {}]
  <2>1. recover' = [recover EXCEPT ![a] = x] /\ worker' = worker
    BY <1>15 DEF RecoverFails
  <2> QED
    BY <1>12, <2>1
<1>16. ASSUME NEW a \in Admins, RecoverTick(a) PROVE Goal
  <2> DEFINE todo == {<<t, status[t]>> : t \in {v \in NotOperated : NeedRecover(v)}}
             x == [up |-> TRUE, alive |-> NotOperated # {}, todo |-> todo]
  <2>1. recover' = [recover EXCEPT ![a] = x] /\ worker' = worker /\ status' = status
    BY <1>16 DEF RecoverTick
  <2>2. View(u, i) \/ <<u, i>> \in x.todo
    <3> HIDE DEF x
    <3> QED
      BY <1>1, <2>1, RecoverViews
  <2>3. ASSUME <<u, i>> \in todo PROVE Active(u) /\ i = status[u]
    <3>1. NeedRecover(u) /\ i = status[u]
      BY <2>3
    <3> QED
      BY <3>1 DEF NeedRecover, Active, ActiveStates
  <2> QED
    BY <2>1, <2>2, <2>3 DEF Active
<1>17. ASSUME NEW a \in Admins, NEW w \in Workers, RecoverTask(a, w) PROVE Goal
  <2>1. PICK r \in recover[a].todo :
          /\ recover' = [recover EXCEPT ![a] =
                [up |-> TRUE, alive |-> TRUE, todo |-> recover[a].todo \ {r}]]
          /\ worker' = [worker EXCEPT ![w] = Busy("next", r[1], r[2])]
    BY <1>17 DEF RecoverTask
  <2>2. recover[a].todo \in SUBSET (Uuids \X InfoRow)
    BY <1>1 DEF RecoverState
  <2>3. r = <<r[1], r[2]>>
    BY <2>1, <2>2
  <2>4. CASE \E b \in Admins : <<u, i>> \in recover'[b].todo
    <3>1. PICK b \in Admins : <<u, i>> \in recover'[b].todo
      BY <2>4
    <3>2. <<u, i>> \in recover[b].todo
      BY <1>1, <2>1, <3>1
    <3> QED
      BY <3>2 DEF View
  <2>5. ASSUME NEW v \in Workers, worker'[v].pc # "idle", worker'[v].task = u, worker'[v].info = i
        PROVE  View(u, i)
    <3>1. CASE v # w
      BY <1>1, <2>1, <2>5, <3>1 DEF View
    <3>2. CASE v = w
      <4>1. r[1] = u /\ r[2] = i
        BY <1>1, <2>1, <2>5, <3>2 DEF Busy
      <4> QED
        BY <2>3, <4>1 DEF View
    <3> QED
      BY <3>1, <3>2
  <2> QED
    BY <2>4, <2>5 DEF View
<1> QED
  BY <1>3, <1>4, <1>5, <1>6, <1>9, <1>10, <1>11, <1>13, <1>14, <1>15, <1>16, <1>17
     DEF Next, GreyStep, PauseTask, ContinueTask, CancelRequest
-----------------------------------------------------------------------------
(* How the row of a task changes.                                            *)

\* Before there is a task its row is written only by its creation.
LEMMA NewSteps ==
    ASSUME TasksInv, [Next]_vars, NEW u \in Uuids, New(u)
    PROVE  \/ status'[u] = status[u] /\ taskConfig'[u] = taskConfig[u]
           \/ /\ status'[u].st = "DRAFT"
              /\ status'[u].fin = taskConfig'[u].first - 1
           \/ status'[u].st = "NONE"
           \/ /\ status[u].st = "DRAFT" /\ status'[u].st = "PUBLISHING"
              /\ status'[u].fin = status[u].fin /\ taskConfig'[u].first = taskConfig[u].first
<1> DEFINE Goal ==
           \/ status'[u] = status[u] /\ taskConfig'[u] = taskConfig[u]
           \/ /\ status'[u].st = "DRAFT"
              /\ status'[u].fin = taskConfig'[u].first - 1
           \/ status'[u].st = "NONE"
           \/ /\ status[u].st = "DRAFT" /\ status'[u].st = "PUBLISHING"
              /\ status'[u].fin = status[u].fin /\ taskConfig'[u].first = taskConfig[u].first
<1>1. GreyInv /\ status \in [Uuids -> StatusRow] /\ taskConfig \in [Uuids -> ConfigOfTask]
  BY DEF TasksInv, GreyInv, GreyTypeOK
<1>2. ASSUME NEW t \in Uuids, NEW F, NEW option, BatchCreateCheck(t, F, option) PROVE Goal
  <2>1. CASE u # t
    BY <1>1, <1>2, <2>1 DEF BatchCreateCheck
  <2>2. CASE u = t
    BY <1>1, <1>2, <2>2 DEF BatchCreateCheck, Info
  <2> QED
    BY <2>1, <2>2
<1>3. ASSUME NEW t \in Uuids, NEW w \in Workers, BatchCreate(t, w) PROVE Goal
  <2>1. CASE u # t
    BY <1>1, <1>3, <2>1 DEF BatchCreate
  <2>2. CASE u = t
    BY <1>1, <1>3, <2>2 DEF BatchCreate, Info, NoTask
  <2> QED
    BY <2>1, <2>2
<1>4. ASSUME NEW w \in Workers, NEW n, Saving(w, n) PROVE Goal
  <2>1. worker[w].task \in Uuids /\ worker[w].task # u
    BY <1>4, HolderHasTask DEF Saving, Advances
  <2> QED
    BY <1>1, <1>4, <2>1 DEF Saving, UpdateTask
<1>5. ASSUME NEW w \in Workers, NEW n, Finishing(w, n) PROVE Goal
  <2>1. worker[w].task \in Uuids /\ worker[w].task # u
    BY <1>5, HolderHasTask DEF Finishing, Advances
  <2> QED
    BY <1>1, <1>5, <2>1 DEF Finishing, FinishTask
<1>6. ASSUME NEW w \in Workers, AcceptCancel(w) PROVE Goal
  <2>1. worker[w].task \in Uuids /\ worker[w].task # u
    BY <1>6, HolderHasTask DEF AcceptCancel
  <2> QED
    BY <1>1, <1>6, <2>1 DEF AcceptCancel, CancelTask
<1> QED
  BY <1>1, <1>2, <1>3, <1>4, <1>5, <1>6, StepKinds DEF Quiet

\* A task under way or over changes by a save, a finish or a cancellation, and
\* the compare-and-swap of the first two hits its rows.
LEMMA StatusSteps ==
    ASSUME TasksInv, [Next]_vars, NEW u \in Uuids, ~New(u), status'[u] # status[u]
    PROVE  \/ \E w \in Workers :
                 /\ Saving(w, status'[u]) /\ worker[w].task = u
                 /\ Held(u, status'[u]) # {}
           \/ \E w \in Workers :
                 /\ Finishing(w, status'[u]) /\ worker[w].task = u
                 /\ taskConfig[u].files \subseteq Held(u, status'[u])
           \/ status'[u].st = "CANCEL" /\ ~Terminal(u)
<1> DEFINE Goal ==
           \/ \E w \in Workers :
                 /\ Saving(w, status'[u]) /\ worker[w].task = u
                 /\ Held(u, status'[u]) # {}
           \/ \E w \in Workers :
                 /\ Finishing(w, status'[u]) /\ worker[w].task = u
                 /\ taskConfig[u].files \subseteq Held(u, status'[u])
           \/ status'[u].st = "CANCEL" /\ ~Terminal(u)
<1>1. GreyInv /\ status \in [Uuids -> StatusRow]
  BY DEF TasksInv, GreyInv, GreyTypeOK
<1>2. ASSUME NEW t \in Uuids, NEW F, NEW option, BatchCreateCheck(t, F, option) PROVE Goal
  BY <1>1, <1>2 DEF BatchCreateCheck, New
<1>3. ASSUME NEW t \in Uuids, NEW w \in Workers, BatchCreate(t, w) PROVE Goal
  BY <1>1, <1>3 DEF BatchCreate, New
<1>4. ASSUME NEW w \in Workers, NEW n, Saving(w, n) PROVE Goal
  <2>1. worker[w].task \in Uuids
    BY <1>4, HolderHasTask DEF Saving, Advances
  <2>2. MaySave(worker[w].task, n) /\ status' = [status EXCEPT ![worker[w].task] = n]
    BY <1>4 DEF Saving, UpdateTask
  <2>3. worker[w].task = u /\ status'[u] = n
    BY <1>1, <2>1, <2>2
  <2> QED
    BY <1>4, <2>2, <2>3 DEF MaySave
<1>5. ASSUME NEW w \in Workers, NEW n, Finishing(w, n) PROVE Goal
  <2>1. worker[w].task \in Uuids
    BY <1>5, HolderHasTask DEF Finishing, Advances
  <2>2. /\ taskConfig[worker[w].task].files \subseteq Held(worker[w].task, n)
        /\ status' = [status EXCEPT ![worker[w].task] = n]
    BY <1>5 DEF Finishing, FinishTask
  <2>3. worker[w].task = u /\ status'[u] = n
    BY <1>1, <2>1, <2>2
  <2> QED
    BY <1>5, <2>2, <2>3
<1>6. ASSUME NEW w \in Workers, AcceptCancel(w) PROVE Goal
  BY <1>1, <1>6 DEF AcceptCancel, CancelTask, Info
<1> QED
  BY <1>1, <1>2, <1>3, <1>4, <1>5, <1>6, StepKinds DEF Quiet

\* No row becomes new again once there is a task.
LEMMA NewWasNew ==
    ASSUME TasksInv, [Next]_vars, NEW u \in Uuids, New(u)'
    PROVE  New(u)
<1>1. CASE status'[u] = status[u]
  BY <1>1 DEF New
<1>2. CASE ~New(u) /\ status'[u] # status[u]
  <2>1. \/ status'[u] \in InfoRow
        \/ status'[u].st \in {"FINISH", "CANCEL"}
    BY <1>2, StatusSteps DEF Saving, Finishing
  <2> QED
    BY <2>1 DEF New, InfoRow, ActiveStates
<1> QED
  BY <1>1, <1>2

\* Leaked rows stay for ever, and the files of a task are fixed.
LEMMA LeakedStay ==
    ASSUME TasksInv, [Next]_vars, NEW u \in Uuids, ~New(u)
    PROVE  Leaked(u)' = Leaked(u) /\ taskConfig'[u] = taskConfig[u]
<1> DEFINE Goal == Leaked(u)' = Leaked(u) /\ taskConfig'[u] = taskConfig[u]
<1>1. /\ GreyInv /\ taskConfig \in [Uuids -> ConfigOfTask]
      /\ taskConfig[u].files \in SUBSET Files /\ u # Free
  BY FilesOfTask DEF TasksInv, GreyInv, GreyTypeOK
<1>2. ASSUME taskConfig'[u] = taskConfig[u],
             \A f \in Files \ taskConfig[u].files : mapping'[f].uuid = u <=> mapping[f].uuid = u
      PROVE  Goal
  BY <1>1, <1>2 DEF Leaked, Locks
<1>3. ASSUME NEW t \in Uuids, NEW F, NEW option, BatchCreateCheck(t, F, option) PROVE Goal
  <2>1. u # t
    BY <1>3 DEF BatchCreateCheck, New
  <2> QED
    BY <1>1, <1>2, <1>3, <2>1 DEF BatchCreateCheck, applyVars
<1>4. ASSUME NEW t \in Uuids, NEW w \in Workers, BatchCreate(t, w) PROVE Goal
  <2>1. u # t
    BY <1>4 DEF BatchCreate, New
  <2>2. \A f \in Inserted(t) : mapping[f].uuid # u
    BY <1>1 DEF Inserted, LockFree
  <2>3. taskConfig'[u] = taskConfig[u]
    BY <1>1, <1>4, <2>1 DEF BatchCreate
  <2>4. \A f \in Files : mapping'[f].uuid = u <=> mapping[f].uuid = u
    BY <1>4, <2>1, <2>2 DEF BatchCreate
  <2> QED
    BY <1>2, <2>3, <2>4
<1>5. ASSUME NEW w \in Workers, NEW n, Saving(w, n) PROVE Goal
  <2>1. /\ taskConfig' = taskConfig
        /\ \A f \in Files : mapping'[f].uuid = mapping[f].uuid
    BY <1>5 DEF Saving, UpdateTask, Held, Locks
  <2> QED
    BY <1>2, <2>1
<1>6. ASSUME NEW w \in Workers, NEW n, Finishing(w, n) PROVE Goal
  <2>1. worker[w].task \in Uuids
    BY <1>6, HolderHasTask DEF Finishing, Advances
  <2>2. taskConfig' = taskConfig
    BY <1>6 DEF Finishing, FinishTask
  <2>3. \A f \in Files \ taskConfig[u].files : mapping'[f].uuid = u <=> mapping[f].uuid = u
    <3>1. CASE UNCHANGED mapping
      BY <3>1
    <3>2. CASE ~UNCHANGED mapping
      <4>1. /\ taskConfig[worker[w].task].files \subseteq Held(worker[w].task, n)
            /\ mapping' = [f \in Files |->
                  IF f \in taskConfig[worker[w].task].files THEN NoLock ELSE mapping[f]]
        BY <1>6, <3>2 DEF Finishing, FinishTask, Unlock
      <4>2. \A f \in taskConfig[worker[w].task].files : mapping[f].uuid = worker[w].task
        BY <4>1 DEF Held, Locks
      <4> QED
        BY <1>1, <4>1, <4>2 DEF NoLock
    <3> QED
      BY <3>1, <3>2
  <2> QED
    BY <1>2, <2>2, <2>3
<1>7. ASSUME NEW w \in Workers, AcceptCancel(w) PROVE Goal
  <2>1. taskConfig' = taskConfig
    BY <1>7 DEF AcceptCancel, CancelTask
  <2>2. \A f \in Files \ taskConfig[u].files : mapping'[f].uuid = u <=> mapping[f].uuid = u
    BY <1>1, <1>7 DEF AcceptCancel, CancelTask, Unlock, NoLock, Locks
  <2> QED
    BY <1>2, <2>1, <2>2
<1>8. CASE Quiet
  BY <1>2, <1>8 DEF Quiet
<1> QED
  BY <1>1, <1>3, <1>4, <1>5, <1>6, <1>7, <1>8, StepKinds

\* The optimistic lock: whoever advances a task without leaked rows has seen it
\* as it is.
LEMMA CurrentView ==
    ASSUME TasksInv, [Next]_vars, NEW u \in Uuids, ~New(u), Leaked(u) = {},
           status'[u] # status[u], status'[u].st # "CANCEL"
    PROVE  /\ Active(u)
           /\ \E w \in Workers :
                 /\ worker[w].pc # "idle" /\ worker[w].task = u /\ worker[w].info = status[u]
                 /\ Advances(w, status'[u])
<1>1. GreyInv /\ GreyTypeOK /\ Rows(u) /\ Seen(u) /\ Follows(u) /\ status \in [Uuids -> StatusRow]
  BY DEF TasksInv, GreyInv, GreyTypeOK
<1>2. taskConfig[u].files # {}
  BY <1>1 DEF Rows, New
<1>3. PICK w \in Workers :
          /\ Advances(w, status'[u]) /\ worker[w].task = u
          /\ Held(u, status'[u]) # {}
  BY <1>2, StatusSteps DEF Saving, Finishing
<1>4. worker[w].pc # "idle" /\ worker[w].info \in InfoRow /\ View(u, worker[w].info)
  BY <1>3, HolderHasTask DEF Advances
<1>5. PICK g \in Held(u, status'[u]) : TRUE
  BY <1>3
<1>6. g \in Locks(u) /\ g \in taskConfig[u].files /\ mapping[g].lv = status'[u].lv - 1
  BY <1>5 DEF Held, Leaked
<1>7. Active(u) /\ mapping[g] = [uuid |-> u, lv |-> status[u].lv]
  BY <1>1, <1>6 DEF Follows
<1>8. worker[w].info.lv = status[u].lv
  <2>1. status'[u].lv = worker[w].info.lv + 1 /\ worker[w].info.lv \in Nat
    BY <1>3, <1>4 DEF Advances, InfoRow
  <2> QED
    BY <1>6, <1>7, <2>1
<1>9. worker[w].info = status[u]
  BY <1>1, <1>4, <1>7, <1>8 DEF Seen
<1> QED
  BY <1>3, <1>4, <1>7, <1>9
-----------------------------------------------------------------------------
(* Nobody holds more than the task says.                                     *)

LEMMA SeenStep ==
    ASSUME TasksInv, [Next]_vars, NEW u \in Uuids
    PROVE  Seen(u)'
<1>1. /\ GreyTypeOK /\ Seen(u) /\ status \in [Uuids -> StatusRow]
  BY DEF TasksInv, GreyInv, GreyTypeOK
<1>2. ASSUME New(u)', NEW i \in InfoRow PROVE ~View(u, i)'
  <2>1. New(u)
    BY <1>2, NewWasNew
  <2>2. ~View(u, i) /\ ~Active(u)'
    BY <1>1, <1>2, <2>1 DEF Seen, New, Active, ActiveStates
  <2> QED
    BY <2>2, NewViews
<1>3. ASSUME Leaked(u)' = {}, Active(u)', NEW i \in InfoRow, View(u, i)'
      PROVE  /\ i.lv <= status'[u].lv /\ i.fin <= status'[u].fin
             /\ i.lv = status'[u].lv => i = status'[u]
  <2>1. i.lv \in Nat /\ i.fin \in Int
    BY DEF InfoRow
  <2>2. CASE i = status'[u]
    BY <2>1, <2>2
  <2>3. CASE i # status'[u]
    <3>1. View(u, i)
      BY <1>3, <2>3, NewViews
    <3>2. ~New(u)
      BY <1>1, <3>1 DEF Seen
    <3>3. Leaked(u) = {}
      BY <1>3, <3>2, LeakedStay
    <3>4. CASE status'[u] = status[u]
      <4>1. Active(u)
        BY <1>3, <3>4 DEF Active
      <4> QED
        BY <1>1, <3>1, <3>3, <3>4, <4>1 DEF Seen
    <3>5. CASE status'[u] # status[u]
      <4>1. status'[u].st # "CANCEL"
        BY <1>3 DEF Active, ActiveStates
      <4>2. Active(u)
        BY <3>2, <3>3, <3>5, <4>1, CurrentView
      <4>3. PICK w \in Workers : worker[w].info = status[u] /\ Advances(w, status'[u])
        BY <3>2, <3>3, <3>5, <4>1, CurrentView
      <4>4. status[u].lv \in Nat /\ status[u].fin \in Int
        BY <1>1 DEF StatusRow
      <4>5. status'[u].lv = status[u].lv + 1 /\ status'[u].fin \in {status[u].fin, status[u].fin + 1}
        BY <4>3 DEF Advances
      <4>6. i.lv <= status[u].lv /\ i.fin <= status[u].fin
        BY <1>1, <3>1, <3>3, <4>2 DEF Seen
      <4> QED
        BY <2>1, <4>4, <4>5, <4>6
    <3> QED
      BY <3>4, <3>5
  <2> QED
    BY <2>2, <2>3
<1> QED
  BY <1>2, <1>3 DEF Seen
-----------------------------------------------------------------------------
(* Batches.                                                                  *)

\* The next batch of a StatusInfo somebody holds is the only one pushed.
LEMMA PreparedSteps ==
    ASSUME TasksInv, [Next]_vars, NEW u \in Uuids
    PROVE  \/ prepared'[u] = prepared[u]
           \/ \E i \in InfoRow : View(u, i) /\ prepared'[u] = prepared[u] \cup {i.fin + 1}
<1> DEFINE Goal ==
           \/ prepared'[u] = prepared[u]
           \/ \E i \in InfoRow : View(u, i) /\ prepared'[u] = prepared[u] \cup {i.fin + 1}
<1>1. /\ prepared \in [Uuids -> SUBSET (0..Batches)]
      /\ recover \in [Admins -> RecoverState]
  BY DEF TasksInv, GreyInv, GreyTypeOK
<1>2. CASE UNCHANGED prepared
  BY <1>2
<1>3. CASE EditStep \/ UNCHANGED vars
  BY <1>3 DEF EditStep, vars, greyVars
<1>4. ASSUME NEW t \in Uuids, NEW F, NEW option, BatchCreateCheck(t, F, option) PROVE Goal
  BY <1>4 DEF BatchCreateCheck
<1>5. ASSUME NEW t \in Uuids, NEW w \in Workers,
             BatchCreate(t, w) \/ PauseTask(w, t) \/ ContinueTask(w, t) \/ CancelRequest(w, t)
      PROVE  Goal
  BY <1>5 DEF BatchCreate, PauseTask, ContinueTask, CancelRequest, OperatorRequest
<1>6. ASSUME NEW w \in Workers, WorkerStep(w) PROVE Goal
  <2>1. CASE Work(w)
    <3>1. /\ worker[w].task \in Uuids /\ worker[w].info \in InfoRow
          /\ View(worker[w].task, worker[w].info)
      BY <2>1, HolderHasTask DEF Work
    <3>2. prepared' = [prepared EXCEPT ![worker[w].task] = @ \cup {worker[w].info.fin + 1}]
      BY <2>1 DEF Work, PreparePush
    <3>3. CASE worker[w].task = u
      BY <1>1, <3>1, <3>2, <3>3
    <3>4. CASE worker[w].task # u
      BY <1>1, <3>2, <3>4
    <3> QED
      BY <3>3, <3>4
  <2> QED
    BY <1>6, <2>1 DEF WorkerStep, AcceptNext, AcceptPause, AcceptCancel, UpdateTask, FinishTask, CancelTask
<1>7. ASSUME NEW w \in Workers, WorkerFails(w) PROVE Goal
  BY <1>7 DEF WorkerFails
<1>8. ASSUME NEW t \in Uuids, TimePasses(t) PROVE Goal
  BY <1>8 DEF TimePasses
<1>9. ASSUME NEW a \in Admins,
             AdminCrash(a) \/ AdminRestart(a) \/ RecoverTick(a) \/ RecoverFails(a)
      PROVE  Goal
  BY <1>9 DEF AdminCrash, AdminRestart, RecoverTick, RecoverFails
<1>10. ASSUME NEW a \in Admins, NEW w \in Workers, RecoverTask(a, w) PROVE Goal
  <2>1. PICK r \in recover[a].todo :
          IF r[2].st = "PUBLISHING" THEN PreparePush(r[1], r[2]) ELSE UNCHANGED prepared
    BY <1>10 DEF RecoverTask
  <2>2. recover[a].todo \in SUBSET (Uuids \X InfoRow)
    BY <1>1 DEF RecoverState
  <2>3. r[1] \in Uuids /\ r[2] \in InfoRow /\ r = <<r[1], r[2]>>
    BY <2>1, <2>2
  <2>4. View(r[1], r[2])
    BY <2>1, <2>3 DEF View
  <2>5. CASE prepared' = [prepared EXCEPT ![r[1]] = @ \cup {r[2].fin + 1}]
    <3>1. CASE r[1] = u
      BY <1>1, <2>3, <2>4, <2>5, <3>1
    <3>2. CASE r[1] # u
      BY <1>1, <2>5, <3>2
    <3> QED
      BY <3>1, <3>2
  <2> QED
    BY <2>1, <2>5 DEF PreparePush
<1> QED
  BY <1>3, <1>4, <1>5, <1>6, <1>7, <1>8, <1>9, <1>10 DEF Next, GreyStep

\* A thread that is about to count a batch has pushed it.
LEMMA CounterPushed ==
    ASSUME TasksInv, [Next]_vars, NEW u \in Uuids, NEW v \in Workers,
           worker'[v].pc = "next", worker'[v].task = u, worker'[v].info.st = "PUBLISHING"
    PROVE  worker'[v].info.fin + 1 \in prepared'[u]
<1> DEFINE Goal == worker'[v].info.fin + 1 \in prepared'[u]
<1>1. /\ GreyInv /\ worker \in [Workers -> WorkerState] /\ recover \in [Admins -> RecoverState]
      /\ prepared \in [Uuids -> SUBSET (0..Batches)] /\ Pushed(u) /\ Rows(u)
  BY DEF TasksInv, GreyInv, GreyTypeOK
<1>2. prepared[u] \subseteq prepared'[u]
  BY PreparedSteps
<1>3. CASE worker'[v] = worker[v]
  BY <1>1, <1>2, <1>3 DEF Pushed
<1>4. ASSUME NEW w \in Workers, NEW x, worker' = [worker EXCEPT ![w] = x],
             x.pc = "next" /\ x.task = u /\ x.info.st = "PUBLISHING" => x.info.fin + 1 \in prepared'[u]
      PROVE  Goal
  BY <1>1, <1>3, <1>4
<1>5. ASSUME NEW w \in Workers, worker' = [worker EXCEPT ![w] = Idle] PROVE Goal
  <2>1. Idle.pc # "next"
    BY DEF Idle
  <2> QED
    BY <1>4, <1>5, <2>1
<1>6. ASSUME NEW w \in Workers, NEW pc, NEW t, NEW info,
             worker' = [worker EXCEPT ![w] = Busy(pc, t, info)],
             pc = "next" /\ t = u /\ info.st = "PUBLISHING" => info.fin + 1 \in prepared'[u]
      PROVE  Goal
  <2>1. Busy(pc, t, info).pc = pc /\ Busy(pc, t, info).task = t /\ Busy(pc, t, info).info = info
    BY DEF Busy
  <2> QED
    BY <1>4, <1>6, <2>1
<1>7. CASE UNCHANGED worker
  BY <1>3, <1>7
<1>8. CASE EditStep \/ UNCHANGED vars
  BY <1>7, <1>8 DEF EditStep, vars, greyVars
<1>9. ASSUME NEW t \in Uuids, NEW F, NEW option, BatchCreateCheck(t, F, option) PROVE Goal
  BY <1>7, <1>9 DEF BatchCreateCheck
<1>10. ASSUME NEW t \in Uuids, NEW w \in Workers, BatchCreate(t, w) PROVE Goal
  <2>1. CASE CreateAborts(t)
    BY <1>7, <1>10, <2>1 DEF BatchCreate
  <2>2. CASE ~CreateAborts(t)
    <3>1. worker' = [worker EXCEPT ![w] = Busy("work", t, Info("PUBLISHING", status[t].fin, 0))]
      BY <1>10, <2>2 DEF BatchCreate
    <3> QED
      BY <1>6, <3>1
  <2> QED
    BY <2>1, <2>2
<1>11. ASSUME NEW t \in Uuids, NEW w \in Workers, NEW cmd, OperatorRequest(w, t, cmd),
              cmd = "next" => \E lockVersion \in offered[t] : status[t].lv = lockVersion
       PROVE  Goal
  <2>1. worker' = [worker EXCEPT ![w] = Busy(cmd, t, status[t])] /\ Active(t)
    BY <1>11 DEF OperatorRequest
  <2>2. Rows(t)
    BY DEF TasksInv
  <2>3. cmd = "next" => status[t].st = "WAIT_PUBLISH"
    BY <1>11, <2>1, <2>2 DEF Rows
  <2> QED
    BY <1>6, <2>1, <2>3
<1>12. ASSUME NEW t \in Uuids, NEW w \in Workers,
              PauseTask(w, t) \/ ContinueTask(w, t) \/ CancelRequest(w, t)
       PROVE  Goal
  BY <1>11, <1>12 DEF PauseTask, ContinueTask, CancelRequest
<1>13. ASSUME NEW w \in Workers, NEW t, NEW n, UpdateTask(w, t, n) PROVE Goal
  <2>1. CASE ~MaySave(t, n)
    BY <1>5, <1>13, <2>1 DEF UpdateTask
  <2>2. CASE MaySave(t, n)
    <3>1. worker' = [worker EXCEPT ![w] = AfterSave(t, n)]
      BY <1>13, <2>2 DEF UpdateTask
    <3>2. \/ AfterSave(t, n) = Busy("work", t, n)
          \/ AfterSave(t, n) = Busy("next", t, n) /\ n.st # "PUBLISHING"
          \/ AfterSave(t, n) = Idle
      BY DEF AfterSave
    <3>3. CASE AfterSave(t, n) = Busy("work", t, n)
      BY <1>6, <3>1, <3>3
    <3>4. CASE AfterSave(t, n) = Busy("next", t, n) /\ n.st # "PUBLISHING"
      BY <1>6, <3>1, <3>4
    <3> QED
      BY <1>5, <3>1, <3>2, <3>3, <3>4
  <2> QED
    BY <2>1, <2>2
<1>14. ASSUME NEW w \in Workers, WorkerStep(w) PROVE Goal
  <2>1. CASE Work(w)
    <3>1. PICK t, info : t = worker[w].task /\ info = worker[w].info
      OBVIOUS
    <3>2. /\ worker' = [worker EXCEPT ![w] = Busy("next", t, info)]
          /\ prepared' = [prepared EXCEPT ![t] = @ \cup {info.fin + 1}]
      BY <2>1, <3>1 DEF Work, PreparePush
    <3>3. t = u => info.fin + 1 \in prepared'[u]
      BY <1>1, <3>2
    <3> QED
      BY <1>6, <3>2, <3>3
  <2>2. CASE AcceptNext(w) \/ AcceptPause(w)
    BY <1>5, <1>13, <2>2 DEF AcceptNext, AcceptPause, FinishTask
  <2>3. CASE AcceptCancel(w)
    BY <1>5, <2>3 DEF AcceptCancel, CancelTask
  <2> QED
    BY <1>14, <2>1, <2>2, <2>3 DEF WorkerStep
<1>15. ASSUME NEW w \in Workers, WorkerFails(w) PROVE Goal
  BY <1>5, <1>15 DEF WorkerFails
<1>16. ASSUME NEW t \in Uuids, TimePasses(t) PROVE Goal
  BY <1>7, <1>16 DEF TimePasses
<1>17. ASSUME NEW a \in Admins, AdminRestart(a) \/ RecoverTick(a) \/ RecoverFails(a) PROVE Goal
  BY <1>7, <1>17 DEF AdminRestart, RecoverTick, RecoverFails
<1>18. ASSUME NEW a \in Admins, AdminCrash(a) PROVE Goal
  <2>1. worker'[v] = Idle \/ worker'[v] = worker[v]
    BY <1>18 DEF AdminCrash
  <2> QED
    BY <1>3, <2>1 DEF Idle
<1>19. ASSUME NEW a \in Admins, NEW w \in Workers, RecoverTask(a, w) PROVE Goal
  <2>1. PICK r \in recover[a].todo :
          /\ worker' = [worker EXCEPT ![w] = Busy("next", r[1], r[2])]
          /\ IF r[2].st = "PUBLISHING" THEN PreparePush(r[1], r[2]) ELSE UNCHANGED prepared
    BY <1>19 DEF RecoverTask
  <2>2. r[1] = u /\ r[2].st = "PUBLISHING" => r[2].fin + 1 \in prepared'[u]
    BY <1>1, <2>1 DEF PreparePush
  <2> QED
    BY <1>6, <2>1, <2>2
<1> QED
  BY <1>8, <1>9, <1>10, <1>12, <1>14, <1>15, <1>16, <1>17, <1>18, <1>19 DEF Next, GreyStep

LEMMA PushedStep ==
    ASSUME TasksInv, [Next]_vars, NEW u \in Uuids
    PROVE  Pushed(u)'
<1>1. /\ GreyTypeOK /\ Seen(u) /\ Pushed(u) /\ Finished(u) /\ status \in [Uuids -> StatusRow]
      /\ taskConfig[u].first \in {0, 1} /\ prepared[u] \subseteq 0..Batches
      /\ Batches \in Nat
  BY DEF TasksInv, GreyInv, GreyTypeOK, ConfigOfTask
<1>2. status[u].fin \in -1..Batches
  BY <1>1 DEF StatusRow
<1>3. prepared[u] \subseteq prepared'[u]
  BY PreparedSteps
<1>4. New(u) => \A i \in InfoRow : ~View(u, i)
  BY <1>1 DEF Seen
<1>5. New(u) => prepared'[u] = {}
  BY <1>1, <1>4, PreparedSteps DEF Pushed
<1>6. ASSUME status'[u].st = "DRAFT" PROVE status'[u].fin = taskConfig'[u].first - 1
  <2>1. New(u)
    BY <1>6, NewWasNew DEF New
  <2> QED
    BY <1>1, <1>6, <2>1, NewSteps DEF Pushed
<1>7. ASSUME NEW i \in InfoRow, View(u, i)
      PROVE  taskConfig'[u].first..i.fin \subseteq prepared'[u]
  <2>1. taskConfig'[u] = taskConfig[u]
    BY <1>4, <1>7, LeakedStay
  <2>2. taskConfig[u].first..i.fin \subseteq prepared[u]
    BY <1>1, <1>7 DEF Pushed
  <2> QED
    BY <1>3, <2>1, <2>2
<1>8. ASSUME Active(u)' \/ status'[u].st = "FINISH"
      PROVE  taskConfig'[u].first..status'[u].fin \subseteq prepared'[u]
  <2>1. CASE New(u)
    <3>1. status'[u].st \notin {"NONE", "DRAFT"}
      BY <1>8 DEF Active, ActiveStates
    <3>2. /\ status[u].st = "DRAFT" /\ status'[u].fin = status[u].fin
          /\ taskConfig'[u].first = taskConfig[u].first
      BY <2>1, <3>1, NewSteps DEF New
    <3>3. status'[u].fin = taskConfig'[u].first - 1
      BY <1>1, <3>2 DEF Pushed
    <3>4. taskConfig'[u].first \in Int
      BY <1>1, <3>2
    <3> QED
      BY <3>3, <3>4
  <2>2. CASE ~New(u) /\ status'[u] = status[u]
    <3>1. Active(u) \/ status[u].st = "FINISH"
      BY <1>8, <2>2 DEF Active
    <3>2. taskConfig[u].first..status[u].fin \subseteq prepared[u]
      BY <1>1, <3>1 DEF Pushed
    <3> QED
      BY <1>3, <2>2, <3>2, LeakedStay
  <2>3. CASE ~New(u) /\ status'[u] # status[u]
    <3>1. status'[u].st # "CANCEL"
      BY <1>8 DEF Active, ActiveStates
    <3>2. PICK w \in Workers : worker[w].task = u /\ Advances(w, status'[u])
      BY <2>3, <3>1, StatusSteps DEF Saving, Finishing
    <3>3. worker[w].info \in InfoRow /\ View(u, worker[w].info)
      BY <3>2, HolderHasTask DEF Advances
    <3>4. taskConfig'[u].first..worker[w].info.fin \subseteq prepared'[u]
      BY <1>7, <3>3
    <3>5. taskConfig'[u].first \in {0, 1} /\ worker[w].info.fin \in Int
      BY <1>1, <2>3, <3>3, LeakedStay DEF InfoRow
    <3>6. CASE status'[u].fin = worker[w].info.fin
      BY <3>4, <3>6
    <3>7. CASE /\ status'[u].fin = worker[w].info.fin + 1
               /\ worker[w].pc = "next" /\ worker[w].info.st = "PUBLISHING"
      <4>1. worker[w].info.fin + 1 \in prepared'[u]
        BY <1>1, <1>3, <3>2, <3>7 DEF Pushed
      <4> QED
        BY <3>4, <3>5, <3>7, <4>1
    <3> QED
      BY <3>2, <3>6, <3>7 DEF Advances
  <2> QED
    BY <2>1, <2>2, <2>3
<1>9. ASSUME Active(u)' \/ status'[u].st = "FINISH", Leaked(u)' = {}, NEW b \in prepared'[u]
      PROVE  b <= status'[u].fin + 1
  <2>1. ~New(u)
    BY <1>5, <1>9
  <2>2. Leaked(u) = {}
    BY <1>9, <2>1, LeakedStay
  <2>3. ASSUME Active(u) \/ status[u].st = "FINISH"
        PROVE  b \in Int /\ b <= status[u].fin + 1
    <3>1. CASE b \in prepared[u]
      BY <1>1, <2>2, <2>3, <3>1 DEF Pushed
    <3>2. CASE b \notin prepared[u]
      <4>1. PICK i \in InfoRow : View(u, i) /\ b = i.fin + 1
        BY <3>2, PreparedSteps
      <4>2. i.fin \in -1..(Batches - 1)
        BY DEF InfoRow
      <4>3. CASE Active(u)
        <5>1. i.fin <= status[u].fin
          BY <1>1, <2>2, <4>1, <4>3 DEF Seen
        <5> QED
          BY <1>2, <4>1, <4>2, <5>1
      <4>4. CASE status[u].st = "FINISH"
        <5>1. status[u].fin = Batches
          BY <1>1, <4>4 DEF Finished
        <5> QED
          BY <1>1, <4>1, <4>2, <5>1
      <4> QED
        BY <2>3, <4>3, <4>4
    <3> QED
      BY <3>1, <3>2
  <2>4. CASE status'[u] = status[u]
    <3>1. Active(u) \/ status[u].st = "FINISH"
      BY <1>9, <2>4 DEF Active
    <3> QED
      BY <2>3, <2>4, <3>1
  <2>5. CASE status'[u] # status[u]
    <3>1. status'[u].st # "CANCEL"
      BY <1>9 DEF Active, ActiveStates
    <3>2. Active(u)
      BY <2>1, <2>2, <2>5, <3>1, CurrentView
    <3>3. status'[u].fin \in {status[u].fin, status[u].fin + 1}
      BY <2>1, <2>2, <2>5, <3>1, CurrentView DEF Advances
    <3> QED
      BY <1>2, <2>3, <3>2, <3>3
  <2> QED
    BY <2>4, <2>5
<1>10. ASSUME NEW i \in InfoRow, View(u, i)'
       PROVE  taskConfig'[u].first..i.fin \subseteq prepared'[u]
  BY <1>7, <1>8, <1>10, NewViews
<1>11. New(u)' => prepared'[u] = {}
  BY <1>5, NewWasNew
<1>12. \A w \in Workers :
          worker'[w].pc = "next" /\ worker'[w].task = u /\ worker'[w].info.st = "PUBLISHING" =>
              worker'[w].info.fin + 1 \in prepared'[u]
  BY CounterPushed
<1> QED
  BY <1>6, <1>8, <1>9, <1>10, <1>11, <1>12 DEF Pushed
-----------------------------------------------------------------------------
(* Finishing.                                                                *)

\* Snapshots are written once.
LEMMA SnapshotsStay ==
    ASSUME TasksInv, [Next]_vars, NEW f \in Files, NEW v \in Versions, snap[f][v].st = "PUBLISH"
    PROVE  snap'[f][v].st = "PUBLISH"
<1> DEFINE Goal == snap'[f][v].st = "PUBLISH"
<1>1. /\ GreyInv /\ snap \in [Files -> [Versions -> SnapshotRow]] /\ HasSnapshot(f, v)
      /\ cand \in [Files -> CandidateRow]
  BY DEF TasksInv, GreyInv, GreyTypeOK, ApplyTypeOK, HasSnapshot
<1>2. CASE UNCHANGED snap
  BY <1>2
<1>3. ASSUME NEW g \in Files, NEW x, NEW r, ~HasSnapshot(g, x), snap' = [snap EXCEPT ![g][x] = r]
      PROVE  Goal
  <2>1. CASE g # f
    BY <1>1, <1>3, <2>1
  <2>2. CASE g = f
    <3>1. x # v
      BY <1>1, <1>3, <2>2
    <3> QED
      BY <1>1, <1>3, <2>2, <3>1
  <2> QED
    BY <2>1, <2>2
<1>4. CASE EditStep
  <2>1. ASSUME NEW g \in Files, NEW x, NEW st, UpdateCandidate(g, x, st) PROVE Goal
    BY <1>3, <2>1 DEF UpdateCandidate
  <2>2. ASSUME NEW g \in Files, ApplyNew(g) PROVE Goal
    BY <1>3, <2>2 DEF ApplyNew
  <2>3. ASSUME NEW g \in Files, ApproveAndPublish(g) PROVE Goal
    <3>1. PICK x, r1, r2 : /\ ~HasSnapshot(g, x + 1) /\ ~HasSnapshot(g, x + 2)
                           /\ snap' = [snap EXCEPT ![g][x + 1] = r1, ![g][x + 2] = r2]
      BY <2>3 DEF ApproveAndPublish
    <3>2. CASE g # f
      BY <1>1, <3>1, <3>2
    <3>3. CASE g = f
      <4>1. x + 1 # v /\ x + 2 # v
        BY <1>1, <3>1, <3>3
      <4> QED
        BY <1>1, <3>1, <3>3, <4>1
    <3> QED
      BY <3>2, <3>3
  <2>4. ASSUME NEW g \in Files, NEW x \in Versions,
               \/ Apply(g, x) \/ ForceApply(g, x) \/ Approve(g, x) \/ Reject(g, x) \/ Cancel(g, x)
               \/ Publish(g, x) \/ Delete(g, x)
        PROVE  Goal
    BY <2>1, <2>4 DEF Apply, ForceApply, Approve, Reject, Cancel, Publish, Delete, ChangeStatusAndSave
  <2>5. ASSUME NEW S \in (SUBSET Files) \ {{}}, NEW x \in [S -> 0..MaxVersion],
               OneButtonBatchPublish(S, x)
        PROVE  Goal
    <3>1. CASE f \notin S
      BY <2>5, <3>1 DEF OneButtonBatchPublish
    <3>2. CASE f \in S
      <4>1. x[f] + 1 # v
        BY <1>1, <2>5, <3>2 DEF OneButtonBatchPublish, OneButtonAccepts
      <4>2. PICK y, r : y = x[f] + 1 /\ snap'[f] = [snap[f] EXCEPT ![y] = r]
        BY <2>5, <3>2 DEF OneButtonBatchPublish
      <4> QED
        BY <1>1, <4>1, <4>2
    <3> QED
      BY <3>1, <3>2
  <2> QED
    BY <1>4, <2>2, <2>3, <2>4, <2>5 DEF EditStep, ApplyQueueStep
<1>5. ASSUME NEW w \in Workers, NEW t, NEW n, FinishTask(w, t, n) PROVE Goal
  <2>1. CASE UNCHANGED snap
    BY <2>1
  <2>2. CASE ~UNCHANGED snap
    <3>1. /\ \A g \in taskConfig[t].files : Publishable(t, g)
          /\ snap' = [g \in Files |-> IF g \notin taskConfig[t].files THEN snap[g] ELSE
                  [snap[g] EXCEPT ![taskConfig[t].ver[g] + 1] = [based |-> cand[g].based, st |-> "PUBLISH"]]]
      BY <1>5, <2>2 DEF FinishTask, FilesToPublish
    <3>2. CASE f \notin taskConfig[t].files
      BY <3>1, <3>2
    <3>3. CASE f \in taskConfig[t].files
      <4>1. ~HasSnapshot(f, taskConfig[t].ver[f] + 1)
        BY <3>1, <3>3 DEF Publishable, Valid
      <4>2. PICK y, r : /\ y = taskConfig[t].ver[f] + 1
                        /\ snap'[f] = [snap[f] EXCEPT ![y] = r]
        BY <3>1, <3>3
      <4>3. y # v
        BY <1>1, <4>1, <4>2
      <4> QED
        BY <1>1, <4>2, <4>3
    <3> QED
      BY <3>2, <3>3
  <2> QED
    BY <2>1, <2>2
<1>6. ASSUME NEW w \in Workers, WorkerStep(w) PROVE Goal
  BY <1>2, <1>5, <1>6 DEF WorkerStep, AcceptNext, AcceptPause, AcceptCancel, Work, UpdateTask,
     CancelTask, applyVars
<1>7. CASE UNCHANGED vars
  BY <1>2, <1>7 DEF vars, applyVars
<1>8. ASSUME NEW t \in Uuids, NEW w \in Workers,
             BatchCreate(t, w) \/ PauseTask(w, t) \/ ContinueTask(w, t) \/ CancelRequest(w, t)
      PROVE  Goal
  BY <1>2, <1>8 DEF BatchCreate, PauseTask, ContinueTask, CancelRequest, OperatorRequest, applyVars
<1>9. ASSUME NEW t \in Uuids, TimePasses(t) PROVE Goal
  BY <1>2, <1>9 DEF TimePasses, applyVars
<1>10. ASSUME NEW w \in Workers, WorkerFails(w) PROVE Goal
  BY <1>2, <1>10 DEF WorkerFails, applyVars
<1>11. ASSUME NEW a \in Admins,
              AdminCrash(a) \/ AdminRestart(a) \/ RecoverTick(a) \/ RecoverFails(a)
       PROVE  Goal
  BY <1>2, <1>11 DEF AdminCrash, AdminRestart, RecoverTick, RecoverFails, applyVars
<1>12. ASSUME NEW a \in Admins, NEW w \in Workers, RecoverTask(a, w) PROVE Goal
  BY <1>2, <1>12 DEF RecoverTask, applyVars
<1>13. ASSUME NEW t \in Uuids, NEW F, NEW option, BatchCreateCheck(t, F, option) PROVE Goal
  BY <1>2, <1>13 DEF BatchCreateCheck, applyVars
<1> QED
  BY <1>4, <1>6, <1>7, <1>8, <1>9, <1>10, <1>11, <1>12, <1>13 DEF Next, GreyStep

\* doFinish goes through every file, or the transaction is rolled back.
LEMMA FinishedStep ==
    ASSUME TasksInv, [Next]_vars, NEW u \in Uuids
    PROVE  Finished(u)'
<1> SUFFICES ASSUME status'[u].st = "FINISH"
             PROVE  /\ status'[u].fin = Batches
                    /\ \A f \in taskConfig'[u].files :
                          /\ taskConfig'[u].ver[f] < MaxVersion
                          /\ snap'[f][taskConfig'[u].ver[f] + 1].st = "PUBLISH"
  BY DEF Finished
<1>1. /\ GreyTypeOK /\ Finished(u)
      /\ taskConfig[u] \in ConfigOfTask /\ taskConfig[u].files \in SUBSET Files
      /\ snap \in [Files -> [Versions -> SnapshotRow]] /\ MaxVersion \in Nat
  BY FilesOfTask DEF TasksInv, GreyInv, GreyTypeOK, ApplyTypeOK, ApplyQueueAssumption
<1>2. \A f \in Files : taskConfig[u].ver[f] \in 0..MaxVersion
  BY <1>1 DEF ConfigOfTask
<1>3. ~New(u)
  <2>1. CASE New(u)
    BY <2>1, NewSteps DEF New
  <2> QED
    BY <2>1
<1>4. taskConfig'[u] = taskConfig[u]
  BY <1>3, LeakedStay
<1>5. CASE status'[u] = status[u]
  <2>1. status[u].fin = Batches
    BY <1>1, <1>5 DEF Finished
  <2>2. ASSUME NEW f \in taskConfig[u].files
        PROVE  /\ taskConfig[u].ver[f] < MaxVersion
               /\ snap'[f][taskConfig[u].ver[f] + 1].st = "PUBLISH"
    <3>1. /\ taskConfig[u].ver[f] < MaxVersion
          /\ snap[f][taskConfig[u].ver[f] + 1].st = "PUBLISH"
      BY <1>1, <1>5 DEF Finished
    <3>2. f \in Files
      BY <1>1
    <3>3. taskConfig[u].ver[f] + 1 \in Versions
      BY <1>1, <1>2, <3>1, <3>2 DEF Versions
    <3> QED
      BY <3>1, <3>2, <3>3, SnapshotsStay
  <2> QED
    BY <1>4, <1>5, <2>1, <2>2
<1>6. CASE status'[u] # status[u]
  <2>1. PICK w \in Workers : Finishing(w, status'[u]) /\ worker[w].task = u
    BY <1>3, <1>6, StatusSteps DEF Saving, InfoRow, ActiveStates
  <2>2. FinishTask(w, u, status'[u]) /\ status'[u].fin = Batches
    BY <2>1 DEF Finishing
  <2>3. /\ \A f \in taskConfig[u].files : Publishable(u, f)
        /\ snap' = [f \in Files |-> IF f \notin taskConfig[u].files THEN snap[f] ELSE
              [snap[f] EXCEPT ![taskConfig[u].ver[f] + 1] = [based |-> cand[f].based, st |-> "PUBLISH"]]]
    BY <1>6, <2>2 DEF FinishTask, FilesToPublish
  <2>4. ASSUME NEW f \in taskConfig[u].files
        PROVE  /\ taskConfig[u].ver[f] < MaxVersion
               /\ snap'[f][taskConfig[u].ver[f] + 1].st = "PUBLISH"
    <3>1. taskConfig[u].ver[f] < MaxVersion
      BY <2>3 DEF Publishable, Valid
    <3>2. f \in Files
      BY <1>1
    <3>3. taskConfig[u].ver[f] + 1 \in Versions
      BY <1>1, <1>2, <3>1, <3>2 DEF Versions
    <3> QED
      BY <1>1, <2>3, <3>1, <3>2, <3>3
  <2> QED
    BY <1>4, <2>2, <2>4
<1> QED
  BY <1>5, <1>6
-----------------------------------------------------------------------------
(* The invariant and what follows from it.                                   *)

LEMMA TasksInitInv == GreyInit => TasksInv
<1> SUFFICES ASSUME GreyInit PROVE TasksInv
  OBVIOUS
<1>1. GreyInv
  BY GreyInitInv
<1>2. FreeRowsRest
  BY DEF GreyInit, ApplyInit, FreeRowsRest
<1>3. ASSUME NEW t \in Uuids PROVE Rows(t) /\ Seen(t) /\ Pushed(t) /\ Finished(t)
  <2>1. status[t].st = "NONE" /\ offered[t] = {} /\ prepared[t] = {}
    BY DEF GreyInit, NoTask, Info
  <2>2. ~Active(t) /\ ~Terminal(t)
    BY <2>1 DEF Active, ActiveStates, Terminal
  <2>3. Locks(t) = {}
    BY DEF GreyInit, ApplyInit, NoLock, Locks
  <2>4. \A w \in Workers : worker[w].pc = "idle"
    BY DEF GreyInit, Idle
  <2>5. \A a \in Admins : recover[a].todo = {}
    BY DEF GreyInit
  <2>6. \A i \in InfoRow : ~View(t, i)
    BY <2>4, <2>5 DEF View
  <2>7. Rows(t)
    BY <2>1, <2>2, <2>3 DEF Rows
  <2>8. Seen(t)
    BY <2>2, <2>6 DEF Seen
  <2>9. Pushed(t)
    BY <2>1, <2>2, <2>4, <2>6 DEF Pushed
  <2> QED
    BY <2>1, <2>7, <2>8, <2>9 DEF Finished
<1> QED
  BY <1>1, <1>2, <1>3 DEF TasksInv

LEMMA TasksStepInv == TasksInv /\ [Next]_vars => TasksInv'
<1> SUFFICES ASSUME TasksInv, [Next]_vars PROVE TasksInv'
  OBVIOUS
<1>1. GreyInv'
  BY GreyStepInv DEF TasksInv
<1> QED
  BY <1>1, FreeRowsStep, RowsStep, SeenStep, PushedStep, FinishedStep DEF TasksInv

\* What is known of rows, StatusInfos and batches holds in every state.
THEOREM TasksInvariant == Spec => []TasksInv
<1> QED
  BY TasksInitInv, TasksStepInv, PTL DEF Spec

\* Batch by batch: no thread, however stale, tells a batch before the one before
\* it is counted, and no batch is counted that was not told
\* (PublishingReleaseStatus, GreyReleaseRecoverTask).
THEOREM BatchesGoInOrder == Spec => []BatchesInOrder
<1>1. TasksInv => BatchesInOrder
  BY DEF TasksInv, Pushed, BatchesInOrder
<1> QED
  BY <1>1, TasksInvariant, PTL

\* A finished release went through all batches and published all its files
\* (finishTask, doFinish).
THEOREM FinishingPublishesAll == Spec => []FinishPublishesAll
<1>1. TasksInv => FinishPublishesAll
  <2> SUFFICES ASSUME TasksInv, NEW t \in Uuids, status[t].st = "FINISH",
                      NEW f \in taskConfig[t].files
               PROVE  /\ conf[f].ver > taskConfig[t].ver[f]
                      /\ snap[f][taskConfig[t].ver[f] + 1].st = "PUBLISH"
    BY DEF TasksInv, Finished, FinishPublishesAll
  <2>1. /\ ConfigIsLatestPublish /\ f \in Files /\ MaxVersion \in Nat
        /\ conf[f].ver \in Nat /\ taskConfig[t].ver[f] \in Nat
    BY FilesOfTask DEF TasksInv, GreyInv, GreyTypeOK, ApplyInv, ApplyTypeOK, ConfigRow,
       ConfigOfTask, ApplyQueueAssumption
  <2>2. /\ taskConfig[t].ver[f] < MaxVersion
        /\ snap[f][taskConfig[t].ver[f] + 1].st = "PUBLISH"
    BY DEF TasksInv, Finished
  <2>3. taskConfig[t].ver[f] + 1 \in Versions
    BY <2>1, <2>2 DEF Versions
  <2>4. taskConfig[t].ver[f] + 1 <= conf[f].ver
    BY <2>1, <2>2, <2>3 DEF ConfigIsLatestPublish
  <2> QED
    BY <2>1, <2>2, <2>4
<1> QED
  BY <1>1, TasksInvariant, PTL

\* Finished means finished: no thread that read the task before takes a finished
\* or cancelled one up again (updateTask, cancelTask).
THEOREM OverStaysOver == Spec => OverIsOver
<1>1. ASSUME TasksInv, [Next]_vars
      PROVE  [\A t \in Uuids : Terminal(t) /\ Leaked(t) = {} => status'[t] = status[t]]_vars
  <2> SUFFICES ASSUME NEW t \in Uuids, Terminal(t), Leaked(t) = {}
               PROVE  status'[t] = status[t]
    OBVIOUS
  <2>1. ~New(t) /\ ~Active(t)
    BY DEF Terminal, New, Active, ActiveStates
  <2>2. CASE status'[t] # status[t]
    <3>1. status'[t].st = "CANCEL"
      BY <1>1, <2>1, <2>2, CurrentView
    <3> QED
      BY <1>1, <2>1, <2>2, <3>1, StatusSteps DEF Saving, Finishing, InfoRow, ActiveStates
  <2> QED
    BY <2>2
<1> QED
  BY <1>1, TasksInvariant, PTL DEF Spec, OverIsOver

\* The optimistic lock of a release: only a thread that has seen the task as it is
\* advances it (lock_version in updateTask and finishTask).
THEOREM CurrentViewsAdvance == Spec => OnlyCurrentViewAdvances
<1>1. ASSUME TasksInv, [Next]_vars
      PROVE  [\A t \in Uuids :
                Leaked(t) = {} /\ Active(t) /\ status'[t] # status[t] /\ status'[t].st # "CANCEL" =>
                   \E w \in Workers : worker[w].pc # "idle" /\ worker[w].task = t
                                     /\ worker[w].info = status[t]]_vars
  <2> SUFFICES ASSUME NEW t \in Uuids, Leaked(t) = {}, Active(t), status'[t] # status[t],
                      status'[t].st # "CANCEL"
               PROVE  \E w \in Workers : worker[w].pc # "idle" /\ worker[w].task = t
                                        /\ worker[w].info = status[t]
    OBVIOUS
  <2>1. ~New(t)
    BY DEF New, Active, ActiveStates
  <2> QED
    BY <1>1, <2>1, CurrentView
<1> QED
  BY <1>1, TasksInvariant, PTL DEF Spec, OnlyCurrentViewAdvances
-----------------------------------------------------------------------------
(* Who writes the published version of a file.                               *)

LEMMA EditConfig ==
    ASSUME conf \in [Files -> ConfigRow], EditStep, NEW f \in Files, conf'[f].ver # conf[f].ver
    PROVE  LockFree(f)
<1>1. conf \in [Files -> ConfigRow]
  OBVIOUS
<1>2. CASE UNCHANGED conf
  BY <1>2
<1>3. ASSUME NEW g \in Files, NEW r, LockFree(g), conf' = [conf EXCEPT ![g] = r] PROVE LockFree(f)
  <2>1. CASE g = f
    BY <1>3, <2>1
  <2>2. CASE g # f
    BY <1>1, <1>3, <2>2
  <2> QED
    BY <2>1, <2>2
<1>4. ASSUME NEW g \in Files, conf' = [conf EXCEPT ![g].inuse = FALSE] PROVE LockFree(f)
  BY <1>1, <1>4 DEF ConfigRow
<1>5. ASSUME NEW S \in SUBSET Files, NEW v \in [S -> 0..MaxVersion], OneButtonBatchPublish(S, v)
      PROVE  LockFree(f)
  BY <1>5 DEF OneButtonBatchPublish, OneButtonAccepts
<1> QED
  BY <1>2, <1>3, <1>4, <1>5 DEF EditStep, ApplyQueueStep, ApplyNew, ApproveAndPublish, Apply,
     ForceApply, Approve, Reject, Cancel, Publish, Delete

LEMMA ConfigSteps ==
    ASSUME GreyInv, [Next]_vars
    PROVE  \/ EditStep
           \/ UNCHANGED conf
           \/ \E w \in Workers : \E n : Finishing(w, n)
<1>1. CASE UNCHANGED vars
  BY <1>1 DEF vars, applyVars
<1>2. CASE GreyStep
  <2>1. ASSUME NEW w \in Workers, WorkerStep(w)
        PROVE  UNCHANGED conf \/ \E n : Finishing(w, n)
    BY <2>1, AcceptKinds DEF Saving, UpdateTask, AcceptCancel, CancelTask, Resting, Work,
       AcceptPause, applyVars
  <2> QED
    BY <1>2, <2>1 DEF GreyStep, BatchCreateCheck, BatchCreate, PauseTask, ContinueTask,
       CancelRequest, OperatorRequest, WorkerFails, TimePasses, AdminCrash, AdminRestart,
       RecoverTick, RecoverFails, RecoverTask, applyVars
<1> QED
  BY <1>1, <1>2 DEF Next

\* While a file is in a release nobody else publishes it: its version changes with
\* the step that finishes the release, or when no release has its row (lock(dto)).
THEOREM OnlyHoldersPublish == Spec => OnlyHolderPublishes
<1>1. ASSUME TasksInv, [Next]_vars
      PROVE  [\A f \in Files : conf'[f].ver # conf[f].ver =>
                \/ mapping[f] = NoLock
                \/ LET t == mapping[f].uuid
                   IN  Active(t) /\ status'[t].st = "FINISH" /\ f \in taskConfig[t].files]_vars
  <2> SUFFICES ASSUME NEW f \in Files, conf'[f].ver # conf[f].ver
               PROVE  \/ mapping[f] = NoLock
                      \/ /\ Active(mapping[f].uuid)
                         /\ status'[mapping[f].uuid].st = "FINISH"
                         /\ f \in taskConfig[mapping[f].uuid].files
    OBVIOUS
  <2>1. /\ status \in [Uuids -> StatusRow] /\ conf \in [Files -> ConfigRow]
        /\ GreyInv /\ FreeRowsRest
    BY <1>1 DEF TasksInv, GreyInv, GreyTypeOK, ApplyTypeOK
  <2>2. CASE EditStep
    BY <2>1, <2>2, EditConfig DEF FreeRowsRest
  <2>3. ASSUME NEW w \in Workers, NEW n, Finishing(w, n)
        PROVE  /\ Active(mapping[f].uuid)
               /\ status'[mapping[f].uuid].st = "FINISH"
               /\ f \in taskConfig[mapping[f].uuid].files
    <3>1. PICK t : t = worker[w].task
      OBVIOUS
    <3>2. t \in Uuids /\ ~New(t) /\ n.st = "FINISH" /\ FinishTask(w, t, n)
      BY <1>1, <2>3, <3>1, HolderHasTask DEF Finishing, Advances
    <3>3. /\ taskConfig[t].files \subseteq Held(t, n)
          /\ status' = [status EXCEPT ![t] = n]
          /\ f \in taskConfig[t].files
      BY <2>1, <3>2 DEF FinishTask, FilesToPublish
    <3>4. mapping[f].uuid = t /\ f \in Locks(t)
      BY <3>3 DEF Held, Locks
    <3>5. ~Terminal(t)
      BY <1>1, <3>2, <3>3, <3>4 DEF TasksInv, Rows
    <3>6. Active(t)
      BY <2>1, <3>2, <3>5 DEF Active, ActiveStates, Terminal, New, StatusRow, GreyReleaseState
    <3> QED
      BY <2>1, <3>2, <3>3, <3>4, <3>6
  <2> QED
    BY <1>1, <2>1, <2>2, <2>3, ConfigSteps
<1> QED
  BY <1>1, TasksInvariant, PTL DEF Spec, OnlyHolderPublishes
=============================================================================
