---------------------------- MODULE GreyRelease -----------------------------
(***************************************************************************)
(* Grey release: a task pushes PASSED versions of some files to one batch  *)
(* of machines after another and then publishes them.  The state of a task *)
(* lives in the database; threads of several admins (http requests, push   *)
(* workers, delay timers, the recover task) act on snapshots of it and     *)
(* arbitrate with the lock_version of the task's lock rows.                *)
(*                                                                         *)
(* A transaction is one action: it begins by updating or inserting the     *)
(* lock rows, whose row locks it keeps until it commits.  Reading the task *)
(* (queryStatus, findToRecovers) and acting on what was read are separate  *)
(* actions.                                                                *)
(***************************************************************************)
EXTENDS ApplyQueue

CONSTANTS
    Admins, Workers,   \* admin processes and their threads
    Home,              \* the admin a thread runs on
    Batches,           \* totalBatchNum
    Options,           \* what tasks users create: autoContinue, number of the first batch
    MaxRequests,       \* bound: pause / continue / cancel requests of users
    MaxCrashes,        \* bound: crashes of admins
    MaxDbErrors        \* bound: database errors met by threads of admins

ASSUME GreyAssumption ==
    /\ Home \in [Workers -> Admins]
    /\ Batches \in Nat \ {0}
    /\ Options \subseteq [auto : BOOLEAN, first : {0, 1}]
    /\ MaxRequests \in Nat /\ MaxCrashes \in Nat /\ MaxDbErrors \in Nat

VARIABLES
    status,     \* batch_push_task_new: what of a StatusInfo changes (st = "NONE": no
                \* row, "DRAFT": a request being checked)
    taskConfig, \* batch_push_task_new: its TaskConfig, fixed at creation
    worker,     \* the threads: a StatusInfo and what is to be done with it
    recover,    \* GreyReleaseRecoverTask of each admin
    clock,      \* how long ago the lock rows of the task were last updated
    offered,    \* lockVersions at which the task page has offered "continue"
    prepared,   \* batches whose machines were given the pushed version
    requests, crashes, dbErrors

greyVars == <<status, taskConfig, worker, recover, clock, offered, prepared, requests, crashes, dbErrors>>
vars == <<applyVars, greyVars>>

GreyReleaseState == {"WAIT_PUBLISH", "DELAY_PUBLISH", "PUBLISHING", "FINISH", "CANCEL"}
ActiveStates == {"WAIT_PUBLISH", "DELAY_PUBLISH", "PUBLISHING"}
Active(t)   == status[t].st \in ActiveStates
Terminal(t) == status[t].st \in {"FINISH", "CANCEL"}

\* State, finishedBatchNum and lockVersion of a StatusInfo.
Info(st, fin, lv) == [st |-> st, fin |-> fin, lv |-> lv]
InfoRow   == [st : ActiveStates, fin : -1..(Batches - 1), lv : Nat]
StatusRow == [st : GreyReleaseState \cup {"NONE", "DRAFT"}, fin : -1..Batches, lv : Nat]
ConfigOfTask == [files : SUBSET Files, ver : [Files -> 0..MaxVersion],
                 auto : BOOLEAN, first : {0, 1}]

NoTask   == Info("NONE", -1, 0)
NoConfigOfTask == [files |-> {}, ver |-> [f \in Files |-> 0], auto |-> FALSE, first |-> 0]

\* pc: the Command to accept, or "work" when the saved state is to be worked on.
Idle == [pc |-> "idle"]
Busy(pc, t, info) == [pc |-> pc, task |-> t, info |-> info]
WorkerState ==
    {Idle} \cup [pc : {"pause", "next", "cancel", "work"}, task : Uuids, info : InfoRow]

RecoverState == [up : BOOLEAN, alive : BOOLEAN, todo : SUBSET (Uuids \X InfoRow)]

\* Ages of a lock row: not yet taskNotOperatedTimeout old; old; the delay of an
\* automatic task is over; it has been over for longer than the timeout.
Ages == {"fresh", "old", "due", "late"}

GreyTypeOK ==
    /\ ApplyTypeOK
    /\ status \in [Uuids -> StatusRow]
    /\ \A t \in Uuids : Active(t) \/ status[t].st = "DRAFT" => status[t].fin < Batches
    /\ taskConfig \in [Uuids -> ConfigOfTask]
    /\ worker \in [Workers -> WorkerState]
    /\ recover \in [Admins -> RecoverState]
    /\ clock \in [Uuids -> Ages]
    /\ offered \in [Uuids -> SUBSET Nat]
    /\ prepared \in [Uuids -> SUBSET (0..Batches)]
    /\ requests \in 0..MaxRequests /\ crashes \in 0..MaxCrashes /\ dbErrors \in 0..MaxDbErrors

GreyInit ==
    /\ ApplyInit
    /\ status = [t \in Uuids |-> NoTask]
    /\ taskConfig = [t \in Uuids |-> NoConfigOfTask]
    /\ worker = [w \in Workers |-> Idle]
    /\ recover = [a \in Admins |-> [up |-> TRUE, alive |-> TRUE, todo |-> {}]]
    /\ clock = [t \in Uuids |-> "fresh"]
    /\ offered = [t \in Uuids |-> {}]
    /\ prepared = [t \in Uuids |-> {}]
    /\ requests = 0 /\ crashes = 0 /\ dbErrors = 0

IsIdle(w) == worker[w].pc = "idle" /\ recover[Home[w]].up
-----------------------------------------------------------------------------
(* Creating a task.                                                          *)

\* checkAndProcessRequest: files that are not PASSED at the newest version are
\* dropped from the request.
BatchCreateCheck(t, F, option) ==
    /\ status[t].st = "NONE"
    /\ F # {} /\ \A f \in F : cand[f].st = "PASSED"
    /\ status' = [status EXCEPT ![t] = Info("DRAFT", option.first - 1, 0)]
    /\ taskConfig' = [taskConfig EXCEPT ![t] =
          [files |-> F, ver |-> [f \in Files |-> IF f \in F THEN cand[f].edit ELSE 0],
           auto |-> option.auto, first |-> option.first]]
    /\ UNCHANGED <<applyVars, worker, recover, clock, offered, prepared, requests, crashes, dbErrors>>

Valid(t, f) == cand[f].edit = taskConfig[t].ver[f] /\ cand[f].st = "PASSED"

\* createAndInitTasks, then work() of the PUBLISHING state.  A file whose insert
\* succeeds and whose validation fails is dropped from the task but keeps its
\* lock row; one for which both fail makes iterator.remove() throw, and one task
\* without files makes insertTask throw: the transaction is rolled back.
\* Mutant: the insert replaces a row of another holder.
Overwritten(t) == taskConfig[t].files
Inserted(t)  == {f \in taskConfig[t].files : LockFree(f)}
Accepted(t)  == {f \in Inserted(t) : Valid(t, f)}
CreateAborts(t) ==
    \/ \E f \in taskConfig[t].files : ~LockFree(f) /\ ~Valid(t, f)
    \/ Accepted(t) = {}

BatchCreate(t, w) ==
    /\ status[t].st = "DRAFT" /\ IsIdle(w)
    /\ IF CreateAborts(t)
       THEN /\ status' = [status EXCEPT ![t] = NoTask]
            /\ taskConfig' = [taskConfig EXCEPT ![t] = NoConfigOfTask]
            /\ UNCHANGED <<mapping, worker, clock>>
       ELSE /\ mapping' = [f \in Files |->
                  IF f \in Inserted(t) THEN [uuid |-> t, lv |-> 0] ELSE mapping[f]]
            /\ status' = [status EXCEPT ![t] = Info("PUBLISHING", status[t].fin, 0)]
            /\ taskConfig' = [taskConfig EXCEPT ![t] =
                  [files |-> Accepted(t), ver |-> taskConfig[t].ver,
                   auto |-> taskConfig[t].auto, first |-> taskConfig[t].first]]
            /\ worker' = [worker EXCEPT ![w] = Busy("work", t, Info("PUBLISHING", status[t].fin, 0))]
            /\ clock' = [clock EXCEPT ![t] = "fresh"]
    /\ UNCHANGED <<cand, snap, conf, recover, offered, prepared, requests, crashes, dbErrors>>
-----------------------------------------------------------------------------
(* Saving a state.                                                           *)

Locks(t) == {f \in Files : mapping[f].uuid = t}

\* Mutant: the WHERE clause forgets lock_version.
HeldAtAnyVersion(t, n) == Locks(t)

\* The rows UPDATE ... WHERE uuid=? AND lock_version=n.lv-1 hits.
Held(t, n) == {f \in Locks(t) : mapping[f].lv = n.lv - 1}

\* work() after a save: push a batch, start the delay timer, or nothing.
AfterSave(t, n) ==
    CASE n.st = "PUBLISHING"    -> Busy("work", t, n)
      [] n.st = "DELAY_PUBLISH" -> Busy("next", t, n)
      [] OTHER                  -> Idle

\* Mutant: the number of rows hit is ignored.
SaveAnyway(t, n) == TRUE
MaySave(t, n) == Held(t, n) # {}

\* updateTask
UpdateTask(w, t, n) ==
    /\ IF MaySave(t, n)
       THEN /\ mapping' = [f \in Files |->
                  IF f \in Held(t, n) THEN [uuid |-> t, lv |-> n.lv] ELSE mapping[f]]
            /\ status' = [status EXCEPT ![t] = n]
            /\ clock' = [clock EXCEPT ![t] = "fresh"]
            /\ offered' = IF n.st = "WAIT_PUBLISH"
                          THEN [offered EXCEPT ![t] = @ \cup {n.lv}] ELSE offered
            /\ worker' = [worker EXCEPT ![w] = AfterSave(t, n)]
       ELSE /\ worker' = [worker EXCEPT ![w] = Idle]
            /\ UNCHANGED <<mapping, status, clock, offered>>
    /\ UNCHANGED <<cand, snap, conf, taskConfig, recover, prepared, requests, crashes, dbErrors>>

\* Mutant: the row is updated and never deleted.
KeepLock(f) == [uuid |-> mapping[f].uuid, lv |-> mapping[f].lv + 1]
Unlock(f) == NoLock

\* What greyBatchPublish of one file checks.
Publishable(t, f) ==
    /\ Valid(t, f)
    /\ cand[f].edit < MaxVersion
    /\ ~HasSnapshot(f, cand[f].edit + 1)
    /\ ConfigNotMoved(f, cand[f].based)

\* Mutants: doFinish returns from inside its loop; the config row is written with
\* the version the edit is based on.
FirstFileOnly(t) == {CHOOSE f \in taskConfig[t].files : TRUE}
BasedAgain(t, f) == cand[f].based
FilesToPublish(t) == taskConfig[t].files
NewVersion(t, f) == taskConfig[t].ver[f] + 1

\* finishTask: every file of the task is unlocked and published, or nothing is.
FinishTask(w, t, n) ==
    LET F == FilesToPublish(t)
        Published(f) == [based |-> cand[f].based, st |-> "PUBLISH"]
    IN  /\ IF taskConfig[t].files \subseteq Held(t, n) /\ \A f \in F : Publishable(t, f)
           THEN /\ mapping' = [f \in Files |-> IF f \in taskConfig[t].files THEN Unlock(f) ELSE mapping[f]]
                /\ status' = [status EXCEPT ![t] = n]
                /\ cand' = [f \in Files |-> IF f \notin F THEN cand[f] ELSE
                      [edit |-> taskConfig[t].ver[f] + 1, based |-> cand[f].based, st |-> "PUBLISH"]]
                /\ snap' = [f \in Files |-> IF f \notin F THEN snap[f] ELSE
                      [snap[f] EXCEPT ![taskConfig[t].ver[f] + 1] = Published(f)]]
                /\ conf' = [f \in Files |-> IF f \notin F THEN conf[f] ELSE
                      [ver |-> NewVersion(t, f), inuse |-> TRUE]]
           ELSE UNCHANGED <<mapping, status, cand, snap, conf>>
        /\ worker' = [worker EXCEPT ![w] = Idle]
        /\ UNCHANGED <<taskConfig, recover, clock, offered, prepared, requests, crashes, dbErrors>>

\* cancelTask: no lockVersion is compared, and finished_batch_num and
\* lock_version are overwritten with what the request read.
CancelTask(w, t, n) ==
    /\ mapping' = [f \in Files |->
          IF f \notin Locks(t) THEN mapping[f]
          ELSE IF ~Terminal(t) /\ f \in taskConfig[t].files THEN Unlock(f)
          ELSE [uuid |-> t, lv |-> mapping[f].lv + 1]]
    /\ status' = IF Locks(t) # {} /\ ~Terminal(t)
                 THEN [status EXCEPT ![t] = Info("CANCEL", n.fin, n.lv)]
                 ELSE status
    /\ clock' = IF Locks(t) # {} THEN [clock EXCEPT ![t] = "fresh"] ELSE clock
    /\ worker' = [worker EXCEPT ![w] = Idle]
    /\ UNCHANGED <<cand, snap, conf, taskConfig, recover, offered, prepared, requests, crashes, dbErrors>>
-----------------------------------------------------------------------------
(* accept(command): translate, save, work.                                   *)

\* copyAndIncLockVersion, incrementFinishedBatchNum
Becomes(info, st) == Info(st, info.fin, info.lv + 1)
BatchDone(info, st) == Info(st, info.fin + 1, info.lv + 1)

\* Mutant: the test for the last batch is off by one.
NextOfPublishingTooFar(t, info) ==
    CASE info.fin = Batches -> BatchDone(info, "FINISH")
      [] info.fin # Batches /\ taskConfig[t].auto -> BatchDone(info, "DELAY_PUBLISH")
      [] OTHER -> BatchDone(info, "WAIT_PUBLISH")

\* PublishingReleaseStatus.next: a batch is done.
NextOfPublishing(t, info) ==
    CASE info.fin = -1 -> BatchDone(info, "WAIT_PUBLISH")
      [] info.fin # -1 /\ info.fin = Batches - 1 -> BatchDone(info, "FINISH")
      [] OTHER -> BatchDone(info, IF taskConfig[t].auto THEN "DELAY_PUBLISH" ELSE "WAIT_PUBLISH")

\* DelayPublishReleaseStatus.next: the pushes may have failed on some machine.
NextStates(t, info) ==
    CASE info.st = "WAIT_PUBLISH"  -> {Becomes(info, "PUBLISHING")}
      [] info.st = "DELAY_PUBLISH" -> {Becomes(info, "PUBLISHING"), Becomes(info, "WAIT_PUBLISH")}
      [] OTHER                     -> {NextOfPublishing(t, info)}

AcceptNext(w) ==
    /\ worker[w].pc = "next"
    /\ \E n \in NextStates(worker[w].task, worker[w].info) :
          IF n.st = "FINISH"
          THEN FinishTask(w, worker[w].task, n)
          ELSE UpdateTask(w, worker[w].task, n)

AcceptPause(w) ==
    /\ worker[w].pc = "pause"
    /\ IF worker[w].info.st = "WAIT_PUBLISH"
       THEN /\ worker' = [worker EXCEPT ![w] = Idle]
            /\ UNCHANGED <<applyVars, status, taskConfig, recover, clock, offered, prepared, requests, crashes, dbErrors>>
       ELSE UpdateTask(w, worker[w].task, Becomes(worker[w].info, "WAIT_PUBLISH"))

AcceptCancel(w) ==
    /\ worker[w].pc = "cancel"
    /\ CancelTask(w, worker[w].task, worker[w].info)

\* PublishingReleaseStatus.work: the push versions of the next batch are written
\* (preparePush), then the machines are notified and "next" is accepted.
\* Mutant: the batch that is done is pushed again.
PrepareSameBatch(t, info) == prepared' = [prepared EXCEPT ![t] = @ \cup ({info.fin} \cap Nat)]
PreparePush(t, info) == prepared' = [prepared EXCEPT ![t] = @ \cup {info.fin + 1}]

Work(w) ==
    /\ worker[w].pc = "work"
    /\ PreparePush(worker[w].task, worker[w].info)
    /\ worker' = [worker EXCEPT ![w] = Busy("next", worker[w].task, worker[w].info)]
    /\ UNCHANGED <<applyVars, status, taskConfig, recover, clock, offered, requests, crashes, dbErrors>>
\* The database refuses the save (its transaction is rolled back) or the writes
\* of preparePush: the thread logs it and is done.
WorkerFails(w) ==
    /\ worker[w].pc # "idle" /\ dbErrors < MaxDbErrors
    /\ dbErrors' = dbErrors + 1
    /\ worker' = [worker EXCEPT ![w] = Idle]
    /\ UNCHANGED <<applyVars, status, taskConfig, recover, clock, offered, prepared, requests, crashes>>
-----------------------------------------------------------------------------
(* Users.                                                                    *)

\* The three handlers of the controller read the task and refuse a finished or
\* cancelled one.
OperatorRequest(w, t, cmd) ==
    /\ IsIdle(w) /\ requests < MaxRequests
    /\ Active(t)
    /\ worker' = [worker EXCEPT ![w] = Busy(cmd, t, status[t])]
    /\ requests' = requests + 1
    /\ UNCHANGED <<applyVars, status, taskConfig, recover, clock, offered, prepared, crashes, dbErrors>>

PauseTask(w, t)  == OperatorRequest(w, t, "pause")
CancelRequest(w, t) == OperatorRequest(w, t, "cancel")

\* The page sends the lockVersion it shows and has the button only while it
\* shows a waiting task.
ContinueTask(w, t) ==
    /\ \E lockVersion \in offered[t] : status[t].lv = lockVersion
    /\ OperatorRequest(w, t, "next")
-----------------------------------------------------------------------------
(* Crashes and recovery.                                                     *)

AdminCrash(a) ==
    /\ recover[a].up /\ crashes < MaxCrashes
    /\ crashes' = crashes + 1
    /\ worker' = [w \in Workers |-> IF Home[w] = a THEN Idle ELSE worker[w]]
    /\ recover' = [recover EXCEPT ![a] = [up |-> FALSE, alive |-> FALSE, todo |-> {}]]
    /\ UNCHANGED <<applyVars, status, taskConfig, clock, offered, prepared, requests, dbErrors>>

AdminRestart(a) ==
    /\ ~recover[a].up
    /\ recover' = [recover EXCEPT ![a] = [up |-> TRUE, alive |-> TRUE, todo |-> {}]]
    /\ UNCHANGED <<applyVars, status, taskConfig, worker, clock, offered, prepared, requests, crashes, dbErrors>>

NextAge(t) ==
    CASE clock[t] = "fresh" -> "old"
      [] clock[t] = "old"   -> "due"
      [] OTHER              -> "late"

TimePasses(t) ==
    /\ Locks(t) # {}
    /\ clock[t] # (IF taskConfig[t].auto THEN "late" ELSE "old")
    /\ clock' = [clock EXCEPT ![t] = NextAge(t)]
    /\ UNCHANGED <<applyVars, status, taskConfig, worker, recover, offered, prepared, requests, crashes, dbErrors>>

\* Mutant: only automatic tasks are recovered.
NeedRecoverAuto(t) ==
    /\ status[t].st \in {"PUBLISHING", "DELAY_PUBLISH"}
    /\ taskConfig[t].auto
    /\ clock[t] = "due"

NeedRecover(t) ==
    /\ status[t].st \in {"PUBLISHING", "DELAY_PUBLISH"}
    /\ taskConfig[t].auto => clock[t] # "late"
    /\ status[t].st = "DELAY_PUBLISH" => clock[t] = "due"

NotOperated == {t \in Uuids : Locks(t) # {} /\ clock[t] # "fresh"}

\* findToRecovers.  With no row to look at selectUuidIn throws: the scheduler
\* never runs the task again.
RecoverTick(a) ==
    /\ recover[a].alive /\ recover[a].todo = {}
    /\ recover' = [recover EXCEPT ![a] =
          [up |-> TRUE, alive |-> NotOperated # {},
           todo |-> {<<t, status[t]>> : t \in {u \in NotOperated : NeedRecover(u)}}]]
    /\ UNCHANGED <<applyVars, status, taskConfig, worker, clock, offered, prepared, requests, crashes, dbErrors>>

\* recover() of one task of the list.
RecoverTask(a, w) ==
    /\ Home[w] = a /\ IsIdle(w)
    /\ \E r \in recover[a].todo :
          /\ recover' = [recover EXCEPT ![a] =
                [up |-> TRUE, alive |-> TRUE, todo |-> recover[a].todo \ {r}]]
          /\ worker' = [worker EXCEPT ![w] = Busy("next", r[1], r[2])]
          /\ IF r[2].st = "PUBLISHING" THEN PreparePush(r[1], r[2]) ELSE UNCHANGED prepared
    /\ UNCHANGED <<applyVars, status, taskConfig, clock, offered, requests, crashes, dbErrors>>

\* A query of findToRecovers or preparePush throws on the scheduler's thread.
RecoverFails(a) ==
    /\ recover[a].alive
    /\ dbErrors < MaxDbErrors
    /\ dbErrors' = dbErrors + 1
    /\ recover' = [recover EXCEPT ![a] = [up |-> TRUE, alive |-> FALSE, todo |-> {}]]
    /\ UNCHANGED <<applyVars, status, taskConfig, worker, clock, offered, prepared, requests, crashes>>
-----------------------------------------------------------------------------
WorkerStep(w) == AcceptNext(w) \/ AcceptPause(w) \/ AcceptCancel(w) \/ Work(w)

GreyStep ==
    \/ \E t \in Uuids, F \in SUBSET Files, option \in Options : BatchCreateCheck(t, F, option)
    \/ \E t \in Uuids, w \in Workers :
          BatchCreate(t, w) \/ PauseTask(w, t) \/ ContinueTask(w, t) \/ CancelRequest(w, t)
    \/ \E w \in Workers : WorkerStep(w) \/ WorkerFails(w)
    \/ \E t \in Uuids : TimePasses(t)
    \/ \E a \in Admins : AdminCrash(a) \/ AdminRestart(a) \/ RecoverTick(a) \/ RecoverFails(a)
    \/ \E a \in Admins, w \in Workers : RecoverTask(a, w)

EditStep == ApplyQueueStep /\ UNCHANGED greyVars

Next == EditStep \/ GreyStep

Spec == GreyInit /\ [][Next]_vars

\* Threads that are running go on, the scheduler ticks, time passes; users owe
\* nothing, and a crashed admin may stay down.
Fairness ==
    /\ \A w \in Workers : WF_vars(WorkerStep(w))
    /\ \A a \in Admins : WF_vars(RecoverTick(a))
    /\ \A a \in Admins, w \in Workers : WF_vars(RecoverTask(a, w))
    /\ \A t \in Uuids : WF_vars(TimePasses(t))

FairSpec == Spec /\ Fairness
-----------------------------------------------------------------------------
(* Safety.                                                                   *)

\* Lock rows of files the task does not have: dealOneMeta inserted the row,
\* its validation then failed, and nothing ever deletes it.
Leaked(t) == Locks(t) \ taskConfig[t].files

\* The lock rows follow the task (batch_push_task_mapping against
\* batch_push_task_new): a task under way holds the row of each of its files at
\* its own lock_version, and any other task holds none.  So no file is ever in
\* two releases.  This is what every compare-and-swap on the rows stands for.
LocksFollowTask ==
    \A t \in Uuids : Leaked(t) = {} =>
        IF Active(t)
        THEN \A f \in taskConfig[t].files : mapping[f] = [uuid |-> t, lv |-> status[t].lv]
        ELSE Locks(t) = {}

\* Batch by batch (PublishingReleaseStatus): a batch is counted only when its
\* machines were told, and no thread, however stale, tells a batch while the one
\* before it is not counted.  A cancelled task is left out: see the README.
BatchesInOrder ==
    \A t \in Uuids : Active(t) \/ status[t].st = "FINISH" =>
        /\ taskConfig[t].first..status[t].fin \subseteq prepared[t]
        /\ Leaked(t) = {} => \A b \in prepared[t] : b <= status[t].fin + 1

\* A finished release has gone through every batch and published exactly the
\* version it pushed, for every file: finishTask is all or nothing.
FinishPublishesAll ==
    \A t \in Uuids : status[t].st = "FINISH" =>
        /\ status[t].fin = Batches
        /\ \A f \in taskConfig[t].files :
              /\ conf[f].ver > taskConfig[t].ver[f]
              /\ snap[f][taskConfig[t].ver[f] + 1].st = "PUBLISH"

\* While a release holds a file nobody else publishes it, and the release does
\* only by finishing (lock(dto) and finishTask).
OnlyHolderPublishes ==
    [][\A f \in Files : conf'[f].ver # conf[f].ver =>
          \/ mapping[f] = NoLock
          \/ LET t == mapping[f].uuid
             IN  Active(t) /\ status'[t].st = "FINISH" /\ f \in taskConfig[t].files]_vars

\* The optimistic lock: whatever advances a task (a worker, a request, a recover
\* thread of any admin) has seen the task as it is now.  In particular a paused
\* task moves on only for a request that saw it paused.
OnlyCurrentViewAdvances ==
    [][\A t \in Uuids :
          Leaked(t) = {} /\ Active(t) /\ status'[t] # status[t] /\ status'[t].st # "CANCEL" =>
             \E w \in Workers : worker[w].pc # "idle" /\ worker[w].task = t
                               /\ worker[w].info = status[t]]_vars

\* FINISH and CANCEL are final.
OverIsOver ==
    [][\A t \in Uuids : Terminal(t) /\ Leaked(t) = {} => status'[t] = status[t]]_vars

\* batch_push_task_mapping is "the table of the current batch push tasks"
\* (admin/sql/main.sql:98): every row is one of a file of a task under way.
MappingIsOfCurrentTasks ==
    \A f \in Files : LET t == mapping[f].uuid
                    IN  t # Free => Active(t) /\ f \in taskConfig[t].files
-----------------------------------------------------------------------------
(* Liveness.                                                                 *)

\* finishTask cannot succeed: a file was edited under the release (delete takes
\* no lock), or its versions are used up.
Blocked(t) == \E f \in taskConfig[t].files : ~Publishable(t, f)
NobodyRecovers == \A a \in Admins : ~recover[a].alive

\* A batch being pushed gets done, crashes and failed saves notwithstanding, as
\* long as some admin's recover thread lives (GreyReleaseRecoverTask).
PushingTaskGetsOn ==
    \A t \in Uuids :
        status[t].st = "PUBLISHING" /\ ~taskConfig[t].auto
            ~> status[t].st # "PUBLISHING" \/ Blocked(t) \/ NobodyRecovers

\* The documentation (doc/code.md:44-46) says that losing one admin has no effect:
\* the batch it was pushing gets done by another one.
OneAdminDownHasNoEffect ==
    \A t \in Uuids :
        status[t].st = "PUBLISHING" /\ ~taskConfig[t].auto
            ~> status[t].st # "PUBLISHING" \/ Blocked(t) \/ \A a \in Admins : ~recover[a].up
=============================================================================
