----------------------------- MODULE ApplyQueue -----------------------------
(***************************************************************************)
(* The edit / review / publish workflow of the admin                       *)
(* (ApplyQueueServiceImpl, ConfigServiceImpl and the DAOs they write).     *)
(*                                                                         *)
(* Every handler is one database transaction.  What it reads outside of    *)
(* row locks are rows of config_candidate_snapshot, which are written once *)
(* and never changed, and what it writes is guarded by compare-and-swap    *)
(* updates and unique keys whose row locks are held until the commit; so   *)
(* one transaction is one action.  The user's page may be arbitrarily old: *)
(* every handler takes the editVersion its page shows, any version that    *)
(* has a snapshot.                                                         *)
(***************************************************************************)
EXTENDS Integers

CONSTANTS
    Files,       \* (group, dataId, profile) triples
    Uuids,       \* uuids of grey release tasks, the long-term lock holders
    Free,        \* "this file has no row in batch_push_task_mapping"
    MaxVersion   \* largest value of the smallint version columns

ASSUME ApplyQueueAssumption ==
    /\ MaxVersion \in Nat \ {0}
    /\ Free \notin Uuids

VARIABLES
    cand,      \* config_candidate: cand[f].edit = 0 when there is no row
    snap,      \* config_candidate_snapshot: one row per (file, edit_version)
    conf,      \* config: conf[f].ver = 0 when there is no row
    mapping    \* batch_push_task_mapping: the lock row of a file

applyVars == <<cand, snap, conf, mapping>>

Versions == 1..MaxVersion
StatusType == {"PENDING", "PASSED", "PUBLISH", "REJECT", "CANCEL", "DELETE"}

NoCandidate == [edit |-> 0, based |-> 0, st |-> "NONE"]
NoSnapshot  == [based |-> 0, st |-> "NONE"]
NoConfig    == [ver |-> 0, inuse |-> FALSE]
NoLock      == [uuid |-> Free, lv |-> 0]

CandidateRow == [edit : 0..MaxVersion, based : 0..MaxVersion, st : StatusType \cup {"NONE"}]
SnapshotRow  == [based : 0..MaxVersion, st : StatusType \cup {"NONE"}]
ConfigRow    == [ver : 0..MaxVersion, inuse : BOOLEAN]
MappingRow   == [uuid : Uuids \cup {Free}, lv : Nat]

ApplyTypeOK ==
    /\ cand \in [Files -> CandidateRow]
    /\ snap \in [Files -> [Versions -> SnapshotRow]]
    /\ conf \in [Files -> ConfigRow]
    /\ mapping \in [Files -> MappingRow]

ApplyInit ==
    /\ cand = [f \in Files |-> NoCandidate]
    /\ snap = [f \in Files |-> [v \in Versions |-> NoSnapshot]]
    /\ conf = [f \in Files |-> NoConfig]
    /\ mapping = [f \in Files |-> NoLock]
-----------------------------------------------------------------------------
HasSnapshot(f, v) == snap[f][v].st # "NONE"

\* Mutants: off by one; an edit keeps its base although its base was published over.
BasedBefore(f, v) == IF snap[f][v].st = "PUBLISH" THEN v ELSE snap[f][v].based - 1
BasedForGood(f, v) == snap[f][v].based

\* The published version an edit made on top of snapshot v is based on.
BasedVersion(f, v) == IF snap[f][v].st = "PUBLISH" THEN v ELSE snap[f][v].based

\* The optimistic lock of config_candidate: the row still is what the page shows.
Unmodified(f, v) == cand[f].edit = v /\ cand[f].st = snap[f][v].st

\* Mutant: neither the optimistic lock nor the unique key stops a stale page.
BlindUpdateCandidate(f, v, st) ==
    /\ v < MaxVersion
    /\ cand' = [cand EXCEPT ![f] = [edit |-> v + 1, based |-> BasedVersion(f, v), st |-> st]]
    /\ snap' = [snap EXCEPT ![f][v + 1] = [based |-> BasedVersion(f, v), st |-> st]]

\* updateCandidate, then candidateSnapshotDao.save of the new version.
UpdateCandidate(f, v, st) ==
    /\ v < MaxVersion
    /\ Unmodified(f, v)
    /\ ~HasSnapshot(f, v + 1)
    /\ cand' = [cand EXCEPT ![f] = [edit |-> v + 1, based |-> BasedVersion(f, v), st |-> st]]
    /\ snap' = [snap EXCEPT ![f][v + 1] = [based |-> BasedVersion(f, v), st |-> st]]

\* Mutant: the result of the INSERT IGNORE is not looked at.
LockIgnored(f) == TRUE

\* lock(dto): INSERT IGNORE finds no row of another holder.  The row is deleted
\* again by unlock(dto) in the same transaction.
LockFree(f) == mapping[f].uuid = Free
-----------------------------------------------------------------------------
ApplyNew(f) ==
    /\ cand[f].edit = 0
    /\ ~HasSnapshot(f, 1)
    /\ cand' = [cand EXCEPT ![f] = [edit |-> 1, based |-> 0, st |-> "PENDING"]]
    /\ snap' = [snap EXCEPT ![f][1] = [based |-> 0, st |-> "PENDING"]]
    /\ UNCHANGED <<conf, mapping>>

Apply(f, v) ==
    /\ HasSnapshot(f, v)
    /\ snap[f][v].st # "PASSED"
    /\ UpdateCandidate(f, v, "PENDING")
    /\ UNCHANGED <<conf, mapping>>

ForceApply(f, v) ==
    /\ snap[f][v].st = "DELETE"
    /\ UpdateCandidate(f, v, "PENDING")
    /\ UNCHANGED <<conf, mapping>>

ChangeStatusAndSave(f, v, expectType, resultType) ==
    /\ snap[f][v].st = expectType
    /\ UpdateCandidate(f, v, resultType)

Approve(f, v) ==
    /\ ChangeStatusAndSave(f, v, "PENDING", "PASSED")
    /\ UNCHANGED <<conf, mapping>>

Reject(f, v) ==
    /\ ChangeStatusAndSave(f, v, "PENDING", "REJECT")
    /\ UNCHANGED <<conf, mapping>>

Cancel(f, v) ==
    /\ LockFree(f)
    /\ ChangeStatusAndSave(f, v, "PASSED", "CANCEL")
    /\ UNCHANGED <<conf, mapping>>

\* createOrUpdateConfig refuses when the published version has moved away from
\* the one the edit is based on.
ConfigNotMoved(f, based) == conf[f].ver = based

\* Mutant: the config row gets the version of the page.
PublishPageVersion(f, v) ==
    /\ LockFree(f)
    /\ ConfigNotMoved(f, BasedVersion(f, v))
    /\ ChangeStatusAndSave(f, v, "PASSED", "PUBLISH")
    /\ conf' = [conf EXCEPT ![f] = [ver |-> v, inuse |-> TRUE]]
    /\ UNCHANGED mapping

Publish(f, v) ==
    /\ LockFree(f)
    /\ ConfigNotMoved(f, BasedVersion(f, v))
    /\ ChangeStatusAndSave(f, v, "PASSED", "PUBLISH")
    /\ conf' = [conf EXCEPT ![f] = [ver |-> v + 1, inuse |-> TRUE]]
    /\ UNCHANGED mapping

\* Both halves run in one transaction on the row currentEdit returns.
ApproveAndPublish(f) ==
    LET v == cand[f].edit
        b == cand[f].based
    IN  /\ cand[f].st = "PENDING"
        /\ v + 1 < MaxVersion
        /\ Unmodified(f, v)
        /\ ~HasSnapshot(f, v + 1) /\ ~HasSnapshot(f, v + 2)
        /\ LockFree(f)
        /\ ConfigNotMoved(f, b)
        /\ cand' = [cand EXCEPT ![f] = [edit |-> v + 2, based |-> b, st |-> "PUBLISH"]]
        /\ snap' = [snap EXCEPT ![f][v + 1] = [based |-> b, st |-> "PASSED"],
                                ![f][v + 2] = [based |-> b, st |-> "PUBLISH"]]
        /\ conf' = [conf EXCEPT ![f] = [ver |-> v + 2, inuse |-> TRUE]]
        /\ UNCHANGED mapping

\* Mutant: the candidate is deleted, the config row stays.
DeleteCandidateOnly(f, v) ==
    /\ snap[f][v].st = "PUBLISH" \/ (HasSnapshot(f, v) /\ snap[f][v].based = 0)
    /\ snap[f][v].st # "DELETE"
    /\ UpdateCandidate(f, v, "DELETE")
    /\ UNCHANGED <<conf, mapping>>

\* FileController lets a page delete a published file, or one never published.
\* There is no lock(dto) here.
Delete(f, v) ==
    /\ snap[f][v].st = "PUBLISH" \/ (HasSnapshot(f, v) /\ snap[f][v].based = 0)
    /\ snap[f][v].st # "DELETE"
    /\ UpdateCandidate(f, v, "DELETE")
    /\ IF snap[f][v].st = "PUBLISH"
       THEN /\ ConfigNotMoved(f, v)
            /\ conf' = [conf EXCEPT ![f].inuse = FALSE]
       ELSE UNCHANGED conf
    /\ UNCHANGED mapping
-----------------------------------------------------------------------------
(* oneButtonBatchPublish: v[f] is the editVersion of f's page, 0 for a new   *)
(* file.  All files are published in one transaction, or none is.            *)
OneButtonForced(f, v) == v > 0 /\ snap[f][v].st = "DELETE"
OneButtonUpdate(f, v) == v > 0 /\ snap[f][v].st \in {"PUBLISH", "PENDING"}

OneButtonBased(f, v) == IF v = 0 THEN 0 ELSE BasedVersion(f, v)

OneButtonAccepts(f, v) ==
    /\ v < MaxVersion
    /\ \/ v = 0 /\ cand[f].edit = 0
       \/ OneButtonForced(f, v) /\ Unmodified(f, v)
       \/ OneButtonUpdate(f, v)
    /\ ~HasSnapshot(f, v + 1)
    /\ LockFree(f)
    /\ OneButtonBased(f, v) = 0 => conf[f].ver = 0

\* The number of rows BATCH_UPDATE_SQL of config_candidate changes is ignored,
\* and that of config has no version in its WHERE clause.
OneButtonCandidate(f, v) ==
    IF cand[f].edit = v
    THEN [edit |-> v + 1, based |-> OneButtonBased(f, v), st |-> "PUBLISH"]
    ELSE cand[f]

\* Mutant: the config row gets the version of the page.
OneButtonConfigPageVersion(f, v) ==
    IF OneButtonBased(f, v) = 0 \/ conf[f].ver > 0
    THEN [ver |-> v, inuse |-> TRUE]
    ELSE conf[f]

OneButtonConfig(f, v) ==
    IF OneButtonBased(f, v) = 0 \/ conf[f].ver > 0
    THEN [ver |-> v + 1, inuse |-> TRUE]
    ELSE conf[f]

OneButtonBatchPublish(S, v) ==
    /\ \A f \in S : OneButtonAccepts(f, v[f])
    /\ cand' = [f \in Files |-> IF f \in S THEN OneButtonCandidate(f, v[f]) ELSE cand[f]]
    /\ snap' = [f \in Files |->
                  IF f \in S
                  THEN [snap[f] EXCEPT ![v[f] + 1] =
                           [based |-> OneButtonBased(f, v[f]), st |-> "PUBLISH"]]
                  ELSE snap[f]]
    /\ conf' = [f \in Files |-> IF f \in S THEN OneButtonConfig(f, v[f]) ELSE conf[f]]
    /\ UNCHANGED mapping
-----------------------------------------------------------------------------
ApplyQueueStep ==
    \/ \E f \in Files : ApplyNew(f) \/ ApproveAndPublish(f)
    \/ \E f \in Files, v \in Versions :
          \/ Apply(f, v) \/ ForceApply(f, v)
          \/ Approve(f, v) \/ Reject(f, v) \/ Cancel(f, v)
          \/ Publish(f, v) \/ Delete(f, v)
    \/ \E S \in (SUBSET Files) \ {{}} : \E v \in [S -> 0..MaxVersion] :
          OneButtonBatchPublish(S, v)

ApplyQueueSpec == ApplyInit /\ [][ApplyQueueStep]_applyVars
-----------------------------------------------------------------------------
(* Safety of the workflow.                                                   *)

\* The snapshot table is exactly the history of the candidate: one row for
\* every version up to the current one, the last agreeing with the row itself.
SnapshotsAreHistory ==
    \A f \in Files :
        /\ \A v \in Versions : HasSnapshot(f, v) <=> v <= cand[f].edit
        /\ cand[f].edit > 0 => snap[f][cand[f].edit] = [based |-> cand[f].based, st |-> cand[f].st]

\* What the servers are told to serve is always the newest version that was ever
\* published (ConfigServiceImpl.createOrUpdateConfig, batchPublish): no stale
\* page, raced publish or one-button publish makes `config` go back to an old
\* version or skip to one that was never published.
ConfigIsLatestPublish ==
    \A f \in Files, v \in Versions :
        /\ conf[f].ver = v => snap[f][v].st = "PUBLISH"
        /\ snap[f][v].st = "PUBLISH" => v <= conf[f].ver

\* Every open edit is based on the version that is published now: nobody's
\* publish is overwritten by an edit that never saw it (the basedVersion check).
EditsAreBasedOnPublished ==
    \A f \in Files :
        conf[f].ver = (IF cand[f].st = "PUBLISH" THEN cand[f].edit ELSE cand[f].based)

\* A file whose candidate is DELETE is out of use, whichever pages published or
\* deleted it last: config and config_candidate agree on what was deleted.
DeletedIsNotInUse ==
    \A f \in Files : cand[f].st = "DELETE" => ~conf[f].inuse

\* The workflow implements the abstract table the servers rely on: versions in
\* `config` only grow, batches are published all at once, and only a deletion
\* takes a file out of use.
Table == INSTANCE ConfigTable WITH
    version <- [f \in Files |-> conf[f].ver],
    inuse   <- [f \in Files |-> conf[f].inuse]

ImplementsConfigTable == Table!ConfigSpec
=============================================================================
