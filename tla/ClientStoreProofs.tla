-------------------------- MODULE ClientStoreProofs -------------------------
(***************************************************************************)
(* Proofs about ClientStore for any set of threads, all options and all    *)
(* bounds: types, the monitor and the override, what becomes of the        *)
(* versions that are recorded, what the label in use says of the data, and *)
(* what the version file says of the label.                                *)
(***************************************************************************)
EXTENDS ClientStore, TLAPS

USE StoreAssumption

\* What a job carries: somebody works on a file only when it has an entry, a thread
\* brings a version, and the label that is set later is a version or 0.
Bringers == {"loading", "writing", "copying", "update", "cas", "changed", "set"}
Labelled == {"init", "writing", "copying", "set", "file", "nofile", "report"}
JobsOK ==
    /\ \A a \in Actors : job[a].pc # "idle" => entry # NoEntry
    /\ \A t \in Threads : job[t].pc \in Bringers => job[t].ver \in Version
    /\ job[Loader].pc \in {"writing", "copying"} => job[Loader].ver \in Version
    /\ \A a \in Actors : job[a].pc \in Labelled => job[a].label # NoEntry

StoreTypeInv == StoreTypeOK /\ JobsOK

\* The monitor: one actor at a time writes the version file, the label in use is the
\* one it writes, and nobody sets a version or loads one before load was called.
LockInv ==
    /\ \A a, b \in Actors : Holds(a) /\ Holds(b) => a = b
    /\ \A a \in Actors : Holds(a) => current = Remote(job[a].label)
    /\ \A t \in Threads : job[t].pc = "set" \/ Holds(t) => store
    /\ job[Loader].pc # "idle" => store
    /\ current.type # "none" \/ data.type # "none" => store
    /\ FailOnNotExists /\ current.type = "override" => data = current
-----------------------------------------------------------------------------
(* Types.                                                                    *)

PCs == {"idle", "waiting", "init", "loading", "writing", "copying", "update", "cas", "changed",
        "set", "file", "nofile", "report"}

LEMMA JobType ==
    ASSUME StoreTypeOK, NEW a \in Actors
    PROVE  /\ Idle \in Job /\ job[a] \in Job
           /\ \A pc \in PCs : [job EXCEPT ![a].pc = pc] \in [Actors -> Job]
           /\ \A j \in Job : [job EXCEPT ![a] = j] \in [Actors -> Job]
<1>1. Idle \in Job
  BY DEF Job, Idle, NoEntry
<1>2. job \in [Actors -> Job] /\ job[a] \in Job
  BY DEF StoreTypeOK
<1>3. ASSUME NEW pc \in PCs
      PROVE  [job EXCEPT ![a].pc = pc] \in [Actors -> Job]
  <2>1. [job[a] EXCEPT !.pc = pc] \in Job
    BY <1>2 DEF Job, PCs
  <2> QED
    BY <1>2, <2>1
<1> QED
  BY <1>1, <1>2, <1>3

LEMMA ActorsType == Loader \in Actors /\ \A t \in Threads : t \in Actors /\ t # Loader
  BY DEF Actors

\* Steps that leave the jobs alone.
LEMMA JobsKept ==
    ASSUME JobsOK, job' = job, entry' = entry \/ entry' # NoEntry
    PROVE  JobsOK'
  BY DEF JobsOK

\* A job that is over, or only moves on.
LEMMA JobOver ==
    ASSUME StoreTypeInv, NEW a \in Actors, job' = [job EXCEPT ![a] = Idle],
           entry' = entry \/ entry' # NoEntry
    PROVE  JobsOK'
  BY DEF JobsOK, Bringers, Labelled, Idle, StoreTypeInv, StoreTypeOK, NoEntry

LEMMA EnvironmentKeepsTypes ==
    ASSUME StoreTypeInv, Publish \/ EditOverride \/ RemoveOverride
    PROVE  StoreTypeInv'
<1>1. JobsOK'
  BY JobsKept DEF StoreTypeInv, Publish, EditOverride, RemoveOverride
<1>2. StoreTypeOK'
  <2> USE DEF StoreTypeInv, StoreTypeOK, diskVars, pastVars
  <2>1. CASE Publish
    BY <2>1 DEF Publish
  <2>3. CASE EditOverride
    BY <2>3 DEF EditOverride
  <2>4. CASE RemoveOverride
    BY <2>4 DEF RemoveOverride
  <2> QED
    BY <2>1, <2>3, <2>4
<1> QED
  BY <1>1, <1>2 DEF StoreTypeInv

LEMMA PollKeepsTypes ==
    ASSUME StoreTypeInv, PollStep \/ PollFails
    PROVE  StoreTypeInv'
<1> USE DEF StoreTypeInv, StoreTypeOK, envVars, diskVars, pastVars
<1>1. CASE UseOverride
  <2>1. Override(override) \in FileVersion /\ Override(override) \in Data
    BY <1>1 DEF UseOverride, Override, FileVersion, Data
  <2> QED
    BY <1>1, <2>1, JobsKept DEF UseOverride
<1>2. CASE LeaveOverride
  <2>1. Remote(0) \in FileVersion /\ [poll EXCEPT !.pc = "forget"] \in Poll
    BY DEF Remote, FileVersion, Poll
  <2> QED
    BY <1>2, <2>1, JobsKept DEF LeaveOverride
<1>3. CASE ForgetVersion
  <2>1. ForgottenVersion \in NoEntry..MaxVersion /\ (ForgottenVersion = entry \/ ForgottenVersion # NoEntry)
    BY DEF ForgottenVersion, NoEntry
  <2>2. Resting \in Poll
    BY DEF Resting, Poll
  <2> QED
    BY <1>3, <2>1, <2>2, JobsKept DEF ForgetVersion
<1>4. CASE StartPoll
  <2>1. (IF entry = NoEntry THEN 0 ELSE entry) \in 0..MaxVersion
    <3>1. entry \in NoEntry..MaxVersion
      OBVIOUS
    <3> QED
      BY <3>1 DEF NoEntry
  <2>2. poll' \in Poll
    BY <1>4, <2>1 DEF StartPoll, Poll
  <2> QED
    BY <1>4, <2>2, JobsKept DEF StartPoll
<1>5. ASSUME NEW v \in Version, NEW t \in Threads, TakeAnswer(v, t) PROVE StoreTypeInv'
  <2>1. t \in Actors /\ t # Loader /\ Resting \in Poll
    BY ActorsType DEF Resting, Poll
  <2>2. CASE entry # NoEntry /\ NeedUpdate(entry, v)
    <3> DEFINE pc == IF v \in snapshots THEN "update" ELSE "loading"
    <3> DEFINE local == v \in snapshots
    <3> DEFINE j == [pc |-> pc, ver |-> v, label |-> 0, local |-> local]
    <3>1. j \in Job /\ j.ver = v /\ j.pc \in {"update", "loading"}
      <4>1. v \in 0..MaxVersion /\ 0 \in NoEntry..MaxVersion /\ local \in BOOLEAN
            /\ pc \in {"update", "loading"}
        BY DEF Version, NoEntry
      <4> HIDE DEF pc, local
      <4> QED
        BY <4>1 DEF Job
    <3>2. job' = [job EXCEPT ![t] = j] /\ UNCHANGED loaded
      BY <1>5, <2>2 DEF TakeAnswer
    <3> HIDE DEF j
    <3>3. StoreTypeOK'
      BY <1>5, <2>1, <3>1, <3>2, JobType DEF TakeAnswer
    <3>4. JobsOK'
      BY <1>5, <2>1, <2>2, <3>1, <3>2 DEF TakeAnswer, JobsOK, Bringers, Labelled
    <3> QED
      BY <3>3, <3>4
  <2>3. CASE ~(entry # NoEntry /\ NeedUpdate(entry, v))
    BY <1>5, <2>1, <2>3, JobsKept DEF TakeAnswer
  <2> QED
    BY <2>2, <2>3
<1>6. CASE NoChange
  <2>1. Resting \in Poll
    BY DEF Resting, Poll
  <2> QED
    BY <1>6, <2>1, JobsKept DEF NoChange
<1>7. CASE Purge
  <2>1. Resting \in Poll
    BY DEF Resting, Poll
  <2> QED
    <3>1. CASE entry = NoEntry \/ purged
      BY <1>7, <2>1, <3>1, JobsKept DEF Purge
    <3>2. CASE ~(entry = NoEntry \/ purged)
      <4>1. JobsOK'
        BY <1>7, JobsKept DEF Purge
      <4>2. purged' = TRUE /\ snapshots' = {} /\ verFile' = 0 /\ spoilt' = spoilt
        BY <1>7, <3>2 DEF Purge
      <4>3. UNCHANGED <<published, override, edits, entry, memory, store, current, data, job,
                        crossed, outdated, crashes, failures>>
        BY <1>7 DEF Purge
      <4>4. loaded' \in BOOLEAN /\ poll' \in Poll
        BY <1>7, <2>1 DEF Purge
      <4> QED
        BY <4>1, <4>2, <4>3, <4>4
    <3> QED
      BY <3>1, <3>2
<1>8. CASE PollFails
  <2>1. Resting \in Poll
    BY DEF Resting, Poll
  <2> QED
    BY <1>8, <2>1, JobsKept DEF PollFails, Fails
<1> QED
  BY <1>1, <1>2, <1>3, <1>4, <1>5, <1>6, <1>7, <1>8 DEF PollStep

\* StoreContent, for a thread that brings a version or for the loader.
LEMMA StoreKeepsTypes ==
    ASSUME StoreTypeInv, NEW a \in Actors, NEW v \in Version, StoreContent(a, v)
    PROVE  StoreTypeInv'
<1> USE DEF StoreTypeInv, StoreTypeOK, envVars, diskVars, pastVars
<1> DEFINE j == [pc |-> IF NeedUpdate(memory, v) THEN "writing" ELSE Stored(a),
                 ver |-> v, label |-> v, local |-> FALSE]
<1>1. j \in Job /\ j.ver = v /\ j.label = v /\ j.pc \in {"writing", "set", "update"}
  <2> DEFINE pc == IF NeedUpdate(memory, v) THEN "writing" ELSE Stored(a)
  <2>1. pc \in {"writing", "set", "update"} /\ v \in 0..MaxVersion /\ v \in NoEntry..MaxVersion
    BY DEF Stored, Version, NoEntry
  <2> HIDE DEF pc
  <2>2. [pc |-> pc, ver |-> v, label |-> v, local |-> FALSE] \in Job
    BY <2>1 DEF Job
  <2> QED
    BY <2>1, <2>2 DEF pc
<1>2. job' = [job EXCEPT ![a] = j]
  BY DEF StoreContent
<1>3. job[a].pc = "loading"
  BY DEF StoreContent
<1> HIDE DEF j
<1>4. StoreTypeOK'
  <2>1. memory' \in 0..MaxVersion /\ snapshots' \subseteq Version
    BY DEF StoreContent, Version
  <2>2. job' \in [Actors -> Job]
    BY <1>1, <1>2, JobType
  <2>3. UNCHANGED <<envVars, verFile, spoilt, entry, loaded, purged, store, current, data, poll, pastVars>>
    BY DEF StoreContent
  <2> QED
    BY <2>1, <2>2, <2>3
<1>5. JobsOK'
  BY <1>1, <1>2, <1>3, ActorsType DEF StoreContent, JobsOK, Bringers, Labelled, Version, NoEntry
<1> QED
  BY <1>4, <1>5

\* A job that becomes another one, or moves on.
LEMMA JobBecomes ==
    ASSUME StoreTypeInv, NEW a \in Actors, NEW j \in Job, job' = [job EXCEPT ![a] = j],
           entry' # NoEntry, a \in Threads /\ j.pc \in Bringers => j.ver \in Version,
           j.pc \in {"writing", "copying"} => j.ver \in Version,
           j.pc \in Labelled => j.label # NoEntry
    PROVE  JobsOK' /\ job' \in [Actors -> Job]
<1>1. job \in [Actors -> Job]
  BY DEF StoreTypeInv, StoreTypeOK
<1>2. job'[a] = j /\ \A b \in Actors : b # a => job'[b] = job[b]
  BY <1>1
<1>3. JobsOK /\ Loader \in Actors /\ \A t \in Threads : t \in Actors
  BY ActorsType DEF StoreTypeInv
<1>4. \A t \in Threads : job'[t].pc \in Bringers => job'[t].ver \in Version
  BY <1>2, <1>3 DEF JobsOK
<1>5. job'[Loader].pc \in {"writing", "copying"} => job'[Loader].ver \in Version
  BY <1>2, <1>3 DEF JobsOK
<1>6. \A b \in Actors : job'[b].pc \in Labelled => job'[b].label # NoEntry
  BY <1>2, <1>3 DEF JobsOK
<1>7. JobsOK'
  BY <1>4, <1>5, <1>6 DEF JobsOK
<1> QED
  BY <1>1, <1>7

LEMMA JobMoves ==
    ASSUME StoreTypeInv, NEW a \in Actors, job[a].pc # "idle", entry' = entry \/ entry' # NoEntry,
           NEW pc \in PCs \ {"writing"}, job' = [job EXCEPT ![a].pc = pc],
           a \in Threads /\ pc \in Bringers => job[a].ver \in Version,
           pc = "copying" => job[a].ver \in Version,
           pc \in Labelled => job[a].label # NoEntry
    PROVE  JobsOK' /\ job' \in [Actors -> Job]
<1> DEFINE j == [job[a] EXCEPT !.pc = pc]
<1>1. job[a] \in Job /\ job \in [Actors -> Job]
  BY DEF StoreTypeInv, StoreTypeOK
<1>2. j \in Job /\ j.pc = pc /\ j.ver = job[a].ver /\ j.label = job[a].label
  BY <1>1 DEF Job, PCs
<1>3. job' = [job EXCEPT ![a] = j]
  BY <1>1
<1>4. entry' # NoEntry
  BY DEF StoreTypeInv, JobsOK
<1> HIDE DEF j
<1> QED
  BY <1>2, <1>3, <1>4, JobBecomes, Zenon

\* What a failing load or write adds to the spoilt files.
LEMMA SpoiltType ==
    ASSUME StoreTypeInv
    PROVE  /\ \A v \in 0..MaxVersion : spoilt \cup {v} \subseteq 0..MaxVersion /\ spoilt \ {v} \subseteq 0..MaxVersion
           /\ \A a \in Actors : LoadThrows(a) => UNCHANGED <<snapshots, verFile>> /\ spoilt' \subseteq 0..MaxVersion
           /\ Fails => failures' \in 0..MaxFailures /\ UNCHANGED <<crossed, outdated, crashes>>
<1>1. spoilt \subseteq 0..MaxVersion /\ failures \in 0..MaxFailures /\ (\A a \in Actors : job[a].ver \in 0..MaxVersion)
  BY DEF StoreTypeInv, StoreTypeOK, Job
<1>2. \A v \in 0..MaxVersion : spoilt \cup {v} \subseteq 0..MaxVersion /\ spoilt \ {v} \subseteq 0..MaxVersion
  BY <1>1
<1>3. \A a \in Actors : LoadThrows(a) => UNCHANGED <<snapshots, verFile>> /\ spoilt' \subseteq 0..MaxVersion
  BY <1>1, <1>2 DEF LoadThrows
<1>4. Fails => failures' \in 0..MaxFailures /\ UNCHANGED <<crossed, outdated, crashes>>
  BY <1>1 DEF Fails
<1> QED
  BY <1>2, <1>3, <1>4

LEMMA WriteKeepsTypes ==
    ASSUME StoreTypeInv, NEW a \in Actors,
           WriteSnapshot(a) \/ WriteFails(a) \/ RenameFails(a) \/ EndCopy(a)
    PROVE  StoreTypeInv'
<1> USE DEF StoreTypeInv, StoreTypeOK, envVars, pastVars
<1>1. job[a].pc \in {"writing", "copying"} /\ job[a].ver \in Version /\ Version \subseteq 0..MaxVersion
  BY ActorsType DEF WriteSnapshot, WriteFails, RenameFails, EndCopy, JobsOK, Bringers, Actors, Version
<1>2. PICK pc \in {"copying", "set", "update"} : job' = [job EXCEPT ![a].pc = pc] /\ entry' = entry
  <2>1. Stored(a) \in {"set", "update"}
    BY DEF Stored
  <2>2. entry' = entry /\ (Go(a, Stored(a)) \/ Go(a, "copying"))
    BY DEF WriteSnapshot, WriteFails, RenameFails, EndCopy
  <2> QED
    BY <2>1, <2>2 DEF Go
<1>3. JobsOK' /\ job' \in [Actors -> Job]
  BY <1>1, <1>2, JobMoves DEF JobsOK, Labelled, PCs
<1>4. snapshots' \subseteq Version /\ spoilt' \subseteq 0..MaxVersion
  BY <1>1, SpoiltType DEF WriteSnapshot, WriteFails, RenameFails, EndCopy
<1>5. failures' \in 0..MaxFailures /\ UNCHANGED <<crossed, outdated, crashes>>
  BY SpoiltType DEF WriteSnapshot, WriteFails, RenameFails, EndCopy
<1>6. UNCHANGED <<envVars, verFile, loaded, memory, purged, store, current, data, poll, entry>>
  BY DEF WriteSnapshot, WriteFails, RenameFails, EndCopy
<1> QED
  BY <1>3, <1>4, <1>5, <1>6

\* The threads that bring a version.
LEMMA ThreadKeepsTypes ==
    ASSUME StoreTypeInv, NEW t \in Threads,
           LoadFile(t) \/ LoadFails(t) \/ ReadVersion(t) \/ SwapVersion(t) \/ LabelVersion(t)
    PROVE  StoreTypeInv'
<1> USE DEF StoreTypeInv, envVars, diskVars, pastVars
<1>0. t \in Actors /\ job[t] \in Job /\ job \in [Actors -> Job] /\ Idle \in Job
      /\ entry \in NoEntry..MaxVersion
      /\ (job[t].pc \in Bringers => job[t].ver \in Version /\ entry # NoEntry)
  BY ActorsType, JobType DEF StoreTypeOK, JobsOK, Bringers
<1>1. CASE LoadFile(t)
  BY <1>0, <1>1, StoreKeepsTypes DEF LoadFile, Bringers
<1>2. CASE LoadFails(t)
  <2>1. JobsOK' /\ job' \in [Actors -> Job]
    BY <1>0, <1>2, JobOver, JobType DEF LoadFails, Done
  <2> QED
    BY <1>0, <1>2, <2>1, SpoiltType DEF LoadFails, LoadThrows, StoreTypeOK
<1>3. ASSUME job' = [job EXCEPT ![t] = Idle], entry' = entry PROVE JobsOK' /\ job' \in [Actors -> Job]
  BY <1>0, <1>3, JobOver, JobType
<1>4. ASSUME NEW pc \in {"cas", "set"}, job[t].pc \in Bringers, entry' = entry,
             job' = [job EXCEPT ![t].pc = pc, ![t].label = entry]
      PROVE  JobsOK' /\ job' \in [Actors -> Job]
  <2> DEFINE j == [job[t] EXCEPT !.pc = pc, !.label = entry]
  <2>1. j \in Job /\ j.pc = pc /\ j.label = entry /\ j.ver = job[t].ver
    BY <1>0 DEF Job
  <2>2. job' = [job EXCEPT ![t] = j]
    BY <1>0, <1>4
  <2> HIDE DEF j
  <2> QED
    BY <1>0, <1>4, <2>1, <2>2, JobBecomes DEF Labelled
<1>5. CASE ReadVersion(t)
  <2>1. JobsOK' /\ job' \in [Actors -> Job]
    BY <1>3, <1>4, <1>5 DEF ReadVersion, Done, Bringers
  <2> QED
    BY <1>5, <2>1 DEF ReadVersion, StoreTypeOK
<1>6. CASE SwapVersion(t)
  <2>1. CASE entry = job[t].label
    <3>1. entry' = job[t].ver /\ job[t].pc = "cas" /\ job[t].pc \in Bringers
          /\ job' = [job EXCEPT ![t].pc = "changed"]
      BY <1>6, <2>1 DEF SwapVersion, Go, Bringers
    <3>2. entry' \in NoEntry..MaxVersion /\ entry' # NoEntry
      BY <1>0, <3>1 DEF Version, NoEntry
    <3>3. JobsOK' /\ job' \in [Actors -> Job]
      BY <1>0, <3>1, <3>2, JobMoves DEF PCs, Labelled
    <3> QED
      BY <1>6, <2>1, <3>2, <3>3 DEF SwapVersion, StoreTypeOK
  <2>2. CASE entry # job[t].label
    <3>1. JobsOK' /\ job' \in [Actors -> Job]
      BY <1>3, <1>6, <2>2 DEF SwapVersion, Done
    <3> QED
      BY <1>6, <2>2, <3>1 DEF SwapVersion, StoreTypeOK
  <2> QED
    BY <2>1, <2>2
<1>7. CASE LabelVersion(t)
  <2>1. JobsOK' /\ job' \in [Actors -> Job]
    BY <1>3, <1>4, <1>7 DEF LabelVersion, Done, Bringers
  <2> QED
    BY <1>7, <2>1 DEF LabelVersion, StoreTypeOK
<1> QED
  BY <1>1, <1>2, <1>5, <1>6, <1>7

\* The label that is set is a version or 0, and what Leave leaves behind is well-typed.
LEMMA LeaveKeepsTypes ==
    ASSUME StoreTypeInv, NEW a \in Actors, Leave(a), entry' = entry,
           job[a].pc \in {"init", "set", "file", "nofile"}
    PROVE  JobsOK' /\ job' \in [Actors -> Job] /\ loaded' \in BOOLEAN
<1>1. job[a].label # NoEntry
  BY DEF StoreTypeInv, JobsOK, Labelled
<1>2. loaded' \in BOOLEAN
  BY DEF Leave, StoreTypeInv, StoreTypeOK
<1>3. CASE a = Loader
  BY <1>1, <1>2, <1>3, ActorsType, JobMoves DEF Leave, Go, PCs, Bringers
<1>4. CASE a # Loader
  <2>1. job' = [job EXCEPT ![a] = Idle]
    BY <1>4 DEF Leave, Done
  <2>2. JobsOK'
    BY <2>1, JobOver
  <2>3. Idle \in Job /\ job \in [Actors -> Job]
    BY JobType DEF StoreTypeInv, StoreTypeOK
  <2> QED
    BY <1>2, <2>1, <2>2, <2>3
<1> QED
  BY <1>3, <1>4

LEMMA GiveUpKeepsTypes ==
    ASSUME StoreTypeInv, GiveUp, crashes' = crashes, failures' \in 0..MaxFailures,
           crossed' = crossed, outdated' \in BOOLEAN, spoilt' \subseteq 0..MaxVersion
    PROVE  StoreTypeInv'
<1>1. JobsOK' /\ job' \in [Actors -> Job]
  BY ActorsType, JobOver, JobType DEF GiveUp, Done, StoreTypeInv
<1>2. data' \in Data
  BY DEF GiveUp, Data, StoreTypeInv, StoreTypeOK
<1> QED
  BY <1>1, <1>2 DEF GiveUp, StoreTypeInv, StoreTypeOK, envVars, diskVars

LEMMA SettingKeepsTypes ==
    ASSUME StoreTypeInv, NEW a \in Actors, Setting(a) \/ FileFails(a)
    PROVE  StoreTypeInv'
<1> USE DEF StoreTypeInv, envVars, diskVars, pastVars
<1>0. job[a] \in Job /\ job \in [Actors -> Job] /\ job[a].ver \in 0..MaxVersion
      /\ (job[a].pc \in {"init", "set", "file", "nofile"} => job[a].label \in 0..MaxVersion)
  <2>1. job[a] \in Job /\ job \in [Actors -> Job]
    BY DEF StoreTypeOK
  <2>2. job[a].label \in NoEntry..MaxVersion /\ job[a].ver \in 0..MaxVersion
    BY <2>1 DEF Job
  <2>3. job[a].pc \in {"init", "set", "file", "nofile"} => job[a].label # NoEntry
    BY DEF JobsOK, Labelled
  <2> QED
    BY <2>1, <2>2, <2>3 DEF NoEntry
<1>1. ASSUME NEW pc \in {"file", "nofile"}, Relabel(a, pc), verFile' \in {0, verFile},
             spoilt' \subseteq 0..MaxVersion, failures' \in 0..MaxFailures
      PROVE  StoreTypeInv'
  <2> DEFINE j == [job[a] EXCEPT !.pc = pc, !.local = IsCut(a),
                                 !.ver = IF job[a].local THEN job[a].label ELSE job[a].ver]
  <2>1. job[a].pc \in {"init", "set"} /\ job' = [job EXCEPT ![a] = j]
    BY <1>0, <1>1 DEF Relabel, FoundInLocal
  <2>2. (IF job[a].local THEN job[a].label ELSE job[a].ver) \in 0..MaxVersion /\ IsCut(a) \in BOOLEAN
    BY <1>0, <2>1 DEF IsCut, Job
  <2>3. j \in Job /\ j.pc = pc /\ j.label = job[a].label
    BY <1>0, <2>2 DEF Job
  <2>4. entry' = entry /\ entry # NoEntry /\ job[a].label # NoEntry
    BY <1>1, <2>1 DEF Relabel, JobsOK, Labelled
  <2> HIDE DEF j
  <2>5. JobsOK' /\ job' \in [Actors -> Job]
    BY <2>1, <2>3, <2>4, JobBecomes DEF Bringers
  <2>6. Remote(job[a].label) \in FileVersion
    BY <1>0, <2>1 DEF FileVersion
  <2>7. outdated' \in BOOLEAN /\ verFile' \in 0..MaxVersion
    BY <1>1 DEF Relabel, StoreTypeOK
  <2> QED
    BY <1>1, <2>5, <2>6, <2>7 DEF Relabel, StoreTypeOK
<1>2. CASE SetVersion(a) \/ FileFails(a)
  <2>1. CASE SetVersion(a)
    BY <1>1, <2>1 DEF SetVersion, StoreTypeOK
  <2>2. CASE FileFails(a)
    <3>1. failures' \in 0..MaxFailures
      BY <2>2 DEF FileFails, StoreTypeOK
    <3>2. 0 \in 0..MaxVersion
      OBVIOUS
    <3> QED
      BY <1>1, <2>2, <3>1, <3>2, SpoiltType DEF FileFails
  <2> QED
    BY <1>2, <2>1, <2>2
<1>3. CASE KeepCurrent(a)
  <2>1. job[a].pc \in {"init", "set"}
    BY <1>3 DEF KeepCurrent, FoundInLocal
  <2>2. JobsOK' /\ job' \in [Actors -> Job] /\ loaded' \in BOOLEAN
    BY <1>3, <2>1, LeaveKeepsTypes DEF KeepCurrent
  <2> QED
    BY <1>3, <2>2 DEF KeepCurrent, StoreTypeOK
<1>4. CASE ReadFails(a)
  <2>0. UNCHANGED <<spoilt, crossed, crashes, failures>> /\ outdated' \in BOOLEAN
    BY <1>4 DEF ReadFails, StoreTypeOK
  <2>1. CASE a = Loader
    <3>1. GiveUp
      BY <1>4, <2>1 DEF ReadFails
    <3>2. failures \in 0..MaxFailures /\ spoilt \subseteq 0..MaxVersion
      BY DEF StoreTypeOK
    <3> QED
      BY <2>0, <3>1, <3>2, GiveUpKeepsTypes
  <2>2. CASE a # Loader
    <3>1. JobsOK' /\ job' \in [Actors -> Job] /\ loaded' \in BOOLEAN
      BY <1>4, <2>2, LeaveKeepsTypes DEF ReadFails
    <3> QED
      BY <1>4, <2>0, <2>2, <3>1 DEF ReadFails, StoreTypeOK
  <2> QED
    BY <2>1, <2>2
<1>5. CASE UseVersion(a)
  <2>0. job[a].pc \in {"file", "nofile"}
    BY <1>5 DEF UseVersion, Holds
  <2>1. JobsOK' /\ job' \in [Actors -> Job] /\ loaded' \in BOOLEAN
    BY <1>5, <2>0, LeaveKeepsTypes DEF UseVersion
  <2>2. data' \in Data
    BY <1>0, <1>5, <2>0 DEF UseVersion, Data, FileVersion
  <2>3. verFile' \in 0..MaxVersion /\ spoilt' \subseteq 0..MaxVersion
    BY <1>0, <1>5, <2>0 DEF UseVersion, StoreTypeOK
  <2>4. Kept(job[a].label) \subseteq snapshots
    BY DEF Kept
  <2> QED
    BY <1>0, <1>5, <2>1, <2>2, <2>3, <2>4 DEF UseVersion, StoreTypeOK
<1> QED
  BY <1>2, <1>3, <1>4, <1>5 DEF Setting

\* The first load.
LEMMA LoaderKeepsTypes ==
    ASSUME StoreTypeInv, Load \/ Wake \/ AskServer \/ NotFound \/ ForceFails \/ Report
    PROVE  StoreTypeInv'
<1> USE DEF StoreTypeInv, envVars, diskVars, pastVars
<1>0. Loader \in Actors /\ Loader \notin Threads /\ job[Loader] \in Job
      /\ job \in [Actors -> Job] /\ entry \in NoEntry..MaxVersion /\ verFile \in 0..MaxVersion
      /\ (job[Loader].pc # "idle" => entry # NoEntry)
  BY ActorsType DEF StoreTypeOK, JobsOK
<1>1. CASE Load
  <2>1. CASE override # 0
    <3>1. Override(override) \in FileVersion /\ Override(override) \in Data
      BY <2>1 DEF StoreTypeOK, FileVersion, Data
    <3> QED
      BY <1>1, <2>1, <3>1, JobsKept DEF Load, StoreTypeOK
  <2>2. CASE override = 0
    <3> DEFINE pc == IF entry = NoEntry THEN "init" ELSE "waiting"
    <3> DEFINE j == [Idle EXCEPT !.pc = pc]
    <3>1. pc \in {"init", "waiting"}
      OBVIOUS
    <3>2. job' = [job EXCEPT ![Loader] = j]
      BY <1>1, <2>2 DEF Load
    <3>3. entry' \in NoEntry..MaxVersion /\ entry' # NoEntry
      BY <1>0, <1>1, <2>2 DEF Load, NoEntry
    <3> HIDE DEF pc
    <3>4. j \in Job /\ j.pc = pc /\ j.label = 0 /\ NoEntry # 0
      <4>1. Idle \in Job /\ Idle.label = 0 /\ NoEntry # 0
        BY DEF Idle, Job, NoEntry
      <4> QED
        BY <3>1, <4>1 DEF Job
    <3> HIDE DEF j
    <3>5. JobsOK' /\ job' \in [Actors -> Job]
      BY <1>0, <3>1, <3>2, <3>3, <3>4, JobBecomes DEF Bringers, Labelled
    <3> QED
      BY <1>1, <2>2, <3>3, <3>5 DEF Load, StoreTypeOK
  <2> QED
    BY <2>1, <2>2
<1>2. CASE Wake
  <2> DEFINE j == [pc |-> "init", ver |-> entry, label |-> entry, local |-> TRUE]
  <2>1. entry # NoEntry /\ job' = [job EXCEPT ![Loader] = j] /\ entry' = entry
    BY <1>0, <1>2 DEF Wake
  <2>2. entry \in 0..MaxVersion
    BY <1>0, <2>1 DEF NoEntry
  <2>3. j \in Job
    BY <1>0, <2>2 DEF Job
  <2>4. j.pc = "init" /\ j.label = entry
    OBVIOUS
  <2> HIDE DEF j
  <2>5. JobsOK' /\ job' \in [Actors -> Job]
    BY <1>0, <2>1, <2>3, <2>4, JobBecomes DEF Bringers
  <2> QED
    BY <1>2, <2>5 DEF Wake, StoreTypeOK
<1>3. CASE AskServer
  <2>1. JobsOK' /\ job' \in [Actors -> Job]
    BY <1>0, <1>3, JobMoves DEF AskServer, Go, PCs, Labelled
  <2> QED
    BY <1>3, <2>1 DEF AskServer, StoreTypeOK
<1>4. CASE NotFound
  BY <1>4, GiveUpKeepsTypes DEF NotFound, StoreTypeOK
<1>5. CASE ForceFails
  <2>1. failures' \in 0..MaxFailures /\ crashes' = crashes /\ UNCHANGED <<snapshots, verFile, crossed, outdated>>
        /\ spoilt' \subseteq 0..MaxVersion /\ outdated \in BOOLEAN /\ job[Loader].pc # "idle"
    BY <1>0, <1>5, SpoiltType DEF ForceFails, LoadThrows, StoreTypeOK
  <2>2. CASE Fallback
    <3> DEFINE j == [pc |-> "set", ver |-> verFile, label |-> verFile, local |-> TRUE]
    <3>1. job' = [job EXCEPT ![Loader] = j] /\ entry' = entry /\ entry # NoEntry
      BY <1>0, <1>5, <2>1, <2>2 DEF ForceFails
    <3>2. j \in Job /\ verFile # NoEntry
      <4>1. verFile \in NoEntry..MaxVersion /\ verFile # NoEntry
        BY <1>0 DEF NoEntry
      <4> QED
        BY <1>0, <4>1 DEF Job
    <3>3. j.pc = "set" /\ j.label = verFile
      OBVIOUS
    <3> HIDE DEF j
    <3>4. JobsOK' /\ job' \in [Actors -> Job]
      BY <1>0, <3>1, <3>2, <3>3, JobBecomes DEF Bringers
    <3> QED
      BY <1>5, <2>1, <2>2, <3>4 DEF ForceFails, StoreTypeOK
  <2>3. CASE ~Fallback
    BY <1>5, <2>1, <2>3, GiveUpKeepsTypes DEF ForceFails
  <2> QED
    BY <2>2, <2>3
<1>6. CASE Report
  <2>1. job[Loader].label \in NoEntry..MaxVersion /\ job[Loader].label # NoEntry
    BY <1>0, <1>6 DEF Report, JobsOK, Labelled, Job
  <2>2. entry' \in NoEntry..MaxVersion /\ (entry' = entry \/ entry' # NoEntry)
    BY <1>0, <1>6, <2>1 DEF Report
  <2>3. job' = [job EXCEPT ![Loader] = Idle]
    BY <1>6 DEF Report, Done
  <2>4. JobsOK' /\ job' \in [Actors -> Job]
    BY <1>0, <2>2, <2>3, JobOver, JobType
  <2>5. outdated' \in BOOLEAN
    BY <1>6 DEF Report, StoreTypeOK
  <2> QED
    BY <1>6, <2>2, <2>4, <2>5 DEF Report, StoreTypeOK
<1> QED
  BY <1>1, <1>2, <1>3, <1>4, <1>5, <1>6

LEMMA RestartKeepsTypes ==
    ASSUME StoreTypeInv, Restart
    PROVE  StoreTypeInv'
<1> USE DEF StoreTypeInv, StoreTypeOK, envVars, diskVars
<1>1. job' = [a \in Actors |-> Idle]
  BY DEF Restart
<1>2. Idle \in Job /\ Idle.pc = "idle"
  BY DEF Idle, Job, NoEntry
<1>3. JobsOK'
  BY <1>1, <1>2, ActorsType DEF JobsOK, Bringers, Labelled
<1>4. job' \in [Actors -> Job]
  BY <1>1, <1>2
<1>12. PICK found \in {NoEntry} \cup 0..MaxVersion :
           entry' = found /\ poll' = IF found = NoEntry THEN Resting ELSE [pc |-> "preload", asked |-> found]
  BY DEF Restart, Found
<1>5. poll' \in Poll
  BY <1>12 DEF Poll, Resting, NoEntry
<1>6. entry' \in NoEntry..MaxVersion
  BY <1>12 DEF NoEntry
<1>7. None \in FileVersion /\ None \in Data
  BY DEF FileVersion, Data
<1>8. current' \in FileVersion /\ data' \in Data /\ store' \in BOOLEAN /\ loaded' \in BOOLEAN
      /\ purged' \in BOOLEAN
  BY <1>7 DEF Restart
<1>11. memory' \in 0..MaxVersion /\ crashes' \in 0..MaxCrashes
       /\ crossed' = FALSE /\ outdated' = FALSE
  BY DEF Restart, StoreTypeOK
<1>9. UNCHANGED <<envVars, diskVars, failures>>
  BY DEF Restart
<1>10. StoreTypeOK'
  BY <1>4, <1>5, <1>6, <1>8, <1>9, <1>11
<1> QED
  BY <1>3, <1>10

LEMMA InitHasTypes == StoreInit => StoreTypeInv
<1> SUFFICES ASSUME StoreInit PROVE StoreTypeInv
  OBVIOUS
<1>1. Idle \in Job /\ Idle.pc = "idle" /\ Resting \in Poll
  BY DEF Idle, Job, NoEntry, Resting, Poll
<1>2. None \in FileVersion /\ None \in Data /\ NoEntry \in NoEntry..MaxVersion
  BY DEF FileVersion, Data, NoEntry
<1>3. StoreTypeOK
  <2>1. job \in [Actors -> Job] /\ poll \in Poll
    BY <1>1 DEF StoreInit
  <2>2. current \in FileVersion /\ data \in Data /\ entry \in NoEntry..MaxVersion
    BY <1>2 DEF StoreInit
  <2>3. /\ published \in 0..MaxVersion /\ override \in 0..MaxOverrides /\ edits \in 0..MaxOverrides /\ override <= edits
        /\ verFile \in 0..MaxVersion /\ memory \in 0..MaxVersion
        /\ crashes \in 0..MaxCrashes /\ failures \in 0..MaxFailures
    BY DEF StoreInit
  <2>4. /\ snapshots \subseteq Version /\ spoilt \subseteq 0..MaxVersion
        /\ crossed \in BOOLEAN /\ outdated \in BOOLEAN
        /\ loaded \in BOOLEAN /\ purged \in BOOLEAN /\ store \in BOOLEAN
    BY DEF StoreInit
  <2> QED
    BY <2>1, <2>2, <2>3, <2>4 DEF StoreTypeOK
<1>4. JobsOK
  BY <1>1, ActorsType DEF StoreInit, JobsOK, Bringers, Labelled
<1> QED
  BY <1>3, <1>4 DEF StoreTypeInv

LEMMA NextKeepsTypes == StoreTypeInv /\ [StoreNext]_storeVars => StoreTypeInv'
<1> SUFFICES ASSUME StoreTypeInv, [StoreNext]_storeVars PROVE StoreTypeInv'
  OBVIOUS
<1>1. CASE Publish \/ EditOverride \/ RemoveOverride
  BY <1>1, EnvironmentKeepsTypes
<1>2. CASE PollStep \/ PollFails
  BY <1>2, PollKeepsTypes
<1>3. CASE Load \/ Wake \/ AskServer \/ NotFound \/ ForceFails \/ Report
  BY <1>3, LoaderKeepsTypes
<1>4. ASSUME NEW v \in Version, ForceLoad(v) PROVE StoreTypeInv'
  BY <1>4, StoreKeepsTypes, ActorsType DEF ForceLoad
<1>5. ASSUME NEW a \in Actors, WriteSnapshot(a) \/ EndCopy(a) \/ Setting(a) \/ WritingFails(a) PROVE StoreTypeInv'
  BY <1>5, WriteKeepsTypes, SettingKeepsTypes DEF WritingFails
<1>6. ASSUME NEW t \in Threads, ThreadStep(t) \/ LoadFails(t) PROVE StoreTypeInv'
  BY <1>5, <1>6, ThreadKeepsTypes, ActorsType DEF ThreadStep
<1>7. CASE Restart
  BY <1>7, RestartKeepsTypes
<1>8. CASE UNCHANGED storeVars
  BY <1>8 DEF storeVars, envVars, diskVars, pastVars, StoreTypeInv, StoreTypeOK, JobsOK
<1> QED
  BY <1>1, <1>2, <1>3, <1>4, <1>5, <1>6, <1>7, <1>8, ActorsType DEF StoreNext, LoaderStep, Failure

\* Every variable keeps its type.
THEOREM StoreTypes == StoreSpec => []StoreTypeOK
<1>1. StoreSpec => []StoreTypeInv
  BY InitHasTypes, NextKeepsTypes, PTL DEF StoreSpec
<1>2. StoreTypeInv => StoreTypeOK
  BY DEF StoreTypeInv
<1> QED
  BY <1>1, <1>2, PTL
-----------------------------------------------------------------------------

\* What becomes of the jobs when one moves on or gets another record.
LEMMA Moved ==
    ASSUME StoreTypeInv, NEW a \in Actors, NEW pc, job' = [job EXCEPT ![a].pc = pc]
    PROVE  /\ job'[a].pc = pc /\ job'[a].ver = job[a].ver
           /\ job'[a].label = job[a].label /\ job'[a].local = job[a].local
           /\ \A b \in Actors : b # a => job'[b] = job[b]
<1>1. job \in [Actors -> Job] /\ job[a] \in Job
  BY DEF StoreTypeInv, StoreTypeOK
<1>2. job'[a] = [job[a] EXCEPT !.pc = pc] /\ \A b \in Actors : b # a => job'[b] = job[b]
  BY <1>1
<1> QED
  BY <1>1, <1>2 DEF Job

LEMMA Became ==
    ASSUME StoreTypeInv, NEW a \in Actors, NEW j, job' = [job EXCEPT ![a] = j]
    PROVE  job'[a] = j /\ \A b \in Actors : b # a => job'[b] = job[b]
  BY DEF StoreTypeInv, StoreTypeOK

LEMMA IdleFields == Idle.pc = "idle" /\ Idle.ver = 0 /\ Idle.label = 0 /\ Idle.local = FALSE
  BY DEF Idle

\* Steps of an actor that neither takes nor holds the monitor.
LEMMA LockKept ==
    ASSUME StoreTypeInv, LockInv, UNCHANGED <<current, data, store>>, NEW a \in Actors,
           \A b \in Actors : b # a => job'[b] = job[b],
           ~Holds(a)', a = Loader /\ job'[a].pc # "idle" => store,
           a \in Threads /\ job'[a].pc = "set" => store
    PROVE  LockInv'
  BY ActorsType DEF LockInv, Holds

LEMMA EnvironmentKeepsLock ==
    ASSUME StoreTypeInv, LockInv,
           \/ Publish \/ EditOverride \/ RemoveOverride
           \/ ForgetVersion \/ StartPoll \/ NoChange \/ Purge \/ PollFails
    PROVE  LockInv'
<1>1. UNCHANGED <<current, data, store, job>>
  BY DEF Publish, EditOverride, RemoveOverride, ForgetVersion, StartPoll, NoChange,
         Purge, PollFails
<1> QED
  BY <1>1 DEF LockInv, Holds

LEMMA OverrideKeepsLock ==
    ASSUME StoreTypeInv, LockInv, UseOverride \/ LeaveOverride
    PROVE  LockInv'
<1>1. UNCHANGED <<store, job>> /\ store
  BY DEF UseOverride, LeaveOverride
<1>2. \A a \in Actors : ~Holds(a)
  <2>1. CASE UseOverride
    BY <2>1 DEF UseOverride, Locked
  <2>2. CASE LeaveOverride
    BY <2>2 DEF LeaveOverride, LockInv, Remote
  <2> QED
    BY <2>1, <2>2
<1>3. FailOnNotExists /\ current'.type = "override" => data' = current'
  BY DEF UseOverride, LeaveOverride, Remote
<1> QED
  BY <1>1, <1>2, <1>3 DEF LockInv, Holds

\* What the steps of an actor do to its job.
LEMMA JobStep ==
    ASSUME StoreTypeInv, NEW a \in Actors
    PROVE  /\ \A pc : Go(a, pc) => /\ \A b \in Actors : b # a => job'[b] = job[b]
                                   /\ job'[a].pc = pc /\ job'[a].ver = job[a].ver
                                   /\ job'[a].label = job[a].label /\ job'[a].local = job[a].local
           /\ Done(a) => (\A b \in Actors : b # a => job'[b] = job[b]) /\ job'[a] = Idle
           /\ \A j : job' = [job EXCEPT ![a] = j] =>
                 (\A b \in Actors : b # a => job'[b] = job[b]) /\ job'[a] = j
           /\ \A pc : job' = [job EXCEPT ![a].pc = pc, ![a].label = entry] =>
                 /\ \A b \in Actors : b # a => job'[b] = job[b]
                 /\ job'[a].pc = pc /\ job'[a].ver = job[a].ver
                 /\ job'[a].label = entry /\ job'[a].local = job[a].local
<1>1. job \in [Actors -> Job] /\ job[a] \in Job
  BY DEF StoreTypeInv, StoreTypeOK
<1>2. ASSUME NEW j, job' = [job EXCEPT ![a] = j]
      PROVE  (\A b \in Actors : b # a => job'[b] = job[b]) /\ job'[a] = j
  BY <1>1, <1>2
<1>3. ASSUME NEW pc, job' = [job EXCEPT ![a].pc = pc, ![a].label = entry]
      PROVE  /\ \A b \in Actors : b # a => job'[b] = job[b]
             /\ job'[a].pc = pc /\ job'[a].ver = job[a].ver
             /\ job'[a].label = entry /\ job'[a].local = job[a].local
  <2>1. job'[a] = [job[a] EXCEPT !.pc = pc, !.label = entry] /\ \A b \in Actors : b # a => job'[b] = job[b]
    BY <1>1, <1>3
  <2> QED
    BY <1>1, <2>1 DEF Job
<1>4. ASSUME NEW pc, Go(a, pc)
      PROVE  /\ \A b \in Actors : b # a => job'[b] = job[b]
             /\ job'[a].pc = pc /\ job'[a].ver = job[a].ver
             /\ job'[a].label = job[a].label /\ job'[a].local = job[a].local
  BY <1>4, Moved DEF Go
<1>5. Done(a) => (\A b \in Actors : b # a => job'[b] = job[b]) /\ job'[a] = Idle
  BY <1>2 DEF Done
<1> QED
  BY <1>2, <1>3, <1>4, <1>5

\* A thread's step, and the loader's, before the version is set.
ThreadMoves(t) ==
    \/ \E v \in Version : TakeAnswer(v, t)
    \/ LoadFile(t) \/ LoadFails(t) \/ ReadVersion(t) \/ SwapVersion(t) \/ LabelVersion(t)
Writes(a) == WriteSnapshot(a) \/ WriteFails(a) \/ RenameFails(a) \/ EndCopy(a)
LoaderMoves ==
    \/ Wake \/ AskServer \/ NotFound \/ ForceFails \/ Report
    \/ \E v \in Version : ForceLoad(v)

LEMMA StoreContentStep ==
    ASSUME StoreTypeInv, NEW a \in Actors, NEW v, StoreContent(a, v)
    PROVE  /\ \A b \in Actors : b # a => job'[b] = job[b]
           /\ job'[a].pc \in {"writing", Stored(a)} /\ job'[a].ver = v /\ job'[a].label = v
           /\ job'[a].local = FALSE
<1> DEFINE pc == IF NeedUpdate(memory, v) THEN "writing" ELSE Stored(a)
<1> DEFINE j == [pc |-> pc, ver |-> v, label |-> v, local |-> FALSE]
<1>1. job' = [job EXCEPT ![a] = j]
  BY DEF StoreContent
<1>2. pc \in {"writing", Stored(a)}
  OBVIOUS
<1> HIDE DEF pc
<1>3. j.pc = pc /\ j.ver = v /\ j.label = v /\ j.local = FALSE
  OBVIOUS
<1> HIDE DEF j
<1>4. job'[a] = j /\ \A b \in Actors : b # a => job'[b] = job[b]
  BY <1>1, JobStep
<1> QED
  BY <1>2, <1>3, <1>4

LEMMA ThreadStepOf ==
    ASSUME StoreTypeInv, NEW t \in Threads, ThreadMoves(t)
    PROVE  /\ UNCHANGED <<current, data, store, crossed, edits, override>>
           /\ \A b \in Actors : b # t => job'[b] = job[b]
           /\ job'[t] # job[t] => job[t].pc \in Bringers \ {"set"} \/ job[t] = Idle
           /\ \/ job'[t] = job[t]
              \/ job'[t].pc \in {"idle", "update", "loading", "writing", "cas", "changed"}
              \/ LabelVersion(t) /\ store /\ job'[t].pc = "set"
<1>0. t \in Actors /\ t # Loader /\ job \in [Actors -> Job] /\ Stored(t) = "update"
  BY ActorsType DEF StoreTypeInv, StoreTypeOK, Stored
<1>1. CASE \E v \in Version : TakeAnswer(v, t)
  <2>1. PICK v \in Version : TakeAnswer(v, t)
    BY <1>1
  <2>2. UNCHANGED <<current, data, store, crossed, edits, override>>
    BY <2>1 DEF TakeAnswer, envVars, pastVars
  <2>3. CASE entry # NoEntry /\ NeedUpdate(entry, v)
    <3> DEFINE pc == IF v \in snapshots THEN "update" ELSE "loading"
    <3> DEFINE local == v \in snapshots
    <3>1. job[t] = Idle /\ job' = [job EXCEPT ![t] = [pc |-> pc, ver |-> v, label |-> 0, local |-> local]]
      BY <2>1, <2>3 DEF TakeAnswer
    <3>2. pc \in {"update", "loading"}
      OBVIOUS
    <3> HIDE DEF pc, local
    <3> QED
      BY <1>0, <2>2, <3>1, <3>2, JobStep
  <2>4. CASE ~(entry # NoEntry /\ NeedUpdate(entry, v))
    BY <2>1, <2>2, <2>4 DEF TakeAnswer
  <2> QED
    BY <2>3, <2>4
<1>2. CASE LoadFile(t)
  BY <1>0, <1>2, StoreContentStep DEF LoadFile, StoreContent, envVars, pastVars, Bringers
<1>3. CASE LoadFails(t)
  BY <1>0, <1>3, JobStep, IdleFields DEF LoadFails, LoadThrows, Fails, envVars, pastVars, Bringers
<1>4. CASE ReadVersion(t)
  <2>1. UNCHANGED <<current, data, store, crossed, edits, override>> /\ job[t].pc \in Bringers \ {"set"}
    BY <1>4 DEF ReadVersion, envVars, pastVars, Bringers
  <2>2. Done(t) \/ job' = [job EXCEPT ![t].pc = "cas", ![t].label = entry]
    BY <1>4 DEF ReadVersion
  <2> QED
    BY <1>0, <2>1, <2>2, JobStep, IdleFields
<1>5. CASE SwapVersion(t)
  <2>1. UNCHANGED <<current, data, store, crossed, edits, override>> /\ job[t].pc \in Bringers \ {"set"}
    BY <1>5 DEF SwapVersion, envVars, pastVars, Bringers
  <2>2. Done(t) \/ Go(t, "changed")
    BY <1>5 DEF SwapVersion
  <2> QED
    BY <1>0, <2>1, <2>2, JobStep, IdleFields
<1>6. CASE LabelVersion(t)
  <2>1. UNCHANGED <<current, data, store, crossed, edits, override>> /\ job[t].pc \in Bringers \ {"set"}
    BY <1>6 DEF LabelVersion, envVars, pastVars, Bringers
  <2>2. Done(t) \/ (store /\ job' = [job EXCEPT ![t].pc = "set", ![t].label = entry])
    BY <1>6 DEF LabelVersion
  <2> QED
    BY <1>0, <1>6, <2>1, <2>2, JobStep, IdleFields
<1> QED
  BY <1>1, <1>2, <1>3, <1>4, <1>5, <1>6 DEF ThreadMoves

LEMMA WriteStepOf ==
    ASSUME StoreTypeInv, NEW a \in Actors, Writes(a)
    PROVE  /\ UNCHANGED <<current, data, store, crossed, outdated, edits, override, entry, poll, verFile, loaded>>
           /\ \A b \in Actors : b # a => job'[b] = job[b]
           /\ job[a].pc \in {"writing", "copying"} /\ job'[a].pc \in {"copying", Stored(a)}
           /\ job'[a].ver = job[a].ver /\ job'[a].label = job[a].label /\ job'[a].local = job[a].local
<1>1. UNCHANGED <<current, data, store, crossed, outdated, edits, override, entry, poll, verFile, loaded>>
      /\ job[a].pc \in {"writing", "copying"}
  BY DEF Writes, WriteSnapshot, WriteFails, RenameFails, EndCopy, Fails, envVars, pastVars
<1>2. PICK pc \in {"copying", Stored(a)} : Go(a, pc)
  BY DEF Writes, WriteSnapshot, WriteFails, RenameFails, EndCopy
<1> QED
  BY <1>1, <1>2, JobStep

LEMMA LoaderStepOf ==
    ASSUME StoreTypeInv, LoaderMoves
    PROVE  /\ UNCHANGED <<current, store, crossed, edits, override, poll>> /\ (FailOnNotExists => data' = data)
           /\ \A b \in Actors : b # Loader => job'[b] = job[b]
           /\ job[Loader].pc \in {"waiting", "init", "loading", "writing", "report"}
           /\ job'[Loader].pc \in {"idle", "init", "loading", "writing", "set"}
<1>0. Loader \in Actors /\ Stored(Loader) = "set"
  BY ActorsType DEF Stored
<1>1. CASE Wake
  <2> DEFINE j == [pc |-> "init", ver |-> entry, label |-> entry, local |-> TRUE]
  <2>1. job' = [job EXCEPT ![Loader] = j] /\ j.pc = "init"
    BY <1>1 DEF Wake
  <2> HIDE DEF j
  <2>2. job'[Loader] = j /\ \A b \in Actors : b # Loader => job'[b] = job[b]
    BY <1>0, <2>1, Became
  <2>3. UNCHANGED <<current, data, store, crossed, edits, override, poll>> /\ job[Loader].pc = "waiting"
    BY <1>1 DEF Wake, envVars, pastVars
  <2> QED
    BY <2>1, <2>2, <2>3
<1>2. CASE AskServer
  BY <1>0, <1>2, JobStep DEF AskServer, envVars, pastVars
<1>3. CASE NotFound
  BY <1>0, <1>3, JobStep, IdleFields DEF NotFound, GiveUp, envVars, pastVars
<1>4. CASE ForceFails
  <2>1. UNCHANGED <<current, store, crossed, edits, override, poll>> /\ (FailOnNotExists => data' = data)
        /\ job[Loader].pc \in {"loading", "writing"}
    BY <1>4 DEF ForceFails, LoadThrows, Fails, GiveUp, envVars, pastVars
  <2>2. \/ Done(Loader)
        \/ job' = [job EXCEPT ![Loader] = [pc |-> "set", ver |-> verFile, label |-> verFile, local |-> TRUE]]
    BY <1>4 DEF ForceFails, GiveUp
  <2> QED
    BY <1>0, <2>1, <2>2, JobStep, IdleFields
<1>5. CASE Report
  BY <1>0, <1>5, JobStep, IdleFields DEF Report, envVars, pastVars
<1>6. ASSUME NEW v \in Version, ForceLoad(v)
      PROVE  /\ UNCHANGED <<current, data, store, crossed, edits, override, poll>>
             /\ \A b \in Actors : b # Loader => job'[b] = job[b]
             /\ job[Loader].pc = "loading" /\ job'[Loader].pc \in {"writing", "set"}
  BY <1>0, <1>6, StoreContentStep DEF ForceLoad, StoreContent, envVars, pastVars
<1> QED
  BY <1>1, <1>2, <1>3, <1>4, <1>5, <1>6 DEF LoaderMoves

LEMMA RelabelStep ==
    ASSUME StoreTypeInv, NEW a \in Actors, NEW pc, Relabel(a, pc)
    PROVE  /\ \A b \in Actors : b # a => job'[b] = job[b]
           /\ job'[a].pc = pc /\ job'[a].label = job[a].label /\ job'[a].local = IsCut(a)
           /\ job'[a].ver = IF job[a].local THEN job[a].label ELSE job[a].ver
<1>1. job \in [Actors -> Job] /\ job[a] \in Job
  BY DEF StoreTypeInv, StoreTypeOK
<1> DEFINE ver == IF job[a].local THEN job[a].label ELSE job[a].ver
<1>2. job' = [job EXCEPT ![a].pc = pc, ![a].local = IsCut(a), ![a].ver = ver]
  BY DEF Relabel
<1> HIDE DEF ver
<1>3. job'[a] = [job[a] EXCEPT !.pc = pc, !.local = IsCut(a), !.ver = ver]
      /\ \A b \in Actors : b # a => job'[b] = job[b]
  BY <1>1, <1>2
<1>4. job'[a].pc = pc /\ job'[a].label = job[a].label /\ job'[a].local = IsCut(a) /\ job'[a].ver = ver
  BY <1>1, <1>3 DEF Job
<1> QED
  BY <1>3, <1>4 DEF ver

LEMMA LeaveStep ==
    ASSUME StoreTypeInv, NEW a \in Actors, Leave(a)
    PROVE  /\ \A b \in Actors : b # a => job'[b] = job[b]
           /\ IF a = Loader THEN job'[a].pc = "report" /\ job'[a].label = job[a].label ELSE job'[a] = Idle
  BY JobStep DEF Leave

LEMMA ThreadKeepsLock ==
    ASSUME StoreTypeInv, LockInv, NEW t \in Threads, ThreadMoves(t) \/ Writes(t)
    PROVE  LockInv'
<1>0. t \in Actors /\ t # Loader /\ Stored(t) = "update"
  BY ActorsType DEF Stored
<1>1. UNCHANGED <<current, data, store>> /\ \A b \in Actors : b # t => job'[b] = job[b]
  BY <1>0, ThreadStepOf, WriteStepOf
<1>2. CASE job'[t] = job[t]
  <2>1. \A b \in Actors : job'[b] = job[b]
    BY <1>1, <1>2
  <2> QED
    BY <1>0, <1>1, <2>1, ActorsType DEF LockInv, Holds
<1>3. CASE job'[t] # job[t]
  <2>1. job'[t].pc \notin {"file", "nofile"} /\ (job'[t].pc = "set" => store)
    BY <1>0, <1>3, ThreadStepOf, WriteStepOf
  <2> QED
    BY <1>0, <1>1, <2>1, LockKept DEF Holds
<1> QED
  BY <1>2, <1>3

LEMMA SettingKeepsLock ==
    ASSUME StoreTypeInv, LockInv, NEW a \in Actors, Setting(a) \/ FileFails(a)
    PROVE  LockInv'
<1>1. ASSUME NEW pc \in {"file", "nofile"}, Relabel(a, pc) PROVE LockInv'
  <2>1. current' = Remote(job[a].label) /\ UNCHANGED <<data, store>> /\ \A b \in Actors : ~Holds(b)
    BY <1>1 DEF Relabel, Locked
  <2>2. store
    BY <1>1, ActorsType DEF Relabel, FoundInLocal, LockInv, Actors
  <2>3. job'[a].pc = pc /\ job'[a].label = job[a].label /\ \A b \in Actors : b # a => job'[b] = job[b]
    BY <1>1, RelabelStep
  <2>4. current'.type = "remote"
    BY <2>1 DEF Remote
  <2> QED
    BY <1>1, <2>1, <2>2, <2>3, <2>4 DEF LockInv, Holds
<1>2. CASE KeepCurrent(a)
  <2>1. UNCHANGED <<current, data, store>> /\ (a = Loader => store) /\ Leave(a)
    BY <1>2 DEF KeepCurrent, FoundInLocal, LockInv
  <2>2. job'[a].pc \in {"report", "idle"} /\ (a # Loader => job'[a].pc = "idle")
        /\ \A b \in Actors : b # a => job'[b] = job[b]
    BY <2>1, LeaveStep, IdleFields
  <2> QED
    BY <2>1, <2>2, LockKept, ActorsType DEF Holds
<1>3. CASE ReadFails(a)
  <2>1. CASE a = Loader
    <3>1. Done(Loader) /\ UNCHANGED <<current, store>> /\ store /\ (FailOnNotExists => data' = data)
      BY <1>3, <2>1 DEF ReadFails, GiveUp, LockInv
    <3>2. job'[a].pc = "idle" /\ \A b \in Actors : b # a => job'[b] = job[b]
      BY <2>1, <3>1, JobStep, IdleFields
    <3> QED
      BY <2>1, <3>1, <3>2, ActorsType DEF LockInv, Holds
  <2>2. CASE a # Loader
    <3>1. UNCHANGED <<current, data, store>> /\ Leave(a)
      BY <1>3, <2>2 DEF ReadFails
    <3> QED
      BY <2>2, <3>1, LockKept, LeaveStep, IdleFields DEF Holds
  <2> QED
    BY <2>1, <2>2
<1>4. CASE UseVersion(a)
  <2>1. UNCHANGED <<current, store>> /\ store /\ current.type = "remote" /\ Leave(a) /\ Holds(a)
    BY <1>4, ActorsType DEF UseVersion, LockInv, Actors, Remote
  <2>2. \A b \in Actors : b # a => job'[b] = job[b] /\ ~Holds(b)
    BY <2>1, LeaveStep DEF LockInv
  <2>3. job'[a].pc \in {"report", "idle"}
    BY <2>1, LeaveStep, IdleFields
  <2> QED
    BY <2>1, <2>2, <2>3 DEF LockInv, Holds
<1> QED
  BY <1>1, <1>2, <1>3, <1>4 DEF Setting, SetVersion, FileFails

LEMMA LoaderKeepsLock ==
    ASSUME StoreTypeInv, LockInv, LoaderMoves \/ Writes(Loader)
    PROVE  LockInv'
<1>0. Loader \in Actors /\ Loader \notin Threads /\ Stored(Loader) = "set"
  BY ActorsType DEF Stored
<1>1. UNCHANGED <<current, store>> /\ (FailOnNotExists => data' = data)
      /\ \A b \in Actors : b # Loader => job'[b] = job[b]
  BY <1>0, LoaderStepOf, WriteStepOf
<1>2. job[Loader].pc # "idle" /\ job'[Loader].pc \notin {"file", "nofile"}
  BY <1>0, LoaderStepOf, WriteStepOf
<1>3. store
  BY <1>2 DEF LockInv
<1> QED
  BY <1>0, <1>1, <1>2, <1>3 DEF LockInv, Holds

LEMMA LoadKeepsLock ==
    ASSUME StoreTypeInv, LockInv, Load
    PROVE  LockInv'
<1>0. job \in [Actors -> Job] /\ Loader \in Actors
  BY ActorsType DEF StoreTypeInv, StoreTypeOK
<1>1. \A a \in Actors : ~Holds(a)
  BY ActorsType DEF Load, LockInv, Holds, Actors
<1>2. store' = TRUE /\ (current'.type = "override" => data' = current')
  BY DEF Load, LockInv, Override
<1>3. \A a \in Actors : ~Holds(a)'
  BY <1>0, <1>1 DEF Load, Idle, Holds
<1> QED
  BY <1>2, <1>3 DEF LockInv

LEMMA RestartKeepsLock == ASSUME Restart PROVE LockInv'
<1>1. \A a \in Actors : job'[a].pc = "idle"
  BY DEF Restart, Idle
<1>2. current'.type = "none" /\ data'.type = "none"
  BY DEF Restart, None
<1> QED
  BY <1>1, <1>2, ActorsType DEF LockInv, Holds

\* The steps, as the proofs below go through them.
LEMMA Steps ==
    ASSUME [StoreNext]_storeVars
    PROVE  \/ Publish \/ EditOverride \/ RemoveOverride
           \/ ForgetVersion \/ StartPoll \/ NoChange \/ Purge \/ PollFails
           \/ UseOverride \/ LeaveOverride
           \/ \E t \in Threads : ThreadMoves(t)
           \/ \E a \in Actors : Writes(a) \/ Setting(a) \/ FileFails(a)
           \/ LoaderMoves \/ Load \/ Restart
           \/ UNCHANGED storeVars
<1>1. CASE PollStep
  BY <1>1 DEF PollStep, ThreadMoves
<1>2. CASE LoaderStep
  BY <1>2, ActorsType DEF LoaderStep, LoaderMoves, Writes
<1>3. ASSUME NEW t \in Threads, ThreadStep(t)
      PROVE  ThreadMoves(t) \/ Writes(t) \/ Setting(t)
  BY <1>3 DEF ThreadStep, ThreadMoves, Writes
<1>4. CASE Failure
  BY <1>4 DEF Failure, WritingFails, Writes, ThreadMoves, LoaderMoves
<1> QED
  BY <1>1, <1>2, <1>3, <1>4, ActorsType DEF StoreNext

LEMMA NextKeepsLock == StoreTypeInv /\ LockInv /\ [StoreNext]_storeVars => LockInv'
<1> SUFFICES ASSUME StoreTypeInv, LockInv, [StoreNext]_storeVars PROVE LockInv'
  OBVIOUS
<1>1. CASE UNCHANGED storeVars
  BY <1>1 DEF storeVars, LockInv, Holds
<1>2. ASSUME NEW a \in Actors, Writes(a) PROVE LockInv'
  BY <1>2, ThreadKeepsLock, LoaderKeepsLock DEF Actors
<1> QED
  BY <1>1, <1>2, Steps, EnvironmentKeepsLock, OverrideKeepsLock, ThreadKeepsLock, SettingKeepsLock,
     LoaderKeepsLock, LoadKeepsLock, RestartKeepsLock

LEMMA InitHasLock == StoreInit => LockInv
  BY ActorsType DEF StoreInit, LockInv, Holds, Idle, None

\* An override that is in use is what the application sees.
THEOREM OverrideIsUsed == StoreSpec => []OverrideInUse
<1>1. StoreSpec => [](StoreTypeInv /\ LockInv)
  BY InitHasTypes, InitHasLock, NextKeepsTypes, NextKeepsLock, PTL DEF StoreSpec
<1>2. LockInv => OverrideInUse
  BY DEF LockInv, OverrideInUse
<1> QED
  BY <1>1, <1>2, PTL
-----------------------------------------------------------------------------
(* The versions that are recorded.                                           *)

\* A thread that will use the version recorded, or a newer one.
Brings(t) ==
    \/ job[t].pc = "changed"
    \/ job[t].pc = "set" /\ job[t].label >= entry

\* What is in use, or may come into use when nothing is, is older than recorded.
Behind ==
    \/ current.type = "remote" /\ current.ver < entry
    \/ current.type = "none" /\ \E t \in Threads : job[t].pc = "set" /\ job[t].label < entry

\* Then some thread brings what is recorded, or it is about to be forgotten.
KeptInv ==
    /\ job[Loader].pc = "report" => current.type # "none"
    /\ Behind /\ ~outdated => poll.pc = "forget" \/ \E t \in Threads : Brings(t)

LEMMA Numbers ==
    ASSUME StoreTypeInv
    PROVE  /\ current.type \in {"none", "remote", "override"} /\ current.ver \in Nat
           /\ entry \in Int /\ entry >= NoEntry /\ NoEntry = -1
           /\ \A a \in Actors : job[a].label \in Int /\ job[a].ver \in Nat
           /\ \A a \in Actors : job[a].pc \in Labelled => job[a].label >= 0
<1>1. current.type \in {"none", "remote", "override"} /\ current.ver \in Nat
  BY DEF StoreTypeInv, StoreTypeOK, FileVersion, None, Remote, Override
<1>2. entry \in Int /\ entry >= NoEntry /\ NoEntry = -1
  BY DEF StoreTypeInv, StoreTypeOK, NoEntry
<1>3. ASSUME NEW a \in Actors
      PROVE  /\ job[a].label \in Int /\ job[a].ver \in Nat
             /\ job[a].pc \in Labelled => job[a].label >= 0
  <2>1. job[a] \in Job
    BY DEF StoreTypeInv, StoreTypeOK
  <2>2. job[a].label \in NoEntry..MaxVersion /\ job[a].ver \in 0..MaxVersion
    BY <2>1 DEF Job
  <2>3. job[a].pc \in Labelled => job[a].label # NoEntry
    BY DEF StoreTypeInv, JobsOK
  <2> QED
    BY <2>2, <2>3 DEF NoEntry
<1> QED
  BY <1>1, <1>2, <1>3

LEMMA RemoteFields == \A v : Remote(v).type = "remote" /\ Remote(v).ver = v
  BY DEF Remote

\* Steps that leave alone what is in use and what is recorded.
LEMMA KeptAlong ==
    ASSUME StoreTypeInv, KeptInv, NEW a \in Actors, UNCHANGED <<current, entry>>,
           outdated' = outdated, poll.pc = "forget" => poll'.pc = "forget",
           \A b \in Actors : b # a => job'[b] = job[b],
           a = Loader /\ job'[a].pc = "report" => current.type # "none",
           a \in Threads => job'[a] = job[a] \/ job'[a].pc \notin {"changed", "set"},
           a \in Threads /\ Brings(a) /\ job'[a] # job[a] => ~Behind
    PROVE  KeptInv'
<1>1. \A t \in Threads : t \in Actors /\ t # Loader
  BY ActorsType
<1>2. ASSUME Behind' PROVE Behind
  BY <1>1, <1>2 DEF Behind
<1>3. ASSUME Behind', ~outdated' PROVE (poll.pc = "forget" \/ \E t \in Threads : Brings(t))'
  <2>1. Behind /\ ~outdated
    BY <1>2, <1>3
  <2>2. CASE poll.pc = "forget"
    BY <2>2
  <2>3. ASSUME NEW t \in Threads, Brings(t) PROVE Brings(t)'
    <3>1. job'[t] = job[t]
      BY <1>1, <2>1, <2>3
    <3> QED
      BY <2>3, <3>1 DEF Brings
  <2> QED
    BY <2>1, <2>2, <2>3 DEF KeptInv
<1>4. (job[Loader].pc = "report" => current.type # "none")'
  BY ActorsType DEF KeptInv
<1> QED
  BY <1>3, <1>4 DEF KeptInv

\* A thread that has just recorded its version, or read what is recorded.
LEMMA KeptByBringer ==
    ASSUME KeptInv, NEW t \in Threads, Brings(t)', job'[Loader] = job[Loader], current' = current
    PROVE  KeptInv'
  BY DEF KeptInv

LEMMA ThreadKeepsRecord ==
    ASSUME StoreTypeInv, LockInv, KeptInv, NEW t \in Threads, ThreadMoves(t)
    PROVE  KeptInv'
<1>0. t \in Actors /\ t # Loader /\ Loader \in Actors
  BY ActorsType
<1>1. UNCHANGED <<current, store>> /\ \A b \in Actors : b # t => job'[b] = job[b]
  BY ThreadStepOf
<1>2. CASE \E v \in Version : TakeAnswer(v, t)
  <2>1. entry' = entry /\ outdated' = outdated /\ poll.pc # "forget"
    BY <1>2 DEF TakeAnswer, pastVars
  <2>2. (job'[t] = job[t] \/ job'[t].pc \notin {"changed", "set"}) /\ (Brings(t) => job'[t] = job[t])
    <3>1. job'[t] # job[t] => job[t].pc = "idle"
      BY <1>2, <1>0, Became, IdleFields DEF TakeAnswer
    <3>2. job'[t] # job[t] => job'[t].pc \notin {"changed", "set"}
      <4>1. LabelVersion(t) => job[t].pc = "changed"
        BY DEF LabelVersion
      <4>2. \/ job'[t] = job[t]
            \/ job'[t].pc \in {"idle", "update", "loading", "writing", "cas", "changed"}
            \/ LabelVersion(t)
        BY ThreadStepOf
      <4>3. job'[t] # job[t] => job'[t].pc # "changed"
        <5>1. PICK v \in Version : TakeAnswer(v, t)
          BY <1>2
        <5> DEFINE pc == IF v \in snapshots THEN "update" ELSE "loading"
        <5> DEFINE j == [pc |-> pc, ver |-> v, label |-> 0, local |-> v \in snapshots]
        <5>2. job' = job \/ job' = [job EXCEPT ![t] = j]
          BY <5>1 DEF TakeAnswer
        <5>3. j.pc # "changed"
          OBVIOUS
        <5> HIDE DEF j
        <5> QED
          BY <1>0, <5>2, <5>3, Became
      <4> QED
        BY <3>1, <4>1, <4>2, <4>3
    <3> QED
      BY <3>1, <3>2 DEF Brings
  <2> QED
    BY <1>0, <1>1, <2>1, <2>2, KeptAlong
<1>3. CASE LoadFile(t) \/ LoadFails(t) \/ ReadVersion(t)
  <2>1. UNCHANGED <<entry, outdated, poll>> /\ job[t].pc \in {"loading", "writing", "update"}
    BY <1>3 DEF LoadFile, StoreContent, LoadFails, LoadThrows, Fails, ReadVersion, pastVars
  <2>2. job'[t].pc \notin {"changed", "set"}
    <3>1. CASE LoadFile(t)
      BY <1>0, <3>1, StoreContentStep DEF LoadFile, Stored
    <3>2. CASE LoadFails(t)
      BY <1>0, <3>2, JobStep, IdleFields DEF LoadFails
    <3>3. CASE ReadVersion(t)
      <4>1. Done(t) \/ job' = [job EXCEPT ![t].pc = "cas", ![t].label = entry]
        BY <3>3 DEF ReadVersion
      <4> QED
        BY <1>0, <4>1, JobStep, IdleFields
    <3> QED
      BY <1>3, <3>1, <3>2, <3>3
  <2> QED
    BY <1>0, <1>1, <2>1, <2>2, KeptAlong DEF Brings
<1>4. CASE SwapVersion(t)
  <2>1. CASE entry = job[t].label
    <3>1. job'[t].pc = "changed" /\ job'[Loader] = job[Loader]
      BY <1>0, <1>4, <2>1, JobStep DEF SwapVersion
    <3> QED
      BY <1>1, <3>1, KeptByBringer DEF Brings
  <2>2. CASE entry # job[t].label
    <3>1. Done(t) /\ UNCHANGED <<entry, outdated, poll>> /\ job[t].pc = "cas"
      BY <1>4, <2>2 DEF SwapVersion, pastVars
    <3>2. job'[t].pc = "idle"
      BY <1>0, <3>1, JobStep, IdleFields
    <3> QED
      BY <1>0, <1>1, <3>1, <3>2, KeptAlong DEF Brings
  <2> QED
    BY <2>1, <2>2
<1>5. CASE LabelVersion(t)
  <2>1. UNCHANGED <<entry, outdated, poll>> /\ job[t].pc = "changed"
    BY <1>5 DEF LabelVersion, pastVars
  <2>2. CASE store
    <3>1. job' = [job EXCEPT ![t].pc = "set", ![t].label = entry]
      BY <1>5, <2>2 DEF LabelVersion
    <3>2. job'[t].pc = "set" /\ job'[t].label = entry /\ job'[Loader] = job[Loader]
      <4>1. /\ \A b \in Actors : b # t => job'[b] = job[b]
            /\ job'[t].pc = "set" /\ job'[t].label = entry
        BY <1>0, <3>1, JobStep
      <4> QED
        BY <1>0, <4>1
    <3>3. Brings(t)'
      BY <2>1, <3>2, Numbers DEF Brings
    <3> QED
      BY <1>1, <3>2, <3>3, KeptByBringer
  <2>3. CASE ~store
    <3>1. Done(t)
      BY <1>5, <2>3 DEF LabelVersion
    <3>2. job'[t].pc = "idle"
      BY <1>0, <3>1, JobStep, IdleFields
    <3>3. ~Behind
      BY <2>3 DEF LockInv, Behind
    <3> QED
      BY <1>0, <1>1, <2>1, <3>2, <3>3, KeptAlong
  <2> QED
    BY <2>2, <2>3
<1> QED
  BY <1>2, <1>3, <1>4, <1>5 DEF ThreadMoves

LEMMA LoaderKeepsRecord ==
    ASSUME StoreTypeInv, KeptInv, LoaderMoves
    PROVE  KeptInv'
<1>0. Loader \in Actors /\ Loader \notin Threads
  BY ActorsType
<1>1. UNCHANGED <<current, poll>> /\ job'[Loader].pc # "report" /\ \A b \in Actors : b # Loader => job'[b] = job[b]
  BY LoaderStepOf
<1>2. CASE entry' = entry /\ outdated' = outdated
  BY <1>0, <1>1, <1>2, KeptAlong
<1>3. CASE Report /\ entry' # entry
  <2>1. current.type # "none" /\ outdated' = (current.type = "remote" /\ current.ver < entry')
    BY <1>3 DEF Report, KeptInv
  <2>2. Behind' => outdated'
    BY <1>1, <2>1 DEF Behind
  <2> QED
    BY <1>1, <2>2 DEF KeptInv
<1>4. Report \/ (entry' = entry /\ outdated' = outdated)
  <2>1. ASSUME NEW v \in Version, ForceLoad(v) PROVE entry' = entry /\ outdated' = outdated
    BY <2>1 DEF ForceLoad, StoreContent, pastVars
  <2> QED
    BY <2>1 DEF LoaderMoves, Wake, AskServer, NotFound, ForceFails, LoadThrows, Fails, GiveUp, pastVars
<1>5. Report /\ entry' = entry => outdated' = outdated
  BY DEF Report
<1> QED
  BY <1>2, <1>3, <1>4, <1>5

LEMMA RelabelKeepsRecord ==
    ASSUME StoreTypeInv, LockInv, KeptInv, NEW a \in Actors, NEW pc \in {"file", "nofile"}, Relabel(a, pc)
    PROVE  KeptInv'
<1> DEFINE v == job[a].label
<1>1. /\ current' = Remote(v) /\ entry' = entry /\ poll' = poll
      /\ outdated' = (v < entry /\ (outdated \/ (a = Loader /\ ~Bringing)))
      /\ \A b \in Actors : b # a => job'[b] = job[b]
      /\ job'[a].pc = pc
  BY RelabelStep DEF Relabel
<1>2. current'.type = "remote" /\ current'.ver = v /\ v \in Int /\ entry \in Int
  BY <1>1, RemoteFields, Numbers
<1>3. job[a].pc = "set" \/ (a = Loader /\ job[a].pc = "init")
  BY DEF Relabel, FoundInLocal
<1>4. CASE v >= entry
  <2>1. ~Behind'
    BY <1>1, <1>2, <1>4 DEF Behind
  <2> QED
    BY <1>2, <2>1 DEF KeptInv
<1>5. CASE v < entry /\ ~outdated'
  <2>1. ~outdated /\ (a = Loader => Bringing)
    BY <1>1, <1>5
  <2>2. a \in Threads => ~Brings(a) /\ (current.type = "none" => Behind)
    BY <1>2, <1>3, <1>5, ActorsType DEF Brings, Behind
  <2>3. \/ current.type = "none"
        \/ current.type = "remote" /\ current.ver < v
    BY DEF Relabel, NeedRemote, NeedUpdate
  <2>4. current.type = "remote" => Behind
    BY <1>2, <1>5, <2>3, Numbers DEF Behind
  <2>5. Behind => poll.pc = "forget" \/ \E t \in Threads : Brings(t)
    BY <2>1 DEF KeptInv
  <2>6. poll.pc = "forget" \/ \E t \in Threads : Brings(t)
    <3>1. CASE a \in Threads
      BY <2>2, <2>3, <2>4, <2>5, <3>1
    <3>2. CASE a = Loader /\ current.type = "none"
      <4>1. PICK t \in Threads : job[t].pc \in {"changed", "set"}
        BY <2>1, <3>2 DEF Bringing
      <4>2. job[t].label \in Int
        BY Numbers, ActorsType
      <4> QED
        BY <1>2, <2>5, <3>2, <4>1, <4>2 DEF Brings, Behind
    <3> QED
      BY <2>3, <2>4, <2>5, <3>1, <3>2 DEF Actors
  <2>7. ASSUME NEW t \in Threads, Brings(t) PROVE Brings(t)'
    <3>1. t # a /\ t \in Actors
      BY <2>2, <2>7, ActorsType
    <3> QED
      BY <1>1, <2>7, <3>1 DEF Brings
  <2> QED
    BY <1>1, <1>2, <2>6, <2>7 DEF KeptInv
<1>6. CASE outdated'
  BY <1>2, <1>6 DEF KeptInv
<1> QED
  BY <1>2, <1>4, <1>5, <1>6

LEMMA SettingKeepsRecord ==
    ASSUME StoreTypeInv, LockInv, KeptInv, NEW a \in Actors, Setting(a) \/ FileFails(a)
    PROVE  KeptInv'
<1>0. a \in Threads => a # Loader
  BY ActorsType
<1>1. CASE SetVersion(a) \/ FileFails(a)
  BY <1>1, RelabelKeepsRecord DEF SetVersion, FileFails
<1>2. CASE KeepCurrent(a)
  <2>1. /\ UNCHANGED <<current, entry, outdated, poll>> /\ Leave(a) /\ ~NeedRemote(job[a].label)
        /\ job[a].pc \in {"set", "init"}
    BY <1>2 DEF KeepCurrent, FoundInLocal, pastVars
  <2>2. current.type # "none" /\ (current.type = "remote" => current.ver >= job[a].label)
    BY <2>1, Numbers DEF NeedRemote, NeedUpdate, Labelled
  <2>3. a \in Threads /\ Brings(a) => ~Behind
    BY <2>1, <2>2, Numbers DEF Brings, Behind
  <2> QED
    BY <1>0, <2>1, <2>2, <2>3, KeptAlong, LeaveStep, IdleFields
<1>3. CASE ReadFails(a)
  <2>1. CASE a = Loader
    <3>1. Done(Loader) /\ UNCHANGED <<current, entry, outdated, poll>>
      <4>1. outdated \in BOOLEAN /\ outdated' = (outdated \/ a # Loader)
        BY <1>3 DEF ReadFails, StoreTypeInv, StoreTypeOK
      <4> QED
        BY <1>3, <2>1, <4>1 DEF ReadFails, GiveUp
    <3>2. job'[a].pc = "idle" /\ \A b \in Actors : b # a => job'[b] = job[b]
      BY <2>1, <3>1, JobStep, IdleFields
    <3> QED
      BY <1>0, <2>1, <3>1, <3>2, KeptAlong
  <2>2. CASE a # Loader
    <3>1. outdated' /\ current' = current /\ Leave(a)
      BY <1>3, <2>2 DEF ReadFails
    <3>2. job'[Loader] = job[Loader]
      BY <2>2, <3>1, LeaveStep, ActorsType
    <3> QED
      BY <3>1, <3>2 DEF KeptInv
  <2> QED
    BY <2>1, <2>2
<1>4. CASE UseVersion(a)
  <2>1. UNCHANGED <<current, entry, outdated, poll>> /\ Leave(a) /\ Holds(a)
    BY <1>4 DEF UseVersion
  <2>2. current.type = "remote" /\ ~(job[a].pc \in {"changed", "set"})
    BY <2>1, RemoteFields DEF LockInv, Holds
  <2> QED
    BY <1>0, <2>1, <2>2, KeptAlong, LeaveStep, IdleFields DEF Brings
<1> QED
  BY <1>1, <1>2, <1>3, <1>4 DEF Setting

LEMMA NextKeepsRecord == StoreTypeInv /\ LockInv /\ KeptInv /\ [StoreNext]_storeVars => KeptInv'
<1> SUFFICES ASSUME StoreTypeInv, LockInv, KeptInv, [StoreNext]_storeVars PROVE KeptInv'
  OBVIOUS
<1>0. Loader \in Actors
  BY ActorsType
<1>1. CASE Publish \/ EditOverride \/ RemoveOverride \/ StartPoll \/ NoChange \/ Purge \/ PollFails \/ UNCHANGED storeVars
  <2>1. UNCHANGED <<current, entry, outdated, job>>
    BY <1>1 DEF Publish, EditOverride, RemoveOverride, StartPoll, NoChange, Purge, PollFails, Fails, pastVars, storeVars
  <2>2. poll.pc = "forget" => poll'.pc = "forget"
    BY <1>1 DEF Publish, EditOverride, RemoveOverride, StartPoll, NoChange, Purge, PollFails, storeVars
  <2>3. job[Loader].pc = "report" => current.type # "none"
    BY DEF KeptInv
  <2> QED
    BY <1>0, <2>1, <2>2, <2>3, KeptAlong
<1>2. CASE UseOverride
  <2>1. current'.type = "override" /\ job' = job
    BY <1>2 DEF UseOverride, Override
  <2> QED
    BY <2>1 DEF KeptInv, Behind
<1>3. CASE LeaveOverride
  <2>1. current'.type = "remote" /\ poll'.pc = "forget" /\ job' = job
    <3>1. poll \in Poll
      BY DEF StoreTypeInv, StoreTypeOK
    <3> QED
      BY <1>3, <3>1, RemoteFields DEF LeaveOverride, Poll
  <2> QED
    BY <2>1 DEF KeptInv
<1>4. CASE ForgetVersion
  <2>1. current' = current /\ job' = job /\ entry' <= 0 /\ entry' \in Int
    BY <1>4 DEF ForgetVersion, ForgottenVersion, NoEntry
  <2>2. \A t \in Threads : job[t].pc = "set" => job[t].label >= 0 /\ job[t].label \in Int
    BY Numbers, ActorsType DEF Labelled
  <2>3. ~Behind'
    BY <2>1, <2>2, Numbers DEF Behind
  <2> QED
    BY <2>1, <2>3 DEF KeptInv
<1>5. ASSUME NEW t \in Threads, ThreadMoves(t) PROVE KeptInv'
  BY <1>5, ThreadKeepsRecord
<1>6. ASSUME NEW a \in Actors, Writes(a) PROVE KeptInv'
  <2>1. job[a].pc \in {"writing", "copying"} /\ job'[a].pc \in {"copying", "set", "update"}
        /\ (a \in Threads => a # Loader /\ job'[a].pc # "set")
    BY <1>6, WriteStepOf, ActorsType DEF Stored
  <2> QED
    BY <1>6, <2>1, WriteStepOf, KeptAlong DEF Brings
<1>7. ASSUME NEW a \in Actors, Setting(a) \/ FileFails(a) PROVE KeptInv'
  BY <1>7, SettingKeepsRecord
<1>8. CASE LoaderMoves
  BY <1>8, LoaderKeepsRecord
<1>9. CASE Load
  <2>1. job[Loader].pc # "report" /\ job'[Loader].pc # "report" /\ \A t \in Threads : job'[t] = job[t] /\ job[t].pc # "set"
    <3>1. /\ \/ job' = job
             \/ job' = [job EXCEPT ![Loader] = [Idle EXCEPT !.pc = IF entry = NoEntry THEN "init" ELSE "waiting"]]
          /\ ~store
      BY <1>9 DEF Load
    <3>2. [Idle EXCEPT !.pc = IF entry = NoEntry THEN "init" ELSE "waiting"].pc # "report"
      BY DEF Idle
    <3>3. job[Loader].pc = "idle" /\ \A t \in Threads : job[t].pc # "set"
      BY <3>1 DEF LockInv
    <3> QED
      BY <1>0, <3>1, <3>2, <3>3, Became, ActorsType
  <2>2. current'.type # "remote"
    BY <1>9 DEF Load, LockInv, Override
  <2> QED
    BY <2>1, <2>2 DEF KeptInv, Behind
<1>10. CASE Restart
  <2>1. current'.type = "none" /\ \A a \in Actors : job'[a].pc = "idle"
    BY <1>10 DEF Restart, None, Idle
  <2> QED
    BY <1>0, <2>1, ActorsType DEF KeptInv, Behind
<1> QED
  BY <1>1, <1>2, <1>3, <1>4, <1>5, <1>6, <1>7, <1>8, <1>9, <1>10, Steps

LEMMA InitHasRecord == StoreInit => KeptInv
  BY ActorsType DEF StoreInit, KeptInv, Behind, Idle, None

\* What is recorded is in use or about to be: no update is lost but those that the
\* first load or an unreadable snapshot keeps back, and those forgotten with an
\* override.
THEOREM UpdatesAreNotLost == StoreSpec => []UpdateNotLost
<1>1. StoreSpec => [](StoreTypeInv /\ LockInv /\ KeptInv)
  BY InitHasTypes, InitHasLock, InitHasRecord, NextKeepsTypes, NextKeepsLock, NextKeepsRecord, PTL DEF StoreSpec
<1>2. StoreTypeInv /\ KeptInv => UpdateNotLost
  BY Numbers DEF KeptInv, UpdateNotLost, Behind, Brings, Bringing
<1> QED
  BY <1>1, <1>2, PTL
-----------------------------------------------------------------------------
(* The label in use and the data.                                            *)

\* The label of a job is the version it brings, for the loader; it is newer only
\* where a thread has read what another one recorded, as long as there was no override.
JobLabelled(a) ==
    /\ a = Loader /\ job[a].pc \in {"init", "writing", "copying", "set", "file", "nofile"} =>
           job[a].ver = job[a].label
    /\ job[a].pc = "cas" => job[a].label < job[a].ver
    /\ edits = 0 /\ job[a].pc = "changed" => job[a].ver <= entry
    /\ edits = 0 /\ job[a].pc \in {"set", "file", "nofile"} =>
           job[a].local \/ job[a].ver <= job[a].label

NoOverrideYet == edits = 0 => override = 0 /\ current.type # "override" /\ poll.pc # "forget"

LabelInv == NoOverrideYet /\ (\A a \in Actors : JobLabelled(a)) /\ LabelTellsContent

\* Steps that leave the label and the data alone.
LEMMA ContentKept ==
    ASSUME LabelTellsContent, UNCHANGED <<current, crossed>>, FailOnNotExists => data' = data,
           edits' = 0 => edits = 0, \A b \in Actors : Holds(b) => Holds(b)'
    PROVE  LabelTellsContent'
<1>1. Locked => Locked'
  BY DEF Locked
<1> QED
  BY <1>1 DEF LabelTellsContent

LEMMA LabelsOfOthers ==
    ASSUME LabelInv, NEW b \in Actors, job'[b] = job[b], edits' = 0 => edits = 0,
           edits = 0 => entry \in Int /\ entry' \in Int /\ entry' >= entry /\ job[b].ver \in Int
    PROVE  JobLabelled(b)'
  BY DEF LabelInv, JobLabelled

LEMMA LabelAlong ==
    ASSUME StoreTypeInv, LabelInv, NEW a \in Actors, UNCHANGED <<current, crossed, override, edits>>,
           FailOnNotExists => data' = data, poll'.pc = "forget" => poll.pc = "forget",
           \A b \in Actors : b # a => job'[b] = job[b],
           edits = 0 => entry' \in Int /\ entry' >= entry, JobLabelled(a)', ~Holds(a)
    PROVE  LabelInv'
<1>1. ASSUME NEW b \in Actors PROVE JobLabelled(b)'
  <2>1. CASE b = a
    BY <2>1
  <2>2. CASE b # a
    BY <2>2, LabelsOfOthers, Numbers
  <2> QED
    BY <2>1, <2>2
<1>2. \A b \in Actors : Holds(b) => Holds(b)'
  BY DEF Holds
<1>3. LabelTellsContent'
  BY <1>2, ContentKept DEF LabelInv
<1>4. NoOverrideYet'
  BY DEF LabelInv, NoOverrideYet
<1> QED
  BY <1>1, <1>3, <1>4 DEF LabelInv

\* Jobs that are over or have not come so far.
LEMMA Unlabelled ==
    ASSUME NEW a \in Actors, job'[a].pc \notin {"init", "copying", "set", "file", "nofile", "cas", "changed"},
           a = Loader => job'[a].pc # "writing"
    PROVE  JobLabelled(a)'
  BY DEF JobLabelled

LEMMA ThreadKeepsLabels ==
    ASSUME StoreTypeInv, LabelInv, NEW t \in Threads, ThreadMoves(t)
    PROVE  LabelInv'
<1>0. t \in Actors /\ t # Loader /\ Loader \in Actors /\ entry \in Int
      /\ job[t].ver \in Int /\ job[t].label \in Int
  BY ActorsType, Numbers
<1>1. UNCHANGED <<current, data, store, crossed, edits, override>> /\ \A b \in Actors : b # t => job'[b] = job[b]
  BY ThreadStepOf
<1>2. CASE \E v \in Version : TakeAnswer(v, t)
  <2>1. PICK v \in Version : TakeAnswer(v, t)
    BY <1>2
  <2>2. entry' = entry /\ poll'.pc # "forget"
    BY <2>1 DEF TakeAnswer, Resting
  <2>3. (~Holds(t) /\ JobLabelled(t)') \/ job' = job
    <3> DEFINE pc == IF v \in snapshots THEN "update" ELSE "loading"
    <3> DEFINE j == [pc |-> pc, ver |-> v, label |-> 0, local |-> v \in snapshots]
    <3>1. job' = job \/ (job[t] = Idle /\ job' = [job EXCEPT ![t] = j])
      BY <2>1 DEF TakeAnswer
    <3>2. j.pc \in {"update", "loading"}
      OBVIOUS
    <3> HIDE DEF j
    <3> QED
      BY <1>0, <3>1, <3>2, Became, IdleFields, Unlabelled DEF Holds
  <2>4. CASE job' = job
    <3>1. \A b \in Actors : JobLabelled(b)'
      BY <1>0, <1>1, <2>2, <2>4, LabelsOfOthers, Numbers
    <3>2. LabelTellsContent'
      BY <1>1, <2>4, ContentKept DEF LabelInv, Holds
    <3>3. NoOverrideYet'
      BY <1>1, <2>2 DEF LabelInv, NoOverrideYet
    <3> QED
      BY <3>1, <3>2, <3>3 DEF LabelInv
  <2> QED
    BY <1>0, <1>1, <2>2, <2>3, <2>4, LabelAlong
<1>3. CASE LoadFile(t) \/ LoadFails(t) \/ ReadVersion(t)
  <2>1. UNCHANGED <<entry, poll>> /\ job[t].pc \in {"loading", "writing", "update"}
    BY <1>3 DEF LoadFile, StoreContent, LoadFails, LoadThrows, ReadVersion
  <2>2. JobLabelled(t)'
    <3>1. CASE LoadFile(t)
      <4>1. job'[t].pc \in {"writing", "update"}
        BY <1>0, <3>1, StoreContentStep DEF LoadFile, Stored
      <4> QED
        BY <1>0, <4>1, Unlabelled
    <3>2. CASE LoadFails(t)
      BY <1>0, <3>2, JobStep, IdleFields, Unlabelled DEF LoadFails
    <3>3. CASE ReadVersion(t)
      <4>1. CASE NeedUpdate(entry, job[t].ver)
        <5>1. job' = [job EXCEPT ![t].pc = "cas", ![t].label = entry]
          BY <3>3, <4>1 DEF ReadVersion
        <5>2. job'[t].pc = "cas" /\ job'[t].label = entry /\ job'[t].ver = job[t].ver
          BY <1>0, <5>1, JobStep
        <5> QED
          BY <1>0, <4>1, <5>2 DEF JobLabelled, NeedUpdate
      <4>2. CASE ~NeedUpdate(entry, job[t].ver)
        BY <1>0, <3>3, <4>2, JobStep, IdleFields, Unlabelled DEF ReadVersion
      <4> QED
        BY <4>1, <4>2
    <3> QED
      BY <1>3, <3>1, <3>2, <3>3
  <2> QED
    BY <1>0, <1>1, <2>1, <2>2, LabelAlong DEF Holds
<1>4. CASE SwapVersion(t)
  <2>1. poll' = poll /\ job[t].pc = "cas" /\ job[t].label < job[t].ver
    BY <1>0, <1>4 DEF SwapVersion, LabelInv, JobLabelled
  <2>2. CASE entry = job[t].label
    <3>1. job'[t].pc = "changed" /\ job'[t].ver = job[t].ver /\ entry' = job[t].ver
      BY <1>0, <1>4, <2>2, JobStep DEF SwapVersion
    <3>2. JobLabelled(t)'
      BY <1>0, <3>1 DEF JobLabelled
    <3> QED
      BY <1>0, <1>1, <2>1, <2>2, <3>1, <3>2, LabelAlong DEF Holds
  <2>3. CASE entry # job[t].label
    <3>1. entry' = entry /\ JobLabelled(t)'
      BY <1>0, <1>4, <2>3, JobStep, IdleFields, Unlabelled DEF SwapVersion
    <3> QED
      BY <1>0, <1>1, <2>1, <3>1, LabelAlong DEF Holds
  <2> QED
    BY <2>2, <2>3
<1>5. CASE LabelVersion(t)
  <2>1. UNCHANGED <<entry, poll>> /\ job[t].pc = "changed"
    BY <1>5 DEF LabelVersion
  <2>2. JobLabelled(t)'
    <3>1. CASE store
      <4>1. job' = [job EXCEPT ![t].pc = "set", ![t].label = entry]
        BY <1>5, <3>1 DEF LabelVersion
      <4>2. job'[t].pc = "set" /\ job'[t].label = entry /\ job'[t].ver = job[t].ver
        BY <1>0, <4>1, JobStep
      <4>3. edits = 0 => job[t].ver <= entry
        BY <1>0, <2>1 DEF LabelInv, JobLabelled
      <4> QED
        BY <1>0, <1>1, <4>2, <4>3 DEF JobLabelled
    <3>2. CASE ~store
      BY <1>0, <1>5, <3>2, JobStep, IdleFields, Unlabelled DEF LabelVersion
    <3> QED
      BY <3>1, <3>2
  <2> QED
    BY <1>0, <1>1, <2>1, <2>2, LabelAlong DEF Holds
<1> QED
  BY <1>2, <1>3, <1>4, <1>5 DEF ThreadMoves

LEMMA LoaderKeepsLabels ==
    ASSUME StoreTypeInv, StoreTypeInv', LabelInv, LoaderMoves
    PROVE  LabelInv'
<1>0. Loader \in Actors /\ Loader \notin Threads /\ entry \in Int /\ entry' \in Int
      /\ job[Loader].ver \in Int /\ job[Loader].label \in Int
  BY ActorsType, Numbers DEF StoreTypeInv, StoreTypeOK
<1>1. /\ UNCHANGED <<current, crossed, edits, override, poll>> /\ (FailOnNotExists => data' = data)
      /\ \A b \in Actors : b # Loader => job'[b] = job[b]
      /\ job[Loader].pc \notin {"file", "nofile"}
      /\ job'[Loader].pc \in {"idle", "init", "loading", "writing", "set"}
  BY LoaderStepOf
<1>2. entry' >= entry
  <2>1. ASSUME NEW v \in Version, ForceLoad(v) PROVE entry' = entry
    BY <2>1 DEF ForceLoad, StoreContent
  <2>2. CASE Report
    BY <1>0, <2>2 DEF Report, NeedUpdate
  <2> QED
    BY <1>0, <2>1, <2>2 DEF LoaderMoves, Wake, AskServer, NotFound, ForceFails, GiveUp
<1>3. job'[Loader].pc \in {"init", "writing", "set"} => job'[Loader].ver = job'[Loader].label
  <2>1. CASE Wake
    <3> DEFINE j == [pc |-> "init", ver |-> entry, label |-> entry, local |-> TRUE]
    <3>1. job' = [job EXCEPT ![Loader] = j] /\ j.ver = j.label
      BY <2>1 DEF Wake
    <3> HIDE DEF j
    <3> QED
      BY <1>0, <3>1, Became
  <2>2. CASE AskServer
    BY <1>0, <2>2, JobStep DEF AskServer
  <2>3. CASE NotFound \/ Report
    BY <1>0, <2>3, JobStep, IdleFields DEF NotFound, GiveUp, Report
  <2>4. CASE ForceFails
    <3> DEFINE j == [pc |-> "set", ver |-> verFile, label |-> verFile, local |-> TRUE]
    <3>1. Done(Loader) \/ job' = [job EXCEPT ![Loader] = j]
      BY <2>4 DEF ForceFails, GiveUp
    <3>2. j.ver = j.label
      OBVIOUS
    <3> HIDE DEF j
    <3> QED
      BY <1>0, <3>1, <3>2, Became, JobStep, IdleFields
  <2>5. ASSUME NEW v \in Version, ForceLoad(v) PROVE job'[Loader].ver = job'[Loader].label
    BY <1>0, <2>5, StoreContentStep DEF ForceLoad
  <2> QED
    BY <2>1, <2>2, <2>3, <2>4, <2>5 DEF LoaderMoves
<1>4. JobLabelled(Loader)'
  <2>1. job'[Loader].ver \in Int /\ job'[Loader].label \in Int
    BY <1>0 DEF StoreTypeInv, StoreTypeOK, Job, NoEntry
  <2> QED
    BY <1>1, <1>3, <2>1 DEF JobLabelled
<1> QED
  BY <1>0, <1>1, <1>2, <1>4, LabelAlong DEF Holds

LEMMA WriteKeepsLabels ==
    ASSUME StoreTypeInv, LabelInv, NEW a \in Actors, Writes(a)
    PROVE  LabelInv'
<1>1. /\ UNCHANGED <<current, data, crossed, edits, override, entry, poll>>
      /\ \A b \in Actors : b # a => job'[b] = job[b]
      /\ job[a].pc \in {"writing", "copying"} /\ job'[a].pc \in {"copying", Stored(a)}
      /\ job'[a].ver = job[a].ver /\ job'[a].label = job[a].label
  BY WriteStepOf
<1>2. entry \in Int /\ job[a].ver \in Int
  BY Numbers
<1>3. JobLabelled(a)'
  BY <1>1, <1>2, ActorsType DEF LabelInv, JobLabelled, Stored, Actors
<1> QED
  BY <1>1, <1>2, <1>3, LabelAlong DEF Holds

LEMMA SettingKeepsLabels ==
    ASSUME StoreTypeInv, LockInv, LabelInv, NEW a \in Actors, Setting(a) \/ FileFails(a)
    PROVE  LabelInv'
<1>0. entry \in Int /\ job[a].ver \in Int /\ job[a].label \in Int
  BY Numbers
<1>1. ASSUME NEW pc \in {"file", "nofile"}, Relabel(a, pc) PROVE LabelInv'
  <2>1. /\ current' = Remote(job[a].label) /\ UNCHANGED <<entry, poll, edits, override>>
        /\ job[a].pc = "set" \/ (a = Loader /\ job[a].pc = "init")
    BY <1>1 DEF Relabel, envVars, FoundInLocal
  <2>2. /\ \A b \in Actors : b # a => job'[b] = job[b]
        /\ job'[a].pc = pc /\ job'[a].label = job[a].label
        /\ job'[a].ver = IF job[a].local THEN job[a].label ELSE job[a].ver
    BY <1>1, RelabelStep
  <2>3. JobLabelled(a)'
    BY <1>0, <2>1, <2>2, ActorsType DEF LabelInv, JobLabelled
  <2>4. \A b \in Actors : JobLabelled(b)'
    BY <1>0, <2>1, <2>2, <2>3, LabelsOfOthers, Numbers
  <2>5. LabelTellsContent'
    BY <2>2 DEF LabelTellsContent, Locked, Holds
  <2>6. NoOverrideYet'
    BY <2>1, RemoteFields DEF LabelInv, NoOverrideYet
  <2> QED
    BY <2>4, <2>5, <2>6 DEF LabelInv
<1>2. CASE KeepCurrent(a)
  <2>1. UNCHANGED <<current, data, crossed, edits, override, entry, poll>> /\ Leave(a) /\ ~Holds(a)
    BY <1>2 DEF KeepCurrent, FoundInLocal, Holds, envVars, pastVars
  <2>2. job'[a].pc \in {"report", "idle"} /\ \A b \in Actors : b # a => job'[b] = job[b]
    BY <2>1, LeaveStep, IdleFields
  <2> QED
    BY <1>0, <2>1, <2>2, Unlabelled, LabelAlong
<1>3. CASE ReadFails(a)
  <2>1. UNCHANGED <<current, crossed, edits, override, entry, poll>> /\ (FailOnNotExists => data' = data)
        /\ (Leave(a) \/ Done(a)) /\ ~Holds(a)
    BY <1>3 DEF ReadFails, GiveUp, Holds, envVars
  <2>2. job'[a].pc \in {"report", "idle"} /\ \A b \in Actors : b # a => job'[b] = job[b]
    BY <2>1, LeaveStep, JobStep, IdleFields
  <2> QED
    BY <1>0, <2>1, <2>2, Unlabelled, LabelAlong
<1>4. CASE UseVersion(a)
  <2>1. /\ UNCHANGED <<current, edits, override, entry, poll>> /\ Leave(a) /\ Holds(a)
        /\ data' = IF job[a].local THEN Cut(job[a].label) ELSE Remote(job[a].ver)
        /\ crossed' = (job[a].label # job[a].ver)
    BY <1>4 DEF UseVersion, envVars
  <2>2. job'[a].pc \in {"report", "idle"} /\ \A b \in Actors : b # a => job'[b] = job[b]
    BY <2>1, LeaveStep, IdleFields
  <2>3. \A b \in Actors : JobLabelled(b)'
    BY <1>0, <2>1, <2>2, Unlabelled, LabelsOfOthers, Numbers
  <2>4. current = Remote(job[a].label) /\ current.ver = job[a].label
    BY <2>1, RemoteFields DEF LockInv
  <2>5. edits = 0 => job[a].local \/ job[a].ver <= job[a].label
    BY <2>1 DEF LabelInv, JobLabelled, Holds
  <2>6. LabelTellsContent'
    <3>1. CASE job[a].local \/ job[a].ver = job[a].label
      BY <2>1, <2>4, <3>1 DEF LabelTellsContent
    <3>2. CASE ~job[a].local /\ job[a].ver # job[a].label
      <4>1. data'.type = "remote" /\ data'.ver = job[a].ver /\ crossed'
        BY <2>1, <3>2, RemoteFields
      <4> QED
        BY <1>0, <2>1, <2>4, <2>5, <3>2, <4>1 DEF LabelTellsContent
    <3> QED
      BY <3>1, <3>2
  <2>7. NoOverrideYet'
    BY <2>1 DEF LabelInv, NoOverrideYet
  <2> QED
    BY <2>3, <2>6, <2>7 DEF LabelInv
<1> QED
  BY <1>1, <1>2, <1>3, <1>4 DEF Setting, SetVersion, FileFails

LEMMA NextKeepsLabels ==
    StoreTypeInv /\ StoreTypeInv' /\ LockInv /\ LabelInv /\ [StoreNext]_storeVars => LabelInv'
<1> SUFFICES ASSUME StoreTypeInv, StoreTypeInv', LockInv, LabelInv, [StoreNext]_storeVars PROVE LabelInv'
  OBVIOUS
<1>0. edits \in Nat /\ entry \in Int /\ entry' \in Int /\ \A b \in Actors : job[b].ver \in Int
  BY Numbers DEF StoreTypeInv, StoreTypeOK
<1>1. CASE Publish \/ StartPoll \/ NoChange \/ Purge \/ PollFails \/ UNCHANGED storeVars
  <2>1. UNCHANGED <<current, data, crossed, edits, override, entry, job>>
    BY <1>1 DEF Publish, StartPoll, NoChange, Purge, PollFails, Fails, envVars, pastVars, storeVars
  <2>2. poll'.pc = "forget" => poll.pc = "forget"
    BY <1>1 DEF Publish, StartPoll, NoChange, Purge, PollFails, Resting, storeVars
  <2>3. LabelTellsContent'
    BY <2>1, ContentKept DEF LabelInv, Holds
  <2>4. \A b \in Actors : JobLabelled(b)'
    BY <1>0, <2>1, LabelsOfOthers
  <2> QED
    BY <2>1, <2>2, <2>3, <2>4 DEF LabelInv, NoOverrideYet
<1>2. ASSUME edits' # 0, job' = job, LabelTellsContent' PROVE LabelInv'
  <2>1. \A b \in Actors : JobLabelled(b)'
    BY <1>2 DEF LabelInv, JobLabelled
  <2> QED
    BY <1>2, <2>1 DEF LabelInv, NoOverrideYet
<1>3. CASE EditOverride
  <2>1. edits' # 0 /\ UNCHANGED <<current, data, crossed, job>>
    BY <1>0, <1>3 DEF EditOverride, pastVars
  <2> QED
    BY <1>2, <2>1, ContentKept DEF LabelInv, Holds
<1>4. CASE RemoveOverride
  <2>1. edits # 0 /\ UNCHANGED <<current, data, crossed, edits, job>>
    BY <1>4 DEF RemoveOverride, LabelInv, NoOverrideYet, pastVars
  <2> QED
    BY <1>2, <2>1, ContentKept DEF LabelInv, Holds
<1>5. CASE UseOverride \/ LeaveOverride
  <2>1. edits' # 0 /\ job' = job
    BY <1>5 DEF UseOverride, LeaveOverride, LabelInv, NoOverrideYet, envVars
  <2>2. current'.type = "override" \/ current'.ver = 0
    BY <1>5, RemoteFields DEF UseOverride, LeaveOverride, Override
  <2>3. LabelTellsContent'
    BY <2>2 DEF LabelTellsContent
  <2> QED
    BY <1>2, <2>1, <2>3
<1>6. CASE ForgetVersion
  <2>1. edits # 0 /\ UNCHANGED <<current, data, crossed, edits, job>>
    BY <1>6 DEF ForgetVersion, LabelInv, NoOverrideYet, envVars, pastVars
  <2> QED
    BY <1>2, <2>1, ContentKept DEF LabelInv, Holds
<1>7. CASE Load
  <2>1. current'.type # "remote" /\ UNCHANGED <<edits, override, poll>>
    BY <1>7 DEF Load, LockInv, Override, envVars
  <2>2. edits = 0 => current'.type # "override"
    BY <1>7 DEF Load, LabelInv, NoOverrideYet
  <2>3. entry' >= entry
    BY <1>0, <1>7, Numbers DEF Load
  <2>4. \A b \in Actors : JobLabelled(b)'
    <3> DEFINE pc == IF entry = NoEntry THEN "init" ELSE "waiting"
    <3> DEFINE j == [Idle EXCEPT !.pc = pc]
    <3>1. job' = job \/ job' = [job EXCEPT ![Loader] = j]
      BY <1>7 DEF Load
    <3>2. pc \in {"init", "waiting"}
      OBVIOUS
    <3> HIDE DEF pc
    <3>3. j.pc \in {"init", "waiting"} /\ j.ver = 0 /\ j.label = 0
      BY <3>2 DEF Idle
    <3> HIDE DEF j
    <3>4. ASSUME NEW b \in Actors, job'[b] # job[b] PROVE JobLabelled(b)'
      <4>1. b = Loader /\ job'[b] = j
        BY <3>1, <3>4, ActorsType, Became
      <4> QED
        BY <3>3, <4>1 DEF JobLabelled
    <3> QED
      BY <1>0, <2>1, <2>3, <3>4, LabelsOfOthers
  <2>5. LabelTellsContent'
    BY <2>1 DEF LabelTellsContent
  <2> QED
    BY <2>1, <2>2, <2>4, <2>5 DEF LabelInv, NoOverrideYet
<1>8. CASE Restart
  <2>1. \A a \in Actors : job'[a].pc = "idle"
    BY <1>8 DEF Restart, Idle
  <2>2. current'.type = "none" /\ UNCHANGED <<edits, override>> /\ poll'.pc # "forget"
    BY <1>8 DEF Restart, None, envVars, Resting
  <2> QED
    BY <2>1, <2>2, Unlabelled DEF LabelInv, NoOverrideYet, LabelTellsContent
<1> QED
  BY <1>1, <1>3, <1>4, <1>5, <1>6, <1>7, <1>8, Steps, ThreadKeepsLabels, LoaderKeepsLabels,
     WriteKeepsLabels, SettingKeepsLabels

LEMMA InitHasLabels == StoreInit => LabelInv
<1> SUFFICES ASSUME StoreInit PROVE LabelInv
  OBVIOUS
<1>1. \A a \in Actors : job[a].pc = "idle"
  BY DEF StoreInit, Idle
<1>2. current.type = "none" /\ edits = 0 /\ override = 0 /\ poll.pc = "idle"
  BY DEF StoreInit, None, Resting
<1> QED
  BY <1>1, <1>2 DEF LabelInv, JobLabelled, NoOverrideYet, LabelTellsContent

\* The label in use is the version of the data, or newer where two updates crossed.
THEOREM LabelsTellContents == StoreSpec => []LabelTellsContent
<1>1. StoreSpec => [](StoreTypeInv /\ LockInv /\ LabelInv)
  BY InitHasTypes, InitHasLock, InitHasLabels, NextKeepsTypes, NextKeepsLock, NextKeepsLabels, PTL DEF StoreSpec
<1> QED
  BY <1>1, PTL DEF LabelInv
-----------------------------------------------------------------------------
(* The version file.                                                         *)

\* Between two writes of the version file it names the version in use, or could not be
\* written.
FileNamesCurrent == \A v \in Version : current = Remote(v) /\ ~Locked => 0 \in spoilt \/ verFile = v

NamesInv ==
    /\ FileNamesCurrent
    /\ \A a \in Actors : job[a].pc = "nofile" => 0 \in spoilt
    /\ poll.pc = "preload" => ~store

\* Steps that leave the label and the version file alone.
LEMMA NamesKept ==
    ASSUME NamesInv, UNCHANGED <<current, verFile>>, 0 \in spoilt => 0 \in spoilt', NEW a \in Actors,
           \A b \in Actors : b # a => job'[b] = job[b], ~Holds(a), job'[a].pc # "nofile",
           poll'.pc = "preload" => ~store'
    PROVE  NamesInv'
<1>1. Locked => Locked'
  BY DEF Locked, Holds
<1>2. FileNamesCurrent'
  BY <1>1 DEF NamesInv, FileNamesCurrent
<1> QED
  BY <1>2 DEF NamesInv

LEMMA NamesOfAnother ==
    ASSUME NamesInv, current'.type # "remote", UNCHANGED <<spoilt, job>>, poll'.pc = "preload" => ~store'
    PROVE  NamesInv'
  BY RemoteFields DEF NamesInv, FileNamesCurrent

LEMMA SettingKeepsNames ==
    ASSUME StoreTypeInv, LockInv, NamesInv, NEW a \in Actors, Setting(a) \/ FileFails(a)
    PROVE  NamesInv'
<1>0. UNCHANGED <<poll, store>>
  BY DEF Setting, SetVersion, FileFails, Relabel, KeepCurrent, ReadFails, GiveUp, UseVersion
<1>1. CASE SetVersion(a) \/ FileFails(a)
  <2>1. PICK pc \in {"file", "nofile"} : Relabel(a, pc) /\ (pc = "nofile" => FileFails(a))
    BY <1>1 DEF SetVersion, FileFails
  <2>2. job'[a].pc = pc /\ \A b \in Actors : b # a => job'[b] = job[b]
    BY <2>1, RelabelStep
  <2>3. (0 \in spoilt => 0 \in spoilt') /\ (pc = "nofile" => 0 \in spoilt')
    BY <1>1, <2>1 DEF SetVersion, FileFails
  <2>4. Locked'
    BY <2>2 DEF Locked, Holds
  <2> QED
    BY <1>0, <2>2, <2>3, <2>4 DEF NamesInv, FileNamesCurrent
<1>2. CASE KeepCurrent(a)
  <2>1. UNCHANGED <<current, verFile, spoilt>> /\ Leave(a) /\ ~Holds(a)
    BY <1>2 DEF KeepCurrent, FoundInLocal, Holds, diskVars
  <2>2. job'[a].pc \in {"report", "idle"} /\ \A b \in Actors : b # a => job'[b] = job[b]
    BY <2>1, LeaveStep, IdleFields
  <2> QED
    BY <1>0, <2>1, <2>2, NamesKept DEF NamesInv
<1>3. CASE ReadFails(a)
  <2>1. UNCHANGED <<current, verFile, spoilt>> /\ (Leave(a) \/ Done(a)) /\ ~Holds(a)
    BY <1>3 DEF ReadFails, GiveUp, Holds
  <2>2. job'[a].pc \in {"report", "idle"} /\ \A b \in Actors : b # a => job'[b] = job[b]
    BY <2>1, LeaveStep, JobStep, IdleFields
  <2> QED
    BY <1>0, <2>1, <2>2, NamesKept DEF NamesInv
<1>4. CASE UseVersion(a)
  <2>1. /\ current' = current /\ Leave(a) /\ Holds(a) /\ current = Remote(job[a].label)
        /\ \/ job[a].pc = "file" /\ verFile' = job[a].label
           \/ job[a].pc = "nofile" /\ UNCHANGED <<verFile, spoilt>> /\ 0 \in spoilt
    BY <1>4 DEF UseVersion, LockInv, NamesInv
  <2>2. job'[a].pc \in {"report", "idle"} /\ \A b \in Actors : b # a => job'[b] = job[b] /\ ~Holds(b)
    BY <2>1, LeaveStep, IdleFields DEF LockInv
  <2>3. FileNamesCurrent'
    BY <2>1, RemoteFields DEF FileNamesCurrent
  <2>4. \A b \in Actors : job'[b].pc # "nofile"
    BY <2>2 DEF Holds
  <2> QED
    BY <1>0, <2>3, <2>4 DEF NamesInv
<1> QED
  BY <1>1, <1>2, <1>3, <1>4 DEF Setting

LEMMA NextKeepsNames == StoreTypeInv /\ LockInv /\ NamesInv /\ [StoreNext]_storeVars => NamesInv'
<1> SUFFICES ASSUME StoreTypeInv, LockInv, NamesInv, [StoreNext]_storeVars PROVE NamesInv'
  OBVIOUS
<1>0. Loader \in Actors /\ poll \in Poll
  BY ActorsType DEF StoreTypeInv, StoreTypeOK
<1>1. CASE Publish \/ EditOverride \/ RemoveOverride \/ StartPoll \/ NoChange \/ PollFails \/ ForgetVersion
           \/ UNCHANGED storeVars
  <2>1. UNCHANGED <<current, verFile, spoilt, job, store>>
    BY <1>1 DEF Publish, EditOverride, RemoveOverride, StartPoll, NoChange, PollFails, ForgetVersion,
                diskVars, storeVars
  <2>2. poll'.pc = "preload" => poll.pc = "preload"
    BY <1>1 DEF Publish, EditOverride, RemoveOverride, StartPoll, NoChange, PollFails, ForgetVersion,
                Resting, storeVars
  <2>3. Locked' <=> Locked
    BY <2>1 DEF Locked, Holds
  <2> QED
    BY <2>1, <2>2, <2>3 DEF NamesInv, FileNamesCurrent
<1>2. CASE UseOverride
  BY <1>2, NamesOfAnother DEF UseOverride, Override, diskVars, NamesInv
<1>3. CASE LeaveOverride
  <2>1. current' = Remote(0) /\ UNCHANGED <<spoilt, job>> /\ poll'.pc = "forget"
    BY <1>0, <1>3 DEF LeaveOverride, diskVars, Poll
  <2> QED
    BY <2>1, RemoteFields DEF NamesInv, FileNamesCurrent, Version
<1>4. CASE Purge
  <2>1. current'.type # "remote" /\ UNCHANGED <<spoilt, job>> /\ poll'.pc # "preload"
    BY <1>4 DEF Purge, NamesInv, LockInv, diskVars, Resting
  <2> QED
    BY <2>1, NamesOfAnother
<1>5. ASSUME NEW t \in Threads, ThreadMoves(t) PROVE NamesInv'
  <2>1. t \in Actors /\ t # Loader /\ current' = current /\ \A b \in Actors : b # t => job'[b] = job[b]
    BY <1>5, ThreadStepOf, ActorsType
  <2>2. verFile' = verFile /\ (0 \in spoilt => 0 \in spoilt') /\ (poll'.pc = "preload" => ~store')
    <3>1. ASSUME NEW v \in Version, TakeAnswer(v, t)
          PROVE  UNCHANGED <<verFile, spoilt>> /\ poll'.pc # "preload"
      BY <3>1 DEF TakeAnswer, diskVars, Resting
    <3> QED
      BY <1>5, <3>1 DEF ThreadMoves, LoadFile, StoreContent, LoadFails, LoadThrows, ReadVersion,
                        SwapVersion, LabelVersion, diskVars, NamesInv
  <2>3. CASE job'[t] = job[t]
    <3>1. \A b \in Actors : job'[b] = job[b]
      BY <2>1, <2>3
    <3>2. Locked' <=> Locked
      BY <3>1 DEF Locked, Holds
    <3> QED
      BY <2>1, <2>2, <3>1, <3>2 DEF NamesInv, FileNamesCurrent
  <2>4. CASE job'[t] # job[t]
    <3>1. ~Holds(t) /\ job'[t].pc # "nofile"
      <4>1. job[t].pc \in Bringers \/ job[t].pc = "idle"
        BY <1>5, <2>4, ThreadStepOf, IdleFields
      <4>2. job'[t].pc # "nofile"
        BY <1>5, <2>4, ThreadStepOf
      <4> QED
        BY <4>1, <4>2 DEF Holds, Bringers
    <3> QED
      BY <2>1, <2>2, <3>1, NamesKept
  <2> QED
    BY <2>3, <2>4
<1>6. ASSUME NEW a \in Actors, Writes(a) PROVE NamesInv'
  <2>1. job[a].ver \in Version
    BY <1>6, WriteStepOf, ActorsType DEF StoreTypeInv, JobsOK, Bringers, Actors
  <2>2. 0 \in spoilt => 0 \in spoilt'
    BY <1>6, <2>1 DEF Writes, WriteSnapshot, WriteFails, RenameFails, EndCopy, Version
  <2>3. ~Holds(a) /\ job'[a].pc # "nofile"
    BY <1>6, WriteStepOf DEF Holds, Stored
  <2> QED
    BY <1>6, <2>2, <2>3, WriteStepOf, NamesKept DEF NamesInv
<1>7. ASSUME NEW a \in Actors, Setting(a) \/ FileFails(a) PROVE NamesInv'
  BY <1>7, SettingKeepsNames
<1>8. CASE LoaderMoves
  <2>1. verFile' = verFile /\ (0 \in spoilt => 0 \in spoilt')
    <3>1. ASSUME NEW v \in Version, ForceLoad(v) PROVE UNCHANGED <<verFile, spoilt>>
      BY <3>1 DEF ForceLoad, StoreContent
    <3> QED
      BY <1>8, <3>1 DEF LoaderMoves, Wake, AskServer, NotFound, GiveUp, ForceFails, LoadThrows, Report, diskVars
  <2> QED
    BY <1>0, <1>8, <2>1, LoaderStepOf, NamesKept DEF NamesInv, Holds
<1>9. CASE Load
  <2>1. current'.type # "remote" /\ spoilt' = spoilt /\ poll'.pc # "preload"
    BY <1>9 DEF Load, LockInv, Override, diskVars
  <2>2. \A a \in Actors : job'[a].pc = "nofile" => job[a].pc = "nofile"
    <3> DEFINE pc == IF entry = NoEntry THEN "init" ELSE "waiting"
    <3> DEFINE j == [Idle EXCEPT !.pc = pc]
    <3>1. job' = job \/ job' = [job EXCEPT ![Loader] = j]
      BY <1>9 DEF Load
    <3>2. j.pc # "nofile"
      BY DEF Idle
    <3> HIDE DEF j
    <3> QED
      BY <1>0, <3>1, <3>2, Became
  <2> QED
    BY <2>1, <2>2, RemoteFields DEF NamesInv, FileNamesCurrent
<1>10. CASE Restart
  <2>1. current'.type # "remote" /\ ~store' /\ \A a \in Actors : job'[a].pc = "idle"
    BY <1>10 DEF Restart, None, Idle
  <2> QED
    BY <2>1, RemoteFields DEF NamesInv, FileNamesCurrent
<1> QED
  BY <1>1, <1>2, <1>3, <1>4, <1>5, <1>6, <1>7, <1>8, <1>9, <1>10, Steps

\* The version file names the version in use whenever nobody is between the two, also
\* when servers lag behind, updates overtake each other and writes fail.
THEOREM VersionFileIsCurrent == StoreSpec => []FileNamesCurrent
<1>1. StoreInit => NamesInv
  BY RemoteFields DEF StoreInit, NamesInv, FileNamesCurrent, Resting, None, Idle
<1>2. StoreSpec => [](StoreTypeInv /\ LockInv /\ NamesInv)
  BY <1>1, InitHasTypes, InitHasLock, NextKeepsTypes, NextKeepsLock, NextKeepsNames, PTL DEF StoreSpec
<1> QED
  BY <1>2, PTL DEF NamesInv
=============================================================================
