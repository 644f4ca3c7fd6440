----------------------------- MODULE ClientStore ----------------------------
(***************************************************************************)
(* One file at one client: the version the client believes to have         *)
(* (AbstractDataLoader.VERSIONS), the FileStore with the data the          *)
(* application uses, its memory copy and its files on disk, the poll       *)
(* thread (LongPoller) and the executor threads that bring new versions.   *)
(*                                                                         *)
(* The content of a version never changes, so contents are versions.       *)
(* Contents always parse, answers may be cached on disk, every version is  *)
(* of one profile, and the minimum version is 0.                           *)
(***************************************************************************)
EXTENDS Integers, FiniteSets

CONSTANTS
    Threads, Loader,   \* threads that update the file; the one that loads it first
    Retain,            \* FileStore.MAX_RETAIN_VERSION
    FailOnNotExists,   \* Feature.isFailOnNotExists
    MaxVersion, MaxOverrides, MaxCrashes, MaxFailures  \* bounds

Actors == Threads \cup {Loader}

ASSUME StoreAssumption ==
    /\ Loader \notin Threads /\ IsFiniteSet(Threads)
    /\ Retain \in Nat \ {0} /\ MaxVersion \in Nat /\ MaxOverrides \in Nat
    /\ MaxCrashes \in Nat /\ MaxFailures \in Nat
    /\ FailOnNotExists \in BOOLEAN

VARIABLES
    published,  \* newest version of the file, 0: none
    override,   \* lastModified of the local override file, 0: there is none
    edits,      \* override files there have been
    \* disk
    snapshots,  \* versions with a snapshot file
    verFile,    \* the version file, 0: there is none
    spoilt,     \* versions with a snapshot that was not written or not to its end; 0: the version file
    \* memory
    entry,      \* VERSIONS: NoEntry, 0 (ABSENT) or a version
    loaded,     \* the entry's future is done
    memory,     \* LatestSnapshot, 0: none
    purged,     \* purgedFiles
    store,      \* load was called
    current,    \* FileStore.currentVersion
    data,       \* what the application uses
    crossed,    \* history: the label in use was put on the content of another version
    outdated,   \* history: an older version than `entry` says was left in use, by the first load
                \* or because a snapshot could not be read
    poll,       \* the poll thread
    job,        \* the other threads
    crashes, failures

diskVars == <<snapshots, verFile, spoilt>>
envVars == <<published, override, edits>>
pastVars == <<crossed, outdated, crashes, failures>>
storeVars == <<envVars, diskVars, entry, loaded, memory, purged, store, current, data, poll, job, pastVars>>

NoEntry == -1
Version == 1..MaxVersion
None == [type |-> "none", ver |-> 0]
Remote(v) == [type |-> "remote", ver |-> v]
Override(t) == [type |-> "override", ver |-> t]
Empty == [type |-> "empty", ver |-> 0]
Cut(v) == [type |-> "cut", ver |-> v]    \* a snapshot file that ends too early

FileVersion == {None} \cup {Remote(v) : v \in 0..MaxVersion} \cup {Override(t) : t \in 1..MaxOverrides}
Data == FileVersion \cup {Empty} \cup {Cut(v) : v \in 0..MaxVersion}

\* ver: the version it brings; label: the version read in `entry`; local: the content
\* is not in its hands, it is read from memory or disk.
Job == [pc : {"idle", "waiting", "init", "loading", "writing", "copying", "update", "cas", "changed",
              "set", "file", "nofile", "report"},
        ver : 0..MaxVersion, label : NoEntry..MaxVersion, local : BOOLEAN]
Idle == [pc |-> "idle", ver |-> 0, label |-> 0, local |-> FALSE]
Poll == [pc : {"preload", "idle", "forget", "asked"}, asked : 0..MaxVersion]
Resting == [pc |-> "idle", asked |-> 0]

StoreTypeOK ==
    /\ published \in 0..MaxVersion
    /\ override \in 0..MaxOverrides /\ edits \in 0..MaxOverrides /\ override <= edits
    /\ snapshots \subseteq Version /\ verFile \in 0..MaxVersion /\ spoilt \subseteq 0..MaxVersion
    /\ entry \in NoEntry..MaxVersion /\ memory \in 0..MaxVersion
    /\ loaded \in BOOLEAN /\ purged \in BOOLEAN /\ store \in BOOLEAN
    /\ current \in FileVersion /\ data \in Data /\ crossed \in BOOLEAN /\ outdated \in BOOLEAN
    /\ poll \in Poll /\ job \in [Actors -> Job]
    /\ crashes \in 0..MaxCrashes /\ failures \in 0..MaxFailures

StoreInit ==
    /\ published = 0 /\ spoilt = {} /\ crossed = FALSE /\ outdated = FALSE
    /\ override = 0 /\ edits = 0
    /\ snapshots = {} /\ verFile = 0
    /\ entry = NoEntry /\ loaded = FALSE /\ memory = 0 /\ purged = FALSE
    /\ store = FALSE /\ current = None /\ data = None
    /\ poll = Resting /\ job = [a \in Actors |-> Idle]
    /\ crashes = 0 /\ failures = 0

\* VersionProfile.needUpdate; FileVersion.needUpdate for a remote version and for an override.
NeedUpdate(old, v) == v > 0 /\ old < v
NeedRemote(v) ==
    \/ current.type = "none"
    \/ current.type = "remote" /\ NeedUpdate(current.ver, v)
NeedOverride == current.type = "override" => current.ver < override

\* A thread has recorded its version and is about to set it.
Bringing == \E t \in Threads : job[t].pc \in {"changed", "set"}

\* The monitor of the FileStore is held while setVersion writes the version file.
Holds(a) == job[a].pc \in {"file", "nofile"}
Locked == \E a \in Actors : Holds(a)

\* A request or a write fails.
Fails ==
    /\ failures < MaxFailures /\ failures' = failures + 1
    /\ UNCHANGED <<crossed, outdated, crashes>>

\* A load fails before the content is taken, or storeData throws after that.
LoadThrows(a) ==
    /\ job[a].pc \in {"loading", "writing"} /\ Fails
    /\ spoilt' = IF job[a].pc = "writing" THEN spoilt \cup {job[a].ver} ELSE spoilt
    /\ UNCHANGED <<snapshots, verFile>>

Go(a, pc) == job' = [job EXCEPT ![a].pc = pc]
Done(a) == job' = [job EXCEPT ![a] = Idle]
-----------------------------------------------------------------------------
(* Around the client.                                                        *)

\* As in ConfigTable.
Publish ==
    /\ published < MaxVersion
    /\ published' = published + 1
    /\ UNCHANGED <<override, edits, diskVars, entry, loaded, memory, purged, store, current, data, poll, job, pastVars>>

\* A developer puts an override file into place, or edits or removes it.
EditOverride ==
    /\ edits < MaxOverrides
    /\ edits' = edits + 1 /\ override' = edits + 1
    /\ UNCHANGED <<published, diskVars, entry, loaded, memory, purged, store, current, data, poll, job, pastVars>>

RemoveOverride ==
    /\ override # 0
    /\ override' = 0
    /\ UNCHANGED <<published, edits, diskVars, entry, loaded, memory, purged, store, current, data, poll, job, pastVars>>

\* What a server says is the version of the file, which may be what it knew earlier;
\* 0: it does not know it yet, or the file has been taken out of use.
Answers == 0..published
-----------------------------------------------------------------------------
(* The poll thread.                                                          *)

\* checkOverride, at most once a minute; a file with an override is not polled.
\* Mutant: without the monitor.
UseOverrideAnytime ==
    /\ store /\ poll.pc = "idle" /\ override # 0 /\ NeedOverride
    /\ current' = Override(override) /\ data' = Override(override)
    /\ UNCHANGED <<envVars, diskVars, entry, loaded, memory, purged, store, poll, job, pastVars>>
UseOverride ==
    /\ store /\ poll.pc = "idle" /\ override # 0 /\ NeedOverride /\ ~Locked
    /\ current' = Override(override) /\ data' = Override(override)
    /\ UNCHANGED <<envVars, diskVars, entry, loaded, memory, purged, store, poll, job, pastVars>>

\* checkOverride finds that the override it uses has gone: the label is reset
\* without the monitor, and then what the client believes to have.
LeaveOverride ==
    /\ store /\ poll.pc = "idle" /\ override = 0 /\ current.type = "override"
    /\ current' = Remote(0)
    /\ poll' = [poll EXCEPT !.pc = "forget"]
    /\ UNCHANGED <<envVars, diskVars, entry, loaded, memory, purged, store, data, job, pastVars>>

\* AbstractDataLoader.setVersion.  Mutant: it is not called.
KeepVersion == entry
ForgottenVersion == IF entry = NoEntry THEN NoEntry ELSE 0
ForgetVersion ==
    /\ poll.pc = "forget"
    /\ entry' = ForgottenVersion
    /\ poll' = Resting
    /\ UNCHANGED <<envVars, diskVars, loaded, memory, purged, store, current, data, job, pastVars>>

\* reLoading.  The thread waited for the updates of the last answer, but only until
\* they had tried to set `entry` (the latch of updateVersion), and twenty seconds at
\* most: any of them may still be under way.
\* Mutant: it does not mind that the file has no version.
StartPollRaw ==
    /\ store /\ poll.pc = "idle" /\ override = 0
    /\ poll' = [pc |-> "asked", asked |-> entry]
    /\ UNCHANGED <<envVars, diskVars, entry, loaded, memory, purged, store, current, data, job, pastVars>>
StartPoll ==
    /\ store /\ poll.pc = "idle" /\ override = 0
    /\ poll' = [pc |-> "asked", asked |-> IF entry = NoEntry THEN 0 ELSE entry]
    /\ UNCHANGED <<envVars, diskVars, entry, loaded, memory, purged, store, current, data, job, pastVars>>

\* loadIfUpdated and updateFile: a version that is not needed completes the first
\* load; one that is needed is read from disk or loaded by a thread.
TakeAnswer(v, t) ==
    /\ poll.pc \in {"preload", "asked"} /\ v \in Answers /\ v > poll.asked
    /\ poll' = Resting
    /\ IF entry # NoEntry /\ NeedUpdate(entry, v)
       THEN /\ job[t] = Idle
            /\ job' = [job EXCEPT ![t] =
                   [pc |-> IF v \in snapshots THEN "update" ELSE "loading",
                    ver |-> v, label |-> 0, local |-> v \in snapshots]]
            /\ UNCHANGED loaded
       ELSE /\ loaded' = (loaded \/ entry # NoEntry)
            /\ UNCHANGED job
    /\ UNCHANGED <<envVars, diskVars, entry, memory, purged, store, current, data, pastVars>>

\* Nothing new: not modified, or the poll timed out, as it does for an unknown file.
NoChange ==
    /\ \/ poll.pc = "asked" /\ \E v \in Answers : v <= poll.asked
       \/ poll.pc = "preload" /\ \E v \in Answers \ {0} : v <= poll.asked
    /\ poll' = Resting
    /\ loaded' = (loaded \/ entry # NoEntry)
    /\ UNCHANGED <<envVars, diskVars, entry, memory, purged, store, current, data, job, pastVars>>

\* The check at the start finds a server that does not know the file:
\* purgeAllRelativeFiles, once.
Purge ==
    /\ poll.pc = "preload" /\ 0 \in Answers
    /\ poll' = Resting
    /\ loaded' = (loaded \/ entry # NoEntry)
    /\ IF entry = NoEntry \/ purged THEN UNCHANGED <<purged, diskVars>>
       ELSE purged' = TRUE /\ snapshots' = {} /\ verFile' = 0 /\ UNCHANGED spoilt
    /\ UNCHANGED <<envVars, entry, memory, store, current, data, job, pastVars>>

\* The request fails after its retries.  At the start, what is cached is used then.
PollFails ==
    /\ poll.pc \in {"preload", "asked"} /\ Fails
    /\ poll' = Resting
    /\ loaded' = (loaded \/ poll.pc = "preload")
    /\ UNCHANGED <<envVars, diskVars, entry, memory, purged, store, current, data, job>>
-----------------------------------------------------------------------------
(* storeData, by a thread or by the first load.                              *)

\* What a thread goes on with when the content is stored.
Stored(a) == IF a = Loader THEN "set" ELSE "update"

\* storeMemory; atomicWriteFile deletes the file before the new one takes its place.
StoreContent(a, v) ==
    /\ job[a].pc = "loading"
    /\ memory' = IF NeedUpdate(memory, v) THEN v ELSE memory
    /\ snapshots' = IF NeedUpdate(memory, v) THEN snapshots \ {v} ELSE snapshots
    /\ job' = [job EXCEPT ![a] = [pc |-> IF NeedUpdate(memory, v) THEN "writing" ELSE Stored(a),
                                  ver |-> v, label |-> v, local |-> FALSE]]
    /\ UNCHANGED <<envVars, verFile, spoilt, entry, loaded, purged, store, current, data, poll, pastVars>>

WriteSnapshot(a) ==
    /\ job[a].pc = "writing"
    /\ snapshots' = snapshots \cup {job[a].ver} /\ spoilt' = spoilt \ {job[a].ver}
    /\ Go(a, Stored(a))
    /\ UNCHANGED <<envVars, verFile, entry, loaded, memory, purged, store, current, data, poll, pastVars>>

\* atomicWriteFile logs what goes wrong and returns; storeMemory has the version, so
\* that nobody writes it again.
WriteFails(a) ==
    /\ job[a].pc = "writing" /\ Fails
    /\ spoilt' = spoilt \cup {job[a].ver}
    /\ Go(a, Stored(a))
    /\ UNCHANGED <<envVars, snapshots, verFile, entry, loaded, memory, purged, store, current, data, poll>>

\* The temporary file cannot be renamed and is copied: others see the copy grow.
RenameFails(a) ==
    /\ job[a].pc = "writing" /\ Fails
    /\ snapshots' = snapshots \cup {job[a].ver} /\ spoilt' = spoilt \cup {job[a].ver}
    /\ Go(a, "copying")
    /\ UNCHANGED <<envVars, verFile, entry, loaded, memory, purged, store, current, data, poll>>

EndCopy(a) ==
    /\ job[a].pc = "copying"
    /\ spoilt' = spoilt \ {job[a].ver}
    /\ Go(a, Stored(a))
    /\ UNCHANGED <<envVars, snapshots, verFile, entry, loaded, memory, purged, store, current, data, poll, pastVars>>
-----------------------------------------------------------------------------
(* updateFile's thread.                                                      *)

LoadFile(t) == job[t].pc = "loading" /\ StoreContent(t, job[t].ver)

\* The file counts as loaded.  Mutant: the version counts as had.
LoadFailsHad(t) ==
    /\ LoadThrows(t)
    /\ loaded' = TRUE /\ entry' = job[t].ver
    /\ Done(t)
    /\ UNCHANGED <<envVars, memory, purged, store, current, data, poll>>
LoadFails(t) ==
    /\ LoadThrows(t)
    /\ loaded' = TRUE
    /\ Done(t)
    /\ UNCHANGED <<envVars, entry, memory, purged, store, current, data, poll>>

\* updateVersion reads `updated` ...
ReadVersion(t) ==
    /\ job[t].pc = "update"
    /\ IF NeedUpdate(entry, job[t].ver)
       THEN job' = [job EXCEPT ![t].pc = "cas", ![t].label = entry] /\ UNCHANGED loaded
       ELSE Done(t) /\ loaded' = TRUE
    /\ UNCHANGED <<envVars, diskVars, entry, memory, purged, store, current, data, poll, pastVars>>

\* ... and sets it if nobody did meanwhile.
SwapVersion(t) ==
    /\ job[t].pc = "cas"
    /\ IF entry = job[t].label
       THEN entry' = job[t].ver /\ Go(t, "changed") /\ UNCHANGED loaded
       ELSE Done(t) /\ loaded' = TRUE /\ UNCHANGED entry
    /\ UNCHANGED <<envVars, diskVars, memory, purged, store, current, data, poll, pastVars>>

\* versionChanged reads `updated` again and labels what the thread holds with it.
LabelVersion(t) ==
    /\ job[t].pc = "changed"
    /\ IF store
       THEN job' = [job EXCEPT ![t].pc = "set", ![t].label = entry] /\ UNCHANGED loaded
       ELSE Done(t) /\ loaded' = TRUE
    /\ UNCHANGED <<envVars, diskVars, entry, memory, purged, store, current, data, poll, pastVars>>
-----------------------------------------------------------------------------
(* setVersion.                                                               *)

\* loadSnapshot finds the content in memory or on disk, where it may be cut off.
Readable(a) == job[a].local => (job[a].label = memory \/ job[a].label \in snapshots)
IsCut(a) == job[a].local /\ job[a].label # memory /\ job[a].label \in spoilt

\* After setVersion: the loader reports to `entry`, a thread is done.
Leave(a) ==
    IF a = Loader THEN Go(a, "report") /\ UNCHANGED loaded
    ELSE Done(a) /\ loaded' = TRUE

\* What initLoad holds the monitor for: the snapshot of the version is there.
FoundInLocal(a) == a = Loader /\ job[a].pc = "init" /\ job[a].ver \in snapshots

\* The content is read, and its label is the one in use (from then on `local` says that
\* the content is cut).  The server that the loader asked may have lagged behind.
Relabel(a, pc) ==
    /\ job[a].pc = "set" \/ FoundInLocal(a)
    /\ ~Locked /\ Readable(a) /\ NeedRemote(job[a].label)
    /\ current' = Remote(job[a].label)
    /\ job' = [job EXCEPT ![a].pc = pc, ![a].local = IsCut(a),
                          ![a].ver = IF job[a].local THEN job[a].label ELSE job[a].ver]
    /\ outdated' = (job[a].label < entry /\ (outdated \/ (a = Loader /\ ~Bringing)))
    /\ UNCHANGED <<envVars, snapshots, entry, loaded, memory, purged, store, data, poll, crossed, crashes>>

\* atomicWriteFile deletes the version file; it may also fail, and leave it or not.
SetVersion(a) == Relabel(a, "file") /\ verFile' = 0 /\ UNCHANGED <<spoilt, failures>>
FileFails(a) ==
    /\ Relabel(a, "nofile")
    /\ failures < MaxFailures /\ failures' = failures + 1
    /\ verFile' \in {0, verFile} /\ spoilt' = spoilt \cup {0}

\* The version is not newer than what is used.  Mutant: its data is used nevertheless.
UseNevertheless(a) ==
    /\ job[a].pc = "set" \/ FoundInLocal(a)
    /\ ~Locked /\ Readable(a) /\ ~NeedRemote(job[a].label)
    /\ data' = Remote(job[a].ver)
    /\ Leave(a)
    /\ UNCHANGED <<envVars, diskVars, entry, memory, purged, store, current, poll, pastVars>>
KeepCurrent(a) ==
    /\ job[a].pc = "set" \/ FoundInLocal(a)
    /\ ~Locked /\ Readable(a) /\ ~NeedRemote(job[a].label)
    /\ Leave(a)
    /\ UNCHANGED <<envVars, diskVars, entry, memory, purged, store, current, data, poll, pastVars>>

\* The first load ends without a version.
GiveUp ==
    /\ data' = IF FailOnNotExists THEN data ELSE Empty
    /\ Done(Loader)
    /\ UNCHANGED <<envVars, snapshots, verFile, entry, loaded, memory, purged, store, current, poll>>

\* The snapshot has gone meanwhile, or does not parse because it is cut off.
Unusable(a) == ~Readable(a) \/ IsCut(a)
ReadFails(a) ==
    /\ job[a].pc = "set" /\ ~Locked /\ Unusable(a)
    /\ IF a = Loader THEN GiveUp
       ELSE /\ Leave(a)
            /\ UNCHANGED <<envVars, snapshots, verFile, entry, memory, purged, store, current, data, poll>>
    /\ outdated' = (outdated \/ a # Loader)
    /\ UNCHANGED <<spoilt, crossed, crashes, failures>>

\* purge: the newest Retain snapshots are kept.  Mutant: sorted the other way.
KeptOldest(v) ==
    IF v <= Retain THEN snapshots
    ELSE {s \in snapshots : Cardinality({t \in snapshots : t < s}) < Retain}
Kept(v) ==
    IF v <= Retain THEN snapshots
    ELSE {s \in snapshots : Cardinality({t \in snapshots : t > s}) < Retain}

\* The version file is in place; the data is used and the listeners are called.
UseVersion(a) ==
    /\ Holds(a)
    /\ \/ job[a].pc = "file" /\ verFile' = job[a].label /\ spoilt' = spoilt \ {0}
       \/ job[a].pc = "nofile" /\ UNCHANGED <<verFile, spoilt>>
    /\ data' = IF job[a].local THEN Cut(job[a].label) ELSE Remote(job[a].ver)
    /\ crossed' = (job[a].label # job[a].ver)
    /\ snapshots' = Kept(job[a].label)
    /\ purged' = FALSE
    /\ Leave(a)
    /\ UNCHANGED <<envVars, entry, memory, store, current, poll, outdated, crashes, failures>>
-----------------------------------------------------------------------------
(* load and initLoad.                                                        *)

\* A file with an override is loaded with that; VERSIONS is not asked then.
Load ==
    /\ ~store /\ poll.pc # "preload"
    /\ store' = TRUE
    /\ IF override # 0
       THEN /\ current' = Override(override) /\ data' = Override(override)
            /\ UNCHANGED <<entry, job>>
       ELSE /\ job' = [job EXCEPT ![Loader] =
                  [Idle EXCEPT !.pc = IF entry = NoEntry THEN "init" ELSE "waiting"]]
            /\ entry' = IF entry = NoEntry THEN 0 ELSE entry
            /\ UNCHANGED <<current, data>>
    /\ UNCHANGED <<envVars, diskVars, loaded, memory, purged, poll, pastVars>>

\* The listener of the entry's future calls initLoad, which sets the version at once
\* if there is a snapshot of it, and asks a server else.
Wake ==
    /\ job[Loader].pc = "waiting" /\ loaded
    /\ job' = [job EXCEPT ![Loader] = [pc |-> "init", ver |-> entry, label |-> entry, local |-> TRUE]]
    /\ UNCHANGED <<envVars, diskVars, entry, loaded, memory, purged, store, current, data, poll, pastVars>>

AskServer ==
    /\ job[Loader].pc = "init" /\ ~Locked /\ (FoundInLocal(Loader) => Unusable(Loader))
    /\ Go(Loader, "loading")
    /\ UNCHANGED <<envVars, diskVars, entry, loaded, memory, purged, store, current, data, poll, pastVars>>

ForceLoad(v) ==
    /\ job[Loader].pc = "loading" /\ v \in Answers \ {0}
    /\ StoreContent(Loader, v)

NotFound ==
    /\ job[Loader].pc = "loading" /\ 0 \in Answers
    /\ GiveUp /\ UNCHANGED <<spoilt, pastVars>>

\* loadLastVersion falls back to the version file, if it says anything else.
Fallback == verFile # job[Loader].ver /\ verFile \in snapshots

ForceFails ==
    /\ LoadThrows(Loader)
    /\ IF Fallback
       THEN /\ job' = [job EXCEPT ![Loader] =
                  [pc |-> "set", ver |-> verFile, label |-> verFile, local |-> TRUE]]
            /\ UNCHANGED <<envVars, entry, loaded, memory, purged, store, current, data, poll>>
       ELSE GiveUp

\* setUpdated
Report ==
    /\ job[Loader].pc = "report"
    /\ entry' = IF NeedUpdate(entry, job[Loader].label) THEN job[Loader].label ELSE entry
    /\ outdated' = IF entry' = entry THEN outdated
                   ELSE current.type = "remote" /\ current.ver < entry'
    /\ Done(Loader)
    /\ UNCHANGED <<envVars, diskVars, loaded, memory, purged, store, current, data, poll, crossed, crashes, failures>>
-----------------------------------------------------------------------------
\* The version in the version file; a file that was not written to its end has none.
Found ==
    IF verFile # 0 THEN {verFile} ELSE {NoEntry} \cup (IF 0 \in spoilt THEN {0} ELSE {})

\* The application dies and starts again: findAllFiles and preLoadLocal.
Restart ==
    /\ crashes < MaxCrashes
    /\ crashes' = crashes + 1 /\ crossed' = FALSE /\ outdated' = FALSE
    /\ \E found \in IF override # 0 THEN {NoEntry} ELSE Found :
           /\ entry' = found
           /\ poll' = IF found = NoEntry THEN Resting ELSE [pc |-> "preload", asked |-> found]
    /\ loaded' = FALSE /\ memory' = 0 /\ purged' = FALSE
    /\ store' = FALSE /\ current' = None /\ data' = None
    /\ job' = [a \in Actors |-> Idle]
    /\ UNCHANGED <<envVars, diskVars, failures>>
-----------------------------------------------------------------------------
PollStep ==
    \/ UseOverride \/ LeaveOverride \/ ForgetVersion \/ StartPoll
    \/ \E v \in Version, t \in Threads : TakeAnswer(v, t)
    \/ NoChange \/ Purge
Setting(a) == SetVersion(a) \/ KeepCurrent(a) \/ ReadFails(a) \/ UseVersion(a)
ThreadStep(t) ==
    \/ LoadFile(t) \/ WriteSnapshot(t) \/ EndCopy(t)
    \/ ReadVersion(t) \/ SwapVersion(t) \/ LabelVersion(t)
    \/ Setting(t)
LoaderStep ==
    \/ Wake \/ AskServer \/ (\E v \in Version : ForceLoad(v)) \/ NotFound
    \/ WriteSnapshot(Loader) \/ EndCopy(Loader) \/ Setting(Loader) \/ Report
WritingFails(a) == WriteFails(a) \/ RenameFails(a) \/ FileFails(a)
Failure ==
    \/ PollFails \/ ForceFails
    \/ \E t \in Threads : LoadFails(t)
    \/ \E a \in Actors : WritingFails(a)

StoreNext ==
    \/ Publish \/ EditOverride \/ RemoveOverride
    \/ PollStep \/ Load \/ LoaderStep
    \/ \E t \in Threads : ThreadStep(t)
    \/ Failure \/ Restart

StoreSpec == StoreInit /\ [][StoreNext]_storeVars

\* The poll thread is started again whatever happens, executor threads run on, and
\* servers that lag behind catch up.
FairStoreSpec ==
    /\ StoreSpec
    /\ WF_storeVars(PollStep) /\ WF_storeVars(LoaderStep)
    /\ SF_storeVars(UseOverride) /\ SF_storeVars(LeaveOverride)
    /\ \A t \in Threads : WF_storeVars(ThreadStep(t))
    /\ SF_storeVars(\E t \in Threads : TakeAnswer(published, t))
-----------------------------------------------------------------------------
\* checkOverride and setVersion share one label and one configuration and are called
\* by different threads: while an override is in use, no answer of a server, however
\* old the request, has replaced what the application sees.  (With isFailOnNotExists
\* off, a first load that fails late empties the configuration, FileStore.java:158
\* and 175: GiveUp.)
OverrideInUse == FailOnNotExists /\ current.type = "override" => data = current

\* What the client tells the servers it has (`entry`) is in use or about to be: a
\* version that is recorded but never used would not be sent to the client again.
\* Between removing an override and forgetting the version the two may differ.  The
\* code loses an update in two ways only: those that `outdated` records.
UpdateNotLost ==
    current.type = "remote" /\ ~outdated =>
        \/ current.ver >= entry
        \/ poll.pc = "forget" \/ Bringing

\* The version under which the data is logged, reported and uploaded
\* (FileStore.currentVersion, set before the data) is the one of the data, unless the
\* thread that brought the data found in `entry` what another one had recorded
\* meanwhile.  The data is older then, as long as there was no override.
LabelTellsContent ==
    FailOnNotExists /\ ~Locked /\ current.type = "remote" /\ current.ver > 0 =>
        \/ data \in {current, Cut(current.ver)}
        \/ crossed /\ data.type = "remote" /\ (edits = 0 => data.ver < current.ver)

\* When nothing is going on, the version file names the version in use and its
\* snapshot is there, so that a start without any server finds it.  The code leaves
\* open: files it failed to write, a version that was not stored because memory had a
\* newer one, and the purge when as many newer versions as are retained were stored
\* and not taken into use.
Quiet == \A a \in Actors : job[a] = Idle
CacheRecovers ==
    Quiet /\ current.type = "remote" /\ current.ver > 0 =>
        /\ 0 \in spoilt \/ verFile = current.ver
        /\ \/ current.ver \in snapshots \cup spoilt
           \/ memory > current.ver
           \/ Cardinality({s \in snapshots : s > current.ver}) >= Retain

\* However requests failed and processes died, what is published last comes into use
\* under its label.  Besides `outdated` and `crossed`, two cases the code leaves
\* behind are excluded: a file loaded with an override (NoEntry, see OverrideGone),
\* and a first load that fails for a file whose version was on disk without its
\* snapshot (None), which nothing retries.
ClientFollows ==
    <>[](store /\ published > 0 /\ override = 0 /\ entry # NoEntry /\ current # None /\ ~outdated
            => current = Remote(published) /\ (data \in {current, Cut(published)} \/ crossed))

\* FileStore.java:346: the remote file is restored when the local file is deleted.
OverrideGone ==
    <>[](store /\ published > 0 /\ override = 0 /\ ~outdated => data = Remote(published))
=============================================================================
