----------------------------- MODULE PushVersions ---------------------------
(***************************************************************************)
(* One file, and the machines that are given a version of it before it is  *)
(* published: grey releases record the versions they push in the table     *)
(* push_config_version, servers keep them in a cache of their own, and     *)
(* publishing cleans the table up.  A machine loads the newer of the       *)
(* published and the pushed version.                                       *)
(*                                                                         *)
(* A release is what GreyRelease shows of it: it holds the file from its   *)
(* creation until it finishes or is cancelled, and its threads may be      *)
(* late.  The published version a server knows is what ServerCache shows   *)
(* of it: it is brought up to date again and again.                        *)
(***************************************************************************)
EXTENDS Integers

CONSTANTS Machines, MaxVersion

ASSUME PushAssumption == MaxVersion \in Nat

VARIABLES
    \* the file
    published, inuse,   \* as in ConfigTable
    edit, passed,       \* the newest edit version, and whether it is PASSED
    release,            \* version the grey release under way pushes, 0: there is none
    finishing,          \* its finishTask has posted its events and has not committed
    \* the table push_config_version
    row,                \* version of a machine, 0: no row
    prepared,           \* rows written so far: the pushes that may be notified
    begun,              \* versions that were released: their threads may be late
    deletes,            \* runs of asyncDelete that have not started
    selected,           \* rows they have selected
    early,              \* history: versions finishTask has posted events for
    \* a server
    seen,               \* published version in its cache, 0: none
    pushed,             \* CachePushConfigVersionServiceImpl.cache
    loaded,             \* the map a refresh builds, NoMap
    read                \* a row getPushVersion has read

fileVars == <<published, inuse, edit, passed, release, finishing>>
tableVars == <<row, prepared, begun, deletes, selected, early>>
serverVars == <<seen, pushed, loaded, read>>
pushVars == <<fileVars, tableVars, serverVars>>

Version == 1..MaxVersion
Push == Machines \X Version
NoMap == [type |-> "none"]
Map == [type : {"map"}, of : [Machines -> 0..MaxVersion]]

PushTypeOK ==
    /\ published \in 0..MaxVersion /\ edit \in published..MaxVersion
    /\ inuse \in BOOLEAN /\ passed \in BOOLEAN /\ finishing \in BOOLEAN
    /\ release \in 0..edit
    /\ row \in [Machines -> 0..MaxVersion]
    /\ prepared \subseteq Push /\ selected \subseteq Push
    /\ begun \subseteq Version /\ deletes \subseteq Version /\ early \subseteq Version
    /\ seen \in 0..published
    /\ pushed \in [Machines -> 0..MaxVersion]
    /\ loaded \in {NoMap} \cup Map
    /\ read \subseteq Push

PushInit ==
    /\ published = 0 /\ inuse = FALSE /\ edit = 0 /\ passed = FALSE
    /\ release = 0 /\ finishing = FALSE
    /\ row = [m \in Machines |-> 0]
    /\ prepared = {} /\ begun = {} /\ deletes = {} /\ selected = {} /\ early = {}
    /\ seen = 0 /\ pushed = [m \in Machines |-> 0] /\ loaded = NoMap /\ read = {}

Newer(a, b) == IF a > b THEN a ELSE b
-----------------------------------------------------------------------------
(* The file.                                                                 *)

\* A version is edited and approved; the lock of a release keeps editors out.
Edit ==
    /\ release = 0 /\ edit < MaxVersion
    /\ edit' = edit + 1 /\ passed' = TRUE
    /\ UNCHANGED <<published, inuse, release, finishing, tableVars, serverVars>>

\* Mutants: published versions are numbered on their own; one is left out.
NextPublished == published + 1
OneTooFar == edit + 2
NewVersion == edit + 1

\* The workflow publishes; its events follow the commit, or are lost in a crash.
Publish ==
    /\ release = 0 /\ passed /\ edit < MaxVersion
    /\ published' = NewVersion /\ edit' = edit + 1
    /\ inuse' = TRUE /\ passed' = FALSE
    /\ \/ deletes' = deletes \cup {edit}
       \/ deletes' = deletes
    /\ UNCHANGED <<release, finishing, row, prepared, begun, selected, early, serverVars>>

\* delete takes no lock.
TakeOutOfUse ==
    /\ inuse /\ ~finishing /\ edit < MaxVersion
    /\ inuse' = FALSE /\ edit' = edit + 1 /\ passed' = FALSE
    /\ UNCHANGED <<published, release, finishing, tableVars, serverVars>>
-----------------------------------------------------------------------------
(* Grey releases.                                                            *)

BeginRelease ==
    /\ release = 0 /\ passed
    /\ release' = edit /\ begun' = begun \cup {edit}
    /\ UNCHANGED <<published, inuse, edit, passed, finishing, row, prepared, deletes, selected, early, serverVars>>

\* Mutant: the row is overwritten whatever its version.
Overwritten(m, v) == v
Upserted(m, v) == Newer(row[m], v)

\* preparePush of a thread of a task that released v, over or not, for one machine.
PreparePush(m, v) ==
    /\ v \in begun
    /\ row' = [row EXCEPT ![m] = Upserted(m, v)]
    /\ prepared' = prepared \cup {<<m, v>>}
    /\ UNCHANGED <<fileVars, begun, deletes, selected, early, serverVars>>

CancelRelease ==
    /\ release # 0 /\ ~finishing
    /\ release' = 0
    /\ UNCHANGED <<published, inuse, edit, passed, finishing, tableVars, serverVars>>

\* finishTask publishes in its transaction and posts the events before it commits.
FinishPosts ==
    /\ release # 0 /\ ~finishing /\ release = edit /\ passed /\ edit < MaxVersion
    /\ finishing' = TRUE
    /\ deletes' = deletes \cup {release} /\ early' = early \cup {release}
    /\ UNCHANGED <<published, inuse, edit, passed, release, row, prepared, begun, selected, serverVars>>

FinishCommits ==
    /\ finishing
    /\ finishing' = FALSE /\ release' = 0
    /\ published' = NewVersion /\ edit' = edit + 1
    /\ inuse' = TRUE /\ passed' = FALSE
    /\ UNCHANGED <<tableVars, serverVars>>

\* Another file of the task cannot be published, or the admin crashes.
FinishRollsBack ==
    /\ finishing
    /\ finishing' = FALSE
    /\ UNCHANGED <<published, inuse, edit, passed, release, tableVars, serverVars>>
-----------------------------------------------------------------------------
(* asyncDelete.                                                              *)

DeleteSelect(max) ==
    /\ max \in deletes
    /\ deletes' = deletes \ {max}
    /\ selected' = selected \cup {p \in Push : row[p[1]] = p[2] /\ p[2] <= max}
    /\ UNCHANGED <<fileVars, row, prepared, begun, early, serverVars>>

\* Mutant: the row is deleted by its id alone.
DeletesAny(m, v) == TRUE
Deletes(m, v) == row[m] <= v

\* (A row written again after its deletion has another id and is safe in the code;
\* here it may be deleted all the same.)
DeleteRow(m, v) ==
    /\ <<m, v>> \in selected
    /\ selected' = selected \ {<<m, v>>}
    /\ row' = IF Deletes(m, v) THEN [row EXCEPT ![m] = 0] ELSE row
    /\ UNCHANGED <<fileVars, prepared, begun, deletes, early, serverVars>>

\* A crash of the admin, or an error of the database, ends them.
LoseDeletes ==
    /\ deletes' = {} /\ selected' = {}
    /\ UNCHANGED <<fileVars, row, prepared, begun, early, serverVars>>
-----------------------------------------------------------------------------
(* A server.                                                                 *)

\* Version of the file in the table, 0: none or not in use.
Row == IF inuse THEN published ELSE 0

Learn ==
    /\ seen' = Row
    /\ UNCHANGED <<fileVars, tableVars, pushed, loaded, read>>

\* update(item)
Raised(m, v) == [pushed EXCEPT ![m] = Newer(pushed[m], v)]

\* pushWithIp: told by PublishingReleaseStatus.push, at any time after preparePush.
PushWithIp(m, v) ==
    /\ <<m, v>> \in prepared
    /\ pushed' = Raised(m, v)
    /\ UNCHANGED <<fileVars, tableVars, seen, loaded, read>>

\* push: a user chooses machines for a version; no row is written.
PushByHand(m, v) ==
    /\ v <= edit /\ seen # 0
    /\ pushed' = Raised(m, v)
    /\ UNCHANGED <<fileVars, tableVars, seen, loaded, read>>

\* DbConfigInfoService.getPushVersion: a row is read, then put into the cache.
ReadRow(m) ==
    /\ read = {} /\ row[m] # 0
    /\ read' = {<<m, row[m]>>}
    /\ UNCHANGED <<fileVars, tableVars, seen, pushed, loaded>>

PutRow ==
    /\ \E p \in read : pushed' = Raised(p[1], p[2])
    /\ read' = {}
    /\ UNCHANGED <<fileVars, tableVars, seen, loaded>>

\* freshPushVersionCache: what was updated since the query is lost until the next one.
FreshSelect ==
    /\ loaded = NoMap
    /\ loaded' = [type |-> "map", of |-> row]
    /\ UNCHANGED <<fileVars, tableVars, seen, pushed, read>>

\* Mutant: the new map is merged into the old one.
MergedMap == [m \in Machines |-> Newer(pushed[m], loaded.of[m])]
FreshMap == loaded.of

FreshReplace ==
    /\ loaded # NoMap
    /\ pushed' = FreshMap /\ loaded' = NoMap
    /\ UNCHANGED <<fileVars, tableVars, seen, read>>

\* The caches are filled before the server serves.
Restart ==
    /\ seen' = Row /\ pushed' = row /\ loaded' = NoMap /\ read' = {}
    /\ UNCHANGED <<fileVars, tableVars>>
-----------------------------------------------------------------------------
FileStep == Edit \/ Publish \/ TakeOutOfUse
ReleaseStep ==
    \/ BeginRelease \/ CancelRelease \/ FinishPosts \/ FinishCommits \/ FinishRollsBack
    \/ \E m \in Machines, v \in Version : PreparePush(m, v)
DeleteStep ==
    \/ \E max \in Version : DeleteSelect(max)
    \/ \E m \in Machines, v \in Version : DeleteRow(m, v)
    \/ LoseDeletes
Fresh == FreshSelect \/ FreshReplace
ServerStep ==
    \/ Learn \/ PutRow \/ Fresh \/ Restart
    \/ \E m \in Machines, v \in Version : PushWithIp(m, v) \/ PushByHand(m, v)
    \/ \E m \in Machines : ReadRow(m)

PushNext == FileStep \/ ReleaseStep \/ DeleteStep \/ ServerStep

PushSpec == PushInit /\ [][PushNext]_pushVars

\* The refresh is scheduled every three minutes and survives errors; the cache of
\* published versions converges (ServerCache).  Nobody has to notify or to delete.
FairPushSpec == PushSpec /\ WF_pushVars(Fresh) /\ WF_pushVars(Learn)
-----------------------------------------------------------------------------
\* getLoadVersion, of the table and of the caches; 0: absent.
LoadVersion(publish, push) == IF publish = 0 THEN 0 ELSE Newer(publish, push)

InTable(m) == LoadVersion(Row, row[m])
Served(m) == LoadVersion(seen, pushed[m])

\* A machine that was given a version is never set back: its row stays, however late
\* the deletions of earlier publications and the threads of earlier releases are, until
\* a newer version is published.  finishTask breaks this for what it publishes: it
\* posts its events before it commits, and may still roll back.
GrantsKept ==
    \A p \in prepared :
        row[p[1]] >= p[2] \/ published > p[2] \/ \E e \in early : p[2] <= e

\* After a publication every machine loads the same version, whatever was pushed to
\* it before ("保证发布后配置的一致性", doc/portal.md:144), and whether or not its row
\* has been deleted.
PublishLevels ==
    [][published' # published => \A m \in Machines : InTable(m)' = published']_pushVars

\* The versions a server hands out come to those of the tables: pushes it missed or
\* lost in a refresh, those made by hand and rows it put back after their deletion.
LoadsConverge == []<>(\A m \in Machines : Served(m) = InTable(m))
=============================================================================
