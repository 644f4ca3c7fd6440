----------------------------- MODULE ServerCache ----------------------------
(***************************************************************************)
(* One server: its cache of published versions                             *)
(* (CacheConfigVersionServiceImpl), the request threads that update it     *)
(* with what they read in the database (ConfigStoreImpl.update and         *)
(* DbConfigInfoService) and the task that refreshes it.  The database is   *)
(* the abstract ConfigTable; the server only reads it.                     *)
(*                                                                         *)
(* Notifications of the admin carry no version.  They may be lost, late,   *)
(* repeated, or sent before the transaction they announce commits, and a   *)
(* client's forced load reads the database as well: a request thread may   *)
(* look at the row of any file at any time.                                *)
(*                                                                         *)
(* The contents on disk are left out: they are keyed by file and version,  *)
(* never change, and are read from the database when the disk has none.    *)
(***************************************************************************)
EXTENDS ConfigTable

CONSTANTS
    Handlers,      \* request threads of the server
    MaxCrashes,    \* bound: crashes of the server
    MaxDbErrors    \* bound: refreshes the database fails

ASSUME ServerAssumption ==
    MaxVersion \in Nat /\ MaxCrashes \in Nat /\ MaxDbErrors \in Nat

VARIABLES
    cache,     \* version of each file, 0: no entry
    handler,   \* the request threads
    refresh,   \* the fresh-config-version-thread
    changes,   \* onChange calls the config-on-change threads have not run yet
    up,        \* "down", "starting" or "up"
    crashes, dbErrors

cacheVars == <<cache, handler, refresh, changes, up, crashes, dbErrors>>
serverVars == <<configVars, cacheVars>>

VersionOrNone == 0..MaxVersion
Changes == Files \X (1..MaxVersion)

\* A thread that looked at the row of `file`; version 0: there is no row.  "replaced":
\* it is to remove the entry, and the map has been replaced since the look.
IdleHandler == [pc |-> "idle"]
Handling(pc, f, v) == [pc |-> pc, file |-> f, ver |-> v]
HandlerState ==
    {IdleHandler} \cup [pc : {"remove", "replaced", "check", "put"}, file : Files, ver : VersionOrNone]

\* snap: the result of loadAll; old: the map the cache was replaced for; todo:
\* files of `old` not yet compared with the new map.
RefreshState == [pc : {"idle", "loaded", "compare"}, snap : [Files -> VersionOrNone],
                 old : [Files -> VersionOrNone], todo : SUBSET Files]

Nothing == [f \in Files |-> 0]
Resting == [pc |-> "idle", snap |-> Nothing, old |-> Nothing, todo |-> {}]

ServerTypeOK ==
    /\ version \in [Files -> VersionOrNone] /\ inuse \in [Files -> BOOLEAN]
    /\ cache \in [Files -> VersionOrNone]
    /\ handler \in [Handlers -> HandlerState]
    /\ refresh \in RefreshState
    /\ changes \subseteq Changes
    /\ up \in {"down", "starting", "up"}
    /\ crashes \in 0..MaxCrashes /\ dbErrors \in 0..MaxDbErrors

CacheInit ==
    /\ cache = Nothing
    /\ handler = [h \in Handlers |-> IdleHandler]
    /\ refresh = Resting
    /\ changes = {}
    /\ up = "down"
    /\ crashes = 0 /\ dbErrors = 0

\* SELECT ... FROM config WHERE public_status != DELETE
Row(f) == IF inuse[f] THEN version[f] ELSE 0
Rows == [f \in Files |-> Row(f)]
-----------------------------------------------------------------------------
(* Requests.                                                                 *)

\* ConfigStoreImpl.update: the row is read, then the content is saved and the
\* cache updated, or the entry is removed.  A disk that cannot be written does
\* not stop it.
NotifyUpdate(h, f) ==
    /\ up = "up" /\ handler[h] = IdleHandler
    /\ handler' = [handler EXCEPT ![h] =
          IF Row(f) = 0 THEN Handling("remove", f, 0) ELSE Handling("check", f, Row(f))]
    /\ UNCHANGED <<configVars, cache, refresh, changes, up, crashes, dbErrors>>

\* DbConfigInfoService.getVersion, when a forced load is not content with the cache.
ForceLoad(h, f) ==
    /\ up = "up" /\ handler[h] = IdleHandler
    /\ Row(f) # 0
    /\ handler' = [handler EXCEPT ![h] = Handling("check", f, Row(f))]
    /\ UNCHANGED <<configVars, cache, refresh, changes, up, crashes, dbErrors>>

\* The second look.  0 is below every version: no entry, or an older one.
NewerOrNone(f, v) == cache[f] < v

\* update: the first look, without the lock.
CheckVersion(h) ==
    LET f == handler[h].file
        v == handler[h].ver
    IN  /\ handler[h].pc = "check"
        /\ handler' = [handler EXCEPT ![h] =
              IF cache[f] < v THEN Handling("put", f, v) ELSE IdleHandler]
        /\ UNCHANGED <<configVars, cache, refresh, changes, up, crashes, dbErrors>>

\* update: the second look, the entry and the call of onChange, under the lock.
PutVersion(h) ==
    LET f == handler[h].file
        v == handler[h].ver
    IN  /\ handler[h].pc = "put"
        /\ IF NewerOrNone(f, v)
           THEN /\ cache' = [cache EXCEPT ![f] = v]
                /\ changes' = changes \cup {<<f, v>>}
           ELSE UNCHANGED <<cache, changes>>
        /\ handler' = [handler EXCEPT ![h] = IdleHandler]
        /\ UNCHANGED <<configVars, refresh, up, crashes, dbErrors>>

\* update with DELETE takes no lock: it may still hold a map that was replaced
\* meanwhile, which the refresh is comparing or nobody looks at any more.
RemoveVersion(h) ==
    LET f == handler[h].file
    IN  /\ handler[h].pc \in {"remove", "replaced"}
        /\ \/ /\ cache' = [cache EXCEPT ![f] = 0]
              /\ UNCHANGED refresh
           \/ /\ handler[h].pc = "replaced"
              /\ refresh' = IF refresh.pc = "compare" THEN [refresh EXCEPT !.old[f] = 0] ELSE refresh
              /\ UNCHANGED cache
        /\ handler' = [handler EXCEPT ![h] = IdleHandler]
        /\ UNCHANGED <<configVars, changes, up, crashes, dbErrors>>
-----------------------------------------------------------------------------
(* freshConfigVersionCache                                                   *)

RefreshLoad ==
    /\ up = "up" /\ refresh.pc = "idle"
    /\ refresh' = [refresh EXCEPT !.pc = "loaded", !.snap = Rows]
    /\ UNCHANGED <<configVars, cache, handler, changes, up, crashes, dbErrors>>

\* Mutants: what the database said replaces what was updated since; entries
\* that the database has no row for are kept.
SnapshotOnly(f) == refresh.snap[f]
NeverDropped(f) == IF cache[f] > refresh.snap[f] THEN cache[f] ELSE refresh.snap[f]
Merged(f) ==
    IF refresh.snap[f] # 0 /\ cache[f] > refresh.snap[f] THEN cache[f] ELSE refresh.snap[f]

MapReplaced(h) ==
    IF handler[h].pc = "remove" THEN Handling("replaced", handler[h].file, 0) ELSE handler[h]

\* The map is built and replaced under the lock.
RefreshMerge ==
    /\ refresh.pc = "loaded"
    /\ cache' = [f \in Files |-> Merged(f)]
    /\ refresh' = [Resting EXCEPT !.pc = "compare", !.old = cache, !.todo = Files]
    /\ handler' = [h \in Handlers |-> MapReplaced(h)]
    /\ up' = "up"
    /\ UNCHANGED <<configVars, changes, crashes, dbErrors>>

\* Changes are posted for entries of the old map, one after the other.
\* Mutant: the comparison the wrong way round.
OlderThanBefore(f) == refresh.old[f] # 0 /\ cache[f] < refresh.old[f]
Changed(f) == refresh.old[f] # 0 /\ cache[f] > refresh.old[f]
RefreshCompare(f) ==
    /\ refresh.pc = "compare" /\ f \in refresh.todo
    /\ changes' = IF Changed(f) THEN changes \cup {<<f, cache[f]>>} ELSE changes
    /\ refresh' = IF refresh.todo = {f} THEN Resting ELSE [refresh EXCEPT !.todo = @ \ {f}]
    /\ UNCHANGED <<configVars, cache, handler, up, crashes, dbErrors>>

\* The exception is caught by the task, so the scheduler goes on.
\* Mutant: it is not, and the scheduler never runs the task again.
NeverAgain == [Resting EXCEPT !.pc = "dead"]
AfterError == Resting
RefreshFails ==
    /\ up = "up" /\ refresh.pc = "idle" /\ dbErrors < MaxDbErrors
    /\ dbErrors' = dbErrors + 1
    /\ refresh' = AfterError
    /\ UNCHANGED <<configVars, cache, handler, changes, up, crashes>>
-----------------------------------------------------------------------------
(* The server's life.  Memory is lost in a crash, the disk is not.  init()   *)
(* refreshes once before any request is served.                              *)

Crash ==
    /\ up # "down" /\ crashes < MaxCrashes
    /\ crashes' = crashes + 1
    /\ up' = "down"
    /\ cache' = Nothing
    /\ handler' = [h \in Handlers |-> IdleHandler]
    /\ refresh' = Resting
    /\ changes' = {}
    /\ UNCHANGED <<configVars, dbErrors>>

Start ==
    /\ up = "down"
    /\ up' = "starting"
    /\ refresh' = [refresh EXCEPT !.pc = "loaded", !.snap = Rows]
    /\ UNCHANGED <<configVars, cache, handler, changes, crashes, dbErrors>>
-----------------------------------------------------------------------------
HandlerStep(h) == CheckVersion(h) \/ PutVersion(h) \/ RemoveVersion(h)
RefreshStep == RefreshLoad \/ RefreshMerge \/ \E f \in Files : RefreshCompare(f)

CacheWork ==
    \/ \E h \in Handlers, f \in Files : NotifyUpdate(h, f) \/ ForceLoad(h, f)
    \/ \E h \in Handlers : HandlerStep(h)
    \/ RefreshStep \/ RefreshFails
    \/ Start

TableStep == ConfigNext /\ UNCHANGED cacheVars

\* A config-on-change thread takes a change; who is told is no matter here.
TakeChange ==
    /\ \E c \in changes : changes' = changes \ {c}
    /\ UNCHANGED <<configVars, cache, handler, refresh, up, crashes, dbErrors>>

ServerInit == ConfigInit /\ CacheInit
ServerNext == TableStep \/ CacheWork \/ Crash \/ TakeChange
ServerSpec == ServerInit /\ [][ServerNext]_serverVars

\* Threads run on, the scheduler ticks and a crashed server is started again.
CacheFairness ==
    /\ \A h \in Handlers : WF_serverVars(HandlerStep(h))
    /\ WF_serverVars(RefreshStep)
    /\ WF_serverVars(Start)

FairServerSpec == ServerSpec /\ CacheFairness
-----------------------------------------------------------------------------
\* No request thread, however late, and no refresh, however old what it loaded,
\* takes the entry of a file back to an earlier version (the comparisons in
\* update and freshConfigVersionCache).
VersionsDontGoBack ==
    [][\A f \in Files : cache[f] # 0 /\ cache'[f] # 0 => cache'[f] >= cache[f]]_serverVars

\* What was loaded from the database before a file was updated does not undo the
\* update: a file in use that the server serves is served after the refresh.  The
\* comment at CacheConfigVersionServiceImpl:100-101 claims it; the code keeps newer
\* versions of the rows it loaded, not files it loaded no row for.
RefreshKeepsUpdates ==
    [][RefreshMerge => \A f \in Files : cache[f] # 0 /\ inuse[f] => cache'[f] # 0]_serverVars

\* Notifications may all be lost, and those that come may come late, twice or
\* out of order; when the table does not change any more the server ends up with
\* exactly the files in use, each at its version, and keeps them (the refresh
\* every three minutes; doc/arch.md: the servers' task compensates).
CacheConverges == <>[](\A f \in Files : cache[f] = Row(f))
=============================================================================
