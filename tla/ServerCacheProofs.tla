-------------------------- MODULE ServerCacheProofs -------------------------
(***************************************************************************)
(* Proofs about ServerCache for any set of files and of request threads,   *)
(* and any number of versions, crashes and database errors.                *)
(***************************************************************************)
EXTENDS ServerCache, TLAPS

USE ServerAssumption

\* The database's row of a file is a version or none.
LEMMA RowType ==
    ASSUME ServerTypeOK
    PROVE  /\ Nothing \in [Files -> VersionOrNone]
           /\ Rows \in [Files -> VersionOrNone]
           /\ \A f \in Files : Row(f) \in VersionOrNone
  BY DEF ServerTypeOK, Nothing, Rows, Row, VersionOrNone

\* The resting refresh, and a thread that handles a request, have their types.
LEMMA RestType ==
    ASSUME ServerTypeOK
    PROVE  Resting \in RefreshState
  BY RowType DEF Resting, RefreshState

LEMMA HandlingType ==
    ASSUME NEW f \in Files, NEW v \in VersionOrNone, NEW pc \in {"remove", "replaced", "check", "put"}
    PROVE  Handling(pc, f, v) \in HandlerState
  BY DEF Handling, HandlerState

\* A thread that is not idle handles a file, and a change is posted only of a version.
LEMMA BusyHandler ==
    ASSUME ServerTypeOK, NEW h \in Handlers, handler[h].pc # "idle"
    PROVE  handler[h] \in [pc : {"remove", "replaced", "check", "put"}, file : Files, ver : VersionOrNone]
  BY DEF ServerTypeOK, HandlerState, IdleHandler
-----------------------------------------------------------------------------
\* Requests keep the types.
LEMMA HandlerKeepsTypes ==
    ASSUME ServerTypeOK, NEW h \in Handlers,
           \/ \E f \in Files : NotifyUpdate(h, f) \/ ForceLoad(h, f)
           \/ HandlerStep(h)
    PROVE  ServerTypeOK'
<1>1. ASSUME NEW f \in Files, NotifyUpdate(h, f) PROVE ServerTypeOK'
  <2>1. Row(f) \in VersionOrNone /\ 0 \in VersionOrNone
    BY RowType DEF VersionOrNone
  <2>2. Handling("remove", f, 0) \in HandlerState /\ Handling("check", f, Row(f)) \in HandlerState
    BY <2>1, HandlingType
  <2> QED
    BY <1>1, <2>2 DEF NotifyUpdate, ServerTypeOK, configVars
<1>2. ASSUME NEW f \in Files, ForceLoad(h, f) PROVE ServerTypeOK'
  <2>1. Handling("check", f, Row(f)) \in HandlerState
    BY RowType, HandlingType
  <2> QED
    BY <1>2, <2>1 DEF ForceLoad, ServerTypeOK, configVars
<1>3. CASE CheckVersion(h)
  <2>1. handler[h].file \in Files /\ handler[h].ver \in VersionOrNone
    BY <1>3, BusyHandler DEF CheckVersion
  <2>2. Handling("put", handler[h].file, handler[h].ver) \in HandlerState
        /\ IdleHandler \in HandlerState
    BY <2>1, HandlingType DEF HandlerState
  <2> QED
    BY <1>3, <2>2 DEF CheckVersion, ServerTypeOK, configVars
<1>4. CASE PutVersion(h)
  <2>1. handler[h].file \in Files /\ handler[h].ver \in VersionOrNone /\ IdleHandler \in HandlerState
    BY <1>4, BusyHandler DEF PutVersion, HandlerState
  <2>2. handler' \in [Handlers -> HandlerState]
    BY <1>4, <2>1 DEF PutVersion, ServerTypeOK
  <2>3. cache' \in [Files -> VersionOrNone] /\ changes' \subseteq Changes
    BY <1>4, <2>1 DEF PutVersion, NewerOrNone, ServerTypeOK, Changes, VersionOrNone
  <2> QED
    BY <1>4, <2>2, <2>3 DEF PutVersion, ServerTypeOK, configVars
<1>5. CASE RemoveVersion(h)
  <2>1. handler[h].file \in Files /\ 0 \in VersionOrNone /\ IdleHandler \in HandlerState
    BY <1>5, BusyHandler DEF RemoveVersion, HandlerState, VersionOrNone
  <2>2. handler' \in [Handlers -> HandlerState]
    BY <1>5, <2>1 DEF RemoveVersion, ServerTypeOK
  <2>3. cache' \in [Files -> VersionOrNone] /\ refresh' \in RefreshState
    BY <1>5, <2>1 DEF RemoveVersion, ServerTypeOK, RefreshState
  <2> QED
    BY <1>5, <2>2, <2>3 DEF RemoveVersion, ServerTypeOK, configVars
<1> QED
  BY <1>1, <1>2, <1>3, <1>4, <1>5 DEF HandlerStep

\* The refresh keeps the types.
LEMMA RefreshKeepsTypes ==
    ASSUME ServerTypeOK, RefreshStep \/ RefreshFails \/ Start
    PROVE  ServerTypeOK'
<1>1. CASE RefreshLoad
  BY <1>1, RowType DEF RefreshLoad, ServerTypeOK, RefreshState, configVars
<1>2. CASE RefreshMerge
  <2>1. cache' \in [Files -> VersionOrNone]
    BY <1>2 DEF RefreshMerge, Merged, ServerTypeOK, RefreshState
  <2>2. refresh' \in RefreshState
    BY <1>2, RowType DEF RefreshMerge, Resting, ServerTypeOK, RefreshState
  <2>3. ASSUME NEW h \in Handlers PROVE MapReplaced(h) \in HandlerState
    <3>1. CASE handler[h].pc = "remove"
      <4>1. handler[h].file \in Files /\ 0 \in VersionOrNone
        BY <3>1, BusyHandler DEF VersionOrNone
      <4> QED
        BY <3>1, <4>1, HandlingType DEF MapReplaced
    <3>2. CASE handler[h].pc # "remove"
      BY <3>2 DEF MapReplaced, ServerTypeOK
    <3> QED
      BY <3>1, <3>2
  <2>4. handler' \in [Handlers -> HandlerState]
    BY <1>2, <2>3 DEF RefreshMerge
  <2> QED
    BY <1>2, <2>1, <2>2, <2>4 DEF RefreshMerge, ServerTypeOK, configVars
<1>3. ASSUME NEW f \in Files, RefreshCompare(f) PROVE ServerTypeOK'
  <2>1. Changed(f) => <<f, cache[f]>> \in Changes
    BY DEF Changed, Changes, ServerTypeOK, RefreshState, VersionOrNone
  <2>2. changes' \subseteq Changes
    BY <1>3, <2>1 DEF RefreshCompare, ServerTypeOK
  <2>3. refresh' \in RefreshState
    BY <1>3, RestType DEF RefreshCompare, ServerTypeOK, RefreshState
  <2> QED
    BY <1>3, <2>2, <2>3 DEF RefreshCompare, ServerTypeOK, configVars
<1>4. CASE RefreshFails
  BY <1>4, RestType DEF RefreshFails, AfterError, ServerTypeOK, configVars
<1>5. CASE Start
  BY <1>5, RowType DEF Start, ServerTypeOK, RefreshState, configVars
<1> QED
  BY <1>1, <1>2, <1>3, <1>4, <1>5 DEF RefreshStep

\* The table keeps the types, as a part of the server's state.
LEMMA TableKeepsTypes ==
    ASSUME ServerTypeOK, TableStep
    PROVE  ServerTypeOK'
<1>1. version' \in [Files -> VersionOrNone] /\ inuse' \in [Files -> BOOLEAN]
  BY DEF TableStep, ConfigNext, PublishFiles, TakeOutOfUse, ServerTypeOK, VersionOrNone
<1> QED
  BY <1>1 DEF TableStep, cacheVars, ServerTypeOK

\* A crash keeps the types.
LEMMA CrashKeepsTypes ==
    ASSUME ServerTypeOK, Crash
    PROVE  ServerTypeOK'
<1>1. IdleHandler \in HandlerState
  BY DEF HandlerState
<1> QED
  BY <1>1, RowType, RestType DEF Crash, ServerTypeOK, configVars

\* The initial states have the types.
LEMMA InitialTypes ==
    ASSUME ServerInit
    PROVE  ServerTypeOK
<1>1. Nothing \in [Files -> VersionOrNone] /\ IdleHandler \in HandlerState
  BY DEF Nothing, VersionOrNone, HandlerState
<1>2. Resting \in RefreshState
  BY <1>1 DEF Resting, RefreshState
<1> QED
  BY <1>1, <1>2 DEF ServerInit, ConfigInit, CacheInit, ServerTypeOK, VersionOrNone

\* The table, the cache, the request threads and the refresh keep their types
\* whatever is lost, late or repeated (CacheConfigVersionServiceImpl).
THEOREM ServerTypeCorrect == ServerSpec => []ServerTypeOK
<1>1. ServerInit => ServerTypeOK
  BY InitialTypes
<1>2. ASSUME ServerTypeOK, [ServerNext]_serverVars PROVE ServerTypeOK'
  <2>1. CASE CacheWork
    BY <1>2, <2>1, HandlerKeepsTypes, RefreshKeepsTypes DEF CacheWork
  <2>2. CASE TakeChange
    BY <1>2, <2>2 DEF TakeChange, ServerTypeOK, configVars
  <2>3. CASE UNCHANGED serverVars
    BY <1>2, <2>3 DEF serverVars, configVars, cacheVars, ServerTypeOK
  <2> QED
    BY <1>2, <2>1, <2>2, <2>3, TableKeepsTypes, CrashKeepsTypes DEF ServerNext
<1> QED
  BY <1>1, <1>2, PTL DEF ServerSpec
-----------------------------------------------------------------------------
\* What each step may do to the entry of a file: leave it, remove it, or put a
\* later version in its place.
LEMMA EntryOnlyGrows ==
    ASSUME ServerTypeOK, TableStep \/ CacheWork \/ Crash \/ TakeChange, NEW f \in Files
    PROVE  cache'[f] = 0 \/ cache'[f] >= cache[f]
<1>0. cache[f] \in VersionOrNone /\ refresh.snap[f] \in VersionOrNone
  BY DEF ServerTypeOK, RefreshState
<1>1. ASSUME NEW h \in Handlers, PutVersion(h) PROVE cache'[f] >= cache[f]
  <2>1. handler[h].file \in Files /\ handler[h].ver \in VersionOrNone
    BY <1>1, BusyHandler DEF PutVersion
  <2>2. cache' = cache \/ (cache[handler[h].file] < handler[h].ver
                             /\ cache' = [cache EXCEPT ![handler[h].file] = handler[h].ver])
    BY <1>1 DEF PutVersion, NewerOrNone
  <2> QED
    BY <1>0, <2>1, <2>2 DEF ServerTypeOK, VersionOrNone
<1>2. ASSUME NEW h \in Handlers, RemoveVersion(h) PROVE cache'[f] = 0 \/ cache'[f] = cache[f]
  BY <1>2 DEF RemoveVersion, ServerTypeOK
<1>3. CASE RefreshMerge
  <2>1. cache'[f] = Merged(f)
    BY <1>3 DEF RefreshMerge
  <2> QED
    BY <1>0, <2>1 DEF Merged, VersionOrNone
<1>4. CASE Crash
  BY <1>4 DEF Crash, Nothing
<1>5. CASE TableStep \/ TakeChange \/ RefreshFails \/ Start
  BY <1>0, <1>5 DEF TableStep, cacheVars, TakeChange, RefreshFails, Start, VersionOrNone
<1>6. ASSUME NEW h \in Handlers, NEW g \in Files, NotifyUpdate(h, g) \/ ForceLoad(h, g)
      PROVE  cache'[f] = cache[f]
  BY <1>6 DEF NotifyUpdate, ForceLoad
<1>7. ASSUME NEW h \in Handlers, CheckVersion(h) PROVE cache'[f] = cache[f]
  BY <1>7 DEF CheckVersion
<1>8. CASE RefreshLoad \/ \E g \in Files : RefreshCompare(g)
  BY <1>0, <1>8 DEF RefreshLoad, RefreshCompare, VersionOrNone
<1> QED
  BY <1>0, <1>1, <1>2, <1>3, <1>4, <1>5, <1>6, <1>7, <1>8
     DEF CacheWork, HandlerStep, RefreshStep, VersionOrNone

\* No thread, however late, and no refresh, however old what it loaded, takes a
\* served file back to an earlier version (update, freshConfigVersionCache).
THEOREM CacheDoesNotGoBack == ServerSpec => VersionsDontGoBack
<1> DEFINE Forward == \A f \in Files : cache[f] # 0 /\ cache'[f] # 0 => cache'[f] >= cache[f]
<1>1. ASSUME ServerTypeOK, [ServerNext]_serverVars PROVE [Forward]_serverVars
  BY <1>1, EntryOnlyGrows DEF ServerNext
<1> QED
  BY <1>1, ServerTypeCorrect, PTL DEF ServerSpec, VersionsDontGoBack
-----------------------------------------------------------------------------
\* Whatever the server has in hand was published: the cache, what the refresh has
\* loaded, what request threads have read and the changes that are posted.
FromTable ==
    /\ \A f \in Files : cache[f] <= version[f] /\ refresh.snap[f] <= version[f]
    /\ \A h \in Handlers : handler[h].pc # "idle" => handler[h].ver <= version[handler[h].file]
    /\ \A x \in changes : x[2] <= version[x[1]]

\* The table's versions only grow.
LEMMA VersionsGrow ==
    ASSUME ServerTypeOK, ConfigNext, NEW f \in Files
    PROVE  version'[f] >= version[f]
<1>1. version[f] \in VersionOrNone
  BY DEF ServerTypeOK
<1>2. ASSUME NEW S \in SUBSET Files, PublishFiles(S) PROVE version'[f] >= version[f]
  <2>1. version'[f] \in 0..MaxVersion
    BY <1>2 DEF PublishFiles
  <2> QED
    BY <1>1, <1>2, <2>1 DEF PublishFiles, VersionOrNone
<1>3. ASSUME NEW g \in Files, TakeOutOfUse(g) PROVE version'[f] >= version[f]
  BY <1>1, <1>3 DEF TakeOutOfUse, VersionOrNone
<1> QED
  BY <1>2, <1>3 DEF ConfigNext

LEMMA TableKeepsFrom ==
    ASSUME ServerTypeOK, FromTable, TableStep
    PROVE  FromTable'
<1>1. ServerTypeOK'
  BY TableKeepsTypes
<1>2. ASSUME NEW f \in Files, NEW v \in VersionOrNone, v <= version[f] PROVE v <= version'[f]
  <2>1. version[f] \in Int /\ version'[f] \in Int /\ version'[f] >= version[f]
    BY <1>1, VersionsGrow DEF TableStep, ServerTypeOK, VersionOrNone
  <2> QED
    BY <1>2, <2>1 DEF VersionOrNone
<1>3. ASSUME NEW f \in Files PROVE cache'[f] <= version'[f] /\ refresh'.snap[f] <= version'[f]
  BY <1>2 DEF FromTable, TableStep, cacheVars, ServerTypeOK, RefreshState
<1>4. ASSUME NEW h \in Handlers, handler'[h].pc # "idle"
      PROVE  handler'[h].ver <= version'[handler'[h].file]
  <2>1. handler'[h] = handler[h]
    BY DEF TableStep, cacheVars
  <2>2. handler[h].file \in Files /\ handler[h].ver \in VersionOrNone
    BY <1>4, <2>1, BusyHandler
  <2> QED
    BY <1>2, <1>4, <2>1, <2>2 DEF FromTable
<1>5. ASSUME NEW x \in changes' PROVE x[2] <= version'[x[1]]
  <2>1. x \in changes /\ x[1] \in Files /\ x[2] \in VersionOrNone
    BY DEF TableStep, cacheVars, ServerTypeOK, Changes, VersionOrNone
  <2> QED
    BY <1>2, <2>1 DEF FromTable
<1> QED
  BY <1>3, <1>4, <1>5 DEF FromTable

LEMMA HandlerKeepsFrom ==
    ASSUME ServerTypeOK, FromTable, NEW h \in Handlers,
           \/ \E f \in Files : NotifyUpdate(h, f) \/ ForceLoad(h, f)
           \/ HandlerStep(h)
    PROVE  FromTable'
<1>0. /\ handler \in [Handlers -> HandlerState] /\ cache \in [Files -> VersionOrNone]
      /\ \A f \in Files : version[f] \in Nat /\ Row(f) <= version[f]
  BY DEF ServerTypeOK, VersionOrNone, Row
<1>1. ASSUME NEW f \in Files, NotifyUpdate(h, f) \/ ForceLoad(h, f) PROVE FromTable'
  <2>1. /\ handler' = [handler EXCEPT ![h] = Handling("remove", f, 0)]
           \/ handler' = [handler EXCEPT ![h] = Handling("check", f, Row(f))]
        /\ UNCHANGED <<configVars, cache, refresh, changes>>
    BY <1>1 DEF NotifyUpdate, ForceLoad
  <2>2. \A k \in Handlers : handler'[k].pc # "idle" => handler'[k].ver <= version[handler'[k].file]
    BY <1>0, <2>1 DEF FromTable, Handling
  <2> QED
    BY <2>1, <2>2 DEF FromTable, configVars
<1>2. CASE CheckVersion(h)
  <2>1. \A k \in Handlers : handler'[k].pc # "idle" => handler'[k].ver <= version[handler'[k].file]
    BY <1>0, <1>2 DEF CheckVersion, FromTable, Handling, IdleHandler
  <2> QED
    BY <1>2, <2>1 DEF CheckVersion, FromTable, configVars
<1>3. CASE PutVersion(h)
  <2>1. /\ handler[h].file \in Files /\ handler[h].ver <= version[handler[h].file]
    BY <1>3, BusyHandler DEF PutVersion, FromTable
  <2>2. \A k \in Handlers : handler'[k].pc # "idle" => handler'[k].ver <= version[handler'[k].file]
    BY <1>0, <1>3 DEF PutVersion, FromTable, IdleHandler
  <2>3. \A f \in Files : cache'[f] <= version[f]
    BY <1>0, <1>3, <2>1 DEF PutVersion, FromTable
  <2>4. \A x \in changes' : x[2] <= version[x[1]]
    BY <1>3, <2>1 DEF PutVersion, FromTable
  <2> QED
    BY <1>3, <2>2, <2>3, <2>4 DEF PutVersion, FromTable, configVars
<1>4. CASE RemoveVersion(h)
  <2>1. \A k \in Handlers : handler'[k].pc # "idle" => handler'[k].ver <= version[handler'[k].file]
    BY <1>0, <1>4 DEF RemoveVersion, FromTable, IdleHandler
  <2>2. \A f \in Files : cache'[f] <= version[f] /\ refresh'.snap[f] <= version[f]
    BY <1>0, <1>4 DEF RemoveVersion, FromTable, ServerTypeOK, RefreshState
  <2> QED
    BY <1>4, <2>1, <2>2 DEF RemoveVersion, FromTable, configVars
<1> QED
  BY <1>1, <1>2, <1>3, <1>4 DEF HandlerStep

LEMMA RefreshKeepsFrom ==
    ASSUME ServerTypeOK, FromTable, RefreshStep \/ RefreshFails \/ Start
    PROVE  FromTable'
<1>0. /\ handler \in [Handlers -> HandlerState] /\ cache \in [Files -> VersionOrNone]
      /\ refresh \in RefreshState
      /\ \A f \in Files : version[f] \in Nat /\ Row(f) <= version[f]
  BY DEF ServerTypeOK, VersionOrNone, Row
<1>1. CASE RefreshLoad \/ Start
  <2>1. \A f \in Files : refresh'.snap[f] <= version[f]
    <3>1. refresh'.snap = Rows
      BY <1>0, <1>1 DEF RefreshLoad, Start, RefreshState
    <3> QED
      BY <1>0, <3>1 DEF Rows
  <2> QED
    BY <1>1, <2>1 DEF RefreshLoad, Start, FromTable, configVars
<1>2. CASE RefreshMerge
  <2>1. \A f \in Files : cache'[f] <= version[f]
    BY <1>2 DEF RefreshMerge, Merged, FromTable
  <2>2. \A f \in Files : refresh'.snap[f] <= version[f]
    BY <1>0, <1>2 DEF RefreshMerge, Resting, Nothing
  <2>3. ASSUME NEW h \in Handlers, handler'[h].pc # "idle"
        PROVE  handler'[h].ver <= version[handler'[h].file]
    <3>1. handler'[h] = MapReplaced(h)
      BY <1>2 DEF RefreshMerge
    <3>2. CASE handler[h].pc = "remove"
      <4>1. handler[h].file \in Files /\ handler'[h] = Handling("replaced", handler[h].file, 0)
        BY <3>1, <3>2, BusyHandler DEF MapReplaced
      <4> QED
        BY <1>0, <4>1 DEF Handling
    <3>3. CASE handler[h].pc # "remove"
      BY <2>3, <3>1, <3>3 DEF MapReplaced, FromTable
    <3> QED
      BY <3>2, <3>3
  <2> QED
    BY <1>2, <2>1, <2>2, <2>3 DEF RefreshMerge, FromTable, configVars
<1>3. ASSUME NEW f \in Files, RefreshCompare(f) PROVE FromTable'
  <2>1. \A g \in Files : refresh'.snap[g] <= version[g]
    BY <1>0, <1>3 DEF RefreshCompare, Resting, Nothing, FromTable, RefreshState
  <2>2. \A x \in changes' : x[2] <= version[x[1]]
    BY <1>3 DEF RefreshCompare, FromTable
  <2> QED
    BY <1>3, <2>1, <2>2 DEF RefreshCompare, FromTable, configVars
<1>4. CASE RefreshFails
  BY <1>0, <1>4 DEF RefreshFails, AfterError, Resting, Nothing, FromTable, configVars
<1> QED
  BY <1>1, <1>2, <1>3, <1>4 DEF RefreshStep

LEMMA CrashKeepsFrom ==
    ASSUME ServerTypeOK, Crash
    PROVE  FromTable'
<1>1. \A f \in Files : 0 <= version[f]
  BY DEF ServerTypeOK, VersionOrNone
<1> QED
  BY <1>1 DEF Crash, FromTable, configVars, Nothing, Resting, IdleHandler

LEMMA InitialFrom ==
    ASSUME ServerInit
    PROVE  FromTable
  BY DEF ServerInit, ConfigInit, CacheInit, FromTable, Nothing, Resting, IdleHandler

\* A server never serves, nor announces, a version ahead of the published one, not
\* even one that was posted before a crash (loadAll, findVersion, update).
THEOREM OnlyPublishedIsServed == ServerSpec => []FromTable
<1>1. ASSUME ServerTypeOK, FromTable, [ServerNext]_serverVars PROVE FromTable'
  <2>1. CASE TakeChange
    BY <1>1, <2>1 DEF TakeChange, FromTable, configVars
  <2>2. CASE UNCHANGED serverVars
    BY <1>1, <2>2 DEF serverVars, configVars, cacheVars, FromTable
  <2>3. CASE CacheWork
    BY <1>1, <2>3, HandlerKeepsFrom, RefreshKeepsFrom DEF CacheWork
  <2> QED
    BY <1>1, <2>1, <2>2, <2>3, TableKeepsFrom, CrashKeepsFrom DEF ServerNext
<1> QED
  BY <1>1, InitialFrom, ServerTypeCorrect, PTL DEF ServerSpec
=============================================================================
