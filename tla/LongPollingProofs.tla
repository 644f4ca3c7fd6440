-------------------------- MODULE LongPollingProofs -------------------------
(***************************************************************************)
(* Proofs about LongPolling for any number of clients, polls, files and    *)
(* request threads.  WaitersAreWoken needs little more than the types:     *)
(* each step that raises a version posts the change or leaves it to the    *)
(* refresh, and each step that handles a change takes every listener.      *)
(***************************************************************************)
EXTENDS LongPolling, ServerCacheProofs

USE ServerAssumption, PollingAssumption

\* Polls, opened, unused or completed, have their type.
LEMMA OpenedType ==
    ASSUME NEW c \in Clients, NEW a \in [Files -> VersionOrNone]
    PROVE  Opened(c, a) \in PollState
  BY DEF Opened, PollState

LEMMA UnusedType ==
    ASSUME NEW c \in Clients
    PROVE  Unused(c) \in PollState
<1>1. Nothing \in [Files -> VersionOrNone]
  BY DEF Nothing, VersionOrNone
<1>2. Opened(c, Nothing) \in PollState
  BY <1>1, OpenedType
<1> QED
  BY <1>2 DEF Unused, PollState

LEMMA DroppingType ==
    ASSUME PollingTypeOK, NEW P, NEW f \in Files
    PROVE  Dropping(P, f) \in [Polls -> PollState]
<1>1. ASSUME NEW p \in Polls PROVE [poll[p] EXCEPT !.dropped = @ \cup {f}] \in PollState
  <2>1. poll[p] \in PollState
    BY DEF PollingTypeOK
  <2> QED
    BY <2>1 DEF PollState
<1> QED
  BY <1>1 DEF Dropping, PollingTypeOK

LEMMA CompletedType ==
    ASSUME NEW P \in [Polls -> PollState], NEW p \in Polls, NEW answer \in SUBSET Changes
    PROVE  Completed(P, p, answer) \in [Polls -> PollState]
<1> DEFINE e == [P[p] EXCEPT !.complete = TRUE, !.answer = answer]
<1>1. P[p] \in PollState
  OBVIOUS
<1>2. e \in PollState
  BY <1>1 DEF PollState
<1>3. Completed(P, p, answer) = IF P[p].complete THEN P ELSE [P EXCEPT ![p] = e]
  BY DEF Completed
<1> QED
  BY <1>2, <1>3

\* A check that ends changes the poll it is of.
LEMMA CheckEnds ==
    ASSUME poll \in [Polls -> PollState], NEW q \in Polls
    PROVE  LET P == [poll EXCEPT ![q].pc = "ended", ![q].found = {}]
           IN  P \in [Polls -> PollState] /\ \A p \in Polls : p # q => P[p] = poll[p]
<1> DEFINE e == [poll[q] EXCEPT !.pc = "ended", !.found = {}]
           P == [poll EXCEPT ![q].pc = "ended", ![q].found = {}]
<1>1. poll[q] \in PollState
  OBVIOUS
<1>2. e \in PollState
  BY <1>1 DEF PollState
<1>3. P = [poll EXCEPT ![q] = e]
  OBVIOUS
<1> QED
  BY <1>2, <1>3

\* Only the part of the server a step of the polls touches may change its type.
LEMMA ServerUntouched ==
    ASSUME ServerTypeOK, UNCHANGED serverVars
    PROVE  ServerTypeOK'
  BY DEF serverVars, configVars, cacheVars, ServerTypeOK

\* What the steps of clients and polls leave alone.
LEMMA ClientLeaves ==
    ASSUME NEW c \in Clients, ClientStep(c) \/ Loading(c)
    PROVE  UNCHANGED <<serverVars, listeners, pushes>>
<1>1. CASE ClientStep(c)
  BY <1>1 DEF ClientStep, StartPoll, TakeAnswer
<1>2. CASE Loading(c)
  BY <1>2 DEF Loading, FinishLoad, LoseRace
<1> QED
  BY <1>1, <1>2

LEMMA PollLeaves ==
    ASSUME NEW p \in Polls, PollStep(p) \/ Timeout(p)
    PROVE  UNCHANGED <<serverVars, known, pushes>> /\ listeners \subseteq listeners'
<1>1. ASSUME NEW f \in Files, FindFile(p, f) \/ Register(p, f)
      PROVE  UNCHANGED <<serverVars, known, pushes>> /\ listeners \subseteq listeners'
  BY <1>1 DEF FindFile, Register
<1>2. CASE CheckFile(p) \/ EndCheck(p) \/ Timeout(p)
  BY <1>2 DEF CheckFile, EndCheck, Timeout
<1> QED
  BY <1>1, <1>2 DEF PollStep
-----------------------------------------------------------------------------
\* Clients keep the types.
LEMMA ClientKeepsTypes ==
    ASSUME PollingTypeOK, NEW c \in Clients, ClientStep(c) \/ Loading(c)
    PROVE  PollingTypeOK'
<1>0. ServerTypeOK' /\ known[c] \in [Files -> VersionOrNone]
  BY ServerUntouched DEF PollingTypeOK, ClientStep, Loading, StartPoll, TakeAnswer, FinishLoad, LoseRace
<1>1. ASSUME NEW p \in Polls, StartPoll(c, p) PROVE PollingTypeOK'
  <2>1. Opened(c, known[c]) \in PollState
    BY <1>0, OpenedType
  <2> QED
    BY <1>0, <1>1, <2>1 DEF StartPoll, PollingTypeOK
<1>2. CASE TakeAnswer(c)
  <2> DEFINE p == waiting[c]
  <2>1. p \in Polls /\ poll[p] \in PollState
    BY <1>2 DEF TakeAnswer, PollingTypeOK
  <2>2. poll[p].answer \subseteq Changes
    BY <2>1 DEF PollState
  <2>3. loads' \in [Clients -> SUBSET Changes]
    BY <1>2, <2>2 DEF TakeAnswer, PollingTypeOK
  <2>4. [poll[p] EXCEPT !.answer = {}] \in PollState
    BY <2>1 DEF PollState
  <2>5. poll' \in [Polls -> PollState]
    BY <1>2, <2>1, <2>4, UnusedType DEF TakeAnswer, PollingTypeOK
  <2> QED
    BY <1>0, <1>2, <2>3, <2>5 DEF TakeAnswer, PollingTypeOK
<1>3. ASSUME NEW x \in Changes, FinishLoad(c, x) PROVE PollingTypeOK'
  <2>1. x[1] \in Files /\ x[2] \in VersionOrNone
    BY DEF Changes, VersionOrNone
  <2>2. known' \in [Clients -> [Files -> VersionOrNone]]
    BY <1>3, <2>1 DEF FinishLoad, PollingTypeOK
  <2>3. loads' \in [Clients -> SUBSET Changes]
    BY <1>3 DEF FinishLoad, PollingTypeOK
  <2> QED
    BY <1>0, <1>3, <2>2, <2>3 DEF FinishLoad, PollingTypeOK
<1>4. ASSUME NEW x \in Changes, NEW y \in Changes, LoseRace(c, x, y) PROVE PollingTypeOK'
  <2>1. x[1] \in Files /\ x[2] \in VersionOrNone
    BY DEF Changes, VersionOrNone
  <2>2. known' \in [Clients -> [Files -> VersionOrNone]]
    BY <1>4, <2>1 DEF LoseRace, PollingTypeOK
  <2>3. loads' \in [Clients -> SUBSET Changes]
    BY <1>4 DEF LoseRace, PollingTypeOK
  <2> QED
    BY <1>0, <1>4, <2>2, <2>3 DEF LoseRace, PollingTypeOK
<1> QED
  BY <1>1, <1>2, <1>3, <1>4 DEF ClientStep, Loading

\* The threads of the polls keep the types.
LEMMA PollKeepsTypes ==
    ASSUME PollingTypeOK, NEW p \in Polls, PollStep(p) \/ Timeout(p)
    PROVE  PollingTypeOK'
<1>0. /\ ServerTypeOK' /\ poll[p] \in PollState /\ poll \in [Polls -> PollState]
      /\ cache \in [Files -> VersionOrNone] /\ {} \in SUBSET Changes
  BY ServerUntouched
     DEF PollingTypeOK, ServerTypeOK, PollStep, Timeout, FindFile, CheckFile, EndCheck, Register
<1>1. ASSUME NEW f \in Files, FindFile(p, f) PROVE PollingTypeOK'
  <2> DEFINE e == [poll[p] EXCEPT !.todo = @ \ {f}, !.file = IF cache[f] = 0 THEN NoFile ELSE f]
  <2>1. poll' \in [Polls -> PollState]
    <3>1. e \in PollState
      BY <1>0 DEF PollState
    <3>2. poll' = [poll EXCEPT ![p] = e]
      BY <1>0, <1>1 DEF FindFile
    <3> HIDE DEF e
    <3> QED
      BY <1>0, <3>1, <3>2
  <2> QED
    BY <1>0, <1>1, <2>1 DEF FindFile, PollingTypeOK
<1>2. CASE CheckFile(p)
  <2>1. poll[p].file \in Files
    BY <1>0, <1>2 DEF CheckFile, PollState
  <2>2. Newer(cache[poll[p].file], poll[p].asked[poll[p].file]) => <<poll[p].file, cache[poll[p].file]>> \in Changes
    BY <1>0, <2>1 DEF Newer, Changes, PollState, VersionOrNone
  <2> DEFINE f == poll[p].file
             told == [poll[p] EXCEPT !.file = NoFile, !.found = @ \cup {<<f, cache[f]>>}]
             kept == [poll[p] EXCEPT !.file = NoFile, !.quiet = @ \cup {f}]
  <2>3. poll' \in [Polls -> PollState]
    <3>1. Newer(cache[f], poll[p].asked[f]) => told \in PollState
      BY <1>0, <2>2 DEF PollState
    <3>2. kept \in PollState
      BY <1>0, <2>1 DEF PollState
    <3>3. poll' = IF Newer(cache[f], poll[p].asked[f]) THEN [poll EXCEPT ![p] = told]
                  ELSE [poll EXCEPT ![p] = kept]
      BY <1>0, <1>2 DEF CheckFile
    <3> HIDE DEF told, kept
    <3> QED
      BY <1>0, <3>1, <3>2, <3>3
  <2> QED
    BY <1>0, <1>2, <2>3 DEF CheckFile, PollingTypeOK
<1>3. CASE EndCheck(p)
  <2> DEFINE ended == [poll EXCEPT ![p].pc = "ended", ![p].found = {}]
             next == [poll[p] EXCEPT !.pc = IF poll[p].quiet = {} THEN "ended" ELSE "register",
                                     !.todo = poll[p].quiet]
  <2>1. ended \in [Polls -> PollState] /\ poll[p].found \in SUBSET Changes
    BY <1>0, CheckEnds DEF PollState
  <2>2. Completed(ended, p, poll[p].found) \in [Polls -> PollState]
    BY <2>1, CompletedType
  <2>3. poll' \in [Polls -> PollState]
    <3>1. next \in PollState
      BY <1>0 DEF PollState
    <3>2. poll' = IF poll[p].found # {} THEN Completed(ended, p, poll[p].found)
                  ELSE [poll EXCEPT ![p] = next]
      BY <1>0, <1>3 DEF EndCheck
    <3> HIDE DEF next, ended
    <3> QED
      BY <1>0, <2>2, <3>1, <3>2
  <2> QED
    BY <1>0, <1>3, <2>3 DEF EndCheck, PollingTypeOK
<1>4. ASSUME NEW f \in Files, Register(p, f) PROVE PollingTypeOK'
  <2> DEFINE e == [poll[p] EXCEPT !.todo = @ \ {f},
                                  !.pc = IF poll[p].todo = {f} THEN "ended" ELSE @]
  <2>1. poll' \in [Polls -> PollState]
    <3>1. e \in PollState
      BY <1>0 DEF PollState
    <3>2. poll' = [poll EXCEPT ![p] = e]
      BY <1>0, <1>4 DEF Register
    <3> HIDE DEF e
    <3> QED
      BY <1>0, <3>1, <3>2
  <2>2. [file |-> f, poll |-> p, at |-> cache[f]] \in Listener
    BY <1>0 DEF Listener
  <2>3. listeners' \subseteq Listener
    BY <1>4, <2>2 DEF Register, PollingTypeOK
  <2> QED
    BY <1>0, <1>4, <2>1, <2>3 DEF Register, PollingTypeOK
<1>5. CASE Timeout(p)
  <2>1. poll' \in [Polls -> PollState]
    BY <1>0, <1>5, CompletedType DEF Timeout
  <2> QED
    BY <1>0, <1>5, <2>1 DEF Timeout, PollingTypeOK
<1> QED
  BY <1>1, <1>2, <1>3, <1>4, <1>5 DEF PollStep

\* Pushes, expiry and failures keep the types.
LEMMA PushKeepsTypes ==
    ASSUME PollingTypeOK, PushStep \/ Expiry
    PROVE  PollingTypeOK'
<1>1. ASSUME NEW x \in changes, TakeListeners(x) PROVE PollingTypeOK'
  <2>1. x[1] \in Files /\ x[2] \in 1..MaxVersion
    BY DEF PollingTypeOK, ServerTypeOK, Changes
  <2>2. [file |-> x[1], ver |-> x[2], polls |-> {l.poll : l \in ListenersOf(x[1])}] \in Push
    BY <2>1 DEF Push, ListenersOf, PollingTypeOK, Listener
  <2>3. pushes' \subseteq Push /\ listeners' \subseteq Listener
    BY <1>1, <2>2 DEF TakeListeners, PollingTypeOK
  <2>4. ServerTypeOK'
    BY <1>1 DEF TakeListeners, PollingTypeOK, ServerTypeOK, configVars
  <2> QED
    BY <1>1, <2>3, <2>4 DEF TakeListeners, PollingTypeOK
<1>2. ASSUME NEW x \in pushes, NEW p \in x.polls, ReturnChange(x, p) PROVE PollingTypeOK'
  <2>1. x \in Push /\ p \in Polls /\ {<<x.file, x.ver>>} \in SUBSET Changes
    BY DEF PollingTypeOK, Push, Changes
  <2>2. poll' \in [Polls -> PollState]
    BY <1>2, <2>1, CompletedType DEF ReturnChange, PollingTypeOK
  <2>3. pushes' \subseteq Push
    BY <1>2, <2>1 DEF ReturnChange, WithoutPoll, PollingTypeOK, Push
  <2> QED
    BY <1>2, <2>2, <2>3, ServerUntouched DEF ReturnChange, PollingTypeOK
<1>3. ASSUME NEW l \in listeners, Expire(l) PROVE PollingTypeOK'
  <2>1. poll' \in [Polls -> PollState]
    BY <1>3, DroppingType DEF Expire, PollingTypeOK, Listener
  <2> QED
    BY <1>3, <2>1, ServerUntouched DEF Expire, PollingTypeOK
<1> QED
  BY <1>1, <1>2, <1>3 DEF PushStep, Expiry

LEMMA FailureKeepsTypes ==
    ASSUME PollingTypeOK, Failure
    PROVE  PollingTypeOK'
<1>0. ServerTypeOK'
  BY ServerUntouched DEF PollingTypeOK, Failure, RetryPoll, FailLoad, FailPush, EarlyTimeout
<1>1. ASSUME NEW c \in Clients, NEW p \in Polls, RetryPoll(c, p) PROVE PollingTypeOK'
  <2>1. waiting[c] \in Polls
    BY <1>1 DEF RetryPoll, PollingTypeOK
  <2>2. poll[waiting[c]].asked \in [Files -> VersionOrNone]
    BY <2>1 DEF PollingTypeOK, PollState
  <2>3. Opened(c, poll[waiting[c]].asked) \in PollState
    BY <2>2, OpenedType
  <2> QED
    BY <1>0, <1>1, <2>3 DEF RetryPoll, PollingTypeOK
<1>2. ASSUME NEW c \in Clients, NEW x \in loads[c], FailLoad(c, x) PROVE PollingTypeOK'
  BY <1>0, <1>2 DEF FailLoad, PollingTypeOK
<1>3. ASSUME NEW p \in Polls, EarlyTimeout(p) PROVE PollingTypeOK'
  <2>1. poll' \in [Polls -> PollState]
    BY <1>3, CompletedType DEF EarlyTimeout, PollingTypeOK
  <2> QED
    BY <1>0, <1>3, <2>1 DEF EarlyTimeout, PollingTypeOK
<1>4. ASSUME NEW x \in pushes, FailPush(x) PROVE PollingTypeOK'
  <2>1. poll' \in [Polls -> PollState]
    BY <1>4, DroppingType DEF FailPush, PollingTypeOK, Push
  <2> QED
    BY <1>0, <1>4, <2>1 DEF FailPush, PollingTypeOK
<1> QED
  BY <1>1, <1>2, <1>3, <1>4 DEF Failure

\* The server keeps the types of the polls; the history of a listener is a version.
LEMMA ServerKeepsTypes ==
    ASSUME PollingTypeOK, ServerStep \/ ServerCrash
    PROVE  PollingTypeOK'
<1>1. CASE ServerStep
  <2>1. ServerTypeOK'
    BY <1>1, TableKeepsTypes, HandlerKeepsTypes, RefreshKeepsTypes
       DEF ServerStep, CacheWork, PollingTypeOK
  <2>2. \A l \in listeners : Remember(l) \in Listener
    BY DEF Remember, Listener, PollingTypeOK, VersionOrNone
  <2> QED
    BY <1>1, <2>1, <2>2 DEF ServerStep, PollsKept, PollingTypeOK
<1>2. CASE ServerCrash
  <2>1. ServerTypeOK'
    BY <1>2, CrashKeepsTypes DEF ServerCrash, PollingTypeOK
  <2>2. \A p \in Polls : poll[p].client \in Clients
    BY DEF PollingTypeOK, PollState
  <2>3. poll' \in [Polls -> PollState]
    BY <1>2, <2>2, UnusedType DEF ServerCrash
  <2> QED
    BY <1>2, <2>1, <2>3 DEF ServerCrash, PollingTypeOK
<1> QED
  BY <1>1, <1>2

\* Clients, polls, listeners and pushes keep their types, and so does the server
\* under them (LongPollingProcessServiceImpl, LongPollingStoreImpl).
THEOREM PollingTypeCorrect == PollingSpec => []PollingTypeOK
<1>1. ASSUME PollingInit PROVE PollingTypeOK
  <2>1. ServerTypeOK /\ Nothing \in [Files -> VersionOrNone]
    BY <1>1, InitialTypes DEF PollingInit, Nothing, VersionOrNone
  <2>2. poll \in [Polls -> PollState]
    BY <1>1, UnusedType DEF PollingInit
  <2> QED
    BY <1>1, <2>1, <2>2 DEF PollingInit, PollingTypeOK
<1>2. ASSUME PollingTypeOK, [PollingNext]_pollingVars PROVE PollingTypeOK'
  <2>1. CASE UNCHANGED pollingVars
    BY <1>2, <2>1, ServerUntouched DEF pollingVars, pollVars, PollingTypeOK
  <2> QED
    BY <1>2, <2>1, ServerKeepsTypes, ClientKeepsTypes, PollKeepsTypes, PushKeepsTypes, FailureKeepsTypes
       DEF PollingNext
<1> QED
  BY <1>1, <1>2, PTL DEF PollingSpec
-----------------------------------------------------------------------------
\* What WaitersAreWoken says of a listener on f since version a.
Woken(f, a) == (a # 0 /\ cache[f] > a) => WakeUpPending(f)

\* The entry of f was removed, or the refresh knows of none.
Dropped(f) == cache'[f] = 0 \/ (refresh'.pc = "compare" /\ refresh'.old[f] = 0)

\* A request thread that raises the version posts the change in the same step.
LEMMA HandlerWakes ==
    ASSUME ServerTypeOK, NEW f \in Files, NEW a \in VersionOrNone, Woken(f, a),
           NEW h \in Handlers, HandlerStep(h)
    PROVE  Dropped(f) \/ Woken(f, a)'
<1>1. CASE CheckVersion(h)
  BY <1>1 DEF CheckVersion, Woken, WakeUpPending, Changed
<1>2. CASE PutVersion(h)
  <2>1. handler[h].file \in Files /\ handler[h].ver \in VersionOrNone
    BY <1>2, BusyHandler DEF PutVersion
  <2>2. CASE handler[h].file = f /\ NewerOrNone(handler[h].file, handler[h].ver)
    <3>1. <<f, handler[h].ver>> \in changes' /\ handler[h].ver \in 1..MaxVersion
      BY <1>2, <2>1, <2>2 DEF PutVersion, NewerOrNone, ServerTypeOK, VersionOrNone
    <3> QED
      BY <3>1 DEF Woken, WakeUpPending
  <2>3. CASE ~(handler[h].file = f /\ NewerOrNone(handler[h].file, handler[h].ver))
    <3>1. cache'[f] = cache[f] /\ changes \subseteq changes' /\ refresh' = refresh
      BY <1>2, <2>1, <2>3 DEF PutVersion, ServerTypeOK
    <3> QED
      BY <3>1 DEF Woken, WakeUpPending, Changed
  <2> QED
    BY <2>2, <2>3
<1>3. CASE RemoveVersion(h)
  <2>1. handler[h].file \in Files
    BY <1>3, BusyHandler DEF RemoveVersion
  <2>2. CASE handler[h].file = f
    <3>1. CASE cache' = cache /\ refresh' = refresh
      BY <1>3, <3>1 DEF RemoveVersion, Woken, WakeUpPending, Changed
    <3>2. CASE ~(cache' = cache /\ refresh' = refresh)
      BY <1>3, <2>2, <3>2 DEF RemoveVersion, Dropped, ServerTypeOK, RefreshState
    <3> QED
      BY <3>1, <3>2
  <2>3. CASE handler[h].file # f
    <3>1. /\ cache'[f] = cache[f] /\ changes' = changes
          /\ refresh'.pc = refresh.pc /\ refresh'.todo = refresh.todo
          /\ refresh'.old[f] = refresh.old[f]
      BY <1>3, <2>1, <2>3 DEF RemoveVersion, ServerTypeOK, RefreshState
    <3> QED
      BY <3>1 DEF Woken, WakeUpPending, Changed
  <2> QED
    BY <2>2, <2>3
<1> QED
  BY <1>1, <1>2, <1>3 DEF HandlerStep

\* The refresh that raises a version keeps the old one, and posts the change when
\* it comes to compare the two.
LEMMA RefreshWakes ==
    ASSUME ServerTypeOK, NEW f \in Files, NEW a \in VersionOrNone, Woken(f, a), RefreshStep
    PROVE  Dropped(f) \/ Woken(f, a)'
<1>0. cache[f] \in VersionOrNone /\ refresh.snap[f] \in VersionOrNone
  BY DEF ServerTypeOK, RefreshState
<1>1. CASE RefreshLoad
  BY <1>1 DEF RefreshLoad, Woken, WakeUpPending, Changed
<1>2. CASE RefreshMerge
  <2>1. refresh'.pc = "compare" /\ refresh'.old = cache /\ refresh'.todo = Files
        /\ changes' = changes
    BY <1>2 DEF RefreshMerge, Resting
  <2>2. CASE \E v \in 1..MaxVersion : <<f, v>> \in changes
    BY <2>1, <2>2 DEF Woken, WakeUpPending
  <2>3. CASE cache[f] = 0
    BY <2>1, <2>3 DEF Dropped
  <2>4. CASE cache[f] # 0 /\ ~\E v \in 1..MaxVersion : <<f, v>> \in changes
    <3>1. a # 0 => cache[f] <= a
      BY <1>0, <1>2, <2>4 DEF Woken, WakeUpPending, RefreshMerge, VersionOrNone
    <3>2. cache'[f] \in VersionOrNone
      BY <1>0, <1>2 DEF RefreshMerge, Merged
    <3>3. (a # 0 /\ cache'[f] > a) => Changed(f)'
      BY <1>0, <2>1, <2>4, <3>1, <3>2 DEF Changed, VersionOrNone
    <3> QED
      BY <2>1, <3>3 DEF Woken, WakeUpPending
  <2> QED
    BY <2>2, <2>3, <2>4
<1>3. ASSUME NEW g \in Files, RefreshCompare(g) PROVE Dropped(f) \/ Woken(f, a)'
  <2>1. cache' = cache /\ changes \subseteq changes'
    BY <1>3 DEF RefreshCompare
  <2>2. CASE g = f /\ Changed(f)
    <3>1. <<f, cache[f]>> \in changes'
      BY <1>3, <2>2 DEF RefreshCompare
    <3>2. cache[f] \in 1..MaxVersion
      BY <1>0, <2>2 DEF Changed, ServerTypeOK, RefreshState, VersionOrNone
    <3> QED
      BY <3>1, <3>2 DEF Woken, WakeUpPending
  <2>3. CASE ~Changed(f)
    BY <2>1, <2>3 DEF Woken, WakeUpPending
  <2>4. CASE g # f /\ Changed(f)
    <3>1. (refresh.pc = "compare" /\ f \in refresh.todo) =>
              refresh'.pc = "compare" /\ f \in refresh'.todo /\ refresh'.old = refresh.old
      BY <1>3, <2>4 DEF RefreshCompare, ServerTypeOK, RefreshState
    <3> QED
      BY <2>1, <3>1 DEF Woken, WakeUpPending, Changed
  <2> QED
    BY <2>2, <2>3, <2>4
<1> QED
  BY <1>1, <1>2, <1>3 DEF RefreshStep

\* A server that is down is not in the middle of a refresh.
DownRests == up = "down" => refresh = Resting

LEMMA AlwaysDownRests == PollingSpec => []DownRests
<1>1. PollingInit => DownRests
  BY DEF PollingInit, ServerInit, CacheInit, DownRests
<1>2. ASSUME DownRests, [PollingNext]_pollingVars PROVE DownRests'
  <2>1. CASE ServerStep
    <3>1. CASE TableStep
      BY <1>2, <3>1 DEF TableStep, cacheVars, DownRests
    <3>2. ASSUME NEW h \in Handlers, NEW f \in Files, NotifyUpdate(h, f) \/ ForceLoad(h, f)
          PROVE  DownRests'
      BY <1>2, <3>2 DEF NotifyUpdate, ForceLoad, DownRests
    <3>3. ASSUME NEW h \in Handlers, HandlerStep(h) PROVE DownRests'
      BY <1>2, <3>3 DEF HandlerStep, CheckVersion, PutVersion, RemoveVersion, DownRests, Resting
    <3>4. CASE RefreshStep \/ RefreshFails \/ Start
      BY <1>2, <3>4 DEF RefreshStep, RefreshLoad, RefreshMerge, RefreshCompare, RefreshFails, AfterError,
         Start, DownRests, Resting
    <3> QED
      BY <2>1, <3>1, <3>2, <3>3, <3>4 DEF ServerStep, CacheWork
  <2>2. CASE ServerCrash
    BY <2>2 DEF ServerCrash, Crash, DownRests
  <2>3. CASE up' = up /\ refresh' = refresh
    BY <1>2, <2>3 DEF DownRests, Resting, Nothing
  <2>4. CASE UNCHANGED pollingVars \/ PushStep \/ Expiry \/ Failure
    BY <2>3, <2>4 DEF pollingVars, serverVars, cacheVars, PushStep, TakeListeners, ReturnChange,
       Expiry, Expire, Failure, RetryPoll, FailLoad, EarlyTimeout, FailPush
  <2>5. CASE \E c \in Clients : ClientStep(c) \/ Loading(c)
    BY <2>3, <2>5, ClientLeaves DEF serverVars, cacheVars
  <2>6. CASE \E p \in Polls : PollStep(p) \/ Timeout(p)
    BY <2>3, <2>6, PollLeaves DEF serverVars, cacheVars
  <2> QED
    BY <1>2, <2>1, <2>2, <2>4, <2>5, <2>6 DEF PollingNext
<1> QED
  BY <1>1, <1>2, PTL DEF PollingSpec

\* The other steps of the server leave the entry, or there is no entry.
LEMMA OthersWake ==
    ASSUME ServerTypeOK, DownRests, NEW f \in Files, NEW a \in VersionOrNone, Woken(f, a),
           \/ TableStep \/ RefreshFails \/ Start
           \/ \E h \in Handlers, g \in Files : NotifyUpdate(h, g) \/ ForceLoad(h, g)
    PROVE  Dropped(f) \/ Woken(f, a)'
<1>1. CASE RefreshFails
  BY <1>1 DEF RefreshFails, AfterError, Resting, Woken, WakeUpPending
<1>2. CASE TableStep
  BY <1>2 DEF TableStep, cacheVars, Woken, WakeUpPending, Changed
<1>3. CASE Start
  BY <1>3 DEF Start, DownRests, Resting, Woken, WakeUpPending
<1>4. CASE \E h \in Handlers, g \in Files : NotifyUpdate(h, g) \/ ForceLoad(h, g)
  BY <1>4 DEF NotifyUpdate, ForceLoad, Woken, WakeUpPending, Changed
<1> QED
  BY <1>1, <1>2, <1>3, <1>4

\* A poll that listens since a version is woken by every later one, whichever thread
\* brings it, unless the entry was removed meanwhile (onChange in update and in the
\* refresh, doChange in LongPollingStoreImpl).
THEOREM EveryWaiterIsWoken == PollingSpec => []WaitersAreWoken
<1>1. PollingInit => WaitersAreWoken
  BY DEF PollingInit, WaitersAreWoken
<1>2. ASSUME PollingTypeOK, DownRests, WaitersAreWoken, [PollingNext]_pollingVars PROVE WaitersAreWoken'
  <2>0. /\ ServerTypeOK /\ listeners \subseteq Listener
        /\ \A l \in listeners : l.file \in Files /\ l.at \in VersionOrNone /\ Woken(l.file, l.at)
    BY <1>2 DEF PollingTypeOK, WaitersAreWoken, Woken, Listener
  <2>1. CASE ServerStep
    <3>1. ASSUME NEW l \in listeners PROVE Dropped(l.file) \/ Woken(l.file, l.at)'
      BY <1>2, <2>0, <2>1, HandlerWakes, RefreshWakes, OthersWake DEF ServerStep, CacheWork
    <3>2. \A l \in listeners : (Remember(l) = l /\ ~Dropped(l.file)) \/ Remember(l).at = 0
      BY <2>0 DEF Remember, Dropped, Listener
    <3>3. ASSUME NEW k \in listeners', k.at # 0 PROVE cache'[k.file] > k.at => WakeUpPending(k.file)'
      <4>1. \E l \in listeners : k = Remember(l)
        BY <2>1, <3>3, Zenon DEF ServerStep, PollsKept
      <4>2. k \in listeners /\ ~Dropped(k.file)
        BY <3>2, <3>3, <4>1
      <4>3. Woken(k.file, k.at)'
        BY <3>1, <4>2, Zenon
      <4> QED
        BY <3>3, <4>3 DEF Woken
    <3> QED
      BY <3>3 DEF WaitersAreWoken
  <2>2. CASE ServerCrash
    BY <2>2 DEF ServerCrash, WaitersAreWoken
  <2>3. ASSUME NEW x \in changes, TakeListeners(x) PROVE WaitersAreWoken'
    <3>1. /\ listeners' = {l \in listeners : l.file # x[1]}
          /\ cache' = cache /\ refresh' = refresh /\ changes' = changes \ {x}
      BY <2>3 DEF TakeListeners, ListenersOf
    <3>2. ASSUME NEW l \in listeners, l.file # x[1], WakeUpPending(l.file)
          PROVE  WakeUpPending(l.file)'
      BY <3>1, <3>2 DEF WakeUpPending, Changed
    <3> QED
      BY <1>2, <3>1, <3>2 DEF WaitersAreWoken
  <2>4. ASSUME NEW p \in Polls, NEW f \in Files, Register(p, f) PROVE WaitersAreWoken'
    <3>1. /\ listeners' \subseteq listeners \cup {[file |-> f, poll |-> p, at |-> cache[f]]}
          /\ cache' = cache /\ refresh' = refresh /\ changes' = changes
      BY <2>4 DEF Register, serverVars, cacheVars
    <3>2. ~(cache[f] > cache[f])
      BY <2>0 DEF ServerTypeOK, VersionOrNone
    <3> QED
      BY <1>2, <3>1, <3>2 DEF WaitersAreWoken, WakeUpPending, Changed
  <2>5. CASE UNCHANGED serverVars /\ listeners' \subseteq listeners
    BY <1>2, <2>5 DEF serverVars, cacheVars, WaitersAreWoken, WakeUpPending, Changed
  <2>6. CASE \E c \in Clients : ClientStep(c) \/ Loading(c)
    BY <2>5, <2>6 DEF ClientStep, StartPoll, TakeAnswer, Loading, FinishLoad, LoseRace
  <2>7. ASSUME NEW p \in Polls,
               (\E f \in Files : FindFile(p, f)) \/ CheckFile(p) \/ EndCheck(p) \/ Timeout(p)
        PROVE  WaitersAreWoken'
    BY <2>5, <2>7 DEF FindFile, CheckFile, EndCheck, Timeout
  <2>8. CASE (\E x \in pushes : \E p \in x.polls : ReturnChange(x, p)) \/ Expiry \/ Failure
    BY <2>5, <2>8 DEF ReturnChange, Expiry, Expire, Failure, RetryPoll, FailLoad, EarlyTimeout, FailPush
  <2>9. CASE UNCHANGED pollingVars
    BY <2>5, <2>9 DEF pollingVars, pollVars
  <2> QED
    BY <1>2, <2>1, <2>2, <2>3, <2>4, <2>6, <2>7, <2>8, <2>9 DEF PollingNext, PollStep, PushStep
<1> QED
  BY <1>1, <1>2, PollingTypeCorrect, AlwaysDownRests, PTL DEF PollingSpec
-----------------------------------------------------------------------------
\* The files a poll must be woken for so far: while it registers, those it has done.
Owed(p) ==
    CASE poll[p].pc = "register" -> (poll[p].quiet \ poll[p].todo) \ poll[p].dropped
      [] poll[p].pc = "ended"    -> poll[p].quiet \ poll[p].dropped
      [] OTHER                   -> {}

Reached(p, f) ==
    \/ \E l \in listeners : l.file = f /\ l.poll = p
    \/ \E x \in pushes : x.file = f /\ p \in x.polls

\* What OpenPollsListen says, of the polls that are still registering too.
OwedAreReached ==
    \A p \in Polls : ~poll[p].complete => \A f \in Owed(p) : Reached(p, f)

LEMMA CompletesOne ==
    ASSUME NEW P \in [Polls -> PollState], NEW p \in Polls, NEW a
    PROVE  /\ Completed(P, p, a)[p].complete
           /\ \A q \in Polls \ {p} : Completed(P, p, a)[q] = P[q]
  BY DEF Completed, PollState

\* The steps of a client and of a request thread.
LEMMA PollsAreReached ==
    ASSUME PollingTypeOK, OwedAreReached,
           \/ \E c \in Clients : ClientStep(c) \/ Loading(c)
           \/ \E q \in Polls : PollStep(q) \/ Timeout(q),
           NEW p \in Polls, ~poll'[p].complete, NEW f, f \in Owed(p)'
    PROVE  Reached(p, f)'
<1>1. /\ poll \in [Polls -> PollState] /\ poll[p] \in PollState
      /\ pushes' = pushes /\ listeners \subseteq listeners'
  BY ClientLeaves, PollLeaves DEF PollingTypeOK
<1>2. CASE poll'[p] = poll[p]
  <2>1. f \in Owed(p) /\ ~poll[p].complete
    BY <1>2 DEF Owed
  <2>2. Reached(p, f)
    BY <1>1, <2>1 DEF OwedAreReached
  <2> QED
    BY <1>1, <2>2 DEF Reached
<1>3. CASE poll'[p].pc = "check"
  BY <1>3 DEF Owed
<1>4. ASSUME NEW c \in Clients, ClientStep(c) \/ Loading(c) PROVE Reached(p, f)'
  <2>1. ASSUME NEW q \in Polls, StartPoll(c, q) PROVE Reached(p, f)'
    BY <1>1, <1>2, <1>3, <2>1 DEF StartPoll, Opened
  <2>2. ASSUME TakeAnswer(c), p = waiting[c] PROVE FALSE
    BY <1>1, <2>2 DEF TakeAnswer, Unused, Opened, PollState
  <2>3. ASSUME TakeAnswer(c), p # waiting[c] PROVE poll'[p] = poll[p]
    BY <1>1, <2>3 DEF TakeAnswer
  <2>4. CASE Loading(c)
    BY <1>2, <2>4 DEF Loading, FinishLoad, LoseRace
  <2> QED
    BY <1>2, <1>4, <2>1, <2>2, <2>3, <2>4 DEF ClientStep
<1>5. ASSUME NEW q \in Polls, PollStep(q) \/ Timeout(q), p # q PROVE Reached(p, f)'
  <2>1. poll'[p] = poll[p]
    <3>1. CASE EndCheck(q)
      <4> DEFINE P == [poll EXCEPT ![q].pc = "ended", ![q].found = {}]
      <4>1. P \in [Polls -> PollState] /\ P[p] = poll[p]
        BY <1>1, <1>5, CheckEnds
      <4>2. CASE poll' = Completed(P, q, poll[q].found)
        <5> HIDE DEF P
        <5> QED
          BY <1>5, <4>1, <4>2, CompletesOne
      <4>3. CASE poll[q].found = {}
        BY <1>1, <1>5, <3>1, <4>3 DEF EndCheck
      <4> QED
        BY <3>1, <4>2, <4>3 DEF EndCheck
    <3>2. CASE Timeout(q)
      BY <1>1, <1>5, <3>2, CompletesOne DEF Timeout
    <3>3. CASE ~(EndCheck(q) \/ Timeout(q))
      BY <1>1, <1>5, <3>3 DEF PollStep, FindFile, Register, CheckFile
    <3> QED
      BY <3>1, <3>2, <3>3
  <2> QED
    BY <1>2, <2>1
<1>6. ASSUME PollStep(p) \/ Timeout(p) PROVE Reached(p, f)'
  <2>1. CASE \E g \in Files : FindFile(p, g)
    BY <1>1, <1>3, <2>1 DEF FindFile, PollState
  <2>2. CASE CheckFile(p)
    BY <1>1, <1>3, <2>2 DEF CheckFile, PollState
  <2>3. CASE Timeout(p)
    BY <1>1, <2>3, CompletesOne DEF Timeout
  <2>4. CASE EndCheck(p)
    <3>1. CASE poll[p].found # {}
      <4>1. [poll EXCEPT ![p].pc = "ended", ![p].found = {}] \in [Polls -> PollState]
        BY <1>1, CheckEnds
      <4> QED
        BY <2>4, <3>1, <4>1, CompletesOne DEF EndCheck
    <3>2. CASE poll[p].found = {}
      <4>1. /\ poll'[p].quiet = poll[p].quiet /\ poll'[p].todo = poll[p].quiet
            /\ poll'[p].pc = IF poll[p].quiet = {} THEN "ended" ELSE "register"
        BY <1>1, <2>4, <3>2 DEF EndCheck, PollState
      <4>2. Owed(p)' = {}
        BY <4>1 DEF Owed
      <4> QED
        BY <4>2
    <3> QED
      BY <3>1, <3>2
  <2>5. ASSUME NEW g \in Files, Register(p, g) PROVE Reached(p, f)'
    <3>1. /\ poll[p].pc = "register" /\ g \in poll[p].todo
          /\ poll'[p].quiet = poll[p].quiet /\ poll'[p].complete = poll[p].complete
          /\ poll'[p].dropped = poll[p].dropped
          /\ poll'[p].todo = poll[p].todo \ {g}
          /\ poll'[p].pc = IF poll[p].todo = {g} THEN "ended" ELSE "register"
      BY <1>1, <2>5 DEF Register, PollState
    <3>2. f = g \/ f \in Owed(p)
      BY <3>1 DEF Owed
    <3>3. CASE f = g
      <4>1. [file |-> g, poll |-> p, at |-> cache[g]] \in listeners'
        BY <2>5, <3>1 DEF Register
      <4> QED
        BY <3>3, <4>1 DEF Reached
    <3>4. CASE f \in Owed(p)
      BY <1>1, <3>1, <3>4 DEF OwedAreReached, Reached
    <3> QED
      BY <3>2, <3>3, <3>4
  <2> QED
    BY <1>6, <2>1, <2>2, <2>3, <2>4, <2>5 DEF PollStep
<1> QED
  BY <1>4, <1>5, <1>6

\* A poll that loses its entries for a file is owed no longer to be woken for it; the
\* others are as they were.
LEMMA DroppingKeeps ==
    ASSUME PollingTypeOK, NEW P, NEW g \in Files, poll' = Dropping(P, g),
           NEW p \in Polls, ~poll'[p].complete, NEW f, f \in Owed(p)'
    PROVE  ~poll[p].complete /\ f \in Owed(p) /\ (p \in P => f # g)
<1>1. poll[p] \in PollState
  BY DEF PollingTypeOK
<1>2. CASE p \in P /\ ~poll[p].complete
  <2>1. poll'[p] = [poll[p] EXCEPT !.dropped = @ \cup {g}]
    BY <1>2 DEF Dropping
  <2>2. /\ poll'[p].pc = poll[p].pc /\ poll'[p].quiet = poll[p].quiet /\ poll'[p].todo = poll[p].todo
        /\ poll'[p].dropped = poll[p].dropped \cup {g}
    BY <1>1, <2>1 DEF PollState
  <2> QED
    BY <1>2, <2>2 DEF Owed
<1>3. CASE ~(p \in P /\ ~poll[p].complete)
  <2>1. poll'[p] = poll[p]
    BY <1>3 DEF Dropping
  <2> QED
    BY <1>3, <2>1 DEF Owed
<1> QED
  BY <1>2, <1>3

\* doChange hands the listeners it takes out over to a push, and returnChange answers.
LEMMA PushesReach ==
    ASSUME PollingTypeOK, OwedAreReached, PushStep,
           NEW p \in Polls, ~poll'[p].complete, NEW f, f \in Owed(p)'
    PROVE  Reached(p, f)'
<1>1. poll \in [Polls -> PollState] /\ listeners \subseteq Listener
  BY DEF PollingTypeOK
<1>2. poll'[p] = poll[p]
  <2>1. ASSUME NEW x \in pushes, NEW q \in x.polls, ReturnChange(x, q) PROVE poll'[p] = poll[p]
    <3>1. q \in Polls
      BY DEF PollingTypeOK, Push
    <3>2. p # q
      BY <1>1, <2>1, <3>1, CompletesOne DEF ReturnChange
    <3> QED
      BY <1>1, <2>1, <3>1, <3>2, CompletesOne DEF ReturnChange
  <2> QED
    BY <2>1 DEF PushStep, TakeListeners
<1>3. ~poll[p].complete /\ f \in Owed(p)
  BY <1>2 DEF Owed
<1>4. Reached(p, f)
  BY <1>3 DEF OwedAreReached
<1>5. ASSUME NEW x \in changes, TakeListeners(x) PROVE Reached(p, f)'
  <2>1. CASE \E y \in pushes : y.file = f /\ p \in y.polls
    BY <1>5, <2>1 DEF TakeListeners, Reached
  <2>2. ASSUME NEW l \in listeners, l.file = f, l.poll = p PROVE Reached(p, f)'
    <3>1. CASE f = x[1]
      <4> DEFINE y == [file |-> x[1], ver |-> x[2], polls |-> {k.poll : k \in ListenersOf(x[1])}]
      <4>1. l \in ListenersOf(x[1])
        BY <2>2, <3>1 DEF ListenersOf
      <4>2. y \in pushes' /\ p \in y.polls /\ y.file = f
        BY <1>5, <2>2, <3>1, <4>1 DEF TakeListeners
      <4> QED
        BY <4>2 DEF Reached
    <3>2. CASE f # x[1]
      BY <1>5, <2>2, <3>2 DEF TakeListeners, ListenersOf, Reached
    <3> QED
      BY <3>1, <3>2
  <2> QED
    BY <1>4, <2>1, <2>2 DEF Reached
<1>6. ASSUME NEW x \in pushes, NEW q \in x.polls, ReturnChange(x, q) PROVE Reached(p, f)'
  <2>1. p # q
    <3>1. q \in Polls
      BY DEF PollingTypeOK, Push
    <3> QED
      BY <1>1, <1>6, <3>1, CompletesOne DEF ReturnChange
  <2>2. ASSUME NEW y \in pushes, y.file = f, p \in y.polls
        PROVE  \E z \in pushes' : z.file = f /\ p \in z.polls
    <3>1. CASE y # x
      BY <1>6, <2>2, <3>1 DEF ReturnChange, WithoutPoll
    <3>2. CASE y = x
      <4> DEFINE z == [x EXCEPT !.polls = @ \ {q}]
      <4>1. x \in Push
        BY DEF PollingTypeOK
      <4>2. p \in z.polls /\ z.file = f
        BY <2>1, <2>2, <3>2, <4>1 DEF Push
      <4>3. z \in pushes'
        BY <1>6, <2>1, <2>2, <3>2 DEF ReturnChange, WithoutPoll
      <4> QED
        BY <4>2, <4>3
    <3> QED
      BY <3>1, <3>2
  <2> QED
    BY <1>4, <1>6, <2>2 DEF ReturnChange, Reached
<1> QED
  BY <1>5, <1>6 DEF PushStep

\* An entry that expires is of one poll and one file; a push that fails is of one file.
LEMMA LossesReach ==
    ASSUME PollingTypeOK, OwedAreReached, Expiry \/ Failure,
           NEW p \in Polls, ~poll'[p].complete, NEW f, f \in Owed(p)'
    PROVE  Reached(p, f)'
<1>0. poll \in [Polls -> PollState]
  BY DEF PollingTypeOK
<1>1. ASSUME NEW k \in listeners, Expire(k) PROVE Reached(p, f)'
  <2>1. k.file \in Files /\ poll' = Dropping({k.poll}, k.file)
    BY <1>1 DEF Expire, PollingTypeOK, Listener
  <2>2. ~poll[p].complete /\ f \in Owed(p) /\ (p \in {k.poll} => f # k.file)
    BY <2>1, DroppingKeeps, Zenon
  <2>3. Reached(p, f)
    BY <2>2 DEF OwedAreReached
  <2> QED
    BY <1>1, <2>2, <2>3 DEF Expire, Reached
<1>2. ASSUME NEW x \in pushes, FailPush(x) PROVE Reached(p, f)'
  <2>1. x.file \in Files /\ poll' = Dropping(x.polls, x.file)
    BY <1>2 DEF FailPush, PollingTypeOK, Push
  <2>2. Reached(p, f) /\ (p \in x.polls => f # x.file)
    BY <2>1, DroppingKeeps DEF OwedAreReached
  <2> QED
    BY <1>2, <2>2 DEF FailPush, Reached
<1>3. ASSUME poll'[p] = poll[p], listeners' = listeners, pushes' = pushes PROVE Reached(p, f)'
  <2>1. ~poll[p].complete /\ f \in Owed(p)
    BY <1>3 DEF Owed
  <2>2. Reached(p, f)
    BY <2>1 DEF OwedAreReached
  <2> QED
    BY <1>3, <2>2 DEF Reached
<1>4. ASSUME NEW c \in Clients, NEW q \in Polls, RetryPoll(c, q) PROVE Reached(p, f)'
  <2>1. q = p => Owed(p)' = {}
    BY <1>0, <1>4 DEF RetryPoll, Opened, Owed
  <2>2. q # p => poll'[p] = poll[p]
    BY <1>0, <1>4 DEF RetryPoll
  <2> QED
    BY <1>3, <1>4, <2>1, <2>2 DEF RetryPoll
<1>5. ASSUME NEW c \in Clients, NEW x \in loads[c], FailLoad(c, x) PROVE Reached(p, f)'
  BY <1>3, <1>5 DEF FailLoad
<1>6. ASSUME NEW q \in Polls, EarlyTimeout(q) PROVE Reached(p, f)'
  <2>1. p # q
    BY <1>0, <1>6, CompletesOne DEF EarlyTimeout
  <2>2. poll'[p] = poll[p]
    BY <1>0, <1>6, <2>1, CompletesOne DEF EarlyTimeout
  <2> QED
    BY <1>3, <1>6, <2>2 DEF EarlyTimeout
<1> QED
  BY <1>1, <1>2, <1>4, <1>5, <1>6 DEF Expiry, Failure

\* An open poll is listening for every file it has found no change of, or is being
\* answered, whatever else fails or expires; only the expiry of its own entry for a
\* file, or a failed push of that file, takes it off that file (addListener, doChange,
\* returnChange, expireAfterWrite).
THEOREM OpenPollsAreReached == PollingSpec => []OpenPollsListen
<1>1. PollingInit => OwedAreReached
  <2> SUFFICES ASSUME PollingInit, NEW p \in Polls PROVE poll[p].complete
    BY DEF OwedAreReached
  <2>1. PICK c \in Clients : poll[p] = Unused(c)
    BY DEF PollingInit
  <2> QED
    BY <2>1 DEF Unused, Opened
<1>2. ASSUME PollingTypeOK, OwedAreReached, [PollingNext]_pollingVars PROVE OwedAreReached'
  <2> SUFFICES ASSUME NEW p \in Polls, ~poll'[p].complete, NEW f, f \in Owed(p)'
               PROVE  Reached(p, f)'
    BY DEF OwedAreReached
  <2>1. ASSUME poll' = poll, pushes' = pushes,
               \A l \in listeners : \E k \in listeners' : k.file = l.file /\ k.poll = l.poll
        PROVE  Reached(p, f)'
    <3>1. f \in Owed(p) /\ ~poll[p].complete
      BY <2>1 DEF Owed
    <3>2. Reached(p, f)
      BY <1>2, <3>1 DEF OwedAreReached
    <3> QED
      BY <2>1, <3>2 DEF Reached
  <2>2. CASE ServerStep
    <3>1. listeners \subseteq Listener
      BY <1>2 DEF PollingTypeOK
    <3>2. \A l \in listeners : Remember(l) \in listeners' /\ Remember(l).file = l.file /\ Remember(l).poll = l.poll
      BY <2>2, <3>1 DEF ServerStep, PollsKept, Remember, Listener
    <3> QED
      BY <2>1, <2>2, <3>2 DEF ServerStep, PollsKept
  <2>3. CASE UNCHANGED pollingVars
    BY <2>1, <2>3 DEF pollingVars, pollVars
  <2>4. CASE ServerCrash
    BY <2>4 DEF ServerCrash, Unused, Opened
  <2> QED
    BY <1>2, <2>2, <2>3, <2>4, PollsAreReached, PushesReach, LossesReach DEF PollingNext
<1>3. OwedAreReached => OpenPollsListen
  BY DEF OwedAreReached, Owed, Reached, OpenPollsListen, ListenersOf
<1> QED
  BY <1>1, <1>2, <1>3, PollingTypeCorrect, PTL DEF PollingSpec
-----------------------------------------------------------------------------
\* Whatever polls and clients have in hand was published, as what the server has.
FromServer ==
    /\ FromTable
    /\ \A x \in pushes : x.ver <= version[x.file]
    /\ \A p \in Polls : \A x \in poll[p].found \cup poll[p].answer : x[2] <= version[x[1]]
    /\ \A c \in Clients : \A x \in loads[c] : x[2] <= version[x[1]]

\* Completing a poll adds nothing but the answer.
LEMMA CompletedFrom ==
    ASSUME NEW P \in [Polls -> PollState], NEW p \in Polls, NEW answer, NEW q \in Polls
    PROVE  LET Q == Completed(P, p, answer)
           IN  /\ Q[q].found = P[q].found
               /\ \A x \in Q[q].answer : x \in P[q].answer \/ x \in answer
<1>1. P[p] \in PollState
  OBVIOUS
<1>2. CASE P[p].complete
  BY <1>2 DEF Completed
<1>3. CASE ~P[p].complete
  <2> DEFINE Q == [P EXCEPT ![p].complete = TRUE, ![p].answer = answer]
  <2>1. Q[q].found = P[q].found /\ (Q[q].answer = P[q].answer \/ Q[q].answer = answer)
    BY <1>1 DEF PollState
  <2>2. Completed(P, p, answer) = Q
    BY <1>3 DEF Completed
  <2> HIDE DEF Q
  <2> QED
    BY <2>1, <2>2
<1> QED
  BY <1>2, <1>3

LEMMA ServerUntouchedFrom ==
    ASSUME FromTable, UNCHANGED serverVars
    PROVE  FromTable'
  BY DEF serverVars, configVars, cacheVars, FromTable

LEMMA ServerKeepsFrom ==
    ASSUME PollingTypeOK, FromServer, ServerStep
    PROVE  FromServer'
<1>1. ServerTypeOK /\ ServerTypeOK'
  BY ServerKeepsTypes DEF PollingTypeOK
<1>2. FromTable'
  BY <1>1, TableKeepsFrom, HandlerKeepsFrom, RefreshKeepsFrom DEF FromServer, ServerStep, CacheWork
<1>3. ASSUME NEW f \in Files PROVE version'[f] >= version[f]
  <2>1. CASE TableStep
    BY <1>1, <2>1, VersionsGrow DEF TableStep
  <2>2. CASE CacheWork
    <3>1. version' = version
      BY <2>2 DEF CacheWork, NotifyUpdate, ForceLoad, HandlerStep, CheckVersion, PutVersion, RemoveVersion,
         RefreshStep, RefreshLoad, RefreshMerge, RefreshCompare, RefreshFails, Start, configVars
    <3> QED
      BY <1>1, <3>1 DEF ServerTypeOK, VersionOrNone
  <2> QED
    BY <2>1, <2>2 DEF ServerStep
<1>4. ASSUME NEW f \in Files, NEW v \in 1..MaxVersion, v <= version[f] PROVE v <= version'[f]
  <2>1. version[f] \in Int /\ version'[f] \in Int
    BY <1>1 DEF ServerTypeOK, VersionOrNone
  <2> QED
    BY <1>3, <1>4, <2>1
<1>5. \A x \in pushes' : x.ver <= version'[x.file]
  BY <1>4 DEF ServerStep, PollsKept, FromServer, PollingTypeOK, Push
<1>6. ASSUME NEW x \in Changes, x[2] <= version[x[1]] PROVE x[2] <= version'[x[1]]
  BY <1>4, <1>6 DEF Changes
<1>7. \A p \in Polls : poll[p].found \cup poll[p].answer \subseteq Changes
  BY DEF PollingTypeOK, PollState
<1>8. \A p \in Polls : \A x \in poll'[p].found \cup poll'[p].answer : x[2] <= version'[x[1]]
  BY <1>6, <1>7 DEF ServerStep, PollsKept, FromServer
<1>9. \A c \in Clients : \A x \in loads'[c] : x[2] <= version'[x[1]]
  BY <1>6 DEF ServerStep, PollsKept, FromServer, PollingTypeOK
<1> QED
  BY <1>2, <1>5, <1>8, <1>9 DEF FromServer

LEMMA CrashKeepsFromServer ==
    ASSUME PollingTypeOK, FromServer, ServerCrash
    PROVE  FromServer'
<1>1. FromTable' /\ version' = version
  BY CrashKeepsFrom DEF ServerCrash, Crash, PollingTypeOK, configVars
<1>2. \A p \in Polls : poll'[p].found = {} /\ poll'[p].answer = {}
  BY DEF ServerCrash, Unused, Opened
<1> QED
  BY <1>1, <1>2 DEF ServerCrash, FromServer

LEMMA ClientKeepsFrom ==
    ASSUME PollingTypeOK, FromServer, NEW c \in Clients, ClientStep(c) \/ Loading(c)
    PROVE  FromServer'
<1>0. FromTable' /\ version' = version /\ poll \in [Polls -> PollState] /\ pushes' = pushes
  BY ServerUntouchedFrom DEF FromServer, PollingTypeOK, ClientStep, Loading, StartPoll, TakeAnswer,
     FinishLoad, LoseRace, serverVars, configVars
<1>1. ASSUME NEW p \in Polls, StartPoll(c, p) PROVE FromServer'
  <2>1. \A q \in Polls : poll'[q] = poll[q] \/ (poll'[q].found = {} /\ poll'[q].answer = {})
    BY <1>0, <1>1 DEF StartPoll, Opened
  <2> QED
    BY <1>0, <1>1, <2>1 DEF StartPoll, FromServer
<1>2. CASE TakeAnswer(c)
  <2> DEFINE p == waiting[c]
  <2>1. p \in Polls
    BY <1>2 DEF TakeAnswer, PollingTypeOK
  <2>2. \A d \in Clients : \A x \in loads'[d] : x[2] <= version[x[1]]
    BY <1>2, <2>1 DEF TakeAnswer, FromServer, PollingTypeOK
  <2>3. \A q \in Polls : \A x \in poll'[q].found \cup poll'[q].answer : x \in poll[q].found \cup poll[q].answer
    BY <1>0, <1>2, <2>1 DEF TakeAnswer, Unused, Opened, PollState
  <2> QED
    BY <1>0, <1>2, <2>2, <2>3 DEF FromServer
<1>3. CASE Loading(c)
  <2>1. poll' = poll /\ \A d \in Clients : loads'[d] \subseteq loads[d]
    BY <1>3 DEF Loading, FinishLoad, LoseRace, PollingTypeOK
  <2> QED
    BY <1>0, <2>1 DEF FromServer
<1> QED
  BY <1>1, <1>2, <1>3 DEF ClientStep

LEMMA PollKeepsFrom ==
    ASSUME PollingTypeOK, FromServer, NEW p \in Polls, PollStep(p) \/ Timeout(p) \/ EarlyTimeout(p)
    PROVE  FromServer'
<1>0. /\ FromTable' /\ version' = version /\ pushes' = pushes /\ loads' = loads
      /\ poll \in [Polls -> PollState] /\ poll[p] \in PollState
  BY ServerUntouchedFrom DEF FromServer, PollingTypeOK, PollStep, Timeout, EarlyTimeout, FindFile, CheckFile,
     EndCheck, Register, serverVars, configVars
<1>1. SUFFICES ASSUME NEW q \in Polls, NEW x \in poll'[q].found \cup poll'[q].answer
               PROVE  x[2] <= version[x[1]]
  BY <1>0 DEF FromServer
<1>2. CASE x \in poll[q].found \cup poll[q].answer
  BY <1>2 DEF FromServer
<1>3. ASSUME NEW f \in Files, FindFile(p, f) \/ Register(p, f) PROVE x \in poll[q].found \cup poll[q].answer
  <2>1. CASE FindFile(p, f)
    <3>1. poll'[q].found = poll[q].found /\ poll'[q].answer = poll[q].answer
      BY <1>0, <2>1 DEF FindFile, PollState
    <3> QED
      BY <3>1
  <2>2. CASE Register(p, f)
    <3>1. poll'[q].found = poll[q].found /\ poll'[q].answer = poll[q].answer
      BY <1>0, <2>2 DEF Register, PollState
    <3> QED
      BY <3>1
  <2> QED
    BY <1>3, <2>1, <2>2
<1>4. CASE CheckFile(p)
  <2>1. poll[p].file \in Files /\ cache[poll[p].file] <= version[poll[p].file]
    BY <1>0, <1>4 DEF CheckFile, PollState, FromServer, FromTable
  <2>2. x \in poll[q].found \cup poll[q].answer \/ x = <<poll[p].file, cache[poll[p].file]>>
    BY <1>0, <1>4 DEF CheckFile, PollState
  <2> QED
    BY <1>2, <2>1, <2>2
<1>5. CASE EndCheck(p)
  <2> DEFINE P == [poll EXCEPT ![p].pc = "ended", ![p].found = {}]
  <2>1. P \in [Polls -> PollState]
        /\ P[q].found \subseteq poll[q].found /\ P[q].answer = poll[q].answer
    BY <1>0 DEF PollState
  <2>2. CASE poll' = Completed(P, p, poll[p].found)
    <3> HIDE DEF P
    <3>1. x \in poll[q].found \/ x \in poll[q].answer \/ x \in poll[p].found
      BY <2>1, <2>2, CompletedFrom
    <3> QED
      BY <3>1 DEF FromServer
  <2>3. CASE poll[p].found = {}
    <3>1. x \in poll[q].found \cup poll[q].answer
      BY <1>0, <1>5, <2>3 DEF EndCheck, PollState
    <3> QED
      BY <1>2, <3>1
  <2> QED
    BY <1>5, <2>2, <2>3 DEF EndCheck
<1>6. CASE Timeout(p) \/ EarlyTimeout(p)
  <2>1. poll' = Completed(poll, p, {})
    BY <1>6 DEF Timeout, EarlyTimeout
  <2>2. x \in poll[q].found \/ x \in poll[q].answer
    BY <1>0, <2>1, CompletedFrom
  <2> QED
    BY <1>2, <2>2
<1> QED
  BY <1>2, <1>3, <1>4, <1>5, <1>6 DEF PollStep

LEMMA PushKeepsFrom ==
    ASSUME PollingTypeOK, FromServer, PushStep
    PROVE  FromServer'
<1>0. version' = version /\ loads' = loads /\ poll \in [Polls -> PollState]
  BY DEF PollingTypeOK, PushStep, TakeListeners, ReturnChange, serverVars, configVars
<1>1. ASSUME NEW x \in changes, TakeListeners(x) PROVE FromServer'
  <2>1. x[2] <= version[x[1]]
    BY DEF FromServer, FromTable
  <2>2. \A y \in pushes' : y.ver <= version[y.file]
    BY <1>1, <2>1 DEF TakeListeners, FromServer
  <2>3. FromTable'
    BY <1>1 DEF TakeListeners, FromServer, FromTable, configVars
  <2> QED
    BY <1>0, <1>1, <2>2, <2>3 DEF TakeListeners, FromServer
<1>2. ASSUME NEW x \in pushes, NEW p \in x.polls, ReturnChange(x, p) PROVE FromServer'
  <2>1. x \in Push /\ p \in Polls /\ x.ver <= version[x.file]
    BY DEF PollingTypeOK, Push, FromServer
  <2>2. FromTable' /\ poll' = Completed(poll, p, {<<x.file, x.ver>>})
    BY <1>2, ServerUntouchedFrom DEF ReturnChange, FromServer
  <2>3. ASSUME NEW q \in Polls, NEW y \in poll'[q].found \cup poll'[q].answer
        PROVE  y[2] <= version[y[1]]
    <3>1. y \in poll[q].found \/ y \in poll[q].answer \/ y = <<x.file, x.ver>>
      BY <1>0, <2>1, <2>2, CompletedFrom
    <3> QED
      BY <2>1, <3>1 DEF FromServer
  <2>4. \A y \in pushes' : y.ver <= version[y.file]
    BY <1>2, <2>1 DEF ReturnChange, WithoutPoll, FromServer, Push
  <2> QED
    BY <1>0, <2>2, <2>3, <2>4 DEF FromServer
<1> QED
  BY <1>1, <1>2 DEF PushStep

\* Losing entries of the store changes no answer.
LEMMA DroppingFrom ==
    ASSUME PollingTypeOK, NEW P, NEW f, NEW p \in Polls
    PROVE  Dropping(P, f)[p].found = poll[p].found /\ Dropping(P, f)[p].answer = poll[p].answer
<1>1. poll[p] \in PollState
  BY DEF PollingTypeOK
<1> QED
  BY <1>1 DEF Dropping, PollState

LEMMA FailureKeepsFrom ==
    ASSUME PollingTypeOK, FromServer, Failure \/ Expiry
    PROVE  FromServer'
<1>0. FromTable' /\ version' = version /\ poll \in [Polls -> PollState]
  BY ServerUntouchedFrom DEF FromServer, PollingTypeOK, Failure, RetryPoll, FailLoad, EarlyTimeout, FailPush,
     Expiry, Expire, serverVars, configVars
<1>1. ASSUME NEW c \in Clients, NEW p \in Polls, RetryPoll(c, p) PROVE FromServer'
  <2>1. \A q \in Polls : poll'[q] = poll[q] \/ (poll'[q].found = {} /\ poll'[q].answer = {})
    BY <1>0, <1>1 DEF RetryPoll, Opened
  <2> QED
    BY <1>0, <1>1, <2>1 DEF RetryPoll, FromServer
<1>2. ASSUME NEW c \in Clients, NEW x \in loads[c], FailLoad(c, x) PROVE FromServer'
  <2>1. \A d \in Clients : loads'[d] \subseteq loads[d]
    BY <1>2 DEF FailLoad, PollingTypeOK
  <2> QED
    BY <1>0, <1>2, <2>1 DEF FailLoad, FromServer
<1>3. ASSUME NEW x \in pushes, FailPush(x) PROVE FromServer'
  <2>1. poll' = Dropping(x.polls, x.file)
    BY <1>3 DEF FailPush
  <2> QED
    BY <1>0, <1>3, <2>1, DroppingFrom DEF FailPush, FromServer
<1>4. ASSUME NEW l \in listeners, Expire(l) PROVE FromServer'
  <2>1. poll' = Dropping({l.poll}, l.file)
    BY <1>4 DEF Expire
  <2> QED
    BY <1>0, <1>4, <2>1, DroppingFrom DEF Expire, FromServer
<1> QED
  BY <1>1, <1>2, <1>3, <1>4, PollKeepsFrom DEF Failure, Expiry

\* No answer, no push and no load, however late, is of a version ahead of the published
\* one (processCheckRequests, doChange, loadIfUpdated).
THEOREM OnlyPublishedIsDelivered == PollingSpec => []FromServer
<1>1. ASSUME PollingInit PROVE FromServer
  <2>1. FromTable
    BY <1>1, InitialFrom DEF PollingInit
  <2>2. \A p \in Polls : poll[p].found = {} /\ poll[p].answer = {}
    <3>1. PICK c \in Clients : poll = [p \in Polls |-> Unused(c)]
      BY <1>1 DEF PollingInit
    <3> QED
      BY <3>1 DEF Unused, Opened
  <2> QED
    BY <1>1, <2>1, <2>2 DEF PollingInit, FromServer
<1>2. ASSUME PollingTypeOK, FromServer, [PollingNext]_pollingVars PROVE FromServer'
  <2>1. CASE UNCHANGED pollingVars
    BY <1>2, <2>1, ServerUntouchedFrom
       DEF pollingVars, pollVars, serverVars, configVars, FromServer
  <2> QED
    BY <1>2, <2>1, ServerKeepsFrom, CrashKeepsFromServer, ClientKeepsFrom, PollKeepsFrom, PushKeepsFrom,
       FailureKeepsFrom DEF PollingNext
<1> QED
  BY <1>1, <1>2, PollingTypeCorrect, PTL DEF PollingSpec
-----------------------------------------------------------------------------
\* A content that is in use is a later version, and a published one.
LEMMA LoadingDelivers ==
    ASSUME PollingTypeOK, FromServer, NEW c \in Clients, Loading(c)
    PROVE  UNCHANGED known \/ \E f \in Files : Delivered!Deliver(c, f)
<1>1. ASSUME NEW x \in Changes, x \in loads[c], NeedUpdate(c, x), UNCHANGED configVars,
             known' = [known EXCEPT ![c][x[1]] = x[2]]
      PROVE  \E f \in Files : Delivered!Deliver(c, f)
  <2>1. x[1] \in Files /\ x[2] \in 1..MaxVersion /\ x[2] <= version[x[1]] /\ version[x[1]] \in Nat
    BY <1>1 DEF Changes, FromServer, PollingTypeOK, ServerTypeOK, VersionOrNone
  <2>2. x[2] \in 1..version[x[1]] /\ x[2] > known[c][x[1]]
    BY <1>1, <2>1 DEF NeedUpdate, PollingTypeOK, VersionOrNone
  <2>3. Delivered!Deliver(c, x[1])
    BY <1>1, <2>2 DEF Delivered!Deliver, Delivered!configVars, configVars
  <2> QED
    BY <2>1, <2>3
<1>2. ASSUME NEW x \in Changes, FinishLoad(c, x)
      PROVE  UNCHANGED known \/ \E f \in Files : Delivered!Deliver(c, f)
  BY <1>1, <1>2 DEF FinishLoad, serverVars
<1>3. ASSUME NEW x \in Changes, NEW y \in Changes, LoseRace(c, x, y)
      PROVE  \E f \in Files : Delivered!Deliver(c, f)
  BY <1>1, <1>3 DEF LoseRace, serverVars
<1> QED
  BY <1>2, <1>3 DEF Loading

\* Every step delivers a version, is one of the table, or is seen by nobody.
LEMMA StepIsDelivery ==
    ASSUME PollingTypeOK, FromServer, [PollingNext]_pollingVars
    PROVE  [Delivered!DeliveryNext]_<<Delivered!configVars, known>>
<1>1. CASE \E c \in Clients : Loading(c)
  <2>1. PICK c \in Clients : Loading(c)
    BY <1>1
  <2>2. UNCHANGED Delivered!configVars
    BY <2>1 DEF Loading, FinishLoad, LoseRace, serverVars, configVars, Delivered!configVars
  <2> QED
    BY <2>1, <2>2, LoadingDelivers DEF Delivered!DeliveryNext
<1>2. CASE TableStep /\ PollsKept
  BY <1>2 DEF TableStep, PollsKept, Delivered!DeliveryNext, Delivered!ConfigNext, ConfigNext,
     PublishFiles, TakeOutOfUse, Delivered!PublishFiles, Delivered!TakeOutOfUse
<1>3. CASE CacheWork /\ PollsKept
  BY <1>3 DEF PollsKept, CacheWork, NotifyUpdate, ForceLoad, HandlerStep, CheckVersion, PutVersion,
     RemoveVersion, RefreshStep, RefreshLoad, RefreshMerge, RefreshCompare, RefreshFails, Start,
     configVars, Delivered!configVars
<1>4. CASE ServerCrash \/ PushStep \/ Expiry \/ Failure \/ UNCHANGED pollingVars
  BY <1>4 DEF ServerCrash, Crash, PushStep, TakeListeners, ReturnChange, Expiry, Expire, Failure,
     RetryPoll, FailLoad, EarlyTimeout, FailPush, pollingVars, pollVars, serverVars, configVars,
     Delivered!configVars
<1>5. CASE \/ \E c \in Clients : ClientStep(c)
           \/ \E p \in Polls : PollStep(p) \/ Timeout(p)
  <2>1. UNCHANGED <<serverVars, known>>
    BY <1>5, ClientLeaves, PollLeaves DEF ClientStep, StartPoll, TakeAnswer
  <2> QED
    BY <2>1 DEF serverVars, configVars, Delivered!configVars
<1> QED
  BY <1>1, <1>2, <1>3, <1>4, <1>5 DEF PollingNext, ServerStep

\* Servers, polls and clients deliver the table: whatever is lost, late, repeated or out
\* of order, a client moves on to later versions only and never past the published one.
THEOREM PollingImplementsDelivery == PollingSpec => ImplementsDelivery
<1>1. PollingInit => Delivered!DeliveryInit
  BY DEF PollingInit, ServerInit, ConfigInit, Nothing, Delivered!DeliveryInit, Delivered!ConfigInit
<1> QED
  BY <1>1, StepIsDelivery, PollingTypeCorrect, OnlyPublishedIsDelivered, PTL
     DEF PollingSpec, ImplementsDelivery, Delivered!DeliverySpec
=============================================================================
