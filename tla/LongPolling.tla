----------------------------- MODULE LongPolling ----------------------------
(***************************************************************************)
(* Clients and the long polls they hold at one server: the check of the    *)
(* versions asked about (CheckServiceImpl), the listeners                  *)
(* (LongPollingStoreImpl), the threads that return changes to them, the    *)
(* answer that completes a poll once (AsyncContextHolder), and what a      *)
(* client does with an answer (LongPoller, AbstractDataLoader).            *)
(*                                                                         *)
(* A poll is a thread while it checks and registers, then a set of         *)
(* listeners.  Pushes of a version to chosen clients, fixed versions,      *)
(* references and inheritance are left out: a file is polled for itself.   *)
(***************************************************************************)
EXTENDS ServerCache

CONSTANTS
    Clients,
    Polls,         \* identities of polls; reused when nothing refers to them
    NoFile, NoPoll,
    MaxFailures    \* bound: lost answers, failed loads and pushes, slow request threads

ASSUME PollingAssumption ==
    NoFile \notin Files /\ NoPoll \notin Polls /\ MaxFailures \in Nat

VARIABLES
    known,      \* the versions a client works with, 0: none
    waiting,    \* the poll a client waits for
    loads,      \* contents a client is loading
    poll,
    listeners,  \* the store; `at` is history: see Remember
    pushes,     \* listeners taken from the store that were not called yet
    failures

pollVars == <<known, waiting, loads, poll, listeners, pushes, failures>>
pollingVars == <<serverVars, pollVars>>

\* asked: the versions of the request; todo, file: files to check or register,
\* and the one being looked at; quiet: files without a change.  dropped is history:
\* files whose listener expired, or whose push failed, before the poll was answered.
PollState ==
    [client : Clients, pc : {"check", "register", "ended"}, asked : [Files -> VersionOrNone],
     todo : SUBSET Files, file : Files \cup {NoFile}, quiet : SUBSET Files,
     found : SUBSET Changes, complete : BOOLEAN, answer : SUBSET Changes,
     dropped : SUBSET Files]

Opened(c, asked) ==
    [client |-> c, pc |-> "check", asked |-> asked, todo |-> Files, file |-> NoFile,
     quiet |-> {}, found |-> {}, complete |-> FALSE, answer |-> {}, dropped |-> {}]
Unused(c) == [Opened(c, Nothing) EXCEPT !.pc = "ended", !.todo = {}, !.complete = TRUE]

Listener == [file : Files, poll : Polls, at : VersionOrNone]
Push == [file : Files, ver : 1..MaxVersion, polls : SUBSET Polls]

PollingTypeOK ==
    /\ ServerTypeOK
    /\ known \in [Clients -> [Files -> VersionOrNone]]
    /\ waiting \in [Clients -> Polls \cup {NoPoll}]
    /\ loads \in [Clients -> SUBSET Changes]
    /\ poll \in [Polls -> PollState]
    /\ listeners \subseteq Listener
    /\ pushes \subseteq Push
    /\ failures \in 0..MaxFailures

PollingInit ==
    /\ ServerInit
    /\ known = [c \in Clients |-> Nothing]
    /\ waiting = [c \in Clients |-> NoPoll]
    /\ loads = [c \in Clients |-> {}]
    /\ \E c \in Clients : poll = [p \in Polls |-> Unused(c)]
    /\ listeners = {}
    /\ pushes = {}
    /\ failures = 0

Idle(p) ==
    /\ poll[p].pc = "ended" /\ poll[p].complete
    /\ \A c \in Clients : waiting[c] # p
    /\ \A l \in listeners : l.poll # p
    /\ \A x \in pushes : p \notin x.polls

\* completeRequest: the flag is read and set, and the answer written, under the lock.
Completed(P, p, answer) ==
    IF P[p].complete THEN P
    ELSE [P EXCEPT ![p].complete = TRUE, ![p].answer = answer]
-----------------------------------------------------------------------------
(* The client.                                                               *)

\* LongPoller.reLoading asks about every file in one request.
StartPoll(c, p) ==
    /\ up = "up" /\ waiting[c] = NoPoll /\ Idle(p)
    /\ waiting' = [waiting EXCEPT ![c] = p]
    /\ poll' = [poll EXCEPT ![p] = Opened(c, known[c])]
    /\ UNCHANGED <<serverVars, known, loads, listeners, pushes, failures>>

\* The connection breaks or the client's own timeout comes first: the request is
\* sent again as it was; the server does not learn of it.
RetryPoll(c, p) ==
    /\ up = "up" /\ waiting[c] # NoPoll /\ Idle(p) /\ failures < MaxFailures
    /\ failures' = failures + 1
    /\ waiting' = [waiting EXCEPT ![c] = p]
    /\ poll' = [poll EXCEPT ![p] = Opened(c, poll[waiting[c]].asked)]
    /\ UNCHANGED <<serverVars, known, loads, listeners, pushes>>

\* Mutant: whatever version the server names is taken.
AnyOther(c, x) == known[c][x[1]] # x[2]
\* VersionProfile.needUpdate
NeedUpdate(c, x) == known[c][x[1]] < x[2]

\* loadIfUpdated starts a load for every file of the answer that needs it; the
\* next poll waits twenty seconds at most for them.
TakeAnswer(c) ==
    LET p == waiting[c]
    IN  /\ p # NoPoll /\ poll[p].complete
        /\ loads' = [loads EXCEPT ![c] = @ \cup {x \in poll[p].answer : NeedUpdate(c, x)}]
        /\ waiting' = [waiting EXCEPT ![c] = NoPoll]
        /\ poll' = [poll EXCEPT ![p] = IF @.pc = "ended" THEN Unused(c) ELSE [@ EXCEPT !.answer = {}]]
        /\ UNCHANGED <<serverVars, known, listeners, pushes, failures>>

\* updateVersion looks again when the content is there.
FinishLoad(c, x) ==
    /\ x \in loads[c]
    /\ loads' = [loads EXCEPT ![c] = @ \ {x}]
    /\ known' = IF NeedUpdate(c, x) THEN [known EXCEPT ![c][x[1]] = x[2]] ELSE known
    /\ UNCHANGED <<serverVars, waiting, poll, listeners, pushes, failures>>

\* Two loads of one file saw the same version: compareAndSet lets the first one
\* through and drops the other, be it newer or not.
LoseRace(c, x, y) ==
    /\ x \in loads[c] /\ y \in loads[c] \ {x} /\ y[1] = x[1]
    /\ NeedUpdate(c, x) /\ NeedUpdate(c, y)
    /\ loads' = [loads EXCEPT ![c] = @ \ {x, y}]
    /\ known' = [known EXCEPT ![c][x[1]] = x[2]]
    /\ UNCHANGED <<serverVars, waiting, poll, listeners, pushes, failures>>

FailLoad(c, x) ==
    /\ x \in loads[c] /\ failures < MaxFailures
    /\ failures' = failures + 1
    /\ loads' = [loads EXCEPT ![c] = @ \ {x}]
    /\ UNCHANGED <<serverVars, known, waiting, poll, listeners, pushes>>
-----------------------------------------------------------------------------
(* The request thread of a poll.                                             *)

\* AbstractQFileFactory.create: a file the server has no version of is skipped,
\* it gets no listener either.
FindFile(p, f) ==
    /\ poll[p].pc = "check" /\ poll[p].file = NoFile /\ f \in poll[p].todo
    /\ poll' = [poll EXCEPT ![p].todo = @ \ {f}, ![p].file = IF cache[f] = 0 THEN NoFile ELSE f]
    /\ UNCHANGED <<serverVars, known, waiting, loads, listeners, pushes, failures>>

\* Mutants: a client that has no version is not told of the first one; one that
\* has none is told that there is none.
NewerThanOne(v, asked) == asked # 0 /\ v > asked
NotOlder(v, asked) == v >= asked
Newer(v, asked) == v > asked

\* QFileEntityV2.checkChange reads the cache again.
CheckFile(p) ==
    LET f == poll[p].file
    IN  /\ poll[p].pc = "check" /\ f # NoFile
        /\ poll' = IF Newer(cache[f], poll[p].asked[f])
                   THEN [poll EXCEPT ![p].file = NoFile, ![p].found = @ \cup {<<f, cache[f]>>}]
                   ELSE [poll EXCEPT ![p].file = NoFile, ![p].quiet = @ \cup {f}]
        /\ UNCHANGED <<serverVars, known, waiting, loads, listeners, pushes, failures>>

\* processCheckRequests: changes are returned at once, else the files are listened to.
EndCheck(p) ==
    /\ poll[p].pc = "check" /\ poll[p].todo = {} /\ poll[p].file = NoFile
    /\ poll' = IF poll[p].found # {}
               THEN Completed([poll EXCEPT ![p].pc = "ended", ![p].found = {}], p, poll[p].found)
               ELSE [poll EXCEPT ![p].pc = IF poll[p].quiet = {} THEN "ended" ELSE "register",
                                 ![p].todo = poll[p].quiet]
    /\ UNCHANGED <<serverVars, known, waiting, loads, listeners, pushes, failures>>

\* addListener.  A poll that is complete is not registered, unless it was
\* completed after the look.
Register(p, f) ==
    /\ poll[p].pc = "register" /\ f \in poll[p].todo
    /\ \/ listeners' = listeners \cup {[file |-> f, poll |-> p, at |-> cache[f]]}
       \/ poll[p].complete /\ UNCHANGED listeners
    /\ poll' = [poll EXCEPT ![p].todo = @ \ {f}, ![p].pc = IF poll[p].todo = {f} THEN "ended" ELSE @]
    /\ UNCHANGED <<serverVars, known, waiting, loads, pushes, failures>>
-----------------------------------------------------------------------------
(* The rest of the server.                                                   *)

\* The container's timeout.
Timeout(p) ==
    /\ ~poll[p].complete /\ poll[p].pc = "ended"
    /\ poll' = Completed(poll, p, {})
    /\ UNCHANGED <<serverVars, known, waiting, loads, listeners, pushes, failures>>

\* The timeout comes while the request thread is still checking or registering.
EarlyTimeout(p) ==
    /\ ~poll[p].complete /\ poll[p].pc # "ended" /\ failures < MaxFailures
    /\ failures' = failures + 1
    /\ poll' = Completed(poll, p, {})
    /\ UNCHANGED <<serverVars, known, waiting, loads, listeners, pushes>>

\* The polls of P lose what they had in the store for file f.
Dropping(P, f) ==
    [p \in Polls |-> IF p \in P /\ ~poll[p].complete THEN [poll[p] EXCEPT !.dropped = @ \cup {f}]
                     ELSE poll[p]]

\* expireAfterWrite: an entry lives a little longer than the timeout that held when
\* the file's cache was created, counted from the registration.  The poll ends after
\* the timeout of today, counted from the end of its request thread: either may be
\* the first.
Expire(l) ==
    /\ l \in listeners
    /\ listeners' = listeners \ {l}
    /\ poll' = Dropping({l.poll}, l.file)
    /\ UNCHANGED <<serverVars, known, waiting, loads, pushes, failures>>

ListenersOf(f) == {l \in listeners : l.file = f}

\* doChange: the listeners of the file are taken out of the store.
TakeListeners(x) ==
    /\ x \in changes
    /\ changes' = changes \ {x}
    /\ listeners' = listeners \ ListenersOf(x[1])
    /\ pushes' = pushes \cup
          IF ListenersOf(x[1]) = {} THEN {}
          ELSE {[file |-> x[1], ver |-> x[2], polls |-> {l.poll : l \in ListenersOf(x[1])}]}
    /\ UNCHANGED <<configVars, cache, handler, refresh, up, crashes, dbErrors>>
    /\ UNCHANGED <<known, waiting, loads, poll, failures>>

WithoutPoll(x, p) ==
    (pushes \ {x}) \cup (IF x.polls = {p} THEN {} ELSE {[x EXCEPT !.polls = @ \ {p}]})

\* Mutant: who asked for this version, or a later one, is passed over.
ReturnNews(x, p) ==
    /\ x \in pushes /\ p \in x.polls
    /\ poll' = IF Newer(x.ver, poll[p].asked[x.file]) THEN Completed(poll, p, {<<x.file, x.ver>>})
               ELSE poll
    /\ pushes' = WithoutPoll(x, p)
    /\ UNCHANGED <<serverVars, known, waiting, loads, listeners, failures>>

\* returnChange, directly or by batches.
ReturnChange(x, p) ==
    /\ x \in pushes /\ p \in x.polls
    /\ poll' = Completed(poll, p, {<<x.file, x.ver>>})
    /\ pushes' = WithoutPoll(x, p)
    /\ UNCHANGED <<serverVars, known, waiting, loads, listeners, failures>>

\* completing a request that the container ended throws: the others are dropped.
FailPush(x) ==
    /\ x \in pushes /\ failures < MaxFailures
    /\ failures' = failures + 1
    /\ pushes' = pushes \ {x}
    /\ poll' = Dropping(x.polls, x.file)
    /\ UNCHANGED <<serverVars, known, waiting, loads, listeners>>

\* History.  `at` is the server's version when the listener was registered, 0 when
\* the file's entry has been removed since.
Remember(l) ==
    IF cache'[l.file] = 0 \/ (refresh'.pc = "compare" /\ refresh'.old[l.file] = 0)
    THEN [l EXCEPT !.at = 0] ELSE l

PollsKept ==
    /\ listeners' = {Remember(l) : l \in listeners}
    /\ UNCHANGED <<known, waiting, loads, poll, pushes, failures>>

ServerStep == (TableStep \/ CacheWork) /\ PollsKept

\* The clients' requests break with the server.
ServerCrash ==
    /\ Crash
    /\ waiting' = [c \in Clients |-> NoPoll]
    /\ poll' = [p \in Polls |-> Unused(poll[p].client)]
    /\ listeners' = {}
    /\ pushes' = {}
    /\ UNCHANGED <<known, loads, failures>>
-----------------------------------------------------------------------------
ClientStep(c) ==
    \/ \E p \in Polls : StartPoll(c, p)
    \/ TakeAnswer(c)
Loading(c) == \E x \in Changes : FinishLoad(c, x) \/ \E y \in Changes : LoseRace(c, x, y)
PollStep(p) ==
    \/ \E f \in Files : FindFile(p, f) \/ Register(p, f)
    \/ CheckFile(p) \/ EndCheck(p)
PushStep ==
    \/ \E x \in changes : TakeListeners(x)
    \/ \E x \in pushes : \E p \in x.polls : ReturnChange(x, p)
Expiry == \E l \in listeners : Expire(l)
Failure ==
    \/ \E c \in Clients, p \in Polls : RetryPoll(c, p)
    \/ \E c \in Clients : \E x \in loads[c] : FailLoad(c, x)
    \/ \E p \in Polls : EarlyTimeout(p)
    \/ \E x \in pushes : FailPush(x)

PollingNext ==
    \/ ServerStep \/ ServerCrash
    \/ \E c \in Clients : ClientStep(c) \/ Loading(c)
    \/ \E p \in Polls : PollStep(p) \/ Timeout(p)
    \/ PushStep \/ Expiry \/ Failure

PollingSpec == PollingInit /\ [][PollingNext]_pollingVars

\* Threads run on, polls time out, entries expire, clients poll again.
FairPollingSpec ==
    /\ PollingSpec
    /\ \A h \in Handlers : WF_pollingVars(HandlerStep(h) /\ PollsKept)
    /\ WF_pollingVars(RefreshStep /\ PollsKept)
    /\ WF_pollingVars(Start /\ PollsKept)
    /\ \A c \in Clients : WF_pollingVars(ClientStep(c)) /\ WF_pollingVars(Loading(c))
    /\ \A p \in Polls : WF_pollingVars(PollStep(p)) /\ WF_pollingVars(Timeout(p))
    /\ WF_pollingVars(PushStep) /\ WF_pollingVars(Expiry)
-----------------------------------------------------------------------------
\* A change of f is about to take the listeners of f.
WakeUpPending(f) ==
    \/ \E v \in 1..MaxVersion : <<f, v>> \in changes
    \/ refresh.pc = "compare" /\ f \in refresh.todo /\ Changed(f)

\* A poll that listens since the server had version `at` of the file is woken by
\* every later version, whichever thread brings it, as long as the entry was not
\* removed meanwhile: no listener is left behind with the change already handled.
WaitersAreWoken ==
    \A l \in listeners :
        (l.at # 0 /\ cache[l.file] > l.at) => WakeUpPending(l.file)

\* doc/arch.md:55 says the connection a client keeps guarantees that updates are
\* pushed in time: no poll waits for a file whose newer version the server has,
\* unless it is being woken.
NoMissedChange ==
    \A l \in listeners :
        LET asked == poll[l.poll].asked[l.file]
        IN  ~poll[l.poll].complete /\ asked # 0 /\ cache[l.file] > asked => WakeUpPending(l.file)

\* An open poll listens for every file that had no change when it was checked, or
\* is being answered.  A listener leaves the store with its poll unanswered only by
\* its expiry or a failed push of that very file (doChange and the entries' expiry
\* take listeners out): the poll still listens for the other files.
OpenPollsListen ==
    \A p \in Polls : ~poll[p].complete /\ poll[p].pc = "ended" =>
        \A f \in poll[p].quiet \ poll[p].dropped :
            \/ \E l \in ListenersOf(f) : l.poll = p
            \/ \E x \in pushes : x.file = f /\ p \in x.polls

\* Whatever was lost, missed or failed, every client ends up with the published
\* version of every file in use (polls time out and check again).
ClientsCatchUp ==
    <>[](\A c \in Clients, f \in Files : inuse[f] => known[c][f] = version[f])

\* Servers and their polls are a way to deliver the table: what a client works with
\* is never ahead of what is published and only grows, whatever is lost, repeated or
\* late in between, and reading the table does not change it.
Delivered == INSTANCE Delivery
ImplementsDelivery == Delivered!DeliverySpec
=============================================================================
