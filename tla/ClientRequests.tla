--------------------------- MODULE ClientRequests ---------------------------
(***************************************************************************)
(* The http requests of a client.  Requests for the content of a file pass *)
(* a queue that lets a limited number of them run at a time                *)
(* (QueueQConfigServerClient); every request is sent to one server after   *)
(* another until it is answered (QConfigHttpServerClient.RetryFuture).     *)
(* The place in the list of servers is shared by all requests of the       *)
(* process, and a request that fails moves it on for all of them.          *)
(*                                                                         *)
(* The list of servers does not change.  A response is whatever a server,  *)
(* the network or a timeout makes of it, and code on the way may throw.    *)
(* recordLoading is left out: it is sent once and nobody waits for it.     *)
(***************************************************************************)
EXTENDS Integers, FiniteSets, Sequences

CONSTANTS
    Loads,       \* loadData and forceReload: the requests that pass the queue
    Forced,      \* those of forceReload, the first load of a file
    Checks,      \* checkUpdate, longPollingCheckUpdate, loadGroupFiles
    NoRequest,
    Limit,       \* CONCURRENCY_LIMIT
    NumServers   \* urls.length; with an empty list request() always throws, see Throw

Requests == Loads \cup Checks
Servers == 0..(NumServers - 1)

ASSUME RequestsAssumption ==
    /\ IsFiniteSet(Loads)
    /\ Forced \subseteq Loads /\ Loads \cap Checks = {}
    /\ NoRequest \notin Requests
    /\ Limit \in Nat \ {0} /\ NumServers \in Nat \ {0}

VARIABLES
    index,    \* of the next url, modulo urls.length
    queue,    \* requests
    count,    \* concurrentRequestCount
    req,      \* the requests
    lost,     \* history: slots that exceptions have taken away
    tried,    \* history: servers a request was sent to
    skipped   \* history: failovers of others since it was first sent, as far as they matter

vars == <<index, queue, count, req, lost, tried, skipped>>

\* pc: "start": about to call request(); "handing": its callback passes its slot on;
\* "handingErr", "erred": the same and what follows when it failed with status 500;
\* "forgotten": an exception has ended it and its result is never set.
\* retries: calls of request() so far; by: the request in whose callback it is sent.
Request == [pc : {"new", "idle", "queued", "start", "sent", "handing", "handingErr", "erred", "forgotten"},
            retries : 0..(NumServers + 1), by : Loads \cup {NoRequest}]

\* A slot is held from the moment it is given to the request until it is passed on.
Running == {r \in Loads : req[r].pc \in {"start", "sent"}}

RequestTypeOK ==
    /\ index \in Servers
    /\ queue \in Seq(Loads) /\ count \in 0..Limit /\ lost \in 0..Limit
    /\ req \in [Requests -> Request]
    /\ tried \in [Requests -> SUBSET Servers]
    /\ skipped \in [Requests -> Servers]

Fresh(pc) == [pc |-> pc, retries |-> 0, by |-> NoRequest]

RequestsInit ==
    /\ index \in Servers
    /\ queue = <<>> /\ count = 0 /\ lost = 0
    /\ req = [r \in Requests |-> Fresh(IF r \in Forced THEN "new" ELSE "idle")]
    /\ tried = [r \in Requests |-> {}]
    /\ skipped = [r \in Requests |-> 0]
-----------------------------------------------------------------------------
(* The queue.                                                                *)

\* A file is loaded by force once; the others are sent again and again.
MaySubmit(r) == req[r].pc \in (IF r \in Forced THEN {"new"} ELSE {"idle", "forgotten"})

\* Mutants: every request is put to the front, or to the back.
FrontAlways(r) == <<r>> \o queue
BackAlways(r) == Append(queue, r)
\* submitRequest: offerFirst or offerLast.
Queued(r) == IF r \in Forced THEN <<r>> \o queue ELSE Append(queue, r)

\* Mutant: the limit is compared too late.
FullTooLate == count > Limit
Full == count >= Limit

Submit(r) ==
    /\ MaySubmit(r)
    /\ IF r \in Loads /\ Full
       THEN /\ queue' = Queued(r) /\ count' = count
            /\ req' = [req EXCEPT ![r] = Fresh("queued")]
       ELSE /\ queue' = queue
            /\ count' = IF r \in Loads THEN count + 1 ELSE count
            /\ req' = [req EXCEPT ![r] = Fresh("start")]
    /\ UNCHANGED <<index, lost, tried, skipped>>

\* Mutant: the count goes down although the slot is passed on.
CountDown == count - 1
KeepCount == count

\* The future of r is done: its listener passes the slot on (triggerNextQueuedRequests)
\* and sets the result when the request that got the slot has been sent.
Complete(r, over, handing) ==
    /\ IF r \in Loads /\ queue # <<>>
       THEN /\ queue' = Tail(queue) /\ count' = KeepCount
            /\ req' = [req EXCEPT ![r] = Fresh(handing),
                                  ![Head(queue)] = [Fresh("start") EXCEPT !.by = r]]
       ELSE /\ queue' = queue
            /\ count' = IF r \in Loads THEN count - 1 ELSE count
            /\ req' = [req EXCEPT ![r] = Fresh(over)]
    /\ tried' = [tried EXCEPT ![r] = {}]
    /\ skipped' = [skipped EXCEPT ![r] = 0]
    /\ UNCHANGED <<index, lost>>
-----------------------------------------------------------------------------
(* Retries.                                                                  *)

\* Mutant: the place in the list is not moved.
SameIndex == index
NextIndex == (index + 1) % NumServers

\* failOver() of r.
FailOver(r) ==
    /\ index' = NextIndex
    /\ skipped' = [s \in Requests |->
          IF s # r /\ tried[s] # {} /\ skipped[s] < NumServers - 1
          THEN skipped[s] + 1 ELSE skipped[s]]

\* The callback that has passed its slot on goes on.
Resumed(pc) == IF pc = "handing" THEN "idle" ELSE "erred"

\* maxRetryTime is urls.length.
RetriesLeft(r) == req[r].retries <= NumServers

\* request(), when there are retries left: select() a server and send.
Send(r) ==
    /\ req[r].pc = "start" /\ RetriesLeft(r)
    /\ req' = [s \in Requests |->
          IF s = r THEN [pc |-> "sent", retries |-> req[r].retries + 1, by |-> NoRequest]
          ELSE IF s = req[r].by THEN Fresh(Resumed(req[s].pc))
          ELSE req[s]]
    /\ tried' = [tried EXCEPT ![r] = @ \cup {index}]
    /\ UNCHANGED <<index, queue, count, lost, skipped>>

GiveUp(r) ==
    /\ req[r].pc = "start" /\ ~RetriesLeft(r)
    /\ Complete(r, "idle", "handing")

\* The server answers, or refuses (403, 400; 404 for a load).
Answered(r) ==
    /\ req[r].pc = "sent"
    /\ Complete(r, "idle", "handing")

\* No connection, a timeout, another status, a wrong checksum.
Lost(r) ==
    /\ req[r].pc = "sent"
    /\ FailOver(r)
    /\ req' = [req EXCEPT ![r].pc = "start"]
    /\ UNCHANGED <<queue, count, lost, tried>>

\* LoadDataFuture.process sets the exception and asks for the next server all the same:
\* request() then finds the future done.
ServerError(r) ==
    /\ r \in Loads /\ req[r].pc = "sent"
    /\ Complete(r, "erred", "handingErr")

FailOverAfterError(r) ==
    /\ req[r].pc = "erred"
    /\ FailOver(r)
    /\ req' = [req EXCEPT ![r] = Fresh("idle")]
    /\ UNCHANGED <<queue, count, lost, tried>>

\* Where an exception leaves a request: submitRequest throws it to the caller;
\* triggerNextQueuedRequests, or the client that runs the callback, logs it.
Thrown(r) ==
    IF req[r].pc = "start" /\ req[r].retries = 0 /\ req[r].by = NoRequest THEN "idle" ELSE "forgotten"

\* request() throws anything but an IOException (select() does, of an empty list), or
\* the listener of the response throws.  A slot is not given back.
Throw(r) ==
    /\ req[r].pc = "sent" \/ (req[r].pc = "start" /\ RetriesLeft(r))
    /\ req' = [s \in Requests |->
          IF s = r THEN Fresh(Thrown(r))
          ELSE IF s = req[r].by THEN Fresh(Resumed(req[s].pc))
          ELSE req[s]]
    /\ lost' = IF r \in Loads THEN lost + 1 ELSE lost
    /\ tried' = [tried EXCEPT ![r] = {}]
    /\ skipped' = [skipped EXCEPT ![r] = 0]
    /\ UNCHANGED <<index, queue, count>>
-----------------------------------------------------------------------------
Response(r) == Answered(r) \/ Lost(r) \/ ServerError(r)

RequestsNext ==
    \E r \in Requests :
        Submit(r) \/ Send(r) \/ GiveUp(r) \/ Response(r) \/ FailOverAfterError(r) \/ Throw(r)

RequestsSpec == RequestsInit /\ [][RequestsNext]_vars

\* Threads that have begun go on, and every request has a timeout (HttpClientHolder).
\* Nobody has to send requests, and no server has to answer.
RequestsFairness ==
    \A r \in Requests :
        WF_vars(Send(r)) /\ WF_vars(GiveUp(r)) /\ WF_vars(Response(r)) /\ WF_vars(FailOverAfterError(r))

FairRequestsSpec == RequestsSpec /\ RequestsFairness
-----------------------------------------------------------------------------
\* The count is the number of loads under way and of those that threw, also while a
\* slot is passed on from one request to the next, and a load waits only while the
\* limit is reached (submitRequest and triggerNextQueuedRequests look at queue and count
\* under one lock, and send outside of it).  The code promises less than a bounded
\* queue needs: it does not get back what exceptions take (`lost`).
SlotsAreCounted ==
    /\ count = Cardinality(Running) + lost /\ count <= Limit
    /\ queue # <<>> => count = Limit

\* No other load starts while the first load of a file is waiting: an application
\* that starts does not wait for updates (forceReload puts itself to the front).
FirstLoadsGoFirst ==
    [][\A r \in Loads \ Forced :
          req[r].pc = "queued" /\ req'[r].pc = "start" => \A f \in Forced : req[f].pc # "queued"]_vars

\* A request that gives up has been to every server, but for as many as other
\* requests moved the shared index past it: RetryFuture tries once more than there are
\* servers, yet a request that fails next to others may never try the one that is up.
MissesOnlyWhatOthersSkip ==
    \A r \in Requests :
        req[r].pc = "start" /\ ~RetriesLeft(r) => Cardinality(Servers \ tried[r]) <= skipped[r]

\* Every request is answered, whatever the servers do and however many others there
\* are, also when exceptions have taken slots away: no load is overtaken for ever in
\* the queue.  Excepted are a request that throws itself, and those that wait when
\* exceptions have taken the last slot: for them the code does nothing any more.
EveryRequestIsAnswered ==
    \A r \in Requests :
        req[r].pc \in {"queued", "start", "sent"} ~>
            \/ req[r].pc \in {"idle", "erred", "forgotten"}
            \/ req[r].pc = "queued" /\ lost = Limit
=============================================================================
