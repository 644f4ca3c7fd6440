------------------------ MODULE ClientRequestsProofs ------------------------
(***************************************************************************)
(* For any number of requests, servers and slots: the count is that of the *)
(* loads under way and of those that threw (SlotsAreCounted), first loads  *)
(* go before the others (FirstLoadsGoFirst), and a request that gives up   *)
(* missed no server but those which others skipped                         *)
(* (MissesOnlyWhatOthersSkip).                                             *)
(***************************************************************************)
EXTENDS ClientRequests, FiniteSetTheorems, SequenceTheorems, TLAPS

Indices == 1..Len(queue)

\* The queue holds each waiting load once, the first loads of files in front.
QueueInv ==
    /\ \A i \in Indices : req[queue[i]].pc = "queued"
    /\ \A r \in Requests : req[r].pc = "queued" => r \in Loads /\ \E i \in Indices : queue[i] = r
    /\ \A i, j \in Indices : queue[i] = queue[j] => i = j
    /\ \A i, j \in Indices : i < j /\ queue[j] \in Forced => queue[i] \in Forced

\* A request that is sent in the callback of another one is about to start, and is the
\* only one of that callback.
Handing(r) == req[r].pc \in {"handing", "handingErr"}
HandInv ==
    /\ \A r \in Requests : req[r].by # NoRequest =>
          req[r].pc = "start" /\ req[r].retries = 0 /\ req[r].by \in Loads /\ Handing(req[r].by)
    /\ \A r, s \in Requests : req[r].by # NoRequest /\ req[r].by = req[s].by => r = s

RequestInv == RequestTypeOK /\ QueueInv /\ HandInv /\ SlotsAreCounted

USE RequestsAssumption

LEMMA FreshType ==
    ASSUME NEW pc \in {"new", "idle", "queued", "start", "sent", "handing", "handingErr", "erred", "forgotten"}
    PROVE  Fresh(pc) \in Request /\ Fresh(pc).pc = pc /\ Fresh(pc).retries = 0 /\ Fresh(pc).by = NoRequest
  BY DEF Fresh, Request

LEMMA RequestFields ==
    ASSUME NEW x \in Request
    PROVE  /\ x.pc \in {"new", "idle", "queued", "start", "sent", "handing", "handingErr", "erred", "forgotten"}
           /\ x.retries \in 0..(NumServers + 1) /\ x.by \in Loads \cup {NoRequest}
           /\ x = [pc |-> x.pc, retries |-> x.retries, by |-> x.by]
  BY DEF Request

LEMMA RunningFinite == IsFiniteSet(Running) /\ Cardinality(Running) \in Nat
  BY FS_Subset, FS_CardinalityType DEF Running

LEMMA InitRequestInv == RequestsInit => RequestInv
<1> SUFFICES ASSUME RequestsInit PROVE RequestInv
  OBVIOUS
<1>1. \A r \in Requests : req[r] = Fresh(IF r \in Forced THEN "new" ELSE "idle") /\ req[r] \in Request
  <2>1. \A r \in Requests : req[r] = Fresh(IF r \in Forced THEN "new" ELSE "idle")
    BY DEF RequestsInit
  <2>2. Fresh("new") \in Request /\ Fresh("idle") \in Request
    BY FreshType
  <2>3. QED
    BY <2>1, <2>2
<1>2. \A r \in Requests : req[r].pc \in {"new", "idle"} /\ req[r].by = NoRequest
  <2> SUFFICES ASSUME NEW r \in Requests PROVE req[r].pc \in {"new", "idle"} /\ req[r].by = NoRequest
    OBVIOUS
  <2>1. req[r] = Fresh("new") \/ req[r] = Fresh("idle")
    BY <1>1
  <2>2. QED
    BY <2>1, FreshType
<1>3. RequestTypeOK
  <2>1. req \in [Requests -> Request]
    BY <1>1 DEF RequestsInit
  <2>2. index \in Servers /\ queue \in Seq(Loads) /\ count \in 0..Limit /\ 0 \in Servers
    BY DEF RequestsInit, Servers
  <2>3. QED
    BY <2>1, <2>2 DEF RequestsInit, RequestTypeOK
<1>4. QueueInv
  <2>1. Len(queue) = 0
    BY DEF RequestsInit
  <2>2. QED
    BY <1>2, <2>1 DEF QueueInv, Indices
<1>5. HandInv
  BY <1>2 DEF HandInv
<1>6. SlotsAreCounted
  <2>1. Running = {}
    BY <1>2 DEF Running, Requests
  <2>2. QED
    BY <2>1, FS_EmptySet DEF SlotsAreCounted, RequestsInit
<1>7. QED
  BY <1>3, <1>4, <1>5, <1>6 DEF RequestInv

\* A load joins the queue at its end of it.
LEMMA QueuedSeq ==
    ASSUME NEW r \in Loads, queue \in Seq(Loads), queue' = Queued(r)
    PROVE  /\ queue' \in Seq(Loads) /\ queue' # <<>>
           /\ Len(queue') = Len(queue) + 1
           /\ r \in Forced =>
                 queue'[1] = r /\ \A i \in 2..Len(queue') : i - 1 \in Indices /\ queue'[i] = queue[i - 1]
           /\ r \notin Forced =>
                 queue'[Len(queue')] = r /\ \A i \in Indices : queue'[i] = queue[i]
<1>1. CASE r \in Forced
  <2>1. queue' = <<r>> \o queue /\ <<r>> \in Seq(Loads)
    BY <1>1 DEF Queued
  <2>2. queue' \in Seq(Loads) /\ Len(queue') = Len(queue) + 1
    BY <2>1, ConcatProperties
  <2>3. \A i \in 1..Len(queue') : queue'[i] = IF i <= 1 THEN r ELSE queue[i - 1]
    BY <2>1, <2>2, ConcatProperties
  <2>4. Len(queue) \in Nat
    BY LenProperties
  <2>5. queue'[1] = r
    BY <2>2, <2>3, <2>4
  <2>6. \A i \in 2..Len(queue') : i - 1 \in Indices /\ queue'[i] = queue[i - 1]
    BY <2>2, <2>3, <2>4 DEF Indices
  <2>7. queue' # <<>>
    BY <2>2, <2>4
  <2>8. QED
    BY <1>1, <2>2, <2>5, <2>6, <2>7
<1>2. CASE r \notin Forced
  BY <1>2, AppendProperties DEF Queued, Indices
<1>3. QED
  BY <1>1, <1>2

LEMMA InQueue ==
    ASSUME queue \in Seq(Loads), NEW i \in Indices
    PROVE  queue[i] \in Loads /\ queue[i] \in Requests
  BY LenProperties DEF Indices, Requests

LEMMA QueueStays ==
    ASSUME QueueInv, queue \in Seq(Loads), queue' = queue,
           \A s \in Requests : req'[s].pc = "queued" <=> req[s].pc = "queued"
    PROVE  QueueInv'
<1>1. Indices' = Indices
  BY DEF Indices
<1>2. \A i \in Indices : req'[queue[i]].pc = "queued"
  BY InQueue DEF QueueInv
<1>3. QED
  BY <1>1, <1>2 DEF QueueInv

LEMMA QueueJoined ==
    ASSUME QueueInv, queue \in Seq(Loads), NEW r \in Loads, req[r].pc # "queued",
           queue' = Queued(r), req'[r].pc = "queued",
           \A s \in Requests \ {r} : req'[s].pc = "queued" <=> req[s].pc = "queued"
    PROVE  QueueInv'
<1> DEFINE n == Len(queue)
           last == IF r \in Forced THEN 1 ELSE n + 1
           old(i) == IF r \in Forced THEN i - 1 ELSE i
<1>1. n \in Nat /\ Indices' = 1..(n + 1) /\ r \in Requests
  BY QueuedSeq, LenProperties DEF Indices, Requests
<1>2. last \in Indices' /\ queue'[last] = r
  BY <1>1, QueuedSeq
<1>3. \A i \in Indices' \ {last} : old(i) \in Indices /\ queue'[i] = queue[old(i)]
  BY <1>1, QueuedSeq DEF Indices
<1>4. \A i \in Indices : queue[i] # r /\ queue[i] \in Requests
  BY InQueue DEF QueueInv
<1>5. \A i \in Indices' : req'[queue'[i]].pc = "queued"
  BY <1>2, <1>3, <1>4 DEF QueueInv
<1>6. ASSUME NEW s \in Requests, req'[s].pc = "queued"
      PROVE  s \in Loads /\ \E i \in Indices' : queue'[i] = s
  <2>1. CASE s = r
    BY <2>1, <1>2
  <2>2. CASE s # r
    <3>1. PICK i \in Indices : queue[i] = s
      BY <1>6, <2>2 DEF QueueInv
    <3>2. PICK j \in Indices' \ {last} : old(j) = i
      <4>1. i \in 1..n
        BY <3>1 DEF Indices
      <4>2. CASE r \in Forced
        BY <4>1, <4>2, <1>1
      <4>3. CASE r \notin Forced
        BY <4>1, <4>3, <1>1
      <4>4. QED
        BY <4>2, <4>3
    <3>3. queue'[j] = s
      BY <3>1, <3>2, <1>3
    <3>4. s \in Loads
      BY <1>6, <2>2 DEF QueueInv
    <3>5. QED
      BY <3>3, <3>4
  <2>3. QED
    BY <2>1, <2>2
<1>7. ASSUME NEW i \in Indices', NEW j \in Indices', queue'[i] = queue'[j]
      PROVE  i = j
  <2>1. (i = last) <=> (j = last)
    BY <1>2, <1>3, <1>4, <1>7
  <2>2. CASE i # last /\ j # last
    <3>1. old(i) = old(j)
      BY <2>2, <1>3, <1>7 DEF QueueInv
    <3>2. i \in Int /\ j \in Int
      BY <1>1
    <3>3. QED
      BY <3>1, <3>2
  <2>3. QED
    BY <2>1, <2>2
<1>8. ASSUME NEW i \in Indices', NEW j \in Indices', i < j, queue'[j] \in Forced
      PROVE  queue'[i] \in Forced
  <2>1. i \in 1..(n + 1) /\ j \in 1..(n + 1)
    BY <1>1
  <2>2. CASE i = last
    <3>1. r \in Forced
      BY <1>1, <1>8, <2>1, <2>2
    <3>2. QED
      BY <1>2, <2>2, <3>1
  <2>3. CASE i # last /\ j = last
    <3>1. r \in Forced
      BY <1>2, <1>8, <2>3
    <3>2. QED
      BY <1>8, <2>1, <2>3, <3>1
  <2>4. CASE i # last /\ j # last
    <3>1. old(i) < old(j)
      BY <2>1, <1>8
    <3>2. queue[old(j)] \in Forced /\ old(i) \in Indices /\ old(j) \in Indices
      BY <1>3, <1>8, <2>4
    <3>3. queue[old(i)] \in Forced
      BY <3>1, <3>2 DEF QueueInv
    <3>4. QED
      BY <3>3, <1>3, <2>4
  <2>5. QED
    BY <2>2, <2>3, <2>4
<1> HIDE DEF n, last, old
<1>9. QED
  BY <1>5, <1>6, <1>7, <1>8 DEF QueueInv

LEMMA QueueLeft ==
    ASSUME QueueInv, queue \in Seq(Loads), queue # <<>>, queue' = Tail(queue),
           req'[Head(queue)].pc # "queued",
           \A s \in Requests \ {Head(queue)} : req'[s].pc = "queued" <=> req[s].pc = "queued"
    PROVE  QueueInv'
<1> DEFINE n == Len(queue)
           h == Head(queue)
<1>1. n \in Nat \ {0} /\ h = queue[1] /\ 1 \in Indices
  BY LenProperties, HeadTailProperties, EmptySeq DEF Indices
<1>2. Indices' = 1..(n - 1) /\ \A i \in Indices' : i + 1 \in Indices /\ queue'[i] = queue[i + 1]
  <2>1. Len(queue') = n - 1 /\ \A i \in 1..Len(queue') : queue'[i] = queue[i + 1]
    BY HeadTailProperties
  <2>2. \A i \in 1..(n - 1) : i + 1 \in 1..n
    BY <1>1
  <2>3. Indices' = 1..(n - 1) /\ Indices = 1..n
    BY <2>1 DEF Indices
  <2> HIDE DEF n
  <2>4. QED
    BY <2>1, <2>2, <2>3
<1>3. \A i \in Indices : queue[i] \in Requests
  BY InQueue
<1>4. \A i \in Indices' : queue'[i] # h
  <2> SUFFICES ASSUME NEW i \in Indices' PROVE queue'[i] # h
    OBVIOUS
  <2>1. i + 1 # 1 /\ i + 1 \in Indices /\ queue'[i] = queue[i + 1]
    BY <1>1, <1>2
  <2>2. QED
    BY <1>1, <2>1 DEF QueueInv
<1> HIDE DEF n, h
<1>5. \A i \in Indices' : req'[queue'[i]].pc = "queued"
  <2> SUFFICES ASSUME NEW i \in Indices' PROVE req'[queue'[i]].pc = "queued"
    OBVIOUS
  <2>1. i + 1 \in Indices /\ queue'[i] = queue[i + 1] /\ queue'[i] # h
    BY <1>2, <1>4
  <2>2. queue'[i] \in Requests /\ req[queue'[i]].pc = "queued"
    <3>1. \A k \in Indices : queue[k] \in Requests /\ req[queue[k]].pc = "queued"
      BY <1>3 DEF QueueInv
    <3> QED
      BY <2>1, <3>1
  <2>3. QED
    BY <2>1, <2>2 DEF h
<1>6. ASSUME NEW s \in Requests, req'[s].pc = "queued"
      PROVE  s \in Loads /\ \E i \in Indices' : queue'[i] = s
  <2>1. s # h /\ req[s].pc = "queued"
    BY <1>6 DEF h
  <2>2. PICK i \in Indices : queue[i] = s
    BY <2>1 DEF QueueInv
  <2>3. i \in 2..n
    BY <1>1, <2>1, <2>2 DEF Indices, n
  <2>4. i - 1 \in Indices' /\ (i - 1) + 1 = i
    BY <1>1, <1>2, <2>3
  <2>6. queue'[i - 1] = s
    BY <1>2, <2>2, <2>4
  <2>5. s \in Loads
    BY <2>1 DEF QueueInv
  <2>7. QED
    BY <2>4, <2>5, <2>6
<1>7. ASSUME NEW i \in Indices', NEW j \in Indices'
      PROVE  /\ queue'[i] = queue'[j] => i = j
             /\ i < j /\ queue'[j] \in Forced => queue'[i] \in Forced
  <2>1. i \in Int /\ j \in Int
    BY <1>1, <1>2
  <2>2. /\ i + 1 \in Indices /\ queue'[i] = queue[i + 1]
        /\ j + 1 \in Indices /\ queue'[j] = queue[j + 1]
    BY <1>2
  <2>3. i + 1 = j + 1 => i = j
    BY <2>1
  <2>4. i < j => i + 1 < j + 1
    BY <2>1
  <2>5. queue[i + 1] = queue[j + 1] => i = j
    BY <2>2, <2>3 DEF QueueInv
  <2>6. i < j /\ queue[j + 1] \in Forced => queue[i + 1] \in Forced
    BY <2>2, <2>4 DEF QueueInv
  <2>7. QED
    BY <2>2, <2>5, <2>6
<1>8. QED
  BY <1>5, <1>6, <1>7 DEF QueueInv

\* The other requests, and who is sent in whose callback, when one request changes,
LEMMA OneChanges ==
    ASSUME NEW r \in Requests, NEW x \in Request, req \in [Requests -> Request],
           req' = [req EXCEPT ![r] = x]
    PROVE  /\ req' \in [Requests -> Request] /\ req'[r] = x
           /\ \A s \in Requests \ {r} : req'[s] = req[s]
  OBVIOUS

LEMMA HandOne ==
    ASSUME HandInv, NEW r \in Requests, NEW x \in Request, x.by = NoRequest, ~Handing(r),
           req'[r] = x, \A s \in Requests \ {r} : req'[s] = req[s]
    PROVE  HandInv'
<1>1. \A s \in Requests : req'[s].by # NoRequest => s # r /\ req'[s] = req[s]
  OBVIOUS
<1>2. ASSUME NEW s \in Requests, req'[s].by # NoRequest
      PROVE  req'[s].pc = "start" /\ req'[s].retries = 0 /\ req'[s].by \in Loads /\ req'[req'[s].by].pc \in {"handing", "handingErr"}
  <2>1. s # r /\ req'[s] = req[s]
    BY <1>1, <1>2
  <2>2. req[s].pc = "start" /\ req[s].retries = 0 /\ req[s].by \in Loads /\ Handing(req[s].by)
    BY <1>2, <2>1 DEF HandInv
  <2>3. req[s].by \in Requests \ {r}
    BY <2>2 DEF Requests
  <2>4. QED
    BY <2>1, <2>2, <2>3 DEF Handing
<1>3. ASSUME NEW s \in Requests, NEW t \in Requests, req'[s].by # NoRequest, req'[s].by = req'[t].by
      PROVE  s = t
  BY <1>1, <1>3 DEF HandInv
<1>4. QED
  BY <1>2, <1>3 DEF HandInv, Handing

\* when a slot is passed on,
LEMMA HandTwo ==
    ASSUME HandInv, NEW r \in Loads, NEW h \in Loads, r # h, ~Handing(r), ~Handing(h),
           req'[r].by = NoRequest, req'[r].pc \in {"handing", "handingErr"},
           req'[h].pc = "start", req'[h].retries = 0, req'[h].by = r,
           \A s \in Requests \ {r, h} : req'[s] = req[s]
    PROVE  HandInv'
<1>1. r \in Requests /\ h \in Requests /\ r # NoRequest
  BY DEF Requests
<1>2. ASSUME NEW s \in Requests \ {r, h}, req'[s].by # NoRequest
      PROVE  /\ req'[s].pc = "start" /\ req'[s].retries = 0
             /\ req'[s].by \in Loads \ {r, h} /\ req'[s].by = req[s].by /\ req'[req'[s].by].pc \in {"handing", "handingErr"}
  <2>1. req'[s] = req[s]
    OBVIOUS
  <2>2. req[s].pc = "start" /\ req[s].retries = 0 /\ req[s].by \in Loads /\ Handing(req[s].by)
    BY <1>2, <2>1 DEF HandInv
  <2>3. req[s].by \in Requests \ {r, h} /\ req[s].by \in Loads \ {r, h}
    BY <2>2 DEF Requests
  <2>4. QED
    BY <2>1, <2>2, <2>3 DEF Handing
<1>3. req'[r].pc \in {"handing", "handingErr"}
  OBVIOUS
<1>4. ASSUME NEW s \in Requests, req'[s].by # NoRequest
      PROVE  req'[s].pc = "start" /\ req'[s].retries = 0 /\ req'[s].by \in Loads /\ req'[req'[s].by].pc \in {"handing", "handingErr"}
  BY <1>1, <1>2, <1>3, <1>4
<1>5. ASSUME NEW s \in Requests, NEW t \in Requests, req'[s].by # NoRequest, req'[s].by = req'[t].by
      PROVE  s = t
  <2>1. s # r /\ t # r
    BY <1>5
  <2>2. CASE s = h \/ t = h
    BY <1>1, <1>2, <1>5, <2>1, <2>2
  <2>3. CASE s # h /\ t # h
    BY <1>2, <1>5, <2>1, <2>3 DEF HandInv
  <2>4. QED
    BY <2>2, <2>3
<1>6. QED
  BY <1>4, <1>5 DEF HandInv, Handing

\* and when the request that got it is sent, or throws.
LEMMA HandSend ==
    ASSUME HandInv, NEW r \in Requests, ~Handing(r),
           req'[r].by = NoRequest,
           \A s \in Requests \ {r} :
              req'[s] = IF s = req[r].by THEN Fresh(Resumed(req[s].pc)) ELSE req[s]
    PROVE  HandInv'
<1>1. ASSUME NEW s \in Requests, req'[s].by # NoRequest
      PROVE  s # r /\ req'[s] = req[s] /\ s # req[r].by
  <2>1. s # r
    BY <1>1
  <2>2. \A pc : Fresh(pc).by = NoRequest
    BY DEF Fresh
  <2>3. s # req[r].by
    BY <1>1, <2>1, <2>2
  <2>4. QED
    BY <2>1, <2>3
<1>2. ASSUME NEW s \in Requests, req'[s].by # NoRequest
      PROVE  req'[s].pc = "start" /\ req'[s].retries = 0 /\ req'[s].by \in Loads /\ req'[req'[s].by].pc \in {"handing", "handingErr"}
  <2>1. s # r /\ req'[s] = req[s]
    BY <1>1, <1>2
  <2>2. req[s].pc = "start" /\ req[s].retries = 0 /\ req[s].by \in Loads /\ Handing(req[s].by)
    BY <1>2, <2>1 DEF HandInv
  <2>3. req[s].by \in Requests /\ req[s].by # r /\ req[s].by # NoRequest
    BY <2>2 DEF Requests, Handing
  <2>4. req[s].by # req[r].by
    BY <2>1, <2>3 DEF HandInv
  <2>5. QED
    BY <2>1, <2>2, <2>3, <2>4 DEF Handing
<1>3. ASSUME NEW s \in Requests, NEW t \in Requests, req'[s].by # NoRequest, req'[s].by = req'[t].by
      PROVE  s = t
  BY <1>1, <1>3 DEF HandInv
<1>4. QED
  BY <1>2, <1>3 DEF HandInv, Handing

\* The loads under way, when one begins, ends or goes on.
LEMMA SlotTaken ==
    ASSUME NEW r \in Loads \ Running, Running' = Running \cup {r}
    PROVE  Cardinality(Running') = Cardinality(Running) + 1
  BY RunningFinite, FS_AddElement

LEMMA SlotFreed ==
    ASSUME NEW r \in Running, Running' = Running \ {r}
    PROVE  Cardinality(Running') = Cardinality(Running) - 1
  BY RunningFinite, FS_RemoveElement

LEMMA SlotPassedOn ==
    ASSUME NEW r \in Running, NEW h \in Loads \ Running, Running' = (Running \ {r}) \cup {h}
    PROVE  Cardinality(Running') = Cardinality(Running)
<1>1. IsFiniteSet(Running \ {r}) /\ Cardinality(Running \ {r}) = Cardinality(Running) - 1
  BY RunningFinite, FS_RemoveElement
<1>2. Cardinality((Running \ {r}) \cup {h}) = Cardinality(Running \ {r}) + 1
  BY <1>1, FS_AddElement
<1>3. Cardinality(Running) \in Nat
  BY RunningFinite, FS_CardinalityType
<1>4. QED
  BY <1>1, <1>2, <1>3

LEMMA SubmitKeeps ==
    ASSUME NEW r \in Requests, RequestInv, Submit(r)
    PROVE  RequestInv'
<1>1. RequestTypeOK /\ QueueInv /\ HandInv /\ SlotsAreCounted
  BY DEF RequestInv
<1>2. req[r].pc \in {"new", "idle", "forgotten"} /\ ~Handing(r)
  BY DEF Submit, MaySubmit, Handing
<1>3. UNCHANGED <<index, lost, tried, skipped>>
  BY DEF Submit
<1>4. /\ req \in [Requests -> Request] /\ queue \in Seq(Loads) /\ count \in 0..Limit
      /\ lost \in 0..Limit /\ Cardinality(Running) \in Nat
  BY <1>1, RunningFinite DEF RequestTypeOK
<1>5. CASE r \in Loads /\ Full
  <2>1. queue' = Queued(r) /\ count' = count /\ req' = [req EXCEPT ![r] = Fresh("queued")]
    BY <1>5 DEF Submit
  <2>2. Fresh("queued") \in Request /\ Fresh("queued").by = NoRequest /\ Fresh("queued").pc = "queued"
    BY FreshType
  <2>3. /\ req' \in [Requests -> Request] /\ req'[r] = Fresh("queued")
        /\ \A s \in Requests \ {r} : req'[s] = req[s]
    BY <1>4, <2>1, <2>2, OneChanges
  <2>4. QueueInv'
    BY <1>1, <1>2, <1>4, <1>5, <2>1, <2>2, <2>3, QueueJoined
  <2>5. HandInv'
    BY <1>1, <1>2, <2>2, <2>3, HandOne
  <2>6. queue' \in Seq(Loads)
    BY <1>4, <1>5, <2>1, QueuedSeq
  <2>7. Running' = Running
    BY <1>2, <2>2, <2>3 DEF Running, Requests
  <2>8. count = Limit
    BY <1>4, <1>5 DEF Full
  <2>9. SlotsAreCounted'
    BY <1>1, <1>3, <2>1, <2>7, <2>8 DEF SlotsAreCounted
  <2>10. RequestTypeOK'
    BY <1>1, <1>3, <2>1, <2>3, <2>6 DEF RequestTypeOK
  <2>11. QED
    BY <2>4, <2>5, <2>9, <2>10 DEF RequestInv
<1>6. CASE ~(r \in Loads /\ Full)
  <2>1. queue' = queue /\ count' = (IF r \in Loads THEN count + 1 ELSE count)
        /\ req' = [req EXCEPT ![r] = Fresh("start")]
    BY <1>6 DEF Submit
  <2>2. Fresh("start") \in Request /\ Fresh("start").by = NoRequest /\ Fresh("start").pc = "start"
    BY FreshType
  <2>3. /\ req' \in [Requests -> Request] /\ req'[r] = Fresh("start")
        /\ \A s \in Requests \ {r} : req'[s] = req[s]
    BY <1>4, <2>1, <2>2, OneChanges
  <2>4. QueueInv'
    BY <1>1, <1>2, <1>4, <2>1, <2>2, <2>3, QueueStays
  <2>5. HandInv'
    BY <1>1, <1>2, <2>2, <2>3, HandOne
  <2>6. SlotsAreCounted' /\ count' \in 0..Limit
    <3>1. CASE r \in Loads
      <4>1. r \notin Running /\ Running' = Running \cup {r}
        BY <1>2, <2>2, <2>3, <3>1 DEF Running, Requests
      <4>2. count < Limit /\ count' = count + 1
        BY <1>4, <1>6, <2>1, <3>1 DEF Full
      <4>3. Cardinality(Running') = Cardinality(Running) + 1
        BY <3>1, <4>1, SlotTaken
      <4>4. queue = <<>>
        BY <1>1, <4>2, <1>4 DEF SlotsAreCounted
      <4>5. QED
        BY <1>1, <1>3, <1>4, <2>1, <4>2, <4>3, <4>4 DEF SlotsAreCounted
    <3>2. CASE r \notin Loads
      <4>1. Running' = Running
        BY <2>3, <3>2 DEF Running, Requests
      <4>2. QED
        BY <1>1, <1>3, <1>4, <2>1, <3>2, <4>1 DEF SlotsAreCounted
    <3>3. QED
      BY <3>1, <3>2
  <2>7. RequestTypeOK'
    BY <1>1, <1>3, <2>1, <2>3, <2>6 DEF RequestTypeOK
  <2>8. QED
    BY <2>4, <2>5, <2>6, <2>7 DEF RequestInv
<1>7. QED
  BY <1>5, <1>6

\* Passing the slot on keeps the count, without a moment at which it could be taken.
LEMMA CompleteKeeps ==
    ASSUME NEW r \in Requests, NEW over \in {"idle", "erred"}, NEW handing \in {"handing", "handingErr"},
           RequestInv, req[r].pc \in {"start", "sent"}, Complete(r, over, handing)
    PROVE  RequestInv'
<1>1. RequestTypeOK /\ QueueInv /\ HandInv /\ SlotsAreCounted
  BY DEF RequestInv
<1>2. req \in [Requests -> Request] /\ queue \in Seq(Loads) /\ count \in 0..Limit /\ lost \in 0..Limit
      /\ tried \in [Requests -> SUBSET Servers] /\ skipped \in [Requests -> Servers]
  BY <1>1 DEF RequestTypeOK
<1>3. UNCHANGED <<index, lost>> /\ tried' \in [Requests -> SUBSET Servers] /\ skipped' \in [Requests -> Servers]
  <2>1. 0 \in Servers
    BY DEF Servers
  <2>2. QED
    BY <1>2, <2>1 DEF Complete
<1>4. ~Handing(r)
  BY DEF Handing
<1>5. CASE r \in Loads /\ queue # <<>>
  <2> DEFINE h == Head(queue)
             x == [Fresh("start") EXCEPT !.by = r]
  <2>1. queue' = Tail(queue) /\ count' = count
        /\ req' = [req EXCEPT ![r] = Fresh(handing), ![h] = x]
    BY <1>5 DEF Complete, KeepCount
  <2>2. h \in Loads /\ h \in Requests /\ req[h].pc = "queued" /\ h # r
    <3>1. h = queue[1] /\ 1 \in Indices
      BY <1>2, <1>5, EmptySeq, HeadTailProperties DEF Indices
    <3>2. req[h].pc = "queued" /\ h \in Loads
      BY <1>1, <1>2, <3>1, InQueue DEF QueueInv
    <3>3. QED
      BY <3>2 DEF Requests
  <2>3. Fresh(handing) \in Request /\ Fresh(handing).pc = handing /\ Fresh(handing).by = NoRequest
    BY FreshType
  <2>4. x \in Request /\ x.pc = "start" /\ x.retries = 0 /\ x.by = r
    BY <1>5 DEF Fresh, Request
  <2> HIDE DEF x
  <2>5. /\ req' \in [Requests -> Request] /\ req'[r] = Fresh(handing) /\ req'[h] = x
        /\ \A s \in Requests \ {r, h} : req'[s] = req[s]
    BY <1>2, <2>1, <2>2, <2>3, <2>4
  <2>6. QueueInv'
    <3>1. req'[h].pc # "queued"
      BY <2>4, <2>5
    <3>2. \A s \in Requests \ {h} : req'[s].pc = "queued" <=> req[s].pc = "queued"
      BY <2>3, <2>5
    <3>3. QED
      BY <1>1, <1>2, <1>5, <2>1, <3>1, <3>2, QueueLeft
  <2>7. HandInv'
    <3>1. ~Handing(h)
      BY <2>2 DEF Handing
    <3>2. QED
      BY <1>1, <1>4, <1>5, <2>2, <2>3, <2>4, <2>5, <3>1, HandTwo
  <2>8. SlotsAreCounted'
    <3>1. r \in Running /\ h \in Loads \ Running /\ Running' = (Running \ {r}) \cup {h}
      BY <1>5, <2>2, <2>3, <2>4, <2>5 DEF Running, Requests
    <3>2. Cardinality(Running') = Cardinality(Running)
      BY <3>1, SlotPassedOn
    <3>3. count = Limit
      BY <1>1, <1>5 DEF SlotsAreCounted
    <3>4. QED
      BY <1>1, <1>3, <2>1, <3>2, <3>3 DEF SlotsAreCounted
  <2>9. queue' \in Seq(Loads)
    BY <1>2, <1>5, <2>1, HeadTailProperties
  <2>10. RequestTypeOK'
    BY <1>1, <1>3, <2>1, <2>5, <2>9 DEF RequestTypeOK
  <2>11. QED
    BY <2>6, <2>7, <2>8, <2>10 DEF RequestInv
<1>6. CASE ~(r \in Loads /\ queue # <<>>)
  <2>1. queue' = queue /\ count' = (IF r \in Loads THEN count - 1 ELSE count)
        /\ req' = [req EXCEPT ![r] = Fresh(over)]
    BY <1>6 DEF Complete
  <2>2. Fresh(over) \in Request /\ Fresh(over).pc = over /\ Fresh(over).by = NoRequest
    BY FreshType
  <2>3. /\ req' \in [Requests -> Request] /\ req'[r] = Fresh(over)
        /\ \A s \in Requests \ {r} : req'[s] = req[s]
    BY <1>2, <2>1, <2>2, OneChanges
  <2>4. QueueInv'
    BY <1>1, <1>2, <2>1, <2>2, <2>3, QueueStays
  <2>5. HandInv'
    BY <1>1, <1>4, <2>2, <2>3, HandOne
  <2>6. SlotsAreCounted' /\ count' \in 0..Limit
    <3>1. CASE r \in Loads
      <4>1. r \in Running /\ Running' = Running \ {r}
        BY <2>2, <2>3, <3>1 DEF Running, Requests
      <4>2. Cardinality(Running') = Cardinality(Running) - 1
        BY <4>1, SlotFreed
      <4>3. Cardinality(Running') \in Nat
        BY <4>1, RunningFinite, FS_RemoveElement, FS_CardinalityType
      <4>4. count = Cardinality(Running) + lost /\ queue = <<>> /\ Cardinality(Running) \in Nat
        BY <1>1, <1>6, <3>1, RunningFinite DEF SlotsAreCounted
      <4>5. QED
        BY <1>2, <1>3, <2>1, <3>1, <4>2, <4>3, <4>4 DEF SlotsAreCounted
    <3>2. CASE r \notin Loads
      <4>1. Running' = Running
        BY <2>3, <3>2 DEF Running, Requests
      <4>2. QED
        BY <1>1, <1>2, <1>3, <2>1, <3>2, <4>1 DEF SlotsAreCounted
    <3>3. QED
      BY <3>1, <3>2
  <2>7. RequestTypeOK'
    BY <1>1, <1>3, <2>1, <2>3, <2>6 DEF RequestTypeOK
  <2>8. QED
    BY <2>4, <2>5, <2>6, <2>7 DEF RequestInv
<1>7. QED
  BY <1>5, <1>6

LEMMA SendKeeps ==
    ASSUME NEW r \in Requests, RequestInv, Send(r)
    PROVE  RequestInv'
<1> DEFINE x == [pc |-> "sent", retries |-> req[r].retries + 1, by |-> NoRequest]
<1>1. RequestTypeOK /\ QueueInv /\ HandInv /\ SlotsAreCounted
  BY DEF RequestInv
<1>2. req \in [Requests -> Request] /\ index \in Servers /\ tried \in [Requests -> SUBSET Servers]
      /\ queue \in Seq(Loads)
  BY <1>1 DEF RequestTypeOK
<1>3. req[r].pc = "start" /\ UNCHANGED <<index, queue, count, lost, skipped>>
  BY DEF Send
<1>4. x \in Request /\ x.pc = "sent" /\ x.by = NoRequest
  BY <1>2, RequestFields DEF Send, RetriesLeft, Request
<1>5. /\ req'[r] = x
      /\ \A s \in Requests \ {r} :
            req'[s] = IF s = req[r].by THEN Fresh(Resumed(req[s].pc)) ELSE req[s]
  BY DEF Send
<1> HIDE DEF x
<1>6. ASSUME NEW s \in Requests \ {r}, s = req[r].by
      PROVE  Handing(s) /\ req'[s] \in Request /\ req'[s].pc \in {"idle", "erred"}
  <2>1. s # NoRequest
    OBVIOUS
  <2>2. Handing(s)
    BY <1>1, <1>6, <2>1 DEF HandInv
  <2>3. Resumed(req[s].pc) \in {"idle", "erred"}
    BY DEF Resumed
  <2>4. QED
    BY <1>5, <1>6, <2>2, <2>3, FreshType
<1>7. \A s \in Requests \ {r} : req'[s] = req[s] \/ (Handing(s) /\ req'[s].pc \in {"idle", "erred"})
  BY <1>5, <1>6
<1>8. req' \in [Requests -> Request]
  <2>1. \A s \in Requests : req'[s] \in Request
    BY <1>2, <1>4, <1>5, <1>6
  <2>2. DOMAIN req' = Requests /\ req' = [s \in Requests |-> req'[s]]
    BY DEF Send
  <2>3. QED
    BY <2>1, <2>2
<1>9. QueueInv'
  <2>1. \A s \in Requests : req'[s].pc = "queued" <=> req[s].pc = "queued"
    BY <1>3, <1>4, <1>5, <1>7 DEF Handing
  <2>2. QED
    BY <1>1, <1>2, <1>3, <2>1, QueueStays
<1>10. HandInv'
  BY <1>1, <1>3, <1>4, <1>5, HandSend DEF Handing
<1>11. SlotsAreCounted'
  <2>1. Running' = Running
    <3>1. \A s \in Loads : req'[s].pc \in {"start", "sent"} <=> req[s].pc \in {"start", "sent"}
      BY <1>3, <1>4, <1>5, <1>7 DEF Handing, Requests
    <3>2. QED
      BY <3>1 DEF Running
  <2>2. QED
    BY <1>1, <1>3, <2>1 DEF SlotsAreCounted
<1>12. RequestTypeOK'
  <2>1. tried' \in [Requests -> SUBSET Servers]
    BY <1>2 DEF Send
  <2>2. QED
    BY <1>1, <1>3, <1>8, <2>1 DEF RequestTypeOK
<1>13. QED
  BY <1>9, <1>10, <1>11, <1>12 DEF RequestInv

\* A failover of r changes the record of r, and neither queue nor count.
LEMMA FailOverKeeps ==
    ASSUME NEW r \in Requests, NEW x \in Request, RequestInv, FailOver(r),
           req' = [req EXCEPT ![r] = x], UNCHANGED <<queue, count, lost, tried>>,
           ~Handing(r), req[r].pc # "queued", x.pc # "queued", x.by = NoRequest,
           x.pc \in {"start", "sent"} <=> req[r].pc \in {"start", "sent"}
    PROVE  RequestInv'
<1>1. RequestTypeOK /\ QueueInv /\ HandInv /\ SlotsAreCounted
  BY DEF RequestInv
<1>2. req \in [Requests -> Request] /\ queue \in Seq(Loads) /\ index \in Servers
      /\ skipped \in [Requests -> Servers] /\ tried \in [Requests -> SUBSET Servers]
  BY <1>1 DEF RequestTypeOK
<1>3. req' \in [Requests -> Request] /\ req'[r] = x /\ \A s \in Requests \ {r} : req'[s] = req[s]
  BY <1>2, OneChanges
<1>4. QueueInv'
  BY <1>1, <1>2, <1>3, QueueStays
<1>5. HandInv'
  BY <1>1, <1>3, HandOne
<1>6. SlotsAreCounted'
  <2>1. Running' = Running
    <3>1. \A s \in Loads : req'[s].pc \in {"start", "sent"} <=> req[s].pc \in {"start", "sent"}
      BY <1>3 DEF Requests
    <3>2. QED
      BY <3>1 DEF Running
  <2>2. QED
    BY <1>1, <2>1 DEF SlotsAreCounted
<1>7. index' \in Servers /\ skipped' \in [Requests -> Servers]
  <2>1. index' \in Servers
    BY <1>2 DEF FailOver, NextIndex, Servers
  <2>2. \A s \in Requests : skipped[s] \in Servers /\ (skipped[s] < NumServers - 1 => skipped[s] + 1 \in Servers)
    BY <1>2 DEF Servers
  <2>3. QED
    BY <2>1, <2>2 DEF FailOver
<1>8. RequestTypeOK'
  BY <1>1, <1>3, <1>7 DEF RequestTypeOK
<1>9. QED
  BY <1>4, <1>5, <1>6, <1>8 DEF RequestInv

\* A request that throws keeps its slot in the count: it is lost.
LEMMA ThrowKeeps ==
    ASSUME NEW r \in Requests, RequestInv, Throw(r)
    PROVE  RequestInv'
<1>1. RequestTypeOK /\ QueueInv /\ HandInv /\ SlotsAreCounted
  BY DEF RequestInv
<1>2. /\ req \in [Requests -> Request] /\ tried \in [Requests -> SUBSET Servers]
      /\ skipped \in [Requests -> Servers] /\ queue \in Seq(Loads) /\ lost \in 0..Limit /\ count \in 0..Limit
  BY <1>1 DEF RequestTypeOK
<1>3. /\ req[r].pc \in {"start", "sent"} /\ UNCHANGED <<index, queue, count>>
      /\ lost' = IF r \in Loads THEN lost + 1 ELSE lost
  BY DEF Throw
<1>4. PICK x \in Request : x = Fresh(Thrown(r)) /\ x.pc \in {"idle", "forgotten"} /\ x.by = NoRequest
  BY FreshType DEF Thrown
<1>5. /\ req'[r] = x
      /\ \A s \in Requests \ {r} :
            req'[s] = IF s = req[r].by THEN Fresh(Resumed(req[s].pc)) ELSE req[s]
  BY <1>4 DEF Throw
<1>6. ASSUME NEW s \in Requests \ {r}, s = req[r].by
      PROVE  Handing(s) /\ req'[s] \in Request /\ req'[s].pc \in {"idle", "erred"}
  <2>1. s # NoRequest
    OBVIOUS
  <2>2. Handing(s)
    BY <1>1, <1>6, <2>1 DEF HandInv
  <2>3. Resumed(req[s].pc) \in {"idle", "erred"}
    BY DEF Resumed
  <2>4. QED
    BY <1>5, <1>6, <2>2, <2>3, FreshType
<1>7. \A s \in Requests \ {r} : req'[s] = req[s] \/ (Handing(s) /\ req'[s].pc \in {"idle", "erred"})
  BY <1>5, <1>6
<1>8. req' \in [Requests -> Request]
  <2>1. \A s \in Requests : req'[s] \in Request
    BY <1>2, <1>4, <1>5, <1>6
  <2>2. DOMAIN req' = Requests /\ req' = [s \in Requests |-> req'[s]]
    BY DEF Throw
  <2>3. QED
    BY <2>1, <2>2
<1>9. QueueInv'
  <2>1. \A s \in Requests : req'[s].pc = "queued" <=> req[s].pc = "queued"
    BY <1>3, <1>4, <1>5, <1>7 DEF Handing
  <2>2. QED
    BY <1>1, <1>2, <1>3, <2>1, QueueStays
<1>10. HandInv'
  BY <1>1, <1>3, <1>4, <1>5, HandSend DEF Handing
<1>11. SlotsAreCounted' /\ lost' \in 0..Limit
  <2>1. \A s \in Loads \ {r} : req'[s].pc \in {"start", "sent"} <=> req[s].pc \in {"start", "sent"}
    BY <1>7 DEF Handing, Requests
  <2>2. CASE r \in Loads
    <3>1. r \in Running /\ Running' = Running \ {r}
      BY <1>3, <1>4, <1>5, <2>1, <2>2 DEF Running
    <3>2. Cardinality(Running') = Cardinality(Running) - 1
      BY <3>1, SlotFreed
    <3>3. Cardinality(Running) \in Nat /\ Cardinality(Running') \in Nat
      BY <3>1, RunningFinite, FS_RemoveElement, FS_CardinalityType
    <3>4. QED
      BY <1>1, <1>2, <1>3, <2>2, <3>2, <3>3 DEF SlotsAreCounted
  <2>3. CASE r \notin Loads
    <3>1. Running' = Running
      BY <2>1, <2>3 DEF Running
    <3>2. QED
      BY <1>1, <1>2, <1>3, <2>3, <3>1 DEF SlotsAreCounted
  <2>4. QED
    BY <2>2, <2>3
<1>12. RequestTypeOK'
  <2>1. tried' \in [Requests -> SUBSET Servers] /\ skipped' \in [Requests -> Servers]
    <3>1. 0 \in Servers
      BY DEF Servers
    <3>2. QED
      BY <1>2, <3>1 DEF Throw
  <2>2. QED
    BY <1>1, <1>3, <1>8, <1>11, <2>1 DEF RequestTypeOK
<1>13. QED
  BY <1>9, <1>10, <1>11, <1>12 DEF RequestInv

LEMMA NextKeeps == RequestInv /\ [RequestsNext]_vars => RequestInv'
<1> SUFFICES ASSUME RequestInv, [RequestsNext]_vars PROVE RequestInv'
  OBVIOUS
<1>1. CASE UNCHANGED vars
  <2>1. RequestTypeOK'
    BY <1>1 DEF vars, RequestInv, RequestTypeOK
  <2>2. QueueInv' /\ HandInv'
    BY <1>1 DEF vars, RequestInv, QueueInv, Indices, HandInv, Handing
  <2>3. SlotsAreCounted'
    <3>1. Running' = Running
      BY <1>1 DEF vars, Running
    <3>2. QED
      BY <1>1, <3>1 DEF vars, RequestInv, SlotsAreCounted
  <2>4. QED
    BY <2>1, <2>2, <2>3 DEF RequestInv
<1>2. ASSUME NEW r \in Requests,
             Submit(r) \/ Send(r) \/ GiveUp(r) \/ Response(r) \/ FailOverAfterError(r) \/ Throw(r)
      PROVE  RequestInv'
  <2>1. CASE Submit(r)
    BY <2>1, SubmitKeeps
  <2>2. CASE Send(r)
    BY <2>2, SendKeeps
  <2>3. CASE GiveUp(r) \/ Answered(r) \/ ServerError(r)
    BY <2>3, CompleteKeeps DEF GiveUp, Answered, ServerError
  <2>4. HandInv /\ req \in [Requests -> Request]
    BY DEF RequestInv, RequestTypeOK
  <2>5. CASE Lost(r)
    <3> DEFINE x == [req[r] EXCEPT !.pc = "start"]
    <3>1. req[r].pc = "sent" /\ FailOver(r) /\ req' = [req EXCEPT ![r] = x] /\ UNCHANGED <<queue, count, lost, tried>>
      BY <2>5 DEF Lost
    <3>2. req[r].by = NoRequest /\ req[r] \in Request
      BY <2>4, <3>1 DEF HandInv
    <3>3. x \in Request /\ x.pc = "start" /\ x.by = NoRequest
      BY <3>2 DEF Request
    <3> HIDE DEF x
    <3>4. ~Handing(r)
      BY <3>1 DEF Handing
    <3>5. QED
      BY <3>1, <3>3, <3>4, FailOverKeeps
  <2>6. CASE FailOverAfterError(r)
    <3>1. req[r].pc = "erred" /\ FailOver(r) /\ req' = [req EXCEPT ![r] = Fresh("idle")]
          /\ UNCHANGED <<queue, count, lost, tried>>
      BY <2>6 DEF FailOverAfterError
    <3>2. Fresh("idle") \in Request /\ Fresh("idle").pc = "idle" /\ Fresh("idle").by = NoRequest
      BY FreshType
    <3>3. ~Handing(r)
      BY <3>1 DEF Handing
    <3>4. QED
      BY <3>1, <3>2, <3>3, FailOverKeeps
  <2>7. QED
    BY <1>2, <2>1, <2>2, <2>3, <2>5, <2>6, ThrowKeeps DEF Response
<1>3. QED
  BY <1>1, <1>2 DEF RequestsNext

LEMMA RequestInvHolds == RequestsSpec => []RequestInv
<1>1. QED
  BY InitRequestInv, NextKeeps, PTL DEF RequestsSpec

\* The queue, the count and the places in the list of servers are what the code takes
\* them for.
THEOREM RequestTypes == RequestsSpec => []RequestTypeOK
  BY RequestInvHolds, PTL DEF RequestInv

\* No slot is given twice, and none is lost but to an exception, whatever the limit and
\* however requests end.
THEOREM SlotsCounted == RequestsSpec => []SlotsAreCounted
  BY RequestInvHolds, PTL DEF RequestInv

\* No other load starts while the first load of a file is waiting.
THEOREM FirstLoadsFirst == RequestsSpec => FirstLoadsGoFirst
<1> DEFINE First == \A r \in Loads \ Forced :
               req[r].pc = "queued" /\ req'[r].pc = "start" => \A f \in Forced : req[f].pc # "queued"
<1>1. RequestInv /\ [RequestsNext]_vars => [First]_vars
  <2> SUFFICES ASSUME RequestInv, RequestsNext, NEW l \in Loads \ Forced,
                      req[l].pc = "queued", req'[l].pc = "start",
                      NEW f \in Forced, req[f].pc = "queued"
               PROVE  FALSE
    OBVIOUS
  <2>1. /\ RequestTypeOK /\ QueueInv /\ HandInv
        /\ req \in [Requests -> Request] /\ queue \in Seq(Loads) /\ l \in Requests /\ f \in Requests
    BY DEF RequestInv, RequestTypeOK, Requests
  <2>2. PICK r \in Requests : Submit(r) \/ Send(r) \/ GiveUp(r) \/ Response(r) \/ FailOverAfterError(r) \/ Throw(r)
    BY DEF RequestsNext
  <2>3. ASSUME NEW over, NEW handing, Complete(r, over, handing), l # r
        PROVE  queue # <<>> /\ l = Head(queue)
    <3>1. r \in Loads /\ queue # <<>>
      BY <2>1, <2>3 DEF Complete
    <3>2. l = Head(queue)
      BY <2>1, <2>3, <3>1 DEF Complete
    <3>3. QED
      BY <3>1, <3>2
  <2>4. CASE GiveUp(r) \/ Answered(r) \/ ServerError(r)
    <3>1. l # r
      BY <2>4 DEF GiveUp, Answered, ServerError
    <3>2. queue # <<>> /\ l = Head(queue)
      BY <2>3, <2>4, <3>1 DEF GiveUp, Answered, ServerError
    <3>3. l = queue[1] /\ Len(queue) \in Nat \ {0}
      BY <2>1, <3>2, EmptySeq, HeadTailProperties
    <3>4. PICK i \in Indices : queue[i] = f
      BY <2>1 DEF QueueInv
    <3>5. 1 \in Indices /\ i \in Indices /\ (i = 1 \/ 1 < i)
      BY <3>3 DEF Indices
    <3>6. QED
      BY <2>1, <3>3, <3>4, <3>5 DEF QueueInv
  <2>5. CASE Send(r) \/ Throw(r)
    <3>1. l # r
      BY <2>5 DEF Send, Throw
    <3>2. req'[l] = req[l] \/ (req[r].by = l /\ l # NoRequest)
      BY <2>1, <2>5, <3>1 DEF Send, Throw
    <3>3. QED
      BY <2>1, <3>2 DEF HandInv, Handing
  <2>6. CASE Submit(r) \/ Lost(r) \/ FailOverAfterError(r)
    <3>1. req[r].pc # "queued"
      BY <2>6 DEF Submit, MaySubmit, Lost, FailOverAfterError
    <3>2. req'[l] = req[l]
      BY <2>1, <2>6, <3>1 DEF Submit, Lost, FailOverAfterError
    <3>3. QED
      BY <3>2
  <2>7. QED
    BY <2>2, <2>4, <2>5, <2>6 DEF Response
<1>2. QED
  BY <1>1, RequestInvHolds, PTL DEF RequestsSpec, FirstLoadsGoFirst
-----------------------------------------------------------------------------
(* Failover.  The index goes round the list one place at a time, so what it  *)
(* has passed since a request was first sent follows from where it is and    *)
(* how often it was moved, by this request or by others.                     *)

\* How many moves ago the index was at s for the last time.
Distance(s) == IF s <= index THEN index - s ELSE (index - s) + NumServers

\* The same for a request that is under way: before it is sent to the server at the
\* index, that server counts as the one the index left a whole round ago.
Ago(r, s) == IF s = index /\ req[r].pc # "sent" THEN NumServers ELSE Distance(s)

\* Moves of the index since r was first sent: its own failovers and those of others.
Moves(r) == skipped[r] + (IF req[r].pc = "sent" THEN req[r].retries - 1 ELSE req[r].retries)

\* Where the index has been since then.
Passed(r) == {s \in Servers : Ago(r, s) <= Moves(r)}

\* A request misses at most one server for each move of another one.
TriedOf(r) ==
    IF tried[r] = {}
    THEN req[r].retries = 0 /\ skipped[r] = 0 /\ req[r].pc # "sent"
    ELSE /\ req[r].pc \in {"start", "sent"} /\ req[r].retries > 0
         /\ Cardinality(Passed(r) \ tried[r]) <= skipped[r]

TriedInv == \A r \in Requests : TriedOf(r)

LEMMA ServersFinite == IsFiniteSet(Servers) /\ Cardinality(Servers) = NumServers
  BY FS_Interval DEF Servers

LEMMA NextIndexIs ==
    ASSUME index \in Servers
    PROVE  NextIndex = (IF index = NumServers - 1 THEN 0 ELSE index + 1) /\ NextIndex \in Servers
<1>1. index + 1 \in 1..NumServers /\ NumServers \in Nat \ {0}
  BY DEF Servers
<1>2. CASE index = NumServers - 1
  BY <1>1, <1>2 DEF NextIndex, Servers
<1>3. CASE index # NumServers - 1
  BY <1>1, <1>3 DEF NextIndex, Servers
<1>4. QED
  BY <1>2, <1>3

LEMMA AgoType ==
    ASSUME NEW r \in Requests, NEW s \in Servers, index \in Servers
    PROVE  Ago(r, s) \in 0..NumServers
  BY DEF Ago, Distance, Servers

\* A move of the index makes every server one move older.
LEMMA OwnMoveAges ==
    ASSUME NEW r \in Requests, NEW s \in Servers, index \in Servers, index' = NextIndex,
           req[r].pc = "sent", req'[r].pc # "sent"
    PROVE  Ago(r, s)' = Ago(r, s) + 1
  BY NextIndexIs DEF Ago, Distance, Servers

\* When another request makes it, one server is new: that which the index leaves, or
\* that which it comes to.
NewlyPassed(r) == IF req[r].pc = "sent" THEN NextIndex ELSE index

LEMMA OtherMoveAges ==
    ASSUME NEW r \in Requests, NEW s \in Servers, index \in Servers, index' = NextIndex,
           req'[r].pc = req[r].pc, s # NewlyPassed(r)
    PROVE  Ago(r, s)' = Ago(r, s) + 1
<1>1. NextIndex = (IF index = NumServers - 1 THEN 0 ELSE index + 1) /\ NextIndex \in Servers
  BY NextIndexIs
<1>2. CASE req[r].pc = "sent"
  BY <1>1, <1>2 DEF Ago, Distance, Servers, NewlyPassed
<1>3. CASE req[r].pc # "sent"
  BY <1>1, <1>3 DEF Ago, Distance, Servers, NewlyPassed
<1>4. QED
  BY <1>2, <1>3

LEMMA MissedFinite ==
    ASSUME NEW S \in SUBSET Servers, NEW T \in SUBSET Servers
    PROVE  IsFiniteSet(S \ T) /\ Cardinality(S \ T) \in Nat
  BY ServersFinite, FS_Subset, FS_CardinalityType

\* A request that was tried somewhere has missed at most the others.
LEMMA MissedBound ==
    ASSUME NEW S \in SUBSET Servers, NEW T \in SUBSET Servers, T # {}
    PROVE  Cardinality(S \ T) <= NumServers - 1
<1>1. PICK t \in T : t \in Servers
  OBVIOUS
<1>2. IsFiniteSet(Servers \ {t}) /\ Cardinality(Servers \ {t}) = NumServers - 1
  BY <1>1, ServersFinite, FS_RemoveElement
<1>3. S \ T \subseteq Servers \ {t}
  BY <1>1
<1>4. QED
  BY <1>2, <1>3, FS_Subset

LEMMA InitTriedInv == RequestsInit => TriedInv
<1> SUFFICES ASSUME RequestsInit, NEW r \in Requests
             PROVE  tried[r] = {} /\ req[r].retries = 0 /\ skipped[r] = 0 /\ req[r].pc # "sent"
  BY DEF TriedInv, TriedOf
<1>1. req[r] = Fresh("new") \/ req[r] = Fresh("idle")
  BY DEF RequestsInit
<1>2. QED
  BY <1>1, FreshType DEF RequestsInit

TriedTypes ==
    /\ index \in Servers /\ req \in [Requests -> Request]
    /\ tried \in [Requests -> SUBSET Servers] /\ skipped \in [Requests -> Servers]

LEMMA TypesForTried == RequestInv => TriedTypes
  BY DEF RequestInv, RequestTypeOK, TriedTypes

\* What is known of a request holds on while neither it nor the index changes.
LEMMA TriedSame ==
    ASSUME NEW r \in Requests, TriedOf(r), index' = index, req'[r] = req[r],
           tried'[r] = tried[r], skipped'[r] = skipped[r]
    PROVE  TriedOf(r)'
<1>1. Passed(r)' = Passed(r)
  BY DEF Passed, Ago, Moves, Distance
<1>2. QED
  BY <1>1 DEF TriedOf

LEMMA TriedFresh ==
    ASSUME NEW r \in Requests, req'[r].retries = 0, req'[r].pc # "sent",
           tried'[r] = {}, skipped'[r] = 0
    PROVE  TriedOf(r)'
  BY DEF TriedOf

\* It is sent to the server at the index.
LEMMA TriedSend ==
    ASSUME NEW r \in Requests, TriedTypes, TriedOf(r), req[r].pc = "start",
           index' = index, skipped'[r] = skipped[r], tried'[r] = tried[r] \cup {index},
           req'[r].pc = "sent", req'[r].retries = req[r].retries + 1
    PROVE  TriedOf(r)'
<1>1. /\ index \in Servers /\ tried[r] \in SUBSET Servers /\ skipped[r] \in Servers
      /\ req[r].retries \in Nat
  BY RequestFields DEF TriedTypes
<1>2. Moves(r)' = Moves(r) /\ Moves(r) \in Nat
  BY <1>1 DEF Moves, Servers
<1>3. \A s \in Servers : s # index => Ago(r, s)' = Ago(r, s)
  BY DEF Ago, Distance
<1>4. Passed(r)' \subseteq Passed(r) \cup {index}
  BY <1>2, <1>3 DEF Passed
<1>5. Passed(r)' \ tried'[r] \subseteq Passed(r) \ tried[r]
  BY <1>4
<1>6. Cardinality(Passed(r)' \ tried'[r]) <= skipped[r]
  <2>1. CASE tried[r] = {}
    <3>1. skipped[r] = 0 /\ req[r].retries = 0
      BY <2>1 DEF TriedOf
    <3>2. \A s \in Servers : s # index => Ago(r, s) > 0
      BY <1>1 DEF Ago, Distance, Servers
    <3>3. Moves(r) = 0
      BY <3>1 DEF Moves
    <3>4. Passed(r) \subseteq {index}
      <4>1. \A s \in Servers : Ago(r, s) <= Moves(r) => s = index
        BY <3>2, <3>3, AgoType, <1>1
      <4>2. QED
        BY <4>1 DEF Passed
    <3>5. Passed(r)' \ tried'[r] = {}
      BY <1>4, <3>4
    <3>6. Cardinality(Passed(r)' \ tried'[r]) = 0
      BY <3>5, FS_EmptySet
    <3>7. QED
      BY <3>1, <3>6
  <2>2. CASE tried[r] # {}
    <3>1. Cardinality(Passed(r) \ tried[r]) <= skipped[r]
      BY <2>2 DEF TriedOf
    <3>2. Passed(r) \in SUBSET Servers
      BY DEF Passed
    <3>3. IsFiniteSet(Passed(r) \ tried[r]) /\ Cardinality(Passed(r) \ tried[r]) \in Nat
      BY <1>1, <3>2, MissedFinite
    <3>4. /\ IsFiniteSet(Passed(r)' \ tried'[r])
          /\ Cardinality(Passed(r)' \ tried'[r]) <= Cardinality(Passed(r) \ tried[r])
      BY <1>5, <3>3, FS_Subset
    <3>5. Cardinality(Passed(r)' \ tried'[r]) \in Nat /\ skipped[r] \in Nat
      BY <3>4, <1>1, FS_CardinalityType DEF Servers
    <3>6. QED
      BY <3>1, <3>3, <3>4, <3>5
  <2>3. QED
    BY <2>1, <2>2
<1>7. tried'[r] # {} /\ req'[r].retries > 0
  BY <1>1
<1>8. QED
  BY <1>6, <1>7 DEF TriedOf

\* Its own failover goes on to the next server: nothing is skipped.
LEMMA TriedOwnMove ==
    ASSUME NEW r \in Requests, TriedTypes, TriedOf(r), req[r].pc = "sent",
           index' = NextIndex, skipped'[r] = skipped[r], tried'[r] = tried[r],
           req'[r].pc = "start", req'[r].retries = req[r].retries
    PROVE  TriedOf(r)'
<1>1. index \in Servers /\ skipped[r] \in Int /\ req[r].retries \in Int
  BY RequestFields DEF TriedTypes, Servers
<1>2. Moves(r)' = Moves(r) + 1 /\ Moves(r) \in Int
  BY <1>1 DEF Moves
<1>3. \A s \in Servers : Ago(r, s)' = Ago(r, s) + 1 /\ Ago(r, s) \in Int
  BY <1>1, OwnMoveAges, AgoType
<1>4. \A s \in Servers : Ago(r, s)' <= Moves(r)' <=> Ago(r, s) <= Moves(r)
  BY <1>2, <1>3
<1>5. Passed(r)' = Passed(r)
  BY <1>4 DEF Passed
<1>6. QED
  BY <1>5 DEF TriedOf

\* A failover of another request skips one server for this one.
LEMMA TriedOtherMove ==
    ASSUME NEW r \in Requests, TriedTypes, TriedOf(r), index' = NextIndex, tried'[r] = tried[r],
           skipped'[r] = (IF tried[r] # {} /\ skipped[r] < NumServers - 1
                          THEN skipped[r] + 1 ELSE skipped[r]),
           req'[r].pc = req[r].pc, req'[r].retries = req[r].retries
    PROVE  TriedOf(r)'
<1>1. /\ index \in Servers /\ skipped[r] \in 0..(NumServers - 1) /\ req[r].retries \in Int
      /\ tried[r] \in SUBSET Servers
  BY RequestFields DEF TriedTypes, Servers
<1>2. CASE tried[r] = {}
  BY <1>2 DEF TriedOf
<1>3. CASE tried[r] # {} /\ skipped[r] = NumServers - 1
  <2>1. Passed(r)' \in SUBSET Servers
    BY DEF Passed, Servers
  <2>2. Cardinality(Passed(r)' \ tried[r]) <= NumServers - 1
    BY <1>1, <1>3, <2>1, MissedBound
  <2>3. skipped'[r] = NumServers - 1
    BY <1>1, <1>3
  <2>4. QED
    BY <1>3, <2>2, <2>3 DEF TriedOf
<1>4. CASE tried[r] # {} /\ skipped[r] < NumServers - 1
  <2> DEFINE new == NewlyPassed(r)
  <2>1. Moves(r)' = Moves(r) + 1 /\ Moves(r) \in Int /\ skipped'[r] = skipped[r] + 1
    BY <1>1, <1>4 DEF Moves
  <2>2. \A s \in Servers : s # new => Ago(r, s)' = Ago(r, s) + 1 /\ Ago(r, s) \in Int
    BY <1>1, OtherMoveAges, AgoType
  <2>3. \A s \in Servers : s # new => (Ago(r, s)' <= Moves(r)' <=> Ago(r, s) <= Moves(r))
    BY <2>1, <2>2
  <2>4. Passed(r)' \ tried[r] \subseteq (Passed(r) \ tried[r]) \cup {new}
    BY <2>3 DEF Passed
  <2>5. Passed(r) \in SUBSET Servers
    BY DEF Passed
  <2> DEFINE missed == Passed(r) \ tried[r]
  <2>6. IsFiniteSet(missed) /\ Cardinality(missed) \in Nat /\ Cardinality(missed) <= skipped[r]
    BY <1>1, <1>4, <2>5, MissedFinite DEF TriedOf
  <2> HIDE DEF new
  <2>7. /\ IsFiniteSet(missed \cup {new}) /\ Cardinality(missed \cup {new}) \in Nat
        /\ Cardinality(missed \cup {new}) <= Cardinality(missed) + 1
    <3> HIDE DEF missed
    <3>1. /\ IsFiniteSet(missed \cup {new})
          /\ Cardinality(missed \cup {new}) = IF new \in missed THEN Cardinality(missed) ELSE Cardinality(missed) + 1
      BY <2>6, FS_AddElement
    <3>2. QED
      BY <2>6, <3>1
  <2>8. Cardinality(Passed(r)' \ tried[r]) <= Cardinality(missed \cup {new})
        /\ Cardinality(Passed(r)' \ tried[r]) \in Nat
    BY <2>4, <2>7, FS_Subset, FS_CardinalityType
  <2>9. Cardinality(Passed(r)' \ tried[r]) <= skipped'[r]
    <3> HIDE DEF missed
    <3>1. QED
      BY <1>1, <2>1, <2>6, <2>7, <2>8
  <2>10. QED
    BY <1>4, <2>9 DEF TriedOf
<1>5. QED
  BY <1>1, <1>2, <1>3, <1>4

\* A request ends: it and the one that gets its slot begin anew.
LEMMA TriedComplete ==
    ASSUME RequestInv, TriedInv, NEW r \in Requests,
           NEW over \in {"idle", "erred"}, NEW handing \in {"handing", "handingErr"},
           req[r].pc \in {"start", "sent"}, Complete(r, over, handing)
    PROVE  TriedInv'
<1>1. TriedTypes /\ QueueInv /\ queue \in Seq(Loads)
  BY TypesForTried DEF RequestInv, RequestTypeOK
<1>2. index' = index /\ tried'[r] = {} /\ skipped'[r] = 0
      /\ \A s \in Requests \ {r} : tried'[s] = tried[s] /\ skipped'[s] = skipped[s]
  BY <1>1 DEF Complete, TriedTypes
<1>3. Fresh(over).retries = 0 /\ Fresh(over).pc # "sent" /\ Fresh(handing).retries = 0 /\ Fresh(handing).pc # "sent"
  BY FreshType
<1>4. CASE r \in Loads /\ queue # <<>>
  <2> DEFINE x == [Fresh("start") EXCEPT !.by = r]
  <2>1. PICK h \in Requests : h = Head(queue) /\ req[h].pc = "queued" /\ h # r
    <3>1. Head(queue) = queue[1] /\ 1 \in Indices
      BY <1>1, <1>4, EmptySeq, HeadTailProperties DEF Indices
    <3>2. QED
      BY <1>1, <3>1, InQueue DEF QueueInv
  <2>2. x.retries = 0 /\ x.pc = "start"
    BY DEF Fresh
  <2>3. req' = [req EXCEPT ![r] = Fresh(handing), ![h] = x]
    BY <1>4, <2>1 DEF Complete
  <2> HIDE DEF x
  <2>4. /\ req'[r] = Fresh(handing) /\ req'[h] = x
        /\ \A s \in Requests \ {r, h} : req'[s] = req[s]
    BY <1>1, <2>1, <2>3 DEF TriedTypes
  <2>5. TriedOf(r)'
    BY <1>2, <1>3, <2>4, TriedFresh
  <2>6. TriedOf(h)'
    <3>1. TriedOf(h)
      BY <2>1 DEF TriedInv
    <3>2. tried[h] = {} /\ skipped[h] = 0
      BY <2>1, <3>1 DEF TriedOf
    <3>3. QED
      BY <1>2, <2>1, <2>2, <2>4, <3>2, TriedFresh
  <2>7. \A s \in Requests \ {r, h} : TriedOf(s)'
    BY <1>2, <2>4, TriedSame DEF TriedInv
  <2>8. QED
    BY <2>5, <2>6, <2>7 DEF TriedInv
<1>5. CASE ~(r \in Loads /\ queue # <<>>)
  <2>1. req' = [req EXCEPT ![r] = Fresh(over)]
    BY <1>5 DEF Complete
  <2>2. req'[r] = Fresh(over) /\ \A s \in Requests \ {r} : req'[s] = req[s]
    BY <1>1, <2>1 DEF TriedTypes
  <2>3. TriedOf(r)'
    BY <1>2, <1>3, <2>2, TriedFresh
  <2>4. \A s \in Requests \ {r} : TriedOf(s)'
    BY <1>2, <2>2, TriedSame DEF TriedInv
  <2>5. QED
    BY <2>3, <2>4 DEF TriedInv
<1>6. QED
  BY <1>4, <1>5

LEMMA NextKeepsTried == RequestInv /\ TriedInv /\ [RequestsNext]_vars => TriedInv'
<1> SUFFICES ASSUME RequestInv, TriedInv, [RequestsNext]_vars PROVE TriedInv'
  OBVIOUS
<1>1. TriedTypes /\ HandInv
  BY TypesForTried DEF RequestInv
<1>2. CASE UNCHANGED vars
  BY <1>2, TriedSame DEF vars, TriedInv
<1>3. ASSUME NEW r \in Requests,
             Submit(r) \/ Send(r) \/ GiveUp(r) \/ Response(r) \/ FailOverAfterError(r) \/ Throw(r)
      PROVE  TriedInv'
  <2>1. CASE Submit(r)
    <3>1. req[r].pc \in {"new", "idle", "forgotten"} /\ UNCHANGED <<index, tried, skipped>>
      BY <2>1 DEF Submit, MaySubmit
    <3>2. PICK pc \in {"queued", "start"} : req' = [req EXCEPT ![r] = Fresh(pc)]
      BY <2>1 DEF Submit
    <3>3. req'[r] = Fresh(pc) /\ \A s \in Requests \ {r} : req'[s] = req[s]
      BY <1>1, <3>2 DEF TriedTypes
    <3>4. tried[r] = {} /\ skipped[r] = 0
      BY <3>1 DEF TriedInv, TriedOf
    <3>5. Fresh(pc).retries = 0 /\ Fresh(pc).pc # "sent"
      BY FreshType
    <3>6. TriedOf(r)'
      BY <3>1, <3>3, <3>4, <3>5, TriedFresh
    <3>7. \A s \in Requests \ {r} : TriedOf(s)'
      BY <3>1, <3>3, TriedSame DEF TriedInv
    <3>8. QED
      BY <3>6, <3>7 DEF TriedInv
  <2>2. CASE Send(r)
    <3>1. req[r].pc = "start" /\ UNCHANGED <<index, skipped>>
          /\ tried'[r] = tried[r] \cup {index} /\ \A s \in Requests \ {r} : tried'[s] = tried[s]
      BY <1>1, <2>2 DEF Send, TriedTypes
    <3>2. req'[r].pc = "sent" /\ req'[r].retries = req[r].retries + 1
      BY <2>2 DEF Send
    <3>3. TriedOf(r)'
      BY <1>1, <3>1, <3>2, TriedSend DEF TriedInv
    <3>4. ASSUME NEW s \in Requests \ {r} PROVE TriedOf(s)'
      <4>1. CASE s = req[r].by
        <5>1. s # NoRequest
          BY <4>1
        <5>2. Handing(s)
          BY <1>1, <4>1, <5>1 DEF HandInv
        <5>3. tried[s] = {} /\ skipped[s] = 0
          BY <5>2 DEF TriedInv, TriedOf, Handing
        <5>4. req'[s] = Fresh(Resumed(req[s].pc)) /\ Resumed(req[s].pc) \in {"idle", "erred"}
          BY <2>2, <4>1 DEF Send, Resumed
        <5>5. req'[s].retries = 0 /\ req'[s].pc # "sent"
          BY <5>4, FreshType
        <5>6. QED
          BY <3>1, <5>3, <5>5, TriedFresh
      <4>2. CASE s # req[r].by
        <5>1. req'[s] = req[s]
          BY <2>2, <4>2 DEF Send
        <5>2. QED
          BY <3>1, <5>1, TriedSame DEF TriedInv
      <4>3. QED
        BY <4>1, <4>2
    <3>5. QED
      BY <3>3, <3>4 DEF TriedInv
  <2>3. CASE GiveUp(r) \/ Answered(r) \/ ServerError(r)
    BY <2>3, TriedComplete DEF GiveUp, Answered, ServerError
  <2>4. ASSUME Lost(r) \/ FailOverAfterError(r), NEW s \in Requests \ {r}
        PROVE  TriedOf(s)'
    <3>1. FailOver(r) /\ tried' = tried /\ req'[s] = req[s]
      BY <1>1, <2>4 DEF Lost, FailOverAfterError, TriedTypes
    <3>2. /\ index' = NextIndex
          /\ skipped'[s] = IF tried[s] # {} /\ skipped[s] < NumServers - 1
                           THEN skipped[s] + 1 ELSE skipped[s]
      BY <3>1 DEF FailOver
    <3>3. QED
      BY <1>1, <3>1, <3>2, TriedOtherMove DEF TriedInv
  <2>5. CASE Lost(r)
    <3>1. /\ req[r].pc = "sent" /\ index' = NextIndex /\ skipped'[r] = skipped[r]
          /\ tried' = tried /\ req'[r].pc = "start" /\ req'[r].retries = req[r].retries
      BY <1>1, <2>5 DEF Lost, FailOver, TriedTypes, Request
    <3>2. TriedOf(r)'
      BY <1>1, <3>1, TriedOwnMove DEF TriedInv
    <3>3. QED
      BY <2>4, <2>5, <3>2 DEF TriedInv
  <2>6. CASE FailOverAfterError(r)
    <3>1. /\ req[r].pc = "erred" /\ skipped'[r] = skipped[r] /\ tried' = tried
          /\ req'[r] = Fresh("idle")
      BY <1>1, <2>6 DEF FailOverAfterError, FailOver, TriedTypes
    <3>2. tried[r] = {} /\ skipped[r] = 0
      BY <3>1 DEF TriedInv, TriedOf
    <3>3. Fresh("idle").retries = 0 /\ Fresh("idle").pc # "sent"
      BY FreshType
    <3>4. TriedOf(r)'
      BY <3>1, <3>2, <3>3, TriedFresh
    <3>5. QED
      BY <2>4, <2>6, <3>4 DEF TriedInv
  <2>7. CASE Throw(r)
    <3>1. /\ index' = index /\ tried'[r] = {} /\ skipped'[r] = 0
          /\ \A s \in Requests \ {r} : tried'[s] = tried[s] /\ skipped'[s] = skipped[s]
      BY <1>1, <2>7 DEF Throw, TriedTypes
    <3>2. req'[r] = Fresh(Thrown(r)) /\ Thrown(r) \in {"idle", "forgotten"}
      BY <2>7 DEF Throw, Thrown
    <3>3. req'[r].retries = 0 /\ req'[r].pc # "sent"
      BY <3>2, FreshType
    <3>4. TriedOf(r)'
      BY <3>1, <3>3, TriedFresh
    <3>5. ASSUME NEW s \in Requests \ {r} PROVE TriedOf(s)'
      <4>1. CASE s = req[r].by
        <5>1. s # NoRequest
          BY <4>1
        <5>2. Handing(s)
          BY <1>1, <4>1, <5>1 DEF HandInv
        <5>3. tried[s] = {} /\ skipped[s] = 0
          BY <5>2 DEF TriedInv, TriedOf, Handing
        <5>4. req'[s] = Fresh(Resumed(req[s].pc)) /\ Resumed(req[s].pc) \in {"idle", "erred"}
          BY <2>7, <4>1 DEF Throw, Resumed
        <5>5. req'[s].retries = 0 /\ req'[s].pc # "sent"
          BY <5>4, FreshType
        <5>6. QED
          BY <3>1, <5>3, <5>5, TriedFresh
      <4>2. CASE s # req[r].by
        <5>1. req'[s] = req[s]
          BY <2>7, <4>2 DEF Throw
        <5>2. QED
          BY <3>1, <5>1, TriedSame DEF TriedInv
      <4>3. QED
        BY <4>1, <4>2
    <3>6. QED
      BY <3>4, <3>5 DEF TriedInv
  <2>8. QED
    BY <1>3, <2>1, <2>2, <2>3, <2>5, <2>6, <2>7 DEF Response
<1>4. QED
  BY <1>2, <1>3 DEF RequestsNext

\* A request that has no retries left has seen the index go all the way round.
LEMMA TriedImpliesMisses == RequestInv /\ TriedInv => MissesOnlyWhatOthersSkip
<1> SUFFICES ASSUME RequestInv, TriedInv,
                    NEW r \in Requests, req[r].pc = "start", ~RetriesLeft(r)
             PROVE  Cardinality(Servers \ tried[r]) <= skipped[r]
  BY DEF MissesOnlyWhatOthersSkip
<1>1. TriedTypes
  BY TypesForTried
<1>2. req[r].retries \in Int /\ skipped[r] \in Nat /\ req[r].retries > NumServers /\ index \in Servers
  BY <1>1, RequestFields DEF TriedTypes, RetriesLeft, Servers
<1>3. tried[r] # {} /\ Cardinality(Passed(r) \ tried[r]) <= skipped[r]
  BY <1>2 DEF TriedInv, TriedOf
<1>4. Moves(r) >= NumServers /\ Moves(r) \in Int
  BY <1>2 DEF Moves
<1>5. \A s \in Servers : Ago(r, s) <= Moves(r)
  BY <1>2, <1>4, AgoType
<1>6. Passed(r) = Servers
  BY <1>5 DEF Passed
<1>7. QED
  BY <1>3, <1>6

\* A request that gives up has been to every server of the list, however long, but for
\* one at most for each time another request moved the shared index meanwhile.
THEOREM MissesOthersSkip == RequestsSpec => []MissesOnlyWhatOthersSkip
<1>1. RequestsInit => RequestInv /\ TriedInv
  BY InitRequestInv, InitTriedInv
<1>2. RequestInv /\ TriedInv /\ [RequestsNext]_vars => (RequestInv /\ TriedInv)'
  BY NextKeeps, NextKeepsTried
<1>3. RequestInv /\ TriedInv => MissesOnlyWhatOthersSkip
  BY TriedImpliesMisses
<1>4. QED
  BY <1>1, <1>2, <1>3, PTL DEF RequestsSpec
=============================================================================
