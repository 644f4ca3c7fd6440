# TLA+ verification of qconfig

qconfig is a configuration centre: users edit and publish configuration files in
an **admin**, read-only **servers** cache the published versions, and **clients**
embedded in applications long-poll the servers and keep copies on disk.  This
directory models the parts of it whose correctness depends on interleavings,
stale views, crashes and recovery, checks the models with TLC and proves
their invariants with TLAPS.  Everything here is translated from the source;
`PROJECT.json` maps every definition to the lines it stands for.

    tlc -workers 2 -config MCApplyQueue.cfg MCApplyQueue.tla     # check one run
    tlapm GreyReleaseProofs.tla                                  # check the proofs

## 1. The system

| Part | State | Operations | Talks to |
| --- | --- | --- | --- |
| Edit / review / publish workflow (`ApplyQueueServiceImpl`, `ConfigServiceImpl`, DAOs) | tables `config_candidate`, `config_candidate_snapshot`, `config`, lock rows in `batch_push_task_mapping` | apply, forceApply, approve, reject, cancel, publish, approveAndPublish, oneButtonBatchPublish, delete | database; posts events |
| Grey release (`greyrelease/`, `GreyReleaseServiceImpl`, `GreyReleaseController`, `GreyReleaseRecoverTask`) | tables `batch_push_task_new`, `batch_push_task_mapping`; threads and timers of every admin | create, pause, continue, cancel, push a batch, wait for the delay, finish, recover | workflow (publishes through it), push versions, servers |
| Push versions (`PushConfigVersionServiceImpl`) | table `push_config_version` | update per machine, delete after publish | servers' push cache |
| Events and notification (`EventPostApplyServiceImpl`, `NotifyServiceImpl`) | none | fire-and-forget http calls, after the transaction or (grey release) inside it | servers |
| References and inheritance | table `config_reference` | add, remove, inherit | servers' reference cache |
| Server caches (`config/cache/`) | in-memory maps: published, pushed, fixed versions, references, types | update on notification, periodic refresh from the database | database (read only) |
| Server store (`ConfigStoreImpl`) | content cache on disk | load on demand, store before notify | database, long polling |
| Server long polling (`config/longpolling/`) | listeners per file | check, register, answer on change, time out | caches, clients |
| Client store (`FileStore`, `AbstractDataLoader`) | memory copy, snapshot files, version file, per-file versions | initial load, update, override, purge | server, listeners of the application |
| Client http (`QConfigHttpServerClient`, `LongPoller`) | server list, retry state | check, load, long poll, failover | server |
| Everything else | see section 7 | | |

What is hard about it:

* **pages of any age**: every handler of the workflow takes the version its page
  shows; only compare-and-swap updates and unique keys stop a stale one;
* **several admins**: a grey release is advanced by http requests, push workers,
  timers and recover threads of all admins, each on its own snapshot of the task;
* **crash and recovery**: a task's state is saved before its work is done; a
  scheduled task on every admin restarts what has not moved for a while;
* **partial failure**: releases of several files, batches published in one
  transaction, files dropped from a task while it is created;
* **lost or late notifications** and periodic refreshes that race them
  (servers), **check-then-register** (long polling), and **files written one
  after another** (clients).

What makes each part correct:

* workflow: the history is complete; the published version only grows and is
  the newest that was ever published; no publish overwrites one its editor has
  not seen; a deleted file is out of use; a batch is published all at once;
* grey release: one release per file; batches go in order and are not skipped;
  only a thread that has seen the current state advances the task; finishing is
  all or nothing; finished means finished; a release that is pushing gets on
  although admins crash;
* servers: what is served converges to what is published, versions do not go
  back, content is on disk before anybody is told; a long poll is answered
  exactly once and no change is missed for ever;
* clients: version label and content agree, also after a crash; what the client
  tells the servers it has is in use; the application sees the newest version in
  the end; requests get their turn and are answered.

`PROJECT.json` lists the hazards one by one, each at its line.

## 2. Modules

| Module | Kind | Models |
| --- | --- | --- |
| `ConfigTable` | abstract specification | what servers may rely on: a set of files is published at once with newer versions; only a deletion takes a file out of use |
| `Delivery` | abstract specification, EXTENDS `ConfigTable` | what servers and clients promise: a client learns of later versions, never past the published one |
| `ApplyQueue` | component | the workflow; one action per handler |
| `GreyRelease` | component, EXTENDS `ApplyQueue` | grey releases composed with the workflow they publish through |
| `ServerCache` | component, EXTENDS `ConfigTable` | a server's cache of published versions, its updates and refreshes |
| `LongPolling` | component, EXTENDS `ServerCache` | clients, their long polls at that server, listeners and pushes |
| `PushVersions` | component | the versions machines are given before they are published: table, releases, deletions, a server's cache |
| `ClientStore` | component | one file inside a client: versions, threads, memory, disk, override files, restarts |
| `ClientRequests` | component | the http requests of a client: queue, slots, retries over the list of servers |
| `MCApplyQueue`, `MCGreyRelease`, `MCServerCache`, `MCLongPolling`, `MCPushVersions`, `MCClientStore`, `MCClientRequests` | instances for TLC | sets, symmetry, options |
| `ApplyQueueProofs` | proofs | inductive invariant of the workflow; it implements `ConfigTable` |
| `GreyReleaseProofs` | proofs | the same invariant, the lock discipline and the refinement under grey releases |
| `GreyTasksProofs` | proofs, EXTENDS `GreyReleaseProofs` | one release: batches in order, current views, over is over, finishing publishes all, only the holder publishes |
| `ServerCacheProofs`, `LongPollingProofs` | proofs | types; versions do not go back at the server; listeners are woken, open polls listen; polling implements `Delivery`: clients only move on, and never past the published version |
| `PushVersionsProofs` | proofs | types; grants stay; a publication levels the machines |
| `ClientStoreProofs` | proofs | types; overrides stay in use, labels tell contents, recorded versions are used, the version file is current |
| `ClientRequestsProofs` | proofs | types; slots are counted, exceptions included; first loads go first; a request that gives up missed only what others skipped |

The two halves meet in `ConfigTable`: `ApplyQueue` and `GreyRelease` are shown to
implement it, and the servers are modelled on top of it, so what is shown of
servers and clients holds with either way of publishing.  What comes out at the
clients is stated by `Delivery`, which `LongPolling` is shown to implement: all that
lies in between (threads, refreshes, polls, listeners, pushes, loads) is hidden.  `PushVersions` and
`ClientStore` keep the few variables of it they need (one file, a version, in use
or not) instead of extending it, and each is about one file: files do not share
a row, an entry or a snapshot.

### ApplyQueue

State: `cand` (row of `config_candidate`: edit version, based version, status),
`snap` (`config_candidate_snapshot`: one row per edit version), `conf`
(`config`: version, in use), `mapping` (`batch_push_task_mapping`: who holds the
long-term lock of the file).  File contents, descriptions and templates are
left out: no property is about them.

One handler is one action, because one handler is one database transaction in
which everything that is read without a lock is immutable (snapshot rows are
written once), and everything that is written is guarded by a compare-and-swap
or a unique key whose row lock is kept until the commit.  A handler that throws
is rolled back: it is the action that is not enabled.  Two details are kept
because properties hang on them: `oneButtonBatchPublish` ignores the number of
rows its batch updates change (`OneButtonCandidate`, `OneButtonConfig`), and
`delete` takes no lock.  The page supplies the based version of a one-button
publish; the model takes the one stored with the version the page shows.
`internalBatchSave` is a sequence of one-button publishes in one transaction
(`OneButtonBatchPublish` with several files).

`MaxVersion` is the largest value of the smallint columns (65535); TLC uses a
small one, the proofs any.  An action that would exceed it is not enabled, as
the database rejects the row.

### GreyRelease

State: `status` (the changing columns of `batch_push_task_new`), `taskConfig`
(its fixed part), `worker` (threads: the StatusInfo a thread holds and what it
will do with it), `recover` (the scheduled task of each admin: alive, and the
list it works through), `clock` (age of a lock row in four steps), `offered`
(lock versions at which the page has shown the "continue" button), `prepared`
(batches for which `preparePush` has run), and three counters that bound the
requests, crashes and database errors.

Reading a task and acting on what was read are separate actions: a thread keeps
its StatusInfo in `worker` as long as it likes.  A transaction is one action,
since it starts with the lock rows (an UPDATE or INSERT whose row locks it
keeps).  `BatchCreateCheck` (the checks of the controller) and `BatchCreate`
(the transaction) are apart, so that files may change in between.

| Action | Code |
| --- | --- |
| `BatchCreateCheck`, `BatchCreate` | `batchCreateTask`, `createAndInitTasks`, `dealOneMeta`, first `work` |
| `AcceptNext`, `AcceptPause`, `AcceptCancel` | `accept(command)`: `translate`, `save`, `work`; with `UpdateTask`, `FinishTask`, `CancelTask` for the three kinds of save |
| `Work` | `PublishingReleaseStatus.work`, `preparePush` |
| `PauseTask`, `ContinueTask`, `CancelRequest` | the read and the checks of the controller's handlers |
| `RecoverTick`, `RecoverTask`, `RecoverFails` | `GreyReleaseRecoverTask.run` |
| `WorkerFails` | a save or `preparePush` that throws |
| `AdminCrash`, `AdminRestart`, `TimePasses` | the environment |

Over-approximations, all on the safe side: a delay timer may fire early (only
the order of events is kept), the pushes of a batch may take any time and fail,
an admin may crash at any step.

### ServerCache

State: the table (`version`, `inuse`), `cache` (the map of
`CacheConfigVersionServiceImpl`), `handler` (request threads: the row a thread
has read and where it is in `update`), `refresh` (the refresh thread: what it
loaded, the map it replaced, the entries it has not compared yet), `changes`
(tasks of the onChange executor), `up`, and counters that bound crashes and
database errors.

A request thread reads a row and uses it in later steps, so everything may
happen in between: `NotifyUpdate` (`ConfigStoreImpl.update`) and `ForceLoad`
(`DbConfigInfoService.getVersion`) read it; `CheckVersion` is the look without the
lock, `PutVersion` the look and the write under it, `RemoveVersion` the removal
without it, which may act on a map that was replaced meanwhile.  The refresh
reads the table (`RefreshLoad`, `Start`), merges under the lock
(`RefreshMerge`) and posts changes one by one (`RefreshCompare`).

Notifications have no state: they carry no version and may be lost, repeated
or late, so a request may look at any file at any time.  The contents on disk
are left out: they are keyed by version, never change, and are read from the
database when the disk has none.

### LongPolling

State: `known` and `loads` of the clients (the versions they work with, the
contents on their way), `waiting` (the poll a client waits for), `poll` (the request
thread of a poll, whether it is complete, its answer), `listeners` (the store),
`pushes` (listeners taken from the store and not called yet), and `failures`.

| Action | Code |
| --- | --- |
| `StartPoll`, `RetryPoll`, `TakeAnswer` | `LongPoller.reLoading`, `RetryFuture.request`, `AbstractDataLoader.loadIfUpdated` |
| `FinishLoad`, `LoseRace`, `FailLoad` | `updateFile`, `updateVersion`: a second look at the version, then compareAndSet |
| `FindFile`, `CheckFile`, `EndCheck`, `Register` | `CheckServiceImpl.check`, `processCheckRequests`, `addListener` |
| `TakeListeners`, `ReturnChange`, `FailPush` | `doChange`, `getListenersForMeta`, `directDoChange`, `PushRunnable` |
| `Timeout`, `EarlyTimeout`, `Expire` | the container's timeout, the same under a slow request thread, the store's expiry |
| `Completed` | `AsyncContextHolder.completeRequest`, which answers once |

A cache entry is read twice in a check, once to find the file and once to compare
it, so these are two steps.  Identities of polls are reused once nothing refers
to them.  Two fields are history, and no action looks at them: `at` of a listener
(`Remember`) is the version of the server when it was registered, `dropped` of a poll the
files whose entry expired, or whose push failed, before the poll was answered.

A listener may expire at any time (`Expire`), before or after its poll ends: the
store fixes the lifetime of its entries when the cache of a file is created and counts
from the registration (`LongPollingStoreImpl.java:134`), while the timeout of a poll is
read anew for each poll and starts when its request thread is done
(`LongPollingProcessServiceImpl.java:73`, `:83`).  A poll that nobody listens for any more
waits for its own timeout, and the client polls again.  A file is polled for
itself: references, inheritance, fixed versions and pushes to chosen machines
are left out.  Versions a client keeps survive crashes of the server; crashes
of clients are left to the file store.

### PushVersions

State: the file (`published`, `inuse`, `edit`, `passed`, `release`, `finishing`), the table
`push_config_version` (`row`) with what has been or may be done to it (`prepared`,
`begun`, `deletes`, `selected`), a server (`seen`, `pushed`, `loaded`, `read`), and the history
`early` (versions whose events `finishTask` has posted before its commit).

| Action | Code |
| --- | --- |
| `Edit`, `Publish`, `TakeOutOfUse` | the workflow, whose events follow the commit or are lost |
| `BeginRelease`, `PreparePush`, `CancelRelease` | a grey release; `preparePush` may run for any version that was ever released, as late as it likes |
| `FinishPosts`, `FinishCommits`, `FinishRollsBack` | `finishTask`, whose events come before the commit |
| `DeleteSelect`, `DeleteRow`, `LoseDeletes` | `asyncDelete`: select, then delete what has not been raised since |
| `PushWithIp`, `PushByHand`, `ReadRow`, `PutRow`, `FreshSelect`, `FreshReplace`, `Restart` | the server's cache of the table |
| `Learn` | what `ServerCache` shows of the published version in the cache |

The machines of a release and the moment of its pushes are left open, so this is
what `GreyRelease` leaves abstract in `prepared`.

### ClientStore

State: the file and its override as the environment sees them, the disk
(`snapshots`, `verFile`, and `spoilt`: which of these files were not written, or not to
their end), `entry` and `loaded` (`AbstractDataLoader.VERSIONS` and its future),
`memory`, `purged`, the `FileStore` (`store`, `current` is its label, `data` what the application
uses), the poll thread (`poll`) and the threads that load (`job`; `Loader` is the
first load).  The content of a version never changes, so contents are versions.
`crossed` and `outdated` are history: the label in use was put on the content of
another version; an older version than the recorded one was left in use.

| Action | Code |
| --- | --- |
| `Load`, `Wake`, `AskServer`, `ForceLoad`, `NotFound`, `ForceFails`, `Report` | `load`, `initLoad`, `loadLastVersion`, `setUpdated` |
| `UseOverride`, `LeaveOverride`, `ForgetVersion` | `checkOverride`: with the monitor to use, without to leave |
| `StartPoll`, `TakeAnswer`, `NoChange`, `Purge`, `PollFails` | `reLoading`, `preLoadLocal`, `loadIfUpdated` |
| `LoadFile`, `LoadFails`, `ReadVersion`, `SwapVersion`, `LabelVersion` | `updateFile`, `updateVersion`, `versionChanged` |
| `StoreContent`, `WriteSnapshot` | `storeData`, `atomicWriteFile`, which deletes before it renames |
| `WriteFails`, `RenameFails`, `EndCopy` | `atomicWriteFile` logs an error and returns, or copies where it cannot rename |
| `SetVersion`, `FileFails`, `KeepCurrent`, `ReadFails`, `UseVersion` | `setVersion`, split where the version file is deleted; writing it may fail too |
| `Restart` | the application dies at any step; `findAllFiles` |

The poll thread waits for nothing but the latch of the last answer, which its loads
count down right after their compare-and-set (`AbstractDataLoader.java:185`), and for
twenty seconds at most (`LongPoller.java:62`).  So `StartPoll` has no guard on `job`: any
number of loads may still be labelling, writing or calling listeners when the next
poll is answered.  Servers may answer with any version they once knew (`Answers`), as
each has a cache of its own.  `FailOnNotExists` is a feature of the file.

### ClientRequests

State: `index` (the place in the list of servers, shared by all requests of the
process), `queue` and `count` (`QueueQConfigServerClient`), `req` (the step each request
is at), and the histories `tried` and `skipped` (failovers of others since a request
was first sent) and `lost` (slots that were counted and never given back).  A request
that is done passes its slot on inside its own callback, and the callback goes on only
when the next request has been sent (`Complete`, `Resumed`): this is where an answer of
500 fails over late (`ServerError`, `FailOverAfterError`).  What a server, the network or
the timeout makes of a request is one of `Answered`, `Lost` and `ServerError`.

`Throw` is what becomes of a request when code on its way throws anything but an
`IOException`: out of `submitRequest` it reaches the caller; in
`triggerNextQueuedRequests` and in the callbacks of the http client it is logged, and the
result of the request is never set (`forgotten`).  In either case the slot of a load is
not given back.  With an empty list of servers `select()` divides by zero, so every
`request()` is a `Throw`; the list modelled has at least one server, whose requests may
throw as well.

## 3. Runs

| Run | Instance | Shows |
| --- | --- | --- |
| `apply_queue` | 2 files, 4 versions | all invariants of the workflow, and that it implements `ConfigTable` |
| `grey_crash` | 1 file, 1 task of 2 batches (automatic or bastion), 1 request, 1 crash, 1 database error, fairness | batches in order, only the current view advances, and a batch being pushed gets done, under recovery |
| `grey_two_tasks` | 2 files, 2 tasks with a bastion batch (files, tasks and admins symmetric), 3 versions, 1 request | lock rows follow the task; releases and publishes exclude each other; finish is all or nothing; over is over; implements `ConfigTable` |
| `long_polling` | 1 file, 2 versions, 1 request thread, 1 client, its poll and the retry of it; a crash, a failed refresh, a failed or slow call or a deletion, fairness | the cache does not go back and converges; listeners are woken, open polls listen, with entries that expire before or after their polls; the client catches up; implements `Delivery` |
| `push_versions` | 1 machine, 4 versions, fairness | grants stay, a publication levels, what is handed out converges |
| `client_store` | 2 versions, 2 threads besides the first load, 1 override, 1 crash, 1 failed request or write, fairness | label and content agree but where updates cross, what the client says it has gets used, overrides stay in use, the disk can restart the client, it follows the servers |
| `client_requests` | 3 loads, 1 first load, 1 poll, 2 slots, 2 servers, exceptions, fairness | slots are counted, first loads go first, nobody gives up too early, every request is answered while a slot is left |
| `grey_leak`, `grey_admin_down`, `server_cache_drop`, `long_polling_missed`, `client_override` | as small as shows it | violations, section 6 |

Bounds.  Two files are the least for a batch and for a task of which a file is
dropped; two tasks the least that compete; two admins with a thread each the
least for a worker and a recovered copy of it.  Four versions are enough for
apply, approve, publish and one more step on top; with three, two tasks compete
for a file, one finishes it and the other meets what it left (a third version
is the finished one).  Two batches plus the bastion batch reach all
branches of `next` (bastion, middle, last).  One crash and one error reach
every recovery path; a second crash of the same kind repeats the first, as
recovery keeps nothing in memory.  `CHECK_DEADLOCK FALSE` in the runs of
`GreyRelease`: when all tasks are over, requests are used up and versions are
exhausted the model rightly stops.

Servers: a request thread and the refresh are the least that race, and what a
second thread adds, a thread that is late, the first already is to the refresh;
two versions let a thread be late by one; a version and its removal reach every
branch of `update` and of the merge.  One client and one poll of one file are enough
for the check-then-register race.  A second poll takes part as the retry of the
first: the client has given up, the server has not (`SecondIsRetry`).  Polls for
several files and several polls of a file are covered by the proofs, which have
neither bound nor constraint.  The constraint `OneFault` leaves out behaviours with
two faults: a crash, a failed refresh, a failed or slow call, a file out of use.

Push versions: machines do not meet but in the deletions of one publication, which
treat each row alone, so one machine is enough; four versions let a version be
released, published, edited and released again while deletions of the first
publication are under way.

Client store: `Retain` is 1 in `client_store` and 2 in `client_override` (3 in the code,
`FileStore.java:53`), so that a version that races another is enough to reach `purge`.  Two
threads with two versions are the least that cross.  The constraint `FewFaults` allows
two faults in all (overrides, crashes, failures), and beside a second busy thread no more
than an override.  Whatever it cuts off is a fault, or the choice of the second
thread for an answer another could take: nothing that fairness demands.  The
safety properties are proved without it, but for `CacheRecovers`.

Requests: two slots with three loads and a first load queue requests of both kinds, pass
slots on, and go on when an exception has taken one; two servers are the least to
fail over.  `FewWithChecks` lets one load at a time run beside a poll: a poll meets the
loads only in the shared index, and nobody has to submit a request.

Fairness (`FairSpec`): weak fairness of the steps of running threads
(`WorkerStep`; a thread that runs is scheduled), of the scheduler's tick and its
loop (`scheduleWithFixedDelay`), and of time.  None for users, crashes,
restarts or errors.  Servers and clients (`FairServerSpec`, `FairPollingSpec`):
weak fairness of request threads that have begun, of the refresh
(`scheduleWithFixedDelay`, whose task catches everything), of the executors that
hand out changes, of the container's timeout and the store's expiry, of the next
poll of a client and of its loads, and of the restart of a server.  None for
notifications, publishes, failures or crashes; each failure is bounded, as no
client catches up with a server that always fails.

`FairStoreSpec`: weak fairness of the poll thread (it schedules itself again
whatever happens), of the threads that load and write and of the first load; strong fairness
of `UseOverride` and `LeaveOverride`, since each round of the poll thread looks for
overrides sooner or later, and of an answer with the row of the table, since
servers catch up (`CacheConverges`).  `FairRequestsSpec`: threads go on, and every
request has a timeout (`HttpClientHolder`).  `FairPushSpec`: the refresh of the push
cache, and `Learn`, again what `CacheConverges` says.

The properties and what each relates are described in the modules, above each
definition.  Every one of them is violated by some plausible bug in the code:
the `mutants` in `PROJECT.json` name one each (a dropped guard, an
off-by-one, a forgotten WHERE condition, a returned-too-early loop).

## 4. Proofs

`ApplyQueueProofs` proves, for every set of files and every `MaxVersion > 0`:
type correctness, `SnapshotsAreHistory`, `ConfigIsLatestPublish`,
`EditsAreBasedOnPublished`, `DeletedIsNotInUse`, and that the workflow
implements `ConfigTable`.

None of these is inductive alone; `ApplyInv` is their conjunction with
`UnpublishedIsNotInUse`.  The argument: the snapshots are the history, so an
update that passes the compare-and-swap was made from the current version
(`SavesFromCurrent`); a one-button publish, which does not look at its update
counts, passes the unique key of the snapshots only if its page is current
(`OneButtonFromCurrent`); the base of the current version is the published one
(`BaseOfCurrent`), hence what is published next is newer than everything
published before.  Three handlers publish; each is shown to be a `PublishesOnly`
step, and one lemma (`PublishKeepsInv`) shows that publishing any set of files
keeps `ApplyInv`.

`GreyReleaseProofs` proves, for any sets of files, tasks, admins and threads, any
number of batches and any bounds on requests, crashes and errors: type
correctness, `LocksFollowTask`, `ConfigIsLatestPublish`, `SnapshotsAreHistory`, and
that workflow and grey releases together implement `ConfigTable`.  The inductive
invariant `GreyInv` is `ApplyInv`, the types, and `Follows(t)` for every task:
`LocksFollowTask` of it, and no lock row before the task is created.  The argument:
in a task without leaked rows all rows carry the lock_version of the task, so
the compare-and-swap of `updateTask` hits all of them or none
(`UpdateTaskFollows`); finishing and cancelling delete the rows of all files
(`FinishTaskFollows`, `CancelTaskFollows`); a new task inserts rows only where
there is none (`BatchCreateFollows`); and a step that is about another task cannot
touch them (`Untouched`).  Finishing is a `PublishesOnly` step
(`FinishIsPublish`), so `PublishKeepsInv` and `PublishIsTableStep` of the workflow
apply to it unchanged.

`ServerCacheProofs` proves for any files, threads and bounds that the memory of the
server is well typed and that no entry goes back (`VersionsDontGoBack`).  The second
follows from the types and one lemma about steps (`EntryOnlyGrows`): an entry is
written by the put, whose second look is under the lock, by the merge, which
keeps the newer of the two, or is removed.

`LongPollingProofs` proves types and `WaitersAreWoken` for any
number of files, clients, polls and threads.  `WaitersAreWoken` is inductive together
with the types and `DownRests` (a server that is down refreshes nothing).  The
argument: a step that raises a version either posts a change (the put) or leaves
the old version in the map the refresh is comparing (the merge), so a wake-up is
pending; a wake-up is used up only by the step that takes all listeners of the
file (`HandlerWakes`, `RefreshWakes`, `OthersWake`); and when the entry is removed the
listener is released from the promise.

That polling implements `Delivery` rests on one more invariant: whatever anybody has in
hand was published.  `FromTable` says so of the server (entries, rows that threads have
read, what the refresh has loaded, changes that are posted), `FromServer` of pushes,
answers and loads.  It is inductive because versions of the table only grow
(`VersionsGrow`), so what was not ahead once never is, however late it is used; a crash
forgets and adds nothing.  Then a step that changes what a client works with is a
`Deliver` (`LoadingDelivers`: the content is not ahead of the table, and `needUpdate` has
just compared it), and every other step is one of the table or changes nothing
`Delivery` knows of (`StepIsDelivery`).

`OpenPollsListen` is proved there too: whichever entries expire and whichever calls fail,
an open poll is reached for every file its check has left unanswered and that was not
dropped itself.  The part of it that is inductive (`OwedAreReached`) says so of polls
that are still registering as well.  A failed call drops the rest of its polls for its own
file only (`DroppingKeeps`), taking the listeners of a file puts their polls into the push
(`PushesReach`), and whatever is lost is marked as dropped (`LossesReach`).

`GreyTasksProofs` proves the other safety properties of grey releases, for the same
constants.  `GreyInv` says nothing of what threads hold, so `TasksInv` adds it:

* `Rows`: the lock rows of a task carry one lock_version, leaked or not, so every
  save moves all of them or none (`SaveRows`, `FinishRows`, `CancelRows`);
* `Seen`: a StatusInfo in the hands of a thread or in the list of a recover task
  is behind the task, or is the task as it is.  This is what makes the compare-and-swap
  of lock rows an optimistic lock of `batch_push_task_new` (`CurrentView`);
* `Pushed`: a thread that holds a StatusInfo has all batches before it pushed, and no
  batch after the next one is, as a push presupposes a view that is current or old;
* `Finished`: what a finished task has published stays published.

`StepKinds` reduces the actions to the five kinds that touch tasks or lock rows;
each part of the invariant is shown for these.  From it follow `BatchesInOrder`,
`FinishPublishesAll`, `OverIsOver`, `OnlyCurrentViewAdvances` and `OnlyHolderPublishes`: a
version changes where there is no lock row, or in the step that finishes the task,
which must then be under way.

`PushVersionsProofs` proves types, `GrantsKept` and `PublishLevels` for any machines and
versions.  `PushInv` adds that versions are pushed after they were edited and that
only rows of versions published over are being deleted (`DeletesAreOld`): a row that was
raised since it was selected survives, as the deletion names the version.

`ClientStoreProofs` proves types, `OverrideInUse`, `UpdateNotLost`, `LabelTellsContent` and
`VersionFileIsCurrent` for any number of threads, versions, overrides, crashes and
failures, and any servers and disks.

* `OverrideInUse` rests on the monitor of the `FileStore` (`LockInv`): who holds it has
  found a label that is not an override.
* `UpdateNotLost` says that the version the client tells the servers it has is in use or
  on its way.  The inductive part is `KeptInv`: when what is in use, or what a thread is
  about to put to use, is older than recorded (`Behind`), then some thread has not labelled
  its content yet, or holds the recorded label (`Brings`), or the version is about to be
  forgotten, or `outdated` says how it was lost.  A thread that swaps its version in
  becomes the one that brings it; another that relabels takes what is recorded, whoever
  recorded it, so losing the race for the label loses nothing.
* `LabelTellsContent` says that the label is the version of the data unless two updates
  crossed, and that the data is the older one then.  `LabelInv` adds what an actor
  holds (`JobLabelled`): the first load labels what it brings; a thread labels it with
  what is recorded, which is as new or newer while nobody has taken an override away
  (`NoOverrideYet`).
* `VersionFileIsCurrent`: whenever nobody is between the version file and the memory
  copy, the file names the version in use or could not be written (`NamesInv`).

`ClientRequestsProofs` proves types, `SlotsAreCounted` and `FirstLoadsGoFirst` for any
requests, limit and number of servers, and any exceptions.  The queue holds each waiting load once, first
loads in front (`QueueInv`), and a request sent inside the callback of another one is
the only one of that callback (`HandInv`), so the slot is passed on, not doubled.  A load
that throws leaves `Running` and counts in `lost` (`ThrowKeeps`).
`MissesOnlyWhatOthersSkip` is about the shared index, which runs round a ring of any
size.  A server is located by how many moves ago the index was at it (`Distance`, `Ago`).
`TriedInv` relates the two histories: of the servers the index has passed since a request
was first sent, the request has tried all but one at most for each move of another
request; when it gives up, the index has passed them all.

The proofs assume `ApplyQueueAssumption` (there is a version; "no holder" is not
a task), `GreyAssumption` for grey releases, `ServerAssumption` and `PollingAssumption`
(bounds are numbers, "no file" and "no poll" are neither) for servers and clients,
`PushAssumption`, `StoreAssumption` and `RequestsAssumption` (bounds are numbers, sets of threads and
requests are finite, names are different) for the others; TLC evaluates them all.

Only model-checked: liveness, which is out of the prover's reach
(`PushingTaskGetsOn`, `CacheConverges`, `ClientsCatchUp`, `LoadsConverge`, `ClientFollows`,
`EveryRequestIsAnswered`), and the second half of `CacheRecovers` (the snapshot of the
version in use is there; the first half is `VersionFileIsCurrent`).  Every other safety
invariant and action property of the passing runs is proved.

## 5. Hazards and properties

`PROJECT.json` lists under `hazards` what a test would hardly reach, at the line
where it bites, with the properties that would catch it.  A hazard without
a property has a note that says why; there are three: two profiles of one file in
one task (files of a task have different ids in the model), the reference cache and
fixed versions (section 7).

`BatchesInOrder` leaves out cancelled tasks: a push worker that is late writes
the push versions of its batch after the cancellation, because nothing is
compared before `preparePush`.

## 6. Findings

Five runs show the code doing what a comment, a message or a document of the
repository says it does not.

* `grey_leak`: a file that changes between check and creation of a release is
  dropped from the task, but its lock row was inserted and is never deleted
  (`GreyReleaseServiceImpl.dealOneMeta`).  `updateTask` looks only at lock rows, so
  with such a row a pause that read the task before it finished may set the
  finished task to WAIT_PUBLISH; `OverIsOver` is stated of tasks without leaked rows.
* `grey_admin_down`: the recover thread of an admin dies the first time there is
  nothing to look at (`SQLUtil.generateStubs(0)` throws), so after some quiet
  time no admin recovers anything; `doc/code.md` says losing one admin has no
  effect.
* `server_cache_drop`: a file published for the first time while a refresh is
  between its query and its lock is cached and dropped again; clients are
  told there is no such file until the next refresh.
* `long_polling_missed`: a version handed out between the check of a poll and the
  registration of its listeners is missed; the client learns of it when the poll
  times out (`ClientsCatchUp` holds).
* `client_override`: a file that is loaded while it has a local override never gets an
  entry in `VERSIONS`.  When the override is removed, every answer of a server is
  dropped, although the comment at `FileStore.java:346` waits for the remote file to
  come back; the content of the deleted override stays in use.

Other properties are narrower than one would like, because the code promises
no more.  In the admin: `cancelTask` overwrites the number of finished batches with what the
request had read, so `OnlyCurrentViewAdvances` leaves out cancellation; an automatic
task is recovered only in a window after its delay, which a tick every five minutes
may miss, so `PushingTaskGetsOn` is about tasks advanced by hand; and `finishTask` posts
its events before it commits, so `GrantsKept` leaves out what a finish that rolls back
has told (`early`).

In the client updates may cross: a load that has swapped its version in counts the latch
down (`AbstractDataLoader.java:185`) before it reads `updated` again (`:194`); if the load of
the next poll swaps in between, the first one puts the newer label on its older
content, and the second finds nothing left to do.  Nothing need be slow for that.
`LabelTellsContent` says so with `crossed` and that nothing else mislabels.  An update
is lost in the two ways `outdated` records: a first load that was answered with an
older version than the recorded one, or that reports a version after an override has
made the client forget its own; and a snapshot that cannot be read.  Errors of
writing are logged and forgotten (`FileSystem.java:20`, `:36`), while the memory copy has the
version, so that nobody writes it again (`FileStore.java:494`): `CacheRecovers` excepts
such files (`spoilt`).  A server that lags at the start makes the client purge the files it
could start from.  With `isFailOnNotExists` off a first load that fails late empties the
configuration (`FileStore.java:158`, `:175`).  `atomicWriteFile` deletes before it renames
(`FileSystem.java:20-25`), so a crash in between loses the version file or a snapshot; and when
the first load then fails too nothing retries it, although the log says so
(`FileStore.java:165`).

A request tries one server more than there are, but other requests
move the shared index, so it may miss as many servers as they skip; and an answer of
500 to a load is not retried.  Slots that exceptions take are not given back: the count
includes them (`SlotsAreCounted`), and when the last has gone the loads that wait are
never sent, which `EveryRequestIsAnswered` has to except.  `ClientStore` has no step for a
request whose result is never set: its loads are answered or fail.

At the server a listener may expire before its poll, which then hears of nothing until
it times out; `ClientsCatchUp` holds because the client polls again.

## 7. Not modelled

Content of files, templates, validation, diffs; permissions and REST access;
user interface; mail, logs and statistics; encryption; Spring and servlet
plumbing; service discovery.  They are state-free or concern data the properties do
not tell apart.

References, inheritance and the server's caches of them: they decide which file a
request is about, in tables of their own.  Fixed versions and pushes to chosen
clients (`manualPush`): clients of `LongPolling` are never locked to a version.  The
rate limiter of the server.

The JavaScript of the repository (jquery and dataTables under the web applications of
`demo` and `server`, the bundles of the pages of `admin`) is third-party or generated
code: it holds none of the protocols above, and no definition is mapped to it.  The
program itself is the Java code, and all of the map is about that.

Isolation anomalies of the database inside one transaction (`validate` reads with a
snapshot that may be older than the row locks, `GreyReleaseServiceImpl.java:232`; the
writes that follow are guarded by unique keys and compare-and-swap), two profiles of one
file in one task, and the deletion of a file for good are left out and noted at the
hazards where they bite.

## 8. Plan

Done: every module of section 2 with its proofs.

Left, in this order:

1. Fixed versions in `LongPolling` (clients that are locked to a version and no longer
   listen) and `ReferenceCache`: references and inheritance against the refresh.
2. End-to-end composition: a version published by the workflow or a grey release
   reaches every listening client, through the disk of the client.
3. The rate limiter of the server's loads.
4. Proofs: the refinements of `ConfigTable` and `Delivery` joined into one statement (what
   a client works with is a version the workflow has approved), once 2 is there.
