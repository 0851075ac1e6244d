# A verification development for backend-rebase

The repository is a set of independent backend exercises in TypeScript. This
directory holds TLA+ models of the ones that carry real protocol or algorithm,
the TLC runs that check them on small instances, and TLAPS proofs of what
matters most for every size. `PROJECT.json` maps every definition to the lines
it models and lists the runs, the mutants, the hazards and the theorems.

    tlc -workers 2 -config <Run>.cfg <MCModule>.tla      # one run
    tlapm <Module>_proofs.tla                            # one module's proofs

## 1. The system and its parts

| Part | State it keeps | Operations | Hard behaviour | What makes it correct |
|---|---|---|---|---|
| 04 blob service (`blobs.service.ts`, `blobs.controller.ts`, `envelope.ts`) | files on disk, `.tmp`, `usageBytes`, `blobCount` | POST, GET, DELETE, warm-up | requests interleave at every `await`; a crash at any of them; a file system call that fails half way | totals equal the disk, limits bind, a write happens at one instant or not at all, every request ends |
| 04 request log (`logging.interceptor.ts`) | `logged` of one response | 'finish', 'close' | either event alone, or both | one line per request, "completed" only for a response sent to its end |
| 04 auto-registration (`autoRegistration.ts`, `main.ts`) | attempt, deadline | announce, retry, give up | timeouts, late answers | ends; agrees with the registry on the id |
| 06 registry and window (`nodeRegistry.ts`, `registrationWindow.ts`, `nodes/`) | `Map` destination -> record | register, list | duplicate and late attempts, restart | unique ids, nothing registered once routing starts |
| 06 routing (`blobs/`) | none | pick a node | writes executed after their connection broke | a blob's next request goes to the node that has it |
| 05 proxy, 06 forwarding (`proxy.ts`, `forward`) | one response, one connection to the origin, two pipelines | answer itself, pipe the upload, relay head, chunks and end | either side fails or leaves at any point; two pipelines and an 'error' listener act on one response | one answer, never a cut one that looks whole; everything ends |
| 08 increments API (`page-views/`) | `page_view_raw`, `page_view_hourly` | single INSERT, multi upsert | an INSERT's stamp is older than its visibility | every view counted once |
| 08 cleaner (`cleaner/`) | cutoff, `stopped` | aggregate, delete in batches, sleep, SIGTERM | no transaction across statements, lost acknowledgements, kills, clock skew | no view lost; none counted twice but for a cycle that ended early |
| 08 migrations (`db/migrate.ts`, called by both `main`s) | advisory lock, sessions | lock, run files, unlock | two migrators; sessions that outlive their killed process | one at a time, nobody past it before the schema is complete, the lock comes free |
| 08 report (`report/`) | none | query | window edges, midnight, order before `take` | the last 24 round hours, each once with its views |
| 03 prime count (`chunk.ts`, `pool.ts`, `worker.ts`) | queue, total, live workers | cut, assign, count, exit | byte offsets that fall inside lines; any order of messages and exits | the count of the whole file; the promise settles |
| 02 hash map (`MyHashMap.ts`) | chains, entry count | put, get, remove, resize | long operation sequences across a resize and at the limit | answers as a bounded map does; short chains |
| 01 dedup (`partition.ts`, `dedup.ts`, `index.ts`) | bucket files, seen set | partition, split, read, write | recursive splits under another seed, buckets no seed parts | each distinct line once, bounded memory, an end |

The parts interact in two places. A blob server (04) announces itself to the load
balancer (06) over HTTP, and the load balancer forwards blob requests to it:
`LoadBalancer` composes both, with the node's storage as the atomic store that
`BlobsService` is shown to implement, and takes a forwarded request in few steps;
`Forwarding` takes one request chunk by chunk, through the forwarder, with its
client on one side and the origin, a node of 04 that logs its request, on the
other. The API, the cleaner and the migrations of both (08) share one Postgres
database: `PageViews` has the first two, and `Analytics` composes `PageViews`,
`Migrations` and `Report`. All other exercises run alone. The proxy (05) is in
`Forwarding` because its handler and `forward` of 06 are the same code but for
what they answer themselves and for the upload.

## 2. The modules

### BlobsService, BlobStore (04)

`BlobsService` has one action per stretch of code between two awaits: `PutAccess`,
`PutStat`, then `Reserve` or `Reject` (the synchronous check-and-reserve,
lines 98-125), `MkdirTmp`, `OpenTemp`, `Stream`, `MkdirShard`, `Rename`, and for
failures `RmTemp` and `Rollback`; `GetAccess`, `GetOpen` (headers) and
`GetPayload` (the second open); `DelAccess`, `DelStat`, `DelRm`, `DelAccount`.
`pc[c]` is the await a connection's handler is suspended at; `existed[c]`,
`oldSize[c]` are the local variables it carries across awaits. `Accept` makes
the checks that precede the first await, `Reply` sends the answer. `Crash`
drops the memory and keeps the disk; `WipeTmp` and `WarmUp` are
`onModuleInit`. Each entry of `Faults` lets one file system call or stream fail.

Not every failure is answered. `pipeline` destroys the streams of a transfer that
fails: the response of a GET (`blobs.controller.ts:63`), so that no 500 can follow
whatever part of the blob was sent, and the request of a POST whose file cannot be
written (`blobs.service.ts:206`), with its socket unless the body had been read to its
end. `Cut` stands for the connection that is cut while the process lives on:
`GetPayload` always ends in it when the second open or a read fails, `StreamFails` may,
and `RespondFailure` sends the 500 of the exception filter only where there is a
connection left; the handler goes on to its `rm` and rollback all the same.

An envelope is a model value with a header length and a payload length; a
partly written file is the value `Partial`. `None` is the missing file. Header
syntax, JSON, shard folders and logging are left out: nothing depends on them.

`BlobStore` is what clients are promised: a map from ids to envelopes, each call
acting on it in one instant between request and answer, error answers and cut
connections leaving no trace. `StoreSpec` is the refinement: a POST takes effect at
its rename, a DELETE at its rm, a GET when it opens the payload.

`BlobsQuota` adds what has gone wrong since the process was started. An upload that
throws between its reservation and its rollback (mkdir of `.tmp` at line 127, outside the
`try`; `rm` of the temp file at line 147, inside the `catch`) keeps its reservation
until a restart counts the disk anew, and in the second case its temp file too:
`keptUploads`, `keptBytes` and `keptBlobs` say how much that is, and `TotalsAccounted` and
`TempFilesOwned` that nothing else is off. `unfailed` says that no upload has failed
and nothing has crashed. `KeptSpec` has the first three and no further assumption,
`QuotaSpec` all four and one writer per id.

Two assumptions appear as specifications of their own. `DistinctIdsSpec` allows
one writer per id at a time (the comment at `blobs.service.ts:98` speaks of "a
*different* id"); `ExclusiveSpec` moreover keeps readers away from an id being
written. What goes wrong without them is in the violation runs.

### PageViews, FailingCycles, ViewCounter (08)

Every SQL statement is one step, as Postgres makes it; an INSERT is two, because
`clock_timestamp()` is read before the row becomes visible. `UpsertMulti` is one
statement, which fails when two hour keys of its payload name one hour. The
cleaner is `Start`, `Aggregate`, `DeleteBatch` (any `BatchSize` of the rows due),
`Wake`, with `EndCycle` for the stop test after each cycle; its cutoff is taken
from a clock up to `MaxSkew` off the database's. Failures of a statement before
and after it committed, SIGTERM in any state and a kill at any moment (`crash`)
are in `Events`.

`FailingCycles` counts the cycles that ended early and left rows due (`abandoned`): by a
statement that failed or whose acknowledgement was lost (the `catch` of `main.ts:46`) or
by a kill. `ViewCounter` is what is promised of the numbers: recording a request adds
its delta, once; nothing else changes what will be reported, but for `Fail`, a cycle
that ends early, which may count each view not settled yet once more. `totalBar` is
what the reports will show once the rows still to be aggregated have been:
`page_view_hourly` plus the visible rows that the current cycle has not counted yet. A
view is settled when its row is deleted. With no cycle abandoned that is an exact counter.

### Migrations, Report, Analytics (08)

`Migrations` follows a session, not a process, because the first outlives the
second: `Boot` connects and asks for the advisory lock, `Grant` is the server
handing it out, `RunFile` and `CommitFile` are the two halves of
`CREATE ... IF NOT EXISTS` (look, then create: a table that appeared in between is
a duplicate key), `Unlock` is the two `finally` blocks with the success or the exit
that follows. `Kill` leaves the session where it is, alive only on the server;
`Reap` is the server noticing.

`Report` is the SQL query as an operator: the window of `generate_series`, the
zero-fill of the LEFT JOIN, the order, then the limit.

`Analytics` conjoins them: nobody serves or cleans before its migrations are
through (`bootstrap`, `main`); `KillCleaner` may leave the statement that was running
in `orphans`, from where `FinishOrphan` completes it in the database beside the next
cleaner. Two history variables count: how often a row was aggregated, and how many
cycles ended with rows left.

### PrimePool (03)

A file is its size, the positions of its newlines and the number on each line.
`computeChunkBoundaries` is `chunk.ts` on byte offsets. `runPool` starts and feeds
every worker before any event is handled, `OnMessage` adds a count and assigns
the next range or terminates, `OnExit` resolves on the last exit, `FailRange` is a
stream error, which rejects the promise. A worker that is handed part of a line
counts some other number there: `countPrimesInRange` yields every count
possible, so a wrong cut shows in the result.

### LoadBalancer (04 + 06)

`Attempt`, `ReceiveReply` and `AttemptFails` are the loop of `registerWithMaster`;
the network keeps attempts in `inbox`, so one that timed out at the node may be
handled later, before or after its retry. `HandleRegistration` is the controller
with `register` and `upsert`; `issued` are the random ids handed out, in any
order. `CloseWindow` is the passing of the registration time. `Send` routes with
`pickNode`; `NodeExecutes`, `Relay`, `UpstreamFails` are the forwarded request, and
`late` keeps the writes whose connection broke while the node had them. Each
blob has one client that sends one request at a time; `known` is what that client
has been told. The `name` of a record and header stripping are left out.

### Forwarding (05, 06 forward, 04 logging)

One request. `AnswerItself` are the answers a forwarder gives without an origin (405,
400, 502; 503 of `handle`); `Forward` opens the connection. `PipeUpload`, `EndUpload`
and `AbortUpload` are the pipeline from the client, `TakeHead` the response callback,
`TakeChunk`, `TakeEnd`, `TakeStop` and `NoticeLeft` the pipeline back, with its catch that
destroys the response, and `onError` the 'error' listener, which both a broken
connection and a destroyed request reach. The client reads (`Receive`,
`ReceiveEnd`), notices a cut (`SeeCut`) or leaves. The origin answers with a body framed
by a length, by chunks or by closing, before or after it has the upload, and may
close early (`Stop`). `OnFinish` and `OnClose` are the two listeners of 04's
`RequestLoggingInterceptor`, with the `logged` flag in `finish`.

### HashMap, BoundedMap (02)

The bucket array is a function from positions to sets of entries. `Update`, `Insert`
and `Refuse` are the three outcomes of `put`, `Insert` with the resize it may cause;
`index` reduces the injected hash to 32 unsigned bits and to a position. A chain
is a set: its order would show only if a key had two entries, and the model takes
either then. `BoundedMap` is what callers are promised, and `MapSpec` the
refinement, with the map read off the chains.

### Dedup, UniqueLines (01)

A file is a bag of lines, a line a model value with a length and one hash per
seed. `PartitionInput` is the first partition of `run`; the recursion of `dedupBucket`
is a stack of directories; `SplitBucket` partitions again under the next seed and
unlinks, `OpenBucket`, `ReadLine`, `CloseBucket` read a bucket against its `seen` set,
`LeaveDirectory` returns from a level. `FailIo` is any failing file operation, which
ends the process. `computeBucketCount` and `nextPrime` are the source's. `UniqueLines` is
the promise: lines of the input, none twice, all of them at the end.

## 3. What the runs check

| Run | Bounds | Shows |
|---|---|---|
| `BlobsTotals` | 3 writers, 3 ids, sizes 1 and 3, quota 5, limit 2; uploads that fail, fail before their first file (`mkdirTmp`) or fail to clean up (`rmTemp`, one per start), a failing delete, crashes | totals exact but for what a failed cleanup keeps, both limits bind, no temp file leaks otherwise |
| `BlobsStore` | 2 connections, 2 ids, gets included, an invalid and an oversized envelope, 9 kinds of faults | the service implements the atomic store; every request ends in an answer or a cut connection |
| `PageViewsCycles` | 2 views in batches of 1, 2 multi payloads, grace 3, latency 1, skew 1, SIGTERM, a kill at any point, replacement, every statement failing before or after it committed, 2 cycles abandoned | the counter, over-counting bounded by the abandoned cycles; no late row; every view counted and deleted; SIGTERM ends the cleaner |
| `Analytics` | 2 views, 1 payload, 2 sessions, failing and killed processes, every fault of a statement, 1 cycle spoiled; a window of 3 hours | migrated once at a time and before anything else; the lock comes free; each number in `page_view_hourly` explained; reports right |
| `PrimePool` | every file up to 7 bytes over three numbers, 3 workers, 6 chunks | whole lines, the count, no worker let go early, the promise settles |
| `BalancerRegistration` | 3 nodes, 2 attempts each, one payload refused, crashes and restarts | ids unique; every registration ends |
| `BalancerForwarding` | 3 nodes, 2 on one destination, one of them retrying; a blob on the second node | nodes and registry agree on ids and refusals; routing frozen; a blob is found where its client is sent |
| `Forwarding` | uploads and answers of up to 3 chunks, a buffer of 2, three framings, a client that leaves, a connection that breaks, an origin that stops | no cut transfer looks whole; what is sent stands; one log line; everything comes to rest |
| `HashMap` | 5 colliding keys, 2 buckets growing to 8, a limit of 4, hashes below 0 and above 2^32 | entries findable, chains short, a bounded map |
| `Dedup` | every file of up to 2 copies of each of 4 lines, two of which no seed parts; 2 or 3 buckets per split, 3 levels | copies stay together, memory bounded, each line once, an end |

Why the bounds are enough. The hazards of the blob service are between two
handlers at two awaits, or three when a third profits from a wrong total;
sizes 1 and 3 make overwrites shrink, grow and meet the quota, and a limit of two
blobs with three ids is reached. One kept reservation is enough to keep
the others out at both limits. A stream that fails leads to the same catch block as a failing
`mkdir` of the shard folder or `rename`, which are left to `BlobsStore`. For page views two
rows with batches of one give more than one batch, a batch that is deleted while the
other fails, and a row on either side of the cutoff; two multi payloads, one of them
self-colliding. Two abandoned cycles let the same row be counted three times, and let a
replacement fail as well. Files of 7 bytes with 6 chunks have cut
points inside lines, on newlines and several on one place, and fewer ranges than
workers when they are short.
Three nodes, two of which share a destination, and two attempts give a late
attempt, its retry and a competitor for the same key.
In `Analytics` two sessions are the most that matter at once (one that holds the
lock, one that waits or is left over), with one spoiled cycle its rows are aggregated
again, and times at both ends of the window make each bucket enter and leave it.
Three chunks over a buffer of two make the source wait for the client. Five keys
reach the limit of four, two resizes, and every kind of collision: parted by
the last resize, or never. In `Dedup` a bucket of the two inseparable lines stays over
the limit to the last level, and three lines part only after the first.

Bounds that are not in the code: `Horizon` (views stop early enough to be
aggregated), `MaxAttempts` (the attempts that fit in `retryForMs`), `MaxId`,
`MaxSize`, `MaxKept` (uploads per start that keep their reservation), `MaxAbandoned` (cycles that
leave rows due), `Sessions` (open at once), `MaxSpoiled` (cycles that fail or are killed;
`CountsExplained` counts them), `MaxChunks`, `BufferSize`, `MaxCopies`, `MaxBlank`. In
`Analytics` the API is killed only while it migrates: once up it has no state to
lose, and what it has sent to the database completes (`InsertCommit` needs no API).
`HoursInWindow` and `HoursPerDay` are 3 there instead of 24, which keeps what the
code relies on, that a window holds no hour of the day twice.
`BlobsTotals`
treats connections and ids as interchangeable (symmetry, safety only).
`CHECK_DEADLOCK FALSE` is set where the system may really stop: the load balancer
when all nodes have settled and no client has to send, a settled `PrimePool`, a finished
request in `Forwarding` and a finished `Dedup`, and `Analytics` at its horizon, with the
spoiled cycles used up.

### Where the code and its documentation part

| Run | What happens | What is said |
|---|---|---|
| `BlobsSameIdTotals` | two overlapping writes of one id leave the totals wrong | `04/README.md:15` |
| `BlobsTornGet` | headers of one envelope, payload of another | `blobs.service.ts:133`: the envelope is committed atomically |

More follows from single lines, or from a few steps, and has no run of its own:
- A growing overwrite is answered 507 at the quota (`blobs.service.ts:114`), although
  `04/README.md:17` says the limits "only ever block *new* blobs".
- A failing mkdir of `.tmp` (`blobs.service.ts:127`) or a failing `rm` in the catch block
  (line 147) keeps its reservation, although `04/README.md:16` says "a failed write rolls
  its reservation back". `keptBytes` in `TotalsAccounted` is how much.
- The rollback of a shrinking overwrite takes back bytes that another upload was
  granted meanwhile, so the disk can exceed the quota (`blobs.service.ts:149` calls
  the rollback "safe regardless"). `QuotaKeptUntilFailure` says what does hold.
- A failed DELETE double counts in a process that never crashed, although `design.md:143`
  says "per crash". `CountsExplained` counts failed cycles as well as killed ones.
- A node whose first attempt was registered but answered too late, and whose retry
  came after the window, is refused with 403 and ends (`autoRegistration.ts:151`)
  while it stays listed. `OutcomeMatchesRegistry` speaks of nodes with one attempt
  for that reason.
- `take=abc` is answered 400, because `z.coerce.number()` refuses NaN, although the comment
  at `report/validation.ts:19` says that garbage is clamped.
- A restarted load balancer has an empty registry (`nodeRegistry.ts:26`), so stored
  blobs are unreachable through it.

## 4. Fairness

`BlobsService`: an await completes or fails and the event loop runs what follows
it (`WF` of each handler); a started process finishes its warm-up. `FailingCycles`:
statements complete or fail, timers fire, time passes, and a cleaner that was stopped is
started again. No more than `MaxAbandoned` cycles end early: a statement that
fails in every cycle for ever would never count anything, so `EveryViewCounted` says
that failures that end do not keep a view from being counted. `StopsOnSigterm` does not need
that bound: whether the cycle fails or not, the loop reaches its test of `stopped`. The
restart is an assumption on the deployment, which `design.md:98` makes too (the
old container stops "before starting a replacement on redeploy") and which
`EveryViewCounted` needs, `StopsOnSigterm` does not. `PrimePool`: threads run and
events are delivered. `Dedup`: the program is one chain of awaits that goes on
while files work. `Forwarding`: the forwarder's event loop runs. Neither forwarder
sets a timeout, so that the client keeps reading (or leaves) and the origin
keeps answering (or stops, or breaks) are assumptions, stated in `FairSpec` as
fairness of `Client` and `Origin`; a peer that is connected and silent holds its request
for ever. Both connections speak HTTP/1.1. `LoadBalancer`: a node's timers fire and its `fetch` settles,
which `AbortSignal.timeout` guarantees. Outside `Forwarding` clients are not fair, faults nowhere, nor is
the load balancer: nothing promises a node that it answers.

## 5. What is proved

The proofs hold for every value of the constants that satisfies the module's
`ASSUME`, on top of which each theorem names what else it needs.

`BlobsService_proofs`
- `TypeCorrect`. `TypeOK` alone is not inductive: `Rename` moves the temp file
  into place, so the invariant (`StructInv`) also says which awaits a request of
  each kind can be at and that the temp file is complete at `rename`.
- `TotalsExact` (one writer per id; `access` and `stat` tell the truth; every other fault,
  failing cleanups included). The totals are sums over all ids plus what is kept,
  so each step is reduced to the one id it accounts for: lemmas on `Total`
  (changing one summand changes the sum by the difference) and on cardinality.
  An upload that gives up moves its share from the accounted part to the kept one.
  The invariant needs in addition that what each handler carries across awaits
  (`existed`, `oldSize`) is still true of the disk, which is what one writer per
  id gives and same-id writers break.
- `CountBounded` follows: stored ids are among the accounted ones, whose number
  `Reserve` tested.
- `DiskWithinQuota` (the same assumptions): as long as no upload has failed no
  reservation is given back (`NothingFailed`), so the reserved total stays under the
  quota, and between writes it is what is on disk.
- `QuietTotalsExact`: between writes nothing is held, so the accounted total is the
  disk's (`QuietAccounts`), as long as no upload has kept its reservation.
- `TempFilesCleaned`: no fault is excluded, and two writers of one id are not either. The invariant (`TempInv`) adds that while
  the server is down or warming up no handler is suspended, or one could wake up and
  write to the folder that was just cleared.
- `WritesAreAtomic`: puts and deletes, overlapping in any way (same id included)
  and under every fault, implement `BlobStore`.
- `StoreImplemented`: gets included, when nobody touches an id being written and
  `access` tells the truth. Its invariant ties the envelope a GET has opened to
  the one that is still stored.
- `GetsAreWhole`, from the same invariant and under every fault.

`PageViews_proofs`
- `PageViewsTypeCorrect`.
- `GraceProtects` (`GraceSuffices`: grace > latency + skew): the invariant
  `TimeInv` bounds how far the cutoff is behind the clock and how old a running
  INSERT is; the two cannot meet.
- `CyclesCount` (`GraceSuffices` again), for every fault and kill: each step leaves what
  will be reported unchanged, or records one request, or deletes rows already counted,
  or ends a cycle early, and then adds each visible row that was counted and not
  deleted once more. That the rows a batch deletes were counted is where `GraceProtects` is
  needed. `HistoryAddsNothing` carries it over from `Spec`.

`HashMap_proofs`
- `HashMapTypeCorrect`, `EntriesStayFindable`, `LoadStaysBounded`, from one invariant
  (`MapInv`): the array is chained (each entry is where its key is looked for, no
  key has two), `entryCount` counts it, the load is within the threshold, and the
  array is at least as long as it was created. The last part is what makes one
  resize per `put` enough: a doubled array of that length has room for one more entry,
  as the assumption on the threshold says. `ResizeChained` is the lemma that
  re-bucketing keeps an array chained and loses no entry, for every hash function.
- `HashMapImplementsMap`: a chained array determines a map (`BarOfEntry`), and each
  call changes it as the bounded map's call does.

`Forwarding_proofs`
- `CutIsNoticed`, `LoggedOnce` and `AnswerStands`, for every number of chunks, buffer and
  fault. The invariant says when a response can have ended (`AnswerInv`: the origin
  sent its end and all of it was taken, or the body ends with its connection), that a
  complete upload leaves nothing unsent, and that a line is written only when
  nothing can finish any more (`LogInv`), which is why 'close' without 'finish' never
  precedes a 'finish'.

`LoadBalancer_proofs`
- `LoadBalancerTypeCorrect`. That a request always goes to a listed node rests on
  `PickNodeListed`: ids are distinct, so the positions of the listed nodes are
  an injection into 0 .. n-1, hence onto, and hash mod n is one of them.
- `RoutingStaysFrozen`: while requests are accepted no step changes the registry.
- `RegistrationTold` (`OneLife`: the load balancer does not crash). The invariant
  follows an answer from the handling of its attempt to the node (`AnswerInv`) and
  ties a node's first attempt to its being listed (`FirstInv`).
- `FoundAgain` (`OneLife`): what a client is told of its blob is true of the node its
  next request goes to (`SoundInv`): a request that is sure of its outcome has no
  older write of the same blob under way. A restart breaks both theorems, because the
  registry and its ids are lost.

`Analytics_proofs`
- `SchemaComesFirst` and `LockComesFree`, for any number of sessions and files. The
  invariant (`SchemaInv`) says who owns a session (`OwnerInv`: a session whose process is
  there belongs to one that is migrating, in that session only, so ending it
  cannot take the lock from under another), that one session holds the lock, and
  what it has done (`Progress`): the files before its next are applied, and what it
  found missing is missing still.

- `NumbersExplained` (`GraceSuffices`). That a view counts at most once more than there
  were spoiled cycles is not inductive: a killed cleaner's statement may still be under
  way. `Budget` adds, for each row, those statements and the count a cycle still has
  to make, and says that together they stay within the bound; a kill or a failure
  raises the bound by one before its row can be counted again. `CountedInv` says the
  same of statements that delete: each deletes rows already counted, which holds
  because no late row exists (`GraceProtects`). `HourlyInv` is the equation itself, by
  `SumOneMore` and `SumAdds` (`Sum` counts pairs, so that one count more is one
  pair more).
- `ReportsShow`, for every window, page, time, order and take, from the types of the
  tables alone: `AllRows` computes the report row by row, `HoursShown` turns the hours
  back into times and uses that a window is no longer than a day
  (`WindowAssumption`), `PrefixesShown` is the `take`.

`Dedup_proofs`
- `TypeCorrect`: bags of lines, nested directories, bounded depth.
- `CopiesStayTogether`: the invariant (`IInv`) says that a line in a file of some depth has
  been hashed to it under every seed so far (`Hashed`), that the file being read is
  one that needs no split and that what is unread of a line not seen is all of it
  (`Reading`), and that each line is either done with or in one file, with all its
  copies (`Together`).
- `MemoryIsBounded`: what is loaded above the limit is at the last level, and by `Hashed`
  its lines agree under all seeds tried.
- `Refinement`: `Dedup` implements `UniqueLines`; reading a line not yet seen is the step
  that writes it, and at the end `Together` says that every line is done with.
- Of `nextPrime` they use that some prime lies between its argument and twice that, which
  is Bertrand's postulate: `PrimesAssumption` states it up to the largest number of
  buckets a file can ask for, and TLC evaluates it.

`PrimePool_proofs`
- `TrialDivision`: `isPrime` answers true for exactly the numbers with two divisors.
- `WholeLinesOnly`: cuts come in order, the ranges between them are consecutive and end
  at newlines. The ranges are built by a recursive function over the cuts; what is proved
  of it goes by the least number for which it would fail, because the library's
  induction rule cannot be instantiated.
- `CountIsCorrect`, `TypeCorrect` and `WorkersBusy` from one invariant: no byte is in two
  ranges, queued or being counted (`Apart`), and what is added up, on the way and not
  yet counted makes up the file's primes (`NothingLost`). `Phases` ties the promise, the
  queue and who has exited together: a worker is let go only with the queue empty, and the
  promise resolves only when all are.

Every safety property and every refinement the runs check is thus a theorem. Only
model-checked is liveness (`EveryRequestEnds`, `EveryViewCounted`, `StopsOnSigterm`,
`Resolves`, `EveryNodeSettles`, `Settles`, `Ends`), which is outside the prover's reach, as is
`ENABLED`. `BlobsSameIdTotals` and `BlobsTornGet` show what fails when
requests of one id overlap; `QuietTotalsExact` and `GetsAreWhole` prove the same
properties for the specifications in which they do not.

## 6. What is not modelled

Wiring, configuration from the environment, shard paths, log levels and the
shipping of logs have no state a property could be about. Parsing and validation of
payloads, header syntax and header stripping are left out: a payload is valid or it is
not. SQL statements and file system calls are taken to be atomic, as Postgres and
POSIX rename make them, except where the code spans two of them or a statement's
own check and creation matter (`CREATE TABLE IF NOT EXISTS`). In the hash of a blob
id, the hash of a line and the digits of a number only the outcome matters. Time is
a counter in `PageViews` and a single event in `LoadBalancer`, where a clock that steps
back would reopen the window. `date_trunc` in a session that is not in UTC,
`os.cpus()` returning nothing (no worker, a promise that never settles) and a peer that
stays connected and silent are outside the models.

## 7. Plan

1. The node of `LoadBalancer` stores blobs in one step: compose it with `BlobStore`, whose
   steps `BlobsService` is shown to take, so that `FoundAgain` reaches down to the files.
2. A restarted load balancer: what is still true of nodes and blobs once the registry is
   lost, in place of the assumption `OneLife`.
3. `date_trunc` in a session that is not in UTC, and a quota that refuses overwrites
   that grow, as assumptions the properties need.
