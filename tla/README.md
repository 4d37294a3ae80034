# Verification of dart_db_connector

TLA+ models of the connection pools, the native worker mailbox, the Postgres
transaction layer and the MySQL, SQLite and Mongo stacks of
`dart_db_connector`, with the TLC configurations that check them and TLAPS
proofs of what matters most. Paths below are relative to
`packages/dart_db_connector/` unless they start with `benchmarks/`.

Run a configuration with `tlc -config Slot.cfg MCNativeSlot`, check
the proofs with `tlapm NativeSlot_proofs.tla`.

## 1. Inventory

One Dart isolate runs the application. It borrows connections from a Dart
facade, which borrows them from a C pool through FFI. Every C connection has a
worker thread of its own. A query is *submitted* into the connection's
single-slot mailbox, executed by the worker while the event loop runs on, and
announced by an integer posted to a Dart port; the isolate then reads the
results with synchronous FFI calls.

```
 application tasks (one isolate, microtasks and events)
   withTransaction / UnitOfWork / Repository
     QueryExecutor ---------------- submit, await port, poll_result ---+
   ConnectionPool (gate: _inUse, _waiters)                             |
 ------------------------------------------- FFI --------------------- | --
   native_pool_t (mutex, free_cond, in_use per connection)             |
     native_conn_t (slot_mutex, slot_cond, slot, result chain)  <------+
       worker thread --- libpq / libmysql / sqlite3 / mongoc --- server
```

| Component | State | Operations | Hard behaviour | What makes it correct |
|---|---|---|---|---|
| Gate: `lib/src/pool/connection_pool.dart` | `_inUse`, `_waiters`, `_closed`, `_nativePool` | `start`, `acquire`, `release`, `close` | a completed waiter runs later, as a microtask; deadline against release; `close` with waiters | the count equals the connections lent, stays within `maxSize`; no slot idles while a task is parked; FIFO; every parked call is answered; no connection lent twice |
| C pool: `native/c/src/native_pool.c` | free list, `free_cond`, shutdown flags | `pool_create`, `pool_acquire`, `pool_release`, `pool_destroy` | several threads on one condition variable, signal against timeout, rollback of a half-built pool | exclusive leases, no lost wake-up, no orphan thread, create and destroy return |
| Mailbox and worker: `native_pool.c` (submit, poll), `native_pool_worker.c` | slot, status, result chain, `shutdown_requested` | submit, worker loop, drain, release | the worker executes without the lock; post after clear; shutdown between check and wait | hand-over of the connection is race-free; every accepted statement is answered once; results are one's own |
| Postgres statements: worker `execute_*`, `postgres_query_executor.dart` | libpq protocol state, pipeline mode, result chain | `execute`, `executeMultiRead`, `executePipeline` | timeouts and errors in the middle, what stays unread on the connection | the next lessee finds a clean connection; errors are thrown; the isolate does not block in `PQgetResult` |
| Postgres transactions: `postgres_unit_of_work.dart`, `with_transaction.dart` | `_active`, `_leased`, `_pendingBegin`; transaction state of the server | `begin`, `commit`, `rollback`, `close`, `withTransaction`, `withPipelinedTransaction` | deferred BEGIN, connection lost at COMMIT, pipelines inside a transaction, statements not awaited | all or nothing; a normal return means durable; the connection goes back clean |
| MySQL stack: `mysql_pool.c`, `mysql_pool_worker.c`, `mysql_query_executor.dart`, `mysql_unit_of_work.dart` | mailbox, `last_result` chain, last error, `_pendingBegin`; the session on the server | single, batch and multi-read statements, deferred BEGIN, `commit`, `rollback`, create with undo, destroy with KILL QUERY | results that outlive a lease, a batch that fails in the middle, results left unread, a KILL that races the statement, lock waits | own results and errors; all or nothing; clean connections; destroy returns |
| SQLite stack: `sqlite_pool.c`, `sqlite_pool_worker.c`, `sqlite_query_executor.dart`, `sqlite_unit_of_work.dart` | the same, with kind flags beside the slot; the `sqlite3*` | the same, and `executeSync` on the isolate's own thread | two threads on one handle, the write lock held by a task the isolate cannot run, a COMMIT that fails and leaves the transaction open | one thread in libsqlite3 per handle; the isolate is never blocked for ever; all or nothing |
| Mongo stack: `mongo_pool.c`, `mongo_pool_worker.c`, `mongo_native_pool.dart` | mailbox with a typed operation, chain of documents, client pool | find, insertOne, insertMany, update, delete, command, create, destroy | partial failure of `insertMany`, replies stored on failure, a drain that throws in the middle, clients shared by the workers | own documents and errors; what `insertMany` reports is what was inserted; create and destroy return |
| `IsolateWorkerPool` (deprecated): `lib/src/isolates/` | pending completers by request id, workers | `start`, `query`, `shutdown` | late answers, a worker that dies at start, stragglers at shutdown | each request completes once |
| Codecs: `param.dart`, `lib/src/decoder/` | none (a column cache) | encode, decode | lengths and boundaries | decode is the inverse of encode |
| Bindings, ABI checks, `bin/doctor.dart`, `benchmarks/` | none | loading, measuring | none | not of this kind |

Interaction: the gate calls `NativePool` (FFI) with timeout 0 only, from the
isolate; the executor calls submit and poll on the `NativeConn` a unit of work
leased from the gate; the worker calls back through `Dart_PostInteger_DL`. The
gate and the mailbox share no state apart from `in_use`.

`PROJECT.json` lists the hazards of this code line by line, with the
properties that would notice each going wrong.

## 2. Modules

| Module | Models | State |
|---|---|---|
| `LeasePool` | abstract: a handle has one user, is lent only while the pool is open | `owner`, `phase` |
| `ConnectionPoolGate` | the Dart gate; implements `LeasePool` | `inUse`, `waiters`, `resumed`, `ahead`, `holder`, `closed`, `nativePool`, `pc` |
| `NativePool` | the C pool; implements `LeasePool` | `phase`, `at`, `worker`, `owner`, `pc`, `wait` |
| `NativeSlot` | one `native_conn_t`: mailbox, worker loop, the isolate's use of it, `pool_destroy` reaching it | `slot`, `wpc`, `job`, `chain`, `inbox`, `answer`, `isolate`, ... |
| `PgConnection` | what the worker's `execute_*` leave in libpq and what the executor drains | `sent`, `inbox`, `fresh`, `pipelineMode`, `chain`, `got`, ... |
| `Transactions` | abstract: what `withTransaction` promises | `wants`, `stored`, `outcome` |
| `PgTransaction` | executor with deferred BEGIN, unit of work, `withTransactionOn`, `withPipelinedTransaction`, transaction state of the server; implements `Transactions` | `program`, `at`, `waits`, `active`, `leased`, `pending`, `slot`, `txn`, `stored`, ... |
| `MysqlPool` | the MySQL stack from the C pool to the unit of work | `pool`, `conn`, `worker`, `session`, `db`, `task` |
| `SqlitePool` | the SQLite stack, `executeSync` included | `pool`, `conn`, `worker`, `handle`, `db`, `task` |
| `MongoPool` | the Mongo stack from the C pool to `MongoConn` | `pool`, `clients`, `conn`, `worker`, `coll`, `task` |
| `ConnectionPoolGate_proofs`, `NativePool_proofs`, `NativeSlot_proofs`, `PgConnection_proofs`, `PgTransaction_proofs`, `MysqlPool_proofs`, `SqlitePool_proofs`, `MongoPool_proofs` | the theorems about the module each is named after | |
| `MC...` | instances for TLC | |

The Postgres modules are layered, not one product: each takes from the layer
below what that layer is shown to provide. `PgTransaction` takes connections as
`LeasePool` hands them out and treats the mailbox as busy from submit to
receipt (`NativeSlot`), and every call's results as its own (`PgConnection`,
outside its two exceptions: an aborted statement, and a multi-read longer than
its list). `PgConnection` has one statement outstanding at a time, which
`NativeSlot` shows as long as statements are awaited.

The other three stacks repeat the gate and the mailbox almost line by line.
Their modules are one per stack and compose what is particular to them: the
life of the pool, the workers, what the server keeps for each connection, and
the tasks. They rely on `ConnectionPoolGate` for the gate (a lease takes the
first free connection and there is one), on `NativePool` for the timed wait, and on
`NativeSlot` for the two facts they merge steps over: the slot is
neither read nor written between its clearing and the post, and the flag and
the signal of a shutdown leave no gap. In them a task awaits each statement before
it submits another or gives the connection back, SQLite's `executeSync` excepted;
what an unawaited statement does to a mailbox is in `NativeSlot`.

### ConnectionPoolGate

One action per synchronous segment of Dart code: nothing interleaves inside a
segment, anything may happen between two. `acquire()` is `AcquireNow`,
`AcquirePark` or `AcquireRefused` up to its `await`, and `Resume` after it.
`resumed` is the part of the microtask queue that matters: waiters completed
by `_release` whose continuation has not run. `Probe` is `_inUse++` followed by
the C call; when the call throws, the count stays, as in the code. `Timeout`
is the `Timer`, which Dart runs only with an empty microtask queue. A task
*barges* when it calls `acquire()` between a completion and the waiter's
microtask (its own microtask was queued earlier); any task may, and `barged`
remembers that one did, so that the properties which only hold until then say so.
`ahead` is history: the pairs of parked calls of which the first parked earlier.
The diagnostics sink is left out. `start()` that throws leaves
the state as it was and is not an action.

### NativePool

A step is one section under `pool->mutex` or one iteration of a loop over
connections. `Enter` resolves the timeout as `pool_acquire` does (0 means the
default of the configuration, `DefaultWait`; negative waits for ever).
`TimedOut` returns without a second scan, as line 343 does. It is only taken
by a caller still blocked: a timed wait that has consumed a signal does not
also report ETIMEDOUT. glibc behaves so; POSIX allows more, and the model does
not cover a libc that uses that freedom. `pool_create` opens
connection after connection and rolls back on the first failure.

### NativeSlot

The worker is split at its lock releases: `check` (predicate loop), `run`
(execution, no lock), `clear`, `post`. The isolate is one thread: `isolate`
names the task that is inside a drain, or `pool_destroy` when it is joining.
Results wait for `poll_result` in two places: `chain`, which `pool_release`
frees, and `inbox`, libpq, at which it does not look. `Completes` and `GivesUp`
are what the worker's `execute_*` leave in them: an aborted statement leaves
answers in libpq (`gaveUp`), and a drain that stops at the length of an
`executeMultiRead` list leaves the rest of the chain (`StopPolling`, `left`).
A second statement may start on an executor before the first was awaited, a
lease may end with a statement in flight (`Release`; `pool_release` checks
nothing), and `close()` may come while a connection is lent: nothing in the code
forbids any of these. `overlapped` covers the first two, `closedEarly` the last.

### PgConnection

`sent` is what the server has yet to process, `inbox` what it answered and
nobody has read, of which the last `fresh` are still in the socket. libpq and the
server are external definitions (`SendAccepted`, `ServerStep`, `Arrives`,
`GetResult`, `ExitPipeline`, `AfterError`). A call puts a string with `n`
results on the wire (a string of several statements has several, an empty one
still has one), and its caller counts on `reads` of them: for
`executeMultiRead` the two differ when an entry of its list holds several
statements, or none. Params are sent without a sync on a connection in pipeline
mode, and the server holds answers back up to the next sync (`Flushed`).
`RunSingle` waits for new bytes and posts at the first result, `RunMultiRead`
chains results until NULL, `RunPipeline` counts `n + 1` results and tries to
leave pipeline mode; `Abort` is what a timeout, a shutdown or a socket error
makes of each. `Decode` and `DrainRemaining` are the executor's loops over
`poll_result`. Two histories: `suspect`, some statement was aborted on this
connection, and `stale`, this call found a chain that it will poll first.
`AfterError` keeps the end of the one string outstanding, or marks the rest of
the pipeline as skipped (what is sent to a stuck pipeline later may succeed,
which allows more than the server does). Left out: `pool_cancel`, the byte-level
flush, the row contents, and the BEGIN that `PgTransaction` joins to the first
statement.

### PgTransaction

A statement is submitted in one step, processed by the server in another,
received in a third; tasks interleave between them. `DeferredBegin` prefixes
the first simple statement, and goes alone (with the statement as `rest`)
before an extended one or a pipeline. The slot stays taken from the submission
of that BEGIN to the last answer. `RollBackAborted` is the ROLLBACK the worker
issues after a pipeline. COMMIT of an aborted transaction rolls back
and reports success, as PostgreSQL does. `Lose` breaks a connection at any
moment, with or without the answer on its way. The constant `Programs` lists
the applications considered, `program` is the one that runs: which unit of work
each task uses, which statements its bodies start, what the server may refuse,
and whether bodies catch exceptions or start statements without awaiting them.
`Orderly` says that a program does what the library's documentation describes.
Left out: failures of `pool.acquire()` (see the gate), timeouts of a pipeline,
`executeMultiRead` as a kind of its own (inside a body it behaves like a simple
statement).

### MysqlPool

A statement is a list of commands, joined by `;`, of one of three kinds:
`single` (one result kept), `batch` (results discarded, one empty wrapper kept)
and `multi` (results chained). `WithBegin` puts the deferred BEGIN in front of
whatever comes first, which turns a single statement into a multi-read
and makes a batch poll two wrappers, as the executor does. The worker is split
into `Check` (under the lock), `Send` (`mysql_real_query`, which fails at
once on a lost connection, or when an earlier statement left results unread) and
`ServeAll` or `ServeSome`. The server executes a joined string up to the first
statement that fails; the connection may be lost after any of them, a COMMIT
included, before the answer arrives. A write waits for
other sessions' uncommitted writes, on one contended row. A `call` answers with
more results than one; `execute_single` reads the first only. `Stop` sets
the flag, sends the KILL (which may fail, or find an idle session) and signals.
`mysql_pool_release` leaves `last` as it is, and so does `Release`.
What a string leaves in the session and on the connection (`Effects`,
`Overwriting`) is given in closed form, by the positions in the string, not
statement by statement. `BodiesReadWriteAndCall` says what bodies submit: no
BEGIN, COMMIT or ROLLBACK of their own, no empty list, and no CALL in an
`executeMultiRead`, which polls one result for each read.
Left out: memory that runs out between two results of a statement.

### SqlitePool

libsqlite3 runs in the process, so what the server does is done by the thread
that calls it: the worker (`Finish`, `Abort`), or the isolate in `executeSync`
(`SyncStart` to `SyncReturns` or `SyncThrows`). While `pool.phase` is `sync` no
other Dart code runs, and the worker of that connection cannot take the lock. `RunsSome`
is a failure: of an illegal BEGIN or COMMIT, a constraint, a wait for the write
lock that ends by `busy_timeout`, or one for which SQLite undoes the
transaction by itself. A deferred constraint makes COMMIT fail and leaves the
transaction open. The flags `is_batch` and `is_multi_read` (`kind`) are only
set by the joined submits, and reset by the worker.

A call on a filled slot is refused and throws out of the body (`CallRefused`):
an `executeSync` while the body's statement is in flight, or any call of the
lessee after one who left a statement there. `EndRefused` is the BEGIN or
ROLLBACK that meets such a statement; the connection goes back at once, with its
transaction open if it had one. The statement left behind has no owner any more,
but its executor goes on awaiting it and polls as many results as it counts on,
whoever has the connection by then: `owed` are these polls, taken by
`DrainBehind`. Histories: `mixed`, this task called `executeSync` while an
answer was on its way; `behind`, it submitted while polls were owed; `stuck`,
a COMMIT failed, or a ROLLBACK was refused, with the transaction open.
`Effects` is in closed form, as in `MysqlPool`, and `BodiesReadAndWrite` says the
same of bodies. Left out: memory that runs out between two results, empty
statements in a joined string (section 5), and a body that ends normally with a
statement it has not awaited.

### MongoPool

Six operations with one mailbox. `find` leaves a chain of documents, the others
one reply; `insert_many` stores its reply also when it fails. Besides success
`InsertMany` has these outcomes, in any combination: the server refuses some
documents (and stops at the first, ordered); the call, or a later batch of it,
is refused as a whole (not authorised, `ok: 0`, not valid for the client), so
that only the documents `1..sent` are considered; the write concern is not met.
The reply names no index for the last two (`unnamed`). Or the answer is lost, and
libmongoc replies with what it knows. `InsertManyUnstored` is the worker's early
exit without a reply. A document may be `odd`: its BSON type is unknown to the reader, which
throws, and the rest of the chain stays on the connection. `clients` counts the
clients left in libmongoc's pool: each connection pops one while it is
created and pushes it back when it is torn down.

## 3. Runs

| Run | States | Question |
|---|---|---|
| `Gate` | 16 750 | Exact count, within `maxSize`, successful probe until somebody barges; always: no slot idles, parked calls are served in the order they parked, every one is answered, implements `LeasePool` |
| `GateBargingUsable` | violation | "The pool stays usable" after `PoolExhaustedException` |
| `Slot` | 394 728 | Until statements overlap or a lease ends under one: race-free hand-over, worker idle at release, and own results (unless one was aborted or a multi-read left some); always: the payload is pinned, everything accepted is answered, `pool_destroy` returns |
| `PoolAnyUse` | 21 934 | Any threads: no lost wake-up, no orphan worker, create and destroy return, implements `LeasePool` |
| `ConnAnyUse` | 1 255 407 | With aborts and strings of any number of statements: own results until a connection is suspect or a multi-read was longer than its list, clean re-acquire, what a call returns is true, every call ends but one kind on a stuck pipeline |
| `ConnStaleResult` | violation | Results are always one's own |
| `Tx` | 177 124 | Orderly and careless programs: `withTransaction` implements `Transactions`, connections go back clean, every transaction ends |
| `TxPipelineInBody` | violation | A throwing body is rolled back, with a refused pipeline in it |
| `MysqlPool` | 891 105 | Own results and errors, atomic transactions, clean connections, destroy returns |
| `SqlitePool` | 883 980 | Own results and errors, one thread per handle, atomic transactions, clean connections unless a COMMIT failed or a ROLLBACK was refused, the isolate is not blocked for ever |
| `SqliteCommitFails` | violation | Connections always go back without an open transaction |
| `MongoPool` | 725 357 | Own documents and errors, `insertMany` is accounted for, create and destroy return with every client back |

Every property of a passing run has a *mutant*: a definition preceded in
its module by a plausible fault (an off-by-one, a lost signal, a forgotten
reset) that makes TLC find that property violated. The faults stay in the
modules, unused, so that the pairing can be repeated.

### Bounds

- Gate: two connections, four tasks. Two hold; two more can be parked, so a
  release chooses between waiters, and a woken waiter can be overtaken by a
  fourth task. Tasks retry for ever and no guard caps the count: a full count
  parks whoever comes, so only waiters already woken can push it past `maxSize`,
  and the state space is finite by itself.
- C pool: two connections, three callers: one blocked, woken, and overtaken.
  Any of them may destroy the pool at any time. `DefaultWait` is "probe"; the
  other waits are entered explicitly.
- Slot: one connection, two tasks, `MaxJobs = 3`: enough for two statements
  to overlap, or one to outlive its lease, a re-lease after it, and a refusal.
  `MaxJobs` bounds `Submit`. A statement has at most two results.
- Statements: `MaxJobs = 3` calls by two lessees: the first call leaves
  something, the second inherits it, the third inherits what that left.
  `MaxReads = 2` bounds both the results of a call and the length of a
  multi-read's list, so that either can be the longer.
- Transactions: two tasks on one connection, used in turn, `MaxStmts = 2`
  statements per body. The first carries the deferred BEGIN, the second runs
  in what the first left. With one connection all interference
  passes through it; in the careless programs also through statements that
  overlap, and in one of them through the unit of work. Each task runs one
  transaction.
- MySQL: two connections, two tasks. `MaxJobs` stops a task from starting
  another statement of a body: `t1` executes two (both in one lease,
  or one in each of two), `t2` one, and the BEGIN and the end of a transaction
  come on top. So a row can be contended, a connection re-leased with an
  old result, and the pool destroyed while one session waits for the other.
- SQLite: the same shape, `t1` three statements and `t2` two, because an
  `executeSync` has to fit between another statement's submission and reading.
  `t1` writes, in transactions, one by one, in a batch and by `executeSync`;
  `t2` writes and reads, with or without a transaction, and may be
  lent what `t1` left behind. A refused call takes no number, so `MaxJobs` does
  not bound refusals; each ends its body.
- Mongo: `t1` three operations in one lease or in several, `t2` one;
  `MaxDocs = 2` documents of a find or an `insertMany`, the fewest with which an
  ordered call can stop early and a drain can break off. `DefaultClients`,
  libmongoc's own pool size, is 1 so that it would be too small; libmongoc's is
  100, and the same happens with 101 connections.

No cfg uses symmetry or a state constraint. `CHECK_DEADLOCK FALSE` stands where
the system really stops, once the pool has been freed or could not be created:
in `Slot`, `PoolAnyUse`, and the cfgs of the three other stacks.

### Fairness

- Gate: the event loop runs queued microtasks (weak, `Resume`); a due timer
  runs between two events however many microtasks those queue, so strong fairness
  for `Timeout`. No task is obliged to release.
- Slot: the worker thread runs, a statement ends (its `poll` loop has a
  deadline, or the server answers), a posted message is delivered, a synchronous
  segment runs to its end. Nobody is obliged to submit, release or close.
- C pool: a thread inside `pool_create` or `pool_destroy` goes on, a worker told
  to stop leaves (`CloseReturns` of `NativeSlot`), a caller not blocked gets the
  mutex. A blocked caller is not obliged to time out.
- Statements: worker and isolate run, and the server answers what it has been
  asked to send back (`Flushed`): not a statement behind which no sync was sent,
  nor on a dead connection. `CallEnds` therefore leaves out the call with params
  on a connection stuck in pipeline mode, which may wait for ever (section 5).
- Transactions: as above, and a body does not go on for ever. Losing
  a connection is never obliged.
- MySQL, SQLite, Mongo: create and destroy run to their end, each worker runs,
  and every statement ends, by success or by failure: InnoDB has a lock wait timeout,
  SQLite `busy_timeout` (set by `sqlite_pool.c`), libmongoc server selection and
  socket timeouts. No task is obliged to do anything, so destroy
  must return whatever the tasks hold.

## 4. Proofs

All theorems hold for every set of tasks, every pool size and every bound,
under the named `ASSUME`s of the modules. Most of these only type the
constants. Three say more: `NoTaskIsNoTask` (the "nobody" of a record is not a
task), and `BodiesReadAndWrite` and `BodiesReadWriteAndCall`, which leave BEGIN,
COMMIT and ROLLBACK to the units of work, as the code does.

Each proof has the same form: an invariant that is inductive (with an earlier
one as its hypothesis), one lemma for each action, and theorems that read the
property off. In the stacks the first part of a module restates each action
as the whole records it writes (`Leases`, `Submits`, `Answers`, ...), so that
the later steps need not open the action again.

**ConnectionPoolGate_proofs.** `CoverInv` (types, and
`inUse >= Cardinality(Lent)`) is inductive without any assumption about
the program: a probe that succeeds adds one to both sides, one that fails
only to the count. It gives `GateTypeOK` and `GateCovers`. The count being
exact is not inductive by itself, since a woken waiter could
find the connection gone and leak. `OrderlyInv` adds that `inUse` plus the
number of woken waiters stays within `maxSize`: each woken waiter owns a
slot, so its probe succeeds. `~barged => OrderlyInv` is inductive (once
`barged` is set it stays) and gives `OrderlyKeepsItsWord` and
`OrderlyCountIsExact`. `GateIdlesNoSlot` is inductive with the types, barging
included. `PlaceInv` says that each task is in one place: in one queue, once, or
holding one connection. `OrderInv`, on top of it, relates `ahead` to the queues:
of two parked calls the earlier stands nearer the front, and one completed
stands before all that are still parked. It gives the action property
`GateServesInOrder`, barging included. `GateImplementsLeasePool` is the refinement,
barging included: every step is a step of `LeasePool` or a stutter.
Lemmas `LendOne`, `ReturnOne` and `ProbeCounts` carry the cardinality arguments.

**NativePool_proofs.** `PoolInv` joins the types, `WorkersInv` (at each point
of create, roll-back and destroy, which workers exist) and `CallersInv` (who
holds, who is blocked; with a blocked caller either every connection is lent,
or somebody woken is about to look). It gives `PoolTypeOK`, `PoolLosesNoWakeUp`,
`PoolOrphansNoWorker` and the refinement `PoolImplementsLeasePool`.

**NativeSlot_proofs.** `MailboxInv` (types, payload pinned, every accepted
statement accounted for, an exited worker leaves an empty slot) holds whatever
the Dart side does; from it `SlotTypeOK`, `SlotPayloadPinned` and
`SlotAcceptedIsAccountedFor`. `TurnInv` holds until statements overlap or a
lease ends under one; its heart is `Turns`: either the mailbox is quiet, or the
one lessee waits for exactly the statement the worker has. Around it stand the
facts that make it inductive (fresh answers, accepted numbers), and on top of it
`ChainInv` and `InboxInv`, whose results wait in the chain (until a lease leaves
some there) and in libpq (until a statement is aborted).
From it follow `SlotDrainsOwnResults`, `SlotNoSpuriousRefusal`,
`SlotWorkerIdleAtRelease` and, with what holds until a `close()` comes under a
lessee, `SlotOneThreadAtATime`.

**PgConnection_proofs.** `PgConnInv` is inductive with all aborts. Its heart
are two pictures of what is on its way while a call runs. `StringKept`, for a
query string: everything between server and executor is the call's own, NULL
comes last, an error is the last result, and the results a string has, when none
was refused, are those decoded, those kept and those to come. For a call that
found the chain of an earlier multi-read (`stale`) only what is in libpq is
counted on.
`PipeKept`, for a pipeline: what is left alternates, so its length tells how
many PGresults the worker still has to count, and the count reaches 0 with the
last item. A connection aborted inside a pipeline (`StuckInPipeline`) is
outside both; the invariant says what is needed for the case that a later
pipeline reads the last outstanding answer and leaves pipeline mode. It
gives `ConnResultIsOwn`, `ConnCleanOnReacquire`, `ConnReturnedMeansRun`.
That outside pipeline mode the server never has more than one string to process
(`SentIsString`) is what allows `AfterError` to keep just its end.

**MysqlPool_proofs, SqlitePool_proofs, MongoPool_proofs** share their first
two layers. `MailInvs` holds by itself: who has which connection; a filled slot
holds the call its lessee awaits, in the shape the executor gives it
(`Fits`, `Shape`: BEGIN first, COMMIT or ROLLBACK only at the end); with an
empty slot the lessee has its answer or none is due; what the pool's life
allows. In SQLite a filled slot may also hold a call left behind (`LeftBehind`),
which nobody awaits. From it follow, in SQLite, `OneThreadOnEveryDb`. `AnswerInv` ties what is on the
connection and in the error field to that call, from the worker's post to the
reading: `EveryAnswerIsOwn` in each stack. In MySQL it needs
the place of each result in a string, hence the recursion-free `Results` and
the least statement with enough results before it (`LeastNat`, from
well-foundedness, where one would otherwise use induction). In Mongo,
`PostKept` and `GotKept` also carry which documents of an `insertMany` the
collection holds, and give `InsertManyAccounts`: what was counted is what was
inserted, no inserted document is named as refused, and the refused are named
unless they were refused as a whole.

`CleanInv` (MySQL, SQLite) gives `ConnectionsComeBackClean`: an open
transaction has a lessee in a transaction that is still to end it, unless a
result was left unread (MySQL), or a COMMIT failed or a ROLLBACK was refused and
left it open (SQLite, `Harmless`).

Atomicity (`TransactionsAreAtomic` in `MysqlPool_proofs` and
`SqlitePool_proofs`) rests on two more layers. `NameInv`: call names
are given once, a call not yet sent has left nothing anywhere, and nobody
else's session holds writes of this task; so a BEGIN that commits what a
session has open, another task's COMMIT, or a lost connection elsewhere do not touch
them. `TxInv` then says, by where a task is (`Plain`, `MustHold`, `MustHide`,
`Left`), whether its transaction is open and holds all that ran (`Held`),
nothing of it is durable (`Hidden`), or all of it is (`Durable`). SQLite adds
`CallInv` for `executeSync` on the isolate's thread, `Lost` for a
transaction that libsqlite3 has rolled back by itself, and `Guarded`: as long as
a statement that a body left behind is in the slot, the transaction of that body
is open, since a filled slot refuses every other call. These proofs found two
mistakes in `SqlitePool`, corrected against the code: cases of `Outcome` that
overlapped, and an `executeSync` after the exception had left the body.

**PgTransaction_proofs.** The invariant `IInv` has three parts, each true of
more programs than the next. `TypeOK` and `HoldInv` hold in all of them: an
active unit points at a connection that is lent, and no two units, nor a unit
and a batch, at the same one. That is inductive although units may be shared,
because an overlapped `begin()` takes another connection of the pool. `TxTypeOK`
reads it off. `LeaseInv` needs a unit of work per task (`OwnUnits`): every lease
that is out belongs to a task that has still to end its transaction. Hence the
second half of `TxReturnedClean`, whatever the bodies do. The second `begin()` of
a shared unit breaks it (section 5).

`OrderlyInv` holds in orderly programs. For each task that runs a transaction
on a connection `RunInv` says what is in flight (`AskedShape`) and how the
server's transaction relates to the writes the task wants (`AskedState`): before
the deferred BEGIN was used nothing has happened; with nothing in flight, unless
the connection is lost, the transaction is open and holds exactly the task's
writes; with a statement in flight, exactly what that statement leaves out.
`BatchInv` is the same for `withPipelinedTransaction`. `FateInv` says, by the
stage of a task, whether nothing of it is durable (`Fresh`), or all of it.
`QuietInv` is about the connections nobody has. Losing a connection keeps all this,
since each clause about the server's transaction asks for a connection that is
not `dead`. `TxReturnedClean` and `TxOneTaskPerTransaction` follow.

`TxImplementsTransactions` is the refinement: Init is mapped to Init, and every
action to a step of `Transactions` or a stutter. The steps that are not stutters
are `Execute`, `BatchSubmit` and `Receive` (what the task wants grows, or loses a
refused statement), `ServerStep` with the COMMIT or a batch (all of it becomes
durable), `EndInactive` and `BatchEnd` (the task ends with its outcome). `IInv`
tells each of them what is durable at that moment.

**Only model-checked**: every liveness property (`AcquireIsAnswered`,
`EveryStatementAnswered`, `CloseReturns`, `FreeConnIsNoticed`, `CallEnds`,
`LifecycleReturns`, `TransactionEnds`, `DestroyReturns`, `IsolateReturns`), since
liveness under fairness and ENABLED are outside what TLAPS supports; all safety
and action properties of the passing runs, and the three refinements, have a
theorem. Induction over data is outside its reach here too: where a definition
would walk along a sequence, the modules above give it in closed form, as `Run`
does for the statements of one string, and what the library's recursive
operators compute stays with TLC.

## 5. Where code and documentation disagree

With a run that shows it:

- `GateBargingUsable`: `acquire()` counts itself before the probe and does
  not undo that when the probe throws (`connection_pool.dart:269`). Each failed
  probe shrinks the pool for good, although "the pool stays usable" (line 85).
  The gates of the other stacks repeat the two lines
  (`mysql_connection_pool.dart:229`).
- `ConnStaleResult`: after an aborted pipeline the connection is lent again in
  pipeline mode with answers outstanding; the next `execute` with
  params decodes them (`native_pool_worker.c:335`).
- `TxPipelineInBody`: a pipeline refused inside a transaction is rolled back by
  the worker and reported as done; later statements autocommit
  (`native_pool_worker.c:346`).
- `SqliteCommitFails`: when COMMIT fails and leaves the transaction open,
  `commit()` releases the connection as it is, and the `rollback()` that follows
  finds no active transaction (`sqlite_unit_of_work.dart:60`). The connection
  goes back with the file's write lock.

Met while modelling, visible in the modules, without a run of their own.

Gate, mailbox and Postgres:

- When somebody barges the count exceeds `maxSize`, against
  `connection_pool.dart:236` (`GateKeepsItsWord` without `~barged`).
- Two statements started on one executor without awaiting break "only one of
  the two threads touches it at a time" (`native_pool_internal.h:64`;
  `OneThreadAtATime` without `overlapped`).
- "The worker is idle by the time a conn is released" (`native_pool.c:354`):
  not when a body leaves a statement unawaited, say in `withPostgresConnection`
  (`WorkerIdleAtRelease` without `overlapped`). `pool_release` then frees the
  chain under the worker, and the next lessee gets a busy connection.
- `close()` with a connection lent frees it under its user, against
  `native_pool.c:280` (`OneThreadAtATime` without `closedEarly`).
- `pool_destroy` frees mutex and pool while callers it woke still have to take
  that mutex (`native_pool.c:286`).
- An SQL error inside a pipeline is not thrown (`native_pool_worker.c:327`
  against `with_transaction.dart:83`).
- `execute` of a string with several statements drops the error of a later one
  (`postgres_query_executor.dart:275` against 259).
- `executeMultiRead(['SELECT 1; SELECT 2'])` returns one result and leaves the
  other in the chain; the next call of the lease decodes that one and discards its
  own, its own error included (`stale`; `postgres_query_executor.dart:372`). An
  entry without a statement makes the list short, although "the returned list
  would otherwise be short - instead this throws" (line 300)
  (`ReturnedMeansRun`, whose length clause is the smaller of the two).
- A call with params on a connection stuck in pipeline mode goes out without a
  sync. `execute_single_params` waits for bytes before it looks for a result
  (`native_pool_worker.c:408`), and without a timeout the worker may wait for ever;
  when a result was in already, the isolate may, in `PQgetResult`
  (`native_pool.c:597`). `CallEnds` leaves it out.
- A connection that reported code 2 is lent again, against
  `native_pool.h:92`.
- When `commit()` throws, `rollback()` finds the unit inactive and its
  `TransactionStateError` replaces the exception (`with_transaction.dart:58`
  against 28; `with_mysql_transaction.dart` and `with_sqlite_transaction.dart`
  have the same shape).
- A body that catches the exception of a statement and returns gets a
  success that committed nothing (`postgres_unit_of_work.dart:89`; the careless
  program of `Tx`).
- Code 2 without a configured timeout runs into the null check `_timeout!`
  (`postgres_query_executor.dart:169`).
- With a statement in flight the ROLLBACK of `rollback()` is refused and the
  connection goes back with its transaction open
  (`postgres_unit_of_work.dart:101`; the first half of `ReturnedClean` without
  `Orderly`).
- `begin()` tests `_active` before it awaits a connection and
  sets it afterwards (`postgres_unit_of_work.dart:64`). Two calls in flight on
  one unit both succeed, against "throws [TransactionStateError] if a transaction
  is already active" (`unit_of_work.dart:77`), and the first lease is never
  returned: the second half of `ReturnedClean` without `OwnUnits`, with two
  connections. With one, the second call waits for the first lease to come back.

MySQL:

- `execute` of a CALL leaves its further results on the connection
  (`mysql_pool_worker.c:95`), against `mysql_pool.c:87-90`: "one statement
  yields one result". The statements that follow, COMMIT and ROLLBACK included,
  fail as out of sync, and the connection goes back with its transaction open,
  against `mysql_unit_of_work.dart:17` (`ReturnedCleanUnlessOutOfSync` without
  `unread`).
- The first statement of a transaction goes out joined to its BEGIN, as a
  multi-read, whose results for statements without rows have no affected-row
  count, although DML "still reports `affectedRows`"
  (`mysql_query_executor.dart:60`, `native_mysql.h:79-82`).
- A KILL QUERY that comes before the statement it is meant for has no effect, and
  `mysql_pool_destroy` then waits for the statement to end by itself.

SQLite:

- A refused `executeSync` throws `StateError` out of the body
  (`sqlite_query_executor.dart:165`) while the body's statement is in flight. The
  ROLLBACK is refused as well (`sqlite_pool.c:254`), and the connection goes back
  with its transaction open and no COMMIT failed, against "rolls back and
  rethrows on error" (`with_sqlite_transaction.dart:11`; `stuck`). The statement
  left behind is polled for when it is answered, whoever has the connection then:
  it takes a result of the next lessee's call (`behind`).
- `executeSync` is refused "if an async op is still pending"
  (`sqlite_query_executor.dart:155`) only as long as the worker has not answered.
  After that and before the answer was read it runs, and frees the result or
  overwrites the error the reader is about to take (`mixed`).
- After libsqlite3 has rolled a transaction back by itself, and before the task
  learns of it, a write of `executeSync` autocommits.
- A SELECT reports the affected rows of the DML before it.
- `executeMultiRead` of a list with an empty statement shifts the results: the
  worker skips it (`sqlite_pool_worker.c:196`), Dart polls one result for each
  element. A string of several statements as one element shifts them the other
  way.

Mongo:

- On "partial or total failure" `insertMany` throws "carrying the per-index
  write errors" (`mongo_native_pool.dart:287`): a call or batch refused as a
  whole, and a write concern that was not met, throw with none
  (`InsertManyIsAccounted` without `unnamed`).
- "The worker always stores the reply" (`mongo_native_pool.dart:323`): not when
  it has no memory for it, or when the blob is not the documents it
  announces. The drain then decodes what an earlier find left behind,
  or fails (`InsertManyUnstored`).

## 6. Not modelled

- `IsolateWorkerPool` (`lib/src/isolates/`): deprecated, superseded by the native
  pools. Its hazards are listed, without properties.
- Codecs (`param.dart`, `lib/src/decoder/`, the BSON reader and writer) and the
  cell accessors `native_mysql.c`, `native_sqlite.c`: sequential functions of
  their input.
- Repositories and `with_*_connection.dart`: SQL text from a mapper; a lease and
  a release around a call, which is `Lease` and `Release`.
- FFI signatures, loaders and ABI checks, the vendored `dart_api_dl.c` and
  `dart_api.h`, `bin/doctor.dart`, the benchmarks: no state of this kind.
- Memory that runs out, except where the code leaves a half-made pool behind
  (`CreateFails`) or a reply out (`InsertManyUnstored`).

## 7. Plan

Done: (1) `ConnectionPoolGate` over `LeasePool`, with proofs; (2) `NativeSlot`,
with proofs; (3) `NativePool` over `LeasePool`; (4) `PgConnection`;
(5) `PgTransaction` over `Transactions`; (6) `MysqlPool`, `SqlitePool`,
`MongoPool`.

Proved: `ConnectionPoolGate`, `NativePool` (both with their refinement),
`NativeSlot`, `PgConnection`, `PgTransaction` (with its refinement),
`MysqlPool`, `SqlitePool`, `MongoPool`.

Next, in order:

1. Algorithms, as recursive functions checked against a reference definition
   over bounded inputs: BSON writer and reader, parameter marshalling, the
   column cache of `decode_plan.dart`.
2. `IsolateWorkerPool`: request ids, timeouts against late answers, shutdown.

The suite stays at a dozen runs and forty properties, so that it finishes in a
few minutes: a run for a new module takes the place of properties that the proofs
have made redundant, or of a violation that section 5 can describe in words.
