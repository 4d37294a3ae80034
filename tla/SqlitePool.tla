------------------------------ MODULE SqlitePool ------------------------------
(***************************************************************************)
(* The SQLite stack: sqlite_pool.c, sqlite_pool_worker.c and, on the       *)
(* isolate, SqliteQueryExecutor and SqliteUnitOfWork.  A connection has a  *)
(* mailbox, as in NativeSlot, but libsqlite3 runs inside the process: a    *)
(* statement runs on the connection's worker, or, with executeSync, on the *)
(* isolate's own thread, which holds slot_mutex and blocks all Dart code   *)
(* meanwhile (phase "sync").                                               *)
(*                                                                         *)
(* libsqlite3 (external) keeps, per handle, an open transaction and the    *)
(* writes it has not committed.  One handle at a time may have such        *)
(* writes: another's write waits, until busy_timeout at most.              *)
(*                                                                         *)
(* A body that fails ends its transaction.  A task awaits each statement   *)
(* before it submits another, but it may call executeSync meanwhile: when  *)
(* that throws, refused or failed, the body leaves the statement behind,   *)
(* and its executor reads the answer for nobody, whoever has the           *)
(* connection by then.                                                     *)
(***************************************************************************)
EXTENDS Integers, FiniteSets, Sequences, SequencesExt

CONSTANTS Tasks, NoTask,
          MaxSize,    \* max_size
          MaxJobs,    \* bound, per task: it makes no new lease or call after
                      \* that many statements
          Singles, Batches, Reads, Syncs, \* per task: what its bodies execute
          InTx        \* per task: in a transaction, without one, or both

ASSUME MaxSizeIsPositive == MaxSize \in Nat \ {0}
ASSUME MaxJobsIsNat == MaxJobs \in [Tasks -> Nat]
ASSUME NoTaskIsNoTask == NoTask \notin Tasks
(* BEGIN, COMMIT and ROLLBACK are left to SqliteUnitOfWork. *)
ASSUME BodiesReadAndWrite ==
    \A t \in Tasks :
        /\ Singles[t] \cup Syncs[t] \subseteq {"read", "write"}
        /\ Batches[t] \cup Reads[t] \subseteq Seq({"read", "write"})
        /\ InTx[t] \subseteq BOOLEAN

Conns == 1..MaxSize

(* A statement is named by its task and a number. *)
NoId == <<NoTask, 0>>
NoJob == [id |-> NoId, owner |-> NoTask, stmts |-> <<>>]

VARIABLES pool,     \* the synchronous call the isolate is in: create,
                    \* destroy (stop, join) or executeSync; or "open"
          conn,     \* sqlite_conn_t: in_use, slot, is_batch/is_multi_read,
                    \* last_result, last_error, shutdown_requested; and, in
                    \* Dart's queue, polls owed to calls left behind
          worker,   \* per connection: where its thread is
          handle,   \* external: the sqlite3* of each connection
          db,       \* external: statements whose writes are durable
          task      \* Dart: the tasks and their executors

vars == <<pool, conn, worker, handle, db, task>>

FreshConn == [inUse |-> FALSE, slot |-> NoJob, kind |-> "single", last |-> <<>>,
              error |-> NoId, stop |-> FALSE, owed |-> <<>>]
(* `stuck` is history: a COMMIT that failed or a ROLLBACK that was refused *)
(* has left the transaction open.                                          *)
FreshHandle == [txn |-> FALSE, dirty |-> {}, stuck |-> FALSE]
(* What a poll returns: the rows of the i-th statement of a call, 0 for the *)
(* empty wrapper of a batch.                                                *)
Result(id, i) == [id |-> id, stmt |-> i]

(* `mixed` is history: executeSync came between an answer and its reading  *)
(* (and, until the end of the lease, that answer was an abort).  `behind`  *)
(* is history: the call was submitted while polls were owed.               *)
IdleTask == [pc |-> "out", n |-> 0, conn |-> 0, tx |-> FALSE, job |-> NoJob,
             kind |-> "single", port |-> "none", wrote |-> {},
             outcome |-> "none", behind |-> FALSE, mixed |-> FALSE]

Init ==
    /\ pool = [phase |-> "create", at |-> 1, made |-> 0, undo |-> FALSE,
               job |-> NoJob]
    /\ conn = [c \in Conns |-> FreshConn]
    /\ worker = [c \in Conns |-> "none"]
    /\ handle = [c \in Conns |-> FreshHandle]
    /\ db = {}
    /\ task = [t \in Tasks |-> IdleTask]

Goto(phase, at) == pool' = [pool EXCEPT !.phase = phase, !.at = at]
Woken(c) == IF worker[c] = "asleep" THEN "check" ELSE worker[c]

-------------------------------------------------------------------------------
(* sqlite_pool_create: init_conn opens one handle after another and starts  *)
(* its worker; when one fails, those made so far are torn down in turn.     *)
CreateConn ==
    /\ pool.phase = "create"
    /\ worker' = [worker EXCEPT ![pool.at] = "check"]
    /\ pool' = [pool EXCEPT !.made = @ + 1,
                            !.phase = IF pool.at = MaxSize THEN "open" ELSE @,
                            !.at = IF pool.at = MaxSize THEN 1 ELSE @ + 1]
    /\ UNCHANGED <<conn, handle, db, task>>

CreateFails ==
    /\ pool.phase = "create"
    /\ pool' = [pool EXCEPT !.phase = IF pool.made = 0 THEN "freed" ELSE "stop",
                            !.at = 1, !.undo = TRUE]
    /\ UNCHANGED <<conn, worker, handle, db, task>>

Destroy ==
    /\ pool.phase = "open"
    /\ Goto("stop", 1)
    /\ UNCHANGED <<conn, worker, handle, db, task>>

(* sqlite_pool_destroy tells every worker to stop, then joins one after     *)
(* another; the undo of sqlite_pool_create does both to one after another.  *)
(* Nothing interrupts the statement a worker is in.                         *)
StopSignalForgotten(c) == UNCHANGED worker
StopSignal(c) == worker' = [worker EXCEPT ![c] = Woken(c)]

Stop ==
    /\ pool.phase = "stop"
    /\ conn' = [conn EXCEPT ![pool.at].stop = TRUE]
    /\ StopSignal(pool.at)
    /\ IF pool.undo THEN Goto("join", pool.at)
       ELSE IF pool.at < pool.made THEN Goto("stop", pool.at + 1)
       ELSE Goto("join", 1)
    /\ UNCHANGED <<handle, db, task>>

(* teardown_conn: free the results nobody drained, close the handle; what   *)
(* it had not committed is rolled back.                                     *)
Join ==
    /\ pool.phase = "join"
    /\ worker[pool.at] = "exited"
    /\ conn' = [conn EXCEPT ![pool.at] = [FreshConn EXCEPT !.stop = TRUE]]
    /\ handle' = [handle EXCEPT ![pool.at] = FreshHandle]
    /\ IF pool.at = pool.made THEN Goto("freed", 1)
       ELSE Goto(IF pool.undo THEN "stop" ELSE "join", pool.at + 1)
    /\ UNCHANGED <<worker, db, task>>

-------------------------------------------------------------------------------
(* The isolate.  sqlite_pool_acquire is only called when the gate knows of  *)
(* a free connection (ConnectionPoolGate).                                  *)
Lease(t, tx) ==
    /\ pool.phase = "open"
    /\ task[t].pc = "out"
    /\ task[t].n < MaxJobs[t]
    /\ \E c \in Conns :
          /\ ~conn[c].inUse
          /\ \A d \in 1..(c - 1) : conn[d].inUse
          /\ conn' = [conn EXCEPT ![c].inUse = TRUE]
          /\ task' = [task EXCEPT ![t] = [IdleTask EXCEPT
                         !.pc = IF tx THEN "begin" ELSE "body",
                         !.n = task[t].n, !.conn = c, !.tx = tx]]
    /\ UNCHANGED <<pool, worker, handle, db>>

Id(t) == <<t, task[t].n + 1>>
Wrote(t, stmts) == IF "write" \in ToSet(stmts)
                   THEN task[t].wrote \cup {Id(t)} ELSE task[t].wrote

(* sqlite_pool_submit_query and submit_joined fill the mailbox.  Only the   *)
(* latter sets is_batch and is_multi_read; the worker resets them.          *)
Submit(t, kind, stmts, then) ==
    LET c == task[t].conn
        job == [id |-> Id(t), owner |-> t, stmts |-> stmts]
    IN  /\ pool.phase = "open"
        /\ conn[c].slot = NoJob /\ ~conn[c].stop
        /\ conn' = [conn EXCEPT
              ![c].slot = job,
              ![c].kind = IF kind = "single" THEN @ ELSE kind]
        /\ worker' = [worker EXCEPT ![c] = Woken(c)]
        /\ task' = [task EXCEPT ![t] = [task[t] EXCEPT
              !.pc = then, !.n = @ + 1, !.job = job, !.kind = kind,
              !.wrote = Wrote(t, stmts), !.behind = conn[c].owed # <<>>]]
        /\ UNCHANGED <<pool, handle, db>>

Begin(t) == task[t].pc = "begin" /\ Submit(t, "single", <<"begin">>, "beginning")

InBody(t) == task[t].pc = "body" /\ task[t].n < MaxJobs[t]
Execute(t) == InBody(t) /\ \E s \in Singles[t] :
                  Submit(t, "single", <<s>>, "await")
ExecuteBatch(t) == InBody(t) /\ \E stmts \in Batches[t] :
                       Submit(t, "batch", stmts, "await")
ExecuteMultiRead(t) == InBody(t) /\ \E reads \in Reads[t] :
                           Submit(t, "multi", reads, "await")

(* The drain: a batch polls one wrapper and decodes nothing, the others     *)
(* poll one per statement; a NULL poll decodes as empty.                    *)
Empty == Result(NoId, 0)
Polls(kind, job) == IF kind = "batch" THEN 1 ELSE Len(job.stmts)
Rest(last, n) == SubSeq(last, n + 1, Len(last))
Decoded(kind, job, last) ==
    IF kind = "batch" THEN <<>>
    ELSE [i \in 1..Polls(kind, job) |->
             IF i <= Len(last) THEN last[i] ELSE Empty]

(* `await port.first` resolves: 1 drains, 2 reads last_error and throws.    *)
(* Dart takes messages in the order they were posted.                       *)
Resumes(t) == /\ task[t].pc \in {"beginning", "await", "ending"}
              /\ task[t].port # "none"
AfterAnswer(pc, fine) ==
    CASE pc = "ending" -> "leaving"
      [] pc = "beginning" -> IF fine THEN "body" ELSE "leaving"
      [] OTHER -> IF fine THEN "body" ELSE "thrown"
Outcome(t, fine) ==
    IF task[t].outcome # "none" THEN task[t].outcome
    ELSE CASE task[t].pc = "ending" -> IF fine THEN "returned" ELSE "commit_failed"
           [] OTHER -> IF fine THEN "none" ELSE "threw"
Receive(t) ==
    LET c == task[t].conn
        fine == task[t].port = "ok"
    IN  /\ pool.phase = "open"
        /\ Resumes(t) /\ conn[c].owed = <<>>
        /\ conn' = IF ~fine THEN conn
                   ELSE [conn EXCEPT ![c].last =
                            Rest(@, Polls(task[t].kind, task[t].job))]
        /\ task' = [task EXCEPT ![t] = [task[t] EXCEPT
              !.pc = AfterAnswer(@, fine),
              !.outcome = Outcome(t, fine),
              !.job = NoJob, !.port = "none", !.mixed = @ /\ ~fine]]
        /\ UNCHANGED <<pool, worker, handle, db>>

(* commit() and rollback(): whatever comes back, the connection is          *)
(* released; the rollback() after a commit() that threw finds no active     *)
(* transaction and sends nothing.                                           *)
End(t, s) ==
    /\ task[t].tx
    /\ task[t].pc = IF s = "commit" THEN "body" ELSE "thrown"
    /\ Submit(t, "single", <<s>>, "ending")

(* A filled slot refuses a call: the body throws, leaving behind the call   *)
(* it awaits, if any; a BEGIN or a ROLLBACK gives the connection back.      *)
CallRefused(t) ==
    LET c == task[t].conn
    IN  /\ pool.phase = "open"
        /\ task[t].pc \in {"body", "await"} /\ task[t].n < MaxJobs[t]
        /\ task[t].pc = "await" => Syncs[t] # {}
        /\ conn[c].slot # NoJob
        /\ conn' = [conn EXCEPT ![c].slot.owner = NoTask]
        /\ task' = [task EXCEPT ![t] = [task[t] EXCEPT
              !.pc = "thrown", !.outcome = "threw", !.job = NoJob]]
        /\ UNCHANGED <<pool, worker, handle, db>>

EndRefused(t) ==
    LET c == task[t].conn
    IN  /\ pool.phase = "open"
        /\ \/ task[t].pc = "begin"
           \/ task[t].tx /\ task[t].pc = "thrown"
        /\ conn[c].slot # NoJob
        /\ handle' = [handle EXCEPT ![c].stuck = handle[c].txn]
        /\ task' = [task EXCEPT ![t] = [task[t] EXCEPT
              !.pc = "leaving", !.outcome = "threw"]]
        /\ UNCHANGED <<pool, conn, worker, db>>

(* The executor of a call left behind polls what there is by then. *)
DrainBehind(c) ==
    /\ pool.phase = "open"
    /\ conn[c].owed # <<>>
    /\ conn' = [conn EXCEPT ![c].last = Rest(@, Head(conn[c].owed)),
                            ![c].owed = Tail(@)]
    /\ UNCHANGED <<pool, worker, handle, db, task>>

ThrowEndsIt(t) == ~task[t].tx \/ task[t].pc = "thrown"
HasNothingToEnd(t) == ~task[t].tx
Release(t) ==
    /\ pool.phase = "open"
    /\ \/ task[t].pc = "leaving"
       \/ HasNothingToEnd(t) /\ task[t].pc \in {"body", "thrown"}
    /\ conn' = [conn EXCEPT ![task[t].conn].inUse = FALSE]
    /\ task' = [task EXCEPT ![t] = [IdleTask EXCEPT !.n = task[t].n]]
    /\ db' = db \ task[t].wrote   \* nobody looks at them any more
    /\ UNCHANGED <<pool, worker, handle>>

-------------------------------------------------------------------------------
(* libsqlite3 (external): statements on a handle, as long as none waits.    *)
(* Transaction control is a call of its own.                                *)
Effects(c, id, stmts) ==
    LET open == handle[c].txn
        dirty == handle[c].dirty
        new == IF "write" \in ToSet(stmts) THEN {id} ELSE {}
    IN  CASE stmts = <<"begin">> -> [txn |-> TRUE, dirty |-> dirty, db |-> db]
          [] stmts = <<"commit">> ->
                [txn |-> FALSE, dirty |-> {}, db |-> db \cup dirty]
          [] stmts = <<"rollback">> -> [txn |-> FALSE, dirty |-> {}, db |-> db]
          [] OTHER -> [txn   |-> open,
                       dirty |-> IF open THEN dirty \cup new ELSE dirty,
                       db    |-> IF open THEN db ELSE db \cup new]

(* The lock; BEGIN inside a transaction, COMMIT or ROLLBACK outside one.    *)
Waits(c, s) == s = "write" /\ \E d \in Conns \ {c} : handle[d].dirty # {}
Illegal(c, s) == \/ s = "begin" /\ handle[c].txn
                 \/ s \in {"commit", "rollback"} /\ ~handle[c].txn

RunsAll(c, id, stmts) ==
    LET after == Effects(c, id, stmts)
    IN  /\ \A i \in DOMAIN stmts : ~Waits(c, stmts[i]) /\ ~Illegal(c, stmts[i])
        /\ handle' = [handle EXCEPT ![c] =
              [txn |-> after.txn, dirty |-> after.dirty,
               stuck |-> @.stuck /\ after.txn]]
        /\ db' = after.db

(* Statement k + 1 fails: illegal, a constraint, busy_timeout, or no memory *)
(* or disk, which may undo the whole transaction.  A COMMIT that fails for  *)
(* a deferred constraint or a busy file leaves the transaction open.  The   *)
(* ROLLBACK of an open transaction does not fail.                           *)
RunsSome(c, id, stmts) ==
    \E k \in 0..(Len(stmts) - 1), undone \in BOOLEAN :
        LET after == Effects(c, id, SubSeq(stmts, 1, k))
            s == stmts[k + 1]
        IN  /\ \A i \in 1..k : ~Waits(c, stmts[i]) /\ ~Illegal(c, stmts[i])
            /\ s \in {"begin", "rollback"} => Illegal(c, s)
            /\ handle' = [handle EXCEPT ![c] =
                  IF undone /\ after.txn /\ s # "begin" THEN FreshHandle
                  ELSE [txn |-> after.txn, dirty |-> after.dirty,
                        stuck |-> @.stuck \/ (s = "commit" /\ after.txn)]]
            /\ db' = after.db

-------------------------------------------------------------------------------
(* executeSync, sqlite_conn_exec_sync: refused while the slot is filled     *)
(* (CallRefused).  Holding slot_mutex, it clears the last error, and runs  *)
(* the statement.  Dart then polls at once what it left in last_result.     *)
SlotIgnored(c) == ~conn[c].stop
MayRunSync(c) == conn[c].slot = NoJob /\ ~conn[c].stop

SyncStart(t) ==
    LET c == task[t].conn
    IN  /\ pool.phase = "open"
        /\ task[t].pc \in {"body", "await"} /\ task[t].n < MaxJobs[t]
        /\ MayRunSync(c)
        /\ \E s \in Syncs[t] :
              /\ pool' = [pool EXCEPT !.phase = "sync", !.at = c,
                             !.job = [id |-> Id(t), owner |-> t, stmts |-> <<s>>]]
              /\ task' = [task EXCEPT ![t] = [task[t] EXCEPT
                    !.n = @ + 1, !.wrote = Wrote(t, <<s>>),
                    !.mixed = @ \/ task[t].pc = "await"]]
        /\ conn' = [conn EXCEPT ![c].error = NoId]
        /\ UNCHANGED <<worker, handle, db>>

SyncReturns ==
    /\ pool.phase = "sync"
    /\ RunsAll(pool.at, pool.job.id, pool.job.stmts)
    /\ conn' = [conn EXCEPT ![pool.at].last = <<>>]
    /\ pool' = [pool EXCEPT !.phase = "open", !.at = 1, !.job = NoJob]
    /\ UNCHANGED <<worker, task>>

(* A body that awaits another statement, answered by now, leaves it behind. *)
Owes(c, code, polls) ==
    IF code = "ok" THEN Append(conn[c].owed, polls) ELSE conn[c].owed
SyncThrows ==
    LET t == pool.job.owner
    IN  /\ pool.phase = "sync"
        /\ RunsSome(pool.at, pool.job.id, pool.job.stmts)
        /\ conn' = [conn EXCEPT
              ![pool.at].error = pool.job.id,
              ![pool.at].owed = Owes(pool.at, task[t].port,
                                     Polls(task[t].kind, task[t].job))]
        /\ pool' = [pool EXCEPT !.phase = "open", !.at = 1, !.job = NoJob]
        /\ task' = [task EXCEPT ![t] = [task[t] EXCEPT
              !.pc = "thrown", !.outcome = "threw",
              !.job = NoJob, !.port = "none"]]
        /\ UNCHANGED worker

-------------------------------------------------------------------------------
(* The worker thread of connection c.  It looks at its slot under           *)
(* slot_mutex, which executeSync may hold.                                  *)
Check(c) ==
    /\ worker[c] = "check"
    /\ ~(pool.phase = "sync" /\ pool.at = c)
    /\ worker' = [worker EXCEPT ![c] = IF conn[c].slot # NoJob THEN "run"
                                      ELSE IF conn[c].stop THEN "exited"
                                      ELSE "asleep"]
    /\ conn' = IF conn[c].slot # NoJob
               THEN [conn EXCEPT ![c].error = NoId] ELSE conn
    /\ UNCHANGED <<pool, handle, db, task>>

(* sqlite_pool_free_slot_payload, slot_filled = 0, then the post.           *)
FlagsKept(after) == [after EXCEPT !.slot = NoJob]
FreeSlot(after) == [after EXCEPT !.slot = NoJob, !.kind = "single"]
Behind(c, code) ==
    IF conn[c].slot.owner \in Tasks THEN conn[c].owed
    ELSE Owes(c, code, Polls(conn[c].kind, conn[c].slot))
Answer(c, after, code) ==
    /\ conn' = [conn EXCEPT ![c] =
                   [FreeSlot(after) EXCEPT !.owed = Behind(c, code)]]
    /\ task' = [t \in Tasks |->
                   IF t = conn[c].slot.owner
                   THEN [task[t] EXCEPT !.port = code] ELSE task[t]]
    /\ worker' = [worker EXCEPT ![c] = "check"]

(* What execute_query, execute_batch and execute_multi_read leave in        *)
(* last_result: one result, one empty wrapper, or a chain.                  *)
Results(kind, job) ==
    CASE kind = "batch" -> <<Result(job.id, 0)>>
      [] kind = "single" -> <<Result(job.id, 1)>>
      [] OTHER -> [i \in DOMAIN job.stmts |-> Result(job.id, i)]

Finish(c) ==
    LET job == conn[c].slot
    IN  /\ worker[c] = "run"
        /\ RunsAll(c, job.id, job.stmts)
        /\ Answer(c, [conn[c] EXCEPT !.last = Results(conn[c].kind, job)], "ok")
        /\ UNCHANGED pool

(* Aborts leave last_result as it is. *)
Aborted(c) ==
    <<[conn[c] EXCEPT !.error = conn[c].slot.id], "aborted">>
BatchErrorIgnored(c) ==
    IF conn[c].kind = "batch"
    THEN <<[conn[c] EXCEPT !.last = Results("batch", conn[c].slot)], "ok">>
    ELSE Aborted(c)
AfterFailure(c) == Aborted(c)
Abort(c) ==
    /\ worker[c] = "run"
    /\ RunsSome(c, conn[c].slot.id, conn[c].slot.stmts)
    /\ Answer(c, AfterFailure(c)[1], AfterFailure(c)[2])
    /\ UNCHANGED pool

Work(c) == Check(c) \/ Finish(c) \/ Abort(c)

-------------------------------------------------------------------------------
Lifecycle == CreateConn \/ CreateFails \/ Stop \/ Join
Sync == SyncReturns \/ SyncThrows

TaskStep(t) == \/ \E tx \in InTx[t] : Lease(t, tx)
               \/ Begin(t) \/ Execute(t) \/ ExecuteBatch(t)
               \/ ExecuteMultiRead(t) \/ SyncStart(t)
               \/ End(t, "commit") \/ End(t, "rollback")
               \/ Receive(t) \/ Release(t)
               \/ CallRefused(t) \/ EndRefused(t)

Next == \/ Lifecycle \/ Destroy \/ Sync
        \/ \E t \in Tasks : TaskStep(t)
        \/ \E c \in Conns : Work(c) \/ DrainBehind(c)

Spec == Init /\ [][Next]_vars

(* create and destroy run to their end, the workers run, and libsqlite3     *)
(* ends every statement: a wait for the lock has busy_timeout.              *)
FairSpec == /\ Spec
            /\ WF_vars(Lifecycle)
            /\ WF_vars(Sync)
            /\ \A c \in Conns : WF_vars(Work(c))

-------------------------------------------------------------------------------
(* What a task decodes is the results of its own call, in the order of its  *)
(* statements, and the error it throws that of its own statement: across    *)
(* lessees, aborts that leave old results, and flags of earlier jobs.       *)
(* Not when executeSync ran between the worker's answer and its reading:    *)
(* the slot is empty by then, so it is not refused, and overwrites both.    *)
(* Nor when the call went out while one left behind was still to be read.   *)
AnswerIsOwn ==
    \A t \in Tasks : pool.phase = "open" /\ Resumes(t)
                        /\ ~task[t].mixed /\ ~task[t].behind =>
        LET job == task[t].job
            decoded == Decoded(task[t].kind, job, conn[task[t].conn].last)
        IN  IF task[t].port = "ok"
            THEN \A i \in DOMAIN decoded : decoded[i] = Result(job.id, i)
            ELSE conn[task[t].conn].error = job.id

(* sqlite_pool.h:105, executeSync and the worker are never both in          *)
(* libsqlite3 on one handle, whose transaction and result hand-off have no  *)
(* other protection than the slot.                                          *)
OneThreadOnDb ==
    pool.phase = "sync" => worker[pool.at] # "run" /\ conn[pool.at].slot = NoJob

(* with_sqlite_transaction.dart:10: a transaction whose body threw leaves   *)
(* nothing, one that returned left everything, and one whose COMMIT failed  *)
(* leaves nothing yet, also when an earlier lessee left a transaction open  *)
(* on the connection.  Not when executeSync wrote after libsqlite3 undid    *)
(* the transaction and before Dart knew.                                    *)
TransactionIsAtomic ==
    \A t \in Tasks : task[t].tx /\ task[t].pc = "leaving" /\ ~task[t].mixed =>
        IF task[t].outcome = "returned" THEN task[t].wrote \subseteq db
        ELSE task[t].wrote \cap db = {}

(* with_sqlite_transaction.dart:11, "rolls back and rethrows on error": no  *)
(* connection goes back with a transaction open, holding the file's only    *)
(* write lock.                                                              *)
ReturnedClean == \A c \in Conns : ~conn[c].inUse => ~handle[c].txn

(* What is true of it: the exceptions are a COMMIT that failed and left the *)
(* transaction open, after which commit() gives the connection back, and a  *)
(* ROLLBACK refused because the body had left a statement behind.           *)
ReturnedCleanUnlessStuck ==
    \A c \in Conns : ~conn[c].inUse => ~handle[c].txn \/ handle[c].stuck

(* The isolate is not blocked for ever: not by executeSync waiting for a    *)
(* lock that only a blocked task could give back, nor by                    *)
(* sqlite_pool_destroy or a failed create joining workers that wait for one *)
(* another's lock.                                                          *)
IsolateReturns ==
    pool.phase \in {"sync", "stop", "join"} ~> pool.phase \in {"open", "freed"}
===============================================================================
