------------------------------- MODULE MysqlPool -------------------------------
(***************************************************************************)
(* The MySQL stack: mysql_pool.c, mysql_pool_worker.c and, on the isolate, *)
(* MysqlQueryExecutor and MysqlUnitOfWork.  A connection is the mailbox of *)
(* NativeSlot with three kinds of statement: a single one, a ';'-joined    *)
(* batch whose results are discarded, and a ';'-joined multi-read whose    *)
(* results are chained.  BEGIN is deferred and joined to the first         *)
(* statement of the transaction.                                           *)
(*                                                                         *)
(* The server (external) keeps, per session, an open transaction and the   *)
(* writes it has not committed; a write waits while another session has    *)
(* uncommitted writes (one contended row).  A statement is named by what   *)
(* it does: "call" is one that answers with more than one result.          *)
(*                                                                         *)
(* The isolate runs one synchronous segment at a time; mysql_pool_create   *)
(* and mysql_pool_destroy are such segments, several steps long, with the  *)
(* workers running in between (`pool.phase`).  Each task awaits its own    *)
(* statements.  A body that fails ends its transaction.                    *)
(***************************************************************************)
EXTENDS Integers, FiniteSets, Sequences, SequencesExt

CONSTANTS Tasks, NoTask,
          MaxSize,    \* max_size
          MaxJobs,    \* bound, per task: it makes no new lease or call after
                      \* that many statements
          Singles, Batches, Reads, \* per task: what its bodies execute
          InTx        \* per task: in a transaction, without one, or both

ASSUME MaxSizeIsPositive == MaxSize \in Nat \ {0}
ASSUME MaxJobsIsNat == MaxJobs \in [Tasks -> Nat]
(* BEGIN, COMMIT and ROLLBACK are left to MysqlUnitOfWork; an empty list is *)
(* not submitted.  A CALL among the reads would shift their results.        *)
ASSUME BodiesReadWriteAndCall ==
    \A t \in Tasks :
        /\ Singles[t] \subseteq {"read", "write", "call"}
        /\ Batches[t] \subseteq Seq({"read", "write", "call"}) \ {<<>>}
        /\ Reads[t] \subseteq Seq({"read", "write"}) \ {<<>>}
        /\ InTx[t] \subseteq BOOLEAN
ASSUME NoTaskIsNoTask == NoTask \notin Tasks

Conns == 1..MaxSize

(* A call is named by its task and a number. *)
NoId == <<NoTask, 0>>
Ids == {NoId} \cup UNION {{t} \X (1..(MaxJobs[t] + 1)) : t \in Tasks}
NoJob == [id |-> NoId, owner |-> NoTask, kind |-> "none", stmts |-> <<>>]

VARIABLES pool,     \* the segment of create or destroy that is running
          conn,     \* mysql_conn_t: in_use, slot, last_result, last_errno, stop
          worker,   \* per connection: where its thread is
          session,  \* external: the server's side of each connection
          db,       \* external: statements whose writes are durable
          task      \* Dart: the tasks and their executors

vars == <<pool, conn, worker, session, db, task>>

FreshConn == [inUse |-> FALSE, slot |-> NoJob, last |-> <<>>, error |-> NoId,
              stop |-> FALSE]
FreshSession(up) == [up |-> up, txn |-> FALSE, dirty |-> {}, unread |-> FALSE,
                     killed |-> FALSE]
(* What a poll returns: the result of the i-th statement of a call, 0 for   *)
(* the empty wrapper of a batch.                                            *)
Result(id, i) == [id |-> id, stmt |-> i]

IdleTask == [pc |-> "out", n |-> 0, conn |-> 0, tx |-> FALSE, begin |-> FALSE,
             job |-> NoJob, port |-> "none", wrote |-> {}, outcome |-> "none"]

Init ==
    /\ pool = [phase |-> "create", at |-> 1, made |-> 0, undo |-> FALSE]
    /\ conn = [c \in Conns |-> FreshConn]
    /\ worker = [c \in Conns |-> "none"]
    /\ session = [c \in Conns |-> FreshSession(FALSE)]
    /\ db = {}
    /\ task = [t \in Tasks |-> IdleTask]

Goto(phase, at) == pool' = [pool EXCEPT !.phase = phase, !.at = at]
Woken(c) == IF worker[c] = "asleep" THEN "check" ELSE worker[c]

-------------------------------------------------------------------------------
(* mysql_pool_create: init_conn for each connection in turn; when one       *)
(* fails, the ones made so far are stopped and joined, one after another.   *)
CreateConn ==
    /\ pool.phase = "create"
    /\ conn' = [conn EXCEPT ![pool.at] = FreshConn]
    /\ worker' = [worker EXCEPT ![pool.at] = "check"]
    /\ session' = [session EXCEPT ![pool.at] = FreshSession(TRUE)]
    /\ pool' = [pool EXCEPT !.made = @ + 1,
                            !.phase = IF pool.at = MaxSize THEN "open" ELSE @,
                            !.at = IF pool.at = MaxSize THEN 1 ELSE @ + 1]
    /\ UNCHANGED <<db, task>>

CreateFails ==
    /\ pool.phase = "create"
    /\ pool' = [pool EXCEPT !.phase = IF pool.made = 0 THEN "freed" ELSE "stop",
                            !.at = 1, !.undo = TRUE]
    /\ UNCHANGED <<conn, worker, session, db, task>>

Destroy ==
    /\ pool.phase = "open"
    /\ Goto("stop", 1)
    /\ UNCHANGED <<conn, worker, session, db, task>>

(* mysql_pool_destroy tells one worker after another to stop, then tears    *)
(* the connections down one after another; the undo of mysql_pool_create    *)
(* does both to one connection after another.  Telling is: the flag,        *)
(* mysql_pool_cancel (not in the undo), the signal; nobody can submit in    *)
(* between, and NativeSlot has the flag and the signal apart.  The KILL     *)
(* QUERY goes over a side connection, best effort: it stops the statement   *)
(* the server is executing, and does nothing to an idle session.            *)
StopSignalForgotten(c) == UNCHANGED worker
StopSignal(c) == worker' = [worker EXCEPT ![c] = Woken(c)]

mysql_pool_cancel(c) ==
    \/ session' = [session EXCEPT ![c].killed = worker[c] = "server"]
    \/ UNCHANGED session

Stop ==
    /\ pool.phase = "stop"
    /\ conn' = [conn EXCEPT ![pool.at].stop = TRUE]
    /\ IF pool.undo THEN UNCHANGED session ELSE mysql_pool_cancel(pool.at)
    /\ StopSignal(pool.at)
    /\ IF pool.undo THEN Goto("join", pool.at)
       ELSE IF pool.at < pool.made THEN Goto("stop", pool.at + 1)
       ELSE Goto("join", 1)
    /\ UNCHANGED <<db, task>>

(* teardown_conn: the server rolls back what the session had open. *)
Join ==
    /\ pool.phase = "join"
    /\ worker[pool.at] = "exited"
    /\ conn' = [conn EXCEPT ![pool.at] = [FreshConn EXCEPT !.stop = TRUE]]
    /\ session' = [session EXCEPT ![pool.at] = FreshSession(FALSE)]
    /\ IF pool.at = pool.made THEN Goto("freed", 1)
       ELSE Goto(IF pool.undo THEN "stop" ELSE "join", pool.at + 1)
    /\ UNCHANGED <<worker, db, task>>

-------------------------------------------------------------------------------
(* The isolate.  mysql_pool_acquire is only called when the gate knows of a *)
(* free connection (ConnectionPoolGate); begin() sends nothing.             *)
Lease(t, tx) ==
    /\ pool.phase = "open"
    /\ task[t].pc = "out"
    /\ task[t].n < MaxJobs[t]
    /\ \E c \in Conns :
          /\ ~conn[c].inUse
          /\ \A d \in 1..(c - 1) : conn[d].inUse
          /\ conn' = [conn EXCEPT ![c].inUse = TRUE]
          /\ task' = [task EXCEPT ![t] = [IdleTask EXCEPT
                         !.pc = "body", !.n = task[t].n, !.conn = c,
                         !.tx = tx, !.begin = tx]]
    /\ UNCHANGED <<pool, worker, session, db>>

(* The submits put a statement in the mailbox, if it is empty and the       *)
(* worker is not told to stop: always the case when a task awaits what it   *)
(* submits and the pool is open (NativeSlot: NoSpuriousRefusal).            *)
Accepts(c) == conn[c].slot = NoJob /\ ~conn[c].stop

Submit(t, kind, stmts, then) ==
    LET c == task[t].conn
        job == [id |-> <<t, task[t].n + 1>>, owner |-> t, kind |-> kind,
                stmts |-> stmts]
    IN  /\ pool.phase = "open"
        /\ Accepts(c)
        /\ conn' = [conn EXCEPT ![c].slot = job]
        /\ worker' = [worker EXCEPT ![c] = Woken(c)]
        /\ task' = [task EXCEPT ![t] = [task[t] EXCEPT
               !.pc = then, !.n = @ + 1, !.job = job, !.begin = FALSE,
               !.wrote = IF "write" \in ToSet(stmts) THEN @ \cup {job.id} ELSE @]]
        /\ UNCHANGED <<pool, session, db>>

(* `_pendingBegin`: BEGIN goes in front of the first statements. *)
BeginForgotten(t, stmts) == stmts
WithBegin(t, stmts) == IF task[t].begin THEN <<"begin">> \o stmts ELSE stmts

InBody(t) == task[t].pc = "body" /\ task[t].n < MaxJobs[t]

Execute(t) == InBody(t) /\ \E s \in Singles[t] :
    Submit(t, IF task[t].begin THEN "multi" ELSE "single",
           WithBegin(t, <<s>>), "await")
ExecuteBatch(t) == InBody(t) /\ \E stmts \in Batches[t] :
    Submit(t, "batch", WithBegin(t, stmts), "await")
ExecuteMultiRead(t) == InBody(t) /\ \E reads \in Reads[t] :
    Submit(t, "multi", WithBegin(t, reads), "await")
ExecuteNothing(t) ==
    InBody(t) /\ task[t].begin /\ Submit(t, "single", <<"begin">>, "await")

(* The drain: batch polls one wrapper (two when BEGIN was joined) and       *)
(* decodes nothing, the others poll one per statement, BEGIN included; a    *)
(* NULL poll decodes as empty.                                              *)
Empty == Result(NoId, 0)
Polls(job) == IF job.kind = "batch"
              THEN IF Head(job.stmts) = "begin" THEN 2 ELSE 1
              ELSE Len(job.stmts)
Rest(last, n) == SubSeq(last, n + 1, Len(last))
Decoded(job, last) ==
    IF job.kind = "batch" THEN <<>>
    ELSE [i \in 1..Polls(job) |-> IF i <= Len(last) THEN last[i] ELSE Empty]

(* native_mysql_last_errno and _last_error, read on code 2. *)
LastError(c) == conn[c].error

(* `await port.first` resolves: 1 drains, 2 reads last_errno and throws.    *)
(* The isolate is not inside destroy, so the connection still exists.       *)
Resumes(t) == /\ task[t].pc \in {"await", "ending"}
              /\ task[t].port # "none"
Receive(t) ==
    LET c == task[t].conn
        fine == task[t].port = "ok"
        ending == task[t].pc = "ending"
    IN  /\ pool.phase = "open"
        /\ Resumes(t)
        /\ conn' = IF fine
                   THEN [conn EXCEPT ![c].last = Rest(@, Polls(task[t].job))]
                   ELSE conn
        /\ task' = [task EXCEPT ![t] = [task[t] EXCEPT
              !.pc = IF ending THEN "leaving" ELSE IF fine THEN "body" ELSE "thrown",
              !.outcome = IF @ # "none" \/ (fine /\ ~ending) THEN @
                          ELSE IF ~ending THEN "threw"
                          ELSE IF fine THEN "returned" ELSE "commit_failed",
              !.job = NoJob, !.port = "none"]]
        /\ UNCHANGED <<pool, worker, session, db>>

(* commit() and rollback(): one statement, with the BEGIN when the body     *)
(* executed nothing.  Whatever comes back, the connection is released; the  *)
(* rollback() after a commit() that threw finds no active transaction.      *)
End(t, s) ==
    /\ task[t].tx
    /\ task[t].pc = IF s = "commit" THEN "body" ELSE "thrown"
    /\ Submit(t, IF task[t].begin THEN "multi" ELSE "single",
              WithBegin(t, <<s>>), "ending")

ThrowEndsIt(t) == ~task[t].tx \/ task[t].pc = "thrown"
HasNothingToEnd(t) == ~task[t].tx
Release(t) ==
    /\ pool.phase = "open"
    /\ \/ task[t].pc = "leaving"
       \/ HasNothingToEnd(t) /\ task[t].pc \in {"body", "thrown"}
    /\ conn' = [conn EXCEPT ![task[t].conn].inUse = FALSE]
    /\ task' = [task EXCEPT ![t] = [IdleTask EXCEPT !.n = task[t].n]]
    /\ db' = db \ task[t].wrote   \* nobody looks at them any more
    /\ UNCHANGED <<pool, worker, session>>

-------------------------------------------------------------------------------
(* The worker thread of connection c.  What it executes from is the slot,   *)
(* which stays filled, and unchanged, until it is done (NativeSlot).        *)
Check(c) ==
    /\ worker[c] = "check"
    /\ worker' = [worker EXCEPT ![c] = IF conn[c].slot # NoJob THEN "send"
                                      ELSE IF conn[c].stop THEN "exited"
                                      ELSE "asleep"]
    /\ UNCHANGED <<pool, conn, session, db, task>>

(* The end of worker_main's loop: empty the slot, then post.  Nobody looks  *)
(* in between but the task that awaits the answer; NativeSlot has the two   *)
(* steps.                                                                   *)
Answer(c, after, code) ==
    /\ conn' = [conn EXCEPT ![c] = [after EXCEPT !.slot = NoJob]]
    /\ task' = [task EXCEPT ![conn[c].slot.owner].port = code]
    /\ worker' = [worker EXCEPT ![c] = "check"]

(* Clear the last error, then mysql_real_query.  It fails at once when the  *)
(* connection is lost, or when an earlier statement left results unread     *)
(* ("Commands out of sync").                                                *)
Send(c) ==
    /\ worker[c] = "send"
    /\ IF session[c].up /\ ~session[c].unread
       THEN /\ worker' = [worker EXCEPT ![c] = "server"]
            /\ conn' = [conn EXCEPT ![c].error = NoId]
            /\ UNCHANGED task
       ELSE Answer(c, [conn[c] EXCEPT !.error = conn[c].slot.id], "aborted")
    /\ UNCHANGED <<pool, session, db>>

(* External: the effect of statements on a session and on the database.     *)
(* BEGIN, which commits what is open, comes first, COMMIT or ROLLBACK last. *)
Effects(c, stmts) ==
    LET Does(s) == s \in ToSet(stmts)
        open == Does("begin") \/ session[c].txn
        dirty == IF Does("begin") THEN {} ELSE session[c].dirty
        saved == IF Does("begin") THEN db \cup session[c].dirty ELSE db
        new == IF Does("write") THEN {conn[c].slot.id} ELSE {}
    IN  CASE Does("commit") ->
                [txn |-> FALSE, dirty |-> {}, db |-> saved \cup dirty]
          [] Does("rollback") -> [txn |-> FALSE, dirty |-> {}, db |-> saved]
          [] OTHER -> [txn   |-> open,
                       dirty |-> IF open THEN dirty \cup new ELSE dirty,
                       db    |-> IF open THEN saved ELSE saved \cup new]

Waits(c, s) == s = "write" /\ \E d \in Conns \ {c} : session[d].dirty # {}

(* What execute_single, execute_batch and execute_multi_read leave in       *)
(* last_result, which they overwrite.  A "call" has a second result: single *)
(* leaves it on the connection, multi-read puts it in the chain.            *)
Results(stmts, i) == i + Cardinality({j \in 1..i : stmts[j] = "call"})
Overwriting(c) ==
    LET job == conn[c].slot
        n == Len(job.stmts)
        of(k) == Min({i \in 1..n : Results(job.stmts, i) >= k})
    IN  CASE job.kind = "multi" ->
               [k \in 1..Results(job.stmts, n) |-> Result(job.id, of(k))]
          [] job.kind = "single" -> <<Result(job.id, 1)>>
          [] OTHER -> <<Result(job.id, 0)>>
Appended(c) == conn[c].last \o Overwriting(c)
Chain(c) == Overwriting(c)

ServeAll(c) ==
    LET job == conn[c].slot
        after == Effects(c, job.stmts)
    IN  /\ worker[c] = "server"
        /\ ~session[c].killed
        /\ \A i \in DOMAIN job.stmts : ~Waits(c, job.stmts[i])
        /\ session' = [session EXCEPT ![c] = [session[c] EXCEPT
              !.txn = after.txn, !.dirty = after.dirty,
              !.unread = job.kind = "single" /\ "call" \in ToSet(job.stmts)]]
        /\ db' = after.db
        /\ Answer(c, [conn[c] EXCEPT !.last = Chain(c)], "ok")
        /\ UNCHANGED pool

(* Statement k + 1 fails, by itself, by a KILL, or because its lock wait    *)
(* times out; or the connection is lost after k statements, before their    *)
(* answer arrives: a COMMIT may have committed.  The worker captures the    *)
(* error.                                                                   *)
AbortCode == "aborted"
ServeSome(c) ==
    LET job == conn[c].slot
    IN  /\ worker[c] = "server"
        /\ \E k \in 0..Len(job.stmts), lost \in BOOLEAN :
              LET after == Effects(c, SubSeq(job.stmts, 1, k))
              IN  /\ \A i \in 1..k : ~Waits(c, job.stmts[i])
                  /\ lost \/ /\ k < Len(job.stmts)
                             /\ job.stmts[k + 1] \in {"begin", "commit", "rollback"}
                                  => session[c].killed
                  /\ session' = [session EXCEPT ![c] =
                        IF lost THEN FreshSession(FALSE)
                        ELSE [session[c] EXCEPT !.killed = FALSE, !.txn = after.txn,
                                       !.dirty = after.dirty]]
                  /\ db' = after.db
        /\ Answer(c, [conn[c] EXCEPT !.error = job.id], AbortCode)
        /\ UNCHANGED pool

Work(c) == Check(c) \/ Send(c) \/ ServeAll(c) \/ ServeSome(c)

-------------------------------------------------------------------------------
Lifecycle == CreateConn \/ CreateFails \/ Stop \/ Join

TaskStep(t) == \/ \E tx \in InTx[t] : Lease(t, tx)
               \/ Execute(t) \/ ExecuteBatch(t) \/ ExecuteMultiRead(t)
               \/ ExecuteNothing(t) \/ End(t, "commit") \/ End(t, "rollback")
               \/ Receive(t) \/ Release(t)

Next == \/ Lifecycle \/ Destroy
        \/ \E t \in Tasks : TaskStep(t)
        \/ \E c \in Conns : Work(c)

Spec == Init /\ [][Next]_vars

(* create and destroy run to their end, the workers run, and the server     *)
(* ends every statement: a lock wait has a timeout.                         *)
FairSpec == /\ Spec
            /\ WF_vars(Lifecycle)
            /\ \A c \in Conns : WF_vars(Work(c))

-------------------------------------------------------------------------------
(* The types of the pool's records.  The chain on a connection is what is   *)
(* left of one call: whoever drains it stopped somewhere in it, and the     *)
(* next call replaces it.                                                   *)
OneCall(last) == \A i \in DOMAIN last : last[i].id = last[1].id
TypeOK ==
    /\ pool.phase \in {"create", "open", "stop", "join", "freed"}
    /\ pool.at \in Conns /\ pool.made \in 0..MaxSize /\ pool.undo \in BOOLEAN
    /\ db \subseteq Ids
    /\ \A c \in Conns :
          /\ conn[c].inUse \in BOOLEAN /\ conn[c].stop \in BOOLEAN
          /\ conn[c].slot.id \in Ids /\ conn[c].error \in Ids
          /\ conn[c].last \in Seq([id : Ids, stmt : Nat])
          /\ OneCall(conn[c].last)
          /\ worker[c] \in {"none", "check", "asleep", "send", "server",
                            "exited"}
          /\ session[c].up \in BOOLEAN /\ session[c].txn \in BOOLEAN
          /\ session[c].dirty \subseteq Ids
    /\ \A t \in Tasks :
          /\ task[t].pc \in {"out", "body", "await", "ending", "thrown",
                             "leaving"}
          /\ task[t].conn \in 0..MaxSize

(* What a task reads from the shared connection is its own: each result it  *)
(* decodes is that of the statement at that place of its own call, even     *)
(* when a joined "call" of an earlier lessee left results in the chain      *)
(* (mysql_pool_release does not free it), and the error of an abort is that *)
(* of its own statement ("Valid until the next query on this conn").        *)
AnswerIsOwn ==
    \A t \in Tasks : pool.phase = "open" /\ Resumes(t) =>
        LET job == task[t].job
            decoded == Decoded(job, conn[task[t].conn].last)
        IN  IF task[t].port = "ok"
            THEN \A i \in DOMAIN decoded : decoded[i] = Result(job.id, i)
            ELSE LastError(task[t].conn) = job.id

(* mysql_pool_worker.c:101, "aborts on a mid-batch error so the caller      *)
(* rolls back the surrounding transaction": a transaction whose body threw  *)
(* leaves nothing, one that returned left everything, and a failed COMMIT   *)
(* leaves all or nothing.                                                   *)
TransactionIsAtomic ==
    \A t \in Tasks : task[t].tx /\ task[t].pc = "leaving" =>
        CASE task[t].outcome = "threw" -> task[t].wrote \cap db = {}
          [] task[t].outcome = "returned" -> task[t].wrote \subseteq db
          [] OTHER -> \/ task[t].wrote \subseteq db
                      \/ task[t].wrote \cap db = {}

(* mysql_unit_of_work.dart:17, commit, rollback and close end the           *)
(* transaction before the connection goes back: nobody borrows one with an  *)
(* open transaction, whose locks block the other connections.  The one      *)
(* exception: a COMMIT or ROLLBACK does not reach the server when an        *)
(* earlier statement left results unread.                                   *)
ReturnedCleanUnlessOutOfSync ==
    \A c \in Conns : ~conn[c].inUse => ~session[c].txn \/ session[c].unread

(* mysql_pool_destroy, and a mysql_pool_create that fails, return, wherever *)
(* the workers are and whatever locks the connections hold.                 *)
DestroyReturns == pool.phase = "stop" ~> pool.phase = "freed"
===============================================================================
