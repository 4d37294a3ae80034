------------------------------ MODULE NativeSlot ------------------------------
(***************************************************************************)
(* One native_conn_t: the single-slot mailbox between the Dart isolate and *)
(* the worker thread that owns the connection (native_pool.c,              *)
(* native_pool_worker.c), with the Dart side that uses it: NativeConn and  *)
(* the executors submit, wait for the port message, then drain the results *)
(* with poll_result.                                                       *)
(*                                                                         *)
(* Threads: the worker, and the isolate.  The isolate runs one synchronous *)
(* segment at a time (`isolate`); a drain and pool_destroy take several    *)
(* steps with the worker running in between, everything else is one C      *)
(* call made under slot_mutex.  What a statement does on the server is not *)
(* here (see PgConnection): it ends, with a status and some results.       *)
(*                                                                         *)
(* Nothing in the code stops a task from starting a statement on an        *)
(* executor whose previous statement it, or another task of the same       *)
(* transaction, has not awaited (Future.wait over one executor), from      *)
(* giving the connection back with a statement in flight                   *)
(* (withPostgresConnection whose body does not await it), or from closing  *)
(* the pool under a task that still uses it; `overlapped` and              *)
(* `closedEarly` remember whether that happened.                           *)
(*                                                                         *)
(* PGresults wait for poll_result in two places: in the native chain, kept *)
(* there by execute_multi_read, and unread in libpq.  pool_release frees   *)
(* the first and never looks at the second.                                *)
(***************************************************************************)
EXTENDS Integers, Sequences

CONSTANTS Tasks, NoTask, MaxJobs

ASSUME MaxJobsIsNat == MaxJobs \in Nat
ASSUME NoTaskIsNoTask == NoTask \notin Tasks

(* Submitted statements are numbered in the order they were accepted.  A   *)
(* number stands for the payload and for the port_id it is answered on.    *)
Jobs == 1..MaxJobs
NoJob == 0

(* pool_destroy, run by the isolate, as it reaches this connection. *)
Closer == "closer"

VARIABLES lessees,   \* tasks the connection is lent to
          pc,        \* per task: "out", "idle", "waiting", "draining", "refused"
          mine,      \* per task: the statement it submitted last
          isolate,   \* who is inside a multi-step synchronous segment
          slot,      \* the mailbox: NoJob when slot_filled = 0
          nextJob,   \* number the next accepted statement gets
          wpc,       \* worker: "check", "asleep", "run", "clear", "post", "exited"
          job,       \* worker: its snapshot of the slot
          status,    \* worker: outcome of `job`
          chain,     \* chain_head: PGresults kept, by statement
          inbox,     \* PGresults PQgetResult would give, by statement
          answer,    \* per statement: what its port received
          shutdown,  \* shutdown_requested
          closer,    \* pool_destroy: "open", "flagged", "signalled", "freed"
          overlapped, closedEarly, \* history, see above
          gaveUp,    \* history: was a statement ever aborted here?
          left       \* history: has a drain of this lease left results of
                     \* its executeMultiRead in the chain?

workerVars == <<wpc, job, status>>
dartVars == <<lessees, pc, mine, isolate>>
useVars == <<overlapped, closedEarly, gaveUp, left>>
results == <<chain, inbox>>
vars == <<lessees, pc, mine, isolate, slot, nextJob, wpc, job, status,
          results, answer, shutdown, closer, useVars>>

TypeOK ==
    /\ lessees \subseteq Tasks
    /\ pc \in [Tasks -> {"out", "idle", "waiting", "draining", "refused"}]
    /\ mine \in [Tasks -> Jobs \cup {NoJob}]
    /\ isolate \in Tasks \cup {NoTask, Closer}
    /\ slot \in Jobs \cup {NoJob}
    /\ nextJob \in 1..(MaxJobs + 1)
    /\ wpc \in {"check", "asleep", "run", "clear", "post", "exited"}
    /\ job \in Jobs \cup {NoJob}
    /\ status \in {"ok", "aborted"}
    /\ chain \in Seq(Jobs) /\ inbox \in Seq(Jobs)
    /\ answer \in [Jobs -> {"none", "ok", "aborted"}]
    /\ shutdown \in BOOLEAN
    /\ closer \in {"open", "flagged", "signalled", "freed"}
    /\ overlapped \in BOOLEAN /\ closedEarly \in BOOLEAN
    /\ gaveUp \in BOOLEAN /\ left \in BOOLEAN

Init ==
    /\ lessees = {}
    /\ pc = [t \in Tasks |-> "out"]
    /\ mine = [t \in Tasks |-> NoJob]
    /\ isolate = NoTask
    /\ slot = NoJob
    /\ nextJob = 1
    /\ wpc = "check"
    /\ job = NoJob
    /\ status = "ok"
    /\ chain = <<>> /\ inbox = <<>>
    /\ answer = [j \in Jobs |-> "none"]
    /\ shutdown = FALSE
    /\ closer = "open"
    /\ overlapped = FALSE /\ closedEarly = FALSE
    /\ gaveUp = FALSE /\ left = FALSE

Goto(t, l) == pc' = [pc EXCEPT ![t] = l]

-------------------------------------------------------------------------------
(* The pieces the steps below share.  Each is preceded by the faults it     *)
(* could plausibly have: variants that no action uses, kept to show that    *)
(* the properties would notice them.                                        *)

(* pthread_cond_signal(&slot_cond): only the worker waits on it. *)
SignalForgotten == wpc
Signalled == IF wpc = "asleep" THEN "check" ELSE wpc

(* pool_acquire: in_use = 1. *)
MarkLease(t) == lessees' = lessees \cup {t}

(* submit_locked: slot_filled is 0. *)
OccupiedIsFree == TRUE
SlotIsFree == slot = NoJob

(* The worker's wait predicate: is there a statement to take? *)
SlotIsFilled == slot # NoJob

(* What `await port.first` yields to the executor. *)
NotAwaited(t) == "ok"
DartSideTimeout(t) ==
    IF answer[mine[t]] = "none" THEN "aborted" ELSE answer[mine[t]]
Reply(t) == answer[mine[t]]

(* pool_release: native_pool_free_result_chain.  PGresults that libpq has   *)
(* not handed out stay where they are.                                      *)
ChainKept == chain
ChainFreed == <<>>

(* k PGresults of the statement the worker executes. *)
Copies(k) == [i \in 1..k |-> job]

-------------------------------------------------------------------------------
(* The Dart isolate. *)

Lease(t) ==
    /\ isolate = NoTask
    /\ closer = "open"
    /\ pc[t] = "out"
    /\ MarkLease(t)
    /\ overlapped' = (overlapped \/ lessees # {})
    /\ left' = (left /\ lessees # {})
    /\ Goto(t, "idle")
    /\ UNCHANGED <<mine, isolate, slot, nextJob, workerVars, results, answer,
                   shutdown, closer, closedEarly, gaveUp>>

(* submit_locked accepts: the slot is empty and the worker not told to stop. *)
Submit(t) ==
    /\ isolate = NoTask
    /\ closer # "freed"
    /\ pc[t] = "idle"
    /\ SlotIsFree
    /\ ~shutdown
    /\ nextJob <= MaxJobs
    /\ slot' = nextJob
    /\ nextJob' = nextJob + 1
    /\ mine' = [mine EXCEPT ![t] = nextJob]
    /\ wpc' = Signalled
    /\ Goto(t, "waiting")
    /\ UNCHANGED <<lessees, isolate, job, status, results, answer, shutdown,
                   closer, useVars>>

(* submit_locked returns 0 and the executor throws. *)
SubmitRefused(t) ==
    /\ isolate = NoTask
    /\ closer # "freed"
    /\ pc[t] = "idle"
    /\ ~SlotIsFree \/ shutdown
    /\ Goto(t, "refused")
    /\ UNCHANGED <<lessees, mine, isolate, slot, nextJob, workerVars, results,
                   answer, shutdown, closer, useVars>>

(* `await port.first` resolves: 1 starts the drain, 2 throws at once. *)
Receive(t) ==
    /\ isolate = NoTask
    /\ pc[t] = "waiting"
    /\ \/ /\ Reply(t) = "ok"
          /\ Goto(t, "draining")
          /\ isolate' = t
       \/ /\ Reply(t) = "aborted"
          /\ Goto(t, "idle")
          /\ UNCHANGED isolate
    /\ UNCHANGED <<lessees, mine, slot, nextJob, workerVars, results, answer,
                   shutdown, closer, useVars>>

(* One poll_result of the drain loop: the head of the chain, else what      *)
(* PQgetResult gives; NULL ends the loop.                                   *)
Poll(t) ==
    /\ isolate = t
    /\ pc[t] = "draining"
    /\ \/ /\ chain # <<>>
          /\ chain' = Tail(chain)
          /\ UNCHANGED <<inbox, pc, isolate>>
       \/ /\ chain = <<>> /\ inbox # <<>>
          /\ inbox' = Tail(inbox)
          /\ UNCHANGED <<chain, pc, isolate>>
       \/ /\ chain = <<>> /\ inbox = <<>>
          /\ Goto(t, "idle")
          /\ isolate' = NoTask
          /\ UNCHANGED results
    /\ UNCHANGED <<lessees, mine, slot, nextJob, workerVars, answer, shutdown,
                   closer, useVars>>

(* executeMultiRead polls once per element of its list: when the strings    *)
(* hold more statements than that, their results stay in the chain (libpq   *)
(* itself was read to its end by execute_multi_read).                       *)
StopPolling(t) ==
    /\ isolate = t
    /\ pc[t] = "draining"
    /\ chain # <<>> /\ Head(chain) = mine[t] /\ inbox = <<>>
    /\ left' = TRUE
    /\ Goto(t, "idle")
    /\ isolate' = NoTask
    /\ UNCHANGED <<lessees, mine, slot, nextJob, workerVars, results, answer,
                   shutdown, closer, overlapped, closedEarly, gaveUp>>

(* The scope that holds the lease ends: pool_release, whatever the task is  *)
(* doing.  A statement in flight is not awaited any more, but its           *)
(* continuation still runs: it will be answered, drain, and may even submit *)
(* again.  A task that shares the connection, or was left over from a lease *)
(* that has ended, just stops using it.  After close() the Dart side no     *)
(* longer calls into C.                                                     *)
Release(t) ==
    /\ isolate = NoTask
    /\ pc[t] \in {"idle", "refused"} \/ (pc[t] = "waiting" /\ t \in lessees)
    /\ lessees' = lessees \ {t}
    /\ \/ /\ t \in lessees /\ closer = "open"
          /\ chain' = ChainFreed
       \/ /\ lessees # {t} \/ closer # "open"
          /\ UNCHANGED chain
    /\ overlapped' = (overlapped \/ pc[t] = "waiting")
    /\ IF pc[t] = "waiting" THEN UNCHANGED pc ELSE Goto(t, "out")
    /\ UNCHANGED <<mine, isolate, slot, nextJob, workerVars, inbox, answer,
                   shutdown, closer, closedEarly, gaveUp, left>>

-------------------------------------------------------------------------------
(* The worker thread. *)

(* Lock slot_mutex: take the statement (slot_filled stays 1), or leave, or  *)
(* wait on slot_cond.  A filled slot is served even after shutdown.         *)
WorkerCheck ==
    /\ wpc = "check"
    /\ \/ SlotIsFilled /\ wpc' = "run" /\ job' = slot
       \/ ~SlotIsFilled /\ shutdown /\ wpc' = "exited" /\ UNCHANGED job
       \/ ~SlotIsFilled /\ ~shutdown /\ wpc' = "asleep" /\ UNCHANGED job
    /\ UNCHANGED <<dartVars, slot, nextJob, status, results, answer, shutdown,
                   closer, useVars>>

WorkerSpuriousWake ==
    /\ wpc = "asleep"
    /\ wpc' = "check"
    /\ UNCHANGED <<dartVars, slot, nextJob, job, status, results, answer,
                   shutdown, closer, useVars>>

(* execute_*, when it posts 1: execute_multi_read has put its results in a  *)
(* new chain; execute_single has seen the first of its results, the isolate *)
(* reads them from libpq; execute_pipeline has read as many as it is owed.  *)
Completes ==
    /\ status' = "ok"
    /\ UNCHANGED gaveUp
    /\ \E k \in 1..2 :
          \/ inbox = <<>> /\ chain' = Copies(k) /\ UNCHANGED inbox
          \/ inbox' = inbox \o Copies(k) /\ UNCHANGED chain
          \/ /\ inbox' = SubSeq(inbox \o Copies(k), k + 1, Len(inbox) + k)
             /\ UNCHANGED chain

(* execute_*, when it posts 2: whatever of its answers still comes stays in *)
(* libpq.  execute_multi_read alone frees the chain.                        *)
GivesUp ==
    /\ status' = "aborted"
    /\ gaveUp' = TRUE
    /\ \E k \in 0..2 : inbox' = inbox \o Copies(k)
    /\ chain' \in {chain, <<>>}

WorkerRunPostsFirst ==
    /\ wpc = "run"
    /\ wpc' = "clear"
    /\ Completes
    /\ answer' = [answer EXCEPT ![job] = "ok"]
    /\ UNCHANGED <<dartVars, slot, nextJob, job, shutdown, closer, overlapped,
                   closedEarly, left>>
WorkerRun ==
    /\ wpc = "run"
    /\ wpc' = "clear"
    /\ Completes \/ GivesUp
    /\ UNCHANGED <<dartVars, slot, nextJob, job, answer, shutdown, closer,
                   overlapped, closedEarly, left>>

(* Clear the slot before the post ... *)
WorkerClear ==
    /\ wpc = "clear"
    /\ wpc' = "post"
    /\ slot' = NoJob
    /\ UNCHANGED <<dartVars, nextJob, job, status, results, answer, shutdown,
                   closer, useVars>>

(* ... then Dart_PostCObject_DL on the port of the snapshot. *)
WorkerPost ==
    /\ wpc = "post"
    /\ wpc' = "check"
    /\ answer' = [answer EXCEPT ![job] = status]
    /\ UNCHANGED <<dartVars, slot, nextJob, job, status, results, shutdown,
                   closer, useVars>>

Worker == \/ WorkerCheck \/ WorkerRun \/ WorkerClear \/ WorkerPost

-------------------------------------------------------------------------------
(* pool_destroy, called by close() on the isolate: set the flag, then       *)
(* signal under the mutex, then join and free.                              *)
CloseFlag ==
    /\ isolate = NoTask
    /\ closer = "open"
    /\ closedEarly' = (\E t \in Tasks : pc[t] # "out")
    /\ isolate' = Closer
    /\ shutdown' = TRUE
    /\ closer' = "flagged"
    /\ UNCHANGED <<lessees, pc, mine, slot, nextJob, workerVars, results, answer,
                   overlapped, gaveUp, left>>

CloseSignal ==
    /\ closer = "flagged"
    /\ closer' = "signalled"
    /\ wpc' = Signalled
    /\ UNCHANGED <<dartVars, slot, nextJob, job, status, results, answer, shutdown, useVars>>

CloseJoin ==
    /\ closer = "signalled"
    /\ wpc = "exited"
    /\ closer' = "freed"
    /\ slot' = NoJob
    /\ chain' = <<>> /\ inbox' = <<>>
    /\ isolate' = NoTask
    /\ UNCHANGED <<lessees, pc, mine, nextJob, workerVars, answer, shutdown, useVars>>

-------------------------------------------------------------------------------
TaskStep(t) == Lease(t) \/ Submit(t) \/ SubmitRefused(t) \/ Receive(t)
               \/ Poll(t) \/ StopPolling(t) \/ Release(t)

Next == \/ \E t \in Tasks : TaskStep(t)
        \/ Worker
        \/ WorkerSpuriousWake
        \/ CloseFlag \/ CloseSignal \/ CloseJoin

Spec == Init /\ [][Next]_vars

(* The worker thread runs, every statement ends (it has a timeout, or the   *)
(* server answers; PgConnection!CallEnds has the one that may not), a       *)
(* posted message is delivered, and a synchronous segment of the isolate    *)
(* runs to its end.  No task is obliged to submit or to release, nobody is  *)
(* obliged to close.                                                        *)
FairSpec ==
    /\ Spec
    /\ WF_vars(Worker)
    /\ \A t \in Tasks : WF_vars(Receive(t)) /\ WF_vars(Poll(t))
    /\ WF_vars(CloseSignal) /\ WF_vars(CloseJoin)

-------------------------------------------------------------------------------
(* native_pool_internal.h:65, worker.c:3: "Only one of the two threads      *)
(* touches it at a time": as long as no statements overlapped, the worker   *)
(* is not executing (on PGconn and the result chain, which no lock          *)
(* protects) while the isolate drains results; and unless the pool was      *)
(* closed under a task that still used the connection, no drain reaches one *)
(* that pool_destroy has freed.                                             *)
OneThreadAtATime ==
    \A t \in Tasks : pc[t] = "draining" =>
        (overlapped \/ wpc # "run") /\ (closedEarly \/ closer # "freed")

(* The payload the worker executes from, outside slot_mutex, is the one in  *)
(* the slot until the worker itself clears it: no submit replaces or frees  *)
(* it meanwhile.                                                            *)
PayloadPinned == wpc \in {"run", "clear"} => job # NoJob /\ slot = job

(* Nothing accepted is ever lost: it waits in the slot, or the worker has   *)
(* cleared it and is about to post, or its port has the answer.             *)
AcceptedIsAccountedFor ==
    \A j \in Jobs : j < nextJob =>
        \/ slot = j
        \/ wpc = "post" /\ job = j
        \/ answer[j] # "none"

(* As long as no statements overlapped, a result drained by a task belongs  *)
(* to the statement that task awaited, whoever had the connection before    *)
(* and whatever its multi-read left in the chain: pool_release frees it     *)
(* (native_pool.c:352).  Two exceptions, in which results of an earlier     *)
(* statement are drained without any overlap: a statement was aborted on    *)
(* the connection, and libpq kept its answers; or the same lease left some  *)
(* of an executeMultiRead's results in the chain.                           *)
DrainsOwnResults ==
    \A t \in Tasks : ~overlapped /\ ~gaveUp /\ ~left /\ pc[t] = "draining" =>
        /\ \A i \in DOMAIN chain : chain[i] = mine[t]
        /\ \A i \in DOMAIN inbox : inbox[i] = mine[t]

(* native_pool_worker.c:614: the slot is cleared before the post so that a  *)
(* submit made after the answer is not refused as "slot busy".  A refusal   *)
(* means the pool is being destroyed, as long as no statements overlapped.  *)
NoSpuriousRefusal ==
    \A t \in Tasks : ~overlapped /\ pc[t] = "refused" => shutdown

(* native_pool.c:354: "The worker is idle by the time a conn is released,   *)
(* so touching the chain here is race-free".  pool_release checks nothing:  *)
(* it is true of a lease whose every statement was awaited, because the     *)
(* worker clears the slot and posts only when it has finished; a lease      *)
(* given back with a statement in flight makes it false.                    *)
WorkerIdleAtRelease ==
    [][~overlapped' /\ lessees # {} /\ lessees' = {} =>
          slot = NoJob /\ wpc \in {"check", "asleep", "exited"}]_vars

(* Every accepted statement is answered, shutdown included.                 *)
EveryStatementAnswered ==
    \A t \in Tasks : pc[t] = "waiting" ~> pc[t] # "waiting"

(* pool_destroy returns: the worker notices the flag wherever it was.       *)
CloseReturns == closer = "flagged" ~> closer = "freed"
===============================================================================
