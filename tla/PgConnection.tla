----------------------------- MODULE PgConnection -----------------------------
(***************************************************************************)
(* One Postgres connection over several statements and lessees: what the   *)
(* worker's execute_* functions leave in libpq, what the executor drains   *)
(* from it, and what the next statement finds.  The mailbox is NativeSlot; *)
(* here one statement is outstanding at a time.                            *)
(*                                                                         *)
(* libpq and the server are external.  `sent` holds what the server has    *)
(* yet to process, `inbox` what it has answered and nobody has read with   *)
(* PQgetResult.  Their items: "stmt" a statement, "skip" one the server    *)
(* will skip, "end" where PQgetResult returns NULL, "sync" a pipeline      *)
(* sync; "result", "error", "skipped" are PGresults.  The last `fresh` of  *)
(* the answers are still in the socket.                                    *)
(*                                                                         *)
(* Aborts: may a statement be given up (timeout, shutdown, socket error)?  *)
(***************************************************************************)
EXTENDS Integers, Sequences, SequencesExt

CONSTANTS Tasks, NoTask, MaxJobs, MaxReads,
          Kinds,    \* the executor calls the program uses
          Aborts

AllKinds == {"simple",    \* execute without params: execute_single
             "params",    \* execute with params: execute_single_params
             "multi",     \* executeMultiRead: execute_multi_read
             "pipeline"}  \* executePipeline: execute_pipeline

ASSUME BoundsAreNat == MaxJobs \in Nat /\ MaxReads \in Nat \ {0}
ASSUME KindsAreKnown == Kinds \subseteq AllKinds
ASSUME AbortsIsBoolean == Aborts \in BOOLEAN
ASSUME NoTaskIsNoTask == NoTask \notin Tasks

Jobs == 1..MaxJobs

VARIABLES lessee,    \* the task the connection is lent to
          step,      \* where its current call is, see Steps
          kind,      \* the call: its kind,
          n, reads,  \* the results its SQL has, and the caller counts on,
          job,       \* its number,
          stale,     \* and whether it found a chain that it will poll first
          sent, inbox, fresh, pipelineMode, dead,    \* libpq and the server
          remaining, \* execute_pipeline: PGresults still to count
          chain,     \* chain_head: PGresults kept by execute_multi_read
          got,       \* results the executor decoded, by the job they are of
          report,    \* how the call ended for its caller
          failed,    \* jobs one of whose statements the server refused
          suspect    \* a statement was aborted on this connection

libpqVars == <<sent, inbox, fresh, pipelineMode, dead>>
callVars == <<kind, n, reads, job, stale>>
vars == <<lessee, step, kind, n, reads, job, stale, sent, inbox, fresh,
          pipelineMode, dead, remaining, chain, got, report, failed, suspect>>

Steps == {"out", "idle", "submitted", "running", "ok", "aborted",
          "rest", "restThenThrow"}

Item(what) == [of |-> job, what |-> what]

TypeOK ==
    /\ lessee \in Tasks \cup {NoTask}
    /\ step \in Steps
    /\ kind \in AllKinds /\ n \in 1..MaxReads /\ reads \in 1..MaxReads
    /\ job \in 0..MaxJobs /\ stale \in BOOLEAN
    /\ sent \in Seq([of : Jobs, what : {"stmt", "skip", "end", "sync"}])
    /\ inbox \in Seq([of : Jobs, what : {"result", "error", "skipped", "end", "sync"}])
    /\ fresh \in 0..Len(inbox)
    /\ pipelineMode \in BOOLEAN /\ dead \in BOOLEAN /\ suspect \in BOOLEAN
    /\ remaining \in 0..(MaxReads + 1)
    /\ chain \in Seq([of : Jobs, what : {"result", "error"}])
    /\ got \in Seq(Jobs)
    /\ report \in {"none", "returned", "threw"}
    /\ failed \subseteq Jobs

Init ==
    /\ lessee = NoTask
    /\ step = "out"
    /\ kind = "simple" /\ n = 1 /\ reads = 1 /\ job = 0 /\ stale = FALSE
    /\ sent = <<>> /\ inbox = <<>> /\ fresh = 0 /\ pipelineMode = FALSE /\ dead = FALSE
    /\ remaining = 0
    /\ chain = <<>> /\ got = <<>>
    /\ report = "none" /\ failed = {} /\ suspect = FALSE

-------------------------------------------------------------------------------
(* libpq and the server *)

(* PGASYNC_IDLE: every result of the last command was read, NULL included. *)
LibpqIdle == sent = <<>> /\ inbox = <<>>

(* PQsendQuery refuses a busy connection and pipeline mode; in pipeline     *)
(* mode PQsendQueryParams queues behind whatever is outstanding, and        *)
(* PQenterPipelineMode on a connection already in it does nothing.          *)
SendAccepted ==
    /\ ~dead
    /\ IF kind \in {"simple", "multi"} THEN LibpqIdle /\ ~pipelineMode
                                       ELSE LibpqIdle \/ pipelineMode

(* What the calls put on the wire: a pipeline its queries one by one, each  *)
(* with one result; a simple call or a multi-read one string, with one      *)
(* result per statement in it and one if there is none; params a statement  *)
(* without a sync when the connection is in pipeline mode.                  *)
Commands ==
    IF kind = "pipeline"
    THEN [i \in 1..(2 * n) |-> Item(IF i % 2 = 1 THEN "stmt" ELSE "end")]
         \o <<Item("sync")>>
    ELSE [i \in 1..n |-> Item("stmt")] \o <<Item("end")>>

(* PQexitPipelineMode fails while results are outstanding. *)
ExitPipeline(out, in) == pipelineMode' = (pipelineMode /\ (out # <<>> \/ in # <<>>))

(* After an error the server skips to the end of the query string (there is *)
(* one outstanding), or to the next sync of the pipeline (of what was sent  *)
(* so far: a statement sent to a stuck pipeline later may succeed here).    *)
AfterError(q) ==
    IF pipelineMode
    THEN [i \in DOMAIN q |->
            IF q[i].what = "stmt" /\ \A k \in 1..i : q[k].what # "sync"
            THEN [q[i] EXCEPT !.what = "skip"] ELSE q[i]]
    ELSE <<Last(q)>>

(* A skipped statement, and the NULL behind a result of a pipeline, are     *)
(* made by libpq from what it has: they bring no bytes of their own.        *)
Local(x) == x.what = "skip" \/ (x.what = "end" /\ pipelineMode)

Arrives(x, what) ==
    /\ inbox' = Append(inbox, [x EXCEPT !.what = what])
    /\ fresh' = IF Local(x) /\ fresh = 0 THEN 0 ELSE fresh + 1

(* PQgetResult takes the first answer, after PQconsumeInput when none of    *)
(* those libpq has read is left.                                            *)
GetResult ==
    /\ inbox' = Tail(inbox)
    /\ fresh' = IF fresh = Len(inbox) THEN 0 ELSE fresh

(* In pipeline mode the server holds its answers back up to the next sync.  *)
Flushed ==
    \/ ~pipelineMode
    \/ \E i \in DOMAIN sent : sent[i].what = "sync"
    \/ sent # <<>> /\ Local(Head(sent))

(* The server processes one item.  A statement succeeds or fails; a cancel  *)
(* request that reaches it in time is one more way to fail.                 *)
ServerStep ==
    /\ sent # <<>>
    /\ ~dead
    /\ LET x == Head(sent) IN
       \/ /\ x.what = "stmt"
          /\ Arrives(x, "result")
          /\ sent' = Tail(sent)
          /\ UNCHANGED failed
       \/ /\ x.what = "stmt"
          /\ Arrives(x, "error")
          /\ sent' = AfterError(Tail(sent))
          /\ failed' = failed \cup {x.of}
       \/ /\ x.what # "stmt"
          /\ Arrives(x, IF x.what = "skip" THEN "skipped" ELSE x.what)
          /\ sent' = Tail(sent)
          /\ UNCHANGED failed
    /\ UNCHANGED <<lessee, step, callVars, pipelineMode, dead, remaining, chain,
                   got, report, suspect>>

-------------------------------------------------------------------------------
(* Shared pieces, each preceded by faults it could plausibly have: variants *)
(* that no action uses, kept to show that the properties notice them.       *)

(* PGresults of a pipeline: one per statement and one for the sync.         *)
WithoutSync(k) == k
OneTooMany(k) == k + 2
PipelineResults(k) == k + 1

(* native_pool_chain_append links the node behind chain_tail.               *)
Appended(x) == Append(chain, x)

(* execute_multi_read stops at the NULL after the last statement.           *)
WholeStringDrained == Head(inbox).what = "end"

(* PgExecStatus.isError; a skipped statement of a pipeline is no error.     *)
IsError(x) == x.what = "error"

(* The code posted for a statement given up.                                *)
AbortPostsOk == "ok"
AbortCode == "aborted"

-------------------------------------------------------------------------------
(* The pool and the executor *)

Lease(t) ==
    /\ lessee = NoTask
    /\ lessee' = t
    /\ step' = "idle"
    /\ report' = "none"
    /\ UNCHANGED <<callVars, libpqVars, remaining, chain, got, failed, suspect>>

(* pool_release frees the chain, as does execute_multi_read on the way in   *)
(* and on its error paths.                                                  *)
FreeResultChain == chain' = <<>>

(* Nothing looks at libpq. *)
Release ==
    /\ step = "idle"
    /\ lessee' = NoTask
    /\ step' = "out"
    /\ FreeResultChain
    /\ UNCHANGED <<callVars, libpqVars, remaining, got, report, failed, suspect>>

(* A call of kind k with m results of which its caller counts on r.  Only a *)
(* multi-read counts, its list of strings: a string of it may hold several  *)
(* statements, or none.                                                     *)
Submit(k, m, r) ==
    /\ step = "idle"
    /\ job < MaxJobs
    /\ k = "params" => m = 1
    /\ k \in {"simple", "params"} => r = 1
    /\ k = "pipeline" => r = m
    /\ step' = "submitted"
    /\ kind' = k /\ n' = m /\ reads' = r /\ job' = job + 1
    /\ stale' = (chain # <<>> /\ k # "multi")
    /\ got' = <<>>
    /\ report' = "none"
    /\ UNCHANGED <<lessee, libpqVars, remaining, chain, failed, suspect>>

-------------------------------------------------------------------------------
(* The worker: execute_single, _params, _multi_read, _pipeline *)

Send ==
    /\ step = "submitted"
    /\ IF kind = "multi" THEN FreeResultChain ELSE UNCHANGED chain
    /\ UNCHANGED <<lessee, callVars, inbox, fresh, dead, got, report, failed>>
    /\ IF SendAccepted
       THEN /\ step' = "running"
            /\ sent' = sent \o Commands
            /\ remaining' = PipelineResults(n)
            /\ pipelineMode' = (pipelineMode \/ kind = "pipeline")
            /\ UNCHANGED suspect
       ELSE /\ step' = "aborted"
            /\ suspect' = TRUE
            /\ UNCHANGED <<sent, remaining, pipelineMode>>

(* Bytes came and a result is in: post 1, the rest is read by the isolate.  *)
(* The loop looks at the results only after select saw the socket readable. *)
RunSingle ==
    /\ step = "running"
    /\ kind \in {"simple", "params"}
    /\ fresh > 0
    /\ fresh' = 0
    /\ step' = "ok"
    /\ UNCHANGED <<lessee, callVars, sent, inbox, pipelineMode, dead, remaining,
                   chain, got, report, failed, suspect>>

RunMultiRead ==
    /\ step = "running"
    /\ kind = "multi"
    /\ inbox # <<>>
    /\ GetResult
    /\ IF WholeStringDrained
       THEN step' = "ok" /\ UNCHANGED chain
       ELSE chain' = Appended(Head(inbox)) /\ UNCHANGED step
    /\ UNCHANGED <<lessee, callVars, sent, pipelineMode, dead, remaining, got,
                   report, failed, suspect>>

(* Counts the PGresults, whatever their status, then leaves pipeline mode. *)
RunPipeline ==
    /\ step = "running"
    /\ kind = "pipeline"
    /\ inbox # <<>>
    /\ GetResult
    /\ LET left == IF Head(inbox).what = "end" THEN remaining ELSE remaining - 1
       IN  /\ remaining' = left
           /\ IF left = 0
              THEN step' = "ok" /\ ExitPipeline(sent, Tail(inbox))
              ELSE UNCHANGED <<step, pipelineMode>>
    /\ UNCHANGED <<lessee, callVars, sent, dead, chain, got, report, failed,
                   suspect>>

(* Deadline, shutdown or socket error: post 2 with the answers outstanding. *)
Abort ==
    /\ Aborts
    /\ step = "running"
    /\ step' = AbortCode
    /\ suspect' = TRUE
    /\ dead' \in {dead, TRUE}
    /\ IF kind = "multi" THEN FreeResultChain ELSE UNCHANGED chain
    /\ IF kind = "pipeline" THEN ExitPipeline(sent, inbox) ELSE UNCHANGED pipelineMode
    /\ UNCHANGED <<lessee, callVars, sent, inbox, fresh, remaining, got, report,
                   failed>>

-------------------------------------------------------------------------------
(* The executor after the port message *)

Finish(how) == step' = "idle" /\ report' = how

(* Port code 2, or a refused submit. *)
Throw ==
    /\ step = "aborted"
    /\ Finish("threw")
    /\ UNCHANGED <<lessee, callVars, libpqVars, remaining, chain, got, failed,
                   suspect>>

PipelineReturns ==
    /\ step = "ok"
    /\ kind = "pipeline"
    /\ Finish("returned")
    /\ UNCHANGED <<lessee, callVars, libpqVars, remaining, chain, got, failed,
                   suspect>>

(* poll_result takes the chain first, then PQgetResult, which blocks while  *)
(* an answer is outstanding and none has arrived.                           *)
PollTakes ==
    IF chain # <<>> THEN chain' = Tail(chain) /\ UNCHANGED <<inbox, fresh>>
    ELSE /\ UNCHANGED chain
         /\ IF inbox # <<>> THEN GetResult
            ELSE sent = <<>> /\ UNCHANGED <<inbox, fresh>>

Polled == IF chain # <<>> THEN Head(chain)
          ELSE IF inbox # <<>> THEN Head(inbox) ELSE Item("end")

(* _drainResults, or one turn of the loop of executeMultiRead, which stops  *)
(* at the length of the list and leaves what is behind in the chain, or at  *)
(* NULL with a shorter list.                                                *)
Decode ==
    /\ step = "ok"
    /\ kind # "pipeline"
    /\ PollTakes
    /\ \/ /\ Polled.what = "end"
          /\ Finish("returned")
          /\ UNCHANGED got
       \/ /\ IsError(Polled)
          /\ step' = "restThenThrow"
          /\ UNCHANGED <<got, report>>
       \/ /\ Polled.what # "end" /\ ~IsError(Polled)
          /\ got' = Append(got, Polled.of)
          /\ IF kind # "multi" THEN step' = "rest" /\ UNCHANGED report
             ELSE IF Len(got') = reads THEN Finish("returned")
             ELSE UNCHANGED <<step, report>>
    /\ UNCHANGED <<lessee, callVars, sent, pipelineMode, dead, remaining, failed,
                   suspect>>

(* _drainRemaining: discard up to NULL. *)
DrainRemaining ==
    /\ step \in {"rest", "restThenThrow"}
    /\ PollTakes
    /\ IF Polled.what # "end" THEN UNCHANGED <<step, report>>
       ELSE Finish(IF step = "rest" THEN "returned" ELSE "threw")
    /\ UNCHANGED <<lessee, callVars, sent, pipelineMode, dead, remaining, got,
                   failed, suspect>>

-------------------------------------------------------------------------------
Call == Send \/ RunSingle \/ RunMultiRead \/ RunPipeline
        \/ Throw \/ PipelineReturns \/ Decode \/ DrainRemaining

Next ==
    \/ \E t \in Tasks : Lease(t)
    \/ Release
    \/ \E k \in Kinds, m, r \in 1..MaxReads : Submit(k, m, r)
    \/ Call
    \/ Abort
    \/ ServerStep

Spec == Init /\ [][Next]_vars

(* Worker and isolate run, and the server answers what it was asked to send *)
(* back: not a statement behind which no sync was sent.  Nobody is obliged  *)
(* to submit or release, nothing is obliged to be given up.                 *)
FairSpec == Spec /\ WF_vars(Call) /\ WF_vars(Flushed /\ ServerStep)

-------------------------------------------------------------------------------
(* A call decodes the results of its own statements, never those another    *)
(* call, perhaps of another lessee, left on the connection: the executor    *)
(* says of an aborted connection that it "should not be reused for          *)
(* poll_result" (postgres_query_executor.dart:168).                         *)
ResultIsOwn == \A i \in DOMAIN got : got[i] = job

(* It holds for every call up to the first aborted statement on the         *)
(* connection, except one that found results of a multi-read longer than    *)
(* its list: those it polls first, in the same lease (poll_result).         *)
ResultIsOwnUnlessSuspect == ~suspect /\ ~stale => ResultIsOwn

(* native_pool_worker.c:339: after a pipeline "the next acquire of this     *)
(* conn finds a clean state": a connection in the pool has nothing unread,  *)
(* in libpq or in the chain, and is out of pipeline mode, unless a          *)
(* statement was aborted on it.                                             *)
CleanOnReacquire ==
    lessee = NoTask => chain = <<>> /\ (~suspect => LibpqIdle /\ ~pipelineMode)

(* The one state in which calls are let through to a connection that still  *)
(* owes answers: it was aborted inside a pipeline.                          *)
StuckInPipeline == suspect /\ pipelineMode

(* What a call that returns tells its caller is true: the server has run    *)
(* it to its end and libpq has given all its answers, also on a connection  *)
(* where earlier statements were aborted (it then refuses until the end of  *)
(* its life); executeMultiRead has one ResultSet per entry, or per result   *)
(* when there are fewer; and a statement the server refused, alone or in a  *)
(* multi-read no longer than its list, does not look like an empty result.  *)
ReturnedMeansRun ==
    report = "returned" /\ ~StuckInPipeline =>
        /\ \A i \in DOMAIN (sent \o inbox) : (sent \o inbox)[i].of # job
        /\ kind = "multi" => Len(got) = IF n < reads THEN n ELSE reads
        /\ \/ kind = "multi" /\ n <= reads
           \/ kind \in {"simple", "params"} /\ n = 1 /\ ~stale
           => job \notin failed

(* Every call ends, with a result or an exception, also without a timeout;  *)
(* but one with params on a connection stuck in a pipeline goes out without *)
(* a sync, and execute_single_params may wait for its answer for ever.      *)
CallEnds == step = "submitted" ~>
    step = "idle" \/ (StuckInPipeline /\ kind = "params")
===============================================================================
