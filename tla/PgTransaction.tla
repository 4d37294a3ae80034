---------------------------- MODULE PgTransaction ----------------------------
(***************************************************************************)
(* Transactions over the Postgres stack: withTransactionOn, the            *)
(* PostgresUnitOfWork it drives, the executor's deferred BEGIN, and        *)
(* withPipelinedTransaction, over connections of one pool and the          *)
(* transaction state the server keeps for each.                            *)
(*                                                                         *)
(* A step runs from one await to the next.  A statement is submitted in    *)
(* one step, processed by the server in another and received in a third.   *)
(* The pool is LeasePool (see ConnectionPoolGate), the mailbox is busy     *)
(* from submit to receipt (see NativeSlot), results are those of the call  *)
(* (see PgConnection).                                                     *)
(***************************************************************************)
EXTENDS Integers

CONSTANTS Tasks, Units, Conns, NoConn,
          MaxStmts,    \* statements a body starts
          Programs     \* the applications considered, see Program

AllKinds == {"simple",    \* execute without params
             "extended",  \* execute with params
             "pipeline",  \* executePipeline of two writes
             "batch"}     \* withPipelinedTransaction of two writes

(* An application, and the server it meets: the unit of work each task is   *)
(* given, the kinds of statement the bodies start, which of them the server *)
(* may refuse ("end" is a COMMIT), whether a body may catch what a          *)
(* statement throws, start a statement without awaiting it, and whether     *)
(* connections may be lost.                                                 *)
Program == [unitOf : [Tasks -> Units], kinds : SUBSET AllKinds,
            mayFail : SUBSET (AllKinds \cup {"end"}),
            swallow : BOOLEAN, overlap : BOOLEAN, losses : BOOLEAN]

ASSUME MaxStmtsIsNat == MaxStmts \in Nat \ {0}
ASSUME ProgramsAssumption == Programs \subseteq Program
ASSUME NoConnIsNoConn == NoConn \notin Conns

VARIABLES program,  \* which of Programs is running
          at,       \* per task: where withTransactionOn is
          waits,    \* the tasks awaiting the statement they started
          exec,     \* per task: the connection of the executor its body got
          started,  \* per task: statements its body started
          wants,    \* per task: writes of the statements not refused
          cause,    \* per task: the exception that ended its body or commit
          raised,   \* per task: the exception withTransactionOn throws
          active, leased,   \* per unit of work: _active, _leased
          pending,  \* per connection: its executor's _pendingBegin
          lent,     \* connections the pool has lent
          slot,     \* per connection: the statement submitted on it
          reply,    \* per connection: how that statement ended
          txn,      \* per connection: the server's transaction status
          work,     \* per connection: writes of the open transaction
          dead,     \* connections lost
          stored    \* writes the server has committed

taskVars == <<at, waits, exec, started, wants, cause, raised>>
unitVars == <<active, leased>>
poolVars == <<pending, lent>>
slotVars == <<slot, reply>>
serverVars == <<txn, work, dead, stored>>
vars == <<program, taskVars, unitVars, poolVars, slotVars, serverVars>>

UnitOf(t) == program.unitOf[t]

(* One unit of work per task, as withTransaction makes it. *)
OwnUnits == \A t, u \in Tasks : UnitOf(t) = UnitOf(u) => t = u

(* Every statement awaited as well, what it throws let through, and no      *)
(* pipeline that fails: what the library's documentation has bodies do (a   *)
(* failed pipeline: see TxPipelineInBody).                                  *)
Orderly == /\ OwnUnits /\ ~program.swallow /\ ~program.overlap
           /\ program.mayFail \cap {"pipeline", "batch"} = {}

WritesOf(t) == {t} \X (1..MaxStmts) \X {1, 2}
Writes == UNION {WritesOf(t) : t \in Tasks}

(* What one message carries: BEGIN or not, then writes, then the command   *)
(* that ends the transaction, if any.                                      *)
Message == [begin : BOOLEAN, writes : SUBSET Writes,
            end : {"none", "COMMIT", "ROLLBACK"}]
Nothing == [begin |-> FALSE, writes |-> {}, end |-> "none"]

(* A statement in flight: the message the server has, what follows it.     *)
Statement == [by : Tasks, awaited : BOOLEAN, kind : AllKinds, fused : BOOLEAN,
              msg : Message, rest : Message]

Exceptions == [from : {"body", "begin", "commit", "rollback", "batch"},
               what : {"query", "nullCheck", "state", "own"}]
None == [from |-> "none", what |-> "none"]
Thrown(from, what) == [from |-> from, what |-> what]

Empty == [by |-> "nobody"]

Stages == {"idle", "acquiring", "begun", "body", "commit", "rollback", "close",
           "batchAcquiring", "batch", "ended"}

TypeOK ==
    /\ program \in Programs
    /\ at \in [Tasks -> Stages]
    /\ waits \subseteq Tasks
    /\ exec \in [Tasks -> Conns \cup {NoConn}]
    /\ started \in [Tasks -> 0..MaxStmts]
    /\ wants \in [Tasks -> SUBSET Writes]
    /\ \A t \in Tasks : wants[t] \subseteq WritesOf(t)
    /\ cause \in [Tasks -> Exceptions \cup {None}]
    /\ raised \in [Tasks -> Exceptions \cup {None}]
    /\ active \in [Units -> BOOLEAN]
    /\ leased \in [Units -> Conns \cup {NoConn}]
    /\ pending \in [Conns -> BOOLEAN]
    /\ lent \subseteq Conns
    /\ \A u \in Units : active[u] <=> leased[u] \in lent
    /\ slot \in [Conns -> Statement \cup {Empty}]
    /\ reply \in [Conns -> {"none", "ok", "error", "lost"}]
    /\ txn \in [Conns -> {"idle", "open", "aborted"}]
    /\ work \in [Conns -> SUBSET Writes]
    /\ dead \subseteq Conns
    /\ stored \subseteq Writes

Init ==
    /\ program \in Programs
    /\ at = [t \in Tasks |-> "idle"]
    /\ waits = {}
    /\ exec = [t \in Tasks |-> NoConn]
    /\ started = [t \in Tasks |-> 0]
    /\ wants = [t \in Tasks |-> {}]
    /\ cause = [t \in Tasks |-> None]
    /\ raised = [t \in Tasks |-> None]
    /\ active = [u \in Units |-> FALSE]
    /\ leased = [u \in Units |-> NoConn]
    /\ pending = [c \in Conns |-> FALSE]
    /\ lent = {}
    /\ slot = [c \in Conns |-> Empty]
    /\ reply = [c \in Conns |-> "none"]
    /\ txn = [c \in Conns |-> "idle"]
    /\ work = [c \in Conns |-> {}]
    /\ dead = {}
    /\ stored = {}

-------------------------------------------------------------------------------
(* Shared pieces, each preceded by a fault it could plausibly have: a       *)
(* variant that no action uses, kept to show that the properties notice it. *)

(* After a pipeline the worker rolls an aborted transaction back, and       *)
(* leaves a healthy one to the caller who opened it.                        *)
AlwaysRollBack(status) == "idle"
RollBackAborted(status) == IF status = "aborted" THEN "idle" ELSE status

(* _pendingBegin = false once it was used. *)
StillPending(c) == UNCHANGED pending
BeginUsed(c) == pending' = [pending EXCEPT ![c] = FALSE]

(* The lease goes back to the pool. *)
LeaseLeaked(u) == UNCHANGED lent
LeaseReturned(u) == lent' = lent \ {leased[u]}

(* `finally { _releaseConnection() }` *)
ForgetToClear(u) ==
    /\ LeaseReturned(u)
    /\ active' = [active EXCEPT ![u] = FALSE]
    /\ UNCHANGED leased
ReleaseConnection(u) ==
    /\ LeaseReturned(u)
    /\ active' = [active EXCEPT ![u] = FALSE]
    /\ leased' = [leased EXCEPT ![u] = NoConn]

(* Where withTransactionOn goes when the body throws. *)
RethrowAtOnce == "ended"
AfterThrow == "rollback"

-------------------------------------------------------------------------------
(* The server *)

(* The server runs message m on c up to the statement it refuses, and what  *)
(* it ran of a refused one is undone.  In a transaction, or behind BEGIN, a *)
(* refusal aborts; an aborted transaction takes nothing but its end, and    *)
(* COMMIT then rolls back and reports success.                              *)
Run(c, m, refused) ==
    LET begun == IF m.begin THEN "open" ELSE txn[c]
        open  == begun = "open"
    IN  IF refused = "write" \/ (txn[c] = "aborted" /\ (m.begin \/ m.writes # {}))
        THEN [ok |-> FALSE, stored |-> stored, work |-> {},
              txn |-> IF begun = "idle" THEN "idle" ELSE "aborted"]
        ELSE IF refused = "end" /\ open
        THEN [ok |-> FALSE, stored |-> stored, work |-> {}, txn |-> "idle"]
        ELSE [ok |-> TRUE,
              txn |-> IF m.end = "none" THEN begun ELSE "idle",
              work |-> IF open /\ m.end = "none" THEN work[c] \cup m.writes ELSE {},
              stored |-> stored \cup
                  (IF ~open THEN m.writes
                   ELSE IF m.end = "COMMIT" THEN work[c] \cup m.writes ELSE {})]

Refusable(s) ==
    {"none"}
    \cup (IF s.msg.writes # {} /\ s.kind \in program.mayFail THEN {"write"} ELSE {})
    \cup (IF /\ s.msg.end = "COMMIT" /\ "end" \in program.mayFail
             /\ s.kind = "batch" => "batch" \in program.mayFail
          THEN {"end"} ELSE {})

Piped(s) == s.kind \in {"pipeline", "batch"} /\ s.rest = Nothing

(* One message is processed; the worker posts.  A pipeline posts 1 whatever *)
(* its statements reported; a lost connection posts 2.                      *)
ServerStep(c) ==
    /\ slot[c] # Empty
    /\ reply[c] = "none"
    /\ UNCHANGED <<taskVars, unitVars, poolVars, slot, dead>>
    /\ IF c \in dead
       THEN /\ reply' = [reply EXCEPT ![c] = "lost"]
            /\ UNCHANGED <<txn, work, stored>>
       ELSE \E refused \in Refusable(slot[c]) :
            LET s == Run(c, slot[c].msg, refused)
                piped == Piped(slot[c])
                end == IF piped THEN RollBackAborted(s.txn) ELSE s.txn
            IN  /\ txn' = [txn EXCEPT ![c] = end]
                /\ work' = [work EXCEPT ![c] = IF end = "open" THEN s.work ELSE {}]
                /\ stored' = s.stored
                /\ reply' = [reply EXCEPT ![c] =
                                 IF s.ok \/ piped THEN "ok" ELSE "error"]

(* The connection is lost: what was not committed is gone, and the answer   *)
(* on its way may be.                                                       *)
Lose(c) ==
    /\ program.losses
    /\ c \notin dead
    /\ dead' = dead \cup {c}
    /\ txn' = [txn EXCEPT ![c] = "idle"]
    /\ work' = [work EXCEPT ![c] = {}]
    /\ IF slot[c] = Empty THEN UNCHANGED reply
       ELSE reply' \in {[reply EXCEPT ![c] = "lost"]} \cup
                       (IF reply[c] = "none" THEN {} ELSE {reply})
    /\ UNCHANGED <<taskVars, unitVars, poolVars, slot, stored>>

-------------------------------------------------------------------------------
(* The executor *)

DeferredBegin(c, m) == [m EXCEPT !.begin = pending[c]]

(* Submit m for t on c.  A simple statement carries the deferred BEGIN      *)
(* along, the others wait for it.  The mailbox has room for one.            *)
Dispatch(t, c, k, m, awaited) ==
    LET whole == k = "simple" \/ ~pending[c]
    IN  /\ slot' = [slot EXCEPT ![c] =
              [by |-> t, awaited |-> awaited, kind |-> k,
               fused |-> k = "simple" /\ pending[c],
               msg |-> DeferredBegin(c, IF whole THEN m ELSE Nothing),
               rest |-> IF whole THEN Nothing ELSE m]]
        /\ reply' = [reply EXCEPT ![c] = "none"]
        /\ BeginUsed(c)

(* What the executor throws.  Where no timeout was configured, code 2 meets *)
(* `_timeout!`, except behind a fused BEGIN.                                *)
Outcome(from, c) ==
    CASE reply[c] = "ok"    -> None
      [] reply[c] = "error" -> Thrown(from, "query")
      [] reply[c] = "lost"  ->
             Thrown(from, IF slot[c].fused THEN "query" ELSE "nullCheck")

Goto(t, stage) == at' = [at EXCEPT ![t] = stage]
Raise(t, e) == raised' = [raised EXCEPT ![t] = e]

(* A statement started where one is in flight is refused at once, and has   *)
(* used up the deferred BEGIN.                                              *)
Busy(c) == slot[c] # Empty

Submit(t, c, k, m, awaited) ==
    /\ ~Busy(c)
    /\ Dispatch(t, c, k, m, awaited)
    /\ waits' = IF awaited THEN waits \cup {t} ELSE waits

-------------------------------------------------------------------------------
(* withTransactionOn: begin *)

Begin(t) ==
    /\ at[t] = "idle"
    /\ \/ /\ ~active[UnitOf(t)]
          /\ Goto(t, "acquiring")
          /\ UNCHANGED <<cause, raised>>
       \/ /\ active[UnitOf(t)]
          /\ Goto(t, "ended")
          /\ cause' = [cause EXCEPT ![t] = Thrown("begin", "state")]
          /\ Raise(t, cause'[t])
    /\ UNCHANGED <<waits, exec, started, wants, unitVars, poolVars, slotVars,
                   serverVars>>

Acquired(t, c) ==
    /\ at[t] = "acquiring"
    /\ c \notin lent
    /\ lent' = lent \cup {c}
    /\ leased' = [leased EXCEPT ![UnitOf(t)] = c]
    /\ active' = [active EXCEPT ![UnitOf(t)] = TRUE]
    /\ pending' = [pending EXCEPT ![c] = TRUE]
    /\ Goto(t, "begun")
    /\ UNCHANGED <<waits, exec, started, wants, cause, raised, slotVars, serverVars>>

(* `body(uow.executor)`: the getter throws when the unit is not active. *)
EnterBody(t) ==
    /\ at[t] = "begun"
    /\ IF active[UnitOf(t)]
       THEN /\ exec' = [exec EXCEPT ![t] = leased[UnitOf(t)]]
            /\ Goto(t, "body")
            /\ UNCHANGED <<cause, raised>>
       ELSE /\ cause' = [cause EXCEPT ![t] = Thrown("body", "state")]
            /\ Raise(t, cause'[t])
            /\ Goto(t, AfterThrow)
            /\ UNCHANGED exec
    /\ UNCHANGED <<waits, started, wants, unitVars, poolVars, slotVars,
                   serverVars>>

-------------------------------------------------------------------------------
(* The body *)

InBody(t) == at[t] = "body" /\ t \notin waits

(* The body lets an exception through, or catches it where it may. *)
BodyGets(t, e) ==
    \/ /\ e = None \/ program.swallow
       /\ UNCHANGED <<at, cause, raised>>
    \/ /\ e # None
       /\ cause' = [cause EXCEPT ![t] = e]
       /\ Raise(t, e)
       /\ Goto(t, AfterThrow)

NewWrites(t, k) ==
    {<<t, started[t] + 1, part>> :
        part \in IF k \in {"pipeline", "batch"} THEN {1, 2} ELSE {1}}

Execute(t, k, awaited) ==
    LET c == exec[t]
        m == [Nothing EXCEPT !.writes = NewWrites(t, k)]
    IN  /\ InBody(t)
        /\ k # "batch"
        /\ started[t] < MaxStmts
        /\ started' = [started EXCEPT ![t] = @ + 1]
        /\ \/ /\ Submit(t, c, k, m, awaited)
              /\ wants' = [wants EXCEPT ![t] = @ \cup NewWrites(t, k)]
              /\ UNCHANGED <<at, cause, raised>>
           \/ /\ Busy(c)
              /\ BeginUsed(c)
              /\ BodyGets(t, IF awaited THEN Thrown("body", "query") ELSE None)
              /\ UNCHANGED <<waits, wants, slotVars>>
        /\ UNCHANGED <<exec, unitVars, lent, serverVars>>

BodyThrows(t) ==
    /\ InBody(t)
    /\ cause' = [cause EXCEPT ![t] = Thrown("body", "own")]
    /\ Raise(t, cause'[t])
    /\ Goto(t, AfterThrow)
    /\ UNCHANGED <<waits, exec, started, wants, unitVars, poolVars, slotVars,
                   serverVars>>

BodyReturns(t) ==
    /\ InBody(t)
    /\ Goto(t, "commit")
    /\ UNCHANGED <<waits, exec, started, wants, cause, raised, unitVars, poolVars,
                   slotVars, serverVars>>

-------------------------------------------------------------------------------
(* commit(), rollback() and close() of the unit of work.  What each throws  *)
(* decides where withTransactionOn goes; close() keeps what it catches.     *)

Ending == {"commit", "rollback", "close"}

After(t, e) ==
    /\ Goto(t, CASE at[t] = "commit"   -> IF e = None THEN "close" ELSE AfterThrow
                 [] at[t] = "rollback" -> "close"
                 [] at[t] = "close"    -> "ended")
    /\ cause' = [cause EXCEPT ![t] = IF at[t] = "commit" THEN e ELSE @]
    /\ raised' = [raised EXCEPT ![t] =
                     IF at[t] = "close" \/ (at[t] = "rollback" /\ e = None)
                     THEN @ ELSE e]

(* Without an open transaction: TransactionStateError, close() returns. *)
EndInactive(t) ==
    /\ at[t] \in Ending
    /\ ~active[UnitOf(t)]
    /\ t \notin waits
    /\ After(t, Thrown(IF at[t] = "commit" THEN "commit" ELSE "rollback", "state"))
    /\ UNCHANGED <<waits, exec, started, wants, unitVars, poolVars, slotVars,
                   serverVars>>

EndSubmit(t) ==
    LET u == UnitOf(t)
        c == leased[u]
        m == [Nothing EXCEPT !.end =
                 IF at[t] = "commit" THEN "COMMIT" ELSE "ROLLBACK"]
    IN  /\ at[t] \in Ending
        /\ active[u]
        /\ t \notin waits
        /\ \/ /\ Submit(t, c, "simple", m, TRUE)
              /\ UNCHANGED <<at, cause, raised, unitVars, lent>>
           \/ /\ Busy(c)
              /\ BeginUsed(c)
              /\ ReleaseConnection(u)
              /\ After(t, Thrown(at[t], "query"))
              /\ UNCHANGED <<waits, slotVars>>
        /\ UNCHANGED <<exec, started, wants, serverVars>>

-------------------------------------------------------------------------------
(* withPipelinedTransaction *)

BatchBegin(t) ==
    /\ at[t] = "idle"
    /\ "batch" \in program.kinds
    /\ Goto(t, "batchAcquiring")
    /\ UNCHANGED <<waits, exec, started, wants, cause, raised, unitVars, poolVars,
                   slotVars, serverVars>>

BatchSubmit(t, c) ==
    /\ at[t] = "batchAcquiring"
    /\ c \notin lent
    /\ lent' = lent \cup {c}
    /\ exec' = [exec EXCEPT ![t] = c]
    /\ Goto(t, "batch")
    /\ started' = [started EXCEPT ![t] = @ + 1]
    /\ IF Busy(c)
       THEN /\ cause' = [cause EXCEPT ![t] = Thrown("batch", "query")]
            /\ UNCHANGED <<waits, wants, slotVars, pending>>
       ELSE /\ slot' = [slot EXCEPT ![c] =
                  [by |-> t, awaited |-> TRUE, kind |-> "batch", fused |-> FALSE,
                   msg |-> [begin |-> TRUE, writes |-> NewWrites(t, "batch"),
                            end |-> "COMMIT"],
                   rest |-> Nothing]]
            /\ reply' = [reply EXCEPT ![c] = "none"]
            /\ waits' = waits \cup {t}
            /\ wants' = [wants EXCEPT ![t] = NewWrites(t, "batch")]
            /\ UNCHANGED <<cause, pending>>
    /\ UNCHANGED <<raised, unitVars, serverVars>>

BatchEnd(t) ==
    /\ at[t] = "batch"
    /\ t \notin waits
    /\ lent' = lent \ {exec[t]}
    /\ Raise(t, cause[t])
    /\ Goto(t, "ended")
    /\ UNCHANGED <<waits, exec, started, wants, cause, unitVars, pending, slotVars,
                   serverVars>>

-------------------------------------------------------------------------------
(* The port message on c reaches the executor that waits for it *)

(* After the standalone BEGIN, the statement itself. *)
SendRest(c) ==
    /\ slot[c] # Empty
    /\ reply[c] = "ok"
    /\ slot[c].rest # Nothing
    /\ slot' = [slot EXCEPT ![c].msg = slot[c].rest, ![c].rest = Nothing]
    /\ reply' = [reply EXCEPT ![c] = "none"]
    /\ UNCHANGED <<taskVars, unitVars, poolVars, serverVars>>

Done(c) == reply[c] \in {"error", "lost"} \/ (reply[c] = "ok" /\ slot[c].rest = Nothing)

Receive(c) ==
    LET t == slot[c].by
        e == Outcome(at[t], c)
    IN  /\ slot[c] # Empty
        /\ Done(c)
        /\ slot' = [slot EXCEPT ![c] = Empty]
        /\ reply' = [reply EXCEPT ![c] = "none"]
        /\ wants' = [wants EXCEPT ![t] = IF reply[c] # "error" THEN @
                         ELSE @ \ (slot[c].msg.writes \cup slot[c].rest.writes)]
        /\ UNCHANGED <<exec, started, pending, serverVars>>
        /\ \/ /\ ~slot[c].awaited
              /\ UNCHANGED <<at, waits, cause, raised, unitVars, lent>>
           \/ /\ slot[c].awaited
              /\ waits' = waits \ {t}
              /\ \/ /\ at[t] = "body"
                    /\ BodyGets(t, e)
                    /\ UNCHANGED <<unitVars, lent>>
                 \/ /\ at[t] \in Ending
                    /\ After(t, e)
                    /\ ReleaseConnection(UnitOf(t))
                 \/ /\ at[t] = "batch"
                    /\ cause' = [cause EXCEPT ![t] = e]
                    /\ UNCHANGED <<at, raised, unitVars, lent>>

-------------------------------------------------------------------------------
TaskStep(t) ==
    /\ UNCHANGED program
    /\ \/ Begin(t) \/ EnterBody(t)
       \/ \E c \in Conns : Acquired(t, c) \/ BatchSubmit(t, c)
       \/ \E k \in program.kinds : Execute(t, k, TRUE)
       \/ program.overlap /\ \E k \in program.kinds : Execute(t, k, FALSE)
       \/ BodyThrows(t) \/ BodyReturns(t)
       \/ EndInactive(t) \/ EndSubmit(t)
       \/ BatchBegin(t) \/ BatchEnd(t)

Answer(c) == /\ UNCHANGED program
             /\ ServerStep(c) \/ SendRest(c) \/ Receive(c)

(* Every task has ended and every connection is quiet. *)
Finished ==
    /\ \A t \in Tasks : at[t] = "ended"
    /\ \A c \in Conns : slot[c] = Empty
    /\ UNCHANGED vars

Next ==
    \/ \E t \in Tasks : TaskStep(t)
    \/ \E c \in Conns : Answer(c) \/ (Lose(c) /\ UNCHANGED program)
    \/ Finished

Spec == Init /\ [][Next]_vars

(* The isolate runs what is ready, the server and the worker answer (see    *)
(* NativeSlot), a body does not go on for ever; nothing has to be lost.     *)
FairSpec ==
    /\ Spec
    /\ \A t \in Tasks : WF_vars(TaskStep(t))
    /\ \A c \in Conns : WF_vars(Answer(c))

-------------------------------------------------------------------------------
(* A connection goes back to the pool quiet: no statement in flight and no  *)
(* transaction left open for the next task to inherit, in an orderly        *)
(* program; and when all tasks have ended the pool has every connection     *)
(* back, however the bodies behave, if each has its own unit of work.       *)
ReturnedClean ==
    /\ Orderly => \A c \in Conns \ (lent \cup dead) :
                      slot[c] = Empty /\ txn[c] = "idle"
    /\ OwnUnits /\ (\A t \in Tasks : at[t] = "ended") => lent = {}

(* In an orderly program the uncommitted writes on a connection are those   *)
(* of one task, which has not ended: nobody commits or rolls back what      *)
(* another task wrote.                                                      *)
OneTaskPerTransaction ==
    Orderly => \A c \in Conns : \A v, w \in work[c] :
                  v[1] = w[1] /\ at[v[1]] # "ended"

(* withTransaction and withPipelinedTransaction end, with their result or   *)
(* with an exception.                                                       *)
TransactionEnds ==
    \A t \in Tasks : at[t] \in {"acquiring", "batchAcquiring"} ~> at[t] = "ended"

(* with_transaction.dart:15: "If [body] throws, the transaction is rolled   *)
(* back": nothing the body wrote is committed.                              *)
ThrowRollsBack ==
    \A t \in Tasks :
        at[t] = "ended" /\ cause[t].from = "body" => wants[t] \cap stored = {}

(* In an orderly program withTransaction implements the abstract           *)
(* transactions.                                                           *)
Promise == INSTANCE Transactions WITH
    wants <- [t \in Tasks |-> IF Orderly THEN wants[t] ELSE {}],
    stored <- IF Orderly THEN stored ELSE {},
    outcome <- [t \in Tasks |->
        IF at[t] # "ended" \/ ~Orderly THEN "open"
        ELSE IF raised[t] = None THEN "returned"
        ELSE IF cause[t].from \in {"commit", "batch"} THEN "inDoubt" ELSE "threw"]

ImplementsTransactions == Promise!Spec
===============================================================================
