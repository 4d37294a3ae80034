------------------------ MODULE PgTransaction_proofs ------------------------
(***************************************************************************)
(* Proofs about PgTransaction: its types, that connections go back to the  *)
(* pool clean, that a transaction is the work of one task, and that        *)
(* withTransaction implements Transactions in orderly programs.            *)
(***************************************************************************)
EXTENDS PgTransaction, TLAPS

(* What the unit of work of t, or the batch of t, holds. *)
Runs(t, c) == active[UnitOf(t)] /\ leased[UnitOf(t)] = c
Batches(t, c) == at[t] = "batch" /\ exec[t] = c

(* No two units, no two batches and no unit and batch hold the same lease,  *)
(* a unit that is not active holds none, whatever the program.              *)
HoldInv ==
    /\ \A u \in Units : ~active[u] => leased[u] = NoConn
    /\ \A u, v \in Units : active[u] /\ leased[u] = leased[v] => u = v
    /\ \A t \in Tasks : at[t] = "batch" =>
          exec[t] \in lent /\ \A u \in Units : leased[u] # exec[t]
    /\ \A s, t \in Tasks :
          at[s] = "batch" /\ at[t] = "batch" /\ exec[s] = exec[t] => s = t
    /\ \A t \in Tasks : at[t] = "body" => exec[t] \in Conns
    /\ \A t \in Tasks : at[t] \in {"idle", "acquiring", "begun", "batchAcquiring"}
                           => started[t] = 0

(* With a unit of work each, a lease that is out is that of a task which    *)
(* has still to end its transaction.                                        *)
LeaseInv ==
    /\ \A t \in Tasks : active[UnitOf(t)] =>
          at[t] \in {"begun", "body", "commit", "rollback", "close"}
    /\ \A c \in lent : \E t \in Tasks : Runs(t, c) \/ Batches(t, c)

(* Nothing t wrote is durable. *)
Fresh(t) == stored \cap WritesOf(t) = {}

(* The statement of t that is in flight on the connection c of its unit of  *)
(* work: what it carries at the stage t is at, and what the server's        *)
(* transaction has to do with the statements that did not fail.             *)
AskedShape(t, c) ==
    /\ slot[c].by = t /\ slot[c].awaited /\ t \in waits
    /\ slot[c].kind # "batch"
    /\ at[t] \in {"body", "commit", "rollback"}
    /\ at[t] = "body" =>
          /\ slot[c].msg.end = "none"
          /\ slot[c].msg.begin \/ slot[c].rest = Nothing
          /\ ~slot[c].rest.begin /\ slot[c].rest.end = "none"
    /\ at[t] # "body" =>
          /\ slot[c].kind = "simple"
          /\ slot[c].msg.writes = {}
          /\ slot[c].msg.end = (IF at[t] = "commit" THEN "COMMIT" ELSE "ROLLBACK")
          /\ slot[c].rest = Nothing

AskedState(t, c) ==
    /\ reply[c] = "none" /\ c \notin dead =>
          /\ slot[c].msg.begin => txn[c] = "idle"
          /\ at[t] # "rollback" =>
                IF slot[c].msg.begin
                THEN wants[t] = slot[c].msg.writes \cup slot[c].rest.writes
                ELSE txn[c] = "open" /\ wants[t] = work[c] \cup slot[c].msg.writes
    /\ reply[c] = "ok" /\ c \notin dead /\ at[t] = "body" =>
          txn[c] = "open" /\ wants[t] = work[c] \cup slot[c].rest.writes
    /\ reply[c] # "none" /\ at[t] # "body" => txn[c] = "idle"

RunInv(t, c) ==
    /\ at[t] \in {"begun", "body", "commit", "rollback"}
    /\ at[t] = "begun" => pending[c]
    /\ at[t] = "body" => exec[t] = c
    /\ pending[c] => slot[c] = Empty /\ txn[c] = "idle" /\ wants[t] = {}
    /\ work[c] \subseteq WritesOf(t)
    /\ slot[c] # Empty => AskedShape(t, c) /\ AskedState(t, c)
    /\ slot[c] = Empty /\ ~pending[c] /\ c \notin dead /\ at[t] \in {"body", "commit"}
          => txn[c] = "open" /\ work[c] = wants[t]

BatchInv(t, c) ==
    /\ txn[c] = "idle"
    /\ slot[c] # Empty =>
          /\ slot[c].by = t /\ slot[c].awaited /\ t \in waits
          /\ slot[c].kind = "batch"
          /\ slot[c].msg = [begin |-> TRUE, writes |-> wants[t], end |-> "COMMIT"]
          /\ slot[c].rest = Nothing
          /\ reply[c] # "error"
          /\ reply[c] = "none" => Fresh(t)
          /\ reply[c] = "ok" => wants[t] \subseteq stored
    /\ slot[c] = Empty /\ cause[t] = None => wants[t] \subseteq stored

(* What became of the writes of t, by the stage it is at. *)
FateInv(t) ==
    /\ at[t] \in {"idle", "acquiring", "begun", "body", "batchAcquiring"} => Fresh(t)
    /\ at[t] \in {"idle", "acquiring", "begun", "batchAcquiring"} => wants[t] = {}
    /\ at[t] \in {"begun", "body", "commit"} => active[UnitOf(t)]
    /\ at[t] = "commit" =>
          \A c \in Conns : leased[UnitOf(t)] = c =>
             /\ slot[c] = Empty \/ reply[c] = "none" => Fresh(t)
             /\ slot[c] # Empty /\ reply[c] = "ok" => wants[t] \subseteq stored
    /\ at[t] \in {"rollback", "close"} =>
          \/ /\ at[t] = "close" /\ cause[t] = None /\ raised[t] = None
             /\ wants[t] \subseteq stored
          \/ /\ raised[t] # None /\ cause[t].from \in {"body", "commit"}
             /\ cause[t].from = "body" => Fresh(t)
    /\ at[t] \in {"idle", "batchAcquiring"} => cause[t] = None
    /\ at[t] = "batch" => cause[t] = None \/ cause[t].from = "batch"

(* A connection nobody has borrowed is quiet. *)
QuietInv ==
    /\ \A c \in Conns \ lent : slot[c] = Empty /\ txn[c] = "idle"
    /\ \A c \in Conns : txn[c] # "open" => work[c] = {}
    /\ \A c \in dead : txn[c] = "idle"

OrderlyInv ==
    /\ LeaseInv
    /\ QuietInv
    /\ \A t \in Tasks, c \in Conns : Runs(t, c) => RunInv(t, c)
    /\ \A t \in Tasks, c \in Conns : Batches(t, c) => BatchInv(t, c)
    /\ \A t \in Tasks : FateInv(t)

IInv == /\ TypeOK /\ HoldInv
        /\ OwnUnits => LeaseInv
        /\ Orderly => OrderlyInv

-------------------------------------------------------------------------------
(* Lemmas about the data *)

LEMMA ProgramTyped ==
    ASSUME program \in Programs
    PROVE  /\ program.unitOf \in [Tasks -> Units]
           /\ \A t \in Tasks : UnitOf(t) \in Units
           /\ program.kinds \subseteq AllKinds
           /\ program.swallow \in BOOLEAN /\ program.overlap \in BOOLEAN
<1>1. program \in Program
  BY ProgramsAssumption
<1> QED
  BY <1>1 DEF Program, UnitOf

LEMMA StatementIsNotEmpty == \A s \in Statement : s # Empty
<1> SUFFICES ASSUME NEW s \in Statement, s = Empty PROVE FALSE
  OBVIOUS
<1>1. "msg" \in DOMAIN s
  BY DEF Statement
<1>2. DOMAIN s = {"by"}
  BY DEF Empty
<1> QED
  BY <1>1, <1>2

LEMMA NothingTyped == Nothing \in Message
BY DEF Nothing, Message

LEMMA ThrownTyped ==
    /\ None \notin Exceptions
    /\ \A from \in {"body", "begin", "commit", "rollback", "batch"},
          what \in {"query", "nullCheck", "state", "own"} :
             Thrown(from, what) \in Exceptions /\ Thrown(from, what) # None
             /\ Thrown(from, what).from = from
BY DEF None, Exceptions, Thrown

LEMMA NewWritesTyped ==
    ASSUME NEW t \in Tasks, NEW k, started[t] \in 0..MaxStmts, started[t] < MaxStmts
    PROVE  NewWrites(t, k) \subseteq WritesOf(t) /\ WritesOf(t) \subseteq Writes
<1>1. started[t] + 1 \in 1..MaxStmts
  BY MaxStmtsIsNat
<1>2. NewWrites(t, k) \subseteq WritesOf(t)
  BY <1>1 DEF NewWrites, WritesOf
<1>3. WritesOf(t) \subseteq Writes
  BY DEF Writes
<1> QED
  BY <1>2, <1>3

LEMMA WritesApart ==
    ASSUME NEW s \in Tasks, NEW t \in Tasks, s # t
    PROVE  WritesOf(s) \cap WritesOf(t) = {}
BY DEF WritesOf

LEMMA RunTyped ==
    ASSUME TypeOK, NEW c \in Conns, NEW m \in Message, NEW r
    PROVE  /\ Run(c, m, r).ok \in BOOLEAN
           /\ Run(c, m, r).txn \in {"idle", "open", "aborted"}
           /\ Run(c, m, r).work \subseteq Writes
           /\ Run(c, m, r).stored \subseteq Writes
<1>1. /\ m.begin \in BOOLEAN /\ m.writes \subseteq Writes
      /\ work[c] \subseteq Writes /\ stored \subseteq Writes
      /\ txn[c] \in {"idle", "open", "aborted"}
  BY DEF Message, TypeOK
<1> QED
  BY <1>1 DEF Run

LEMMA MessageTyped ==
    ASSUME TypeOK, NEW c \in Conns, slot[c] # Empty
    PROVE  /\ slot[c] \in Statement /\ slot[c].by \in Tasks
           /\ slot[c].msg \in Message /\ slot[c].rest \in Message
           /\ slot[c].kind \in AllKinds /\ slot[c].awaited \in BOOLEAN
<1>1. slot[c] \in Statement
  BY DEF TypeOK
<1> QED
  BY <1>1 DEF Statement

LEMMA DispatchTyped ==
    ASSUME TypeOK, NEW t \in Tasks, NEW c \in Conns, NEW k \in AllKinds,
           NEW m \in Message, NEW awaited \in BOOLEAN,
           Submit(t, c, k, m, awaited)
    PROVE  /\ slot' \in [Conns -> Statement \cup {Empty}]
           /\ reply' \in [Conns -> {"none", "ok", "error", "lost"}]
           /\ pending' \in [Conns -> BOOLEAN]
           /\ waits' \subseteq Tasks
<1>1. /\ pending[c] \in BOOLEAN
      /\ Nothing \in Message
      /\ DeferredBegin(c, m) \in Message
      /\ DeferredBegin(c, Nothing) \in Message
  BY NothingTyped DEF TypeOK, DeferredBegin, Message
<1>2. slot'[c] \in Statement /\ slot' = [slot EXCEPT ![c] = slot'[c]]
  BY <1>1 DEF Submit, Dispatch, Statement, TypeOK
<1>3. slot' \in [Conns -> Statement \cup {Empty}]
  BY <1>2 DEF TypeOK
<1> QED
  BY <1>3 DEF Submit, Dispatch, BeginUsed, TypeOK

LEMMA OutcomeTyped ==
    ASSUME NEW c \in Conns, reply[c] \in {"ok", "error", "lost"},
           NEW from \in {"body", "commit", "rollback", "batch"}
    PROVE  /\ Outcome(from, c) \in Exceptions \cup {None}
           /\ reply[c] = "ok" => Outcome(from, c) = None
           /\ reply[c] # "ok" => Outcome(from, c) # None /\ Outcome(from, c).from = from
BY ThrownTyped DEF Outcome

-------------------------------------------------------------------------------
(* Types and holders, in every program *)

LEMMA HoldInit == Init => TypeOK /\ HoldInv
<1> SUFFICES ASSUME Init PROVE TypeOK /\ HoldInv
  OBVIOUS
<1>1. 0 \in 0..MaxStmts
  BY MaxStmtsIsNat
<1>2. TypeOK
  BY <1>1, NoConnIsNoConn DEF Init, TypeOK, Stages
<1>3. HoldInv
  BY DEF Init, HoldInv
<1> QED
  BY <1>2, <1>3

(* Where withTransactionOn goes next, typed. *)
LEMMA AfterTyped ==
    ASSUME TypeOK, NEW t \in Tasks, at[t] \in Ending,
           NEW e \in Exceptions \cup {None}, After(t, e)
    PROVE  /\ at' \in [Tasks -> Stages]
           /\ cause' \in [Tasks -> Exceptions \cup {None}]
           /\ raised' \in [Tasks -> Exceptions \cup {None}]
           /\ at' = [at EXCEPT ![t] = at'[t]]
           /\ at[t] = "commit" =>
                 /\ at'[t] = IF e = None THEN "close" ELSE "rollback"
                 /\ cause'[t] = e /\ raised'[t] = e
           /\ at[t] = "rollback" =>
                 /\ at'[t] = "close" /\ cause'[t] = cause[t]
                 /\ raised'[t] = IF e = None THEN raised[t] ELSE e
           /\ at[t] = "close" =>
                 /\ at'[t] = "ended" /\ cause'[t] = cause[t] /\ raised'[t] = raised[t]
           /\ \A s \in Tasks : s # t => /\ at'[s] = at[s]
                                        /\ cause'[s] = cause[s] /\ raised'[s] = raised[s]
BY DEF After, AfterThrow, Goto, Ending, TypeOK, Stages

LEMMA BodyGetsTyped ==
    ASSUME TypeOK, NEW t \in Tasks, at[t] = "body",
           NEW e \in Exceptions \cup {None}, BodyGets(t, e)
    PROVE  /\ at' \in [Tasks -> Stages]
           /\ cause' \in [Tasks -> Exceptions \cup {None}]
           /\ raised' \in [Tasks -> Exceptions \cup {None}]
           /\ \/ UNCHANGED <<at, cause, raised>> /\ (e = None \/ program.swallow)
              \/ /\ e # None
                 /\ at' = [at EXCEPT ![t] = "rollback"]
                 /\ cause' = [cause EXCEPT ![t] = e]
                 /\ raised' = [raised EXCEPT ![t] = e]
BY DEF BodyGets, AfterThrow, Goto, Raise, TypeOK, Stages

(* What a unit gives back, nobody else holds. *)
LEMMA ReleaseKeepsHolders ==
    ASSUME TypeOK, HoldInv, NEW u \in Units, ReleaseConnection(u),
           UNCHANGED exec,
           \A t \in Tasks : at'[t] \in {"batch", "body", "idle", "acquiring", "begun",
                                        "batchAcquiring"} => at'[t] = at[t],
           UNCHANGED started
    PROVE  /\ active' \in [Units -> BOOLEAN]
           /\ leased' \in [Units -> Conns \cup {NoConn}]
           /\ lent' \subseteq Conns
           /\ \A v \in Units : active'[v] <=> leased'[v] \in lent'
           /\ HoldInv'
<1>1. /\ active' = [active EXCEPT ![u] = FALSE]
      /\ leased' = [leased EXCEPT ![u] = NoConn]
      /\ lent' = lent \ {leased[u]}
  BY DEF ReleaseConnection, LeaseReturned
<1>2. /\ active' \in [Units -> BOOLEAN]
      /\ leased' \in [Units -> Conns \cup {NoConn}]
      /\ lent' \subseteq Conns
  BY <1>1 DEF TypeOK
<1>3. \A v \in Units : active'[v] <=> leased'[v] \in lent'
  <2> SUFFICES ASSUME NEW v \in Units PROVE active'[v] <=> leased'[v] \in lent'
    OBVIOUS
  <2>1. CASE v = u
    BY <1>1, <1>2, <2>1, NoConnIsNoConn DEF TypeOK
  <2>2. CASE v # u
    <3>1. active'[v] = active[v] /\ leased'[v] = leased[v]
      BY <1>1, <2>2 DEF TypeOK
    <3>2. active[v] => leased[v] # leased[u]
      BY <2>2 DEF HoldInv
    <3> QED
      BY <1>1, <3>1, <3>2 DEF TypeOK
  <2> QED
    BY <2>1, <2>2
<1>4. HoldInv'
  <2>1. \A v \in Units : ~active'[v] => leased'[v] = NoConn
    BY <1>1 DEF HoldInv, TypeOK
  <2>2. \A v, w \in Units : active'[v] /\ leased'[v] = leased'[w] => v = w
    BY <1>1, NoConnIsNoConn DEF HoldInv, TypeOK
  <2>3. \A t \in Tasks : at'[t] = "batch" =>
           exec'[t] \in lent' /\ \A v \in Units : leased'[v] # exec'[t]
    BY <1>1, NoConnIsNoConn DEF HoldInv, TypeOK
  <2> QED
    BY <2>1, <2>2, <2>3 DEF HoldInv
<1> QED
  BY <1>2, <1>3, <1>4

LEMMA HoldersKept ==
    ASSUME HoldInv, UNCHANGED <<active, leased, lent, started>>,
           \A t \in Tasks :
              at'[t] \in {"idle", "acquiring", "begun", "batchAcquiring", "batch"}
                 => at'[t] = at[t] /\ exec'[t] = exec[t],
           \A t \in Tasks : at'[t] = "body" => exec'[t] \in Conns
    PROVE  HoldInv'
BY DEF HoldInv

LEMMA BeginHolds ==
    ASSUME TypeOK, HoldInv, UNCHANGED program, NEW t \in Tasks,
           Begin(t) \/ EnterBody(t) \/ BatchBegin(t)
    PROVE  TypeOK' /\ HoldInv'
<1>1. UnitOf(t) \in Units
  BY ProgramTyped DEF TypeOK
<1>2. CASE Begin(t)
  <2>1. TypeOK'
    BY <1>2, ThrownTyped DEF Begin, Goto, Raise, TypeOK, Stages, unitVars, poolVars,
       slotVars, serverVars
  <2> QED
    BY <1>2, <2>1, SMTT(60) DEF Begin, Goto, HoldInv, TypeOK, unitVars, poolVars
<1>3. CASE EnterBody(t)
  <2>2. active[UnitOf(t)] => leased[UnitOf(t)] \in Conns
    BY <1>1 DEF TypeOK
  <2>3. /\ cause' \in [Tasks -> Exceptions \cup {None}]
        /\ raised' \in [Tasks -> Exceptions \cup {None}]
    BY <1>3, ThrownTyped DEF EnterBody, Raise, TypeOK
  <2>1. TypeOK'
    BY <1>3, <2>2, <2>3 DEF EnterBody, Goto, AfterThrow, TypeOK, Stages,
       unitVars, poolVars, slotVars, serverVars
  <2>4. \A s \in Tasks : at'[s] = "body" => exec'[s] \in Conns
    BY <1>3, <2>2 DEF EnterBody, Goto, AfterThrow, TypeOK, HoldInv
  <2>5. \A s \in Tasks :
           at'[s] \in {"idle", "acquiring", "begun", "batchAcquiring", "batch"}
              => at'[s] = at[s] /\ exec'[s] = exec[s]
    BY <1>3 DEF EnterBody, Goto, AfterThrow, TypeOK
  <2>6. UNCHANGED <<active, leased, lent, started>>
    BY <1>3 DEF EnterBody, unitVars, poolVars
  <2> QED
    BY <2>1, <2>4, <2>5, <2>6, HoldersKept
<1>4. CASE BatchBegin(t)
  <2>1. TypeOK'
    BY <1>4 DEF BatchBegin, Goto, TypeOK, Stages, unitVars, poolVars, slotVars, serverVars
  <2> QED
    BY <1>4, <2>1 DEF BatchBegin, Goto, HoldInv, TypeOK, unitVars, poolVars
<1> QED
  BY <1>2, <1>3, <1>4

LEMMA AcquiredHolds ==
    ASSUME TypeOK, HoldInv, UNCHANGED program, NEW t \in Tasks, NEW c \in Conns,
           Acquired(t, c)
    PROVE  TypeOK' /\ HoldInv'
<1> DEFINE u == UnitOf(t)
<1>1. u \in Units
  BY ProgramTyped DEF TypeOK
<1>2. /\ at[t] = "acquiring" /\ c \notin lent
      /\ lent' = lent \cup {c}
      /\ leased' = [leased EXCEPT ![u] = c]
      /\ active' = [active EXCEPT ![u] = TRUE]
      /\ pending' = [pending EXCEPT ![c] = TRUE]
      /\ at' = [at EXCEPT ![t] = "begun"]
      /\ UNCHANGED <<waits, exec, started, wants, cause, raised, slotVars, serverVars>>
  BY DEF Acquired, Goto
<1> HIDE DEF u
<1>3. \A v \in Units : active'[v] <=> leased'[v] \in lent'
  <2> SUFFICES ASSUME NEW v \in Units PROVE active'[v] <=> leased'[v] \in lent'
    OBVIOUS
  <2>1. CASE v = u
    BY <1>1, <1>2, <2>1 DEF TypeOK
  <2>2. CASE v # u
    <3>1. active'[v] = active[v] /\ leased'[v] = leased[v]
      BY <1>1, <1>2, <2>2 DEF TypeOK
    <3>2. ~active[v] => leased[v] = NoConn /\ NoConn # c
      BY NoConnIsNoConn DEF HoldInv
    <3>3. active[v] <=> leased[v] \in lent
      BY DEF TypeOK
    <3>4. leased'[v] \in lent' <=> leased[v] \in lent
      <4>1. leased[v] = c => leased[v] \in lent
        BY <3>2, <3>3
      <4> QED
        BY <1>2, <3>1, <4>1
    <3> QED
      BY <3>1, <3>3, <3>4
  <2> QED
    BY <2>1, <2>2
<1>4. TypeOK'
  BY <1>1, <1>2, <1>3 DEF TypeOK, Stages, slotVars, serverVars
<1>5. \A v \in Units : leased[v] # c
  BY <1>2, NoConnIsNoConn DEF HoldInv, TypeOK
<1>6. \A v \in Units : ~active'[v] => leased'[v] = NoConn
  BY <1>1, <1>2 DEF HoldInv, TypeOK
<1>7. \A v, w \in Units : active'[v] /\ leased'[v] = leased'[w] => v = w
  BY <1>1, <1>2, <1>5 DEF HoldInv, TypeOK
<1>8. \A s \in Tasks : at'[s] = "batch" =>
         exec'[s] \in lent' /\ \A v \in Units : leased'[v] # exec'[s]
  BY <1>1, <1>2 DEF HoldInv, TypeOK
<1>9. \A s \in Tasks : at'[s] \in {"idle", "acquiring", "batchAcquiring", "batch", "body"}
         => at'[s] = at[s]
  BY <1>2 DEF TypeOK
<1> QED
  BY <1>2, <1>4, <1>6, <1>7, <1>8, <1>9 DEF HoldInv, TypeOK

LEMMA ExecuteHolds ==
    ASSUME TypeOK, HoldInv, UNCHANGED program, NEW t \in Tasks,
           NEW k \in AllKinds, NEW awaited \in BOOLEAN, Execute(t, k, awaited)
    PROVE  TypeOK' /\ HoldInv'
<1> DEFINE c == exec[t]
           m == [Nothing EXCEPT !.writes = NewWrites(t, k)]
<1>1. /\ at[t] = "body" /\ c \in Conns
      /\ started[t] < MaxStmts /\ started' = [started EXCEPT ![t] = @ + 1]
      /\ UNCHANGED <<exec, unitVars, lent, serverVars>>
  BY DEF Execute, InBody, HoldInv
<1>2. started[t] \in 0..MaxStmts /\ NewWrites(t, k) \subseteq WritesOf(t)
      /\ NewWrites(t, k) \subseteq Writes
  BY <1>1, NewWritesTyped DEF TypeOK
<1>3. m \in Message
  BY <1>2, NothingTyped DEF Message
<1>4. started' \in [Tasks -> 0..MaxStmts]
  BY <1>1, <1>2, MaxStmtsIsNat DEF TypeOK
<1>5. \/ /\ Submit(t, c, k, m, awaited)
         /\ wants' = [wants EXCEPT ![t] = @ \cup NewWrites(t, k)]
         /\ UNCHANGED <<at, cause, raised>>
      \/ /\ BeginUsed(c)
         /\ BodyGets(t, IF awaited THEN Thrown("body", "query") ELSE None)
         /\ UNCHANGED <<waits, wants, slotVars>>
  BY DEF Execute
<1> HIDE DEF c, m
<1>6. CASE /\ Submit(t, c, k, m, awaited)
           /\ wants' = [wants EXCEPT ![t] = @ \cup NewWrites(t, k)]
           /\ UNCHANGED <<at, cause, raised>>
  <2>1. /\ slot' \in [Conns -> Statement \cup {Empty}]
        /\ reply' \in [Conns -> {"none", "ok", "error", "lost"}]
        /\ pending' \in [Conns -> BOOLEAN]
        /\ waits' \subseteq Tasks
    BY <1>1, <1>3, <1>6, DispatchTyped
  <2>2. /\ wants' \in [Tasks -> SUBSET Writes]
        /\ \A s \in Tasks : wants'[s] \subseteq WritesOf(s)
    BY <1>2, <1>6 DEF TypeOK
  <2>3. TypeOK'
    BY <1>1, <1>4, <1>6, <2>1, <2>2 DEF TypeOK, unitVars, serverVars
  <2> QED
    BY <1>1, <1>6, <2>3 DEF HoldInv, unitVars, TypeOK
<1>7. CASE /\ BeginUsed(c)
           /\ BodyGets(t, IF awaited THEN Thrown("body", "query") ELSE None)
           /\ UNCHANGED <<waits, wants, slotVars>>
  <2>1. /\ at' \in [Tasks -> Stages]
        /\ cause' \in [Tasks -> Exceptions \cup {None}]
        /\ raised' \in [Tasks -> Exceptions \cup {None}]
        /\ at' = at \/ at' = [at EXCEPT ![t] = "rollback"]
    BY <1>1, <1>7, ThrownTyped, BodyGetsTyped
  <2>2. pending' \in [Conns -> BOOLEAN]
    BY <1>7 DEF BeginUsed, TypeOK
  <2>3. TypeOK'
    BY <1>1, <1>4, <1>7, <2>1, <2>2 DEF TypeOK, unitVars, serverVars, slotVars
  <2> QED
    BY <1>1, <1>7, <2>1, <2>3 DEF HoldInv, unitVars, TypeOK
<1> QED
  BY <1>5, <1>6, <1>7

LEMMA BodyEndHolds ==
    ASSUME TypeOK, HoldInv, UNCHANGED program, NEW t \in Tasks,
           BodyThrows(t) \/ BodyReturns(t)
    PROVE  TypeOK' /\ HoldInv'
<1>1. TypeOK'
  BY ThrownTyped DEF BodyThrows, BodyReturns, Goto, Raise, AfterThrow, TypeOK, Stages,
     unitVars, poolVars, slotVars, serverVars
<1> QED
  BY <1>1 DEF BodyThrows, BodyReturns, Goto, AfterThrow, HoldInv, TypeOK, unitVars, poolVars

LEMMA EndInactiveHolds ==
    ASSUME TypeOK, HoldInv, UNCHANGED program, NEW t \in Tasks, EndInactive(t)
    PROVE  TypeOK' /\ HoldInv'
<1> DEFINE e == Thrown(IF at[t] = "commit" THEN "commit" ELSE "rollback", "state")
<1>1. /\ at[t] \in Ending /\ After(t, e)
      /\ UNCHANGED <<waits, exec, started, wants, unitVars, poolVars, slotVars, serverVars>>
  BY DEF EndInactive
<1>2. e \in Exceptions \cup {None}
  BY ThrownTyped
<1> HIDE DEF e
<1>3. /\ at' \in [Tasks -> Stages]
      /\ cause' \in [Tasks -> Exceptions \cup {None}]
      /\ raised' \in [Tasks -> Exceptions \cup {None}]
      /\ at' = [at EXCEPT ![t] = at'[t]] /\ at'[t] \in {"close", "rollback", "ended"}
  BY <1>1, <1>2, AfterTyped DEF Ending
<1>4. TypeOK'
  BY <1>1, <1>3 DEF TypeOK, unitVars, poolVars, slotVars, serverVars
<1> QED
  BY <1>1, <1>3, <1>4 DEF HoldInv, TypeOK, unitVars, poolVars

LEMMA EndSubmitHolds ==
    ASSUME TypeOK, HoldInv, UNCHANGED program, NEW t \in Tasks, EndSubmit(t)
    PROVE  TypeOK' /\ HoldInv'
<1> DEFINE u == UnitOf(t)
           c == leased[u]
           m == [Nothing EXCEPT !.end = IF at[t] = "commit" THEN "COMMIT" ELSE "ROLLBACK"]
           e == Thrown(at[t], "query")
<1>1. /\ at[t] \in Ending /\ active[u]
      /\ \/ /\ Submit(t, c, "simple", m, TRUE)
            /\ UNCHANGED <<at, cause, raised, unitVars, lent>>
         \/ /\ BeginUsed(c)
            /\ ReleaseConnection(u)
            /\ After(t, e)
            /\ UNCHANGED <<waits, slotVars>>
      /\ UNCHANGED <<exec, started, wants, serverVars>>
  BY DEF EndSubmit
<1>2. u \in Units
  BY ProgramTyped DEF TypeOK
<1>3. c \in Conns
  BY <1>1, <1>2 DEF TypeOK
<1>4. m \in Message
  BY NothingTyped DEF Message
<1>5. "simple" \in AllKinds /\ TRUE \in BOOLEAN
  BY DEF AllKinds
<1> HIDE DEF u, c, m
<1>6. CASE /\ Submit(t, c, "simple", m, TRUE)
           /\ UNCHANGED <<at, cause, raised, unitVars, lent>>
  <2>1. /\ slot' \in [Conns -> Statement \cup {Empty}]
        /\ reply' \in [Conns -> {"none", "ok", "error", "lost"}]
        /\ pending' \in [Conns -> BOOLEAN]
        /\ waits' \subseteq Tasks
    BY <1>3, <1>4, <1>5, <1>6, DispatchTyped
  <2>2. TypeOK'
    BY <1>1, <1>6, <2>1 DEF TypeOK, unitVars, serverVars
  <2> QED
    BY <1>1, <1>6, <2>2 DEF HoldInv, unitVars
<1>7. CASE /\ BeginUsed(c)
           /\ ReleaseConnection(u)
           /\ After(t, e)
           /\ UNCHANGED <<waits, slotVars>>
  <2>1. at[t] # "close" \/ at[t] = "close"
    OBVIOUS
  <2>2. /\ at' \in [Tasks -> Stages]
        /\ cause' \in [Tasks -> Exceptions \cup {None}]
        /\ raised' \in [Tasks -> Exceptions \cup {None}]
        /\ at' = [at EXCEPT ![t] = at'[t]] /\ at'[t] \in {"close", "rollback", "ended"}
    <3>1. CASE at[t] = "close"
      BY <1>1, <1>7, <3>1 DEF After, Goto, TypeOK, Stages
    <3>2. CASE at[t] # "close"
      <4>1. e \in Exceptions \cup {None}
        BY <1>1, <3>2, ThrownTyped DEF Ending
      <4> QED
        BY <1>1, <1>7, <3>2, <4>1, AfterTyped DEF Ending
    <3> QED
      BY <3>1, <3>2
  <2>3. \A s \in Tasks : at'[s] \in {"batch", "body", "idle", "acquiring", "begun",
                                      "batchAcquiring"} => at'[s] = at[s]
    BY <2>2 DEF TypeOK
  <2>4. pending' \in [Conns -> BOOLEAN]
    BY <1>7 DEF BeginUsed, TypeOK
  <2>5. /\ active' \in [Units -> BOOLEAN]
        /\ leased' \in [Units -> Conns \cup {NoConn}]
        /\ lent' \subseteq Conns
        /\ \A v \in Units : active'[v] <=> leased'[v] \in lent'
        /\ HoldInv'
    BY <1>1, <1>2, <1>7, <2>3, ReleaseKeepsHolders
  <2>6. TypeOK'
    BY <1>1, <1>7, <2>2, <2>4, <2>5 DEF TypeOK, slotVars, serverVars
  <2> QED
    BY <2>5, <2>6
<1> QED
  BY <1>1, <1>6, <1>7

LEMMA BatchSubmitHolds ==
    ASSUME TypeOK, HoldInv, UNCHANGED program, NEW t \in Tasks, NEW c \in Conns,
           BatchSubmit(t, c)
    PROVE  TypeOK' /\ HoldInv'
<1>1. /\ at[t] = "batchAcquiring" /\ c \notin lent
      /\ lent' = lent \cup {c}
      /\ exec' = [exec EXCEPT ![t] = c]
      /\ at' = [at EXCEPT ![t] = "batch"]
      /\ started' = [started EXCEPT ![t] = @ + 1]
      /\ UNCHANGED <<raised, unitVars, serverVars, pending>>
  BY DEF BatchSubmit, Goto
<1>2. started[t] = 0
  BY <1>1 DEF HoldInv
<1>3. started' \in [Tasks -> 0..MaxStmts]
  BY <1>1, <1>2, MaxStmtsIsNat DEF TypeOK
<1>4. NewWrites(t, "batch") \subseteq WritesOf(t) /\ NewWrites(t, "batch") \subseteq Writes
  <2>1. started[t] < MaxStmts /\ started[t] \in 0..MaxStmts
    BY <1>2, MaxStmtsIsNat
  <2> QED
    BY <2>1, NewWritesTyped
<1>5. /\ waits' \subseteq Tasks
      /\ cause' \in [Tasks -> Exceptions \cup {None}]
      /\ wants' \in [Tasks -> SUBSET Writes]
      /\ \A s \in Tasks : wants'[s] \subseteq WritesOf(s)
      /\ slot' \in [Conns -> Statement \cup {Empty}]
      /\ reply' \in [Conns -> {"none", "ok", "error", "lost"}]
  <2>1. CASE Busy(c)
    BY <2>1, ThrownTyped DEF BatchSubmit, TypeOK, slotVars
  <2>2. CASE ~Busy(c)
    <3> DEFINE m == [begin |-> TRUE, writes |-> NewWrites(t, "batch"), end |-> "COMMIT"]
               s == [by |-> t, awaited |-> TRUE, kind |-> "batch", fused |-> FALSE,
                     msg |-> m, rest |-> Nothing]
    <3>1. /\ slot' = [slot EXCEPT ![c] = s]
          /\ reply' = [reply EXCEPT ![c] = "none"]
          /\ waits' = waits \cup {t}
          /\ wants' = [wants EXCEPT ![t] = NewWrites(t, "batch")]
          /\ UNCHANGED cause
      BY <2>2 DEF BatchSubmit
    <3>2. m \in Message
      BY <1>4 DEF Message
    <3>3. s \in Statement
      BY <3>2, NothingTyped DEF Statement, AllKinds
    <3> HIDE DEF s
    <3> QED
      BY <1>4, <3>1, <3>3 DEF TypeOK
  <2> QED
    BY <2>1, <2>2
<1>6. \A v \in Units : leased[v] # c
  BY <1>1, NoConnIsNoConn DEF HoldInv, TypeOK
<1>7. \A v \in Units : active'[v] <=> leased'[v] \in lent'
  <2> SUFFICES ASSUME NEW v \in Units PROVE active'[v] <=> leased'[v] \in lent'
    OBVIOUS
  <2>1. active'[v] = active[v] /\ (leased'[v] \in lent' <=> leased[v] \in lent)
    BY <1>1, <1>6 DEF unitVars
  <2>2. active[v] <=> leased[v] \in lent
    BY DEF TypeOK
  <2> QED
    BY <2>1, <2>2
<1>8. TypeOK'
  BY <1>1, <1>3, <1>5, <1>7 DEF TypeOK, Stages, unitVars, serverVars
<1>9. \A s \in Tasks : s # t => at'[s] = at[s] /\ exec'[s] = exec[s] /\ started'[s] = started[s]
  BY <1>1 DEF TypeOK
<1>10. at'[t] = "batch" /\ exec'[t] = c
  BY <1>1 DEF TypeOK
<1>11. \A s \in Tasks : at'[s] = "batch" =>
          exec'[s] \in lent' /\ \A v \in Units : leased'[v] # exec'[s]
  BY <1>1, <1>6, <1>9, <1>10 DEF HoldInv, unitVars
<1>12. \A r, s \in Tasks :
          at'[r] = "batch" /\ at'[s] = "batch" /\ exec'[r] = exec'[s] => r = s
  BY <1>1, <1>9, <1>10 DEF HoldInv
<1>13. \A s \in Tasks :
          /\ at'[s] = "body" => exec'[s] \in Conns
          /\ at'[s] \in {"idle", "acquiring", "begun", "batchAcquiring"} => started'[s] = 0
  BY <1>9, <1>10 DEF HoldInv
<1> QED
  BY <1>1, <1>8, <1>11, <1>12, <1>13 DEF HoldInv, unitVars

LEMMA BatchEndHolds ==
    ASSUME TypeOK, HoldInv, UNCHANGED program, NEW t \in Tasks, BatchEnd(t)
    PROVE  TypeOK' /\ HoldInv'
<1>1. /\ at[t] = "batch" /\ lent' = lent \ {exec[t]}
      /\ raised' = [raised EXCEPT ![t] = cause[t]]
      /\ at' = [at EXCEPT ![t] = "ended"]
      /\ UNCHANGED <<waits, exec, started, wants, cause, unitVars, pending, slotVars,
                     serverVars>>
  BY DEF BatchEnd, Raise, Goto
<1>2. \A v \in Units : active'[v] <=> leased'[v] \in lent'
  <2> SUFFICES ASSUME NEW v \in Units PROVE active'[v] <=> leased'[v] \in lent'
    OBVIOUS
  <2>1. leased[v] # exec[t]
    BY <1>1 DEF HoldInv
  <2>2. active'[v] = active[v] /\ (leased'[v] \in lent' <=> leased[v] \in lent)
    BY <1>1, <2>1 DEF unitVars
  <2>3. active[v] <=> leased[v] \in lent
    BY DEF TypeOK
  <2> QED
    BY <2>2, <2>3
<1>3. TypeOK'
  BY <1>1, <1>2 DEF TypeOK, Stages, unitVars, slotVars, serverVars
<1>4. \A s \in Tasks : at'[s] # "ended" => at'[s] = at[s] /\ s # t
  BY <1>1 DEF TypeOK
<1>5. \A s \in Tasks : at'[s] = "batch" =>
         exec'[s] \in lent' /\ \A v \in Units : leased'[v] # exec'[s]
  BY <1>1, <1>4 DEF HoldInv, unitVars
<1> QED
  BY <1>1, <1>3, <1>4, <1>5 DEF HoldInv, unitVars

LEMMA ServerStepHolds ==
    ASSUME TypeOK, HoldInv, UNCHANGED program, NEW c \in Conns, ServerStep(c)
    PROVE  TypeOK' /\ HoldInv'
<1>1. /\ slot[c] # Empty
      /\ UNCHANGED <<taskVars, unitVars, poolVars, slot, dead>>
  BY DEF ServerStep
<1>2. /\ reply' \in [Conns -> {"none", "ok", "error", "lost"}]
      /\ txn' \in [Conns -> {"idle", "open", "aborted"}]
      /\ work' \in [Conns -> SUBSET Writes]
      /\ stored' \subseteq Writes
  <2>1. CASE c \in dead
    BY <2>1 DEF ServerStep, TypeOK
  <2>2. CASE c \notin dead
    <3>1. PICK refused \in Refusable(slot[c]) :
             LET s == Run(c, slot[c].msg, refused)
                 piped == Piped(slot[c])
                 end == IF piped THEN RollBackAborted(s.txn) ELSE s.txn
             IN  /\ txn' = [txn EXCEPT ![c] = end]
                 /\ work' = [work EXCEPT ![c] = IF end = "open" THEN s.work ELSE {}]
                 /\ stored' = s.stored
                 /\ reply' = [reply EXCEPT ![c] =
                                  IF s.ok \/ piped THEN "ok" ELSE "error"]
      BY <2>2 DEF ServerStep
    <3> DEFINE s == Run(c, slot[c].msg, refused)
    <3>2. /\ s.txn \in {"idle", "open", "aborted"}
          /\ s.work \subseteq Writes /\ s.stored \subseteq Writes
      BY <1>1, MessageTyped, RunTyped
    <3> HIDE DEF s
    <3> QED
      BY <3>1, <3>2 DEF s, RollBackAborted, TypeOK
  <2> QED
    BY <2>1, <2>2
<1>3. TypeOK'
  BY <1>1, <1>2 DEF TypeOK, taskVars, unitVars, poolVars
<1> QED
  BY <1>1, <1>3 DEF HoldInv, taskVars, unitVars, poolVars

LEMMA SendRestHolds ==
    ASSUME TypeOK, HoldInv, UNCHANGED program, NEW c \in Conns, SendRest(c)
    PROVE  TypeOK' /\ HoldInv'
<1>1. /\ slot' = [slot EXCEPT ![c].msg = slot[c].rest, ![c].rest = Nothing]
      /\ reply' = [reply EXCEPT ![c] = "none"]
      /\ UNCHANGED <<taskVars, unitVars, poolVars, serverVars>>
      /\ slot[c] # Empty
  BY DEF SendRest
<1>2. slot' \in [Conns -> Statement \cup {Empty}]
  <2>1. slot[c] \in Statement /\ Nothing \in Message
    BY <1>1, MessageTyped, NothingTyped
  <2>2. [[slot[c] EXCEPT !.msg = slot[c].rest] EXCEPT !.rest = Nothing] \in Statement
    BY <1>1, <2>1 DEF Statement
  <2>3. slot'[c] \in Statement /\ \A d \in Conns : d # c => slot'[d] = slot[d]
    BY <1>1, <2>2 DEF TypeOK
  <2>4. DOMAIN slot' = Conns /\ slot' = [d \in Conns |-> slot'[d]]
    BY <1>1 DEF TypeOK
  <2> QED
    BY <2>3, <2>4 DEF TypeOK
<1>3. TypeOK'
  BY <1>1, <1>2 DEF TypeOK, taskVars, unitVars, poolVars, serverVars
<1> QED
  BY <1>1, <1>3 DEF HoldInv, taskVars, unitVars, poolVars

LEMMA LoseHolds ==
    ASSUME TypeOK, HoldInv, UNCHANGED program, NEW c \in Conns, Lose(c)
    PROVE  TypeOK' /\ HoldInv'
<1>1. TypeOK'
  <2>1. reply' = reply \/ reply' = [reply EXCEPT ![c] = "lost"]
    BY DEF Lose
  <2>2. reply' \in [Conns -> {"none", "ok", "error", "lost"}]
    BY <2>1 DEF TypeOK
  <2>3. /\ txn' \in [Conns -> {"idle", "open", "aborted"}]
        /\ work' \in [Conns -> SUBSET Writes]
        /\ dead' \subseteq Conns
    BY DEF Lose, TypeOK
  <2> QED
    BY <2>2, <2>3 DEF Lose, TypeOK, taskVars, unitVars, poolVars
<1> QED
  BY <1>1 DEF Lose, HoldInv, taskVars, unitVars, poolVars

LEMMA ReceiveHolds ==
    ASSUME TypeOK, HoldInv, UNCHANGED program, NEW c \in Conns, Receive(c)
    PROVE  TypeOK' /\ HoldInv'
<1> DEFINE t == slot[c].by
           e == Outcome(at[t], c)
<1>1. /\ slot[c] # Empty
      /\ reply[c] \in {"ok", "error", "lost"}
      /\ slot' = [slot EXCEPT ![c] = Empty]
      /\ reply' = [reply EXCEPT ![c] = "none"]
      /\ wants' = [wants EXCEPT ![t] = IF reply[c] # "error" THEN @
                       ELSE @ \ (slot[c].msg.writes \cup slot[c].rest.writes)]
      /\ UNCHANGED <<exec, started, pending, serverVars>>
  BY DEF Receive, Done
<1>2. t \in Tasks
  BY <1>1, MessageTyped
<1>3. \/ UNCHANGED <<at, waits, cause, raised, unitVars, lent>>
      \/ /\ waits' = waits \ {t} /\ at[t] = "body"
         /\ BodyGets(t, e) /\ UNCHANGED <<unitVars, lent>>
      \/ /\ waits' = waits \ {t} /\ at[t] \in Ending
         /\ After(t, e) /\ ReleaseConnection(UnitOf(t))
      \/ /\ waits' = waits \ {t} /\ at[t] = "batch"
         /\ cause' = [cause EXCEPT ![t] = e]
         /\ UNCHANGED <<at, raised, unitVars, lent>>
  BY DEF Receive
<1>4. at[t] \in {"body", "commit", "rollback", "batch"} => e \in Exceptions \cup {None}
  BY <1>1, OutcomeTyped
<1> HIDE DEF t, e
<1>5. /\ wants' \in [Tasks -> SUBSET Writes]
      /\ \A s \in Tasks : wants'[s] \subseteq WritesOf(s)
  BY <1>1, <1>2 DEF TypeOK
<1>6. /\ slot' \in [Conns -> Statement \cup {Empty}]
      /\ reply' \in [Conns -> {"none", "ok", "error", "lost"}]
  BY <1>1 DEF TypeOK
<1>7. CASE UNCHANGED <<at, waits, cause, raised, unitVars, lent>>
  <2>1. TypeOK'
    BY <1>1, <1>5, <1>6, <1>7 DEF TypeOK, unitVars, serverVars
  <2> QED
    BY <1>1, <1>7, <2>1 DEF HoldInv, unitVars
<1>8. CASE /\ waits' = waits \ {t} /\ at[t] = "body"
           /\ BodyGets(t, e) /\ UNCHANGED <<unitVars, lent>>
  <2>1. /\ at' \in [Tasks -> Stages]
        /\ cause' \in [Tasks -> Exceptions \cup {None}]
        /\ raised' \in [Tasks -> Exceptions \cup {None}]
        /\ at' = at \/ at' = [at EXCEPT ![t] = "rollback"]
    BY <1>2, <1>4, <1>8, BodyGetsTyped
  <2>2. TypeOK'
    BY <1>1, <1>5, <1>6, <1>8, <2>1 DEF TypeOK, unitVars, serverVars
  <2> QED
    BY <1>1, <1>8, <2>1, <2>2 DEF HoldInv, unitVars, TypeOK
<1>9. CASE /\ waits' = waits \ {t} /\ at[t] \in Ending
           /\ After(t, e) /\ ReleaseConnection(UnitOf(t))
  <2>1. UnitOf(t) \in Units
    BY <1>2, ProgramTyped DEF TypeOK
  <2>2. /\ at' \in [Tasks -> Stages]
        /\ cause' \in [Tasks -> Exceptions \cup {None}]
        /\ raised' \in [Tasks -> Exceptions \cup {None}]
        /\ at' = [at EXCEPT ![t] = at'[t]] /\ at'[t] \in {"close", "rollback", "ended"}
    <3>1. CASE at[t] = "close"
      BY <1>2, <1>9, <3>1 DEF After, Goto, TypeOK, Stages
    <3>2. CASE at[t] # "close"
      BY <1>2, <1>4, <1>9, <3>2, AfterTyped DEF Ending
    <3> QED
      BY <3>1, <3>2
  <2>3. \A s \in Tasks : at'[s] \in {"batch", "body", "idle", "acquiring", "begun",
                                      "batchAcquiring"} => at'[s] = at[s]
    BY <2>2 DEF TypeOK
  <2>4. /\ active' \in [Units -> BOOLEAN]
        /\ leased' \in [Units -> Conns \cup {NoConn}]
        /\ lent' \subseteq Conns
        /\ \A v \in Units : active'[v] <=> leased'[v] \in lent'
        /\ HoldInv'
    BY <1>1, <1>9, <2>1, <2>3, ReleaseKeepsHolders
  <2>5. TypeOK'
    BY <1>1, <1>5, <1>6, <1>9, <2>2, <2>4 DEF TypeOK, serverVars
  <2> QED
    BY <2>4, <2>5
<1>10. CASE /\ waits' = waits \ {t} /\ at[t] = "batch"
            /\ cause' = [cause EXCEPT ![t] = e]
            /\ UNCHANGED <<at, raised, unitVars, lent>>
  <2>1. TypeOK'
    BY <1>1, <1>2, <1>4, <1>5, <1>6, <1>10 DEF TypeOK, unitVars, serverVars
  <2> QED
    BY <1>1, <1>10, <2>1 DEF HoldInv, unitVars
<1> QED
  BY <1>3, <1>7, <1>8, <1>9, <1>10

LEMMA TaskStepHolds ==
    ASSUME TypeOK, HoldInv, NEW t \in Tasks, TaskStep(t)
    PROVE  TypeOK' /\ HoldInv'
<1>1. UNCHANGED program
  BY DEF TaskStep
<1>2. ASSUME NEW c \in Conns, Acquired(t, c) \/ BatchSubmit(t, c)
      PROVE  TypeOK' /\ HoldInv'
  BY <1>1, <1>2, AcquiredHolds, BatchSubmitHolds
<1>3. ASSUME NEW k \in program.kinds, NEW awaited \in BOOLEAN, Execute(t, k, awaited)
      PROVE  TypeOK' /\ HoldInv'
  <2>1. k \in AllKinds
    BY ProgramTyped DEF TypeOK
  <2> QED
    BY <1>1, <1>3, <2>1, ExecuteHolds
<1>4. CASE Begin(t) \/ EnterBody(t) \/ BatchBegin(t)
  BY <1>1, <1>4, BeginHolds
<1>5. CASE BodyThrows(t) \/ BodyReturns(t)
  BY <1>1, <1>5, BodyEndHolds
<1>6. CASE EndInactive(t) \/ EndSubmit(t) \/ BatchEnd(t)
  BY <1>1, <1>6, EndInactiveHolds, EndSubmitHolds, BatchEndHolds
<1> QED
  BY <1>2, <1>3, <1>4, <1>5, <1>6 DEF TaskStep

LEMMA HoldStep == TypeOK /\ HoldInv /\ [Next]_vars => TypeOK' /\ HoldInv'
<1> SUFFICES ASSUME TypeOK, HoldInv, [Next]_vars PROVE TypeOK' /\ HoldInv'
  OBVIOUS
<1>1. ASSUME NEW t \in Tasks, TaskStep(t) PROVE TypeOK' /\ HoldInv'
  BY <1>1, TaskStepHolds
<1>2. ASSUME NEW c \in Conns, Answer(c) PROVE TypeOK' /\ HoldInv'
  BY <1>2, ServerStepHolds, SendRestHolds, ReceiveHolds DEF Answer
<1>3. ASSUME NEW c \in Conns, Lose(c), UNCHANGED program PROVE TypeOK' /\ HoldInv'
  BY <1>3, LoseHolds
<1>4. CASE UNCHANGED vars
  BY <1>4 DEF vars, taskVars, unitVars, poolVars, slotVars, serverVars, TypeOK, HoldInv
<1> QED
  BY <1>1, <1>2, <1>3, <1>4 DEF Next, Finished

(* In every program, whatever its bodies do and however units of work are  *)
(* shared, the state stays well typed: a unit is active exactly while the  *)
(* lease it points at is lent, so it never sends on a connection that went *)
(* back to the pool.                                                       *)
THEOREM TxTypeOK == Spec => []TypeOK
<1>1. Spec => [](TypeOK /\ HoldInv)
  BY HoldInit, HoldStep, PTL DEF Spec
<1> QED
  BY <1>1, PTL

-------------------------------------------------------------------------------
(* Every lease has a task, where each task has its own unit of work *)

LEMMA LeaseKept ==
    ASSUME LeaseInv, UNCHANGED <<program, active, leased, lent>>,
           \A t \in Tasks : at[t] = "batch" => at'[t] = "batch" /\ exec'[t] = exec[t],
           \A t \in Tasks : at'[t] \in {"begun", "body", "commit", "rollback", "close"}
                            \/ at'[t] = at[t] \/ ~active[UnitOf(t)]
    PROVE  LeaseInv'
<1>1. \A t \in Tasks : UnitOf(t)' = UnitOf(t)
  BY DEF UnitOf
<1>2. \A t \in Tasks, c \in lent : Runs(t, c) \/ Batches(t, c) => (Runs(t, c) \/ Batches(t, c))'
  BY <1>1 DEF Runs, Batches
<1>3. \A c \in lent' : \E t \in Tasks : (Runs(t, c) \/ Batches(t, c))'
  BY <1>2 DEF LeaseInv
<1>4. \A t \in Tasks : active'[UnitOf(t)'] =>
         at'[t] \in {"begun", "body", "commit", "rollback", "close"}
  BY <1>1 DEF LeaseInv
<1> QED
  BY <1>3, <1>4 DEF LeaseInv

LEMMA LeaseReleased ==
    ASSUME TypeOK, HoldInv, OwnUnits, LeaseInv, UNCHANGED <<program, exec>>,
           NEW t \in Tasks, ReleaseConnection(UnitOf(t)),
           at[t] # "batch",
           \A s \in Tasks : s # t => at'[s] = at[s]
    PROVE  LeaseInv' /\ ~active'[UnitOf(t)]
<1> DEFINE u == UnitOf(t)
<1>1. \A s \in Tasks : UnitOf(s)' = UnitOf(s) /\ UnitOf(s) \in Units
  BY ProgramTyped DEF UnitOf, TypeOK
<1>2. /\ active' = [active EXCEPT ![u] = FALSE]
      /\ leased' = [leased EXCEPT ![u] = NoConn]
      /\ lent' = lent \ {leased[u]}
  BY DEF ReleaseConnection, LeaseReturned
<1>3. \A s \in Tasks : s # t => UnitOf(s) # u
  BY DEF OwnUnits
<1> HIDE DEF u
<1>4. ~active'[u]
  BY <1>1, <1>2 DEF TypeOK, u
<1>5. \A s \in Tasks : s # t => active'[UnitOf(s)] = active[UnitOf(s)]
                                /\ leased'[UnitOf(s)] = leased[UnitOf(s)]
  BY <1>1, <1>2, <1>3 DEF TypeOK
<1>6. ASSUME NEW c \in lent' PROVE \E s \in Tasks : (Runs(s, c) \/ Batches(s, c))'
  <2>1. PICK s \in Tasks : Runs(s, c) \/ Batches(s, c)
    BY <1>2 DEF LeaseInv
  <2>2. s # t
    BY <1>2, <2>1 DEF Runs, Batches, u
  <2>3. (Runs(s, c) \/ Batches(s, c))'
    BY <1>1, <1>5, <2>1, <2>2 DEF Runs, Batches
  <2> QED
    BY <2>3
<1>7. \A s \in Tasks : active'[UnitOf(s)'] =>
         at'[s] \in {"begun", "body", "commit", "rollback", "close"}
  BY <1>1, <1>4, <1>5 DEF LeaseInv, u
<1> QED
  BY <1>4, <1>6, <1>7 DEF LeaseInv, u

LEMMA LeaseAcquired ==
    ASSUME TypeOK, HoldInv, OwnUnits, LeaseInv, UNCHANGED program,
           NEW t \in Tasks, NEW c \in Conns, Acquired(t, c)
    PROVE  LeaseInv'
<1> DEFINE u == UnitOf(t)
<1>1. \A s \in Tasks : UnitOf(s)' = UnitOf(s) /\ UnitOf(s) \in Units
  BY ProgramTyped DEF UnitOf, TypeOK
<1>2. /\ at[t] = "acquiring"
      /\ lent' = lent \cup {c}
      /\ leased' = [leased EXCEPT ![u] = c]
      /\ active' = [active EXCEPT ![u] = TRUE]
      /\ at' = [at EXCEPT ![t] = "begun"]
      /\ UNCHANGED exec
  BY DEF Acquired, Goto
<1>3. \A s \in Tasks : s # t => UnitOf(s) # u
  BY DEF OwnUnits
<1>4. \A s \in Tasks : s # t => active'[UnitOf(s)] = active[UnitOf(s)]
                                /\ leased'[UnitOf(s)] = leased[UnitOf(s)]
                                /\ at'[s] = at[s]
  BY <1>1, <1>2, <1>3 DEF TypeOK
<1>5. active'[u] /\ leased'[u] = c /\ at'[t] = "begun"
  BY <1>1, <1>2 DEF TypeOK
<1>6. ~active[u]
  BY <1>2 DEF LeaseInv
<1>7. ASSUME NEW d \in lent' PROVE \E s \in Tasks : (Runs(s, d) \/ Batches(s, d))'
  <2>1. CASE d = c
    BY <1>1, <1>5, <2>1 DEF Runs
  <2>2. CASE d # c
    <3>1. PICK s \in Tasks : Runs(s, d) \/ Batches(s, d)
      BY <1>2, <2>2 DEF LeaseInv
    <3>2. s # t
      BY <1>2, <1>6, <3>1 DEF Runs, Batches
    <3>3. (Runs(s, d) \/ Batches(s, d))'
      BY <1>1, <1>2, <1>4, <3>1, <3>2 DEF Runs, Batches
    <3> QED
      BY <3>3
  <2> QED
    BY <2>1, <2>2
<1>8. \A s \in Tasks : active'[UnitOf(s)'] =>
         at'[s] \in {"begun", "body", "commit", "rollback", "close"}
  BY <1>1, <1>4, <1>5 DEF LeaseInv
<1> QED
  BY <1>7, <1>8 DEF LeaseInv

LEMMA LeaseTaskStep ==
    ASSUME TypeOK, HoldInv, OwnUnits, LeaseInv, NEW t \in Tasks, TaskStep(t)
    PROVE  LeaseInv'
<1>1. UNCHANGED program
  BY DEF TaskStep
<1>2. ASSUME NEW c \in Conns, Acquired(t, c) PROVE LeaseInv'
  BY <1>1, <1>2, LeaseAcquired
<1>3. ASSUME NEW c \in Conns, BatchSubmit(t, c) PROVE LeaseInv'
  <2>1. /\ at[t] = "batchAcquiring" /\ lent' = lent \cup {c}
        /\ exec' = [exec EXCEPT ![t] = c] /\ at' = [at EXCEPT ![t] = "batch"]
        /\ UNCHANGED <<active, leased>>
    BY <1>3 DEF BatchSubmit, Goto, unitVars
  <2>2. \A s \in Tasks : UnitOf(s)' = UnitOf(s)
    BY <1>1 DEF UnitOf
  <2>3. \A s \in Tasks : s # t => at'[s] = at[s] /\ exec'[s] = exec[s]
    BY <2>1 DEF TypeOK
  <2>4. at'[t] = "batch" /\ exec'[t] = c /\ ~active[UnitOf(t)]
    BY <2>1 DEF TypeOK, LeaseInv
  <2>5. ASSUME NEW d \in lent' PROVE \E s \in Tasks : (Runs(s, d) \/ Batches(s, d))'
    <3>1. CASE d = c
      BY <2>4, <3>1 DEF Batches
    <3>2. CASE d # c
      <4>1. PICK s \in Tasks : Runs(s, d) \/ Batches(s, d)
        BY <2>1, <3>2 DEF LeaseInv
      <4>2. (Runs(s, d) \/ Batches(s, d))'
        BY <2>1, <2>2, <2>3, <2>4, <4>1 DEF Runs, Batches
      <4> QED
        BY <4>2
    <3> QED
      BY <3>1, <3>2
  <2>6. \A s \in Tasks : active'[UnitOf(s)'] =>
           at'[s] \in {"begun", "body", "commit", "rollback", "close"}
    BY <2>1, <2>2, <2>3, <2>4 DEF LeaseInv
  <2> QED
    BY <2>5, <2>6 DEF LeaseInv
<1>4. CASE BatchEnd(t)
  <2>1. /\ at[t] = "batch" /\ lent' = lent \ {exec[t]}
        /\ at' = [at EXCEPT ![t] = "ended"] /\ UNCHANGED <<active, leased, exec>>
    BY <1>4 DEF BatchEnd, Goto, unitVars
  <2>2. \A s \in Tasks : UnitOf(s)' = UnitOf(s)
    BY <1>1 DEF UnitOf
  <2>3. \A s \in Tasks : s # t => at'[s] = at[s]
    BY <2>1 DEF TypeOK
  <2>4. ~active[UnitOf(t)]
    BY <2>1 DEF LeaseInv
  <2>5. ASSUME NEW d \in lent' PROVE \E s \in Tasks : (Runs(s, d) \/ Batches(s, d))'
    <3>1. PICK s \in Tasks : Runs(s, d) \/ Batches(s, d)
      BY <2>1 DEF LeaseInv
    <3>2. s # t
      BY <2>1, <2>4, <3>1 DEF Runs, Batches
    <3>3. (Runs(s, d) \/ Batches(s, d))'
      BY <2>1, <2>2, <2>3, <3>1, <3>2 DEF Runs, Batches
    <3> QED
      BY <3>3
  <2>6. \A s \in Tasks : active'[UnitOf(s)'] =>
           at'[s] \in {"begun", "body", "commit", "rollback", "close"}
    BY <2>1, <2>2, <2>3, <2>4 DEF LeaseInv
  <2> QED
    BY <2>5, <2>6 DEF LeaseInv
<1>5. ASSUME NEW k \in program.kinds, NEW awaited \in BOOLEAN, Execute(t, k, awaited)
      PROVE  LeaseInv'
  <2>1. /\ at[t] = "body" /\ UNCHANGED <<exec, active, leased, lent>>
        /\ at' = at \/ at' = [at EXCEPT ![t] = "rollback"]
    BY <1>5 DEF Execute, InBody, BodyGets, Goto, AfterThrow, unitVars
  <2>2. \A s \in Tasks : at[s] = "batch" => at'[s] = "batch" /\ exec'[s] = exec[s]
    BY <2>1 DEF TypeOK
  <2>3. \A s \in Tasks : at'[s] = "rollback" \/ at'[s] = at[s]
    BY <2>1 DEF TypeOK
  <2> QED
    BY <1>1, <2>1, <2>2, <2>3, LeaseKept
<1>6. CASE BodyThrows(t) \/ BodyReturns(t)
  <2>1. /\ at[t] = "body" /\ UNCHANGED <<exec, active, leased, lent>>
        /\ at' = [at EXCEPT ![t] = "commit"] \/ at' = [at EXCEPT ![t] = "rollback"]
    BY <1>6 DEF BodyThrows, BodyReturns, InBody, Goto, AfterThrow, unitVars, poolVars
  <2>2. \A s \in Tasks : at[s] = "batch" => at'[s] = "batch" /\ exec'[s] = exec[s]
    BY <2>1 DEF TypeOK
  <2>3. \A s \in Tasks : at'[s] \in {"commit", "rollback"} \/ at'[s] = at[s]
    BY <2>1 DEF TypeOK
  <2> QED
    BY <1>1, <2>1, <2>2, <2>3, LeaseKept
<1>7. CASE Begin(t) \/ EnterBody(t) \/ BatchBegin(t)
  <2>1. /\ at[t] \in {"idle", "begun"} /\ UNCHANGED <<active, leased, lent>>
        /\ \A s \in Tasks : s # t => at'[s] = at[s] /\ exec'[s] = exec[s]
        /\ at[t] = "begun" => at'[t] \in {"body", "rollback"}
    BY <1>7 DEF Begin, EnterBody, BatchBegin, Goto, AfterThrow, unitVars, poolVars, TypeOK
  <2>2. at[t] = "idle" => ~active[UnitOf(t)]
    BY DEF LeaseInv
  <2>3. \A s \in Tasks : at[s] = "batch" => at'[s] = "batch" /\ exec'[s] = exec[s]
    BY <2>1
  <2>4. \A s \in Tasks : at'[s] \in {"begun", "body", "commit", "rollback", "close"}
                            \/ at'[s] = at[s] \/ ~active[UnitOf(s)]
    BY <2>1, <2>2
  <2> QED
    BY <1>1, <2>1, <2>3, <2>4, LeaseKept
<1>8. CASE EndInactive(t)
  <2>1. /\ at[t] \in Ending /\ ~active[UnitOf(t)]
        /\ UNCHANGED <<exec, active, leased, lent>>
        /\ \A s \in Tasks : s # t => at'[s] = at[s]
    BY <1>8 DEF EndInactive, After, Goto, unitVars, poolVars, TypeOK
  <2>2. \A s \in Tasks : at[s] = "batch" => at'[s] = "batch" /\ exec'[s] = exec[s]
    BY <2>1 DEF Ending
  <2>3. \A s \in Tasks : at'[s] = at[s] \/ ~active[UnitOf(s)]
    BY <2>1
  <2> QED
    BY <1>1, <2>1, <2>2, <2>3, LeaseKept
<1>9. CASE EndSubmit(t)
  <2>1. at[t] \in Ending /\ UNCHANGED exec
    BY <1>9 DEF EndSubmit
  <2>2. CASE UNCHANGED <<at, unitVars, lent>>
    <3>1. /\ UNCHANGED <<active, leased, lent>>
          /\ \A s \in Tasks : at'[s] = at[s] /\ exec'[s] = exec[s]
      BY <2>1, <2>2 DEF unitVars
    <3> QED
      BY <1>1, <3>1, LeaseKept
  <2>3. CASE ReleaseConnection(UnitOf(t)) /\ After(t, Thrown(at[t], "query"))
    <3>1. \A s \in Tasks : s # t => at'[s] = at[s]
      BY <2>3 DEF After, Goto, TypeOK
    <3> QED
      BY <1>1, <2>1, <2>3, <3>1, LeaseReleased DEF Ending
  <2> QED
    BY <1>9, <2>2, <2>3 DEF EndSubmit
<1> QED
  BY <1>2, <1>3, <1>4, <1>5, <1>6, <1>7, <1>8, <1>9 DEF TaskStep

LEMMA LeaseStep ==
    TypeOK /\ HoldInv /\ (OwnUnits => LeaseInv) /\ [Next]_vars => (OwnUnits => LeaseInv)'
<1> SUFFICES ASSUME TypeOK, HoldInv, OwnUnits => LeaseInv, [Next]_vars, OwnUnits'
             PROVE  LeaseInv'
  OBVIOUS
<1>1. UNCHANGED program
  BY DEF Next, TaskStep, Answer, Finished, vars
<1>2. OwnUnits /\ LeaseInv
  BY <1>1 DEF OwnUnits, UnitOf
<1>3. ASSUME NEW t \in Tasks, TaskStep(t) PROVE LeaseInv'
  BY <1>2, <1>3, LeaseTaskStep
<1>4. ASSUME NEW c \in Conns, Receive(c) PROVE LeaseInv'
  <2> DEFINE t == slot[c].by
  <2>1. t \in Tasks /\ UNCHANGED exec
    BY <1>4, MessageTyped DEF Receive
  <2>2. CASE UNCHANGED <<at, unitVars, lent>>
    BY <1>1, <1>2, <2>1, <2>2, LeaseKept DEF unitVars
  <2>3. CASE at[t] = "body" /\ BodyGets(t, Outcome(at[t], c)) /\ UNCHANGED <<unitVars, lent>>
    <3>1. at' = at \/ at' = [at EXCEPT ![t] = "rollback"]
      BY <2>3 DEF BodyGets, Goto, AfterThrow
    <3> HIDE DEF t
    <3>2. \A s \in Tasks : at[s] = "batch" => at'[s] = "batch" /\ exec'[s] = exec[s]
      BY <2>1, <2>3, <3>1 DEF TypeOK
    <3>3. \A s \in Tasks : at'[s] = "rollback" \/ at'[s] = at[s]
      BY <3>1 DEF TypeOK
    <3>4. UNCHANGED <<program, active, leased, lent>>
      BY <1>1, <2>3 DEF unitVars
    <3> QED
      BY <1>2, <3>2, <3>3, <3>4, LeaseKept
  <2>4. CASE at[t] \in Ending /\ After(t, Outcome(at[t], c)) /\ ReleaseConnection(UnitOf(t))
    <3> HIDE DEF t
    <3>1. \A s \in Tasks : s # t => at'[s] = at[s]
      BY <2>4 DEF After, Goto, TypeOK
    <3> QED
      BY <1>1, <1>2, <2>1, <2>4, <3>1, LeaseReleased DEF Ending
  <2> QED
    BY <1>4, <2>2, <2>3, <2>4 DEF Receive
<1>5. CASE UNCHANGED <<taskVars, unitVars, poolVars>>
  BY <1>1, <1>2, <1>5, LeaseKept DEF taskVars, unitVars, poolVars
<1> QED
  BY <1>3, <1>4, <1>5 DEF Next, Answer, ServerStep, SendRest, Lose, Finished, vars

-------------------------------------------------------------------------------
(* Orderly programs *)

(* One task per connection, one connection per task. *)
LEMMA OneHolder ==
    ASSUME TypeOK, HoldInv, OwnUnits, NEW s \in Tasks, NEW t \in Tasks, NEW c \in Conns,
           Runs(s, c) \/ Batches(s, c), Runs(t, c) \/ Batches(t, c)
    PROVE  s = t
<1>1. UnitOf(s) \in Units /\ UnitOf(t) \in Units
  BY ProgramTyped DEF TypeOK
<1>2. CASE Runs(s, c) /\ Runs(t, c)
  BY <1>1, <1>2 DEF Runs, HoldInv, OwnUnits
<1>3. CASE Batches(s, c) /\ Batches(t, c)
  BY <1>3 DEF Batches, HoldInv
<1>4. CASE (Runs(s, c) /\ Batches(t, c)) \/ (Batches(s, c) /\ Runs(t, c))
  BY <1>1, <1>4 DEF Runs, Batches, HoldInv
<1> QED
  BY <1>2, <1>3, <1>4

(* A statement in flight is that of the task that holds the connection. *)
LEMMA SlotHolder ==
    ASSUME TypeOK, OrderlyInv, NEW c \in Conns, slot[c] # Empty
    PROVE  \E t \in Tasks :
              /\ \/ Runs(t, c) /\ RunInv(t, c)
                 \/ Batches(t, c) /\ BatchInv(t, c)
              /\ t = slot[c].by /\ slot[c].awaited /\ t \in waits
<1>1. c \in lent
  BY DEF OrderlyInv, QuietInv
<1>2. PICK t \in Tasks : Runs(t, c) \/ Batches(t, c)
  BY <1>1 DEF OrderlyInv, LeaseInv
<1>3. CASE Runs(t, c)
  <2>1. RunInv(t, c)
    BY <1>3 DEF OrderlyInv
  <2> QED
    BY <1>3, <2>1 DEF RunInv, AskedShape
<1>4. CASE Batches(t, c)
  <2>1. BatchInv(t, c)
    BY <1>4 DEF OrderlyInv
  <2> QED
    BY <1>4, <2>1 DEF BatchInv
<1> QED
  BY <1>2, <1>3, <1>4

LEMMA RunKept ==
    ASSUME NEW s \in Tasks, NEW c \in Conns, RunInv(s, c),
           at'[s] = at[s], exec'[s] = exec[s], wants'[s] = wants[s],
           s \in waits => s \in waits',
           pending'[c] = pending[c], slot'[c] = slot[c], reply'[c] = reply[c],
           txn'[c] = txn[c], work'[c] = work[c], c \in dead' <=> c \in dead
    PROVE  RunInv(s, c)'
BY DEF RunInv, AskedShape, AskedState

LEMMA BatchKept ==
    ASSUME NEW s \in Tasks, NEW c \in Conns, BatchInv(s, c),
           cause'[s] = cause[s], wants'[s] = wants[s], s \in waits => s \in waits',
           slot'[c] = slot[c], reply'[c] = reply[c], txn'[c] = txn[c],
           stored \subseteq stored', Fresh(s) => Fresh(s)'
    PROVE  BatchInv(s, c)'
<1>1. wants[s] \subseteq stored => wants'[s] \subseteq stored'
  OBVIOUS
<1> QED
  BY <1>1 DEF BatchInv

(* The tasks S, which take no part in a step: it changes nothing of theirs, *)
(* touches only connections C that none of them holds, and stores nothing   *)
(* they wrote.                                                              *)
LEMMA OthersKept ==
    ASSUME TypeOK, OrderlyInv, UNCHANGED program,
           NEW S \in SUBSET Tasks, NEW C \in SUBSET Conns,
           \A s \in S : /\ at'[s] = at[s] /\ exec'[s] = exec[s] /\ wants'[s] = wants[s]
                        /\ cause'[s] = cause[s] /\ raised'[s] = raised[s]
                        /\ s \in waits => s \in waits'
                        /\ active'[UnitOf(s)] = active[UnitOf(s)]
                        /\ leased'[UnitOf(s)] = leased[UnitOf(s)]
                        /\ (stored' \ stored) \cap WritesOf(s) = {},
           \A s \in S, c \in C : ~Runs(s, c) /\ ~Batches(s, c),
           \A d \in Conns \ C :
              /\ pending'[d] = pending[d] /\ slot'[d] = slot[d] /\ reply'[d] = reply[d]
              /\ txn'[d] = txn[d] /\ work'[d] = work[d] /\ (d \in dead' <=> d \in dead),
           stored \subseteq stored'
    PROVE  \A s \in S :
              /\ \A d \in Conns : Runs(s, d)' => RunInv(s, d)'
              /\ \A d \in Conns : Batches(s, d)' => BatchInv(s, d)'
              /\ FateInv(s)'
<1> SUFFICES ASSUME NEW s \in S
             PROVE  /\ \A d \in Conns : Runs(s, d)' => RunInv(s, d)'
                    /\ \A d \in Conns : Batches(s, d)' => BatchInv(s, d)'
                    /\ FateInv(s)'
  OBVIOUS
<1>1. UnitOf(s)' = UnitOf(s) /\ s \in Tasks
  BY DEF UnitOf
<1>2. \A d \in Conns : (Runs(s, d)' <=> Runs(s, d)) /\ (Batches(s, d)' <=> Batches(s, d))
  BY <1>1 DEF Runs, Batches
<1>3. Fresh(s) => Fresh(s)'
  BY DEF Fresh, WritesOf
<1>4. ASSUME NEW d \in Conns, Runs(s, d) PROVE RunInv(s, d)'
  <2>1. d \notin C /\ RunInv(s, d)
    BY <1>1, <1>4 DEF OrderlyInv
  <2> QED
    BY <1>1, <2>1, RunKept
<1>5. ASSUME NEW d \in Conns, Batches(s, d) PROVE BatchInv(s, d)'
  <2>1. d \notin C /\ BatchInv(s, d)
    BY <1>1, <1>5 DEF OrderlyInv
  <2> QED
    BY <1>1, <1>3, <2>1, BatchKept
<1>6. FateInv(s)'
  <2>1. FateInv(s)
    BY <1>1 DEF OrderlyInv
  <2>2. at[s] = "commit" => \A c \in Conns : leased[UnitOf(s)] = c => c \notin C
    BY <2>1 DEF FateInv, Runs
  <2>3. at[s] = "commit" => \A c \in Conns : leased[UnitOf(s)] = c =>
           slot'[c] = slot[c] /\ reply'[c] = reply[c]
    BY <2>2
  <2>4. wants[s] \subseteq stored => wants'[s] \subseteq stored'
    OBVIOUS
  <2>5. /\ at'[s] \in {"idle", "acquiring", "begun", "body", "batchAcquiring"} => Fresh(s)'
        /\ at'[s] \in {"idle", "acquiring", "begun", "batchAcquiring"} => wants'[s] = {}
        /\ at'[s] \in {"begun", "body", "commit"} => active'[UnitOf(s)']
        /\ at'[s] \in {"idle", "batchAcquiring"} => cause'[s] = None
        /\ at'[s] = "batch" => cause'[s] = None \/ cause'[s].from = "batch"
    BY <1>1, <1>3, <2>1 DEF FateInv
  <2>6. at'[s] = "commit" =>
          \A c \in Conns : leased'[UnitOf(s)'] = c =>
             /\ slot'[c] = Empty \/ reply'[c] = "none" => Fresh(s)'
             /\ slot'[c] # Empty /\ reply'[c] = "ok" => wants'[s] \subseteq stored'
    BY <1>1, <1>3, <2>1, <2>3, <2>4 DEF FateInv
  <2>7. at'[s] \in {"rollback", "close"} =>
          \/ /\ at'[s] = "close" /\ cause'[s] = None /\ raised'[s] = None
             /\ wants'[s] \subseteq stored'
          \/ /\ raised'[s] # None /\ cause'[s].from \in {"body", "commit"}
             /\ cause'[s].from = "body" => Fresh(s)'
    BY <1>3, <2>1, <2>4 DEF FateInv
  <2> QED
    BY <2>5, <2>6, <2>7 DEF FateInv
<1> QED
  BY <1>2, <1>4, <1>5, <1>6

(* A step of t leaves the other tasks, and the connections but C, alone. *)
OthersStill(t) ==
    \A s \in Tasks \ {t} :
       /\ at'[s] = at[s] /\ exec'[s] = exec[s] /\ wants'[s] = wants[s]
       /\ cause'[s] = cause[s] /\ raised'[s] = raised[s]
       /\ s \in waits => s \in waits'
       /\ active'[UnitOf(s)] = active[UnitOf(s)]
       /\ leased'[UnitOf(s)] = leased[UnitOf(s)]
ConnsStill(C) ==
    \A d \in Conns \ C :
       /\ pending'[d] = pending[d] /\ slot'[d] = slot[d] /\ reply'[d] = reply[d]
       /\ txn'[d] = txn[d] /\ work'[d] = work[d] /\ (d \in dead' <=> d \in dead)

(* What is left to show of a step of t that touches C. *)
LEMMA OrderlyFrame ==
    ASSUME TypeOK, HoldInv, OrderlyInv, UNCHANGED program,
           LeaseInv', QuietInv',
           NEW t \in Tasks, NEW C \in SUBSET Conns,
           OthersStill(t),
           \A s \in Tasks \ {t}, c \in C : ~Runs(s, c) /\ ~Batches(s, c),
           ConnsStill(C),
           stored \subseteq stored', stored' \subseteq stored \cup WritesOf(t),
           \A d \in Conns : Runs(t, d)' => RunInv(t, d)',
           \A d \in Conns : Batches(t, d)' => BatchInv(t, d)',
           FateInv(t)'
    PROVE  OrderlyInv'
<1>1. \A s \in Tasks \ {t} : (stored' \ stored) \cap WritesOf(s) = {}
  BY WritesApart
<1>2. \A s \in Tasks \ {t} :
         /\ \A d \in Conns : Runs(s, d)' => RunInv(s, d)'
         /\ \A d \in Conns : Batches(s, d)' => BatchInv(s, d)'
         /\ FateInv(s)'
  <2> DEFINE S == Tasks \ {t}
  <2>1. S \in SUBSET Tasks
    OBVIOUS
  <2> HIDE DEF S
  <2>2. \A s \in S : /\ at'[s] = at[s] /\ exec'[s] = exec[s] /\ wants'[s] = wants[s]
                     /\ cause'[s] = cause[s] /\ raised'[s] = raised[s]
                     /\ s \in waits => s \in waits'
                     /\ active'[UnitOf(s)] = active[UnitOf(s)]
                     /\ leased'[UnitOf(s)] = leased[UnitOf(s)]
                     /\ (stored' \ stored) \cap WritesOf(s) = {}
    BY <1>1 DEF S, OthersStill
  <2>3. \A s \in S, c \in C : ~Runs(s, c) /\ ~Batches(s, c)
    BY DEF S
  <2>4. \A s \in S :
           /\ \A d \in Conns : Runs(s, d)' => RunInv(s, d)'
           /\ \A d \in Conns : Batches(s, d)' => BatchInv(s, d)'
           /\ FateInv(s)'
    BY <2>1, <2>2, <2>3, OthersKept DEF ConnsStill
  <2> QED
    BY <2>4 DEF S
<1>3. /\ \A s \in Tasks, d \in Conns : Runs(s, d)' => RunInv(s, d)'
      /\ \A s \in Tasks, d \in Conns : Batches(s, d)' => BatchInv(s, d)'
      /\ \A s \in Tasks : FateInv(s)'
  BY <1>2
<1> QED
  BY <1>3 DEF OrderlyInv

(* A step of t that only moves it from one stage to the next. *)
LEMMA StageFrame ==
    ASSUME TypeOK, HoldInv, OrderlyInv, LeaseInv', NEW t \in Tasks,
           UNCHANGED <<program, waits, wants, unitVars, poolVars, slotVars, serverVars>>,
           \A s \in Tasks \ {t} : /\ at'[s] = at[s] /\ exec'[s] = exec[s]
                                  /\ cause'[s] = cause[s] /\ raised'[s] = raised[s],
           at'[t] # "batch",
           \A d \in Conns : Runs(t, d) => RunInv(t, d)',
           FateInv(t)'
    PROVE  OrderlyInv'
<1>1. /\ UNCHANGED <<waits, wants, active, leased, pending, lent, slot, reply>>
      /\ UNCHANGED <<txn, work, dead, stored>>
  BY DEF unitVars, poolVars, slotVars, serverVars
<1>2. QuietInv'
  BY <1>1 DEF OrderlyInv, QuietInv
<1>3. \A d \in Conns : /\ Runs(t, d)' => RunInv(t, d)'
                       /\ Batches(t, d)' => BatchInv(t, d)'
  <2>1. UnitOf(t)' = UnitOf(t)
    BY DEF UnitOf
  <2> QED
    BY <1>1, <2>1 DEF Runs, Batches
<1>4. PICK C \in SUBSET Conns : C = {}
  OBVIOUS
<1>5. /\ OthersStill(t)
      /\ \A s \in Tasks \ {t}, c \in C : ~Runs(s, c) /\ ~Batches(s, c)
  BY <1>1, <1>4 DEF OthersStill
<1>6. /\ ConnsStill(C)
      /\ stored \subseteq stored' /\ stored' \subseteq stored \cup WritesOf(t)
  BY <1>1 DEF ConnsStill
<1> QED
  BY <1>2, <1>3, <1>5, <1>6, OrderlyFrame

LEMMA BeginOrderly ==
    ASSUME TypeOK, HoldInv, OrderlyInv, LeaseInv', NEW t \in Tasks, UNCHANGED program,
           Begin(t) \/ BatchBegin(t)
    PROVE  OrderlyInv'
<1>1. at[t] = "idle" /\ ~active[UnitOf(t)] /\ FateInv(t)
  BY DEF Begin, BatchBegin, OrderlyInv, LeaseInv
<1>2. /\ at' = [at EXCEPT ![t] = "acquiring"] \/ at' = [at EXCEPT ![t] = "batchAcquiring"]
      /\ UNCHANGED <<waits, exec, wants, cause, raised, unitVars, poolVars, slotVars,
                     serverVars>>
  BY <1>1 DEF Begin, BatchBegin, Goto
<1>3. at'[t] \in {"acquiring", "batchAcquiring"} /\ \A s \in Tasks \ {t} : at'[s] = at[s]
  BY <1>2 DEF TypeOK
<1>4. FateInv(t)'
  BY <1>1, <1>2, <1>3 DEF FateInv, Fresh, WritesOf, serverVars
<1>5. \A d \in Conns : ~Runs(t, d)
  BY <1>1 DEF Runs
<1> QED
  BY <1>2, <1>3, <1>4, <1>5, StageFrame

LEMMA EnterBodyOrderly ==
    ASSUME TypeOK, HoldInv, OrderlyInv, LeaseInv', NEW t \in Tasks, UNCHANGED program,
           EnterBody(t)
    PROVE  OrderlyInv'
<1>1. at[t] = "begun" /\ active[UnitOf(t)] /\ FateInv(t)
  BY DEF EnterBody, OrderlyInv, FateInv
<1>2. /\ at' = [at EXCEPT ![t] = "body"] /\ exec' = [exec EXCEPT ![t] = leased[UnitOf(t)]]
      /\ UNCHANGED <<waits, wants, cause, raised, unitVars, poolVars, slotVars, serverVars>>
  BY <1>1 DEF EnterBody, Goto
<1>3. /\ at'[t] = "body" /\ exec'[t] = leased[UnitOf(t)]
      /\ \A s \in Tasks \ {t} : at'[s] = at[s] /\ exec'[s] = exec[s]
  BY <1>2 DEF TypeOK
<1>4. FateInv(t)'
  BY <1>1, <1>2, <1>3 DEF FateInv, Fresh, WritesOf, unitVars, serverVars, UnitOf
<1>5. ASSUME NEW d \in Conns, Runs(t, d) PROVE RunInv(t, d)'
  <2>1. RunInv(t, d) /\ pending[d] /\ slot[d] = Empty /\ exec'[t] = d
    BY <1>1, <1>3, <1>5 DEF OrderlyInv, RunInv, Runs
  <2>2. UNCHANGED <<wants, pending, slot, txn, work, dead>>
    BY <1>2 DEF poolVars, slotVars, serverVars
  <2> QED
    BY <1>3, <2>1, <2>2 DEF RunInv, WritesOf
<1> QED
  BY <1>2, <1>3, <1>4, <1>5, StageFrame

(* A body that is between two statements has none in flight. *)
LEMMA BodyQuiet ==
    ASSUME OrderlyInv, NEW t \in Tasks, t \notin waits, NEW c \in Conns, Runs(t, c)
    PROVE  RunInv(t, c) /\ slot[c] = Empty
BY DEF OrderlyInv, RunInv, AskedShape

LEMMA BodyEndOrderly ==
    ASSUME TypeOK, HoldInv, OrderlyInv, LeaseInv', NEW t \in Tasks, UNCHANGED program,
           BodyThrows(t) \/ BodyReturns(t)
    PROVE  OrderlyInv'
<1>1. at[t] = "body" /\ t \notin waits /\ FateInv(t)
  BY DEF BodyThrows, BodyReturns, InBody, OrderlyInv
<1>2. /\ UNCHANGED <<waits, exec, wants, unitVars, poolVars, slotVars, serverVars>>
      /\ \A s \in Tasks \ {t} : at'[s] = at[s] /\ cause'[s] = cause[s] /\ raised'[s] = raised[s]
      /\ \/ at'[t] = "commit"
         \/ at'[t] = "rollback" /\ cause'[t].from = "body" /\ raised'[t] # None
  BY ThrownTyped DEF BodyThrows, BodyReturns, Goto, Raise, AfterThrow, TypeOK
<1>3. /\ UNCHANGED <<wants, active, leased, pending, slot, reply, txn, work, dead, stored>>
      /\ UnitOf(t)' = UnitOf(t)
  BY <1>2 DEF unitVars, poolVars, slotVars, serverVars, UnitOf
<1>4. \A d \in Conns : Runs(t, d) => RunInv(t, d) /\ slot[d] = Empty
  BY <1>1, BodyQuiet
<1>5. FateInv(t)'
  <2>1. Fresh(t) /\ Fresh(t)' /\ active[UnitOf(t)]
    BY <1>1, <1>3 DEF FateInv, Fresh, WritesOf
  <2>2. CASE at'[t] = "commit"
    <3>1. \A c \in Conns : leased[UnitOf(t)] = c => slot[c] = Empty
      BY <1>4, <2>1 DEF Runs
    <3> QED
      BY <1>3, <2>1, <2>2, <3>1 DEF FateInv
  <2>3. CASE at'[t] = "rollback"
    BY <1>2, <2>1, <2>3 DEF FateInv
  <2> QED
    BY <1>2, <2>2, <2>3
<1>6. ASSUME NEW d \in Conns, Runs(t, d) PROVE RunInv(t, d)'
  <2>1. RunInv(t, d) /\ slot[d] = Empty /\ at'[t] \in {"commit", "rollback"}
    BY <1>2, <1>4, <1>6
  <2> QED
    BY <1>1, <1>3, <2>1 DEF RunInv, WritesOf
<1> QED
  BY <1>2, <1>5, <1>6, StageFrame

LEMMA EndInactiveOrderly ==
    ASSUME TypeOK, HoldInv, OrderlyInv, LeaseInv', NEW t \in Tasks, UNCHANGED program,
           EndInactive(t)
    PROVE  OrderlyInv'
<1>1. at[t] \in {"rollback", "close"} /\ ~active[UnitOf(t)] /\ FateInv(t)
  BY DEF EndInactive, OrderlyInv, FateInv, Ending
<1>2. UNCHANGED <<waits, exec, wants, unitVars, poolVars, slotVars, serverVars>>
  BY DEF EndInactive
<1>3. PICK e \in Exceptions : After(t, e)
  BY <1>1, ThrownTyped DEF EndInactive
<1>4. /\ at[t] = "rollback" => at'[t] = "close" /\ cause'[t] = cause[t] /\ raised'[t] # None
      /\ at[t] = "close" => at'[t] = "ended"
      /\ \A s \in Tasks \ {t} : /\ at'[s] = at[s]
                                /\ cause'[s] = cause[s] /\ raised'[s] = raised[s]
  BY <1>1, <1>3, AfterTyped, ThrownTyped DEF Ending
<1>5. FateInv(t)'
  BY <1>1, <1>2, <1>4 DEF FateInv, Fresh, WritesOf, serverVars
<1>6. \A d \in Conns : ~Runs(t, d)
  BY <1>1 DEF Runs
<1> QED
  BY <1>1, <1>2, <1>4, <1>5, <1>6, StageFrame

(* Nobody holds what the pool has; what it has is quiet. *)
LEMMA FreeConn ==
    ASSUME TypeOK, HoldInv, OrderlyInv, NEW c \in Conns \ lent
    PROVE  /\ \A s \in Tasks : ~Runs(s, c) /\ ~Batches(s, c)
           /\ slot[c] = Empty /\ txn[c] = "idle" /\ work[c] = {}
<1>1. \A s \in Tasks : UnitOf(s) \in Units
  BY ProgramTyped DEF TypeOK
<1>2. \A s \in Tasks : ~Runs(s, c)
  BY <1>1 DEF Runs, TypeOK
<1>3. \A s \in Tasks : ~Batches(s, c)
  BY DEF Batches, HoldInv
<1>4. slot[c] = Empty /\ txn[c] = "idle" /\ work[c] = {}
  BY DEF OrderlyInv, QuietInv
<1> QED
  BY <1>2, <1>3, <1>4

LEMMA AcquiredOrderly ==
    ASSUME TypeOK, HoldInv, Orderly, OrderlyInv, LeaseInv', NEW t \in Tasks,
           UNCHANGED program, NEW c \in Conns, Acquired(t, c)
    PROVE  OrderlyInv'
<1> DEFINE u == UnitOf(t)
<1>1. /\ at[t] = "acquiring" /\ c \in Conns \ lent /\ FateInv(t)
      /\ UNCHANGED <<waits, exec, wants, cause, raised, slot, reply>>
      /\ UNCHANGED <<txn, work, dead, stored>>
  BY DEF Acquired, OrderlyInv, slotVars, serverVars
<1>2. /\ lent' = lent \cup {c} /\ leased' = [leased EXCEPT ![u] = c]
      /\ active' = [active EXCEPT ![u] = TRUE] /\ pending' = [pending EXCEPT ![c] = TRUE]
      /\ at' = [at EXCEPT ![t] = "begun"]
  BY DEF Acquired, Goto
<1>3. /\ \A s \in Tasks : UnitOf(s)' = UnitOf(s) /\ UnitOf(s) \in Units
      /\ \A s \in Tasks \ {t} : UnitOf(s) # u
  BY ProgramTyped DEF UnitOf, TypeOK, Orderly, OwnUnits
<1> HIDE DEF u
<1>4. /\ at'[t] = "begun" /\ active'[u] /\ leased'[u] = c /\ pending'[c] /\ u = UnitOf(t)'
      /\ \A s \in Tasks \ {t} : /\ at'[s] = at[s]
                                /\ active'[UnitOf(s)] = active[UnitOf(s)]
                                /\ leased'[UnitOf(s)] = leased[UnitOf(s)]
      /\ \A d \in Conns \ {c} : pending'[d] = pending[d]
  BY <1>2, <1>3 DEF TypeOK, u
<1>5. slot[c] = Empty /\ txn[c] = "idle" /\ work[c] = {}
      /\ \A s \in Tasks : ~Runs(s, c) /\ ~Batches(s, c)
  BY <1>1, FreeConn
<1>6. Fresh(t)' /\ wants'[t] = {}
  BY <1>1 DEF FateInv, Fresh, WritesOf
<1>7. QuietInv'
  BY <1>1, <1>2 DEF OrderlyInv, QuietInv
<1>8. FateInv(t)'
  BY <1>4, <1>6 DEF FateInv
<1>9. \A d \in Conns : /\ Runs(t, d)' => RunInv(t, d)'
                       /\ Batches(t, d)' => BatchInv(t, d)'
  <2>1. RunInv(t, c)'
    BY <1>1, <1>4, <1>5, <1>6 DEF RunInv
  <2> QED
    BY <1>4, <2>1 DEF Runs, Batches
<1>10. /\ {c} \in SUBSET Conns
       /\ \A s \in Tasks \ {t}, d \in {c} : ~Runs(s, d) /\ ~Batches(s, d)
       /\ stored \subseteq stored' /\ stored' \subseteq stored \cup WritesOf(t)
  BY <1>1, <1>5
<1>11. OthersStill(t)
  BY <1>1, <1>4 DEF OthersStill
<1>12. ConnsStill({c})
  BY <1>1, <1>4 DEF ConnsStill
<1> QED
  BY <1>7, <1>8, <1>9, <1>10, <1>11, <1>12, OrderlyFrame

LEMMA BatchSubmitOrderly ==
    ASSUME TypeOK, HoldInv, Orderly, OrderlyInv, LeaseInv', NEW t \in Tasks,
           UNCHANGED program, NEW c \in Conns, BatchSubmit(t, c)
    PROVE  OrderlyInv'
<1>1. /\ at[t] = "batchAcquiring" /\ c \in Conns \ lent /\ FateInv(t)
      /\ UNCHANGED <<raised, active, leased, txn, work, dead, stored>>
      /\ lent' = lent \cup {c} /\ ~active[UnitOf(t)]
  BY DEF BatchSubmit, OrderlyInv, LeaseInv, unitVars, serverVars
<1>2. slot[c] = Empty /\ txn[c] = "idle" /\ work[c] = {}
      /\ \A s \in Tasks : ~Runs(s, c) /\ ~Batches(s, c)
  BY <1>1, FreeConn
<1>3. /\ exec' = [exec EXCEPT ![t] = c] /\ at' = [at EXCEPT ![t] = "batch"]
      /\ slot' = [slot EXCEPT ![c] =
            [by |-> t, awaited |-> TRUE, kind |-> "batch", fused |-> FALSE,
             msg |-> [begin |-> TRUE, writes |-> NewWrites(t, "batch"), end |-> "COMMIT"],
             rest |-> Nothing]]
      /\ reply' = [reply EXCEPT ![c] = "none"] /\ waits' = waits \cup {t}
      /\ wants' = [wants EXCEPT ![t] = NewWrites(t, "batch")]
      /\ UNCHANGED <<cause, pending>>
  BY <1>2 DEF BatchSubmit, Goto, Busy
<1>4. /\ at'[t] = "batch" /\ exec'[t] = c /\ reply'[c] = "none" /\ t \in waits'
      /\ \A s \in Tasks \ {t} :
            at'[s] = at[s] /\ exec'[s] = exec[s] /\ wants'[s] = wants[s]
      /\ \A d \in Conns \ {c} : slot'[d] = slot[d] /\ reply'[d] = reply[d]
      /\ ~active'[UnitOf(t)']
  BY <1>1, <1>3 DEF TypeOK, UnitOf
<1>5. /\ wants'[t] = NewWrites(t, "batch")
      /\ slot'[c].by = t /\ slot'[c].awaited /\ slot'[c].kind = "batch"
      /\ slot'[c].msg = [begin |-> TRUE, writes |-> NewWrites(t, "batch"), end |-> "COMMIT"]
      /\ slot'[c].rest = Nothing
  BY <1>3 DEF TypeOK
<1>6. Fresh(t)'
  BY <1>1 DEF FateInv, Fresh, WritesOf
<1>7. QuietInv'
  BY <1>1, <1>3 DEF OrderlyInv, QuietInv, TypeOK
<1>8. FateInv(t)'
  BY <1>1, <1>3, <1>4 DEF FateInv
<1>9. \A d \in Conns : /\ Runs(t, d)' => RunInv(t, d)'
                       /\ Batches(t, d)' => BatchInv(t, d)'
  <2>1. slot'[c] # Empty
    <3>1. "kind" \in DOMAIN slot'[c]
      BY <1>3 DEF TypeOK
    <3> QED
      BY <3>1 DEF Empty
  <2>2. BatchInv(t, c)'
    BY <1>1, <1>2, <1>4, <1>5, <1>6, <2>1 DEF BatchInv
  <2> QED
    BY <1>4, <2>2 DEF Runs, Batches
<1>10. /\ {c} \in SUBSET Conns
       /\ \A s \in Tasks \ {t}, d \in {c} : ~Runs(s, d) /\ ~Batches(s, d)
       /\ stored \subseteq stored' /\ stored' \subseteq stored \cup WritesOf(t)
  BY <1>1, <1>2
<1>11. OthersStill(t)
  BY <1>1, <1>3, <1>4 DEF OthersStill
<1>12. ConnsStill({c})
  BY <1>1, <1>3, <1>4 DEF ConnsStill
<1> QED
  BY <1>7, <1>8, <1>9, <1>10, <1>11, <1>12, OrderlyFrame

LEMMA BatchEndOrderly ==
    ASSUME TypeOK, HoldInv, Orderly, OrderlyInv, LeaseInv', NEW t \in Tasks,
           UNCHANGED program, BatchEnd(t)
    PROVE  OrderlyInv'
<1> DEFINE c == exec[t]
<1>0. at[t] = "batch" /\ t \notin waits /\ lent' = lent \ {c}
  BY DEF BatchEnd
<1>1. /\ c \in Conns /\ Batches(t, c) /\ ~active[UnitOf(t)]
      /\ at' = [at EXCEPT ![t] = "ended"]
      /\ raised' = [raised EXCEPT ![t] = cause[t]]
      /\ UNCHANGED <<waits, exec, wants, cause, active, leased, pending, slot, reply>>
      /\ UNCHANGED <<txn, work, dead, stored>>
  <2>1. c \in Conns /\ Batches(t, c) /\ ~active[UnitOf(t)]
    <3>1. c \in Conns
      BY <1>0 DEF HoldInv, TypeOK
    <3>2. Batches(t, c)
      BY <1>0 DEF Batches
    <3>3. ~active[UnitOf(t)]
      BY <1>0 DEF OrderlyInv, LeaseInv
    <3> QED
      BY <3>1, <3>2, <3>3
  <2> QED
    BY <2>1 DEF BatchEnd, Goto, Raise, unitVars, slotVars, serverVars
<1>2. slot[c] = Empty /\ txn[c] = "idle"
  BY <1>0, <1>1 DEF OrderlyInv, BatchInv
<1>3. /\ at'[t] = "ended"
      /\ \A s \in Tasks \ {t} : at'[s] = at[s] /\ raised'[s] = raised[s]
  BY <1>1 DEF TypeOK
<1>4. QuietInv'
  BY <1>0, <1>1, <1>2 DEF OrderlyInv, QuietInv
<1>5. /\ FateInv(t)'
      /\ \A d \in Conns : Runs(t, d)' => RunInv(t, d)'
      /\ \A d \in Conns : Batches(t, d)' => BatchInv(t, d)'
  BY <1>1, <1>3 DEF FateInv, Runs, Batches, UnitOf
<1> HIDE DEF c
<1>6. PICK C \in SUBSET Conns : C = {}
  OBVIOUS
<1>7. /\ OthersStill(t)
      /\ \A s \in Tasks \ {t}, d \in C : ~Runs(s, d) /\ ~Batches(s, d)
  BY <1>1, <1>3, <1>6 DEF OthersStill
<1>8. /\ ConnsStill(C)
      /\ stored \subseteq stored' /\ stored' \subseteq stored \cup WritesOf(t)
  BY <1>1 DEF ConnsStill
<1> QED
  BY <1>4, <1>5, <1>7, <1>8, OrderlyFrame

(* The same for a step of t on the connection c that t holds. *)
LEMMA HolderFrame ==
    ASSUME TypeOK, HoldInv, Orderly, OrderlyInv, UNCHANGED program,
           LeaseInv', QuietInv',
           NEW t \in Tasks, NEW c \in Conns, Runs(t, c) \/ Batches(t, c),
           OthersStill(t), ConnsStill({c}),
           stored \subseteq stored', stored' \subseteq stored \cup WritesOf(t),
           \A d \in Conns : Runs(t, d)' => RunInv(t, d)',
           \A d \in Conns : Batches(t, d)' => BatchInv(t, d)',
           FateInv(t)'
    PROVE  OrderlyInv'
<1>1. ASSUME NEW s \in Tasks \ {t} PROVE ~Runs(s, c) /\ ~Batches(s, c)
  BY OneHolder DEF Orderly
<1>2. {c} \in SUBSET Conns /\ \A s \in Tasks \ {t}, d \in {c} : ~Runs(s, d) /\ ~Batches(s, d)
  BY <1>1
<1> QED
  BY <1>2, OrderlyFrame

(* A statement that is submitted meets an empty mailbox, and takes the      *)
(* deferred BEGIN along.                                                    *)
Submitted(t, c, k, m) ==
    LET whole == k = "simple" \/ ~pending[c]
    IN  /\ slot[c] = Empty /\ slot'[c] # Empty
        /\ slot'[c].by = t /\ slot'[c].awaited /\ slot'[c].kind = k
        /\ slot'[c].msg.begin = pending[c]
        /\ slot'[c].msg.end = IF whole THEN m.end ELSE "none"
        /\ slot'[c].msg.writes = IF whole THEN m.writes ELSE {}
        /\ slot'[c].rest = IF whole THEN Nothing ELSE m
        /\ reply'[c] = "none" /\ ~pending'[c] /\ waits' = waits \cup {t}
        /\ \A d \in Conns \ {c} : /\ slot'[d] = slot[d] /\ reply'[d] = reply[d]
                                  /\ pending'[d] = pending[d]

LEMMA DispatchSlot ==
    ASSUME TypeOK, NEW t \in Tasks, NEW c \in Conns, NEW k \in AllKinds,
           NEW m \in Message, Submit(t, c, k, m, TRUE)
    PROVE  Submitted(t, c, k, m)
<1>1. Nothing \in Message /\ Nothing.writes = {} /\ Nothing.end = "none"
  BY NothingTyped DEF Nothing
<1> DEFINE whole == k = "simple" \/ ~pending[c]
           s == [by |-> t, awaited |-> TRUE, kind |-> k,
                 fused |-> k = "simple" /\ pending[c],
                 msg |-> DeferredBegin(c, IF whole THEN m ELSE Nothing),
                 rest |-> IF whole THEN Nothing ELSE m]
<1>2. /\ slot[c] = Empty /\ slot' = [slot EXCEPT ![c] = s]
      /\ reply' = [reply EXCEPT ![c] = "none"]
      /\ pending' = [pending EXCEPT ![c] = FALSE]
      /\ waits' = waits \cup {t}
  BY DEF Submit, Dispatch, Busy, BeginUsed
<1>3. /\ s.msg.begin = pending[c]
      /\ s.msg.end = IF whole THEN m.end ELSE "none"
      /\ s.msg.writes = IF whole THEN m.writes ELSE {}
  BY <1>1 DEF DeferredBegin, Message
<1>4. s # Empty
  <2>1. "kind" \in DOMAIN s
    OBVIOUS
  <2> QED
    BY <2>1 DEF Empty
<1>5. /\ s.by = t /\ s.awaited /\ s.kind = k
      /\ s.rest = IF whole THEN Nothing ELSE m
  OBVIOUS
<1> HIDE DEF s
<1>6. /\ slot'[c] = s /\ reply'[c] = "none" /\ ~pending'[c]
      /\ \A d \in Conns \ {c} : /\ slot'[d] = slot[d] /\ reply'[d] = reply[d]
                                /\ pending'[d] = pending[d]
  BY <1>2 DEF TypeOK
<1> QED
  BY <1>2, <1>3, <1>4, <1>5, <1>6 DEF Submitted

(* A body runs on the connection its unit of work leased. *)
LEMMA BodyHolds ==
    ASSUME TypeOK, OrderlyInv, NEW t \in Tasks, at[t] = "body"
    PROVE  /\ exec[t] \in Conns /\ exec[t] \in lent /\ Runs(t, exec[t])
           /\ RunInv(t, exec[t]) /\ active[UnitOf(t)] /\ Fresh(t)
<1> DEFINE d == leased[UnitOf(t)]
<1>1. active[UnitOf(t)] /\ Fresh(t)
  BY DEF OrderlyInv, FateInv
<1>2. d \in lent /\ d \in Conns
  BY <1>1, ProgramTyped DEF TypeOK
<1>3. Runs(t, d) /\ RunInv(t, d)
  BY <1>1, <1>2 DEF Runs, OrderlyInv
<1>4. exec[t] = d
  BY <1>3 DEF RunInv
<1> QED
  BY <1>1, <1>2, <1>3, <1>4

LEMMA ExecuteOrderly ==
    ASSUME TypeOK, HoldInv, Orderly, OrderlyInv, LeaseInv', NEW t \in Tasks,
           UNCHANGED program, NEW k \in program.kinds, Execute(t, k, TRUE)
    PROVE  OrderlyInv'
<1>0. PICK c \in Conns : c = exec[t] /\ c \in lent
  BY BodyHolds DEF Execute, InBody
<1> DEFINE m == [Nothing EXCEPT !.writes = NewWrites(t, k)]
<1>1. at[t] = "body" /\ t \notin waits /\ k \in AllKinds /\ k # "batch"
  BY ProgramTyped DEF Execute, InBody, TypeOK
<1>2. /\ Runs(t, c) /\ RunInv(t, c)
      /\ active[UnitOf(t)] /\ Fresh(t) /\ slot[c] = Empty
  BY <1>0, <1>1, BodyHolds, BodyQuiet
<1>3. /\ Submit(t, c, k, m, TRUE)
      /\ wants' = [wants EXCEPT ![t] = @ \cup NewWrites(t, k)]
      /\ UNCHANGED <<at, exec, cause, raised, active, leased, lent>>
      /\ UNCHANGED <<txn, work, dead, stored>>
  BY <1>0, <1>2 DEF Execute, Busy, unitVars, serverVars
<1>4. /\ m \in Message /\ m.writes = NewWrites(t, k) /\ ~m.begin /\ m.end = "none"
      /\ ~Nothing.begin /\ Nothing.writes = {} /\ Nothing.end = "none"
  <2>1. NewWrites(t, k) \subseteq Writes
    BY NewWritesTyped DEF Execute, TypeOK
  <2> QED
    BY <2>1 DEF Nothing, Message
<1> HIDE DEF m
<1>5. /\ slot'[c] # Empty
      /\ slot'[c].by = t /\ slot'[c].awaited /\ slot'[c].kind = k
      /\ slot'[c].msg.begin = pending[c]
      /\ slot'[c].msg.end = "none"
      /\ slot'[c].msg.writes = IF k = "simple" \/ ~pending[c] THEN m.writes ELSE {}
      /\ slot'[c].rest = IF k = "simple" \/ ~pending[c] THEN Nothing ELSE m
      /\ reply'[c] = "none" /\ ~pending'[c] /\ waits' = waits \cup {t}
      /\ \A d \in Conns \ {c} : /\ slot'[d] = slot[d] /\ reply'[d] = reply[d]
                                /\ pending'[d] = pending[d]
  <2>1. Submitted(t, c, k, m)
    BY <1>1, <1>3, <1>4, DispatchSlot
  <2> QED
    BY <1>4, <2>1 DEF Submitted
<1>6. /\ wants'[t] = wants[t] \cup NewWrites(t, k)
      /\ \A s \in Tasks \ {t} : wants'[s] = wants[s]
  BY <1>3 DEF TypeOK
<1>7. QuietInv'
  BY <1>0, <1>2, <1>3, <1>5 DEF OrderlyInv, QuietInv
<1>8. OthersStill(t) /\ ConnsStill({c})
  BY <1>3, <1>5, <1>6 DEF OthersStill, ConnsStill
<1>9. FateInv(t)'
  BY <1>1, <1>2, <1>3 DEF FateInv, Fresh, WritesOf, UnitOf
<1>10. AskedShape(t, c)'
  BY <1>1, <1>3, <1>4, <1>5 DEF AskedShape
<1>11. AskedState(t, c)'
  <2>1. pending[c] => txn[c] = "idle" /\ wants'[t] = NewWrites(t, k)
    BY <1>2, <1>6 DEF RunInv
  <2>2. ~pending[c] /\ c \notin dead => txn[c] = "open" /\ work[c] = wants[t]
    BY <1>1, <1>2 DEF RunInv
  <2>3. pending[c] => wants'[t] = slot'[c].msg.writes \cup slot'[c].rest.writes
    BY <1>4, <1>5, <2>1
  <2> QED
    BY <1>3, <1>4, <1>5, <1>6, <2>1, <2>2, <2>3 DEF AskedState
<1>12. RunInv(t, c)'
  <2>1. work'[c] \subseteq WritesOf(t)' /\ at'[t] = "body" /\ exec'[t] = c
    BY <1>0, <1>1, <1>2, <1>3 DEF RunInv, WritesOf
  <2> QED
    BY <1>5, <1>10, <1>11, <2>1 DEF RunInv
<1>13. /\ \A d \in Conns : Runs(t, d)' => RunInv(t, d)'
       /\ \A d \in Conns : Batches(t, d)' => BatchInv(t, d)'
  BY <1>1, <1>2, <1>3, <1>12 DEF Runs, Batches, UnitOf
<1> QED
  BY <1>2, <1>3, <1>7, <1>8, <1>9, <1>13, HolderFrame

LEMMA UnitHolds ==
    ASSUME TypeOK, OrderlyInv, NEW t \in Tasks, active[UnitOf(t)]
    PROVE  \E c \in Conns : /\ c = leased[UnitOf(t)] /\ c \in lent
                            /\ Runs(t, c) /\ RunInv(t, c)
<1> DEFINE c == leased[UnitOf(t)]
<1>1. c \in lent /\ c \in Conns
  BY ProgramTyped DEF TypeOK
<1>2. Runs(t, c) /\ RunInv(t, c)
  BY <1>1 DEF Runs, OrderlyInv
<1> QED
  BY <1>1, <1>2

LEMMA EndSubmitOrderly ==
    ASSUME TypeOK, HoldInv, Orderly, OrderlyInv, LeaseInv', NEW t \in Tasks,
           UNCHANGED program, EndSubmit(t)
    PROVE  OrderlyInv'
<1>1. at[t] \in Ending /\ active[UnitOf(t)] /\ t \notin waits /\ FateInv(t)
  BY DEF EndSubmit, OrderlyInv
<1>2. PICK c \in Conns : /\ c = leased[UnitOf(t)] /\ c \in lent
                         /\ Runs(t, c) /\ RunInv(t, c)
  BY <1>1, UnitHolds
<1>3. slot[c] = Empty /\ at[t] \in {"commit", "rollback"}
  BY <1>1, <1>2, BodyQuiet DEF RunInv, Ending
<1> DEFINE m == [Nothing EXCEPT !.end = IF at[t] = "commit" THEN "COMMIT" ELSE "ROLLBACK"]
<1>4. /\ Submit(t, c, "simple", m, TRUE)
      /\ UNCHANGED <<at, exec, wants, cause, raised, active, leased, lent>>
      /\ UNCHANGED <<txn, work, dead, stored>>
  BY <1>2, <1>3 DEF EndSubmit, Busy, unitVars, serverVars
<1>5. /\ m \in Message /\ m.writes = {}
      /\ m.end = (IF at[t] = "commit" THEN "COMMIT" ELSE "ROLLBACK")
      /\ Nothing.writes = {}
  BY DEF Nothing, Message
<1> HIDE DEF m
<1>6. Submitted(t, c, "simple", m)
  BY <1>4, <1>5, DispatchSlot DEF AllKinds
<1>7. /\ slot'[c] # Empty
      /\ slot'[c].by = t /\ slot'[c].awaited /\ slot'[c].kind = "simple"
      /\ slot'[c].msg.begin = pending[c]
      /\ slot'[c].msg.end = m.end /\ slot'[c].msg.writes = {} /\ slot'[c].rest = Nothing
      /\ reply'[c] = "none" /\ ~pending'[c] /\ waits' = waits \cup {t}
      /\ \A d \in Conns \ {c} : /\ slot'[d] = slot[d] /\ reply'[d] = reply[d]
                                /\ pending'[d] = pending[d]
  BY <1>5, <1>6 DEF Submitted
<1>8. QuietInv'
  BY <1>2, <1>4, <1>7 DEF OrderlyInv, QuietInv
<1>9. OthersStill(t) /\ ConnsStill({c})
  BY <1>4, <1>7 DEF OthersStill, ConnsStill
<1>10. UnitOf(t)' = UnitOf(t) /\ (Fresh(t) => Fresh(t)')
  BY <1>4 DEF UnitOf, Fresh, WritesOf
<1>11. FateInv(t)'
  <2>1. CASE at[t] = "commit"
    <3>1. Fresh(t)
      BY <1>1, <1>2, <1>3, <2>1 DEF FateInv
    <3>2. \A d \in Conns : leased'[UnitOf(t)'] = d => slot'[d] # Empty /\ reply'[d] = "none"
      BY <1>2, <1>4, <1>7, <1>10
    <3> QED
      BY <1>1, <1>4, <1>10, <2>1, <3>1, <3>2 DEF FateInv
  <2>2. CASE at[t] = "rollback"
    BY <1>1, <1>4, <1>10, <2>2 DEF FateInv
  <2> QED
    BY <1>3, <2>1, <2>2
<1>12. AskedShape(t, c)'
  BY <1>3, <1>4, <1>5, <1>7 DEF AskedShape
<1>13. AskedState(t, c)'
  <2>1. pending[c] => txn[c] = "idle" /\ wants[t] = {}
    BY <1>2 DEF RunInv
  <2>2. ~pending[c] /\ c \notin dead /\ at[t] = "commit" => txn[c] = "open" /\ work[c] = wants[t]
    BY <1>2, <1>3 DEF RunInv
  <2> QED
    BY <1>3, <1>4, <1>5, <1>7, <2>1, <2>2 DEF AskedState
<1>14. RunInv(t, c)'
  <2>1. work'[c] \subseteq WritesOf(t)' /\ at'[t] \in {"commit", "rollback"}
    BY <1>2, <1>3, <1>4 DEF RunInv, WritesOf
  <2> QED
    BY <1>7, <1>12, <1>13, <2>1 DEF RunInv
<1>15. /\ \A d \in Conns : Runs(t, d)' => RunInv(t, d)'
       /\ \A d \in Conns : Batches(t, d)' => BatchInv(t, d)'
  BY <1>2, <1>3, <1>4, <1>10, <1>14 DEF Runs, Batches
<1> QED
  BY <1>2, <1>4, <1>8, <1>9, <1>11, <1>15, HolderFrame

LEMMA SendRestOrderly ==
    ASSUME TypeOK, HoldInv, Orderly, OrderlyInv, LeaseInv', UNCHANGED program,
           NEW c \in Conns, SendRest(c)
    PROVE  OrderlyInv'
<1>1. /\ slot[c] # Empty /\ reply[c] = "ok" /\ slot[c].rest # Nothing
      /\ slot' = [slot EXCEPT ![c].msg = slot[c].rest, ![c].rest = Nothing]
      /\ reply' = [reply EXCEPT ![c] = "none"]
      /\ UNCHANGED <<at, waits, exec, wants, cause, raised, active, leased>>
      /\ UNCHANGED <<pending, lent, txn, work, dead, stored>>
  BY DEF SendRest, taskVars, unitVars, poolVars, serverVars
<1>2. PICK t \in Tasks : (Runs(t, c) /\ RunInv(t, c)) \/ (Batches(t, c) /\ BatchInv(t, c))
  BY <1>1, SlotHolder
<1>3. /\ Runs(t, c) /\ RunInv(t, c) /\ AskedShape(t, c) /\ AskedState(t, c)
      /\ at[t] = "body"
  <2>1. Runs(t, c) /\ RunInv(t, c)
    BY <1>1, <1>2 DEF BatchInv
  <2>2. AskedShape(t, c) /\ AskedState(t, c)
    BY <1>1, <2>1 DEF RunInv
  <2>3. at[t] = "body"
    BY <1>1, <2>2 DEF AskedShape
  <2> QED
    BY <2>1, <2>2, <2>3
<1>4. ~pending[c] /\ c \in lent
  <2>1. c \in lent
    BY <1>1 DEF OrderlyInv, QuietInv
  <2> QED
    BY <1>1, <1>3, <2>1 DEF RunInv
<1>5. /\ slot'[c] # Empty /\ reply'[c] = "none"
      /\ slot'[c].by = slot[c].by /\ slot'[c].awaited = slot[c].awaited
      /\ slot'[c].kind = slot[c].kind /\ slot'[c].msg = slot[c].rest
      /\ slot'[c].rest = Nothing
      /\ \A d \in Conns \ {c} : slot'[d] = slot[d] /\ reply'[d] = reply[d]
  <2>1. slot[c] \in Statement
    BY <1>1, MessageTyped
  <2> DEFINE s == [[slot[c] EXCEPT !.msg = slot[c].rest] EXCEPT !.rest = Nothing]
  <2>2. /\ s.by = slot[c].by /\ s.awaited = slot[c].awaited
        /\ s.kind = slot[c].kind /\ s.msg = slot[c].rest /\ s.rest = Nothing
    BY <2>1 DEF Statement
  <2>3. s # Empty
    <3>1. "kind" \in DOMAIN s
      BY <2>1 DEF Statement
    <3> QED
      BY <3>1 DEF Empty
  <2>4. slot'[c] = s /\ \A d \in Conns \ {c} : slot'[d] = slot[d]
    BY <1>1 DEF TypeOK
  <2>5. reply'[c] = "none" /\ \A d \in Conns \ {c} : reply'[d] = reply[d]
    BY <1>1 DEF TypeOK
  <2> HIDE DEF s
  <2> QED
    BY <2>2, <2>3, <2>4, <2>5
<1>6. Nothing.writes = {} /\ ~Nothing.begin /\ Nothing.end = "none"
  BY DEF Nothing
<1>7. QuietInv'
  <2>1. QuietInv
    BY DEF OrderlyInv
  <2>2. \A d \in Conns \ lent' : slot'[d] = slot[d]
    BY <1>1, <1>4, <1>5
  <2> QED
    BY <1>1, <2>1, <2>2 DEF QuietInv
<1>8. OthersStill(t) /\ ConnsStill({c})
  BY <1>1, <1>5 DEF OthersStill, ConnsStill
<1>9. UnitOf(t)' = UnitOf(t) /\ (Fresh(t) => Fresh(t)')
  BY <1>1 DEF UnitOf, Fresh, WritesOf
<1>10. FateInv(t)'
  <2>1. FateInv(t)
    BY DEF OrderlyInv
  <2> QED
    BY <1>1, <1>3, <1>9, <2>1 DEF FateInv
<1>11. AskedShape(t, c)'
  <2>1. ~slot[c].rest.begin /\ slot[c].rest.end = "none"
    BY <1>3 DEF AskedShape
  <2> QED
    BY <1>1, <1>3, <1>5, <1>6, <2>1 DEF AskedShape
<1>12. AskedState(t, c)'
  <2>1. ~slot'[c].msg.begin
    BY <1>3, <1>5 DEF AskedShape
  <2>2. c \notin dead => txn[c] = "open" /\ wants[t] = work[c] \cup slot[c].rest.writes
    BY <1>1, <1>3 DEF AskedState
  <2> QED
    BY <1>1, <1>3, <1>5, <2>1, <2>2 DEF AskedState
<1>13. RunInv(t, c)'
  <2>1. work'[c] \subseteq WritesOf(t)' /\ at'[t] = "body" /\ exec'[t] = c
    BY <1>1, <1>3 DEF RunInv, WritesOf
  <2> QED
    BY <1>1, <1>4, <1>5, <1>11, <1>12, <2>1 DEF RunInv
<1>14. /\ \A d \in Conns : Runs(t, d)' => RunInv(t, d)'
       /\ \A d \in Conns : Batches(t, d)' => BatchInv(t, d)'
  BY <1>1, <1>3, <1>9, <1>13 DEF Runs, Batches
<1> QED
  BY <1>1, <1>3, <1>7, <1>8, <1>10, <1>14, HolderFrame

LEMMA LoseOrderly ==
    ASSUME TypeOK, HoldInv, Orderly, OrderlyInv, LeaseInv', UNCHANGED program,
           NEW c \in Conns, Lose(c)
    PROVE  OrderlyInv'
<1>1. /\ c \notin dead /\ dead' = dead \cup {c}
      /\ txn' = [txn EXCEPT ![c] = "idle"] /\ work' = [work EXCEPT ![c] = {}]
      /\ UNCHANGED <<at, waits, exec, wants, cause, raised, active, leased>>
      /\ UNCHANGED <<pending, lent, slot, stored>>
  BY DEF Lose, taskVars, unitVars, poolVars
<1>2. /\ txn'[c] = "idle" /\ work'[c] = {}
      /\ \A d \in Conns \ {c} : txn'[d] = txn[d] /\ work'[d] = work[d]
  BY <1>1 DEF TypeOK
<1>3. /\ \A d \in Conns \ {c} : reply'[d] = reply[d]
      /\ slot[c] = Empty => reply'[c] = reply[c]
      /\ slot[c] # Empty => reply'[c] = "lost" \/ (reply'[c] = reply[c] /\ reply[c] # "none")
  <2>1. /\ slot[c] = Empty => reply' = reply
        /\ slot[c] # Empty => \/ reply' = [reply EXCEPT ![c] = "lost"]
                              \/ reply' = reply /\ reply[c] # "none"
    BY DEF Lose
  <2> QED
    BY <2>1 DEF TypeOK
<1>4. QuietInv'
  BY <1>1, <1>2 DEF OrderlyInv, QuietInv
<1>5. ConnsStill({c})
  BY <1>1, <1>2, <1>3 DEF ConnsStill
<1>6. CASE c \notin lent
  <2>1. \A s \in Tasks, d \in {c} : ~Runs(s, d) /\ ~Batches(s, d)
    BY <1>6, FreeConn
  <2>2. PICK S \in SUBSET Tasks : S = Tasks
    OBVIOUS
  <2>3. PICK C \in SUBSET Conns : C = {c}
    OBVIOUS
  <2>4. \A s \in S :
           /\ \A d \in Conns : Runs(s, d)' => RunInv(s, d)'
           /\ \A d \in Conns : Batches(s, d)' => BatchInv(s, d)'
           /\ FateInv(s)'
    <3>1. \A s \in S : /\ at'[s] = at[s] /\ exec'[s] = exec[s] /\ wants'[s] = wants[s]
                       /\ cause'[s] = cause[s] /\ raised'[s] = raised[s]
                       /\ s \in waits => s \in waits'
                       /\ active'[UnitOf(s)] = active[UnitOf(s)]
                       /\ leased'[UnitOf(s)] = leased[UnitOf(s)]
                       /\ (stored' \ stored) \cap WritesOf(s) = {}
      BY <1>1
    <3>2. \A s \in S, d \in C : ~Runs(s, d) /\ ~Batches(s, d)
      BY <2>1, <2>2, <2>3
    <3>3. ConnsStill(C) /\ stored \subseteq stored'
      BY <1>1, <1>5, <2>3
    <3> QED
      BY <3>1, <3>2, <3>3, OthersKept DEF ConnsStill
  <2> QED
    BY <1>4, <2>2, <2>4 DEF OrderlyInv
<1>7. CASE c \in lent
  <2>1. PICK t \in Tasks : Runs(t, c) \/ Batches(t, c)
    BY <1>7 DEF OrderlyInv, LeaseInv
  <2>2. OthersStill(t)
    BY <1>1 DEF OthersStill
  <2>3. UnitOf(t)' = UnitOf(t) /\ (Fresh(t) => Fresh(t)')
    BY <1>1 DEF UnitOf, Fresh, WritesOf
  <2>4. ASSUME Runs(t, c) PROVE RunInv(t, c)'
    <3>1. RunInv(t, c)
      BY <2>4 DEF OrderlyInv
    <3>2. slot[c] # Empty => AskedShape(t, c)'
      BY <1>1, <3>1 DEF RunInv, AskedShape
    <3>3. AskedState(t, c)'
      BY <1>1, <1>2 DEF AskedState
    <3> QED
      BY <1>1, <1>2, <3>1, <3>2, <3>3 DEF RunInv
  <2>5. ASSUME Batches(t, c) PROVE BatchInv(t, c)'
    <3>1. BatchInv(t, c)
      BY <2>5 DEF OrderlyInv
    <3> QED
      BY <1>1, <1>2, <1>3, <2>3, <3>1 DEF BatchInv
  <2>6. FateInv(t)'
    <3>1. FateInv(t)
      BY DEF OrderlyInv
    <3>2. \A d \in Conns : /\ slot'[d] = Empty \/ reply'[d] = "none" =>
                                 slot[d] = Empty \/ reply[d] = "none"
                           /\ slot'[d] # Empty /\ reply'[d] = "ok" =>
                                 slot[d] # Empty /\ reply[d] = "ok"
      BY <1>1, <1>3
    <3> QED
      BY <1>1, <2>3, <3>1, <3>2 DEF FateInv
  <2>7. \A d \in Conns : Runs(t, d)' => RunInv(t, d)'
    <3>1. ASSUME NEW d \in Conns, Runs(t, d)', d # c PROVE RunInv(t, d)'
      <4>1. RunInv(t, d)
        BY <1>1, <2>3, <3>1 DEF OrderlyInv, Runs
      <4> QED
        BY <1>1, <1>5, <3>1, <4>1, RunKept DEF ConnsStill
    <3>2. Runs(t, c)' => Runs(t, c)
      BY <1>1, <2>3 DEF Runs
    <3> QED
      BY <2>4, <3>1, <3>2
  <2>8. \A d \in Conns : Batches(t, d)' => BatchInv(t, d)'
    <3>1. ASSUME NEW d \in Conns, Batches(t, d)', d # c PROVE BatchInv(t, d)'
      <4>1. BatchInv(t, d)
        BY <1>1, <3>1 DEF OrderlyInv, Batches
      <4> QED
        BY <1>1, <1>5, <2>3, <3>1, <4>1, BatchKept DEF ConnsStill
    <3>2. Batches(t, c)' => Batches(t, c)
      BY <1>1 DEF Batches
    <3> QED
      BY <2>5, <3>1, <3>2
  <2> QED
    BY <1>1, <1>4, <1>5, <2>1, <2>2, <2>6, <2>7, <2>8, HolderFrame
<1> QED
  BY <1>6, <1>7

(* What the server does with the message of t on c, while c is not lost: at *)
(* every stage there are at most two outcomes.                              *)
BodyEffect(t, c) ==
    /\ stored' = stored
    /\ \/ reply'[c] = "error" /\ txn'[c] = "aborted" /\ work'[c] = {}
       \/ reply'[c] = "ok" /\ txn'[c] = "open" /\ work'[c] = work[c] \cup slot[c].msg.writes
CommitEffect(t, c) ==
    /\ txn'[c] = "idle" /\ work'[c] = {}
    /\ \/ reply'[c] = "error" /\ stored' = stored
       \/ reply'[c] = "ok" /\ stored' = stored \cup wants[t]
RollbackEffect(t, c) ==
    txn'[c] = "idle" /\ work'[c] = {} /\ reply'[c] = "ok" /\ stored' = stored

LEMMA ServerEffect ==
    ASSUME TypeOK, Orderly, OrderlyInv, NEW t \in Tasks, NEW c \in Conns,
           c \notin dead, ServerStep(c),
           (Runs(t, c) /\ RunInv(t, c)) \/ (Batches(t, c) /\ BatchInv(t, c))
    PROVE  /\ Batches(t, c) /\ BatchInv(t, c) => CommitEffect(t, c) /\ reply'[c] = "ok"
           /\ Runs(t, c) /\ RunInv(t, c) /\ at[t] = "commit" => CommitEffect(t, c)
           /\ Runs(t, c) /\ RunInv(t, c) /\ at[t] = "body" => BodyEffect(t, c)
           /\ Runs(t, c) /\ RunInv(t, c) /\ at[t] = "rollback" => RollbackEffect(t, c)
<1> DEFINE m == slot[c].msg
           piped == Piped(slot[c])
<1>1. slot[c] # Empty /\ reply[c] = "none"
  BY DEF ServerStep
<1>2. /\ m \in Message /\ m.begin \in BOOLEAN /\ m.end \in {"none", "COMMIT", "ROLLBACK"}
      /\ txn[c] \in {"idle", "open", "aborted"} /\ (txn[c] # "open" => work[c] = {})
  <2>1. m \in Message
    BY <1>1, MessageTyped
  <2> QED
    BY <2>1 DEF Message, TypeOK, OrderlyInv, QuietInv
<1>3. PICK refused \in Refusable(slot[c]) :
         LET r == Run(c, m, refused)
             end == IF piped THEN RollBackAborted(r.txn) ELSE r.txn
         IN  /\ txn' = [txn EXCEPT ![c] = end]
             /\ work' = [work EXCEPT ![c] = IF end = "open" THEN r.work ELSE {}]
             /\ stored' = r.stored
             /\ reply' = [reply EXCEPT ![c] = IF r.ok \/ piped THEN "ok" ELSE "error"]
  BY DEF ServerStep
<1> DEFINE r == Run(c, m, refused)
           end == IF piped THEN RollBackAborted(r.txn) ELSE r.txn
<1>4. /\ txn'[c] = end /\ work'[c] = (IF end = "open" THEN r.work ELSE {})
      /\ stored' = r.stored /\ reply'[c] = IF r.ok \/ piped THEN "ok" ELSE "error"
  BY <1>3 DEF TypeOK
<1>5. /\ refused \in {"none", "write", "end"}
      /\ refused = "write" => m.writes # {} /\ slot[c].kind \notin {"pipeline", "batch"}
      /\ refused = "end" => m.end = "COMMIT" /\ slot[c].kind # "batch"
  BY DEF Refusable, Orderly
<1>6. ASSUME Runs(t, c), RunInv(t, c)
      PROVE  /\ at[t] = "commit" => CommitEffect(t, c)
             /\ at[t] = "body" => BodyEffect(t, c)
             /\ at[t] = "rollback" => RollbackEffect(t, c)
  <2>1. AskedShape(t, c) /\ AskedState(t, c)
    BY <1>1, <1>6 DEF RunInv
  <2>2. /\ m.begin => txn[c] = "idle"
        /\ at[t] # "rollback" =>
              IF m.begin THEN wants[t] = m.writes \cup slot[c].rest.writes
              ELSE txn[c] = "open" /\ wants[t] = work[c] \cup m.writes
    BY <1>1, <2>1 DEF AskedState
  <2>3. CASE at[t] = "body"
    <3>1. m.end = "none" /\ refused # "end"
      BY <1>5, <2>1, <2>3 DEF AskedShape
    <3>2. CASE refused = "write"
      <4>1. ~piped
        BY <1>5, <3>2 DEF Piped
      <4>2. ~r.ok /\ r.stored = stored /\ r.work = {} /\ r.txn = "aborted"
        BY <2>2, <2>3, <3>2 DEF Run
      <4> QED
        BY <1>4, <2>3, <4>1, <4>2 DEF BodyEffect
    <3>3. CASE refused = "none"
      <4>1. r.ok /\ r.stored = stored /\ r.work = work[c] \cup m.writes /\ r.txn = "open"
        BY <2>2, <2>3, <3>1, <3>3 DEF Run
      <4> QED
        BY <1>4, <2>3, <4>1 DEF BodyEffect, RollBackAborted
    <3> QED
      BY <1>5, <3>1, <3>2, <3>3
  <2>4. CASE at[t] = "commit"
    <3>1. /\ m.writes = {} /\ m.end = "COMMIT" /\ ~piped /\ refused # "write"
          /\ slot[c].rest.writes = {}
      BY <1>5, <2>1, <2>4 DEF AskedShape, Piped, Nothing
    <3>2. CASE refused = "end"
      <4>1. ~r.ok /\ r.stored = stored /\ r.txn = "idle"
        BY <2>2, <2>4, <3>1, <3>2 DEF Run
      <4> QED
        BY <1>4, <2>4, <3>1, <4>1 DEF CommitEffect
    <3>3. CASE refused = "none"
      <4>1. r.ok /\ r.stored = stored \cup wants[t] /\ r.txn = "idle"
        <5>1. wants[t] = work[c] \cup m.writes
          BY <1>2, <2>2, <2>4, <3>1
        <5>2. r.ok /\ r.stored = stored \cup (work[c] \cup m.writes) /\ r.txn = "idle"
          BY <2>2, <2>4, <3>1, <3>3 DEF Run
        <5> QED
          BY <5>1, <5>2
      <4> QED
        BY <1>4, <2>4, <3>1, <4>1 DEF CommitEffect
    <3> QED
      BY <1>5, <2>4, <3>1, <3>2, <3>3
  <2>5. CASE at[t] = "rollback"
    <3>1. m.writes = {} /\ m.end = "ROLLBACK" /\ ~piped /\ refused = "none"
      BY <1>5, <2>1, <2>5 DEF AskedShape, Piped
    <3>2. r.ok /\ r.stored = stored /\ r.txn = "idle"
      BY <1>2, <2>2, <3>1 DEF Run
    <3> QED
      BY <1>4, <2>5, <3>1, <3>2 DEF RollbackEffect
  <2> QED
    BY <2>3, <2>4, <2>5
<1>7. ASSUME Batches(t, c), BatchInv(t, c) PROVE CommitEffect(t, c) /\ reply'[c] = "ok"
  <2>1. /\ txn[c] = "idle" /\ slot[c].kind = "batch"
        /\ m.begin /\ m.writes = wants[t] /\ m.end = "COMMIT"
    BY <1>1, <1>7 DEF BatchInv
  <2>2. refused = "none"
    BY <1>5, <2>1
  <2>3. r.ok /\ r.stored = stored \cup (work[c] \cup m.writes) /\ r.txn = "idle"
    BY <2>1, <2>2 DEF Run
  <2> QED
    BY <1>2, <1>4, <2>1, <2>3 DEF CommitEffect, RollBackAborted
<1> QED
  BY <1>6, <1>7

LEMMA ServerStepOrderly ==
    ASSUME TypeOK, HoldInv, Orderly, OrderlyInv, LeaseInv', UNCHANGED program,
           NEW c \in Conns, ServerStep(c)
    PROVE  OrderlyInv'
<1>1. /\ slot[c] # Empty /\ reply[c] = "none"
      /\ UNCHANGED <<at, waits, exec, wants, cause, raised, active, leased>>
      /\ UNCHANGED <<pending, lent, slot, dead>>
  BY DEF ServerStep, taskVars, unitVars, poolVars
<1>2. PICK t \in Tasks : (Runs(t, c) /\ RunInv(t, c)) \/ (Batches(t, c) /\ BatchInv(t, c))
  BY <1>1, SlotHolder
<1>3. /\ reply'[c] # "none"
      /\ \A d \in Conns \ {c} :
            txn'[d] = txn[d] /\ work'[d] = work[d] /\ reply'[d] = reply[d]
      /\ c \in dead => /\ reply'[c] = "lost" /\ txn'[c] = txn[c]
                       /\ work'[c] = work[c] /\ stored' = stored
  <2>1. CASE c \in dead
    BY <1>1, <2>1 DEF ServerStep, TypeOK
  <2>2. CASE c \notin dead
    BY <1>1, <2>2 DEF ServerStep, TypeOK
  <2> QED
    BY <2>1, <2>2
<1>4. /\ c \in lent /\ (c \in dead => txn[c] = "idle") /\ (txn[c] # "open" => work[c] = {})
      /\ FateInv(t) /\ wants[t] \subseteq WritesOf(t) /\ dead \subseteq Conns
  BY <1>1 DEF OrderlyInv, QuietInv, TypeOK
<1>5. OthersStill(t) /\ ConnsStill({c}) /\ UnitOf(t)' = UnitOf(t)
  BY <1>1, <1>3 DEF OthersStill, ConnsStill, UnitOf
<1>6. c \notin dead =>
         /\ Batches(t, c) /\ BatchInv(t, c) => CommitEffect(t, c) /\ reply'[c] = "ok"
         /\ Runs(t, c) /\ RunInv(t, c) /\ at[t] = "commit" => CommitEffect(t, c)
         /\ Runs(t, c) /\ RunInv(t, c) /\ at[t] = "body" => BodyEffect(t, c)
         /\ Runs(t, c) /\ RunInv(t, c) /\ at[t] = "rollback" => RollbackEffect(t, c)
  BY <1>2, ServerEffect
<1>7. CASE Runs(t, c) /\ RunInv(t, c)
  <2>1. AskedShape(t, c) /\ AskedState(t, c) /\ ~pending[c]
        /\ at[t] \in {"body", "commit", "rollback"}
    BY <1>1, <1>7 DEF RunInv, AskedShape
  <2>2. /\ stored \subseteq stored' /\ stored' \subseteq stored \cup WritesOf(t)
        /\ at[t] # "commit" => stored' = stored
        /\ at[t] = "commit" /\ reply'[c] = "ok" => wants[t] \subseteq stored'
        /\ at[t] # "body" => txn'[c] = "idle" /\ work'[c] = {}
        /\ txn'[c] # "open" => work'[c] = {}
        /\ c \in dead => txn'[c] = "idle"
    <3>1. CASE c \in dead
      BY <1>3, <1>4, <3>1
    <3>2. CASE c \notin dead /\ at[t] = "body"
      BY <1>6, <1>7, <3>2 DEF BodyEffect
    <3>3. CASE c \notin dead /\ at[t] = "commit"
      BY <1>4, <1>6, <1>7, <3>3 DEF CommitEffect
    <3>4. CASE c \notin dead /\ at[t] = "rollback"
      BY <1>6, <1>7, <3>4 DEF RollbackEffect
    <3> QED
      BY <2>1, <3>1, <3>2, <3>3, <3>4
  <2>3. QuietInv'
    BY <1>1, <1>3, <1>4, <2>2 DEF OrderlyInv, QuietInv
  <2>4. FateInv(t)'
    <3>1. Fresh(t) /\ at[t] # "commit" => Fresh(t)'
      BY <2>2 DEF Fresh, WritesOf
    <3>2. CASE at[t] = "body"
      BY <1>1, <1>4, <1>5, <3>1, <3>2 DEF FateInv
    <3>3. CASE at[t] = "commit"
      BY <1>1, <1>3, <1>4, <1>5, <1>7, <2>2, <3>3 DEF FateInv, Runs
    <3>4. CASE at[t] = "rollback"
      BY <1>1, <1>4, <1>5, <3>1, <3>4 DEF FateInv
    <3> QED
      BY <2>1, <3>2, <3>3, <3>4
  <2>5. AskedShape(t, c)'
    BY <1>1, <2>1 DEF AskedShape
  <2>6. AskedState(t, c)'
    <3>1. reply'[c] = "ok" /\ c \notin dead /\ at[t] = "body" =>
             txn'[c] = "open" /\ wants[t] = work'[c] \cup slot[c].rest.writes
      <4> SUFFICES ASSUME reply'[c] = "ok", c \notin dead, at[t] = "body"
                   PROVE  txn'[c] = "open" /\ wants[t] = work'[c] \cup slot[c].rest.writes
        OBVIOUS
      <4>1. txn'[c] = "open" /\ work'[c] = work[c] \cup slot[c].msg.writes
        BY <1>6, <1>7 DEF BodyEffect
      <4>2. /\ slot[c].msg.begin => /\ work[c] = {}
                                    /\ wants[t] = slot[c].msg.writes \cup slot[c].rest.writes
            /\ ~slot[c].msg.begin => /\ slot[c].rest.writes = {}
                                     /\ wants[t] = work[c] \cup slot[c].msg.writes
        <5>1. ~slot[c].msg.begin => slot[c].rest = Nothing
          BY <2>1 DEF AskedShape
        <5> QED
          BY <1>1, <1>4, <2>1, <5>1 DEF AskedState, Nothing
      <4> QED
        BY <4>1, <4>2
    <3> QED
      BY <1>1, <1>3, <2>2, <3>1 DEF AskedState
  <2>7. RunInv(t, c)'
    <3>1. work'[c] \subseteq WritesOf(t)
      <4>1. work[c] \subseteq WritesOf(t)
        BY <1>7 DEF RunInv
      <4>2. CASE c \notin dead /\ at[t] = "body"
        <5>1. slot[c].msg.writes \subseteq wants[t]
          BY <1>1, <2>1, <4>2 DEF AskedState
        <5> QED
          BY <1>4, <1>6, <1>7, <4>1, <4>2, <5>1 DEF BodyEffect
      <4>3. CASE c \in dead \/ at[t] # "body"
        BY <1>3, <2>2, <4>1, <4>3
      <4> QED
        BY <4>2, <4>3
    <3>2. at[t] = "body" => exec[t] = c
      BY <1>7 DEF RunInv
    <3> QED
      BY <1>1, <2>1, <2>5, <2>6, <3>1, <3>2 DEF RunInv, WritesOf
  <2>8. /\ \A d \in Conns : Runs(t, d)' => RunInv(t, d)'
        /\ \A d \in Conns : Batches(t, d)' => BatchInv(t, d)'
    BY <1>1, <1>5, <1>7, <2>1, <2>7 DEF Runs, Batches
  <2> QED
    BY <1>5, <1>7, <2>2, <2>3, <2>4, <2>8, HolderFrame
<1>8. CASE Batches(t, c) /\ BatchInv(t, c)
  <2>1. /\ stored \subseteq stored' /\ stored' \subseteq stored \cup WritesOf(t)
        /\ reply'[c] = "ok" => wants[t] \subseteq stored'
        /\ txn'[c] = "idle" /\ work'[c] = {}
        /\ reply'[c] # "error"
    <3>1. CASE c \in dead
      BY <1>3, <1>4, <3>1
    <3>2. CASE c \notin dead
      <4>1. CommitEffect(t, c) /\ reply'[c] = "ok"
        BY <1>6, <1>8, <3>2
      <4> QED
        BY <1>4, <4>1 DEF CommitEffect
    <3> QED
      BY <3>1, <3>2
  <2>2. QuietInv'
    BY <1>1, <1>3, <1>4, <2>1 DEF OrderlyInv, QuietInv
  <2>3. FateInv(t)' /\ at[t] = "batch"
    BY <1>1, <1>4, <1>8 DEF FateInv, Batches
  <2>4. BatchInv(t, c)'
    BY <1>1, <1>3, <1>8, <2>1 DEF BatchInv
  <2>5. ~active[UnitOf(t)]
    BY <2>3 DEF OrderlyInv, LeaseInv
  <2>6. /\ \A d \in Conns : Runs(t, d)' => RunInv(t, d)'
        /\ \A d \in Conns : Batches(t, d)' => BatchInv(t, d)'
    BY <1>1, <1>5, <1>8, <2>4, <2>5 DEF Runs, Batches
  <2> QED
    BY <1>5, <1>8, <2>1, <2>2, <2>3, <2>6, HolderFrame
<1> QED
  BY <1>2, <1>7, <1>8

LEMMA ReceiveOrderly ==
    ASSUME TypeOK, HoldInv, Orderly, OrderlyInv, LeaseInv', UNCHANGED program,
           NEW c \in Conns, Receive(c)
    PROVE  OrderlyInv'
<1>1. /\ slot[c] # Empty /\ reply[c] \in {"ok", "error", "lost"}
      /\ reply[c] = "ok" => slot[c].rest = Nothing
      /\ slot' = [slot EXCEPT ![c] = Empty] /\ reply' = [reply EXCEPT ![c] = "none"]
      /\ UNCHANGED <<exec, started, pending, txn, work, dead, stored>>
  BY DEF Receive, Done, serverVars
<1>2. PICK t \in Tasks : /\ \/ Runs(t, c) /\ RunInv(t, c)
                            \/ Batches(t, c) /\ BatchInv(t, c)
                         /\ t = slot[c].by /\ slot[c].awaited /\ t \in waits
  BY <1>1, SlotHolder
<1> DEFINE e == Outcome(at[t], c)
<1>3. /\ wants' = [wants EXCEPT ![t] = IF reply[c] # "error" THEN @
                       ELSE @ \ (slot[c].msg.writes \cup slot[c].rest.writes)]
      /\ waits' = waits \ {t}
      /\ \/ at[t] = "body" /\ BodyGets(t, e) /\ UNCHANGED <<unitVars, lent>>
         \/ at[t] \in Ending /\ After(t, e) /\ ReleaseConnection(UnitOf(t))
         \/ /\ at[t] = "batch" /\ cause' = [cause EXCEPT ![t] = e]
            /\ UNCHANGED <<at, raised, unitVars, lent>>
  BY <1>2 DEF Receive
<1>4. at[t] \in {"body", "commit", "rollback", "batch"}
  BY <1>1, <1>2 DEF RunInv, AskedShape, Batches
<1>5. /\ e \in Exceptions \cup {None}
      /\ reply[c] = "ok" => e = None
      /\ reply[c] # "ok" => e # None /\ e.from = at[t]
  BY <1>1, <1>4, OutcomeTyped
<1> HIDE DEF e
<1>6. /\ slot'[c] = Empty /\ reply'[c] = "none"
      /\ \A d \in Conns \ {c} : slot'[d] = slot[d] /\ reply'[d] = reply[d]
      /\ reply[c] # "error" => wants'[t] = wants[t]
      /\ \A s \in Tasks \ {t} : wants'[s] = wants[s] /\ (s \in waits => s \in waits')
  BY <1>1, <1>3 DEF TypeOK
<1>7. ConnsStill({c}) /\ UnitOf(t)' = UnitOf(t) /\ (Fresh(t) => Fresh(t)')
  BY <1>1, <1>6 DEF ConnsStill, UnitOf, Fresh, WritesOf
<1>8. stored \subseteq stored' /\ stored' \subseteq stored \cup WritesOf(t)
  BY <1>1
<1>9. FateInv(t) /\ c \in lent
  BY <1>1 DEF OrderlyInv, QuietInv
<1>10. CASE at[t] = "body"
  <2>1. /\ Runs(t, c) /\ RunInv(t, c) /\ AskedState(t, c) /\ ~pending[c]
        /\ UNCHANGED <<active, leased, lent>>
    BY <1>1, <1>2, <1>3, <1>10 DEF Batches, RunInv, Ending, unitVars
  <2>2. \/ UNCHANGED <<at, cause, raised>> /\ e = None
        \/ /\ e # None
           /\ at' = [at EXCEPT ![t] = "rollback"]
           /\ cause' = [cause EXCEPT ![t] = e]
           /\ raised' = [raised EXCEPT ![t] = e]
    <3>1. BodyGets(t, e) /\ ~program.swallow
      BY <1>3, <1>10 DEF Ending, Orderly
    <3> QED
      BY <1>5, <1>10, <3>1, BodyGetsTyped
  <2>3. /\ \A s \in Tasks \ {t} : at'[s] = at[s] /\ cause'[s] = cause[s] /\ raised'[s] = raised[s]
        /\ \/ e = None /\ at'[t] = "body"
           \/ at'[t] = "rollback" /\ cause'[t].from = "body" /\ raised'[t] # None
    BY <1>5, <1>10, <2>2 DEF TypeOK
  <2>4. OthersStill(t)
    BY <1>1, <1>6, <2>1, <2>3 DEF OthersStill
  <2>5. QuietInv'
    BY <1>1, <1>6, <1>9, <2>1 DEF OrderlyInv, QuietInv
  <2>6. FateInv(t)'
    <3>1. Fresh(t)' /\ active'[UnitOf(t)']
      BY <1>7, <1>9, <1>10, <2>1 DEF FateInv
    <3>2. CASE at'[t] = "body"
      BY <3>1, <3>2 DEF FateInv
    <3>3. CASE at'[t] = "rollback"
      BY <2>3, <3>1, <3>3 DEF FateInv
    <3> QED
      BY <2>3, <3>2, <3>3
  <2>7. RunInv(t, c)'
    <3>1. work'[c] \subseteq WritesOf(t)' /\ exec'[t] = c
      BY <1>1, <1>10, <2>1 DEF RunInv, WritesOf
    <3>2. CASE at'[t] = "body"
      <4>1. reply[c] = "ok" /\ slot[c].rest.writes = {} /\ wants'[t] = wants[t]
        BY <1>1, <1>5, <1>6, <2>3, <3>2 DEF Nothing
      <4>2. c \notin dead => txn[c] = "open" /\ wants[t] = work[c]
        BY <1>10, <2>1, <4>1 DEF AskedState
      <4> QED
        BY <1>1, <1>6, <2>1, <3>1, <3>2, <4>1, <4>2 DEF RunInv
    <3>3. CASE at'[t] = "rollback"
      BY <1>1, <1>6, <2>1, <3>1, <3>3 DEF RunInv
    <3> QED
      BY <2>3, <3>2, <3>3
  <2>8. /\ \A d \in Conns : Runs(t, d)' => RunInv(t, d)'
        /\ \A d \in Conns : Batches(t, d)' => BatchInv(t, d)'
    BY <1>7, <2>1, <2>3, <2>7 DEF Runs, Batches
  <2> QED
    BY <1>7, <1>8, <2>1, <2>4, <2>5, <2>6, <2>8, HolderFrame
<1>11. CASE at[t] \in {"commit", "rollback"}
  <2>1. Runs(t, c) /\ RunInv(t, c) /\ AskedState(t, c) /\ txn[c] = "idle"
    BY <1>1, <1>2, <1>11 DEF Batches, RunInv, AskedState
  <2>2. After(t, e) /\ ReleaseConnection(UnitOf(t))
    BY <1>3, <1>11
  <2>3. /\ at[t] = "commit" => /\ at'[t] = IF e = None THEN "close" ELSE "rollback"
                               /\ cause'[t] = e /\ raised'[t] = e
        /\ at[t] = "rollback" => /\ at'[t] = "close" /\ cause'[t] = cause[t]
                                 /\ raised'[t] = IF e = None THEN raised[t] ELSE e
        /\ \A s \in Tasks \ {t} : /\ at'[s] = at[s]
                                  /\ cause'[s] = cause[s] /\ raised'[s] = raised[s]
    BY <1>5, <1>11, <2>2, AfterTyped DEF Ending
  <2>4. /\ ~active'[UnitOf(t)] /\ lent' = lent \ {c}
        /\ \A s \in Tasks \ {t} : /\ active'[UnitOf(s)] = active[UnitOf(s)]
                                  /\ leased'[UnitOf(s)] = leased[UnitOf(s)]
    <3>1. \A s \in Tasks : UnitOf(s) \in Units
      BY ProgramTyped DEF TypeOK
    <3>2. \A s \in Tasks \ {t} : UnitOf(s) # UnitOf(t)
      BY DEF Orderly, OwnUnits
    <3>3. /\ active' = [active EXCEPT ![UnitOf(t)] = FALSE]
          /\ leased' = [leased EXCEPT ![UnitOf(t)] = NoConn]
          /\ lent' = lent \ {leased[UnitOf(t)]}
      BY <2>2 DEF ReleaseConnection, LeaseReturned
    <3> QED
      BY <2>1, <3>1, <3>2, <3>3 DEF TypeOK, Runs
  <2>5. OthersStill(t)
    BY <1>1, <1>6, <2>3, <2>4 DEF OthersStill
  <2>6. QuietInv'
    BY <1>1, <1>6, <2>1, <2>4 DEF OrderlyInv, QuietInv
  <2>7. FateInv(t)'
    <3>1. CASE at[t] = "commit" /\ e = None
      <4>1. reply[c] = "ok" /\ wants[t] \subseteq stored
        BY <1>1, <1>5, <1>9, <2>1, <3>1 DEF FateInv, Runs
      <4> QED
        BY <1>1, <1>6, <2>3, <3>1, <4>1 DEF FateInv
    <3>2. CASE at[t] = "commit" /\ e # None
      <4>1. at'[t] = "rollback" /\ raised'[t] # None /\ cause'[t].from = "commit"
        BY <1>5, <2>3, <3>2
      <4> QED
        BY <4>1 DEF FateInv
    <3>3. CASE at[t] = "rollback"
      BY <1>7, <1>9, <2>3, <3>3 DEF FateInv
    <3> QED
      BY <1>11, <3>1, <3>2, <3>3
  <2>8. /\ \A d \in Conns : Runs(t, d)' => RunInv(t, d)'
        /\ \A d \in Conns : Batches(t, d)' => BatchInv(t, d)'
    <3>1. at'[t] # "batch"
      BY <1>11, <2>3
    <3> QED
      BY <1>7, <2>4, <3>1 DEF Runs, Batches
  <2> QED
    BY <1>7, <1>8, <2>1, <2>5, <2>6, <2>7, <2>8, HolderFrame
<1>12. CASE at[t] = "batch"
  <2>1. /\ Batches(t, c) /\ BatchInv(t, c)
        /\ cause' = [cause EXCEPT ![t] = e]
        /\ UNCHANGED <<at, raised, active, leased, lent>>
    BY <1>2, <1>3, <1>12 DEF RunInv, Ending, unitVars
  <2>2. cause'[t] = e /\ \A s \in Tasks \ {t} : cause'[s] = cause[s]
    BY <2>1 DEF TypeOK
  <2>3. OthersStill(t)
    BY <1>1, <1>6, <2>1, <2>2 DEF OthersStill
  <2>4. QuietInv'
    BY <1>1, <1>6, <1>9, <2>1 DEF OrderlyInv, QuietInv
  <2>5. FateInv(t)' /\ ~active[UnitOf(t)]
    BY <1>5, <1>12, <2>1, <2>2 DEF FateInv, OrderlyInv, LeaseInv
  <2>6. BatchInv(t, c)'
    <3>1. cause'[t] = None => wants'[t] \subseteq stored'
      BY <1>1, <1>5, <1>6, <2>1, <2>2 DEF BatchInv
    <3> QED
      BY <1>1, <1>6, <2>1, <3>1 DEF BatchInv
  <2>7. /\ \A d \in Conns : Runs(t, d)' => RunInv(t, d)'
        /\ \A d \in Conns : Batches(t, d)' => BatchInv(t, d)'
    BY <1>1, <1>7, <2>1, <2>5, <2>6 DEF Runs, Batches
  <2> QED
    BY <1>7, <1>8, <2>1, <2>3, <2>4, <2>5, <2>7, HolderFrame
<1> QED
  BY <1>4, <1>10, <1>11, <1>12

LEMMA OrderlyInit == Init => LeaseInv /\ OrderlyInv
<1> SUFFICES ASSUME Init PROVE LeaseInv /\ OrderlyInv
  OBVIOUS
<1>1. \A t \in Tasks : UnitOf(t) \in Units
  BY ProgramTyped DEF Init
<1>2. /\ \A t \in Tasks : /\ at[t] = "idle" /\ cause[t] = None
                           /\ wants[t] = {} /\ ~active[UnitOf(t)]
      /\ lent = {} /\ dead = {} /\ stored = {}
      /\ \A c \in Conns : slot[c] = Empty /\ txn[c] = "idle" /\ work[c] = {}
  BY <1>1 DEF Init
<1>3. LeaseInv
  BY <1>2 DEF LeaseInv
<1>4. QuietInv
  BY <1>2 DEF QuietInv
<1>5. \A t \in Tasks : FateInv(t)
  BY <1>2 DEF FateInv, Fresh
<1> QED
  BY <1>2, <1>3, <1>4, <1>5 DEF OrderlyInv, Runs, Batches

LEMMA OrderlyStutter ==
    ASSUME TypeOK, HoldInv, OrderlyInv, LeaseInv', UNCHANGED vars
    PROVE  OrderlyInv'
<1>1. /\ UNCHANGED <<program, at, waits, exec, wants, cause, raised, active, leased>>
      /\ UNCHANGED <<pending, lent, slot, reply, txn, work, dead, stored>>
  BY DEF vars, taskVars, unitVars, poolVars, slotVars, serverVars
<1>2. PICK S \in SUBSET Tasks : S = Tasks
  OBVIOUS
<1>3. PICK C \in SUBSET Conns : C = {}
  OBVIOUS
<1>4. \A s \in S :
         /\ \A d \in Conns : Runs(s, d)' => RunInv(s, d)'
         /\ \A d \in Conns : Batches(s, d)' => BatchInv(s, d)'
         /\ FateInv(s)'
  BY <1>1, <1>3, OthersKept
<1>5. QuietInv'
  BY <1>1 DEF OrderlyInv, QuietInv
<1> QED
  BY <1>2, <1>4, <1>5 DEF OrderlyInv

LEMMA OrderlyStep ==
    ASSUME TypeOK, HoldInv, Orderly, OrderlyInv, LeaseInv', [Next]_vars
    PROVE  OrderlyInv'
<1>1. ASSUME NEW t \in Tasks, TaskStep(t) PROVE OrderlyInv'
  <2>1. UNCHANGED program /\ ~program.overlap
    BY <1>1 DEF TaskStep, Orderly
  <2>2. ASSUME NEW c \in Conns, Acquired(t, c) \/ BatchSubmit(t, c) PROVE OrderlyInv'
    BY <2>1, <2>2, AcquiredOrderly, BatchSubmitOrderly
  <2>3. ASSUME NEW k \in program.kinds, Execute(t, k, TRUE) PROVE OrderlyInv'
    BY <2>1, <2>3, ExecuteOrderly
  <2>4. CASE Begin(t) \/ BatchBegin(t) \/ EnterBody(t)
    BY <2>1, <2>4, BeginOrderly, EnterBodyOrderly
  <2>5. CASE BodyThrows(t) \/ BodyReturns(t)
    BY <2>1, <2>5, BodyEndOrderly
  <2>6. CASE EndInactive(t) \/ EndSubmit(t)
    BY <2>1, <2>6, EndInactiveOrderly, EndSubmitOrderly
  <2>7. CASE BatchEnd(t)
    BY <2>1, <2>7, BatchEndOrderly
  <2> QED
    BY <1>1, <2>1, <2>2, <2>3, <2>4, <2>5, <2>6, <2>7 DEF TaskStep
<1>2. ASSUME NEW c \in Conns, Answer(c) PROVE OrderlyInv'
  BY <1>2, ServerStepOrderly, SendRestOrderly, ReceiveOrderly DEF Answer
<1>3. ASSUME NEW c \in Conns, Lose(c), UNCHANGED program PROVE OrderlyInv'
  BY <1>3, LoseOrderly
<1>4. CASE UNCHANGED vars
  BY <1>4, OrderlyStutter
<1> QED
  BY <1>1, <1>2, <1>3, <1>4 DEF Next, Finished

-------------------------------------------------------------------------------
(* The inductive invariant, and what follows from it *)

LEMMA TxInductive == Spec => []IInv
<1>1. Init => IInv
  BY HoldInit, OrderlyInit DEF IInv
<1>2. IInv /\ [Next]_vars => IInv'
  <2> SUFFICES ASSUME IInv, [Next]_vars PROVE IInv'
    OBVIOUS
  <2>1. TypeOK' /\ HoldInv'
    BY HoldStep DEF IInv
  <2>2. (OwnUnits => LeaseInv)'
    BY LeaseStep DEF IInv
  <2>3. (Orderly => OrderlyInv)'
    <3> SUFFICES ASSUME Orderly' PROVE OrderlyInv'
      OBVIOUS
    <3>1. UNCHANGED program
      BY DEF Next, TaskStep, Answer, Finished, vars
    <3>2. Orderly /\ OwnUnits'
      BY <3>1 DEF Orderly, OwnUnits, UnitOf
    <3> QED
      BY <2>2, <3>2, OrderlyStep DEF IInv
  <2> QED
    BY <2>1, <2>2, <2>3 DEF IInv
<1> QED
  BY <1>1, <1>2, PTL DEF Spec

(* Whatever the server refuses and whichever connections are lost, an       *)
(* orderly program gives its connections back with no statement in flight   *)
(* and no transaction open (ReturnedClean); and a unit of work that is not  *)
(* shared always gives its lease back, whatever its body did.               *)
THEOREM TxReturnedClean == Spec => []ReturnedClean
<1>1. IInv => ReturnedClean
  <2> SUFFICES ASSUME IInv PROVE ReturnedClean
    OBVIOUS
  <2>1. Orderly => \A c \in Conns \ (lent \cup dead) : slot[c] = Empty /\ txn[c] = "idle"
    BY DEF IInv, OrderlyInv, QuietInv
  <2>2. ASSUME OwnUnits, \A t \in Tasks : at[t] = "ended", NEW c \in lent PROVE FALSE
    <3>1. PICK t \in Tasks : Runs(t, c) \/ Batches(t, c)
      BY <2>2 DEF IInv, LeaseInv
    <3>2. at[t] \in {"begun", "body", "commit", "rollback", "close", "batch"}
      BY <2>2, <3>1 DEF IInv, LeaseInv, Runs, Batches
    <3> QED
      BY <2>2, <3>2
  <2> QED
    BY <2>1, <2>2 DEF ReturnedClean
<1> QED
  BY <1>1, TxInductive, PTL

(* The uncommitted writes on a connection are those of one task that has    *)
(* not ended: nobody commits or rolls back the work of another.             *)
THEOREM TxOneTaskPerTransaction == Spec => []OneTaskPerTransaction
<1>1. IInv => OneTaskPerTransaction
  <2> SUFFICES ASSUME IInv, Orderly, NEW c \in Conns, NEW v \in work[c], NEW w \in work[c]
               PROVE  v[1] = w[1] /\ at[v[1]] # "ended"
    BY DEF OneTaskPerTransaction
  <2>1. OrderlyInv /\ txn[c] = "open"
    BY DEF IInv, OrderlyInv, QuietInv
  <2>2. c \in lent
    BY <2>1 DEF OrderlyInv, QuietInv
  <2>3. PICK t \in Tasks : Runs(t, c) \/ Batches(t, c)
    BY <2>1, <2>2 DEF OrderlyInv, LeaseInv
  <2>4. Runs(t, c) /\ RunInv(t, c)
    BY <2>1, <2>3 DEF OrderlyInv, BatchInv
  <2>5. v \in WritesOf(t) /\ w \in WritesOf(t) /\ at[t] # "ended"
    BY <2>4 DEF RunInv
  <2> QED
    BY <2>5 DEF WritesOf
<1> QED
  BY <1>1, TxInductive, PTL

-------------------------------------------------------------------------------
(* withTransaction implements Transactions *)

(* What a task of an orderly program comes to. *)
OutcomeOf(t) ==
    IF at[t] # "ended" THEN "open"
    ELSE IF raised[t] = None THEN "returned"
    ELSE IF cause[t].from \in {"commit", "batch"} THEN "inDoubt" ELSE "threw"

(* A step of the abstract transactions, in the variables of this module. *)
PromisedStep(t) ==
    \/ /\ OutcomeOf(t) = "open" /\ wants[t] \cap stored = {}
       /\ \E W \in SUBSET WritesOf(t) : wants' = [wants EXCEPT ![t] = W]
       /\ stored' = stored /\ \A s \in Tasks : OutcomeOf(s)' = OutcomeOf(s)
    \/ /\ OutcomeOf(t) = "open" /\ wants[t] \cap stored = {}
       /\ stored' = stored \cup wants[t]
       /\ wants' = wants /\ \A s \in Tasks : OutcomeOf(s)' = OutcomeOf(s)
    \/ /\ OutcomeOf(t) = "open" /\ wants' = wants /\ stored' = stored
       /\ \A s \in Tasks \ {t} : OutcomeOf(s)' = OutcomeOf(s)
       /\ \/ OutcomeOf(t)' = "returned" /\ wants[t] \subseteq stored
          \/ OutcomeOf(t)' = "threw" /\ wants[t] \cap stored = {}
          \/ OutcomeOf(t)' = "inDoubt"

PromisedStutter ==
    wants' = wants /\ stored' = stored /\ \A s \in Tasks : OutcomeOf(s)' = OutcomeOf(s)

LEMMA PromisedStepMaps ==
    ASSUME TypeOK, TypeOK', Orderly, UNCHANGED program, NEW t \in Tasks, PromisedStep(t)
    PROVE  Promise!Next
<1> DEFINE W == [s \in Tasks |-> IF Orderly THEN wants[s] ELSE {}]
           S == IF Orderly THEN stored ELSE {}
           O == [s \in Tasks |->
                   IF at[s] # "ended" \/ ~Orderly THEN "open"
                   ELSE IF raised[s] = None THEN "returned"
                   ELSE IF cause[s].from \in {"commit", "batch"} THEN "inDoubt" ELSE "threw"]
<1>1. Orderly'
  BY DEF Orderly, OwnUnits, UnitOf
<1>2. W = wants /\ W' = wants' /\ S = stored /\ S' = stored'
  BY <1>1 DEF TypeOK
<1>3. O = [s \in Tasks |-> OutcomeOf(s)] /\ O' = [s \in Tasks |-> OutcomeOf(s)']
  BY <1>1 DEF OutcomeOf
<1>4. CASE /\ OutcomeOf(t) = "open" /\ wants[t] \cap stored = {}
           /\ \E X \in SUBSET WritesOf(t) : wants' = [wants EXCEPT ![t] = X]
           /\ stored' = stored /\ \A s \in Tasks : OutcomeOf(s)' = OutcomeOf(s)
  <2>1. O[t] = "open" /\ W[t] \cap S = {} /\ S' = S /\ O' = O
    BY <1>2, <1>3, <1>4
  <2>2. \E X \in SUBSET WritesOf(t) : W' = [W EXCEPT ![t] = X]
    BY <1>2, <1>4
  <2>3. Promise!Work(t)
    BY <2>1, <2>2, Zenon DEF Promise!Work, Promise!Undecided
  <2> QED
    BY <2>3 DEF Promise!Next
<1>5. CASE /\ OutcomeOf(t) = "open" /\ wants[t] \cap stored = {}
           /\ stored' = stored \cup wants[t]
           /\ wants' = wants /\ \A s \in Tasks : OutcomeOf(s)' = OutcomeOf(s)
  <2>1. O[t] = "open" /\ W[t] \cap S = {} /\ S' = S \cup W[t] /\ W' = W /\ O' = O
    BY <1>2, <1>3, <1>5
  <2>2. Promise!Store(t)
    BY <2>1 DEF Promise!Store, Promise!Undecided
  <2> QED
    BY <2>2 DEF Promise!Next
<1>6. CASE /\ OutcomeOf(t) = "open" /\ wants' = wants /\ stored' = stored
           /\ \A s \in Tasks \ {t} : OutcomeOf(s)' = OutcomeOf(s)
           /\ \/ OutcomeOf(t)' = "returned" /\ wants[t] \subseteq stored
              \/ OutcomeOf(t)' = "threw" /\ wants[t] \cap stored = {}
              \/ OutcomeOf(t)' = "inDoubt"
  <2>1. O[t] = "open" /\ W' = W /\ S' = S /\ O' = [O EXCEPT ![t] = OutcomeOf(t)']
    <3>1. O[t] = OutcomeOf(t) /\ W' = W /\ S' = S
      BY <1>2, <1>3, <1>6
    <3>2. O' = [[s \in Tasks |-> OutcomeOf(s)] EXCEPT ![t] = OutcomeOf(t)']
      <4>1. O' = [s \in Tasks |-> OutcomeOf(s)']
        BY <1>3
      <4> HIDE DEF O
      <4> QED
        BY <1>6, <4>1
    <3>3. O = [s \in Tasks |-> OutcomeOf(s)]
      BY <1>3
    <3> HIDE DEF O
    <3> QED
      BY <1>6, <3>1, <3>2, <3>3
  <2>2. \/ OutcomeOf(t)' = "returned" /\ W[t] \subseteq S
        \/ OutcomeOf(t)' = "threw" /\ W[t] \cap S = {}
        \/ OutcomeOf(t)' = "inDoubt"
    BY <1>2, <1>6
  <2>3. Promise!Return(t) \/ Promise!Throw(t) \/ Promise!CommitThrows(t)
    BY <2>1, <2>2 DEF Promise!Return, Promise!Throw, Promise!CommitThrows, Promise!Undecided
  <2> QED
    BY <2>3 DEF Promise!Next
<1> QED
  BY <1>4, <1>5, <1>6 DEF PromisedStep

LEMMA OutcomesKept ==
    ASSUME \A s \in Tasks : at'[s] = "ended" <=> at[s] = "ended",
           \A s \in Tasks : at[s] = "ended" => raised'[s] = raised[s] /\ cause'[s] = cause[s]
    PROVE  \A s \in Tasks : OutcomeOf(s)' = OutcomeOf(s)
BY DEF OutcomeOf

(* The statements of a body add to what it wants, and nothing of it is      *)
(* durable yet.                                                             *)
LEMMA WorkMaps ==
    ASSUME TypeOK, TypeOK', OrderlyInv, NEW t \in Tasks, at[t] \in {"body", "batchAcquiring"},
           NEW W, wants' = [wants EXCEPT ![t] = W], stored' = stored,
           \A s \in Tasks : OutcomeOf(s)' = OutcomeOf(s)
    PROVE  PromisedStep(t)
<1>1. wants[t] \cap stored = {}
  BY DEF OrderlyInv, FateInv, Fresh, TypeOK
<1>2. OutcomeOf(t) = "open"
  BY DEF OutcomeOf
<1>3. W \in SUBSET WritesOf(t)
  <2>1. wants'[t] = W /\ wants'[t] \subseteq WritesOf(t)
    BY DEF TypeOK, WritesOf
  <2> QED
    BY <2>1
<1> QED
  BY <1>1, <1>2, <1>3 DEF PromisedStep

LEMMA TaskMaps ==
    ASSUME TypeOK, TypeOK', HoldInv, Orderly, OrderlyInv, NEW t \in Tasks, TaskStep(t)
    PROVE  PromisedStep(t) \/ PromisedStutter
<1>1. UNCHANGED program /\ ~program.overlap
  BY DEF TaskStep, Orderly
<1>2. CASE Begin(t) \/ BatchBegin(t) \/ EnterBody(t) \/ BodyThrows(t) \/ BodyReturns(t)
  <2>1. at[t] \in {"idle", "begun", "body"} /\ wants' = wants /\ stored' = stored
    BY <1>2 DEF Begin, BatchBegin, EnterBody, BodyThrows, BodyReturns, InBody, serverVars
  <2>2. at[t] = "idle" => ~active[UnitOf(t)]
    BY DEF OrderlyInv, LeaseInv
  <2>3. /\ at'[t] # "ended"
        /\ \A s \in Tasks \ {t} : /\ at'[s] = at[s] /\ raised'[s] = raised[s]
                                  /\ cause'[s] = cause[s]
    BY <1>2, <2>2 DEF Begin, BatchBegin, EnterBody, BodyThrows, BodyReturns, Goto, Raise,
       AfterThrow, TypeOK
  <2>4. /\ \A s \in Tasks : at'[s] = "ended" <=> at[s] = "ended"
        /\ \A s \in Tasks : at[s] = "ended" => raised'[s] = raised[s] /\ cause'[s] = cause[s]
    BY <2>1, <2>3
  <2> QED
    BY <2>1, <2>4, OutcomesKept DEF PromisedStutter
<1>3. ASSUME NEW c \in Conns, Acquired(t, c) PROVE PromisedStutter
  <2>1. /\ UNCHANGED <<wants, cause, raised, stored>> /\ at[t] = "acquiring"
        /\ at' = [at EXCEPT ![t] = "begun"]
    BY <1>3 DEF Acquired, Goto, serverVars
  <2>2. \A s \in Tasks : at'[s] = "ended" <=> at[s] = "ended"
    BY <2>1 DEF TypeOK
  <2> QED
    BY <2>1, <2>2, OutcomesKept DEF PromisedStutter
<1>4. ASSUME NEW c \in Conns, BatchSubmit(t, c) PROVE PromisedStep(t)
  <2>1. at[t] = "batchAcquiring" /\ c \in Conns \ lent
    BY <1>4 DEF BatchSubmit
  <2>2. slot[c] = Empty
    BY <2>1, FreeConn
  <2>3. /\ wants' = [wants EXCEPT ![t] = NewWrites(t, "batch")]
        /\ UNCHANGED <<cause, raised, stored>>
        /\ at' = [at EXCEPT ![t] = "batch"]
    BY <1>4, <2>2 DEF BatchSubmit, Busy, Goto, serverVars
  <2>4. \A s \in Tasks : at'[s] = "ended" <=> at[s] = "ended"
    BY <2>1, <2>3 DEF TypeOK
  <2>5. \A s \in Tasks : OutcomeOf(s)' = OutcomeOf(s)
    BY <2>3, <2>4, OutcomesKept
  <2> QED
    BY <2>1, <2>3, <2>5, WorkMaps
<1>5. ASSUME NEW k \in program.kinds, Execute(t, k, TRUE) PROVE PromisedStep(t)
  <2>1. at[t] = "body" /\ t \notin waits
    BY <1>5 DEF Execute, InBody
  <2>2. slot[exec[t]] = Empty
    BY <2>1, BodyHolds, BodyQuiet
  <2>3. /\ wants' = [wants EXCEPT ![t] = @ \cup NewWrites(t, k)]
        /\ UNCHANGED <<at, cause, raised, stored>>
    BY <1>5, <2>2 DEF Execute, Busy, serverVars
  <2>4. \A s \in Tasks : OutcomeOf(s)' = OutcomeOf(s)
    BY <2>3, OutcomesKept
  <2> QED
    BY <2>1, <2>3, <2>4, WorkMaps
<1>6. CASE EndSubmit(t)
  <2>1. at[t] \in Ending /\ active[UnitOf(t)] /\ t \notin waits
    BY <1>6 DEF EndSubmit
  <2>2. slot[leased[UnitOf(t)]] = Empty
    BY <2>1, UnitHolds, BodyQuiet
  <2>3. UNCHANGED <<wants, at, cause, raised, stored>>
    BY <1>6, <2>2 DEF EndSubmit, Busy, serverVars
  <2> QED
    BY <2>3, OutcomesKept DEF PromisedStutter
<1>7. CASE EndInactive(t)
  <2>1. at[t] \in {"rollback", "close"} /\ FateInv(t) /\ wants' = wants /\ stored' = stored
    BY <1>7 DEF EndInactive, OrderlyInv, FateInv, Ending, serverVars
  <2>2. PICK e \in Exceptions : After(t, e)
    BY <1>7, <2>1, ThrownTyped DEF EndInactive
  <2>3. /\ at[t] = "rollback" => at'[t] = "close"
        /\ at[t] = "close" => at'[t] = "ended" /\ cause'[t] = cause[t] /\ raised'[t] = raised[t]
        /\ \A s \in Tasks \ {t} : /\ at'[s] = at[s]
                                  /\ cause'[s] = cause[s] /\ raised'[s] = raised[s]
    BY <2>1, <2>2, AfterTyped, ThrownTyped DEF Ending
  <2>4. CASE at[t] = "rollback"
    <3>1. \A s \in Tasks : at'[s] = "ended" <=> at[s] = "ended"
      BY <2>3, <2>4
    <3>2. \A s \in Tasks : at[s] = "ended" => raised'[s] = raised[s] /\ cause'[s] = cause[s]
      BY <2>3, <2>4
    <3> QED
      BY <2>1, <3>1, <3>2, OutcomesKept DEF PromisedStutter
  <2>5. CASE at[t] = "close"
    <3>1. \A s \in Tasks \ {t} : OutcomeOf(s)' = OutcomeOf(s)
      BY <2>3 DEF OutcomeOf
    <3>2. OutcomeOf(t) = "open"
      BY <2>5 DEF OutcomeOf
    <3>3. \/ raised'[t] = None /\ wants[t] \subseteq stored
          \/ raised'[t] # None /\ cause'[t].from = "commit"
          \/ raised'[t] # None /\ cause'[t].from = "body" /\ wants[t] \cap stored = {}
      BY <2>1, <2>3, <2>5 DEF FateInv, Fresh, TypeOK
    <3>4. \/ OutcomeOf(t)' = "returned" /\ wants[t] \subseteq stored
          \/ OutcomeOf(t)' = "threw" /\ wants[t] \cap stored = {}
          \/ OutcomeOf(t)' = "inDoubt"
      BY <2>3, <2>5, <3>3 DEF OutcomeOf
    <3> QED
      BY <2>1, <3>1, <3>2, <3>4 DEF PromisedStep
  <2> QED
    BY <2>1, <2>4, <2>5
<1>8. CASE BatchEnd(t)
  <2>1. /\ at[t] = "batch" /\ t \notin waits /\ FateInv(t)
        /\ at' = [at EXCEPT ![t] = "ended"] /\ raised' = [raised EXCEPT ![t] = cause[t]]
        /\ UNCHANGED <<wants, cause, stored>>
    BY <1>8 DEF BatchEnd, Goto, Raise, serverVars, OrderlyInv
  <2>2. cause[t] = None => wants[t] \subseteq stored
    <3>1. exec[t] \in Conns
      BY <2>1 DEF HoldInv, TypeOK
    <3>2. BatchInv(t, exec[t])
      BY <2>1, <3>1 DEF OrderlyInv, Batches
    <3> QED
      BY <2>1, <3>2 DEF BatchInv
  <2>3. cause[t] # None => cause[t].from = "batch"
    BY <2>1 DEF FateInv
  <2>4. /\ at'[t] = "ended" /\ raised'[t] = cause[t] /\ cause'[t] = cause[t]
        /\ \A s \in Tasks \ {t} : /\ at'[s] = at[s]
                                  /\ cause'[s] = cause[s] /\ raised'[s] = raised[s]
    BY <2>1 DEF TypeOK
  <2>5. \A s \in Tasks \ {t} : OutcomeOf(s)' = OutcomeOf(s)
    BY <2>4 DEF OutcomeOf
  <2>6. OutcomeOf(t) = "open"
    BY <2>1 DEF OutcomeOf
  <2>7. \/ OutcomeOf(t)' = "returned" /\ wants[t] \subseteq stored
        \/ OutcomeOf(t)' = "inDoubt"
    BY <2>2, <2>3, <2>4 DEF OutcomeOf
  <2> QED
    BY <2>1, <2>5, <2>6, <2>7 DEF PromisedStep
<1> QED
  BY <1>1, <1>2, <1>3, <1>4, <1>5, <1>6, <1>7, <1>8 DEF TaskStep

LEMMA ServerMaps ==
    ASSUME TypeOK, HoldInv, Orderly, OrderlyInv, NEW c \in Conns, ServerStep(c)
    PROVE  PromisedStutter \/ \E t \in Tasks : PromisedStep(t)
<1>1. /\ slot[c] # Empty /\ reply[c] = "none"
      /\ UNCHANGED <<at, wants, cause, raised>>
  BY DEF ServerStep, taskVars
<1>2. \A s \in Tasks : OutcomeOf(s)' = OutcomeOf(s)
  BY <1>1, OutcomesKept
<1>3. CASE stored' = stored
  BY <1>1, <1>2, <1>3 DEF PromisedStutter
<1>4. CASE stored' # stored
  <2>1. PICK t \in Tasks : \/ Runs(t, c) /\ RunInv(t, c)
                           \/ Batches(t, c) /\ BatchInv(t, c)
    BY <1>1, SlotHolder
  <2>2. c \notin dead
    BY <1>4 DEF ServerStep
  <2>3. /\ Batches(t, c) /\ BatchInv(t, c) => CommitEffect(t, c) /\ reply'[c] = "ok"
        /\ Runs(t, c) /\ RunInv(t, c) /\ at[t] = "commit" => CommitEffect(t, c)
        /\ Runs(t, c) /\ RunInv(t, c) /\ at[t] = "body" => BodyEffect(t, c)
        /\ Runs(t, c) /\ RunInv(t, c) /\ at[t] = "rollback" => RollbackEffect(t, c)
    BY <2>1, <2>2, ServerEffect
  <2>4. \/ Batches(t, c) /\ BatchInv(t, c)
        \/ Runs(t, c) /\ at[t] = "commit"
    <3>1. Runs(t, c) /\ RunInv(t, c) => at[t] \in {"body", "commit", "rollback"}
      BY <1>1 DEF RunInv, AskedShape
    <3> QED
      BY <1>4, <2>1, <2>3, <3>1 DEF BodyEffect, RollbackEffect
  <2>5. stored' = stored \cup wants[t]
    BY <1>4, <2>1, <2>3, <2>4 DEF CommitEffect
  <2>6. Fresh(t) /\ at[t] # "ended"
    <3>1. CASE Batches(t, c) /\ BatchInv(t, c)
      BY <1>1, <3>1 DEF BatchInv, Batches
    <3>2. CASE Runs(t, c) /\ at[t] = "commit"
      BY <1>1, <3>2 DEF OrderlyInv, FateInv, Runs
    <3> QED
      BY <2>4, <3>1, <3>2
  <2>7. wants[t] \cap stored = {} /\ OutcomeOf(t) = "open"
    BY <2>6 DEF Fresh, TypeOK, OutcomeOf
  <2> QED
    BY <1>1, <1>2, <2>5, <2>7 DEF PromisedStep
<1> QED
  BY <1>3, <1>4

LEMMA ReceiveMaps ==
    ASSUME TypeOK, TypeOK', HoldInv, Orderly, OrderlyInv, NEW c \in Conns, Receive(c)
    PROVE  PromisedStutter \/ \E t \in Tasks : PromisedStep(t)
<1>1. /\ slot[c] # Empty /\ reply[c] \in {"ok", "error", "lost"} /\ stored' = stored
  BY DEF Receive, Done, serverVars
<1>2. PICK t \in Tasks : /\ \/ Runs(t, c) /\ RunInv(t, c)
                            \/ Batches(t, c) /\ BatchInv(t, c)
                         /\ t = slot[c].by /\ slot[c].awaited /\ t \in waits
  BY <1>1, SlotHolder
<1> DEFINE e == Outcome(at[t], c)
           W == IF reply[c] # "error" THEN wants[t]
                ELSE wants[t] \ (slot[c].msg.writes \cup slot[c].rest.writes)
<1>3. /\ wants' = [wants EXCEPT ![t] = W]
      /\ \/ at[t] = "body" /\ BodyGets(t, e)
         \/ at[t] \in Ending /\ After(t, e)
         \/ at[t] = "batch" /\ UNCHANGED <<at, raised>>
            /\ \A s \in Tasks \ {t} : cause'[s] = cause[s]
  BY <1>2 DEF Receive, TypeOK
<1>4. at[t] \in {"body", "commit", "rollback", "batch"}
  BY <1>1, <1>2 DEF RunInv, AskedShape, Batches
<1>5. e \in Exceptions \cup {None}
  BY <1>1, <1>4, OutcomeTyped
<1> HIDE DEF e
<1>6. /\ at'[t] # "ended"
      /\ \A s \in Tasks \ {t} : /\ at'[s] = at[s]
                                /\ cause'[s] = cause[s] /\ raised'[s] = raised[s]
  <2>1. CASE at[t] = "body"
    <3>1. BodyGets(t, e)
      BY <1>3, <2>1 DEF Ending
    <3>2. \/ UNCHANGED <<at, cause, raised>>
          \/ /\ at' = [at EXCEPT ![t] = "rollback"]
             /\ cause' = [cause EXCEPT ![t] = e]
             /\ raised' = [raised EXCEPT ![t] = e]
      BY <1>5, <2>1, <3>1, BodyGetsTyped
    <3> QED
      BY <2>1, <3>2 DEF TypeOK
  <2>2. CASE at[t] \in {"commit", "rollback"}
    <3>1. After(t, e) /\ at[t] \in Ending
      BY <1>3, <2>2 DEF Ending
    <3> QED
      BY <1>5, <2>2, <3>1, AfterTyped
  <2>3. CASE at[t] = "batch"
    BY <1>3, <2>3 DEF Ending
  <2> QED
    BY <1>4, <2>1, <2>2, <2>3
<1>7. \A s \in Tasks : OutcomeOf(s)' = OutcomeOf(s)
  <2>1. at[t] # "ended"
    BY <1>4
  <2> QED
    BY <1>6, <2>1 DEF OutcomeOf
<1>8. CASE at[t] = "body"
  BY <1>1, <1>3, <1>7, <1>8, WorkMaps
<1>9. CASE at[t] # "body"
  <2>1. W = wants[t]
    <3>1. CASE Runs(t, c) /\ RunInv(t, c)
      <4>1. slot[c].msg.writes = {} /\ slot[c].rest.writes = {}
        BY <1>1, <1>9, <3>1 DEF RunInv, AskedShape, Nothing
      <4> QED
        BY <4>1
    <3>2. CASE Batches(t, c) /\ BatchInv(t, c)
      BY <1>1, <3>2 DEF BatchInv
    <3> QED
      BY <1>2, <3>1, <3>2
  <2> HIDE DEF W
  <2>2. wants' = wants
    BY <1>3, <2>1 DEF TypeOK
  <2> QED
    BY <1>1, <1>7, <2>2 DEF PromisedStutter
<1> QED
  BY <1>8, <1>9

(* In an orderly program every step of withTransaction is a step of the     *)
(* abstract transactions: writes become durable all at once or not at all,  *)
(* a task that returns has them durable, one whose body threw has none.     *)
THEOREM TxImplementsTransactions == Spec => ImplementsTransactions
<1>1. Init => Promise!Init
  <2> SUFFICES ASSUME Init PROVE Promise!Init
    OBVIOUS
  <2>1. /\ \A t \in Tasks : at[t] = "idle" /\ wants[t] = {}
        /\ stored = {}
    BY DEF Init
  <2> QED
    BY <2>1 DEF Promise!Init
<1>2. IInv /\ IInv' /\ [Next]_vars => [Promise!Next]_(Promise!vars)
  <2> SUFFICES ASSUME IInv, IInv', [Next]_vars PROVE [Promise!Next]_(Promise!vars)
    OBVIOUS
  <2>1. UNCHANGED program /\ (Orderly' <=> Orderly)
    <3>1. UNCHANGED program
      BY DEF Next, TaskStep, Answer, Finished, vars
    <3> QED
      BY <3>1 DEF Orderly, OwnUnits, UnitOf
  <2>2. TypeOK /\ TypeOK' /\ HoldInv
    BY DEF IInv
  <2>3. CASE ~Orderly
    BY <2>1, <2>3 DEF Promise!vars
  <2>4. CASE Orderly
    <3>1. OrderlyInv
      BY <2>4 DEF IInv
    <3>2. PromisedStutter \/ \E t \in Tasks : PromisedStep(t)
      <4>1. ASSUME NEW t \in Tasks, TaskStep(t) PROVE PromisedStutter \/ PromisedStep(t)
        BY <2>2, <2>4, <3>1, <4>1, TaskMaps
      <4>2. ASSUME NEW c \in Conns, ServerStep(c) \/ Receive(c)
            PROVE  PromisedStutter \/ \E t \in Tasks : PromisedStep(t)
        BY <2>2, <2>4, <3>1, <4>2, ServerMaps, ReceiveMaps
      <4>3. ASSUME UNCHANGED <<at, wants, cause, raised, stored>> PROVE PromisedStutter
        BY <4>3, OutcomesKept DEF PromisedStutter
      <4>4. ASSUME NEW c \in Conns, SendRest(c) \/ Lose(c) PROVE PromisedStutter
        BY <4>3, <4>4 DEF SendRest, Lose, taskVars, serverVars
      <4>5. CASE UNCHANGED vars
        BY <4>3, <4>5 DEF vars, taskVars, serverVars
      <4> QED
        BY <4>1, <4>2, <4>4, <4>5 DEF Next, Answer, Finished
    <3>3. ASSUME NEW t \in Tasks, PromisedStep(t) PROVE Promise!Next
      BY <2>1, <2>2, <2>4, <3>3, PromisedStepMaps
    <3>4. CASE PromisedStutter
      BY <2>1, <2>4, <3>4 DEF Promise!vars, PromisedStutter, OutcomeOf
    <3> QED
      BY <3>2, <3>3, <3>4
  <2> QED
    BY <2>3, <2>4
<1> QED
  BY <1>1, <1>2, TxInductive, PTL DEF Spec, ImplementsTransactions, Promise!Spec
===============================================================================
