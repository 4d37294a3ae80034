--------------------------- MODULE MysqlPool_proofs ---------------------------
(***************************************************************************)
(* What the MySQL stack keeps true for every number of connections and     *)
(* tasks, whatever their bodies execute, wherever a statement fails, is    *)
(* killed or loses its connection.                                         *)
(*                                                                         *)
(* First what each action does to the records it changes, as an operator   *)
(* per action (Leases, Submits, ...), which the rest of the proofs reads.  *)
(* Then MailInvs, inductive by itself: a filled slot holds the call its    *)
(* lessee awaits, and the call has the shape the executor gives it.  On    *)
(* top of MailInvs: AnswerIsOwn; CleanInv, an open transaction has a       *)
(* lessee that is still to end it, unless results were left unread; and    *)
(* TxInv, by where a task is, what of its transaction is open, durable or  *)
(* undone.                                                                 *)
(***************************************************************************)
EXTENDS MysqlPool, FiniteSetTheorems, SequenceTheorems, WellFoundedInduction,
        TLAPS

USE DEF Goto, Woken, StopSignal

Kinds == {"none", "single", "batch", "multi"}
Stmts == {"begin", "read", "write", "call", "commit", "rollback"}
Jobs == [id : Ids, owner : Tasks \cup {NoTask}, kind : Kinds, stmts : Seq(Stmts)]
Chains == {s \in Seq([id : Ids, stmt : Nat]) : OneCall(s)}

PoolStates == [phase : {"create", "open", "stop", "join", "freed"}, at : Conns,
               made : 0..MaxSize, undo : BOOLEAN]
ConnStates == [inUse : BOOLEAN, slot : Jobs, last : Chains, error : Ids,
               stop : BOOLEAN]
WorkerStates == {"none", "check", "asleep", "send", "server", "exited"}
SessionStates == [up : BOOLEAN, txn : BOOLEAN, dirty : SUBSET Ids,
                  unread : BOOLEAN, killed : BOOLEAN]
TaskStates ==
    [pc : {"out", "body", "await", "ending", "thrown", "leaving"}, n : Nat,
     conn : Conns \cup {0}, tx : BOOLEAN, begin : BOOLEAN, job : Jobs,
     port : {"none", "ok", "aborted"}, wrote : SUBSET Ids,
     outcome : {"none", "threw", "returned", "commit_failed"}]

TypeInv ==
    /\ pool \in PoolStates
    /\ conn \in [Conns -> ConnStates]
    /\ worker \in [Conns -> WorkerStates]
    /\ session \in [Conns -> SessionStates]
    /\ db \in SUBSET Ids
    /\ task \in [Tasks -> TaskStates]

LoopInv ==
    /\ pool.phase = "create" => pool.made = pool.at - 1
    /\ pool.phase = "open" => pool.made = MaxSize
    /\ pool.phase \in {"stop", "join"} => pool.at <= pool.made

LEMMA ConstantsTyped ==
    /\ NoId \in Ids /\ NoJob \in Jobs
    /\ MaxSize \in Nat \ {0} /\ 1 \in Conns
    /\ <<>> \in Chains
    /\ \A t \in Tasks : MaxJobs[t] \in Nat
    /\ \A t \in Tasks : \A k \in 1..(MaxJobs[t] + 1) : <<t, k>> \in Ids
<1>1. <<>> \in Chains
  BY EmptySeq DEF Chains, OneCall
<1>2. NoId \in Ids /\ NoJob \in Jobs
  BY EmptySeq DEF NoId, Ids, NoJob, Jobs, Kinds
<1>3. /\ \A t \in Tasks : MaxJobs[t] \in Nat
      /\ \A t \in Tasks : \A k \in 1..(MaxJobs[t] + 1) : <<t, k>> \in Ids
  BY MaxJobsIsNat DEF Ids
<1> QED
  BY <1>1, <1>2, <1>3, MaxSizeIsPositive DEF Conns

LEMMA Records ==
    ASSUME TypeInv
    PROVE  /\ \A t \in Tasks : task[t] \in TaskStates
           /\ \A c \in Conns : conn[c] \in ConnStates
           /\ \A c \in Conns : session[c] \in SessionStates
           /\ pool \in PoolStates
BY DEF TypeInv

LEMMA Fresh ==
    /\ FreshConn \in ConnStates /\ IdleTask \in TaskStates
    /\ \A up \in BOOLEAN : FreshSession(up) \in SessionStates
BY ConstantsTyped
DEF FreshConn, ConnStates, IdleTask, TaskStates, FreshSession, SessionStates

LEMMA Init1 == Init => TypeInv /\ LoopInv
<1> SUFFICES ASSUME Init PROVE TypeInv /\ LoopInv
  OBVIOUS
<1>1. pool \in PoolStates /\ LoopInv
  BY ConstantsTyped DEF Init, LoopInv, PoolStates, Conns
<1>2. FreshConn \in ConnStates /\ IdleTask \in TaskStates
      /\ FreshSession(FALSE) \in SessionStates
  BY Fresh
<1>3. /\ conn \in [Conns -> ConnStates] /\ task \in [Tasks -> TaskStates]
      /\ session \in [Conns -> SessionStates] /\ worker \in [Conns -> WorkerStates]
      /\ db \in SUBSET Ids
  BY <1>2 DEF Init, WorkerStates
<1> QED
  BY <1>1, <1>3 DEF TypeInv

-------------------------------------------------------------------------------
(* The least element of a set of naturals, which Min chooses.               *)
LEMMA LeastNat ==
    ASSUME NEW S, S \subseteq Nat, S # {}
    PROVE  \E x \in S : \A y \in S : x <= y
<1> DEFINE R == {ss \in Nat \X Nat : ss[1] < ss[2]}
<1>1. IsWellFoundedOn(R, Nat)
  BY NatLessThanWellFounded DEF OpToRel
<1>2. R = {ss \in Nat \X Nat : ss[1] < ss[2]}
  OBVIOUS
<1> HIDE DEF R
<1>3. PICK x \in S : \A y \in S : ~(<<y, x>> \in R)
  BY <1>1, WFMin
<1>4. \A y \in S : ~(y < x)
  BY <1>2, <1>3
<1> QED
  BY <1>4

LEMMA MinLeast ==
    ASSUME NEW S, S \subseteq Nat, S # {}
    PROVE  Min(S) \in S /\ \A y \in S : Min(S) <= y
BY LeastNat DEF Min

LEMMA RestOf ==
    ASSUME NEW S, NEW s \in Seq(S), NEW n \in Nat, n < Len(s),
           NEW q, q = SubSeq(s, n + 1, Len(s))
    PROVE  /\ q \in Seq(S) /\ Len(q) = Len(s) - n
           /\ \A i \in 1..Len(q) : q[i] = s[n + i]
OBVIOUS

(* What a drain leaves of a chain is a chain.                               *)
LEMMA RestTyped ==
    ASSUME NEW last \in Chains, NEW n \in Nat
    PROVE  Rest(last, n) \in Chains
<1>1. last \in Seq([id : Ids, stmt : Nat]) /\ Len(last) \in Nat /\ OneCall(last)
  BY DEF Chains
<1>2. PICK q : q = Rest(last, n)
  OBVIOUS
<1>3. CASE n >= Len(last)
  <2>1. q = <<>>
    BY <1>1, <1>2, <1>3 DEF Rest
  <2> QED
    BY <1>2, <2>1, ConstantsTyped
<1>4. CASE n < Len(last)
  <2>1. /\ q \in Seq([id : Ids, stmt : Nat]) /\ Len(q) = Len(last) - n
        /\ \A i \in 1..Len(q) : q[i] = last[n + i]
    <3>1. PICK S : S = [id : Ids, stmt : Nat]
      OBVIOUS
    <3>2. last \in Seq(S) /\ q = SubSeq(last, n + 1, Len(last))
      BY <1>1, <1>2, <3>1 DEF Rest
    <3>3. /\ q \in Seq(S) /\ Len(q) = Len(last) - n
          /\ \A i \in 1..Len(q) : q[i] = last[n + i]
      BY <1>4, <3>2, RestOf
    <3> QED
      BY <3>1, <3>3
  <2>2. \A i \in 1..Len(q) : n + i \in 1..Len(last)
    BY <1>1, <1>4, <2>1
  <2>3. DOMAIN q = 1..Len(q) /\ DOMAIN last = 1..Len(last) /\ Len(q) \in Nat
    BY <1>1, <2>1, LenProperties
  <2>4. \A i \in 1..Len(last) : last[i].id = last[1].id
    BY <1>1, <2>3 DEF OneCall
  <2>5. ASSUME NEW i \in 1..Len(q) PROVE q[i].id = last[1].id
    BY <2>1, <2>2, <2>4
  <2>6. ASSUME NEW i \in DOMAIN q PROVE q[i].id = q[1].id
    <3>1. i \in 1..Len(q) /\ 1 \in 1..Len(q)
      BY <2>3
    <3> QED
      BY <2>5, <3>1
  <2> QED
    BY <1>2, <2>1, <2>6 DEF Chains, OneCall
<1> QED
  BY <1>1, <1>3, <1>4

(* The length of a drain: a call has at least one statement.                *)
LEMMA PollsTyped ==
    ASSUME NEW job \in Jobs
    PROVE  Polls(job) \in Nat
BY DEF Polls, Jobs

-------------------------------------------------------------------------------
(* What each action does to the records it changes, each spelled out as a   *)
(* whole record.                                                            *)
ConnRec(inUse, slot, last, error, stop) ==
    [inUse |-> inUse, slot |-> slot, last |-> last, error |-> error, stop |-> stop]
SessRec(up, txn, dirty, unread, killed) ==
    [up |-> up, txn |-> txn, dirty |-> dirty, unread |-> unread, killed |-> killed]
TaskRec(pc, n, c, tx, begin, job, port, wrote, outcome) ==
    [pc |-> pc, n |-> n, conn |-> c, tx |-> tx, begin |-> begin, job |-> job,
     port |-> port, wrote |-> wrote, outcome |-> outcome]

ConnBecomes(c, w) ==
    /\ conn' \in [Conns -> ConnStates]
    /\ conn'[c] = w /\ \A d \in Conns \ {c} : conn'[d] = conn[d]
SessBecomes(c, w) ==
    /\ session' \in [Conns -> SessionStates]
    /\ session'[c] = w /\ \A d \in Conns \ {c} : session'[d] = session[d]
TaskBecomes(t, v) ==
    /\ task' \in [Tasks -> TaskStates]
    /\ task'[t] = v /\ \A u \in Tasks \ {t} : task'[u] = task[u]

LEMMA ConnUpdate ==
    ASSUME TypeInv, NEW c \in Conns, NEW w \in ConnStates,
           conn' = [conn EXCEPT ![c] = w]
    PROVE  ConnBecomes(c, w)
BY DEF TypeInv, ConnBecomes

LEMMA SessUpdate ==
    ASSUME TypeInv, NEW c \in Conns, NEW w \in SessionStates,
           session' = [session EXCEPT ![c] = w]
    PROVE  SessBecomes(c, w)
BY DEF TypeInv, SessBecomes

LEMMA TaskUpdate ==
    ASSUME TypeInv, NEW t \in Tasks, NEW v \in TaskStates,
           task' = [task EXCEPT ![t] = v]
    PROVE  TaskBecomes(t, v)
BY DEF TypeInv, TaskBecomes

LEMMA ConnLent ==
    ASSUME NEW r \in ConnStates, NEW x \in BOOLEAN, NEW q,
           q = [r EXCEPT !.inUse = x]
    PROVE  q = ConnRec(x, r.slot, r.last, r.error, r.stop) /\ q \in ConnStates
BY DEF ConnStates, ConnRec

LEMMA ConnFilled ==
    ASSUME NEW r \in ConnStates, NEW j \in Jobs, NEW q,
           q = [r EXCEPT !.slot = j]
    PROVE  q = ConnRec(r.inUse, j, r.last, r.error, r.stop) /\ q \in ConnStates
BY DEF ConnStates, ConnRec

LEMMA ConnDrained ==
    ASSUME NEW r \in ConnStates, NEW l \in Chains, NEW q,
           q = [r EXCEPT !.last = l]
    PROVE  q = ConnRec(r.inUse, r.slot, l, r.error, r.stop) /\ q \in ConnStates
BY DEF ConnStates, ConnRec

LEMMA ConnErred ==
    ASSUME NEW r \in ConnStates, NEW e \in Ids, NEW q,
           q = [r EXCEPT !.error = e]
    PROVE  q = ConnRec(r.inUse, r.slot, r.last, e, r.stop) /\ q \in ConnStates
BY DEF ConnStates, ConnRec

LEMMA ConnStopped ==
    ASSUME NEW r \in ConnStates, NEW q, q = [r EXCEPT !.stop = TRUE]
    PROVE  q = ConnRec(r.inUse, r.slot, r.last, r.error, TRUE) /\ q \in ConnStates
BY DEF ConnStates, ConnRec

LEMMA ConnReset ==
    ASSUME NEW q, q = [FreshConn EXCEPT !.stop = TRUE]
    PROVE  q = ConnRec(FALSE, NoJob, <<>>, NoId, TRUE) /\ q \in ConnStates
BY ConstantsTyped DEF FreshConn, ConnStates, ConnRec

LEMMA SessKilled ==
    ASSUME NEW r \in SessionStates, NEW x \in BOOLEAN, NEW q,
           q = [r EXCEPT !.killed = x]
    PROVE  q = SessRec(r.up, r.txn, r.dirty, r.unread, x) /\ q \in SessionStates
BY DEF SessionStates, SessRec

LEMMA SessFresh ==
    ASSUME NEW up \in BOOLEAN
    PROVE  /\ FreshSession(up) = SessRec(up, FALSE, {}, FALSE, FALSE)
           /\ FreshSession(up) \in SessionStates
BY DEF FreshSession, SessionStates, SessRec

LEMMA TaskLeased ==
    ASSUME NEW n \in Nat, NEW c \in Conns, NEW tx \in BOOLEAN, NEW q,
           q = [IdleTask EXCEPT !.pc = "body", !.n = n, !.conn = c, !.tx = tx,
                                !.begin = tx]
    PROVE  q = TaskRec("body", n, c, tx, tx, NoJob, "none", {}, "none")
           /\ q \in TaskStates
BY ConstantsTyped DEF IdleTask, TaskStates, TaskRec

LEMMA TaskReset ==
    ASSUME NEW n \in Nat, NEW q, q = [IdleTask EXCEPT !.n = n]
    PROVE  q = TaskRec("out", n, 0, FALSE, FALSE, NoJob, "none", {}, "none")
           /\ q \in TaskStates
BY ConstantsTyped DEF IdleTask, TaskStates, TaskRec

LEMMA TaskAnswered ==
    ASSUME NEW r \in TaskStates, NEW x \in {"ok", "aborted"}, NEW q,
           q = [r EXCEPT !.port = x]
    PROVE  q = TaskRec(r.pc, r.n, r.conn, r.tx, r.begin, r.job, x, r.wrote, r.outcome)
           /\ q \in TaskStates
BY DEF TaskStates, TaskRec

-------------------------------------------------------------------------------
(* The actions, each as what it does to its records. *)

LeasesAt(t, tx, c) ==
    /\ ~conn[c].inUse
    /\ ConnBecomes(c, ConnRec(TRUE, conn[c].slot, conn[c].last, conn[c].error,
                              conn[c].stop))
    /\ TaskBecomes(t, TaskRec("body", task[t].n, c, tx, tx, NoJob, "none", {}, "none"))
Leases(t) ==
    /\ pool.phase = "open" /\ task[t].pc = "out" /\ task[t].n < MaxJobs[t]
    /\ UNCHANGED <<pool, worker, session, db>>
    /\ \E c \in Conns, tx \in BOOLEAN : LeasesAt(t, tx, c)

LEMMA LeaseEffect ==
    ASSUME TypeInv, NEW t \in Tasks, NEW tx \in BOOLEAN, Lease(t, tx)
    PROVE  Leases(t)
<1>1. PICK c \in Conns :
         /\ ~conn[c].inUse
         /\ conn' = [conn EXCEPT ![c].inUse = TRUE]
         /\ task' = [task EXCEPT ![t] = [IdleTask EXCEPT
                        !.pc = "body", !.n = task[t].n, !.conn = c,
                        !.tx = tx, !.begin = tx]]
  BY DEF Lease
<1>2. task[t] \in TaskStates /\ conn[c] \in ConnStates /\ task[t].n \in Nat
  BY Records DEF TaskStates
<1>3. PICK w : w = [conn[c] EXCEPT !.inUse = TRUE]
  OBVIOUS
<1>4. PICK v : v = [IdleTask EXCEPT !.pc = "body", !.n = task[t].n, !.conn = c,
                                    !.tx = tx, !.begin = tx]
  OBVIOUS
<1>5. conn' = [conn EXCEPT ![c] = w] /\ task' = [task EXCEPT ![t] = v]
  BY <1>1, <1>3, <1>4
<1>6. /\ w = ConnRec(TRUE, conn[c].slot, conn[c].last, conn[c].error, conn[c].stop)
      /\ w \in ConnStates
  BY <1>2, <1>3, ConnLent
<1>7. /\ v = TaskRec("body", task[t].n, c, tx, tx, NoJob, "none", {}, "none")
      /\ v \in TaskStates
  BY <1>2, <1>4, TaskLeased
<1>8. ConnBecomes(c, w) /\ TaskBecomes(t, v)
  BY <1>5, <1>6, <1>7, ConnUpdate, TaskUpdate
<1> QED
  BY <1>1, <1>6, <1>7, <1>8 DEF Lease, Leases, LeasesAt

(* A call its task gives a number, with its writes.                         *)
Id(t) == <<t, task[t].n + 1>>
Wrote(t, stmts) == IF "write" \in ToSet(stmts)
                   THEN task[t].wrote \cup {Id(t)} ELSE task[t].wrote

SubmitsJob(t, j, then) ==
    LET c == task[t].conn
    IN  /\ j.id = Id(t) /\ j.owner = t
        /\ ConnBecomes(c, ConnRec(conn[c].inUse, j, conn[c].last, conn[c].error,
                                  conn[c].stop))
        /\ TaskBecomes(t, TaskRec(then, task[t].n + 1, c, task[t].tx, FALSE, j,
                                  task[t].port, Wrote(t, j.stmts), task[t].outcome))
Submits(t, kind, stmts, then) ==
    LET c == task[t].conn
    IN  /\ pool.phase = "open" /\ conn[c].slot = NoJob
        /\ worker' = [worker EXCEPT ![c] = Woken(c)]
        /\ UNCHANGED <<pool, session, db>>
        /\ \E j \in Jobs : /\ j.kind = kind /\ j.stmts = stmts
                           /\ SubmitsJob(t, j, then)

LEMMA SubmitEffect ==
    ASSUME TypeInv, NEW t \in Tasks, task[t].conn \in Conns,
           task[t].n <= MaxJobs[t],
           NEW kind \in Kinds, NEW stmts \in Seq(Stmts),
           NEW then \in {"await", "ending"}, Submit(t, kind, stmts, then)
    PROVE  Submits(t, kind, stmts, then)
<1> DEFINE c == task[t].conn
           n == task[t].n + 1
<1>1. task[t] \in TaskStates /\ conn[c] \in ConnStates /\ n \in Nat
  BY Records DEF TaskStates
<1>2. Id(t) = <<t, n>> /\ Id(t) \in Ids
  BY <1>1, ConstantsTyped DEF Id, TaskStates
<1>3. PICK j : j = [id |-> <<t, n>>, owner |-> t, kind |-> kind, stmts |-> stmts]
  OBVIOUS
<1>4. /\ j \in Jobs /\ j.id = Id(t) /\ j.owner = t /\ j.kind = kind
      /\ j.stmts = stmts
  BY <1>2, <1>3 DEF Jobs
<1>5. PICK wrote : wrote = Wrote(t, stmts)
  OBVIOUS
<1>6. wrote \in SUBSET Ids
  BY <1>1, <1>2, <1>5 DEF Wrote, TaskStates
<1>7. PICK w : w = [conn[c] EXCEPT !.slot = j]
  OBVIOUS
<1>8. PICK v : v = [task[t] EXCEPT !.pc = then, !.n = n, !.job = j,
                                   !.begin = FALSE, !.wrote = wrote]
  OBVIOUS
<1>9. conn' = [conn EXCEPT ![c] = w]
  BY <1>3, <1>7 DEF Submit
<1>10. task' = [task EXCEPT ![t] = v]
  <2>1. wrote = IF "write" \in ToSet(stmts)
                THEN task[t].wrote \cup {j.id} ELSE task[t].wrote
    BY <1>4, <1>5 DEF Wrote
  <2>2. task' = [task EXCEPT ![t] = [task[t] EXCEPT
               !.pc = then, !.n = task[t].n + 1, !.job = j, !.begin = FALSE,
               !.wrote = IF "write" \in ToSet(stmts)
                         THEN task[t].wrote \cup {j.id} ELSE task[t].wrote]]
    BY <1>3 DEF Submit
  <2> QED
    BY <1>8, <2>1, <2>2
<1> HIDE DEF n
<1>11. /\ w = ConnRec(conn[c].inUse, j, conn[c].last, conn[c].error, conn[c].stop)
       /\ w \in ConnStates
  BY <1>1, <1>4, <1>7, ConnFilled
<1>12. /\ v = TaskRec(then, n, c, task[t].tx, FALSE, j, task[t].port, wrote,
                      task[t].outcome)
       /\ v \in TaskStates
  <2>1. PICK r \in TaskStates : r = task[t]
    BY <1>1
  <2>2. v = [r EXCEPT !.pc = then, !.n = n, !.job = j, !.begin = FALSE,
                      !.wrote = wrote]
    BY <1>8, <2>1
  <2>3. /\ v = TaskRec(then, n, r.conn, r.tx, FALSE, j, r.port, wrote, r.outcome)
        /\ v \in TaskStates
    BY <1>1, <1>4, <1>6, <2>2 DEF TaskStates, TaskRec
  <2> QED
    BY <2>1, <2>3
<1>13. ConnBecomes(c, w) /\ TaskBecomes(t, v)
  BY <1>9, <1>10, <1>11, <1>12, ConnUpdate, TaskUpdate
<1>14. SubmitsJob(t, j, then)
  BY <1>4, <1>5, <1>11, <1>12, <1>13 DEF SubmitsJob, n
<1> QED
  BY <1>4, <1>14 DEF Submit, Submits, Accepts

(* What a task becomes when the answer is in.                               *)
After(pc, fine) == IF pc = "ending" THEN "leaving" ELSE IF fine THEN "body" ELSE "thrown"
Verdict(pc, outcome, fine) ==
    IF outcome # "none" \/ (fine /\ pc # "ending") THEN outcome
    ELSE IF pc # "ending" THEN "threw"
    ELSE IF fine THEN "returned" ELSE "commit_failed"
ReceivesAs(t, fine) ==
    LET c == task[t].conn
        last == conn[c].last
    IN  /\ fine = (task[t].port = "ok")
        /\ ConnBecomes(c, ConnRec(conn[c].inUse, conn[c].slot,
               IF fine THEN Rest(last, Polls(task[t].job)) ELSE last,
               conn[c].error, conn[c].stop))
        /\ TaskBecomes(t, TaskRec(After(task[t].pc, fine), task[t].n, c, task[t].tx,
               task[t].begin, NoJob, "none", task[t].wrote,
               Verdict(task[t].pc, task[t].outcome, fine)))
Receives(t) ==
    /\ pool.phase = "open"
    /\ task[t].pc \in {"await", "ending"} /\ task[t].port # "none"
    /\ UNCHANGED <<pool, worker, session, db>>
    /\ \E fine \in BOOLEAN : ReceivesAs(t, fine)

LEMMA ReceiveEffect ==
    ASSUME TypeInv, NEW t \in Tasks, task[t].conn \in Conns, Receive(t)
    PROVE  Receives(t)
<1> DEFINE c == task[t].conn
           last == conn[c].last
<1>1. /\ task[t] \in TaskStates /\ conn[c] \in ConnStates /\ last \in Chains
      /\ task[t].job \in Jobs
  BY Records DEF ConnStates, TaskStates
<1>2. PICK fine \in BOOLEAN : fine = (task[t].port = "ok")
  OBVIOUS
<1>3. PICK l : l = IF fine THEN Rest(last, Polls(task[t].job)) ELSE last
  OBVIOUS
<1>4. l \in Chains
  BY <1>1, <1>3, PollsTyped, RestTyped
<1>5. PICK pc : pc = After(task[t].pc, fine)
  OBVIOUS
<1>6. PICK o : o = Verdict(task[t].pc, task[t].outcome, fine)
  OBVIOUS
<1>7. /\ pc \in {"body", "thrown", "leaving"}
      /\ o \in {"none", "threw", "returned", "commit_failed"}
  BY <1>1, <1>5, <1>6 DEF After, Verdict, TaskStates
<1>8. PICK w : w = [conn[c] EXCEPT !.last = l]
  OBVIOUS
<1>9. PICK v : v = [task[t] EXCEPT !.pc = pc, !.outcome = o, !.job = NoJob,
                                   !.port = "none"]
  OBVIOUS
<1>10. /\ w = ConnRec(conn[c].inUse, conn[c].slot, l, conn[c].error, conn[c].stop)
       /\ w \in ConnStates
  BY <1>1, <1>4, <1>8, ConnDrained
<1>11. /\ v = TaskRec(pc, task[t].n, c, task[t].tx, task[t].begin, NoJob, "none",
                      task[t].wrote, o)
       /\ v \in TaskStates
  <2>1. PICK r \in TaskStates : r = task[t]
    BY <1>1
  <2>2. v = [r EXCEPT !.pc = pc, !.outcome = o, !.job = NoJob, !.port = "none"]
    BY <1>9, <2>1
  <2>3. /\ v = TaskRec(pc, r.n, r.conn, r.tx, r.begin, NoJob, "none", r.wrote, o)
        /\ v \in TaskStates
    BY <1>7, <2>2, ConstantsTyped DEF TaskStates, TaskRec
  <2> QED
    BY <2>1, <2>3
<1>12. conn' = [conn EXCEPT ![c] = w]
  <2>1. CASE fine
    BY <1>2, <1>3, <1>8, <2>1 DEF Receive, TypeInv
  <2>2. CASE ~fine
    <3>1. w = conn[c]
      BY <1>3, <1>8, <2>2, <1>1 DEF ConnStates
    <3> QED
      BY <1>2, <2>2, <3>1 DEF Receive, TypeInv
  <2> QED
    BY <2>1, <2>2
<1>13. task' = [task EXCEPT ![t] = v]
  <2>1. pc = IF task[t].pc = "ending" THEN "leaving"
             ELSE IF task[t].port = "ok" THEN "body" ELSE "thrown"
    BY <1>2, <1>5 DEF After
  <2>2. o = IF task[t].outcome # "none" \/ (task[t].port = "ok" /\ ~(task[t].pc = "ending"))
            THEN task[t].outcome
            ELSE IF ~(task[t].pc = "ending") THEN "threw"
            ELSE IF task[t].port = "ok" THEN "returned" ELSE "commit_failed"
    BY <1>2, <1>6 DEF Verdict
  <2> QED
    BY <1>9, <2>1, <2>2 DEF Receive
<1>14. ConnBecomes(c, w) /\ TaskBecomes(t, v)
  BY <1>10, <1>11, <1>12, <1>13, ConnUpdate, TaskUpdate
<1>15. ReceivesAs(t, fine)
  BY <1>2, <1>3, <1>5, <1>6, <1>10, <1>11, <1>14 DEF ReceivesAs
<1> QED
  BY <1>15 DEF Receive, Resumes, Receives

Releases(t) ==
    LET c == task[t].conn
    IN  /\ pool.phase = "open"
        /\ \/ task[t].pc = "leaving"
           \/ ~task[t].tx /\ task[t].pc \in {"body", "thrown"}
        /\ UNCHANGED <<pool, worker, session>>
        /\ db' = db \ task[t].wrote
        /\ ConnBecomes(c, ConnRec(FALSE, conn[c].slot, conn[c].last,
                                  conn[c].error, conn[c].stop))
        /\ TaskBecomes(t, TaskRec("out", task[t].n, 0, FALSE, FALSE, NoJob,
                                  "none", {}, "none"))

LEMMA ReleaseEffect ==
    ASSUME TypeInv, NEW t \in Tasks, task[t].conn \in Conns, Release(t)
    PROVE  Releases(t)
<1> DEFINE c == task[t].conn
<1>1. task[t] \in TaskStates /\ conn[c] \in ConnStates /\ task[t].n \in Nat
  BY Records DEF TaskStates
<1>2. PICK w : w = [conn[c] EXCEPT !.inUse = FALSE]
  OBVIOUS
<1>3. PICK v : v = [IdleTask EXCEPT !.n = task[t].n]
  OBVIOUS
<1>4. conn' = [conn EXCEPT ![c] = w] /\ task' = [task EXCEPT ![t] = v]
  BY <1>2, <1>3 DEF Release
<1>5. /\ w = ConnRec(FALSE, conn[c].slot, conn[c].last, conn[c].error, conn[c].stop)
      /\ w \in ConnStates
  BY <1>1, <1>2, ConnLent
<1>6. /\ v = TaskRec("out", task[t].n, 0, FALSE, FALSE, NoJob, "none", {}, "none")
      /\ v \in TaskStates
  BY <1>1, <1>3, TaskReset
<1>7. ConnBecomes(c, w) /\ TaskBecomes(t, v)
  BY <1>4, <1>5, <1>6, ConnUpdate, TaskUpdate
<1> QED
  BY <1>5, <1>6, <1>7 DEF Release, Releases, HasNothingToEnd

-------------------------------------------------------------------------------
(* What the statements of a job leave in last_result.                       *)

(* Results counts at least one result a statement, one more for a call.     *)
LEMMA ResultsTyped ==
    ASSUME NEW stmts, NEW i \in Nat
    PROVE  /\ Results(stmts, i) \in Nat /\ Results(stmts, i) >= i
           /\ (\A j \in 1..i : stmts[j] # "call") => Results(stmts, i) = i
<1> DEFINE calls == {j \in 1..i : stmts[j] = "call"}
<1>1. Cardinality(calls) \in Nat
  <2>1. IsFiniteSet(1..i)
    BY FS_Interval
  <2>2. IsFiniteSet(calls)
    BY <2>1, FS_Subset
  <2> QED
    BY <2>2, FS_CardinalityType
<1>2. (\A j \in 1..i : stmts[j] # "call") => Cardinality(calls) = 0
  <2>1. (\A j \in 1..i : stmts[j] # "call") => calls = {}
    OBVIOUS
  <2> QED
    BY <2>1, FS_EmptySet
<1>3. Results(stmts, i) = i + Cardinality(calls)
  BY DEF Results
<1> HIDE DEF calls
<1> QED
  BY <1>1, <1>2, <1>3

(* The statement the k-th result of a multi-read belongs to.                *)
StmtOf(stmts, k) == Min({i \in 1..Len(stmts) : Results(stmts, i) >= k})

LEMMA StmtOfTyped ==
    ASSUME NEW stmts \in Seq(Stmts), NEW k \in 1..Results(stmts, Len(stmts))
    PROVE  StmtOf(stmts, k) \in 1..Len(stmts)
<1> DEFINE S == {i \in 1..Len(stmts) : Results(stmts, i) >= k}
<1>1. Len(stmts) \in Nat
  BY LenProperties
<1>2. Len(stmts) \in S
  <2>1. CASE Len(stmts) = 0
    <3>1. Results(stmts, 0) = 0
      BY ResultsTyped
    <3> QED
      BY <2>1, <3>1
  <2>2. CASE Len(stmts) # 0
    <3>1. Results(stmts, Len(stmts)) >= k
      BY <1>1, ResultsTyped
    <3> QED
      BY <1>1, <2>2, <3>1
  <2> QED
    BY <2>1, <2>2
<1>3. S \subseteq Nat /\ S \subseteq 1..Len(stmts)
  OBVIOUS
<1>4. Min(S) \in S
  BY <1>2, <1>3, MinLeast
<1> QED
  BY <1>3, <1>4 DEF StmtOf

(* When only the last statement can be a call, the k-th result is that of   *)
(* the k-th statement, up to the last.                                      *)
LEMMA StmtOfInOrder ==
    ASSUME NEW stmts \in Seq(Stmts), NEW k \in 1..Len(stmts),
           \A i \in 1..(Len(stmts) - 1) : stmts[i] # "call"
    PROVE  StmtOf(stmts, k) = k
<1> DEFINE S == {i \in 1..Len(stmts) : Results(stmts, i) >= k}
<1>1. Len(stmts) \in Nat /\ k \in Nat
  BY LenProperties
<1>2. k \in S
  <2>1. Results(stmts, k) >= k
    BY <1>1, ResultsTyped
  <2> QED
    BY <2>1
<1>3. ASSUME NEW i \in S PROVE i >= k
  <2>1. SUFFICES ASSUME i < k PROVE FALSE
    BY <1>1
  <2>2. \A j \in 1..i : stmts[j] # "call"
    BY <1>1, <2>1
  <2>3. Results(stmts, i) = i
    BY <2>2, ResultsTyped
  <2> QED
    BY <1>1, <2>1, <2>3
<1>4. S \subseteq Nat
  OBVIOUS
<1>5. Min(S) \in S /\ \A i \in S : Min(S) <= i
  BY <1>2, <1>4, MinLeast
<1>6. Min(S) = k
  BY <1>1, <1>2, <1>3, <1>4, <1>5
<1> QED
  BY <1>6 DEF StmtOf

LEMMA ChainTyped ==
    ASSUME NEW c \in Conns, conn[c].slot \in Jobs
    PROVE  Chain(c) \in Chains
<1>1. PICK job \in Jobs : job = conn[c].slot
  OBVIOUS
<1>2. job.id \in Ids /\ job.stmts \in Seq(Stmts) /\ Len(job.stmts) \in Nat
  BY DEF Jobs
<1> DEFINE R == [id : Ids, stmt : Nat]
           m == Results(job.stmts, Len(job.stmts))
<1>3. \A i \in Nat : Result(job.id, i) \in R
  BY <1>2 DEF Result
<1>4. \A i \in {0, 1} : <<Result(job.id, i)>> \in Chains
  <2> HIDE DEF R
  <2>1. ASSUME NEW i \in {0, 1} PROVE <<Result(job.id, i)>> \in Seq(R)
    BY <1>3
  <2>2. ASSUME NEW i \in {0, 1} PROVE OneCall(<<Result(job.id, i)>>)
    BY DEF OneCall
  <2> QED
    BY <2>1, <2>2 DEF Chains, R
<1>5. ASSUME NEW s, s = [k \in 1..m |-> Result(job.id, StmtOf(job.stmts, k))]
      PROVE  s \in Chains
  <2>1. m \in Nat
    BY <1>2, ResultsTyped
  <2>2. \A k \in 1..m : StmtOf(job.stmts, k) \in Nat
    BY <1>2, StmtOfTyped
  <2> HIDE DEF m, R
  <2>3. s \in [1..m -> R]
    BY <1>3, <1>5, <2>2
  <2>4. s \in Seq(R)
    BY <2>1, <2>3, SeqDef
  <2>5. OneCall(s)
    BY <1>5, <2>1 DEF OneCall, Result
  <2> QED
    BY <2>4, <2>5 DEF Chains, R
<1>6. CASE job.kind = "multi"
  <2>1. Chain(c) = [k \in 1..m |-> Result(job.id, StmtOf(job.stmts, k))]
    BY <1>1, <1>6 DEF Chain, Overwriting, StmtOf
  <2> QED
    BY <1>5, <2>1
<1>7. CASE job.kind = "single"
  BY <1>1, <1>4, <1>7 DEF Chain, Overwriting
<1>8. CASE job.kind \notin {"multi", "single"}
  BY <1>1, <1>4, <1>8 DEF Chain, Overwriting
<1> QED
  BY <1>6, <1>7, <1>8

(* The statements of a job: a single one, or, in a multi-read, a call only  *)
(* at the end; BEGIN comes first.                                           *)
Fits(kind, stmts) ==
    /\ kind \in {"single", "batch", "multi"} /\ stmts # <<>>
    /\ kind = "single" => Len(stmts) = 1
    /\ kind = "multi" => \A i \in 1..(Len(stmts) - 1) : stmts[i] # "call"
    /\ "begin" \in ToSet(stmts) => stmts[1] = "begin"

LEMMA ChainInOrder ==
    ASSUME NEW c \in Conns, conn[c].slot \in Jobs,
           Fits(conn[c].slot.kind, conn[c].slot.stmts),
           NEW last, last = Chain(c)
    PROVE  LET decoded == Decoded(conn[c].slot, last)
           IN  \A i \in DOMAIN decoded : decoded[i] = Result(conn[c].slot.id, i)
<1>1. PICK job \in Jobs : job = conn[c].slot
  OBVIOUS
<1>2. /\ job.stmts \in Seq(Stmts) /\ Len(job.stmts) \in Nat
      /\ Fits(job.kind, job.stmts)
  BY <1>1 DEF Jobs
<1>3. CASE job.kind = "batch"
  BY <1>1, <1>3 DEF Decoded
<1>4. CASE job.kind = "single"
  <2>1. last = <<Result(job.id, 1)>> /\ Polls(job) = 1
    BY <1>1, <1>2, <1>4 DEF Chain, Overwriting, Polls, Fits
  <2>2. Decoded(job, last) = [i \in 1..1 |-> IF i <= Len(last) THEN last[i] ELSE Empty]
    BY <1>4, <2>1 DEF Decoded
  <2> QED
    BY <1>1, <2>1, <2>2
<1>5. CASE job.kind = "multi"
  <2> DEFINE n == Len(job.stmts)
             m == Results(job.stmts, n)
  <2>1. last = [k \in 1..m |-> Result(job.id, StmtOf(job.stmts, k))] /\ Polls(job) = n
    BY <1>1, <1>5 DEF Chain, Overwriting, StmtOf, Polls
  <2>2. m \in Nat /\ m >= n
    BY <1>2, ResultsTyped
  <2>3. Len(last) = m
    <3> HIDE DEF m
    <3> QED
      BY <2>1, <2>2
  <2>4. ASSUME NEW i \in 1..n PROVE last[i] = Result(job.id, i)
    <3>1. StmtOf(job.stmts, i) = i
      BY <1>2, <1>5, StmtOfInOrder DEF Fits
    <3>2. i \in 1..m
      BY <1>2, <2>2
    <3> HIDE DEF m
    <3> QED
      BY <2>1, <3>1, <3>2
  <2>5. Decoded(job, last) = [i \in 1..n |-> IF i <= Len(last) THEN last[i] ELSE Empty]
    BY <1>5, <2>1 DEF Decoded
  <2>6. \A i \in 1..n : i <= Len(last)
    BY <1>2, <2>2, <2>3
  <2> HIDE DEF n
  <2> QED
    BY <1>1, <2>4, <2>5, <2>6
<1> QED
  BY <1>2, <1>3, <1>4, <1>5 DEF Fits

-------------------------------------------------------------------------------
(* create, destroy and the workers.                                         *)
Creates ==
    /\ pool.phase = "create"
    /\ worker' = [worker EXCEPT ![pool.at] = "check"]
    /\ ConnBecomes(pool.at, FreshConn) /\ SessBecomes(pool.at, FreshSession(TRUE))
    /\ UNCHANGED <<db, task>>

LEMMA CreateEffect ==
    ASSUME TypeInv, CreateConn
    PROVE  Creates
<1>1. pool.at \in Conns
  BY Records DEF PoolStates
<1> QED
  BY <1>1, Fresh, ConnUpdate, SessUpdate DEF CreateConn, Creates

Stops ==
    LET c == pool.at
    IN  /\ pool.phase = "stop"
        /\ worker' = [worker EXCEPT ![c] = Woken(c)]
        /\ ConnBecomes(c, ConnRec(conn[c].inUse, conn[c].slot, conn[c].last,
                                  conn[c].error, TRUE))
        /\ \E killed \in BOOLEAN :
              SessBecomes(c, SessRec(session[c].up, session[c].txn,
                                     session[c].dirty, session[c].unread, killed))
        /\ UNCHANGED <<db, task>>

LEMMA StopEffect ==
    ASSUME TypeInv, Stop
    PROVE  Stops
<1> DEFINE c == pool.at
<1>1. c \in Conns /\ conn[c] \in ConnStates /\ session[c] \in SessionStates
  BY Records DEF PoolStates
<1>2. PICK w : w = [conn[c] EXCEPT !.stop = TRUE]
  OBVIOUS
<1>3. conn' = [conn EXCEPT ![c] = w]
  BY <1>2 DEF Stop
<1>4. ConnBecomes(c, ConnRec(conn[c].inUse, conn[c].slot, conn[c].last,
                             conn[c].error, TRUE))
  BY <1>1, <1>2, <1>3, ConnStopped, ConnUpdate
<1>5. PICK killed \in BOOLEAN : session' = [session EXCEPT ![c].killed = killed]
  <2>1. CASE UNCHANGED session
    <3>1. session = [session EXCEPT ![c].killed = session[c].killed]
      BY <1>1 DEF TypeInv, SessionStates
    <3> QED
      BY <1>1, <2>1, <3>1 DEF SessionStates
  <2>2. CASE ~UNCHANGED session
    <3>1. session' = [session EXCEPT ![c].killed = (worker[c] = "server")]
      BY <2>2 DEF Stop, mysql_pool_cancel
    <3> QED
      BY <3>1
  <2> QED
    BY <2>1, <2>2
<1>6. PICK s : s = [session[c] EXCEPT !.killed = killed]
  OBVIOUS
<1>7. session' = [session EXCEPT ![c] = s]
  BY <1>5, <1>6
<1>8. SessBecomes(c, SessRec(session[c].up, session[c].txn, session[c].dirty,
                             session[c].unread, killed))
  BY <1>1, <1>6, <1>7, SessKilled, SessUpdate
<1> QED
  BY <1>4, <1>8 DEF Stop, Stops

Joins ==
    /\ pool.phase = "join" /\ worker[pool.at] = "exited"
    /\ ConnBecomes(pool.at, ConnRec(FALSE, NoJob, <<>>, NoId, TRUE))
    /\ SessBecomes(pool.at, FreshSession(FALSE))
    /\ UNCHANGED <<worker, db, task>>

LEMMA JoinEffect ==
    ASSUME TypeInv, Join
    PROVE  Joins
<1>1. pool.at \in Conns
  BY Records DEF PoolStates
<1>2. PICK w : w = [FreshConn EXCEPT !.stop = TRUE]
  OBVIOUS
<1>3. conn' = [conn EXCEPT ![pool.at] = w]
  BY <1>2 DEF Join
<1>4. ConnBecomes(pool.at, ConnRec(FALSE, NoJob, <<>>, NoId, TRUE))
  BY <1>1, <1>2, <1>3, ConnReset, ConnUpdate
<1> QED
  BY <1>1, <1>4, Fresh, SessUpdate DEF Join, Joins

(* The end of a call: what it leaves on the connection, and the code.       *)
Answers(c, last, error, code) ==
    LET t == conn[c].slot.owner
    IN  /\ worker' = [worker EXCEPT ![c] = "check"]
        /\ UNCHANGED pool
        /\ ConnBecomes(c, ConnRec(conn[c].inUse, NoJob, last, error, conn[c].stop))
        /\ TaskBecomes(t, TaskRec(task[t].pc, task[t].n, task[t].conn, task[t].tx,
                                  task[t].begin, task[t].job, code, task[t].wrote,
                                  task[t].outcome))

LEMMA AnswerEffect ==
    ASSUME TypeInv, NEW c \in Conns, conn[c].slot.owner \in Tasks, UNCHANGED pool,
           NEW after, NEW code \in {"ok", "aborted"}, Answer(c, after, code),
           NEW last \in Chains, NEW error \in Ids,
           [after EXCEPT !.slot = NoJob] =
               ConnRec(conn[c].inUse, NoJob, last, error, conn[c].stop)
    PROVE  Answers(c, last, error, code)
<1> DEFINE t == conn[c].slot.owner
<1>1. task[t] \in TaskStates /\ conn[c] \in ConnStates
  BY Records
<1>2. PICK w : w = ConnRec(conn[c].inUse, NoJob, last, error, conn[c].stop)
  OBVIOUS
<1>3. w \in ConnStates
  BY <1>1, <1>2, ConstantsTyped DEF ConnRec, ConnStates
<1>4. PICK v : v = [task[t] EXCEPT !.port = code]
  OBVIOUS
<1>5. conn' = [conn EXCEPT ![c] = w] /\ task' = [task EXCEPT ![t] = v]
  BY <1>2, <1>4 DEF Answer
<1>6. /\ v = TaskRec(task[t].pc, task[t].n, task[t].conn, task[t].tx,
                     task[t].begin, task[t].job, code, task[t].wrote,
                     task[t].outcome)
      /\ v \in TaskStates
  BY <1>1, <1>4, TaskAnswered
<1>7. ConnBecomes(c, w) /\ TaskBecomes(t, v)
  BY <1>3, <1>5, <1>6, ConnUpdate, TaskUpdate
<1> QED
  BY <1>2, <1>6, <1>7 DEF Answer, Answers

(* A call that fails leaves its error and the chain that was there.         *)
LEMMA AbortEffect ==
    ASSUME TypeInv, NEW c \in Conns, conn[c].slot.owner \in Tasks, UNCHANGED pool,
           Answer(c, [conn[c] EXCEPT !.error = conn[c].slot.id], "aborted")
    PROVE  Answers(c, conn[c].last, conn[c].slot.id, "aborted")
<1>1. /\ conn[c] \in ConnStates /\ conn[c].last \in Chains /\ conn[c].slot.id \in Ids
  BY Records DEF ConnStates, Jobs
<1>2. PICK r : r = [conn[c] EXCEPT !.error = conn[c].slot.id]
  OBVIOUS
<1>3. [r EXCEPT !.slot = NoJob] =
          ConnRec(conn[c].inUse, NoJob, conn[c].last, conn[c].slot.id, conn[c].stop)
  <2>1. r = ConnRec(conn[c].inUse, conn[c].slot, conn[c].last, conn[c].slot.id,
                    conn[c].stop)
    BY <1>1, <1>2, ConnErred
  <2> QED
    BY <2>1 DEF ConnRec
<1>4. Answer(c, r, "aborted")
  BY <1>2
<1> QED
  BY <1>1, <1>3, <1>4, AnswerEffect

Sends(c) ==
    /\ worker[c] = "send"
    /\ UNCHANGED <<pool, session, db>>
    /\ \/ /\ session[c].up /\ ~session[c].unread
          /\ worker' = [worker EXCEPT ![c] = "server"]
          /\ ConnBecomes(c, ConnRec(conn[c].inUse, conn[c].slot, conn[c].last,
                                    NoId, conn[c].stop))
          /\ UNCHANGED task
       \/ /\ ~session[c].up \/ session[c].unread
          /\ Answers(c, conn[c].last, conn[c].slot.id, "aborted")

LEMMA SendEffect ==
    ASSUME TypeInv, NEW c \in Conns, conn[c].slot.owner \in Tasks, Send(c)
    PROVE  Sends(c)
<1>1. CASE session[c].up /\ ~session[c].unread
  <2>1. PICK w : w = [conn[c] EXCEPT !.error = NoId]
    OBVIOUS
  <2>2. conn' = [conn EXCEPT ![c] = w]
    BY <1>1, <2>1 DEF Send
  <2>3. ConnBecomes(c, ConnRec(conn[c].inUse, conn[c].slot, conn[c].last, NoId,
                               conn[c].stop))
    BY <2>1, <2>2, Records, ConstantsTyped, ConnErred, ConnUpdate
  <2> QED
    BY <1>1, <2>3 DEF Send, Sends
<1>2. CASE ~(session[c].up /\ ~session[c].unread)
  <2>1. Answers(c, conn[c].last, conn[c].slot.id, "aborted")
    BY <1>2, AbortEffect DEF Send
  <2> QED
    BY <1>2, <2>1 DEF Send, Sends
<1> QED
  BY <1>1, <1>2

LEMMA EffectsTyped ==
    ASSUME TypeInv, NEW c \in Conns, NEW stmts
    PROVE  LET after == Effects(c, stmts)
           IN  /\ after.txn \in BOOLEAN
               /\ after.dirty \in SUBSET Ids /\ after.db \in SUBSET Ids
<1>1. /\ session[c] \in SessionStates /\ db \in SUBSET Ids /\ conn[c].slot.id \in Ids
  BY Records DEF TypeInv, ConnStates, Jobs
<1> QED
  BY <1>1 DEF Effects, SessionStates

(* A call that succeeds, and one that fails after k statements.             *)
Succeeds(c) ==
    LET job == conn[c].slot
        after == Effects(c, job.stmts)
    IN  /\ worker[c] = "server"
        /\ SessBecomes(c, SessRec(session[c].up, after.txn, after.dirty,
               job.kind = "single" /\ "call" \in ToSet(job.stmts), session[c].killed))
        /\ db' = after.db
        /\ Answers(c, Chain(c), conn[c].error, "ok")
FailsAt(c, k, lost) ==
    LET job == conn[c].slot
        after == Effects(c, SubSeq(job.stmts, 1, k))
    IN  /\ lost \/ /\ k < Len(job.stmts)
                   /\ job.stmts[k + 1] \in {"begin", "commit", "rollback"} =>
                          session[c].killed
        /\ SessBecomes(c, IF lost THEN FreshSession(FALSE)
               ELSE SessRec(session[c].up, after.txn, after.dirty,
                            session[c].unread, FALSE))
        /\ db' = after.db
Fails(c) ==
    /\ worker[c] = "server"
    /\ \E k \in 0..Len(conn[c].slot.stmts), lost \in BOOLEAN : FailsAt(c, k, lost)
    /\ Answers(c, conn[c].last, conn[c].slot.id, "aborted")

LEMMA ServeAllEffect ==
    ASSUME TypeInv, NEW c \in Conns, conn[c].slot.owner \in Tasks, ServeAll(c)
    PROVE  Succeeds(c)
<1> DEFINE job == conn[c].slot
<1>1. /\ conn[c] \in ConnStates /\ session[c] \in SessionStates
      /\ conn[c].slot \in Jobs /\ conn[c].error \in Ids
  BY Records DEF ConnStates
<1>2. PICK unread \in BOOLEAN :
         unread = (job.kind = "single" /\ "call" \in ToSet(job.stmts))
  OBVIOUS
<1>3. PICK after : after = Effects(c, job.stmts)
  OBVIOUS
<1>4. after.txn \in BOOLEAN /\ after.dirty \in SUBSET Ids
  BY <1>3, EffectsTyped
<1>5. PICK s : s = [session[c] EXCEPT !.txn = after.txn, !.dirty = after.dirty,
                                      !.unread = unread]
  OBVIOUS
<1>6. session' = [session EXCEPT ![c] = s]
  BY <1>2, <1>3, <1>5 DEF ServeAll
<1>7. s = SessRec(session[c].up, after.txn, after.dirty, unread, session[c].killed)
      /\ s \in SessionStates
  <2>1. PICK r \in SessionStates : r = session[c]
    BY <1>1
  <2> QED
    BY <1>4, <1>5, <2>1 DEF SessionStates, SessRec
<1>8. SessBecomes(c, s)
  BY <1>6, <1>7, SessUpdate
<1>9. PICK last \in Chains : last = Chain(c)
  BY <1>1, ChainTyped
<1>10. PICK w : w = [conn[c] EXCEPT !.last = last]
  OBVIOUS
<1>11. [w EXCEPT !.slot = NoJob] =
           ConnRec(conn[c].inUse, NoJob, last, conn[c].error, conn[c].stop)
  <2>1. w = ConnRec(conn[c].inUse, conn[c].slot, last, conn[c].error, conn[c].stop)
    BY <1>1, <1>10, ConnDrained
  <2> QED
    BY <2>1 DEF ConnRec
<1>12. Answer(c, w, "ok") /\ UNCHANGED pool
  BY <1>9, <1>10 DEF ServeAll
<1>13. Answers(c, last, conn[c].error, "ok")
  BY <1>1, <1>11, <1>12, AnswerEffect
<1> QED
  BY <1>2, <1>3, <1>7, <1>8, <1>9, <1>13 DEF ServeAll, Succeeds

LEMMA ServeSomeEffect ==
    ASSUME TypeInv, NEW c \in Conns, conn[c].slot.owner \in Tasks, ServeSome(c)
    PROVE  Fails(c)
<1> DEFINE job == conn[c].slot
<1>1. session[c] \in SessionStates
  BY Records
<1>2. PICK k \in 0..Len(job.stmts), lost \in BOOLEAN :
         LET after == Effects(c, SubSeq(job.stmts, 1, k))
         IN  /\ lost \/ /\ k < Len(job.stmts)
                        /\ job.stmts[k + 1] \in {"begin", "commit", "rollback"}
                             => session[c].killed
             /\ session' = [session EXCEPT ![c] =
                   IF lost THEN FreshSession(FALSE)
                   ELSE [session[c] EXCEPT !.killed = FALSE, !.txn = after.txn,
                                  !.dirty = after.dirty]]
             /\ db' = after.db
  BY DEF ServeSome
<1>3. PICK after : after = Effects(c, SubSeq(job.stmts, 1, k))
  OBVIOUS
<1>4. after.txn \in BOOLEAN /\ after.dirty \in SUBSET Ids
  BY <1>3, EffectsTyped
<1>5. PICK s : s = IF lost THEN FreshSession(FALSE)
                   ELSE [session[c] EXCEPT !.killed = FALSE, !.txn = after.txn,
                                           !.dirty = after.dirty]
  OBVIOUS
<1>6. session' = [session EXCEPT ![c] = s]
  BY <1>2, <1>3, <1>5
<1>7. /\ s = IF lost THEN FreshSession(FALSE)
             ELSE SessRec(session[c].up, after.txn, after.dirty,
                          session[c].unread, FALSE)
      /\ s \in SessionStates
  <2>1. CASE lost
    BY <1>5, <2>1, Fresh
  <2>2. CASE ~lost
    <3>1. PICK r \in SessionStates : r = session[c]
      BY <1>1
    <3>2. PICK x \in BOOLEAN : x = after.txn
      BY <1>4
    <3>3. PICK d \in SUBSET Ids : d = after.dirty
      BY <1>4
    <3>4. s = [r EXCEPT !.killed = FALSE, !.txn = x, !.dirty = d]
      BY <1>5, <2>2, <3>1, <3>2, <3>3
    <3>5. s = SessRec(r.up, x, d, r.unread, FALSE) /\ s \in SessionStates
      BY <3>4 DEF SessionStates, SessRec
    <3> QED
      BY <2>2, <3>1, <3>2, <3>3, <3>5
  <2> QED
    BY <2>1, <2>2
<1>8. SessBecomes(c, s)
  BY <1>6, <1>7, SessUpdate
<1>9. FailsAt(c, k, lost)
  BY <1>2, <1>3, <1>7, <1>8 DEF FailsAt
<1>10. Answers(c, conn[c].last, conn[c].slot.id, "aborted")
  BY AbortEffect DEF ServeSome, AbortCode
<1> QED
  BY <1>9, <1>10 DEF ServeSome, Fails

-------------------------------------------------------------------------------
(* What a task submits: the statements of its body, a COMMIT or a ROLLBACK, *)
(* with the BEGIN in front if it is still pending.                          *)
Shape(then, stmts) ==
    LET S == ToSet(stmts)
    IN  IF then = "await" THEN S \subseteq {"begin", "read", "write", "call"}
        ELSE \E e \in {"commit", "rollback"} : e \in S /\ S \subseteq {"begin", e}

Calls(t, kind, stmts, then) ==
    /\ task[t].pc \in {"body", "thrown"} /\ task[t].n <= MaxJobs[t]
    /\ Fits(kind, stmts) /\ Shape(then, stmts)
    /\ task[t].begin <=> "begin" \in ToSet(stmts)
    /\ then = "await" => task[t].pc = "body" /\ task[t].n < MaxJobs[t]
    /\ then = "ending" =>
          /\ task[t].tx
          /\ task[t].pc = "body" <=> "commit" \in ToSet(stmts)

LEMMA ToSetOne == \A s : ToSet(<<s>>) = {s}
BY DEF ToSet

LEMMA ToSetSeq ==
    ASSUME NEW S, NEW s \in Seq(S)
    PROVE  /\ \A x : x \in ToSet(s) <=> \E i \in 1..Len(s) : s[i] = x
           /\ ToSet(s) \subseteq S
BY DEF ToSet

LEMMA InFront ==
    ASSUME NEW S, NEW s \in Seq(S), NEW q \in Seq(S), Len(q) = Len(s) + 1,
           \A i \in 1..Len(s) : q[i + 1] = s[i]
    PROVE  \A y : y \in ToSet(q) <=> y = q[1] \/ y \in ToSet(s)
<1>1. Len(s) \in Nat
  BY LenProperties
<1>2. PICK x : x = q[1]
  OBVIOUS
<1>3. /\ \A y : y \in ToSet(q) <=> \E i \in 1..(Len(s) + 1) : q[i] = y
      /\ \A y : y \in ToSet(s) <=> \E i \in 1..Len(s) : s[i] = y
  <2>1. \A y : y \in ToSet(s) <=> \E i \in 1..Len(s) : s[i] = y
    BY ToSetSeq
  <2>2. \A y : y \in ToSet(q) <=> \E i \in 1..Len(q) : q[i] = y
    BY ToSetSeq
  <2> QED
    BY <1>1, <2>1, <2>2
<1>4. \A i \in 1..(Len(s) + 1) : i = 1 \/ (i - 1 \in 1..Len(s) /\ q[i] = s[i - 1])
  <2>1. \A i \in 1..(Len(s) + 1) : i = 1 \/ (i - 1 \in 1..Len(s) /\ (i - 1) + 1 = i)
    BY <1>1
  <2> QED
    BY <1>1, <2>1
<1>5. 1 \in 1..(Len(s) + 1) /\ \A i \in 1..Len(s) : i + 1 \in 1..(Len(s) + 1)
  BY <1>1
<1>6. \A y : y \in ToSet(q) <=> y = x \/ y \in ToSet(s)
  <2>1. ASSUME NEW y \in ToSet(q) PROVE y = x \/ y \in ToSet(s)
    <3>1. PICK i \in 1..(Len(s) + 1) : y = q[i]
      BY <1>3
    <3>2. i = 1 \/ (i - 1 \in 1..Len(s) /\ q[i] = s[i - 1])
      BY <1>4
    <3> QED
      BY <1>2, <1>3, <3>1, <3>2
  <2>2. ASSUME NEW y, y = x \/ y \in ToSet(s) PROVE y \in ToSet(q)
    <3>1. CASE y = x
      BY <1>2, <1>3, <1>5, <3>1
    <3>2. CASE y \in ToSet(s)
      <4>1. PICK i \in 1..Len(s) : y = s[i]
        BY <1>3, <3>2
      <4>2. q[i + 1] = y /\ i + 1 \in 1..(Len(s) + 1)
        BY <1>5, <4>1
      <4> QED
        BY <1>3, <4>2
    <3> QED
      BY <2>2, <3>1, <3>2
  <2> QED
    BY <2>1, <2>2
<1> QED
  BY <1>2, <1>6

(* A statement, or several, with the pending BEGIN in front.                *)
LEMMA Joined ==
    ASSUME NEW t \in Tasks, task[t].begin \in BOOLEAN,
           NEW S \in SUBSET (Stmts \ {"begin"}), NEW s \in Seq(S), s # <<>>,
           NEW stmts, stmts = WithBegin(t, s)
    PROVE  /\ stmts \in Seq(Stmts) /\ stmts # <<>>
           /\ task[t].begin <=> "begin" \in ToSet(stmts)
           /\ ToSet(stmts) \subseteq {"begin"} \cup S
           /\ ToSet(s) \subseteq ToSet(stmts)
           /\ Len(s) = 1 => Fits(IF task[t].begin THEN "multi" ELSE "single", stmts)
           /\ "call" \notin S => Fits("multi", stmts)
           /\ Fits("batch", stmts)
<1>1. /\ "begin" \in Stmts /\ s \in Seq(Stmts) /\ Len(s) \in Nat /\ Len(s) # 0
      /\ ToSet(s) \subseteq S
      /\ \A i \in 1..Len(s) : s[i] \in S
  <2>1. s \in Seq(Stmts)
    BY SeqDef
  <2> QED
    BY <2>1, ToSetSeq DEF Stmts
<1>2. CASE task[t].begin
  <2>1. stmts = <<"begin">> \o s
    BY <1>2 DEF WithBegin
  <2>2. /\ stmts \in Seq(Stmts) /\ stmts # <<>> /\ Len(stmts) = Len(s) + 1
        /\ stmts[1] = "begin" /\ \A i \in 1..Len(s) : stmts[i + 1] = s[i]
        /\ ToSet(stmts) = {"begin"} \cup ToSet(s)
    <3>1. PICK R : R = Stmts
      OBVIOUS
    <3>2. "begin" \in R /\ s \in Seq(R) /\ stmts = <<"begin">> \o s
      BY <1>1, <2>1, <3>1
    <3>3. /\ stmts \in Seq(R) /\ stmts # <<>> /\ Len(stmts) = Len(s) + 1
          /\ stmts[1] = "begin" /\ \A i \in 1..Len(s) : stmts[i + 1] = s[i]
          /\ \A y : y \in ToSet(stmts) <=> y = "begin" \/ y \in ToSet(s)
      <4>1. /\ stmts \in Seq(R) /\ stmts # <<>> /\ Len(stmts) = Len(s) + 1
            /\ stmts[1] = "begin"
        BY <3>2
      <4>2. \A i \in 1..Len(s) : stmts[i + 1] = s[i]
        BY <3>2
      <4>3. \A y : y \in ToSet(stmts) <=> y = "begin" \/ y \in ToSet(s)
        BY <3>2, <4>1, <4>2, InFront
      <4> QED
        BY <4>1, <4>2, <4>3
    <3>4. ToSet(stmts) = {"begin"} \cup ToSet(s)
      BY <3>3
    <3> QED
      BY <3>1, <3>3, <3>4
  <2>3. Len(s) = 1 => \A i \in 1..(Len(stmts) - 1) : stmts[i] # "call"
    BY <2>2
  <2>4. "call" \notin S => \A i \in 1..(Len(stmts) - 1) : stmts[i] # "call"
    <3>1. ASSUME "call" \notin S, NEW i \in 1..(Len(stmts) - 1)
          PROVE  stmts[i] # "call"
      <4>1. i = 1 \/ (i - 1 \in 1..Len(s) /\ (i - 1) + 1 = i)
        BY <1>1, <2>2
      <4>2. i = 1 \/ stmts[i] \in S
        BY <1>1, <2>2, <4>1
      <4> QED
        BY <2>2, <3>1, <4>2
    <3> QED
      BY <3>1
  <2>5. "begin" \in ToSet(stmts) /\ ToSet(stmts) \subseteq {"begin"} \cup S
        /\ ToSet(s) \subseteq ToSet(stmts)
    BY <1>1, <2>2
  <2>6. /\ Len(s) = 1 => Fits("multi", stmts)
        /\ "call" \notin S => Fits("multi", stmts)
        /\ Fits("batch", stmts)
    BY <2>2, <2>3, <2>4 DEF Fits
  <2>7. Len(s) = 1 => Fits(IF task[t].begin THEN "multi" ELSE "single", stmts)
    BY <1>2, <2>6
  <2> QED
    BY <1>2, <2>2, <2>5, <2>6, <2>7
<1>3. CASE ~task[t].begin
  <2>1. stmts = s
    BY <1>3 DEF WithBegin
  <2>2. "call" \notin S => \A i \in 1..(Len(stmts) - 1) : stmts[i] # "call"
    <3>1. \A i \in 1..(Len(stmts) - 1) : i \in 1..Len(s)
      BY <1>1, <2>1
    <3> QED
      BY <1>1, <2>1, <3>1
  <2>3. /\ "begin" \notin ToSet(stmts) /\ ToSet(stmts) \subseteq {"begin"} \cup S
        /\ ToSet(s) \subseteq ToSet(stmts)
    BY <1>1, <2>1
  <2> QED
    BY <1>1, <1>3, <2>1, <2>2, <2>3 DEF Fits
<1> QED
  BY <1>2, <1>3

-------------------------------------------------------------------------------
Up == pool.phase \in {"create", "open"}
Awaiting(t) == task[t].pc \in {"await", "ending"}

(* A task inside the pool has a connection of its own, which, until the     *)
(* pool is destroyed, is marked in_use.                                     *)
LeaseInv ==
    /\ \A t \in Tasks : task[t].pc # "out" =>
          /\ task[t].conn \in Conns /\ pool.phase # "create"
          /\ Up => conn[task[t].conn].inUse
    /\ \A t, u \in Tasks :
          task[t].pc # "out" /\ task[u].pc # "out" /\ task[t].conn = task[u].conn
          => t = u

(* A filled slot holds the call its lessee awaits, and no other answer has  *)
(* been posted; no thread executes an empty one.                            *)
SlotInv(c) ==
    IF conn[c].slot = NoJob THEN worker[c] \notin {"send", "server"}
    ELSE LET t == conn[c].slot.owner
         IN  /\ conn[c].inUse
             /\ t \in Tasks /\ Awaiting(t) /\ task[t].port = "none"
             /\ task[t].conn = c /\ task[t].job = conn[c].slot

(* What a task awaits is a call of its own, of the shape its executor gives *)
(* it.  MaxJobs bounds what it submits before it ends its transaction.      *)
JobInv(t) ==
    /\ ~Awaiting(t) => task[t].port = "none"
    /\ task[t].begin => task[t].tx
    /\ task[t].n <= IF task[t].pc \in {"body", "await", "thrown"} THEN MaxJobs[t]
                    ELSE MaxJobs[t] + 1
    /\ Awaiting(t) =>
          LET job == task[t].job
          IN  /\ job.id \in {t} \X (1..task[t].n)
              /\ Fits(job.kind, job.stmts) /\ Shape(task[t].pc, job.stmts)
              /\ task[t].pc = "ending" \/ "begin" \in ToSet(job.stmts) => task[t].tx

MailInv == LeaseInv /\ (\A c \in Conns : SlotInv(c)) /\ (\A t \in Tasks : JobInv(t))

MailInvs == TypeInv /\ LoopInv /\ MailInv

(* The steps of a task: it takes a connection, submits, receives or gives   *)
(* the connection back.                                                     *)
LEMMA TaskSteps ==
    ASSUME MailInvs, NEW t \in Tasks, TaskStep(t)
    PROVE  \/ \E tx \in BOOLEAN : Lease(t, tx)
           \/ \E kind \in Kinds, stmts \in Seq(Stmts), then \in {"await", "ending"} :
                 Calls(t, kind, stmts, then) /\ Submit(t, kind, stmts, then)
           \/ Receive(t)
           \/ Release(t)
<1> DEFINE begin == task[t].begin
           Single == IF begin THEN "multi" ELSE "single"
           Ok(kind, stmts, then) ==
               /\ kind \in Kinds /\ stmts \in Seq(Stmts)
               /\ Calls(t, kind, stmts, then)
<1>1. /\ begin \in BOOLEAN /\ (begin => task[t].tx) /\ Single \in Kinds
      /\ task[t].n \in Nat /\ MaxJobs[t] \in Nat
      /\ task[t].pc \in {"body", "thrown"} => task[t].n <= MaxJobs[t]
  BY Records, ConstantsTyped DEF MailInvs, MailInv, JobInv, TaskStates, Kinds
<1>2. /\ Singles[t] \subseteq {"read", "write", "call"}
      /\ Batches[t] \subseteq Seq({"read", "write", "call"}) \ {<<>>}
      /\ Reads[t] \subseteq Seq({"read", "write"}) \ {<<>>}
      /\ InTx[t] \subseteq BOOLEAN
  BY BodiesReadWriteAndCall
<1>3. ASSUME NEW S \in SUBSET {"read", "write", "call"}, NEW s \in Seq(S), s # <<>>,
             NEW kind, NEW stmts, stmts = WithBegin(t, s), InBody(t),
             \/ kind = Single /\ Len(s) = 1
             \/ kind = "multi" /\ "call" \notin S
             \/ kind = "batch"
      PROVE  Ok(kind, stmts, "await")
  <2>1. S \in SUBSET (Stmts \ {"begin"})
    BY DEF Stmts
  <2>2. /\ stmts \in Seq(Stmts) /\ stmts # <<>>
        /\ begin <=> "begin" \in ToSet(stmts)
        /\ ToSet(stmts) \subseteq {"begin"} \cup S
        /\ Fits(kind, stmts)
    BY <1>1, <1>3, <2>1, Joined
  <2>3. Shape("await", stmts)
    BY <2>2 DEF Shape
  <2>4. kind \in Kinds
    BY <1>1, <1>3 DEF Kinds
  <2> HIDE DEF Single
  <2> QED
    BY <1>1, <1>3, <2>2, <2>3, <2>4 DEF Calls, InBody
<1>4. ASSUME NEW e \in {"commit", "rollback"}, task[t].tx, NEW stmts,
             task[t].pc = IF e = "commit" THEN "body" ELSE "thrown",
             stmts = WithBegin(t, <<e>>)
      PROVE  Ok(Single, stmts, "ending")
  <2>1. /\ {e} \in SUBSET (Stmts \ {"begin"}) /\ <<e>> \in Seq({e}) /\ <<e>> # <<>>
        /\ Len(<<e>>) = 1 /\ ToSet(<<e>>) = {e}
    BY ToSetOne DEF Stmts
  <2>2. /\ stmts \in Seq(Stmts) /\ Fits(Single, stmts)
        /\ begin <=> "begin" \in ToSet(stmts)
        /\ ToSet(stmts) \subseteq {"begin", e} /\ e \in ToSet(stmts)
    <3>1. PICK S \in SUBSET (Stmts \ {"begin"}) : S = {e}
      BY <2>1
    <3>2. PICK s \in Seq(S) : s = <<e>>
      BY <2>1, <3>1
    <3>3. stmts = WithBegin(t, s) /\ s # <<>> /\ Len(s) = 1 /\ ToSet(s) = {e}
      BY <1>4, <2>1, <3>2
    <3>4. /\ stmts \in Seq(Stmts) /\ Fits(Single, stmts)
          /\ begin <=> "begin" \in ToSet(stmts)
          /\ ToSet(stmts) \subseteq {"begin"} \cup S /\ ToSet(s) \subseteq ToSet(stmts)
      BY <1>1, <3>3, Joined
    <3> QED
      BY <3>1, <3>3, <3>4
  <2>3. Shape("ending", stmts)
    BY <2>2 DEF Shape
  <2>4. task[t].pc \in {"body", "thrown"}
        /\ (task[t].pc = "body" <=> "commit" \in ToSet(stmts))
    BY <1>4, <2>2
  <2> HIDE DEF Single
  <2> QED
    BY <1>1, <1>4, <2>2, <2>3, <2>4 DEF Calls
<1>5. CASE \E tx \in InTx[t] : Lease(t, tx)
  BY <1>2, <1>5
<1>6. CASE Execute(t)
  <2>1. PICK s \in {"read", "write", "call"} :
           InBody(t) /\ Submit(t, Single, WithBegin(t, <<s>>), "await")
    BY <1>2, <1>6 DEF Execute
  <2>2. PICK stmts : stmts = WithBegin(t, <<s>>)
    OBVIOUS
  <2>3. {s} \in SUBSET {"read", "write", "call"} /\ <<s>> \in Seq({s})
        /\ <<s>> # <<>> /\ Len(<<s>>) = 1
    OBVIOUS
  <2>4. Ok(Single, stmts, "await")
    BY <1>3, <2>1, <2>2, <2>3
  <2> QED
    BY <2>1, <2>2, <2>4
<1>7. CASE ExecuteBatch(t)
  <2>1. PICK s \in Seq({"read", "write", "call"}) \ {<<>>} :
           InBody(t) /\ Submit(t, "batch", WithBegin(t, s), "await")
    BY <1>2, <1>7 DEF ExecuteBatch
  <2>2. PICK stmts : stmts = WithBegin(t, s)
    OBVIOUS
  <2>3. Ok("batch", stmts, "await")
    BY <1>3, <2>1, <2>2
  <2> QED
    BY <2>1, <2>2, <2>3
<1>8. CASE ExecuteMultiRead(t)
  <2>1. PICK s \in Seq({"read", "write"}) \ {<<>>} :
           InBody(t) /\ Submit(t, "multi", WithBegin(t, s), "await")
    BY <1>2, <1>8 DEF ExecuteMultiRead
  <2>2. PICK stmts : stmts = WithBegin(t, s)
    OBVIOUS
  <2>3. Ok("multi", stmts, "await")
    BY <1>3, <2>1, <2>2
  <2> QED
    BY <2>1, <2>2, <2>3
<1>9. CASE ExecuteNothing(t)
  <2>1. InBody(t) /\ begin /\ Submit(t, "single", <<"begin">>, "await")
    BY <1>9 DEF ExecuteNothing
  <2>2. /\ <<"begin">> \in Seq(Stmts) /\ <<"begin">> # <<>> /\ Len(<<"begin">>) = 1
        /\ ToSet(<<"begin">>) = {"begin"}
    BY ToSetOne DEF Stmts
  <2>3. Fits("single", <<"begin">>) /\ Shape("await", <<"begin">>)
    BY <2>2 DEF Fits, Shape
  <2>4. Ok("single", <<"begin">>, "await")
    BY <1>1, <2>1, <2>2, <2>3 DEF Calls, InBody, Kinds
  <2> QED
    BY <2>1, <2>4
<1>10. ASSUME NEW e \in {"commit", "rollback"}, End(t, e)
       PROVE  \E kind \in Kinds, stmts \in Seq(Stmts), then \in {"await", "ending"} :
                 Calls(t, kind, stmts, then) /\ Submit(t, kind, stmts, then)
  <2>1. /\ task[t].tx /\ task[t].pc = IF e = "commit" THEN "body" ELSE "thrown"
        /\ Submit(t, Single, WithBegin(t, <<e>>), "ending")
    BY <1>10 DEF End
  <2>2. PICK stmts : stmts = WithBegin(t, <<e>>)
    OBVIOUS
  <2>3. Ok(Single, stmts, "ending")
    BY <1>4, <2>1, <2>2
  <2> QED
    BY <2>1, <2>2, <2>3
<1> QED
  BY <1>5, <1>6, <1>7, <1>8, <1>9, <1>10 DEF TaskStep

-------------------------------------------------------------------------------
(* MailInv is inductive: action by action. *)

LEMMA MailInit == Init => MailInvs
<1> SUFFICES ASSUME Init PROVE MailInvs
  OBVIOUS
<1>1. TypeInv /\ LoopInv
  BY Init1
<1>2. \A t \in Tasks : /\ task[t].pc = "out" /\ task[t].port = "none"
                       /\ ~task[t].begin /\ task[t].n = 0
  BY DEF Init, IdleTask
<1>3. \A c \in Conns : conn[c].slot = NoJob /\ worker[c] = "none"
  BY DEF Init, FreshConn
<1> QED
  BY <1>1, <1>2, <1>3, ConstantsTyped
  DEF MailInvs, MailInv, LeaseInv, SlotInv, JobInv, Awaiting

(* A slot whose record, worker and lessee stand still keeps its invariant.  *)
LEMMA SlotKept ==
    ASSUME TypeInv, NEW c \in Conns, SlotInv(c),
           conn'[c].slot = conn[c].slot, conn[c].inUse => conn'[c].inUse,
           worker'[c] \in {"send", "server"} => worker[c] \in {"send", "server"},
           conn[c].slot # NoJob =>
               task'[conn[c].slot.owner] = task[conn[c].slot.owner]
    PROVE  SlotInv(c)'
BY DEF SlotInv, Awaiting

LEMMA JobKept ==
    ASSUME NEW t \in Tasks, JobInv(t), task'[t] = task[t]
    PROVE  JobInv(t)'
BY DEF JobInv, Awaiting

(* A task lives in one connection: a filled slot elsewhere is not its own,  *)
(* and the slot of its own is empty unless it awaits an answer.             *)
LEMMA OthersSlot ==
    ASSUME MailInv, NEW t \in Tasks, NEW c \in Conns, c # task[t].conn,
           conn[c].slot # NoJob
    PROVE  conn[c].slot.owner \in Tasks \ {t}
BY DEF MailInv, SlotInv

LEMMA OwnSlot ==
    ASSUME MailInv, NEW t \in Tasks, task[t].pc # "out",
           ~Awaiting(t) \/ task[t].port # "none"
    PROVE  /\ task[t].conn \in Conns
           /\ conn[task[t].conn].slot = NoJob
BY DEF MailInv, SlotInv, LeaseInv, Awaiting

(* Two tasks inside the pool are on two connections.                        *)
LEMMA Apart ==
    ASSUME MailInvs, NEW t \in Tasks, NEW u \in Tasks \ {t},
           task[t].pc # "out", task[u].pc # "out"
    PROVE  /\ task[t].conn \in Conns /\ task[u].conn \in Conns
           /\ task[u].conn # task[t].conn
BY DEF MailInvs, MailInv, LeaseInv

LEMMA LeaseKeepsMail ==
    ASSUME MailInvs, NEW t \in Tasks, NEW tx \in BOOLEAN, Lease(t, tx)
    PROVE  MailInvs'
<1> USE DEF MailInvs
<1>1. Leases(t)
  BY LeaseEffect
<1>2. PICK c \in Conns, b \in BOOLEAN : LeasesAt(t, b, c)
  BY <1>1 DEF Leases
<1>3. /\ ~conn[c].inUse
      /\ \A d \in Conns \ {c} : conn'[d] = conn[d]
      /\ conn'[c].inUse /\ conn'[c].slot = conn[c].slot
      /\ task'[t].pc = "body" /\ task'[t].conn = c /\ task'[t].port = "none"
      /\ task'[t].n = task[t].n /\ task'[t].begin = task'[t].tx
      /\ task' \in [Tasks -> TaskStates] /\ conn' \in [Conns -> ConnStates]
      /\ \A u \in Tasks \ {t} : task'[u] = task[u]
  BY <1>2 DEF LeasesAt, ConnBecomes, TaskBecomes, ConnRec, TaskRec
<1>4. /\ pool.phase = "open" /\ task[t].pc = "out" /\ UNCHANGED <<pool, worker, session, db>>
      /\ task[t].n < MaxJobs[t] /\ task[t].n \in Nat /\ MaxJobs[t] \in Nat
  BY <1>1, Records, ConstantsTyped DEF Leases, TaskStates
<1>5. TypeInv' /\ LoopInv'
  BY <1>3, <1>4 DEF TypeInv, LoopInv
<1>6. LeaseInv'
  BY <1>3, <1>4 DEF LeaseInv, MailInv, Up
<1>7. ASSUME NEW d \in Conns PROVE SlotInv(d)'
  <2>1. SlotInv(d)
    BY DEF MailInv
  <2>2. conn[d].slot # NoJob => conn[d].slot.owner \in Tasks \ {t}
    BY <1>4, <2>1 DEF SlotInv, Awaiting
  <2> QED
    BY <1>3, <1>4, <2>1, <2>2, SlotKept
<1>8. ASSUME NEW u \in Tasks PROVE JobInv(u)'
  <2>1. CASE u = t
    BY <1>3, <1>4, <2>1 DEF JobInv, Awaiting
  <2>2. CASE u # t
    BY <1>3, <2>2, JobKept DEF MailInv
  <2> QED
    BY <2>1, <2>2
<1> QED
  BY <1>5, <1>6, <1>7, <1>8 DEF MailInv

LEMMA SubmitKeepsMail ==
    ASSUME MailInvs, NEW t \in Tasks, NEW kind \in Kinds, NEW stmts \in Seq(Stmts),
           NEW then \in {"await", "ending"}, Calls(t, kind, stmts, then),
           Submit(t, kind, stmts, then)
    PROVE  MailInvs'
<1> USE DEF MailInvs
<1>1. PICK c \in Conns : c = task[t].conn
  BY DEF Calls, MailInv, LeaseInv
<1>2. /\ Submits(t, kind, stmts, then) /\ task[t].n \in Nat /\ MaxJobs[t] \in Nat
      /\ task[t].begin \in BOOLEAN
  BY <1>1, SubmitEffect, Records, ConstantsTyped DEF Calls, TaskStates
<1>3. /\ pool.phase = "open" /\ conn[c].slot = NoJob
      /\ UNCHANGED <<pool, session, db>>
      /\ worker' = [worker EXCEPT ![c] = Woken(c)]
  BY <1>1, <1>2 DEF Submits
<1>4. PICK j \in Jobs : j.kind = kind /\ j.stmts = stmts /\ SubmitsJob(t, j, then)
  BY <1>2 DEF Submits
<1>5. /\ j.id = <<t, task[t].n + 1>> /\ j.owner = t
      /\ conn' \in [Conns -> ConnStates] /\ task' \in [Tasks -> TaskStates]
      /\ conn'[c].slot = j /\ conn'[c].inUse = conn[c].inUse
      /\ \A d \in Conns \ {c} : conn'[d] = conn[d]
      /\ task'[t].pc = then /\ task'[t].n = task[t].n + 1
      /\ task'[t].conn = c /\ task'[t].job = j /\ task'[t].port = task[t].port
      /\ task'[t].tx = task[t].tx /\ task'[t].begin = FALSE
      /\ \A u \in Tasks \ {t} : task'[u] = task[u]
  BY <1>1, <1>4 DEF SubmitsJob, ConnBecomes, TaskBecomes, ConnRec, TaskRec, Id
<1>6. j # NoJob /\ j.id \in {t} \X (1..task'[t].n)
  BY <1>2, <1>5, NoTaskIsNoTask DEF NoJob
<1>7. /\ conn[c].inUse /\ task[t].port = "none" /\ task[t].pc \in {"body", "thrown"}
      /\ task[t].begin => task[t].tx
  BY <1>1, <1>3 DEF Calls, MailInv, LeaseInv, JobInv, Awaiting, Up
<1>8. TypeInv' /\ LoopInv'
  <2>1. worker' \in [Conns -> WorkerStates]
    BY <1>3 DEF TypeInv, WorkerStates
  <2> QED
    BY <1>3, <1>5, <2>1 DEF TypeInv, LoopInv
<1>9. LeaseInv'
  <2>1. \A u \in Tasks : task'[u].conn = task[u].conn
                         /\ (task'[u].pc = "out" <=> task[u].pc = "out")
    BY <1>1, <1>5, <1>7
  <2>2. \A d \in Conns : conn'[d].inUse = conn[d].inUse
    BY <1>5
  <2>3. UNCHANGED pool
    BY <1>3
  <2> QED
    BY <2>1, <2>2, <2>3 DEF LeaseInv, MailInv, Up
<1>10. ASSUME NEW d \in Conns PROVE SlotInv(d)'
  <2>1. CASE d = c
    BY <1>5, <1>6, <1>7, <2>1 DEF SlotInv, Awaiting
  <2>2. CASE d # c
    <3>1. worker'[d] = worker[d]
      BY <1>3, <2>2 DEF TypeInv
    <3>2. conn[d].slot # NoJob => conn[d].slot.owner \in Tasks \ {t}
      BY <1>1, <2>2, OthersSlot
    <3> QED
      BY <1>5, <2>2, <3>1, <3>2, SlotKept DEF MailInv
  <2> QED
    BY <2>1, <2>2
<1>11. ASSUME NEW u \in Tasks PROVE JobInv(u)'
  <2>1. CASE u = t
    <3>1. /\ task'[t].n <= MaxJobs[t] + 1
          /\ then = "await" => task'[t].n <= MaxJobs[t]
      BY <1>2, <1>5 DEF Calls
    <3>2. /\ Fits(j.kind, j.stmts) /\ Shape(then, j.stmts)
          /\ then = "ending" \/ "begin" \in ToSet(j.stmts) => task[t].tx
      BY <1>4, <1>7 DEF Calls
    <3> QED
      BY <1>5, <1>6, <2>1, <3>1, <3>2 DEF JobInv, Awaiting
  <2>2. CASE u # t
    BY <1>5, <2>2, JobKept DEF MailInv
  <2> QED
    BY <2>1, <2>2
<1> QED
  BY <1>8, <1>9, <1>10, <1>11 DEF MailInv

LEMMA ReceiveKeepsMail ==
    ASSUME MailInvs, NEW t \in Tasks, Receive(t)
    PROVE  MailInvs'
<1> USE DEF MailInvs
<1>1. PICK c \in Conns : c = task[t].conn
  BY DEF Receive, Resumes, MailInv, LeaseInv
<1>2. Receives(t)
  BY <1>1, ReceiveEffect
<1>3. /\ pool.phase = "open" /\ UNCHANGED <<pool, worker, session, db>>
      /\ task[t].pc \in {"await", "ending"} /\ task[t].port # "none"
      /\ \E fine \in BOOLEAN : ReceivesAs(t, fine)
  BY <1>2 DEF Receives
<1>4. /\ conn' \in [Conns -> ConnStates] /\ task' \in [Tasks -> TaskStates]
      /\ \A d \in Conns \ {c} : conn'[d] = conn[d]
      /\ conn'[c].slot = conn[c].slot /\ conn'[c].inUse = conn[c].inUse
      /\ task'[t].pc \in {"body", "thrown", "leaving"}
      /\ task[t].pc = "await" => task'[t].pc \in {"body", "thrown"}
      /\ task[t].pc = "ending" => task'[t].pc = "leaving"
      /\ task'[t].conn = c /\ task'[t].port = "none" /\ task'[t].n = task[t].n
      /\ task'[t].tx = task[t].tx /\ task'[t].begin = task[t].begin
      /\ \A u \in Tasks \ {t} : task'[u] = task[u]
  BY <1>1, <1>3 DEF ReceivesAs, ConnBecomes, TaskBecomes, ConnRec, TaskRec, After
<1>5. conn[c].slot = NoJob
  BY <1>1, <1>3, OwnSlot
<1>6. TypeInv' /\ LoopInv'
  BY <1>3, <1>4 DEF TypeInv, LoopInv
<1>7. LeaseInv'
  <2>1. \A u \in Tasks : task'[u].conn = task[u].conn
                         /\ (task'[u].pc = "out" <=> task[u].pc = "out")
    BY <1>1, <1>3, <1>4
  <2>2. \A d \in Conns : conn'[d].inUse = conn[d].inUse
    BY <1>4
  <2> QED
    BY <1>3, <2>1, <2>2 DEF LeaseInv, MailInv, Up
<1>8. ASSUME NEW d \in Conns PROVE SlotInv(d)'
  <2>1. conn[d].slot # NoJob => conn[d].slot.owner \in Tasks \ {t}
    BY <1>1, <1>5, OthersSlot
  <2>2. conn'[d].slot = conn[d].slot /\ conn'[d].inUse = conn[d].inUse
        /\ worker'[d] = worker[d]
    BY <1>3, <1>4
  <2> QED
    BY <1>4, <2>1, <2>2, SlotKept DEF MailInv
<1>9. ASSUME NEW u \in Tasks PROVE JobInv(u)'
  <2>1. CASE u = t
    BY <1>3, <1>4, <2>1 DEF JobInv, Awaiting, MailInv
  <2>2. CASE u # t
    BY <1>4, <2>2, JobKept DEF MailInv
  <2> QED
    BY <2>1, <2>2
<1> QED
  BY <1>6, <1>7, <1>8, <1>9 DEF MailInv

LEMMA ReleaseKeepsMail ==
    ASSUME MailInvs, NEW t \in Tasks, Release(t)
    PROVE  MailInvs'
<1> USE DEF MailInvs
<1>1. PICK c \in Conns : c = task[t].conn
  BY DEF Release, MailInv, LeaseInv
<1>2. Releases(t) /\ db \in SUBSET Ids
  BY <1>1, ReleaseEffect DEF TypeInv
<1>3. /\ pool.phase = "open" /\ UNCHANGED <<pool, worker, session>>
      /\ task[t].pc \in {"body", "thrown", "leaving"} /\ db' \in SUBSET Ids
      /\ conn' \in [Conns -> ConnStates] /\ task' \in [Tasks -> TaskStates]
      /\ \A d \in Conns \ {c} : conn'[d] = conn[d]
      /\ conn'[c].slot = conn[c].slot
      /\ task'[t].pc = "out" /\ task'[t].port = "none" /\ task'[t].n = task[t].n
      /\ ~task'[t].begin
      /\ \A u \in Tasks \ {t} : task'[u] = task[u]
  BY <1>1, <1>2 DEF Releases, ConnBecomes, TaskBecomes, ConnRec, TaskRec
<1>4. conn[c].slot = NoJob
  BY <1>1, <1>3, OwnSlot DEF Awaiting
<1>5. \A u \in Tasks \ {t} : task[u].pc # "out" => task[u].conn # c
  BY <1>1, <1>3 DEF MailInv, LeaseInv
<1>6. TypeInv' /\ LoopInv'
  BY <1>3 DEF TypeInv, LoopInv
<1>7. LeaseInv'
  <2>1. \A u \in Tasks : task'[u].pc # "out" => task'[u] = task[u] /\ u # t
    BY <1>3
  <2> QED
    BY <1>3, <1>5, <2>1 DEF LeaseInv, MailInv, Up
<1>8. ASSUME NEW d \in Conns PROVE SlotInv(d)'
  <2>1. CASE d = c
    BY <1>3, <1>4, <2>1 DEF SlotInv, MailInv
  <2>2. CASE d # c
    <3>1. conn[d].slot # NoJob => conn[d].slot.owner \in Tasks \ {t}
      BY <1>1, <2>2, OthersSlot
    <3> QED
      BY <1>3, <2>2, <3>1, SlotKept DEF MailInv
  <2> QED
    BY <2>1, <2>2
<1>9. ASSUME NEW u \in Tasks PROVE JobInv(u)'
  <2>1. CASE u = t
    <3>1. task[t].n <= MaxJobs[t] + 1 /\ task[t].n \in Nat /\ MaxJobs[t] \in Nat
      BY Records, ConstantsTyped DEF MailInv, JobInv, TaskStates
    <3> QED
      BY <1>3, <2>1, <3>1 DEF JobInv, Awaiting
  <2>2. CASE u # t
    BY <1>3, <2>2, JobKept DEF MailInv
  <2> QED
    BY <2>1, <2>2
<1> QED
  BY <1>6, <1>7, <1>8, <1>9 DEF MailInv

LEMMA CheckKeepsMail ==
    ASSUME MailInvs, NEW c \in Conns, Check(c)
    PROVE  MailInvs'
<1> USE DEF MailInvs
<1>1. /\ UNCHANGED <<pool, conn, session, db, task>>
      /\ worker' = [worker EXCEPT ![c] = IF conn[c].slot # NoJob THEN "send"
                                        ELSE IF conn[c].stop THEN "exited"
                                        ELSE "asleep"]
  BY DEF Check
<1>2. TypeInv' /\ LoopInv'
  BY <1>1 DEF TypeInv, LoopInv, WorkerStates
<1>3. LeaseInv'
  BY <1>1 DEF LeaseInv, MailInv, Up
<1>4. ASSUME NEW d \in Conns PROVE SlotInv(d)'
  BY <1>1 DEF SlotInv, MailInv, TypeInv, Awaiting
<1>5. ASSUME NEW u \in Tasks PROVE JobInv(u)'
  BY <1>1, JobKept DEF MailInv
<1> QED
  BY <1>2, <1>3, <1>4, <1>5 DEF MailInv

(* The task an answer is for awaits it on this connection.                  *)
LEMMA Answered ==
    ASSUME MailInvs, NEW c \in Conns, worker[c] \in {"send", "server"}
    PROVE  LET job == conn[c].slot
               t == job.owner
           IN  /\ job # NoJob /\ job \in Jobs /\ t \in Tasks
               /\ Awaiting(t) /\ task[t].port = "none"
               /\ task[t].conn = c /\ task[t].job = job
               /\ job.id \in {t} \X (1..task[t].n)
               /\ Fits(job.kind, job.stmts) /\ Shape(task[t].pc, job.stmts)
               /\ task[t].pc = "ending" \/ "begin" \in ToSet(job.stmts) => task[t].tx
<1>1. conn[c].slot # NoJob /\ conn[c].slot \in Jobs
  BY Records DEF MailInvs, MailInv, SlotInv, ConnStates
<1> QED
  BY <1>1 DEF MailInvs, MailInv, SlotInv, JobInv

LEMMA AnswerKeepsMail ==
    ASSUME MailInvs, NEW c \in Conns, worker[c] \in {"send", "server"},
           NEW last, NEW error, NEW code, Answers(c, last, error, code),
           session' \in [Conns -> SessionStates], db' \in SUBSET Ids
    PROVE  MailInvs'
<1> USE DEF MailInvs
<1>1. PICK t \in Tasks : t = conn[c].slot.owner
  BY Answered
<1>2. Awaiting(t) /\ task[t].port = "none" /\ task[t].conn = c
  BY <1>1, Answered
<1>3. /\ UNCHANGED pool
      /\ worker' = [worker EXCEPT ![c] = "check"]
      /\ conn' \in [Conns -> ConnStates] /\ task' \in [Tasks -> TaskStates]
      /\ \A d \in Conns \ {c} : conn'[d] = conn[d]
      /\ conn'[c].slot = NoJob /\ conn'[c].inUse = conn[c].inUse
      /\ task'[t].pc = task[t].pc /\ task'[t].conn = c /\ task'[t].tx = task[t].tx
      /\ task'[t].begin = task[t].begin
      /\ task'[t].n = task[t].n /\ task'[t].job = task[t].job
      /\ \A u \in Tasks \ {t} : task'[u] = task[u]
  BY <1>1, <1>2 DEF Answers, ConnBecomes, TaskBecomes, ConnRec, TaskRec
<1>4. TypeInv' /\ LoopInv'
  BY <1>3 DEF TypeInv, LoopInv, WorkerStates
<1>5. LeaseInv'
  <2>1. \A u \in Tasks : task'[u].conn = task[u].conn
                         /\ (task'[u].pc = "out" <=> task[u].pc = "out")
    BY <1>2, <1>3
  <2>2. \A d \in Conns : conn'[d].inUse = conn[d].inUse
    BY <1>3
  <2> QED
    BY <1>3, <2>1, <2>2 DEF LeaseInv, MailInv, Up
<1>6. ASSUME NEW d \in Conns PROVE SlotInv(d)'
  <2>1. CASE d = c
    BY <1>3, <2>1 DEF SlotInv, TypeInv
  <2>2. CASE d # c
    <3>1. conn[d].slot # NoJob => conn[d].slot.owner \in Tasks \ {t}
      BY <1>2, <2>2, OthersSlot
    <3>2. worker'[d] = worker[d]
      BY <1>3, <2>2 DEF TypeInv
    <3> QED
      BY <1>3, <2>2, <3>1, <3>2, SlotKept DEF MailInv
  <2> QED
    BY <2>1, <2>2
<1>7. ASSUME NEW u \in Tasks PROVE JobInv(u)'
  <2>1. CASE u = t
    BY <1>2, <1>3, <2>1 DEF JobInv, Awaiting, MailInv
  <2>2. CASE u # t
    BY <1>3, <2>2, JobKept DEF MailInv
  <2> QED
    BY <2>1, <2>2
<1> QED
  BY <1>4, <1>5, <1>6, <1>7 DEF MailInv


LEMMA WorkEffect ==
    ASSUME MailInvs, NEW c \in Conns, Work(c)
    PROVE  Check(c) \/ Sends(c) \/ Succeeds(c) \/ Fails(c)
<1>1. Send(c) \/ ServeAll(c) \/ ServeSome(c) => worker[c] \in {"send", "server"}
  BY DEF Send, ServeAll, ServeSome
<1>2. TypeInv /\ (worker[c] \in {"send", "server"} => conn[c].slot.owner \in Tasks)
  BY Answered DEF MailInvs
<1> QED
  BY <1>1, <1>2, SendEffect, ServeAllEffect, ServeSomeEffect DEF Work

LEMMA SendKeepsMail ==
    ASSUME MailInvs, NEW c \in Conns, Sends(c)
    PROVE  MailInvs'
<1> USE DEF MailInvs
<1>1. worker[c] = "send" /\ UNCHANGED <<pool, session, db>>
  BY DEF Sends
<1>2. CASE Answers(c, conn[c].last, conn[c].slot.id, "aborted")
  BY <1>1, <1>2, AnswerKeepsMail DEF TypeInv
<1>3. CASE /\ worker' = [worker EXCEPT ![c] = "server"]
           /\ ConnBecomes(c, ConnRec(conn[c].inUse, conn[c].slot, conn[c].last,
                                     NoId, conn[c].stop))
           /\ UNCHANGED task
  <2>1. /\ conn' \in [Conns -> ConnStates]
        /\ \A d \in Conns : conn'[d].slot = conn[d].slot
                            /\ conn'[d].inUse = conn[d].inUse
    BY <1>3 DEF ConnBecomes, ConnRec
  <2>2. TypeInv' /\ LoopInv'
    BY <1>1, <1>3, <2>1 DEF TypeInv, LoopInv, WorkerStates
  <2>3. LeaseInv'
    BY <1>1, <1>3, <2>1 DEF LeaseInv, MailInv, Up
  <2>4. ASSUME NEW d \in Conns PROVE SlotInv(d)'
    <3>1. worker'[d] \in {"send", "server"} => worker[d] \in {"send", "server"}
      BY <1>1, <1>3 DEF TypeInv
    <3> QED
      BY <1>3, <2>1, <3>1, SlotKept DEF MailInv
  <2>5. ASSUME NEW u \in Tasks PROVE JobInv(u)'
    BY <1>3, JobKept DEF MailInv
  <2> QED
    BY <2>2, <2>3, <2>4, <2>5 DEF MailInv
<1> QED
  BY <1>2, <1>3 DEF Sends

LEMMA WorkKeepsMail ==
    ASSUME MailInvs, NEW c \in Conns, Work(c)
    PROVE  MailInvs'
<1>1. CASE Succeeds(c)
  <2>1. /\ worker[c] = "server" /\ session' \in [Conns -> SessionStates]
        /\ db' = Effects(c, conn[c].slot.stmts).db
        /\ Answers(c, Chain(c), conn[c].error, "ok")
    BY <1>1 DEF Succeeds, SessBecomes
  <2>2. db' \in SUBSET Ids
    BY <2>1, EffectsTyped DEF MailInvs
  <2> QED
    BY <2>1, <2>2, AnswerKeepsMail
<1>2. CASE Fails(c)
  <2>1. PICK k \in 0..Len(conn[c].slot.stmts), lost \in BOOLEAN : FailsAt(c, k, lost)
    BY <1>2 DEF Fails
  <2>2. /\ worker[c] = "server" /\ session' \in [Conns -> SessionStates]
        /\ db' = Effects(c, SubSeq(conn[c].slot.stmts, 1, k)).db
        /\ Answers(c, conn[c].last, conn[c].slot.id, "aborted")
    BY <1>2, <2>1 DEF Fails, FailsAt, SessBecomes
  <2>3. db' \in SUBSET Ids
    BY <2>2, EffectsTyped DEF MailInvs
  <2> QED
    BY <2>2, <2>3, AnswerKeepsMail
<1> QED
  BY <1>1, <1>2, WorkEffect, CheckKeepsMail, SendKeepsMail

LEMMA Gone ==
    ASSUME pool \in PoolStates, NEW at \in Conns,
           NEW phase \in {"stop", "join", "freed"}, Goto(phase, at)
    PROVE  /\ pool' \in PoolStates /\ pool'.phase = phase /\ pool'.at = at
           /\ pool'.made = pool.made
BY DEF PoolStates

(* Where tearing down goes on, within the connections that were made.       *)
LEMMA TearDownGoes ==
    ASSUME TypeInv, LoopInv, Stop \/ Join
    PROVE  \E phase \in {"stop", "join", "freed"}, at \in Conns :
              Goto(phase, at) /\ (phase # "freed" => at <= pool.made)
<1> HIDE DEF Goto
<1>1. pool.phase \in {"stop", "join"} /\ pool \in PoolStates
  BY Records DEF Stop, Join
<1>2. /\ pool.at \in Nat /\ pool.made \in Nat /\ pool.made <= MaxSize
      /\ pool.at <= pool.made /\ pool.at \in Conns /\ 1 \in Conns
  BY <1>1, ConstantsTyped DEF PoolStates, Conns, LoopInv
<1>3. pool.at # pool.made => pool.at + 1 \in Conns /\ pool.at + 1 <= pool.made
  BY <1>2, ConstantsTyped DEF Conns
<1>4. 1 <= pool.made
  BY <1>2 DEF Conns
<1>5. CASE Stop
  <2>1. CASE pool.undo
    <3>1. Goto("join", pool.at)
      BY <1>5, <2>1 DEF Stop
    <3> QED
      BY <1>2, <3>1
  <2>2. CASE ~pool.undo /\ pool.at < pool.made
    <3>1. Goto("stop", pool.at + 1)
      BY <1>5, <2>2 DEF Stop
    <3> QED
      BY <1>2, <1>3, <2>2, <3>1
  <2>3. CASE ~pool.undo /\ ~(pool.at < pool.made)
    <3>1. Goto("join", 1)
      BY <1>5, <2>3 DEF Stop
    <3> QED
      BY <1>2, <1>4, <3>1
  <2> QED
    BY <2>1, <2>2, <2>3
<1>6. CASE Join
  <2>1. CASE pool.at = pool.made
    <3>1. Goto("freed", 1)
      BY <1>6, <2>1 DEF Join
    <3> QED
      BY <1>2, <3>1
  <2>2. CASE pool.at # pool.made
    <3>1. PICK phase \in {"stop", "join"} : Goto(phase, pool.at + 1)
      BY <1>6, <2>2 DEF Join
    <3> QED
      BY <1>3, <2>2, <3>1
  <2> QED
    BY <2>1, <2>2
<1> QED
  BY <1>5, <1>6

LEMMA LifecyclePool ==
    ASSUME TypeInv, LoopInv, Lifecycle \/ Destroy
    PROVE  pool' \in PoolStates /\ LoopInv' /\ (Up' => pool.phase = "create")
<1>1. CASE CreateConn
  <2>1. /\ pool \in PoolStates /\ pool.at \in Conns /\ pool.made = pool.at - 1
        /\ pool.phase = "create" /\ 1 \in Conns
    BY <1>1, Records, ConstantsTyped DEF CreateConn, LoopInv, PoolStates
  <2> DEFINE phase == IF pool.at = MaxSize THEN "open" ELSE "create"
             at == IF pool.at = MaxSize THEN 1 ELSE pool.at + 1
             made == pool.made + 1
  <2>2. pool' = [pool EXCEPT !.made = made, !.phase = phase, !.at = at]
    BY <1>1, <2>1 DEF CreateConn
  <2>3. /\ made \in 0..MaxSize /\ at \in Conns /\ phase \in {"open", "create"}
        /\ phase = "open" => made = MaxSize
        /\ phase = "create" => made = at - 1
    <3>1. made = pool.at /\ pool.at \in Nat /\ pool.at <= MaxSize /\ MaxSize \in Nat
      BY <2>1, ConstantsTyped DEF Conns
    <3>2. CASE pool.at = MaxSize
      BY <2>1, <3>1, <3>2
    <3>3. CASE pool.at # MaxSize
      <4>1. at = pool.at + 1 /\ phase = "create" /\ pool.at + 1 \in Conns
        BY <3>1, <3>3 DEF Conns
      <4> HIDE DEF made, at, phase
      <4> QED
        BY <3>1, <4>1
    <3> QED
      BY <3>2, <3>3
  <2> HIDE DEF phase, at, made
  <2>4. /\ pool' \in PoolStates /\ pool'.phase = phase /\ pool'.at = at
        /\ pool'.made = made
    BY <2>1, <2>2, <2>3 DEF PoolStates
  <2> QED
    BY <1>1, <2>1, <2>3, <2>4 DEF CreateConn, LoopInv, Up
<1>2. CASE CreateFails
  <2>1. /\ pool \in PoolStates /\ pool.at \in Conns /\ pool.made = pool.at - 1
        /\ pool.phase = "create" /\ 1 \in Conns
    BY <1>2, Records, ConstantsTyped DEF CreateFails, LoopInv, PoolStates
  <2>2. PICK phase \in {"freed", "stop"} :
           /\ pool' = [pool EXCEPT !.phase = phase, !.at = 1, !.undo = TRUE]
           /\ phase = "stop" => pool.made # 0
    BY <1>2 DEF CreateFails
  <2>3. /\ pool' \in PoolStates /\ pool'.phase = phase /\ pool'.at = 1
        /\ pool'.made = pool.made
    BY <2>1, <2>2 DEF PoolStates
  <2> QED
    BY <2>1, <2>2, <2>3 DEF LoopInv, Up, Conns
<1>3. CASE Destroy
  <2>1. /\ pool' \in PoolStates /\ pool'.phase = "stop" /\ pool'.at = 1
        /\ pool'.made = pool.made
    BY <1>3, Gone, Records, ConstantsTyped DEF Destroy
  <2> QED
    BY <1>3, <2>1, ConstantsTyped DEF Destroy, LoopInv, Up
<1>4. CASE Stop \/ Join
  <2>1. PICK phase \in {"stop", "join", "freed"}, at \in Conns :
           Goto(phase, at) /\ (phase # "freed" => at <= pool.made)
    BY <1>4, TearDownGoes
  <2>2. /\ pool' \in PoolStates /\ pool'.phase = phase /\ pool'.at = at
        /\ pool'.made = pool.made
    BY <2>1, Gone, Records
  <2> QED
    BY <2>1, <2>2 DEF LoopInv, Up
<1> QED
  BY <1>1, <1>2, <1>3, <1>4 DEF Lifecycle

(* create and destroy leave the isolate alone, and replace a connection     *)
(* only before anybody leases one, or after its thread has exited.          *)
LEMMA LifecycleQuiet ==
    ASSUME TypeInv, Lifecycle \/ Destroy
    PROVE  /\ UNCHANGED <<db, task>>
           /\ conn' \in [Conns -> ConnStates] /\ session' \in [Conns -> SessionStates]
           /\ worker' \in [Conns -> WorkerStates]
           /\ \A d \in Conns :
                 /\ worker'[d] \in {"send", "server"} => worker'[d] = worker[d]
                 /\ \/ /\ conn'[d].slot = conn[d].slot
                       /\ conn'[d].inUse = conn[d].inUse
                       /\ session'[d].up = session[d].up
                       /\ session'[d].txn = session[d].txn
                       /\ session'[d].dirty = session[d].dirty
                       /\ session'[d].unread = session[d].unread
                       /\ pool.phase # "stop" => session'[d] = session[d]
                    \/ /\ conn'[d].slot = NoJob
                       /\ session'[d] \in {FreshSession(TRUE), FreshSession(FALSE)}
                       /\ worker'[d] \notin {"send", "server"}
<1>1. pool.at \in Conns
  BY Records DEF PoolStates
<1>2. CASE CreateConn
  <2>1. Creates
    BY <1>2, CreateEffect
  <2>2. /\ worker' = [worker EXCEPT ![pool.at] = "check"]
        /\ conn' \in [Conns -> ConnStates] /\ session' \in [Conns -> SessionStates]
        /\ conn'[pool.at].slot = NoJob /\ session'[pool.at] = FreshSession(TRUE)
        /\ \A d \in Conns \ {pool.at} : conn'[d] = conn[d] /\ session'[d] = session[d]
        /\ UNCHANGED <<db, task>>
    BY <2>1 DEF Creates, ConnBecomes, SessBecomes, FreshConn
  <2> QED
    BY <1>1, <2>2 DEF TypeInv, WorkerStates
<1>3. CASE CreateFails \/ Destroy
  BY <1>3 DEF CreateFails, Destroy, TypeInv
<1>4. CASE Stop
  <2>1. Stops
    BY <1>4, StopEffect
  <2>2. /\ pool.phase = "stop" /\ worker' = [worker EXCEPT ![pool.at] = Woken(pool.at)]
        /\ conn' \in [Conns -> ConnStates] /\ session' \in [Conns -> SessionStates]
        /\ \A d \in Conns : /\ conn'[d].slot = conn[d].slot
                            /\ conn'[d].inUse = conn[d].inUse
                            /\ session'[d].up = session[d].up
                            /\ session'[d].txn = session[d].txn
                            /\ session'[d].dirty = session[d].dirty
                            /\ session'[d].unread = session[d].unread
        /\ UNCHANGED <<db, task>>
    BY <2>1 DEF Stops, ConnBecomes, SessBecomes, ConnRec, SessRec
  <2> QED
    BY <1>1, <2>2 DEF TypeInv, WorkerStates
<1>5. CASE Join
  <2>1. Joins
    BY <1>5, JoinEffect
  <2>2. /\ UNCHANGED worker /\ worker[pool.at] = "exited"
        /\ conn' \in [Conns -> ConnStates] /\ session' \in [Conns -> SessionStates]
        /\ conn'[pool.at].slot = NoJob /\ session'[pool.at] = FreshSession(FALSE)
        /\ \A d \in Conns \ {pool.at} : conn'[d] = conn[d] /\ session'[d] = session[d]
        /\ UNCHANGED <<db, task>>
    BY <2>1 DEF Joins, ConnBecomes, SessBecomes, ConnRec
  <2> QED
    BY <1>1, <2>2 DEF TypeInv, WorkerStates
<1> QED
  BY <1>2, <1>3, <1>4, <1>5 DEF Lifecycle

LEMMA LifecycleKeepsMail ==
    ASSUME MailInvs, Lifecycle \/ Destroy
    PROVE  MailInvs'
<1>1. TypeInv /\ LoopInv /\ LeaseInv
  BY DEF MailInvs, MailInv
<1>2. pool' \in PoolStates /\ LoopInv' /\ (Up' => pool.phase = "create")
  BY <1>1, LifecyclePool
<1>3. /\ UNCHANGED <<db, task>>
      /\ conn' \in [Conns -> ConnStates] /\ session' \in [Conns -> SessionStates]
      /\ worker' \in [Conns -> WorkerStates]
  BY <1>1, LifecycleQuiet
<1>4. TypeInv'
  BY <1>1, <1>2, <1>3 DEF TypeInv
<1>5. LeaseInv'
  BY <1>1, <1>2, <1>3 DEF LeaseInv, Up
<1>6. ASSUME NEW d \in Conns PROVE SlotInv(d)'
  <2>1. SlotInv(d)
    BY DEF MailInvs, MailInv
  <2>2. CASE conn'[d].slot = NoJob /\ worker'[d] \notin {"send", "server"}
    BY <2>2 DEF SlotInv
  <2>3. CASE conn'[d].slot = conn[d].slot /\ conn'[d].inUse = conn[d].inUse
    BY <1>1, <1>3, <2>1, <2>3, LifecycleQuiet, SlotKept
  <2> QED
    BY <1>1, <2>2, <2>3, LifecycleQuiet
<1>7. ASSUME NEW u \in Tasks PROVE JobInv(u)'
  BY <1>3, JobKept DEF MailInvs, MailInv
<1> QED
  BY <1>2, <1>4, <1>5, <1>6, <1>7 DEF MailInvs, MailInv

LEMMA MailStutters ==
    ASSUME MailInvs, UNCHANGED vars
    PROVE  MailInvs'
<1>1. /\ UNCHANGED <<pool, conn, worker, session, db, task>>
      /\ TypeInv /\ LoopInv /\ LeaseInv
      /\ (\A c \in Conns : SlotInv(c)) /\ (\A t \in Tasks : JobInv(t))
  BY DEF vars, MailInvs, MailInv
<1>2. TypeInv' /\ LoopInv' /\ LeaseInv'
  BY <1>1 DEF TypeInv, LoopInv, LeaseInv, Up
<1>3. \A c \in Conns : SlotInv(c)'
  BY <1>1 DEF SlotInv, Awaiting
<1>4. \A t \in Tasks : JobInv(t)'
  BY <1>1 DEF JobInv, Awaiting
<1> QED
  BY <1>2, <1>3, <1>4 DEF MailInvs, MailInv

LEMMA TaskKeepsMail ==
    ASSUME MailInvs, NEW t \in Tasks, TaskStep(t)
    PROVE  MailInvs'
BY TaskSteps, LeaseKeepsMail, SubmitKeepsMail, ReceiveKeepsMail, ReleaseKeepsMail

(* The statements travel in order: a filled slot holds the call its lessee  *)
(* awaits, for every number of connections and tasks.                       *)
THEOREM MailInvariance == Spec => []MailInvs
<1>1. ASSUME MailInvs, [Next]_vars PROVE MailInvs'
  BY <1>1, MailStutters, TaskKeepsMail, WorkKeepsMail, LifecycleKeepsMail DEF Next
<1> QED
  BY <1>1, MailInit, PTL DEF Spec

(* TypeOK, of every reachable state.                                        *)
THEOREM MysqlTypeOK == Spec => []TypeOK
<1>1. MailInvs => TypeOK
  <2> SUFFICES ASSUME TypeInv PROVE TypeOK
    BY DEF MailInvs
  <2>1. /\ pool.phase \in {"create", "open", "stop", "join", "freed"}
        /\ pool.at \in Conns /\ pool.made \in 0..MaxSize /\ pool.undo \in BOOLEAN
        /\ db \subseteq Ids
    BY DEF TypeInv, PoolStates
  <2>2. ASSUME NEW c \in Conns
        PROVE  /\ conn[c].inUse \in BOOLEAN /\ conn[c].stop \in BOOLEAN
               /\ conn[c].slot.id \in Ids /\ conn[c].error \in Ids
               /\ conn[c].last \in Seq([id : Ids, stmt : Nat])
               /\ OneCall(conn[c].last)
               /\ worker[c] \in WorkerStates
               /\ session[c].up \in BOOLEAN /\ session[c].txn \in BOOLEAN
               /\ session[c].dirty \subseteq Ids
    BY Records DEF TypeInv, ConnStates, SessionStates, Chains, Jobs
  <2>3. ASSUME NEW t \in Tasks
        PROVE  /\ task[t].pc \in {"out", "body", "await", "ending", "thrown",
                                  "leaving"}
               /\ task[t].conn \in 0..MaxSize
    BY Records, ConstantsTyped DEF TaskStates, Conns
  <2> QED
    BY <2>1, <2>2, <2>3 DEF TypeOK, WorkerStates
<1> QED
  BY <1>1, MailInvariance, PTL

-------------------------------------------------------------------------------
(* Who stands aside: the other tasks, and the connections they are on.      *)
LEMMA TaskAside ==
    ASSUME MailInvs, NEW t \in Tasks, TaskStep(t)
    PROVE  /\ UNCHANGED <<pool, session>> /\ pool.phase = "open"
           /\ \A u \in Tasks \ {t} :
                 /\ task'[u] = task[u]
                 /\ task[u].pc # "out" => conn'[task[u].conn] = conn[task[u].conn]
<1> USE DEF MailInvs
<1>1. CASE \E tx \in BOOLEAN : Lease(t, tx)
  <2>1. Leases(t)
    BY <1>1, LeaseEffect
  <2>2. PICK c \in Conns, tx \in BOOLEAN : LeasesAt(t, tx, c)
    BY <2>1 DEF Leases
  <2>3. /\ ~conn[c].inUse /\ \A d \in Conns \ {c} : conn'[d] = conn[d]
        /\ \A u \in Tasks \ {t} : task'[u] = task[u]
    BY <2>2 DEF LeasesAt, ConnBecomes, TaskBecomes
  <2>4. UNCHANGED <<pool, session>> /\ pool.phase = "open"
    BY <2>1 DEF Leases
  <2>5. \A u \in Tasks : task[u].pc # "out" => task[u].conn \in Conns \ {c}
    BY <2>3, <2>4 DEF MailInv, LeaseInv, Up
  <2> QED
    BY <2>3, <2>4, <2>5
<1>2. ASSUME NEW c, task[t].pc # "out", c = task[t].conn,
             \A d \in Conns \ {c} : conn'[d] = conn[d]
      PROVE  \A u \in Tasks \ {t} :
                task[u].pc # "out" => conn'[task[u].conn] = conn[task[u].conn]
  BY <1>2, Apart
<1>3. task[t].pc # "out" => task[t].conn \in Conns
  BY DEF MailInv, LeaseInv
<1>4. CASE \E kind \in Kinds, stmts \in Seq(Stmts), then \in {"await", "ending"} :
              Calls(t, kind, stmts, then) /\ Submit(t, kind, stmts, then)
  <2>1. PICK kind \in Kinds, stmts \in Seq(Stmts), then \in {"await", "ending"} :
           Calls(t, kind, stmts, then) /\ Submit(t, kind, stmts, then)
    BY <1>4
  <2>2. task[t].pc # "out" /\ task[t].n <= MaxJobs[t]
    BY <2>1 DEF Calls
  <2>3. Submits(t, kind, stmts, then)
    BY <1>3, <2>1, <2>2, SubmitEffect
  <2>4. PICK j : SubmitsJob(t, j, then)
    BY <2>3 DEF Submits
  <2>5. /\ \A d \in Conns \ {task[t].conn} : conn'[d] = conn[d]
        /\ \A u \in Tasks \ {t} : task'[u] = task[u]
    BY <2>4 DEF SubmitsJob, ConnBecomes, TaskBecomes
  <2> QED
    BY <1>2, <2>2, <2>3, <2>5 DEF Submits
<1>5. CASE Receive(t)
  <2>1. Receives(t) /\ task[t].pc # "out"
    BY <1>3, <1>5, ReceiveEffect DEF Receive, Resumes
  <2>2. PICK fine \in BOOLEAN : ReceivesAs(t, fine)
    BY <2>1 DEF Receives
  <2>3. /\ \A d \in Conns \ {task[t].conn} : conn'[d] = conn[d]
        /\ \A u \in Tasks \ {t} : task'[u] = task[u]
    BY <2>2 DEF ReceivesAs, ConnBecomes, TaskBecomes
  <2> QED
    BY <1>2, <2>1, <2>3 DEF Receives
<1>6. CASE Release(t)
  <2>1. Releases(t) /\ task[t].pc # "out"
    BY <1>3, <1>6, ReleaseEffect DEF Release
  <2>2. /\ \A d \in Conns \ {task[t].conn} : conn'[d] = conn[d]
        /\ \A u \in Tasks \ {t} : task'[u] = task[u]
    BY <2>1 DEF Releases, ConnBecomes, TaskBecomes
  <2> QED
    BY <1>2, <2>1, <2>2 DEF Releases
<1> QED
  BY <1>1, <1>4, <1>5, <1>6, TaskSteps

(* A worker looks, sends, or answers the lessee of its connection.          *)
Looks(c) ==
    /\ UNCHANGED <<pool, session, db, task>>
    /\ \A d \in Conns : /\ conn'[d].slot = conn[d].slot
                        /\ conn'[d].inUse = conn[d].inUse
                        /\ conn'[d].last = conn[d].last
                        /\ conn[d].slot = NoJob => conn'[d].error = conn[d].error
    /\ \A d \in Conns \ {c} : worker'[d] = worker[d]
    /\ worker'[c] = "server" => session[c].up /\ ~session[c].unread
AnswersTo(c, last, error, code) ==
    /\ UNCHANGED pool /\ conn' \in [Conns -> ConnStates]
    /\ \A d \in Conns \ {c} : conn'[d] = conn[d] /\ worker'[d] = worker[d]
    /\ conn'[c].slot = NoJob /\ conn'[c].last = last /\ conn'[c].error = error
    /\ conn'[c].inUse = conn[c].inUse /\ worker'[c] = "check"
    /\ \E t \in Tasks :
          /\ t = conn[c].slot.owner /\ Awaiting(t) /\ task[t].port = "none"
          /\ task[t].conn = c /\ task[t].job = conn[c].slot
          /\ task'[t].pc = task[t].pc /\ task'[t].n = task[t].n /\ task'[t].conn = c
          /\ task'[t].tx = task[t].tx /\ task'[t].begin = task[t].begin
          /\ task'[t].job = task[t].job /\ task'[t].port = code
          /\ task'[t].wrote = task[t].wrote /\ task'[t].outcome = task[t].outcome
          /\ \A u \in Tasks \ {t} : task'[u] = task[u]

LEMMA AnswerIsTo ==
    ASSUME MailInvs, NEW c \in Conns, worker[c] \in {"send", "server"},
           NEW last, NEW error, NEW code, Answers(c, last, error, code)
    PROVE  AnswersTo(c, last, error, code)
<1>1. PICK t \in Tasks : t = conn[c].slot.owner
  BY Answered
<1>2. /\ Awaiting(t) /\ task[t].port = "none" /\ task[t].conn = c
      /\ task[t].job = conn[c].slot
  BY <1>1, Answered
<1>3. /\ task'[t].pc = task[t].pc /\ task'[t].n = task[t].n /\ task'[t].conn = c
      /\ task'[t].tx = task[t].tx /\ task'[t].begin = task[t].begin
      /\ task'[t].job = task[t].job /\ task'[t].port = code
      /\ task'[t].wrote = task[t].wrote /\ task'[t].outcome = task[t].outcome
      /\ \A u \in Tasks \ {t} : task'[u] = task[u]
  BY <1>1, <1>2 DEF Answers, TaskBecomes, TaskRec
<1>4. /\ UNCHANGED pool /\ conn' \in [Conns -> ConnStates]
      /\ \A d \in Conns \ {c} : conn'[d] = conn[d]
      /\ conn'[c].slot = NoJob /\ conn'[c].last = last /\ conn'[c].error = error
      /\ conn'[c].inUse = conn[c].inUse /\ worker' = [worker EXCEPT ![c] = "check"]
  BY DEF Answers, ConnBecomes, ConnRec
<1>5. worker'[c] = "check" /\ \A d \in Conns \ {c} : worker'[d] = worker[d]
  BY <1>4 DEF MailInvs, TypeInv
<1> QED
  BY <1>1, <1>2, <1>3, <1>4, <1>5 DEF AnswersTo

LEMMA WorkSteps ==
    ASSUME MailInvs, NEW c \in Conns, Work(c)
    PROVE  \/ Looks(c)
           \/ /\ worker[c] \in {"send", "server"}
              /\ \/ Succeeds(c) /\ AnswersTo(c, Chain(c), conn[c].error, "ok")
                 \/ /\ \/ Fails(c)
                       \/ /\ UNCHANGED <<session, db>>
                          /\ ~session[c].up \/ session[c].unread
                    /\ AnswersTo(c, conn[c].last, conn[c].slot.id, "aborted")
<1>1. CASE Check(c)
  <2>1. \A d \in Conns \ {c} : worker'[d] = worker[d]
    BY <1>1 DEF Check, MailInvs, TypeInv
  <2>2. worker'[c] # "server"
    BY <1>1 DEF Check, MailInvs, TypeInv
  <2> QED
    BY <1>1, <2>1, <2>2 DEF Check, Looks
<1>2. CASE Sends(c)
  <2>1. worker[c] = "send" /\ UNCHANGED <<pool, session, db>>
    BY <1>2 DEF Sends
  <2>2. CASE /\ ~session[c].up \/ session[c].unread
             /\ Answers(c, conn[c].last, conn[c].slot.id, "aborted")
    BY <2>1, <2>2, AnswerIsTo
  <2>3. CASE /\ session[c].up /\ ~session[c].unread
             /\ worker' = [worker EXCEPT ![c] = "server"]
             /\ ConnBecomes(c, ConnRec(conn[c].inUse, conn[c].slot, conn[c].last,
                                       NoId, conn[c].stop))
             /\ UNCHANGED task
    <3>1. conn[c].slot # NoJob
      BY <2>1, Answered
    <3>2. \A d \in Conns : /\ conn'[d].slot = conn[d].slot
                           /\ conn'[d].inUse = conn[d].inUse
                           /\ conn'[d].last = conn[d].last
                           /\ conn[d].slot = NoJob => conn'[d].error = conn[d].error
      BY <2>3, <3>1 DEF ConnBecomes, ConnRec
    <3>3. \A d \in Conns \ {c} : worker'[d] = worker[d]
      BY <2>3 DEF MailInvs, TypeInv
    <3> QED
      BY <2>1, <2>3, <3>2, <3>3 DEF Looks
  <2> QED
    BY <1>2, <2>2, <2>3 DEF Sends
<1>3. CASE Succeeds(c)
  <2>1. worker[c] = "server" /\ Answers(c, Chain(c), conn[c].error, "ok")
    BY <1>3 DEF Succeeds
  <2> QED
    BY <1>3, <2>1, AnswerIsTo
<1>4. CASE Fails(c)
  <2>1. worker[c] = "server" /\ Answers(c, conn[c].last, conn[c].slot.id, "aborted")
    BY <1>4 DEF Fails
  <2> QED
    BY <1>4, <2>1, AnswerIsTo
<1> QED
  BY <1>1, <1>2, <1>3, <1>4, WorkEffect

-------------------------------------------------------------------------------
(* What the answer of a call points at is on the connection until its task  *)
(* has read it.                                                             *)
ReadsOwn(job, port, r) ==
    IF port = "ok"
    THEN \A i \in DOMAIN Decoded(job, r.last) : Decoded(job, r.last)[i] = Result(job.id, i)
    ELSE r.error = job.id
AnswerKept(t) ==
    Up /\ Awaiting(t) /\ task[t].port # "none" =>
        ReadsOwn(task[t].job, task[t].port, conn[task[t].conn])
AnswerInv == \A t \in Tasks : AnswerKept(t)

LEMMA AnswerStays ==
    ASSUME NEW u \in Tasks, AnswerKept(u), task'[u] = task[u], Up' => Up,
           Awaiting(u) /\ task[u].port # "none" =>
               /\ conn'[task[u].conn].last = conn[task[u].conn].last
               /\ conn'[task[u].conn].error = conn[task[u].conn].error
    PROVE  AnswerKept(u)'
BY DEF AnswerKept, Awaiting, ReadsOwn

LEMMA AnswerTask ==
    ASSUME MailInvs, AnswerInv, NEW t \in Tasks, TaskStep(t)
    PROVE  AnswerInv'
<1>1. /\ UNCHANGED pool
      /\ \A u \in Tasks \ {t} :
            /\ task'[u] = task[u]
            /\ task[u].pc # "out" => conn'[task[u].conn] = conn[task[u].conn]
  BY TaskAside
<1>2. ASSUME NEW u \in Tasks \ {t} PROVE AnswerKept(u)'
  <2>1. Awaiting(u) => conn'[task[u].conn] = conn[task[u].conn]
    BY <1>1 DEF Awaiting
  <2> QED
    BY <1>1, <2>1, AnswerStays DEF AnswerInv, Up
<1>3. task'[t].port = "none" \/ ~Awaiting(t)'
  <2>1. MailInvs'
    BY TaskKeepsMail
  <2>2. TypeInv /\ (task[t].pc # "out" => task[t].conn \in Conns)
    BY DEF MailInvs, MailInv, LeaseInv
  <2>3. CASE \E tx \in BOOLEAN : Lease(t, tx)
    <3>1. Leases(t)
      BY <2>2, <2>3, LeaseEffect
    <3> QED
      BY <3>1 DEF Leases, LeasesAt, TaskBecomes, TaskRec
  <2>4. CASE \E kind \in Kinds, stmts \in Seq(Stmts), then \in {"await", "ending"} :
                Calls(t, kind, stmts, then) /\ Submit(t, kind, stmts, then)
    <3>1. PICK kind \in Kinds, stmts \in Seq(Stmts), then \in {"await", "ending"} :
             Calls(t, kind, stmts, then) /\ Submit(t, kind, stmts, then)
      BY <2>4
    <3>2. task[t].pc \in {"body", "thrown"} /\ task[t].n <= MaxJobs[t]
      BY <3>1 DEF Calls
    <3>3. Submits(t, kind, stmts, then) /\ task[t].port = "none"
      BY <2>2, <3>1, <3>2, SubmitEffect DEF MailInvs, MailInv, JobInv, Awaiting
    <3>4. PICK j : SubmitsJob(t, j, then)
      BY <3>3 DEF Submits
    <3> QED
      BY <3>3, <3>4 DEF SubmitsJob, TaskBecomes, TaskRec
  <2>5. CASE Receive(t)
    <3>1. Receives(t)
      BY <2>2, <2>5, ReceiveEffect DEF Receive, Resumes
    <3> QED
      BY <3>1 DEF Receives, ReceivesAs, TaskBecomes, TaskRec
  <2>6. CASE Release(t)
    <3>1. Releases(t)
      BY <2>2, <2>6, ReleaseEffect DEF Release
    <3> QED
      BY <3>1 DEF Releases, TaskBecomes, TaskRec
  <2> QED
    BY <2>3, <2>4, <2>5, <2>6, TaskSteps
<1> QED
  BY <1>2, <1>3 DEF AnswerInv, AnswerKept

LEMMA AnswerWork ==
    ASSUME MailInvs, AnswerInv, NEW c \in Conns, Work(c)
    PROVE  AnswerInv'
<1>1. CASE Looks(c)
  <2>1. ASSUME NEW u \in Tasks PROVE AnswerKept(u)'
    <3>1. Awaiting(u) /\ task[u].port # "none" =>
             task[u].conn \in Conns /\ conn[task[u].conn].slot = NoJob
      BY OwnSlot DEF Awaiting, MailInvs
    <3>2. /\ UNCHANGED <<pool, task>>
          /\ Awaiting(u) /\ task[u].port # "none" =>
                /\ conn'[task[u].conn].last = conn[task[u].conn].last
                /\ conn'[task[u].conn].error = conn[task[u].conn].error
      BY <1>1, <3>1 DEF Looks
    <3> QED
      BY <3>2, AnswerStays DEF AnswerInv, Up
  <2> QED
    BY <2>1 DEF AnswerInv
<1>2. ASSUME NEW last, NEW error, NEW code, AnswersTo(c, last, error, code),
             ReadsOwn(conn[c].slot, code, conn'[c])
      PROVE  AnswerInv'
  <2>1. PICK t \in Tasks :
          /\ t = conn[c].slot.owner /\ Awaiting(t) /\ task[t].conn = c
          /\ task[t].job = conn[c].slot
          /\ task'[t].conn = c /\ task'[t].job = task[t].job /\ task'[t].port = code
          /\ \A u \in Tasks \ {t} : task'[u] = task[u]
    BY <1>2 DEF AnswersTo
  <2>2. AnswerKept(t)'
    BY <1>2, <2>1 DEF AnswerKept
  <2>3. ASSUME NEW u \in Tasks \ {t} PROVE AnswerKept(u)'
    <3>1. Awaiting(u) => conn'[task[u].conn] = conn[task[u].conn]
      BY <1>2, <2>1, Apart DEF Awaiting, AnswersTo
    <3> QED
      BY <1>2, <2>1, <3>1, AnswerStays DEF AnswerInv, Up, AnswersTo
  <2> QED
    BY <2>2, <2>3 DEF AnswerInv
<1>3. CASE worker[c] \in {"send", "server"} /\ AnswersTo(c, Chain(c), conn[c].error, "ok")
  <2>1. conn[c].slot \in Jobs /\ Fits(conn[c].slot.kind, conn[c].slot.stmts)
    BY <1>3, Answered
  <2>2. PICK last : last = Chain(c)
    OBVIOUS
  <2>3. conn'[c].last = last
    BY <1>3, <2>2 DEF AnswersTo
  <2>4. ReadsOwn(conn[c].slot, "ok", conn'[c])
    BY <2>1, <2>2, <2>3, ChainInOrder DEF ReadsOwn
  <2> QED
    BY <1>2, <1>3, <2>4
<1>4. CASE AnswersTo(c, conn[c].last, conn[c].slot.id, "aborted")
  <2>1. ReadsOwn(conn[c].slot, "aborted", conn'[c])
    BY <1>4 DEF AnswersTo, ReadsOwn
  <2> QED
    BY <1>2, <1>4, <2>1
<1> QED
  BY <1>1, <1>3, <1>4, WorkSteps

(* What a task reads from the connection it shares with its earlier and its *)
(* later lessees is its own, result by result, and so is the error of a     *)
(* call that was aborted: mysql_pool_worker.c clears last_errno before it   *)
(* sends and replaces last_result when it is done, the one right before the *)
(* code is posted, and nobody polls but the lessee.                         *)
THEOREM EveryAnswerIsOwn == Spec => []AnswerIsOwn
<1>1. Init => AnswerInv
  BY DEF Init, AnswerInv, AnswerKept, Awaiting, IdleTask
<1>2. ASSUME MailInvs, AnswerInv PROVE AnswerIsOwn
  BY <1>2 DEF AnswerInv, AnswerKept, AnswerIsOwn, Resumes, Awaiting, Up, ReadsOwn,
              LastError
<1>3. ASSUME MailInvs, AnswerInv, [Next]_vars PROVE AnswerInv'
  <2>1. CASE UNCHANGED vars
    BY <1>3, <2>1 DEF vars, AnswerInv, AnswerKept, Awaiting, Up, ReadsOwn
  <2>2. CASE Lifecycle \/ Destroy
    <3>1. UNCHANGED task /\ (Up' => pool.phase = "create")
      BY <1>3, <2>2, LifecyclePool, LifecycleQuiet DEF MailInvs
    <3>2. pool.phase = "create" => \A t \in Tasks : task[t].pc = "out"
      BY <1>3 DEF MailInvs, MailInv, LeaseInv
    <3> QED
      BY <3>1, <3>2 DEF AnswerInv, AnswerKept, Awaiting
  <2> QED
    BY <1>3, <2>1, <2>2, AnswerTask, AnswerWork DEF Next
<1> QED
  BY <1>1, <1>2, <1>3, MailInvariance, PTL DEF Spec

-------------------------------------------------------------------------------
(* What statements do to the session and to the database.                   *)

LEMMA PrefixSet ==
    ASSUME NEW s \in Seq(Stmts), NEW k \in 0..Len(s)
    PROVE  ToSet(SubSeq(s, 1, k)) \subseteq ToSet(s)
<1>1. Len(s) \in Nat
  BY LenProperties
<1>2. SubSeq(s, 1, k) \in Seq(Stmts) /\ Len(SubSeq(s, 1, k)) = k
      /\ \A i \in 1..k : SubSeq(s, 1, k)[i] = s[i]
  <2>1. PICK S : S = Stmts
    OBVIOUS
  <2>2. s \in Seq(S)
    BY <2>1
  <2>3. SubSeq(s, 1, k) \in Seq(S) /\ Len(SubSeq(s, 1, k)) = k
        /\ \A i \in 1..k : SubSeq(s, 1, k)[i] = s[i]
    BY <2>2
  <2> QED
    BY <2>1, <2>3
<1>3. ASSUME NEW x \in ToSet(SubSeq(s, 1, k)) PROVE x \in ToSet(s)
  <2>1. PICK i \in 1..k : SubSeq(s, 1, k)[i] = x
    BY <1>2, ToSetSeq, ZenonT(60)
  <2>2. i \in 1..Len(s) /\ s[i] = x
    BY <1>1, <1>2, <2>1
  <2> QED
    BY <2>2, ToSetSeq
<1> QED
  BY <1>3

LEMMA PrefixHead ==
    ASSUME NEW s \in Seq(Stmts), NEW k \in 0..Len(s)
    PROVE  ToSet(SubSeq(s, 1, k)) = {} \/ s[1] \in ToSet(SubSeq(s, 1, k))
<1>1. PICK S : S = Stmts
  OBVIOUS
<1>2. PICK q : q = SubSeq(s, 1, k)
  OBVIOUS
<1>3. s \in Seq(S) /\ Len(s) \in Nat
  BY <1>1, LenProperties
<1>4. q \in Seq(S) /\ Len(q) = k /\ \A i \in 1..k : q[i] = s[i]
  BY <1>2, <1>3
<1>5. \A x : x \in ToSet(q) <=> \E i \in 1..k : q[i] = x
  BY <1>4, ToSetSeq
<1>6. CASE k = 0
  BY <1>2, <1>5, <1>6
<1>7. CASE k # 0
  <2>1. 1 \in 1..k
    BY <1>3, <1>7
  <2> QED
    BY <1>2, <1>4, <1>5, <2>1
<1> QED
  BY <1>6, <1>7

(* At most one of COMMIT and ROLLBACK is among them.                        *)
LEMMA EffectsOf ==
    ASSUME TypeInv, NEW c \in Conns, NEW stmts, NEW after, after = Effects(c, stmts),
           "commit" \in ToSet(stmts) => "rollback" \notin ToSet(stmts)
    PROVE  LET Does(s) == s \in ToSet(stmts)
               id == conn[c].slot.id
               old == session[c]
           IN  /\ after.txn => Does("begin") \/ old.txn
               /\ Does("commit") \/ Does("rollback") => ~after.txn
               /\ after.dirty \subseteq old.dirty \cup {id}
               /\ db \subseteq after.db /\ after.db \subseteq db \cup {id} \cup old.dirty
               /\ Does("begin") => after.db \subseteq db \cup old.dirty
               /\ ~Does("begin") /\ Does("commit") => after.db = db \cup old.dirty
               /\ ~Does("begin") /\ ~Does("commit") /\ ~Does("write") => after.db = db
               /\ ~Does("begin") /\ Does("rollback") => after.db = db
               /\ ~Does("commit") /\ ~Does("rollback") /\ (Does("begin") \/ old.txn) =>
                     /\ after.txn /\ (Does("write") => id \in after.dirty)
                     /\ ~Does("begin") => after.db = db /\ old.dirty \subseteq after.dirty
<1> DEFINE Does(s) == s \in ToSet(stmts)
           id == conn[c].slot.id
           old == session[c]
           dirty == IF Does("begin") THEN {} ELSE old.dirty
           saved == IF Does("begin") THEN db \cup old.dirty ELSE db
           new == IF Does("write") THEN {id} ELSE {}
<1>1. old.txn \in BOOLEAN
  BY Records DEF SessionStates
<1>2. CASE Does("commit")
  <2>1. after = [txn |-> FALSE, dirty |-> {}, db |-> saved \cup dirty]
    BY <1>2 DEF Effects
  <2> HIDE DEF Does, old, id
  <2> QED
    BY <1>2, <2>1 DEF old, id, Does
<1>3. CASE ~Does("commit") /\ Does("rollback")
  <2>1. after = [txn |-> FALSE, dirty |-> {}, db |-> saved]
    BY <1>3 DEF Effects
  <2> QED
    BY <1>3, <2>1
<1>4. CASE ~Does("commit") /\ ~Does("rollback")
  <2>1. CASE Does("begin")
    <3>1. after = [txn |-> TRUE, dirty |-> new, db |-> db \cup old.dirty]
      BY <1>4, <2>1 DEF Effects
    <3> QED
      BY <1>4, <2>1, <3>1
  <2>2. CASE ~Does("begin") /\ old.txn
    <3>1. after = [txn |-> TRUE, dirty |-> old.dirty \cup new, db |-> db]
      BY <1>4, <2>2 DEF Effects
    <3> QED
      BY <1>4, <2>2, <3>1
  <2>3. CASE ~Does("begin") /\ ~old.txn
    <3>1. after = [txn |-> FALSE, dirty |-> old.dirty, db |-> db \cup new]
      BY <1>4, <2>3 DEF Effects
    <3> QED
      BY <1>4, <2>3, <3>1
  <2> QED
    BY <1>1, <2>1, <2>2, <2>3
<1> QED
  BY <1>2, <1>3, <1>4

(* What an answered call has done: all its statements ran, or some and the  *)
(* connection may be gone.                                                  *)
RanAll(c) ==
    LET job == conn[c].slot
        after == Effects(c, job.stmts)
    IN  /\ session'[c] = SessRec(session[c].up, after.txn, after.dirty,
               job.kind = "single" /\ "call" \in ToSet(job.stmts), session[c].killed)
        /\ db' = after.db
RanSome(c, part, lost) ==
    LET job == conn[c].slot
        after == Effects(c, part)
    IN  /\ ToSet(part) \subseteq ToSet(job.stmts)
        /\ "begin" \in ToSet(job.stmts) => ToSet(part) = {} \/ "begin" \in ToSet(part)
        /\ ~lost /\ ToSet(job.stmts) \subseteq {"begin", "commit", "rollback"} =>
               session[c].killed
        /\ session'[c] = IF lost THEN FreshSession(FALSE)
               ELSE SessRec(session[c].up, after.txn, after.dirty,
                            session[c].unread, FALSE)
        /\ db' = after.db

LEMMA RunEffect ==
    ASSUME MailInvs, NEW c \in Conns
    PROVE  /\ Succeeds(c) => /\ worker[c] = "server" /\ RanAll(c)
                             /\ \A d \in Conns \ {c} : session'[d] = session[d]
           /\ Fails(c) => /\ worker[c] = "server"
                          /\ \E part : \E lost \in BOOLEAN : RanSome(c, part, lost)
                          /\ \A d \in Conns \ {c} : session'[d] = session[d]
<1>1. ASSUME Succeeds(c)
      PROVE  /\ worker[c] = "server" /\ RanAll(c)
             /\ \A d \in Conns \ {c} : session'[d] = session[d]
  BY <1>1 DEF Succeeds, SessBecomes, RanAll
<1>2. ASSUME Fails(c)
      PROVE  /\ worker[c] = "server"
             /\ \E part : \E lost \in BOOLEAN : RanSome(c, part, lost)
             /\ \A d \in Conns \ {c} : session'[d] = session[d]
  <2> DEFINE stmts == conn[c].slot.stmts
  <2>1. worker[c] = "server"
    BY <1>2 DEF Fails
  <2>2. stmts \in Seq(Stmts) /\ Len(stmts) \in Nat
    BY <2>1, Answered, LenProperties DEF Jobs
  <2>3. PICK k \in 0..Len(stmts), lost \in BOOLEAN : FailsAt(c, k, lost)
    BY <1>2 DEF Fails
  <2>4. PICK part : part = SubSeq(stmts, 1, k)
    OBVIOUS
  <2>5. ToSet(part) \subseteq ToSet(stmts)
    BY <2>2, <2>4, PrefixSet
  <2>6. ~lost => k < Len(stmts) /\ (stmts[k + 1] \in {"begin", "commit", "rollback"}
                                     => session[c].killed)
    BY <2>3 DEF FailsAt
  <2>7. k < Len(stmts) => stmts[k + 1] \in ToSet(stmts)
    <3>1. k < Len(stmts) => k + 1 \in 1..Len(stmts)
      BY <2>2
    <3> QED
      BY <2>2, <3>1, ToSetSeq
  <2>8. /\ \A d \in Conns \ {c} : session'[d] = session[d]
        /\ session'[c] = IF lost THEN FreshSession(FALSE)
              ELSE SessRec(session[c].up, Effects(c, part).txn, Effects(c, part).dirty,
                           session[c].unread, FALSE)
        /\ db' = Effects(c, part).db
    BY <2>3, <2>4 DEF FailsAt, SessBecomes
  <2>9. "begin" \in ToSet(stmts) => ToSet(part) = {} \/ "begin" \in ToSet(part)
    BY <2>1, <2>2, <2>4, Answered, PrefixHead DEF Fits
  <2>10. RanSome(c, part, lost)
    BY <2>5, <2>6, <2>7, <2>8, <2>9 DEF RanSome
  <2> QED
    BY <2>1, <2>8, <2>10
<1> QED
  BY <1>1, <1>2

(* What Effects does to the session, for what a task awaits or part of it.  *)
LEMMA ShapeOf ==
    ASSUME NEW stmts, NEW then, Shape(then, stmts)
    PROVE  /\ "commit" \in ToSet(stmts) => "rollback" \notin ToSet(stmts)
           /\ then = "await" => "commit" \notin ToSet(stmts)
                                /\ "rollback" \notin ToSet(stmts)
           /\ then # "await" =>
                 /\ ToSet(stmts) \subseteq {"begin", "commit", "rollback"}
                 /\ "commit" \in ToSet(stmts) \/ "rollback" \in ToSet(stmts)
                 /\ "write" \notin ToSet(stmts)
BY DEF Shape

-------------------------------------------------------------------------------
(* An open transaction has a lessee that is still to end it, unless results *)
(* were left unread; and a statement of its own is what a worker executes.  *)
Keeps(t, c) ==
    /\ task[t].pc \notin {"out", "leaving"} /\ task[t].tx /\ task[t].conn = c
    /\ ~(task[t].pc = "ending" /\ task[t].port # "none")
CleanKept(c) ==
    /\ session[c].txn /\ ~session[c].unread =>
          conn[c].inUse /\ (Up => \E t \in Tasks : Keeps(t, c))
    /\ ~session[c].up => ~session[c].txn
    /\ Up => ~session[c].killed
    /\ worker[c] = "server" => session[c].up /\ ~session[c].unread
CleanInv == \A c \in Conns : CleanKept(c)

LEMMA CleanStays ==
    ASSUME NEW c \in Conns, CleanKept(c), session'[c] = session[c],
           conn'[c].inUse = conn[c].inUse, Up' => Up,
           worker'[c] = "server" =>
               worker[c] = "server" \/ (session[c].up /\ ~session[c].unread),
           Up' => \A t \in Tasks : Keeps(t, c) => Keeps(t, c)'
    PROVE  CleanKept(c)'
BY DEF CleanKept

LEMMA CleanTask ==
    ASSUME MailInvs, CleanInv, NEW t \in Tasks, TaskStep(t)
    PROVE  CleanInv'
<1>1. /\ UNCHANGED <<pool, session>> /\ pool.phase = "open"
      /\ \A u \in Tasks \ {t} :
            /\ task'[u] = task[u]
            /\ task[u].pc # "out" => conn'[task[u].conn] = conn[task[u].conn]
  BY TaskAside
<1>2. TypeInv /\ (task[t].pc # "out" => task[t].conn \in Conns)
  BY DEF MailInvs, MailInv, LeaseInv
<1>3. ASSUME NEW c \in Conns, Keeps(t, c)
      PROVE  Keeps(t, c)' /\ conn'[c].inUse = conn[c].inUse
  <2>1. /\ task[t].conn = c /\ task[t].tx /\ task[t].pc \notin {"out", "leaving"}
        /\ ~(task[t].pc = "ending" /\ task[t].port # "none")
    BY <1>3 DEF Keeps
  <2>2. CASE \E tx \in BOOLEAN : Lease(t, tx)
    BY <2>1, <2>2 DEF Lease
  <2>3. CASE \E kind \in Kinds, stmts \in Seq(Stmts), then \in {"await", "ending"} :
                Calls(t, kind, stmts, then) /\ Submit(t, kind, stmts, then)
    <3>1. PICK kind \in Kinds, stmts \in Seq(Stmts), then \in {"await", "ending"} :
             Calls(t, kind, stmts, then) /\ Submit(t, kind, stmts, then)
      BY <2>3
    <3>2. task[t].pc \in {"body", "thrown"} /\ task[t].n <= MaxJobs[t]
      BY <3>1 DEF Calls
    <3>3. Submits(t, kind, stmts, then) /\ task[t].port = "none"
      BY <1>2, <3>1, <3>2, SubmitEffect DEF MailInvs, MailInv, JobInv, Awaiting
    <3>4. PICK j : SubmitsJob(t, j, then)
      BY <3>3 DEF Submits
    <3>5. /\ task'[t].pc = then /\ task'[t].tx = task[t].tx /\ task'[t].conn = c
          /\ task'[t].port = "none" /\ conn'[c].inUse = conn[c].inUse
      BY <2>1, <3>3, <3>4 DEF SubmitsJob, TaskBecomes, TaskRec, ConnBecomes, ConnRec
    <3> QED
      BY <2>1, <3>5 DEF Keeps
  <2>4. CASE Receive(t)
    <3>1. Receives(t)
      BY <1>2, <2>1, <2>4, ReceiveEffect
    <3>2. PICK fine \in BOOLEAN : ReceivesAs(t, fine)
      BY <3>1 DEF Receives
    <3>3. /\ task'[t].pc = After(task[t].pc, fine) /\ task'[t].tx = task[t].tx
          /\ task'[t].conn = c /\ conn'[c].inUse = conn[c].inUse
          /\ task[t].pc \in {"await", "ending"} /\ task[t].port # "none"
      BY <2>1, <3>1, <3>2 DEF Receives, ReceivesAs, TaskBecomes, TaskRec, ConnBecomes,
         ConnRec
    <3>4. task'[t].pc \in {"body", "thrown"}
      BY <2>1, <3>3 DEF After
    <3> QED
      BY <2>1, <3>3, <3>4 DEF Keeps
  <2>5. CASE Release(t)
    BY <2>1, <2>5 DEF Release, HasNothingToEnd
  <2> QED
    BY <2>2, <2>3, <2>4, <2>5, TaskSteps
<1>4. ASSUME NEW c \in Conns, NEW u \in Tasks, Keeps(u, c)
      PROVE  Keeps(u, c)' /\ conn'[c].inUse = conn[c].inUse
  <2>1. CASE u = t
    BY <1>3, <1>4, <2>1
  <2>2. CASE u # t
    BY <1>1, <1>4, <2>2 DEF Keeps
  <2> QED
    BY <2>1, <2>2
<1>5. \A c \in Conns : worker'[c] = "server" => worker[c] = "server"
  <2>1. CASE UNCHANGED worker
    BY <2>1
  <2>2. CASE \E kind \in Kinds, stmts \in Seq(Stmts), then \in {"await", "ending"} :
                Submit(t, kind, stmts, then)
    BY <1>2, <2>2 DEF Submit, TypeInv
  <2> QED
    BY <2>1, <2>2, TaskSteps DEF Lease, Receive, Release
<1>6. ASSUME NEW c \in Conns PROVE CleanKept(c)'
  <2>1. CleanKept(c) /\ Up /\ Up'
    BY <1>1 DEF CleanInv, Up
  <2>2. session'[c] = session[c]
    BY <1>1
  <2> QED
    BY <1>4, <1>5, <2>1, <2>2 DEF CleanKept
<1> QED
  BY <1>6 DEF CleanInv

LEMMA CleanWork ==
    ASSUME MailInvs, CleanInv, NEW c \in Conns, Work(c)
    PROVE  CleanInv'
<1>1. CASE Looks(c)
  <2>1. ASSUME NEW d \in Conns PROVE CleanKept(d)'
    <3>1. /\ CleanKept(d) /\ pool' = pool /\ session' = session /\ task' = task
          /\ conn'[d].inUse = conn[d].inUse
          /\ (worker'[d] = "server" =>
                 (worker[d] = "server" \/ (session[d].up /\ ~session[d].unread)))
      BY <1>1 DEF CleanInv, Looks
    <3>2. Up' => Up
      BY <3>1 DEF Up
    <3>3. \A t \in Tasks : Keeps(t, d) => Keeps(t, d)'
      BY <3>1 DEF Keeps
    <3> QED
      BY <3>1, <3>2, <3>3, CleanStays
  <2> QED
    BY <2>1 DEF CleanInv
<1>2. ASSUME NEW last, NEW error, NEW code, AnswersTo(c, last, error, code),
             worker[c] \in {"send", "server"},
             \A d \in Conns \ {c} : session'[d] = session[d],
             session'[c].txn /\ ~session'[c].unread /\ Up =>
                 \E t \in Tasks : task[t].conn = c /\ task[t].pc = "await" /\ task[t].tx,
             ~session'[c].up => ~session'[c].txn,
             ~session[c].killed => ~session'[c].killed
      PROVE  CleanInv'
  <2>1. PICK t \in Tasks :
          /\ task[t].conn = c /\ task[t].pc # "out"
          /\ task'[t].pc = task[t].pc /\ task'[t].conn = c /\ task'[t].tx = task[t].tx
          /\ \A u \in Tasks \ {t} : task'[u] = task[u]
    BY <1>2 DEF AnswersTo, Awaiting
  <2>2. CleanKept(c)'
    <3>1. conn'[c].inUse
      BY <1>2, Answered DEF AnswersTo, MailInvs, MailInv, SlotInv
    <3>2. session'[c].txn /\ ~session'[c].unread /\ Up => \E u \in Tasks : Keeps(u, c)'
      <4>1. SUFFICES ASSUME session'[c].txn, ~session'[c].unread, Up
                     PROVE  Keeps(t, c)'
        OBVIOUS
      <4>2. task[t].pc = "await" /\ task[t].tx
        BY <1>2, <2>1, <4>1 DEF MailInvs, MailInv, LeaseInv
      <4> QED
        BY <2>1, <4>2 DEF Keeps
    <3>3. worker'[c] # "server" /\ UNCHANGED pool
      BY <1>2 DEF AnswersTo
    <3>4. (Up' => Up) /\ (Up' => ~session'[c].killed)
      BY <1>2, <3>3 DEF CleanInv, CleanKept, Up
    <3> QED
      BY <1>2, <3>1, <3>2, <3>3, <3>4 DEF CleanKept
  <2>3. ASSUME NEW d \in Conns \ {c} PROVE CleanKept(d)'
    <3>1. /\ conn'[d].inUse = conn[d].inUse /\ session'[d] = session[d]
          /\ worker'[d] = worker[d] /\ UNCHANGED pool /\ CleanKept(d)
      BY <1>2 DEF AnswersTo, CleanInv
    <3>2. \A u \in Tasks : Keeps(u, d) => Keeps(u, d)'
      BY <2>1 DEF Keeps
    <3>3. Up' => Up
      BY <3>1 DEF Up
    <3> QED
      BY <3>1, <3>2, <3>3, CleanStays
  <2> QED
    BY <2>2, <2>3 DEF CleanInv
<1>3. CASE /\ worker[c] \in {"send", "server"}
           /\ \/ Succeeds(c) /\ AnswersTo(c, Chain(c), conn[c].error, "ok")
              \/ /\ \/ Fails(c)
                    \/ UNCHANGED <<session, db>> /\ (~session[c].up \/ session[c].unread)
                 /\ AnswersTo(c, conn[c].last, conn[c].slot.id, "aborted")
  <2> DEFINE job == conn[c].slot
  <2>1. PICK t \in Tasks :
          /\ task[t].conn = c /\ Awaiting(t) /\ Shape(task[t].pc, job.stmts)
          /\ "begin" \in ToSet(job.stmts) => task[t].tx
    BY <1>3, Answered
  <2>2. /\ CleanKept(c) /\ TypeInv /\ session[c].up \in BOOLEAN
        /\ task[t].pc \in {"await", "ending"}
    BY <2>1, Records DEF CleanInv, MailInvs, SessionStates, Awaiting
  <2>3. worker[c] = "server" => session[c].up /\ ~session[c].unread
    BY <2>2 DEF CleanKept
  <2>4. CASE UNCHANGED <<session, db>> /\ (~session[c].up \/ session[c].unread)
    <3>1. ~(session'[c].txn /\ ~session'[c].unread) /\ (~session'[c].up => ~session'[c].txn)
      BY <2>2, <2>4 DEF CleanKept
    <3> QED
      BY <1>2, <1>3, <2>4, <3>1
  <2>5. ASSUME NEW part, ToSet(part) \subseteq ToSet(job.stmts), worker[c] = "server",
               NEW after, after = Effects(c, part), after.txn, task[t].pc = "await"
        PROVE  task[t].tx \/ ~Up
    <3>1. "begin" \in ToSet(part) \/ session[c].txn
      <4>1. "commit" \in ToSet(part) => "rollback" \notin ToSet(part)
        BY <2>1, <2>5, ShapeOf
      <4> QED
        BY <2>2, <2>5, <4>1, EffectsOf
    <3>2. CASE "begin" \in ToSet(part)
      BY <2>1, <2>5, <3>2
    <3>3. CASE session[c].txn
      <4>1. Up => \E u \in Tasks : Keeps(u, c)
        BY <2>2, <2>3, <2>5, <3>3 DEF CleanKept
      <4>2. Up => Keeps(t, c)
        BY <2>1, <4>1 DEF Keeps, Awaiting, MailInvs, MailInv, LeaseInv
      <4> QED
        BY <4>2 DEF Keeps
    <3> QED
      BY <3>1, <3>2, <3>3
  <2>6. CASE Succeeds(c)
    <3>1. PICK after : after = Effects(c, job.stmts)
      OBVIOUS
    <3>5. /\ worker[c] = "server" /\ RanAll(c)
          /\ \A d \in Conns \ {c} : session'[d] = session[d]
      BY <2>2, <2>6, RunEffect
    <3>2. /\ worker[c] = "server" /\ session'[c].txn = after.txn
          /\ session'[c].up = session[c].up /\ session'[c].killed = session[c].killed
          /\ \A d \in Conns \ {c} : session'[d] = session[d]
      BY <3>1, <3>5 DEF RanAll, SessRec
    <3>3. after.txn => task[t].pc = "await"
      <4>1. "commit" \in ToSet(job.stmts) => "rollback" \notin ToSet(job.stmts)
        BY <2>1, ShapeOf
      <4>2. task[t].pc # "await" =>
               "commit" \in ToSet(job.stmts) \/ "rollback" \in ToSet(job.stmts)
        BY <2>1, ShapeOf
      <4> QED
        BY <2>2, <3>1, <4>1, <4>2, EffectsOf
    <3>4. after.txn /\ Up => task[t].pc = "await" /\ task[t].tx
      BY <2>5, <3>1, <3>2, <3>3
    <3> QED
      BY <1>2, <1>3, <2>1, <2>3, <2>6, <3>2, <3>4
  <2>7. CASE Fails(c)
    <3>1. /\ worker[c] = "server" /\ \A d \in Conns \ {c} : session'[d] = session[d]
          /\ \E part : \E lost \in BOOLEAN : RanSome(c, part, lost)
      BY <2>7, RunEffect
    <3>2. PICK part, lost : lost \in BOOLEAN /\ RanSome(c, part, lost)
      BY <3>1
    <3>3. PICK after : after = Effects(c, part)
      OBVIOUS
    <3>4. CASE lost
      <4>1. session'[c] = FreshSession(FALSE)
        BY <3>2, <3>4 DEF RanSome
      <4>2. ~session'[c].txn /\ ~session'[c].killed
        BY <4>1 DEF FreshSession
      <4> QED
        BY <1>2, <1>3, <2>7, <3>1, <4>2
    <3>5. CASE ~lost
      <4>1. /\ session'[c].txn = after.txn /\ session'[c].up = session[c].up
            /\ ~session'[c].killed /\ ToSet(part) \subseteq ToSet(job.stmts)
            /\ ToSet(job.stmts) \subseteq {"begin", "commit", "rollback"} =>
                   session[c].killed
        BY <3>2, <3>3, <3>5 DEF RanSome, SessRec
      <4>2. task[t].pc # "await" => ~Up
        BY <2>1, <2>2, <4>1, ShapeOf DEF CleanKept
      <4>3. after.txn /\ Up => task[t].pc = "await" /\ task[t].tx
        BY <2>5, <3>1, <3>3, <4>1, <4>2
      <4> QED
        BY <1>2, <1>3, <2>1, <2>3, <2>7, <3>1, <4>1, <4>3
    <3> QED
      BY <3>2, <3>4, <3>5
  <2> QED
    BY <1>3, <2>4, <2>6, <2>7
<1> QED
  BY <1>1, <1>3, WorkSteps

LEMMA CleanLifecycle ==
    ASSUME MailInvs, CleanInv, Lifecycle \/ Destroy
    PROVE  CleanInv'
<1>1. (Up' => pool.phase = "create") /\ UNCHANGED task
  BY LifecyclePool, LifecycleQuiet DEF MailInvs
<1>2. ASSUME NEW c \in Conns, Up, pool.phase = "create"
      PROVE  ~(session[c].txn /\ ~session[c].unread)
  <2>1. ~\E t \in Tasks : Keeps(t, c)
    BY <1>2 DEF Keeps, MailInvs, MailInv, LeaseInv
  <2> QED
    BY <1>2, <2>1 DEF CleanInv, CleanKept
<1>3. ASSUME NEW c \in Conns PROVE CleanKept(c)'
  <2>1. CleanKept(c) /\ (Up' => Up)
    BY <1>1 DEF CleanInv, Up
  <2>2. CASE /\ session'[c] \in {FreshSession(TRUE), FreshSession(FALSE)}
             /\ worker'[c] \notin {"send", "server"}
    BY <2>2 DEF CleanKept, FreshSession
  <2>3. CASE /\ conn'[c].inUse = conn[c].inUse
             /\ session'[c].up = session[c].up
             /\ session'[c].txn = session[c].txn
             /\ session'[c].unread = session[c].unread
             /\ pool.phase # "stop" => session'[c] = session[c]
             /\ worker'[c] \in {"send", "server"} => worker'[c] = worker[c]
    <3>1. Up' => ~(session[c].txn /\ ~session[c].unread) /\ ~session'[c].killed
      BY <1>1, <1>2, <2>1, <2>3 DEF CleanKept
    <3> QED
      BY <2>1, <2>3, <3>1 DEF CleanKept
  <2> QED
    BY <2>2, <2>3, LifecycleQuiet DEF MailInvs
<1> QED
  BY <1>3 DEF CleanInv

LEMMA CleanStep ==
    ASSUME MailInvs, CleanInv, [Next]_vars
    PROVE  CleanInv'
<1>1. CASE UNCHANGED vars
  BY <1>1 DEF vars, CleanInv, CleanKept, Keeps, Up
<1> QED
  BY <1>1, CleanLifecycle, CleanTask, CleanWork DEF Next

LEMMA CleanInit == Init => CleanInv
BY DEF Init, CleanInv, CleanKept, FreshSession, FreshConn

(* No connection goes back with a transaction open, but for one on which    *)
(* results were left unread: mysql_unit_of_work.dart ends every other, for  *)
(* a COMMIT or ROLLBACK that reaches the server ends it, or the connection  *)
(* is lost and the server rolls back.                                       *)
THEOREM ConnectionsComeBackClean == Spec => []ReturnedCleanUnlessOutOfSync
<1>1. MailInvs /\ CleanInv => ReturnedCleanUnlessOutOfSync
  BY DEF CleanInv, CleanKept, ReturnedCleanUnlessOutOfSync
<1> QED
  BY <1>1, CleanInit, MailInvariance, CleanStep, PTL DEF Spec

-------------------------------------------------------------------------------
(* The name of a call: its task gives it once, nothing has come of it when  *)
(* it has not run, the writes of a lease are names of its own, and only its *)
(* session has them uncommitted.                                            *)
USE DEF Id, Wrote

Known(id) == id \in db \/ \E c \in Conns : id \in session[c].dirty
NameKept(t) ==
    /\ \A id \in task[t].wrote : id \in {t} \X (1..task[t].n)
    /\ \A k \in Nat : k > task[t].n => ~Known(<<t, k>>)
    /\ Awaiting(t) /\ task[t].port = "none" =>
          /\ ~Known(task[t].job.id)
          /\ task[t].job.id \in task[t].wrote => "write" \in ToSet(task[t].job.stmts)
    /\ \A c \in Conns : c # task[t].conn => task[t].wrote \cap session[c].dirty = {}
NameInv == \A t \in Tasks : NameKept(t)

(* A task gives one more name, or none, and nothing runs.                   *)
LEMMA NameGiven ==
    ASSUME TypeInv, NEW u \in Tasks, NameKept(u), db' \subseteq db,
           \A c \in Conns : session'[c].dirty \subseteq session[c].dirty,
           \/ task'[u].n = task[u].n /\ task'[u].wrote \subseteq task[u].wrote
           \/ /\ task'[u].n = task[u].n + 1
              /\ task'[u].wrote \subseteq task[u].wrote \cup {Id(u)},
           Awaiting(u)' /\ task'[u].port = "none" =>
               \/ /\ Awaiting(u) /\ task[u].port = "none"
                  /\ task'[u].job = task[u].job /\ task'[u].wrote = task[u].wrote
               \/ /\ task'[u].job.id = Id(u)
                  /\ task'[u].wrote = Wrote(u, task'[u].job.stmts),
           task'[u].wrote = {} \/ task'[u].conn = task[u].conn
    PROVE  NameKept(u)'
<1>1. task[u].n \in Nat
  BY Records DEF TaskStates
<1>2. \A id : Known(id)' => Known(id)
  BY DEF Known
<1>3. \A k \in Nat : k > task'[u].n => ~Known(<<u, k>>)'
  BY <1>1, <1>2 DEF NameKept
<1>4. ~Known(Id(u)) /\ Id(u) \notin task[u].wrote
  BY <1>1 DEF NameKept
<1>5. \A id \in task'[u].wrote : id \in {u} \X (1..task'[u].n)
  <2>1. ASSUME NEW id \in task[u].wrote PROVE id \in {u} \X (1..task'[u].n)
    BY <1>1 DEF NameKept
  <2>2. task'[u].n = task[u].n + 1 => Id(u) \in {u} \X (1..task'[u].n)
    BY <1>1
  <2> QED
    BY <2>1, <2>2
<1>6. ASSUME NEW c \in Conns, c # task'[u].conn
      PROVE  task'[u].wrote \cap session'[c].dirty = {}
  BY <1>4, <1>6 DEF NameKept, Known
<1>7. ASSUME Awaiting(u)', task'[u].port = "none"
      PROVE  /\ ~Known(task[u].job.id)'
             /\ task'[u].job.id \in task'[u].wrote => "write" \in ToSet(task'[u].job.stmts)
  <2>1. CASE /\ Awaiting(u) /\ task[u].port = "none"
             /\ task'[u].job = task[u].job /\ task'[u].wrote = task[u].wrote
    BY <1>2, <2>1 DEF NameKept
  <2>2. CASE /\ task'[u].job.id = Id(u)
             /\ task'[u].wrote = Wrote(u, task'[u].job.stmts)
    BY <1>2, <1>4, <2>2
  <2> QED
    BY <1>7, <2>1, <2>2
<1> QED
  BY <1>3, <1>5, <1>6, <1>7 DEF NameKept

(* A call of t runs on its session and is answered.                         *)
LEMMA NameRuns ==
    ASSUME MailInvs, NEW t \in Tasks, NEW u \in Tasks, NameKept(u), NEW c \in Conns,
           task[t].conn = c, NEW id \in {t} \X (1..task[t].n),
           \A d \in Conns \ {c} : session'[d] = session[d],
           session'[c].dirty \subseteq session[c].dirty \cup {id},
           db' \subseteq db \cup {id} \cup session[c].dirty,
           task'[u].n = task[u].n, task'[u].wrote = task[u].wrote,
           task'[u].conn = task[u].conn,
           u = t => task'[u].port # "none", u # t => task'[u] = task[u]
    PROVE  NameKept(u)'
<1>1. ASSUME NEW i, ~Known(i), i # id PROVE ~Known(i)'
  BY <1>1 DEF Known
<1>2. task[u].n \in Nat /\ task[t].n \in Nat
  BY Records DEF TaskStates, MailInvs
<1>3. ASSUME NEW k \in Nat, k > task'[u].n PROVE ~Known(<<u, k>>)'
  <2>1. ~Known(<<u, k>>)
    BY <1>3 DEF NameKept
  <2>2. <<u, k>> # id
    BY <1>2, <1>3
  <2> QED
    BY <1>1, <2>1, <2>2
<1>4. ASSUME NEW d \in Conns, d # task[u].conn
      PROVE  task[u].wrote \cap session'[d].dirty = {}
  <2>1. task[u].wrote \cap session[d].dirty = {}
    BY <1>4 DEF NameKept
  <2>2. d = c => id \notin task[u].wrote
    BY <1>4 DEF NameKept
  <2> QED
    BY <2>1, <2>2
<1>5. ASSUME Awaiting(u)', task'[u].port = "none"
      PROVE  /\ ~Known(task[u].job.id)'
             /\ task'[u].job.id \in task'[u].wrote => "write" \in ToSet(task'[u].job.stmts)
  <2>1. u # t /\ task'[u] = task[u] /\ Awaiting(u)
    BY <1>5 DEF Awaiting
  <2>2. task[u].job.id # id
    BY <2>1 DEF MailInvs, MailInv, JobInv
  <2> QED
    BY <1>1, <1>5, <2>1, <2>2 DEF NameKept
<1> QED
  BY <1>3, <1>4, <1>5 DEF NameKept

(* What a task itself does to its own names: a call gives one.              *)
LEMMA TaskNames ==
    ASSUME MailInvs, NEW t \in Tasks, TaskStep(t)
    PROVE  /\ UNCHANGED session /\ db' \subseteq db
           /\ \A u \in Tasks \ {t} : task'[u] = task[u]
           /\ \/ task'[t].n = task[t].n /\ task'[t].wrote \subseteq task[t].wrote
              \/ /\ task'[t].n = task[t].n + 1
                 /\ task'[t].wrote \subseteq task[t].wrote \cup {Id(t)}
           /\ Awaiting(t)' => /\ task'[t].job.id = Id(t)
                              /\ task'[t].wrote = Wrote(t, task'[t].job.stmts)
           /\ task'[t].wrote = {} \/ task'[t].conn = task[t].conn
<1>1. /\ TypeInv /\ (task[t].pc # "out" => task[t].conn \in Conns)
      /\ UNCHANGED session /\ \A u \in Tasks \ {t} : task'[u] = task[u]
  BY TaskAside DEF MailInvs, MailInv, LeaseInv
<1>2. CASE \E tx \in BOOLEAN : Lease(t, tx)
  <2>1. Leases(t)
    BY <1>1, <1>2, LeaseEffect
  <2>2. PICK c \in Conns, tx \in BOOLEAN : LeasesAt(t, tx, c)
    BY <2>1 DEF Leases
  <2>3. task'[t].n = task[t].n /\ task'[t].wrote = {} /\ task'[t].pc = "body"
    BY <2>2 DEF LeasesAt, TaskBecomes, TaskRec
  <2> QED
    BY <1>1, <2>1, <2>3 DEF Leases, Awaiting
<1>3. CASE \E kind \in Kinds, stmts \in Seq(Stmts), then \in {"await", "ending"} :
              Calls(t, kind, stmts, then) /\ Submit(t, kind, stmts, then)
  <2>1. PICK kind \in Kinds, stmts \in Seq(Stmts), then \in {"await", "ending"} :
             Calls(t, kind, stmts, then) /\ Submit(t, kind, stmts, then)
    BY <1>3
  <2>2. Submits(t, kind, stmts, then)
    BY <1>1, <2>1, SubmitEffect DEF Calls
  <2>3. PICK j : SubmitsJob(t, j, then)
    BY <2>2 DEF Submits
  <2>4. /\ task'[t].n = task[t].n + 1 /\ task'[t].conn = task[t].conn
        /\ task'[t].job = j /\ j.id = Id(t) /\ task'[t].wrote = Wrote(t, j.stmts)
    BY <2>3 DEF SubmitsJob, TaskBecomes, TaskRec
  <2>5. Wrote(t, j.stmts) \subseteq task[t].wrote \cup {Id(t)}
    OBVIOUS
  <2> QED
    BY <1>1, <2>2, <2>4, <2>5 DEF Submits
<1>4. CASE Receive(t)
  <2>1. Receives(t)
    BY <1>1, <1>4, ReceiveEffect DEF Receive, Resumes
  <2>2. PICK fine \in BOOLEAN : ReceivesAs(t, fine)
    BY <2>1 DEF Receives
  <2>3. /\ task'[t].n = task[t].n /\ task'[t].conn = task[t].conn
        /\ task'[t].wrote = task[t].wrote
        /\ task'[t].pc \in {"body", "thrown", "leaving"}
    BY <2>1, <2>2 DEF Receives, ReceivesAs, TaskBecomes, TaskRec, After
  <2> QED
    BY <1>1, <2>1, <2>3 DEF Receives, Awaiting
<1>5. CASE Release(t)
  <2>1. Releases(t)
    BY <1>1, <1>5, ReleaseEffect DEF Release
  <2>2. task'[t].n = task[t].n /\ task'[t].wrote = {} /\ task'[t].pc = "out"
    BY <2>1 DEF Releases, TaskBecomes, TaskRec
  <2> QED
    BY <1>1, <2>1, <2>2 DEF Releases, Awaiting
<1> QED
  BY <1>2, <1>3, <1>4, <1>5, TaskSteps

(* What an answer leaves: the session and the database have at most the     *)
(* call itself and what the session had open.                               *)
LEMMA AnswerBounded ==
    ASSUME MailInvs, NEW c \in Conns, worker[c] \in {"send", "server"},
           Succeeds(c) \/ Fails(c) \/ UNCHANGED <<session, db>>
    PROVE  LET id == conn[c].slot.id
           IN  /\ \A d \in Conns \ {c} : session'[d] = session[d]
               /\ session'[c].dirty \subseteq session[c].dirty \cup {id}
               /\ db \subseteq db'
               /\ db' \subseteq db \cup {id} \cup session[c].dirty
<1> DEFINE job == conn[c].slot
<1>1. TypeInv /\ ("commit" \in ToSet(job.stmts) => "rollback" \notin ToSet(job.stmts))
  BY Answered, ShapeOf DEF MailInvs
<1>2. ASSUME NEW part, ToSet(part) \subseteq ToSet(job.stmts),
             NEW after, after = Effects(c, part)
      PROVE  /\ after.dirty \subseteq session[c].dirty \cup {job.id}
             /\ db \subseteq after.db
             /\ after.db \subseteq db \cup {job.id} \cup session[c].dirty
  BY <1>1, <1>2, EffectsOf
<1>3. CASE Succeeds(c)
  <2>1. RanAll(c) /\ \A d \in Conns \ {c} : session'[d] = session[d]
    BY <1>3, RunEffect
  <2>2. PICK after : after = Effects(c, job.stmts)
    OBVIOUS
  <2>3. session'[c].dirty = after.dirty /\ db' = after.db
    BY <2>1, <2>2 DEF RanAll, SessRec
  <2> QED
    BY <1>2, <2>1, <2>2, <2>3
<1>4. CASE Fails(c)
  <2>1. /\ \E part : \E lost \in BOOLEAN : RanSome(c, part, lost)
        /\ \A d \in Conns \ {c} : session'[d] = session[d]
    BY <1>4, RunEffect
  <2>2. PICK part, lost : lost \in BOOLEAN /\ RanSome(c, part, lost)
    BY <2>1
  <2>3. PICK after : after = Effects(c, part)
    OBVIOUS
  <2>4. session'[c].dirty \subseteq after.dirty /\ db' = after.db
        /\ ToSet(part) \subseteq ToSet(job.stmts)
    BY <2>2, <2>3 DEF RanSome, SessRec, FreshSession
  <2> QED
    BY <1>2, <2>1, <2>3, <2>4
<1> QED
  BY <1>3, <1>4

LEMMA NameStep ==
    ASSUME MailInvs, NameInv, [Next]_vars
    PROVE  NameInv'
<1>1. TypeInv
  BY DEF MailInvs
<1>2. ASSUME UNCHANGED <<db, task>>,
             \A c \in Conns : session'[c].dirty \subseteq session[c].dirty
      PROVE  NameInv'
  BY <1>1, <1>2, NameGiven DEF NameInv, Awaiting
<1>3. CASE UNCHANGED vars
  BY <1>2, <1>3 DEF vars
<1>4. CASE Lifecycle \/ Destroy
  <2>1. /\ UNCHANGED <<db, task>>
        /\ \A c \in Conns : session'[c].dirty \subseteq session[c].dirty
    BY <1>1, <1>4, LifecycleQuiet DEF FreshSession
  <2> QED
    BY <1>2, <2>1
<1>5. ASSUME NEW t \in Tasks, TaskStep(t) PROVE NameInv'
  <2>1. ASSUME NEW u \in Tasks PROVE NameKept(u)'
    <3>1. NameKept(u)
      BY DEF NameInv
    <3>2. CASE u = t
      BY <1>1, <1>5, <3>1, <3>2, TaskNames, NameGiven
    <3>3. CASE u # t
      <4>1. task'[u] = task[u] /\ UNCHANGED session /\ db' \subseteq db
        BY <1>5, <3>3, TaskNames
      <4> QED
        BY <1>1, <3>1, <4>1, NameGiven DEF Awaiting
    <3> QED
      BY <3>2, <3>3
  <2> QED
    BY <2>1 DEF NameInv
<1>6. ASSUME NEW c \in Conns, Work(c) PROVE NameInv'
  <2>1. CASE Looks(c)
    BY <1>2, <2>1 DEF Looks
  <2>2. ASSUME NEW last, NEW error, NEW code \in {"ok", "aborted"},
               worker[c] \in {"send", "server"}, AnswersTo(c, last, error, code),
               Succeeds(c) \/ Fails(c) \/ UNCHANGED <<session, db>>
        PROVE  NameInv'
    <3>1. PICK t \in Tasks :
             /\ task[t].conn = c /\ task[t].job = conn[c].slot /\ Awaiting(t)
             /\ task'[t].n = task[t].n /\ task'[t].conn = c /\ task'[t].port = code
             /\ task'[t].wrote = task[t].wrote
             /\ \A u \in Tasks \ {t} : task'[u] = task[u]
      BY <2>2 DEF AnswersTo
    <3>2. PICK id : id = conn[c].slot.id
      OBVIOUS
    <3>3. id \in {t} \X (1..task[t].n)
      BY <3>1, <3>2 DEF MailInvs, MailInv, JobInv
    <3>4. /\ \A d \in Conns \ {c} : session'[d] = session[d]
          /\ session'[c].dirty \subseteq session[c].dirty \cup {id}
          /\ db' \subseteq db \cup {id} \cup session[c].dirty
      BY <2>2, <3>2, AnswerBounded
    <3>5. ASSUME NEW u \in Tasks PROVE NameKept(u)'
      <4>1. /\ NameKept(u) /\ task'[u].n = task[u].n /\ task'[u].wrote = task[u].wrote
            /\ task'[u].conn = task[u].conn
            /\ u = t => task'[u].port # "none"
            /\ u # t => task'[u] = task[u]
        BY <2>2, <3>1 DEF NameInv
      <4> QED
        BY <3>1, <3>3, <3>4, <4>1, NameRuns
    <3> QED
      BY <3>5 DEF NameInv
  <2> QED
    BY <1>6, <2>1, <2>2, WorkSteps
<1> QED
  BY <1>3, <1>4, <1>5, <1>6 DEF Next

-------------------------------------------------------------------------------
(* Where the transaction of t stands: its flags and its outcome so far, and *)
(* what of its writes is where.  The call that waits for its answer has not *)
(* run (Pending); what has run is in the open transaction of its session    *)
(* while the session matters (Held), and nothing is durable (Hidden).       *)
Begins(t) == "begin" \in ToSet(task[t].job.stmts)
Pending(t) == IF Awaiting(t) /\ task[t].port = "none" THEN {task[t].job.id} ELSE {}
Live(t) == Up \/ conn[task[t].conn].slot # NoJob
Hidden(t) == task[t].wrote \cap db = {}
Durable(t) == task[t].wrote \subseteq db
Held(t) == Live(t) => /\ session[task[t].conn].txn
                      /\ task[t].wrote \ Pending(t) \subseteq session[task[t].conn].dirty
Commits(t) == task[t].pc = "ending" /\ "commit" \in ToSet(task[t].job.stmts)
RollsBack(t) == task[t].pc = "ending" /\ "commit" \notin ToSet(task[t].job.stmts)

Plain(t) ==
    LET pc == task[t].pc
    IN  /\ pc # "out"
        /\ task[t].begin => pc = "body" /\ task[t].wrote = {}
        /\ pc \in {"body", "await"} \/ Commits(t) => task[t].outcome = "none"
        /\ pc = "thrown" \/ RollsBack(t) => task[t].outcome = "threw"
        /\ RollsBack(t) => ~Begins(t)
        /\ pc = "await" /\ task[t].port = "none" /\ Begins(t) =>
              task[t].wrote \subseteq {task[t].job.id}
        /\ Commits(t) /\ Begins(t) => task[t].wrote = {}
MustHold(t) ==
    \/ task[t].pc = "body" /\ ~task[t].begin
    \/ task[t].pc = "await" /\ task[t].port = "ok"
    \/ (task[t].pc = "await" \/ Commits(t)) /\ task[t].port = "none" /\ ~Begins(t)
MustHide(t) ==
    \/ task[t].pc \in {"body", "await", "thrown"} \/ RollsBack(t)
    \/ Commits(t) /\ task[t].port = "none"
Left(t) ==
    task[t].pc = "leaving" =>
        /\ task[t].outcome = "threw" => Hidden(t)
        /\ task[t].outcome = "returned" => Durable(t)
        /\ Hidden(t) \/ Durable(t)
TxKept(t) ==
    /\ Plain(t)
    /\ MustHold(t) => Held(t)
    /\ MustHide(t) => Hidden(t)
    /\ Commits(t) /\ task[t].port = "ok" => Durable(t)
    /\ Commits(t) /\ task[t].port = "aborted" => Hidden(t) \/ Durable(t)
    /\ Left(t)
TxInv == \A t \in Tasks : task[t].tx => TxKept(t)

(* The transaction of a task that stands still: its session does too while  *)
(* it matters, and what others make durable or withdraw is not its own.     *)
LEMMA TxStays ==
    ASSUME NEW u \in Tasks, TxKept(u), task'[u] = task[u],
           Live(u)' => /\ Live(u)
                       /\ session'[task[u].conn].txn = session[task[u].conn].txn
                       /\ session'[task[u].conn].dirty = session[task[u].conn].dirty,
           task[u].wrote \cap db' = task[u].wrote \cap db
    PROVE  TxKept(u)'
<1>1. Plain(u)'
  BY DEF TxKept, Plain, Commits, RollsBack, Begins
<1>2. /\ Held(u) => Held(u)'
      /\ Hidden(u) => Hidden(u)'
      /\ Durable(u) => Durable(u)'
  <2>1. Pending(u)' = Pending(u)
    BY DEF Pending, Awaiting
  <2>2. Held(u) => Held(u)'
    BY <2>1 DEF Held
  <2>3. (Hidden(u) => Hidden(u)') /\ (Durable(u) => Durable(u)')
    BY DEF Hidden, Durable
  <2> QED
    BY <2>2, <2>3
<1>3. /\ MustHold(u)' = MustHold(u) /\ MustHide(u)' = MustHide(u)
      /\ Commits(u)' = Commits(u)
  BY DEF MustHold, MustHide, Commits, RollsBack, Begins
<1>4. Left(u)'
  BY <1>2 DEF TxKept, Left
<1> QED
  BY <1>1, <1>2, <1>3, <1>4 DEF TxKept

(* The others, while t does something on its own connection.                *)
LEMMA OthersTx ==
    ASSUME MailInvs, TxInv, NEW t \in Tasks,
           \A u \in Tasks \ {t} : task'[u] = task[u],
           \A u \in Tasks \ {t} : task[u].pc # "out" =>
               /\ conn'[task[u].conn].slot = conn[task[u].conn].slot
               /\ session'[task[u].conn] = session[task[u].conn]
               /\ task[u].wrote \cap db' = task[u].wrote \cap db,
           Up' => Up, task'[t].tx => TxKept(t)'
    PROVE  TxInv'
<1>1. ASSUME NEW u \in Tasks \ {t}, task[u].tx PROVE TxKept(u)'
  <2>1. TxKept(u) /\ task[u].pc # "out"
    BY <1>1 DEF TxInv, TxKept, Plain
  <2>2. Live(u)' => Live(u)
    BY <2>1 DEF Live
  <2> QED
    BY <1>1, <2>1, <2>2, TxStays
<1> QED
  BY <1>1 DEF TxInv

LEMMA TxTask ==
    ASSUME MailInvs, NameInv, TxInv, NEW t \in Tasks, TaskStep(t)
    PROVE  TxInv'
<1>1. /\ TypeInv /\ (task[t].pc # "out" => task[t].conn \in Conns)
      /\ NameKept(t) /\ (task[t].tx => TxKept(t)) /\ task[t].n \in Nat
      /\ task[t].port \in {"none", "ok", "aborted"}
  BY Records DEF MailInvs, MailInv, LeaseInv, NameInv, TxInv, TaskStates
<1>2. /\ UNCHANGED <<pool, session>> /\ pool.phase = "open" /\ Up
      /\ \A u \in Tasks \ {t} :
            /\ task'[u] = task[u]
            /\ task[u].pc # "out" => conn'[task[u].conn] = conn[task[u].conn]
  BY TaskAside DEF Up
<1>3. ASSUME UNCHANGED db, task'[t].tx => TxKept(t)' PROVE TxInv'
  BY <1>2, <1>3, OthersTx DEF Up
<1>4. ~Known(Id(t))
  BY <1>1 DEF NameKept
<1>5. CASE \E tx \in BOOLEAN : Lease(t, tx)
  <2>1. Leases(t)
    BY <1>1, <1>5, LeaseEffect
  <2>2. PICK c \in Conns, tx \in BOOLEAN : LeasesAt(t, tx, c)
    BY <2>1 DEF Leases
  <2>3. /\ task'[t].pc = "body" /\ task'[t].wrote = {} /\ task'[t].outcome = "none"
        /\ task'[t].begin = task'[t].tx
    BY <2>2 DEF LeasesAt, TaskBecomes, TaskRec
  <2>4. task'[t].tx => TxKept(t)'
    BY <2>3 DEF TxKept, Plain, MustHold, MustHide, Hidden, Left, Commits, RollsBack
  <2> QED
    BY <1>3, <2>1, <2>4 DEF Leases
<1>6. CASE \E kind \in Kinds, stmts \in Seq(Stmts), then \in {"await", "ending"} :
              Calls(t, kind, stmts, then) /\ Submit(t, kind, stmts, then)
  <2>1. PICK kind \in Kinds, stmts \in Seq(Stmts), then \in {"await", "ending"} :
             Calls(t, kind, stmts, then) /\ Submit(t, kind, stmts, then)
    BY <1>6
  <2>2. /\ task[t].pc \in {"body", "thrown"} /\ task[t].port = "none"
        /\ Submits(t, kind, stmts, then)
    BY <1>1, <2>1, SubmitEffect DEF Calls, MailInvs, MailInv, JobInv, Awaiting
  <2>3. PICK j : j.stmts = stmts /\ SubmitsJob(t, j, then)
    BY <2>2 DEF Submits
  <2>4. /\ task'[t].conn = task[t].conn /\ task'[t].tx = task[t].tx
        /\ task'[t].pc = then /\ task'[t].job = j /\ ~task'[t].begin
        /\ task'[t].wrote = Wrote(t, stmts) /\ task'[t].port = "none"
        /\ task'[t].outcome = task[t].outcome /\ j.id = Id(t)
    BY <2>2, <2>3 DEF SubmitsJob, TaskBecomes, TaskRec
  <2>5. /\ UNCHANGED db
        /\ task'[t].wrote \subseteq task[t].wrote \cup {Id(t)}
        /\ "write" \notin ToSet(stmts) => task'[t].wrote = task[t].wrote
    BY <2>2, <2>4 DEF Submits
  <2>6. /\ Pending(t) = {} /\ Pending(t)' = {Id(t)} /\ Live(t)
    BY <1>2, <2>2, <2>4 DEF Pending, Awaiting, Live
  <2>7. ASSUME task[t].tx, TxKept(t) PROVE TxKept(t)'
    <3>1. /\ Held(t) => Held(t)'
          /\ Hidden(t) => Hidden(t)'
      <4>1. Held(t) => Held(t)'
        BY <1>2, <2>4, <2>5, <2>6 DEF Held
      <4>2. Hidden(t) => Hidden(t)'
        BY <1>4, <2>5 DEF Hidden, Known
      <4> QED
        BY <4>1, <4>2
    <3>2. /\ Begins(t)' <=> task[t].begin
          /\ task[t].begin => task[t].pc = "body" /\ task[t].wrote = {}
      BY <2>1, <2>3, <2>4, <2>7 DEF Begins, Calls, TxKept, Plain
    <3>3. Hidden(t)
      BY <2>2, <2>7 DEF TxKept, MustHide
    <3>4. CASE then = "await"
      <4>1. task[t].pc = "body" /\ task[t].outcome = "none"
        BY <2>1, <2>7, <3>4 DEF Calls, TxKept, Plain
      <4>2. Begins(t)' => task'[t].wrote \subseteq {Id(t)}
        BY <2>5, <3>2
      <4>3. ~Begins(t)' => Held(t)'
        BY <2>7, <3>1, <3>2, <4>1 DEF TxKept, MustHold
      <4>4. task'[t].job.id = Id(t)
        BY <2>4
      <4>5. Plain(t)'
        BY <2>4, <3>4, <4>1, <4>2, <4>4 DEF Plain, Commits, RollsBack
      <4> QED
        BY <2>4, <3>1, <3>3, <3>4, <4>3, <4>5
        DEF TxKept, MustHold, MustHide, Left, Commits, RollsBack
    <3>5. CASE then = "ending"
      <4>1. /\ task'[t].wrote = task[t].wrote /\ "write" \notin ToSet(stmts)
            /\ task[t].pc = "body" <=> "commit" \in ToSet(stmts)
        BY <2>1, <2>5, <3>5, ShapeOf DEF Calls
      <4>2. CASE task[t].pc = "body"
        <5>1. Commits(t)' /\ ~RollsBack(t)'
          BY <2>3, <2>4, <3>5, <4>1, <4>2 DEF Commits, RollsBack
        <5>2. task[t].outcome = "none"
          BY <2>7, <4>2 DEF TxKept, Plain
        <5>3. ~Begins(t)' => Held(t)'
          BY <2>7, <3>1, <3>2, <4>2 DEF TxKept, MustHold
        <5>4. Plain(t)'
          BY <2>4, <3>2, <3>5, <4>1, <5>1, <5>2 DEF Plain
        <5> QED
          BY <2>4, <3>1, <3>3, <3>5, <5>1, <5>3, <5>4
          DEF TxKept, MustHold, MustHide, Left
      <4>3. CASE task[t].pc = "thrown"
        <5>1. RollsBack(t)' /\ ~Commits(t)'
          BY <2>3, <2>4, <3>5, <4>1, <4>3 DEF Commits, RollsBack
        <5>2. task[t].outcome = "threw" /\ ~Begins(t)'
          BY <2>7, <3>2, <4>3 DEF TxKept, Plain
        <5>3. Plain(t)'
          BY <2>4, <3>5, <5>1, <5>2 DEF Plain
        <5> QED
          BY <2>4, <3>1, <3>3, <3>5, <5>1, <5>3
          DEF TxKept, MustHold, MustHide, Left
      <4> QED
        BY <2>2, <4>2, <4>3
    <3> QED
      BY <3>4, <3>5
  <2> QED
    BY <1>1, <1>3, <2>4, <2>5, <2>7
<1>7. CASE Receive(t)
  <2>1. Receives(t) /\ task[t].pc \in {"await", "ending"} /\ task[t].port # "none"
    BY <1>1, <1>7, ReceiveEffect DEF Receive, Resumes
  <2>2. PICK fine \in BOOLEAN : ReceivesAs(t, fine)
    BY <2>1 DEF Receives
  <2>6. fine = (task[t].port = "ok")
    BY <2>2 DEF ReceivesAs
  <2>7. /\ task'[t].conn = task[t].conn /\ task'[t].tx = task[t].tx
        /\ task'[t].wrote = task[t].wrote /\ task'[t].port = "none"
        /\ task'[t].begin = task[t].begin
        /\ task'[t].pc = After(task[t].pc, fine)
        /\ task'[t].outcome = Verdict(task[t].pc, task[t].outcome, fine)
    BY <1>1, <2>1, <2>2 DEF ReceivesAs, TaskBecomes, TaskRec
  <2>3. /\ (fine <=> (task[t].port = "ok"))
        /\ task'[t].conn = task[t].conn /\ task'[t].tx = task[t].tx
        /\ task'[t].wrote = task[t].wrote /\ task'[t].port = "none"
        /\ task'[t].begin = task[t].begin
        /\ task'[t].pc = After(task[t].pc, fine)
        /\ task'[t].outcome = Verdict(task[t].pc, task[t].outcome, fine)
    BY <2>6, <2>7
  <2>4. UNCHANGED db /\ Pending(t) = {} /\ Pending(t)' = {} /\ Live(t)
    BY <1>2, <2>1, <2>7 DEF Receives, Pending, Live, Awaiting, After
  <2>5. ASSUME task[t].tx, TxKept(t) PROVE TxKept(t)'
    <3>1. /\ Held(t) => Held(t)'
          /\ Hidden(t) => Hidden(t)'
          /\ Durable(t) => Durable(t)'
      <4>1. Held(t) => Held(t)'
        BY <1>2, <2>3, <2>4 DEF Held
      <4>2. (Hidden(t) => Hidden(t)') /\ (Durable(t) => Durable(t)')
        BY <2>3, <2>4 DEF Hidden, Durable
      <4> QED
        BY <4>1, <4>2
    <3>2. ~task'[t].begin
      BY <2>1, <2>3, <2>5 DEF TxKept, Plain
    <3>3. CASE task[t].pc = "await"
      <4>1. task[t].outcome = "none" /\ Hidden(t) /\ (fine => Held(t))
        BY <2>3, <2>5, <3>3 DEF TxKept, Plain, MustHold, MustHide
      <4>2. CASE fine
        <5>1. task'[t].pc = "body" /\ task'[t].outcome = "none"
          BY <2>3, <3>3, <4>1, <4>2 DEF After, Verdict
        <5> QED
          BY <3>1, <3>2, <4>1, <4>2, <5>1
          DEF TxKept, Plain, MustHold, MustHide, Left, Commits, RollsBack
      <4>3. CASE ~fine
        <5>1. task'[t].pc = "thrown" /\ task'[t].outcome = "threw"
          BY <2>3, <3>3, <4>1, <4>3 DEF After, Verdict
        <5> QED
          BY <3>1, <3>2, <4>1, <5>1
          DEF TxKept, Plain, MustHold, MustHide, Left, Commits, RollsBack
      <4> QED
        BY <4>2, <4>3
    <3>4. CASE task[t].pc = "ending"
      <4>1. task'[t].pc = "leaving"
        BY <2>3, <3>4 DEF After
      <4>2. SUFFICES Left(t)'
        BY <3>2, <4>1
        DEF TxKept, Plain, MustHold, MustHide, Commits, RollsBack
      <4>3. CASE Commits(t) /\ fine
        <5>1. Durable(t) /\ task[t].outcome = "none"
          BY <2>3, <2>5, <4>3 DEF TxKept, Plain
        <5>2. task'[t].outcome = "returned"
          BY <2>3, <3>4, <4>3, <5>1 DEF Verdict
        <5> QED
          BY <3>1, <5>1, <5>2 DEF Left
      <4>4. CASE Commits(t) /\ ~fine
        <5>1. task[t].port = "aborted" /\ task[t].outcome = "none"
          BY <1>1, <2>1, <2>3, <2>5, <4>4 DEF TxKept, Plain
        <5>2. task'[t].outcome = "commit_failed" /\ (Hidden(t) \/ Durable(t))
          BY <2>3, <2>5, <3>4, <4>4, <5>1 DEF Verdict, TxKept
        <5> QED
          BY <3>1, <5>2 DEF Left
      <4>5. CASE ~Commits(t)
        <5>1. RollsBack(t)
          BY <3>4, <4>5 DEF Commits, RollsBack
        <5>2. task[t].outcome = "threw" /\ Hidden(t)
          BY <2>5, <5>1 DEF TxKept, Plain, MustHide
        <5>3. task'[t].outcome = "threw"
          BY <2>3, <5>2 DEF Verdict
        <5> QED
          BY <3>1, <5>2, <5>3 DEF Left
      <4> QED
        BY <4>3, <4>4, <4>5
    <3> QED
      BY <2>1, <3>3, <3>4
  <2> QED
    BY <1>1, <1>3, <2>3, <2>4, <2>5
<1>8. CASE Release(t)
  <2>1. Releases(t)
    BY <1>1, <1>8, ReleaseEffect DEF Release
  <2>2. db' = db \ task[t].wrote /\ ~task'[t].tx
    BY <2>1 DEF Releases, TaskBecomes, TaskRec
  <2>3. ASSUME NEW u \in Tasks \ {t}
        PROVE  task[u].wrote \cap db' = task[u].wrote \cap db
    <3>1. task[u].wrote \cap task[t].wrote = {}
      <4>1. /\ \A id \in task[u].wrote : id[1] = u
            /\ \A id \in task[t].wrote : id[1] = t
        BY DEF NameInv, NameKept
      <4> QED
        BY <4>1
    <3> QED
      BY <2>2, <3>1
  <2> QED
    BY <1>2, <2>2, <2>3, OthersTx DEF Up
<1> QED
  BY <1>5, <1>6, <1>7, <1>8, TaskSteps

(* What an answer says of a transaction: where its statements are.          *)
LEMMA AnswerRuns ==
    ASSUME MailInvs, NEW c \in Conns, worker[c] \in {"send", "server"},
           NEW code \in {"ok", "aborted"}, code = "ok" => Succeeds(c),
           code = "aborted" => Fails(c) \/ UNCHANGED <<session, db>>
    PROVE  LET job == conn[c].slot
               pc == task[job.owner].pc
               Does(s) == s \in ToSet(job.stmts)
               old == session[c]
           IN  /\ Does("begin") => db' \subseteq db \cup old.dirty
               /\ ~Does("begin") /\ old.txn /\ pc = "await" => db' = db
               /\ code = "ok" /\ pc = "await" /\ (Does("begin") \/ old.txn) =>
                     /\ session'[c].txn
                     /\ Does("write") => job.id \in session'[c].dirty
                     /\ ~Does("begin") => old.dirty \subseteq session'[c].dirty
               /\ ~Does("begin") /\ Does("commit") =>
                     /\ code = "ok" => db' = db \cup old.dirty
                     /\ db' = db \/ db' = db \cup old.dirty
               /\ ~Does("begin") /\ Does("rollback") => db' = db
<1> DEFINE job == conn[c].slot
           pc == task[job.owner].pc
           Does(s) == s \in ToSet(job.stmts)
<1>1. /\ TypeInv
      /\ Does("commit") => ~Does("rollback")
      /\ pc = "await" => ~Does("commit") /\ ~Does("rollback")
      /\ Does("commit") \/ Does("rollback") => ~Does("write")
  BY Answered, ShapeOf DEF MailInvs
<1>2. CASE code = "ok"
  <2>1. RanAll(c)
    BY <1>2, RunEffect
  <2>2. PICK after : after = Effects(c, job.stmts)
    OBVIOUS
  <2>3. session'[c].txn = after.txn /\ session'[c].dirty = after.dirty /\ db' = after.db
    BY <2>1, <2>2 DEF RanAll, SessRec
  <2> QED
    BY <1>1, <1>2, <2>2, <2>3, EffectsOf
<1>3. CASE code = "aborted" /\ Fails(c)
  <2>1. \E part : \E lost \in BOOLEAN : RanSome(c, part, lost)
    BY <1>3, RunEffect
  <2>2. PICK part, lost : lost \in BOOLEAN /\ RanSome(c, part, lost)
    BY <2>1
  <2>3. PICK after : after = Effects(c, part)
    OBVIOUS
  <2>4. /\ db' = after.db /\ ToSet(part) \subseteq ToSet(job.stmts)
        /\ Does("begin") => ToSet(part) = {} \/ "begin" \in ToSet(part)
    BY <2>2, <2>3 DEF RanSome
  <2> QED
    BY <1>1, <1>3, <2>3, <2>4, EffectsOf
<1>4. CASE code = "aborted" /\ UNCHANGED <<session, db>>
  BY <1>4
<1> QED
  BY <1>2, <1>3, <1>4

LEMMA TxAnswer ==
    ASSUME MailInvs, NameInv, TxInv, NEW c \in Conns, worker[c] \in {"send", "server"},
           NEW last, NEW error, NEW code \in {"ok", "aborted"},
           AnswersTo(c, last, error, code), code = "ok" => Succeeds(c),
           code = "aborted" => Fails(c) \/ UNCHANGED <<session, db>>
    PROVE  TxInv'
<1>1. PICK t \in Tasks :
        /\ t = conn[c].slot.owner /\ Awaiting(t) /\ task[t].port = "none"
        /\ task[t].conn = c /\ task[t].job = conn[c].slot
        /\ task'[t].pc = task[t].pc /\ task'[t].conn = c
        /\ task'[t].tx = task[t].tx /\ task'[t].begin = task[t].begin
        /\ task'[t].job = task[t].job /\ task'[t].port = code
        /\ task'[t].wrote = task[t].wrote /\ task'[t].outcome = task[t].outcome
        /\ \A u \in Tasks \ {t} : task'[u] = task[u]
  BY DEF AnswersTo
<1>2. PICK job : job = conn[c].slot
  OBVIOUS
<1>3. PICK id, stmts : id = job.id /\ stmts = job.stmts
  OBVIOUS
<1>4. PICK old, new : old = session[c] /\ new = session'[c]
  OBVIOUS
<1>5. /\ task[t].job.id = id /\ task[t].job.stmts = stmts /\ job # NoJob
      /\ id \in {t} \X (1..task[t].n)
      /\ task[t].pc = "await" \/ task[t].pc = "ending"
      /\ ~Known(id) /\ (id \in task[t].wrote => "write" \in ToSet(stmts))
      /\ Shape(task[t].pc, stmts)
  BY <1>1, <1>2, <1>3, Answered DEF NameInv, NameKept, Awaiting
<1>6. /\ \A d \in Conns \ {c} : session'[d] = session[d] /\ conn'[d] = conn[d]
      /\ db \subseteq db' /\ db' \subseteq db \cup {id} \cup old.dirty
      /\ UNCHANGED pool
  BY <1>2, <1>3, <1>4, AnswerBounded DEF AnswersTo
<1>7. ASSUME NEW u \in Tasks \ {t}, task[u].pc # "out"
      PROVE  /\ conn'[task[u].conn].slot = conn[task[u].conn].slot
             /\ session'[task[u].conn] = session[task[u].conn]
             /\ task[u].wrote \cap db' = task[u].wrote \cap db
  <2>1. task[u].conn \in Conns \ {c}
    BY <1>1, <1>5, <1>7, Apart
  <2>2. id \notin task[u].wrote /\ task[u].wrote \cap old.dirty = {}
    BY <1>4, <1>5, <2>1 DEF NameInv, NameKept
  <2> QED
    BY <1>6, <2>1, <2>2
<1>8. /\ "begin" \in ToSet(stmts) => db' \subseteq db \cup old.dirty
      /\ "begin" \notin ToSet(stmts) /\ old.txn /\ task[t].pc = "await" => db' = db
      /\ code = "ok" /\ task[t].pc = "await" /\ ("begin" \in ToSet(stmts) \/ old.txn) =>
            /\ new.txn
            /\ "write" \in ToSet(stmts) => id \in new.dirty
            /\ "begin" \notin ToSet(stmts) => old.dirty \subseteq new.dirty
      /\ "begin" \notin ToSet(stmts) /\ "commit" \in ToSet(stmts) =>
            /\ code = "ok" => db' = db \cup old.dirty
            /\ db' = db \/ db' = db \cup old.dirty
      /\ "begin" \notin ToSet(stmts) /\ "rollback" \in ToSet(stmts) => db' = db
  BY <1>1, <1>2, <1>3, <1>4, AnswerRuns
<1>9. ASSUME task[t].tx, TxKept(t) PROVE TxKept(t)'
  <2>1. /\ Begins(t) <=> "begin" \in ToSet(stmts)
        /\ Begins(t)' = Begins(t) /\ Commits(t)' = Commits(t)
        /\ RollsBack(t)' = RollsBack(t) /\ Plain(t)'
    BY <1>1, <1>5, <1>9, ZenonT(60) DEF Begins, Commits, RollsBack, TxKept, Plain
  <2>2. Live(t) /\ Pending(t) = {id} /\ Pending(t)' = {}
    BY <1>1, <1>2, <1>5 DEF Live, Pending
  <2>3. /\ Held(t) => old.txn /\ task[t].wrote \ {id} \subseteq old.dirty
        /\ new.txn /\ task[t].wrote \subseteq new.dirty => Held(t)'
    BY <1>1, <1>4, <2>2 DEF Held
  <2>4. /\ Hidden(t) /\ db' = db => Hidden(t)'
        /\ task[t].wrote \cap db' = {} => Hidden(t)'
        /\ task[t].wrote \subseteq db' => Durable(t)'
    BY <1>1 DEF Hidden, Durable
  <2>5. id \notin db /\ id \notin old.dirty
    BY <1>4, <1>5 DEF Known
  <2>6. CASE task[t].pc = "await"
    <3>1. Hidden(t) /\ ~Commits(t) /\ ~RollsBack(t)
      BY <1>9, <2>6 DEF TxKept, MustHide, Commits, RollsBack
    <3>2. CASE "begin" \in ToSet(stmts)
      <4>1. task[t].wrote \subseteq {id}
        BY <1>1, <1>5, <1>9, <2>1, <2>6, <3>2 DEF TxKept, Plain
      <4>2. Hidden(t)'
        BY <1>8, <2>4, <2>5, <3>2, <4>1
      <4>3. code = "ok" => Held(t)'
        BY <1>5, <1>8, <2>3, <2>6, <3>2, <4>1
      <4> QED
        BY <1>1, <2>1, <2>6, <3>1, <4>2, <4>3 DEF TxKept, MustHold, MustHide, Left
    <3>3. CASE "begin" \notin ToSet(stmts)
      <4>1. old.txn /\ task[t].wrote \ {id} \subseteq old.dirty
        BY <1>1, <1>9, <2>1, <2>3, <2>6, <3>3 DEF TxKept, MustHold
      <4>2. Hidden(t)'
        BY <1>8, <2>4, <2>6, <3>1, <3>3, <4>1
      <4>3. code = "ok" => Held(t)'
        BY <1>5, <1>8, <2>3, <2>6, <3>3, <4>1
      <4> QED
        BY <1>1, <2>1, <2>6, <3>1, <4>2, <4>3 DEF TxKept, MustHold, MustHide, Left
    <3> QED
      BY <3>2, <3>3
  <2>7. CASE Commits(t)
    <3>1. /\ "commit" \in ToSet(stmts) /\ ~RollsBack(t) /\ task[t].pc = "ending"
          /\ Hidden(t)
      BY <1>1, <1>5, <1>9, <2>7 DEF TxKept, MustHide, Commits, RollsBack
    <3>2. CASE "begin" \in ToSet(stmts)
      <4>1. task[t].wrote = {}
        BY <1>9, <2>1, <2>7, <3>2 DEF TxKept, Plain
      <4>2. Hidden(t)' /\ Durable(t)'
        BY <2>4, <4>1
      <4> QED
        BY <1>1, <2>1, <3>1, <4>2 DEF TxKept, MustHold, MustHide, Left
    <3>3. CASE "begin" \notin ToSet(stmts)
      <4>1. task[t].wrote \ {id} \subseteq old.dirty
        BY <1>1, <1>9, <2>1, <2>3, <2>7, <3>3 DEF TxKept, MustHold
      <4>2. id \notin task[t].wrote
        BY <1>5, <3>1, ShapeOf
      <4>3. code = "ok" => Durable(t)'
        BY <1>8, <2>4, <3>1, <3>3, <4>1, <4>2
      <4>4. Hidden(t)' \/ Durable(t)'
        BY <1>8, <2>4, <3>1, <3>3, <4>1, <4>2
      <4> QED
        BY <1>1, <2>1, <3>1, <4>3, <4>4 DEF TxKept, MustHold, MustHide, Left
    <3> QED
      BY <3>2, <3>3
  <2>8. CASE RollsBack(t)
    <3>1. /\ "commit" \notin ToSet(stmts) /\ ~Commits(t) /\ task[t].pc = "ending"
          /\ Hidden(t) /\ "begin" \notin ToSet(stmts)
      BY <1>1, <1>5, <1>9, <2>1, <2>8 DEF TxKept, Plain, MustHide, Commits, RollsBack
    <3>2. "rollback" \in ToSet(stmts)
      BY <1>5, <3>1, ShapeOf
    <3>3. Hidden(t)'
      BY <1>8, <2>4, <3>1, <3>2
    <3> QED
      BY <1>1, <2>1, <3>1, <3>3 DEF TxKept, MustHold, MustHide, Left
  <2> QED
    BY <1>5, <2>6, <2>7, <2>8 DEF Commits, RollsBack
<1>10. (Up' => Up) /\ (task'[t].tx => TxKept(t)')
  BY <1>1, <1>6, <1>9 DEF Up, TxInv
<1> QED
  BY <1>1, <1>7, <1>10, OthersTx

LEMMA TxStep ==
    ASSUME MailInvs, NameInv, TxInv, [Next]_vars
    PROVE  TxInv'
<1>1. ASSUME UNCHANGED <<db, task>>,
             \A u \in Tasks : task[u].pc # "out" /\ Live(u)' =>
                 /\ Live(u)
                 /\ session'[task[u].conn].txn = session[task[u].conn].txn
                 /\ session'[task[u].conn].dirty = session[task[u].conn].dirty
      PROVE  TxInv'
  <2>1. ASSUME NEW u \in Tasks, task[u].tx PROVE TxKept(u)'
    <3>1. TxKept(u) /\ task[u].pc # "out"
      BY <2>1 DEF TxInv, TxKept, Plain
    <3> QED
      BY <1>1, <3>1, TxStays
  <2> QED
    BY <1>1, <2>1 DEF TxInv
<1>2. CASE UNCHANGED vars
  BY <1>1, <1>2 DEF vars, Live, Up
<1>3. CASE Lifecycle \/ Destroy
  <2>1. UNCHANGED <<db, task>> /\ (Up' => pool.phase = "create")
    BY <1>3, LifecyclePool, LifecycleQuiet DEF MailInvs
  <2>2. ASSUME NEW u \in Tasks, task[u].pc # "out", Live(u)'
        PROVE  /\ Live(u)
               /\ session'[task[u].conn].txn = session[task[u].conn].txn
               /\ session'[task[u].conn].dirty = session[task[u].conn].dirty
    <3>1. task[u].conn \in Conns /\ ~Up'
      BY <2>1, <2>2 DEF MailInvs, MailInv, LeaseInv
    <3>2. conn'[task[u].conn].slot # NoJob
      BY <2>1, <2>2, <3>1 DEF Live
    <3>3. /\ conn'[task[u].conn].slot = conn[task[u].conn].slot
          /\ session'[task[u].conn].txn = session[task[u].conn].txn
          /\ session'[task[u].conn].dirty = session[task[u].conn].dirty
      BY <1>3, <3>1, <3>2, LifecycleQuiet DEF MailInvs
    <3> QED
      BY <3>2, <3>3 DEF Live
  <2> QED
    BY <1>1, <2>1, <2>2
<1>4. ASSUME NEW c \in Conns, Work(c) PROVE TxInv'
  <2>1. CASE Looks(c)
    <3>1. ASSUME NEW u \in Tasks, task[u].pc # "out" PROVE Live(u)' => Live(u)
      <4>1. task[u].conn \in Conns
        BY <3>1 DEF MailInvs, MailInv, LeaseInv
      <4> QED
        BY <2>1, <4>1 DEF Looks, Live, Up
    <3> QED
      BY <1>1, <2>1, <3>1 DEF Looks
  <2> QED
    BY <1>4, <2>1, TxAnswer, WorkSteps
<1> QED
  BY <1>2, <1>3, <1>4, TxTask DEF Next

LEMMA TxInit == Init => NameInv /\ TxInv
BY DEF Init, NameInv, NameKept, Known, TxInv, Awaiting, IdleTask, FreshSession

(* A transaction whose body threw leaves nothing, one that returned left    *)
(* everything, and one whose COMMIT failed left all or nothing              *)
(* (mysql_unit_of_work.dart, mysql_pool_worker.c): whatever the other       *)
(* lessees do, whichever statement fails, is killed or waits in vain for a  *)
(* lock, and wherever the connection is lost.                               *)
THEOREM TransactionsAreAtomic == Spec => []TransactionIsAtomic
<1>1. TxInv => TransactionIsAtomic
  BY DEF TxInv, TxKept, Left, Hidden, Durable, TransactionIsAtomic
<1> QED
  BY <1>1, TxInit, MailInvariance, NameStep, TxStep, PTL DEF Spec
=============================================================================
