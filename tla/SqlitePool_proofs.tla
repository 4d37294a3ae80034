--------------------------- MODULE SqlitePool_proofs ---------------------------
(***************************************************************************)
(* What the SQLite stack keeps true for every number of connections and    *)
(* tasks and whatever their bodies execute.                                *)
(*                                                                         *)
(* First types, and what each action does to the records it changes,       *)
(* stated as an operator per action (Leases, Submits, Receives, ...): the  *)
(* rest of the proofs reads those and never expands an action again.  Then *)
(* MailInvs, inductive by itself: a filled slot holds the call its lessee  *)
(* awaits, or one nobody awaits any more (LeftBehind), and executeSync     *)
(* finds its slot empty.  On top of it, each inductive relative to         *)
(* MailInvs: AnswerInv, what an answer points at is still there; CleanInv, *)
(* a transaction nobody is going to end is one whose COMMIT has failed or  *)
(* whose ROLLBACK was refused; and, in the second half, what a transaction *)
(* leaves in the file.                                                     *)
(***************************************************************************)
EXTENDS SqlitePool, SequenceTheorems, TLAPS

USE DEF Goto, Woken, StopSignal, Id, Wrote, FreeSlot, HasNothingToEnd

Stmts == {"read", "write", "begin", "commit", "rollback"}
Ids == (Tasks \cup {NoTask}) \X Nat
Jobs == [id : Ids, owner : Tasks \cup {NoTask}, stmts : Seq(Stmts)]
Kinds == {"single", "batch", "multi"}
Rows == [id : Ids, stmt : Nat]

PoolStates ==
    [phase : {"create", "open", "sync", "stop", "join", "freed"}, at : Conns,
     made : 0..MaxSize, undo : BOOLEAN, job : Jobs]
ConnStates ==
    [inUse : BOOLEAN, slot : Jobs, kind : Kinds, last : Seq(Rows), error : Ids,
     stop : BOOLEAN, owed : Seq(Nat)]
HandleStates == [txn : BOOLEAN, dirty : SUBSET Ids, stuck : BOOLEAN]
TaskStates ==
    [pc : {"out", "begin", "beginning", "body", "await", "thrown", "ending",
           "leaving"},
     n : Nat, conn : Conns \cup {0}, tx : BOOLEAN, job : Jobs, kind : Kinds,
     port : {"none", "ok", "aborted"}, wrote : SUBSET Ids,
     outcome : {"none", "threw", "returned", "commit_failed"},
     behind : BOOLEAN, mixed : BOOLEAN]

TypeInv ==
    /\ pool \in PoolStates
    /\ conn \in [Conns -> ConnStates]
    /\ worker \in [Conns -> {"none", "check", "asleep", "run", "exited"}]
    /\ handle \in [Conns -> HandleStates]
    /\ db \in SUBSET Ids
    /\ task \in [Tasks -> TaskStates]

LoopInv ==
    /\ pool.phase = "create" => pool.made = pool.at - 1
    /\ pool.phase \in {"open", "sync"} => pool.made = MaxSize
    /\ pool.phase \in {"stop", "join"} => pool.at <= pool.made

LEMMA EffectsTyped ==
    ASSUME TypeInv, NEW c \in Conns, NEW id \in Ids, NEW stmts \in Seq(Stmts)
    PROVE  /\ Effects(c, id, stmts).txn \in BOOLEAN
           /\ Effects(c, id, stmts).dirty \in SUBSET Ids
           /\ Effects(c, id, stmts).db \in SUBSET Ids
BY DEF Effects, TypeInv, HandleStates

LEMMA PrefixTyped ==
    ASSUME NEW S, NEW s \in Seq(S), NEW k \in 0..(Len(s) - 1)
    PROVE  SubSeq(s, 1, k) \in Seq(S) /\ s[k + 1] \in S
OBVIOUS

LEMMA RunsTyped ==
    ASSUME TypeInv, NEW c \in Conns, NEW id \in Ids, NEW stmts \in Seq(Stmts),
           RunsAll(c, id, stmts) \/ RunsSome(c, id, stmts)
    PROVE  handle' \in [Conns -> HandleStates] /\ db' \in SUBSET Ids
<1>1. CASE RunsAll(c, id, stmts)
  BY <1>1, EffectsTyped DEF RunsAll, TypeInv, HandleStates
<1>2. CASE RunsSome(c, id, stmts)
  <2>1. PICK k \in 0..(Len(stmts) - 1), undone \in BOOLEAN :
          LET after == Effects(c, id, SubSeq(stmts, 1, k))
              s == stmts[k + 1]
          IN  /\ handle' = [handle EXCEPT ![c] =
                  IF undone /\ after.txn /\ s # "begin" THEN FreshHandle
                  ELSE [txn |-> after.txn, dirty |-> after.dirty,
                        stuck |-> @.stuck \/ (s = "commit" /\ after.txn)]]
              /\ db' = after.db
    BY <1>2 DEF RunsSome
  <2>2. SubSeq(stmts, 1, k) \in Seq(Stmts)
    BY PrefixTyped
  <2> QED
    BY <2>1, <2>2, EffectsTyped DEF TypeInv, HandleStates, FreshHandle
<1> QED
  BY <1>1, <1>2

LEMMA ConstantsTyped ==
    /\ NoId \in Ids /\ NoJob \in Jobs
    /\ MaxSize \in Nat \ {0} /\ 1 \in Conns
    /\ FreshHandle \in HandleStates
BY MaxSizeIsPositive, EmptySeq
DEF NoId, Ids, NoJob, Jobs, Conns, FreshHandle, HandleStates

LEMMA Init1 == Init => TypeInv /\ LoopInv
<1>1. FreshConn \in ConnStates /\ IdleTask \in TaskStates
  BY ConstantsTyped, EmptySeq
  DEF FreshConn, ConnStates, IdleTask, TaskStates, Kinds
<1> QED
  BY <1>1, ConstantsTyped DEF Init, TypeInv, LoopInv, PoolStates, Conns

-------------------------------------------------------------------------------
(* What each action does to the records it changes, field by field. *)

LEMMA Update ==
    ASSUME NEW S, NEW T, NEW f \in [S -> T], NEW x \in S, NEW v \in T,
           NEW g, g = [f EXCEPT ![x] = v]
    PROVE  /\ g \in [S -> T]
           /\ g[x] = v
           /\ \A y \in S \ {x} : g[y] = f[y]
OBVIOUS

LEMMA Records ==
    ASSUME TypeInv
    PROVE  /\ \A t \in Tasks : task[t] \in TaskStates
           /\ \A c \in Conns : conn[c] \in ConnStates
           /\ \A c \in Conns : handle[c] \in HandleStates
           /\ pool \in PoolStates
BY DEF TypeInv

(* The updates of a connection and of a task, each spelled out as a whole   *)
(* record.                                                                  *)
LEMMA ConnLent ==
    ASSUME NEW r \in ConnStates, NEW x, NEW q,
           q = [r EXCEPT !.inUse = x]
    PROVE  q = [inUse |-> x, slot |-> r.slot, kind |-> r.kind,
                last |-> r.last, error |-> r.error, stop |-> r.stop, owed |-> r.owed]
BY DEF ConnStates

LEMMA ConnFilled ==
    ASSUME NEW r \in ConnStates, NEW j, NEW k, NEW q,
           q = [r EXCEPT !.slot = j, !.kind = k]
    PROVE  q = [inUse |-> r.inUse, slot |-> j, kind |-> k,
                last |-> r.last, error |-> r.error, stop |-> r.stop, owed |-> r.owed]
BY DEF ConnStates

LEMMA ConnDrained ==
    ASSUME NEW r \in ConnStates, NEW l, NEW q,
           q = [r EXCEPT !.last = l]
    PROVE  q = [inUse |-> r.inUse, slot |-> r.slot, kind |-> r.kind,
                last |-> l, error |-> r.error, stop |-> r.stop, owed |-> r.owed]
BY DEF ConnStates

LEMMA ConnErred ==
    ASSUME NEW r \in ConnStates, NEW e, NEW q,
           q = [r EXCEPT !.error = e]
    PROVE  q = [inUse |-> r.inUse, slot |-> r.slot, kind |-> r.kind,
                last |-> r.last, error |-> e, stop |-> r.stop, owed |-> r.owed]
BY DEF ConnStates

LEMMA ConnStopped ==
    ASSUME NEW r \in ConnStates, NEW q,
           q = [r EXCEPT !.stop = TRUE]
    PROVE  q = [inUse |-> r.inUse, slot |-> r.slot, kind |-> r.kind,
                last |-> r.last, error |-> r.error, stop |-> TRUE, owed |-> r.owed]
BY DEF ConnStates

LEMMA ConnReset ==
    ASSUME NEW q, q = [FreshConn EXCEPT !.stop = TRUE]
    PROVE  q = [inUse |-> FALSE, slot |-> NoJob, kind |-> "single",
                last |-> <<>>, error |-> NoId, stop |-> TRUE, owed |-> <<>>]
BY DEF FreshConn

LEMMA ConnFinished ==
    ASSUME NEW r \in ConnStates, NEW l, NEW o, NEW q,
           q = [[[r EXCEPT !.last = l] EXCEPT !.slot = NoJob, !.kind = "single"]
                   EXCEPT !.owed = o]
    PROVE  q = [inUse |-> r.inUse, slot |-> NoJob,
                kind |-> "single", last |-> l, error |-> r.error,
                stop |-> r.stop, owed |-> o]
BY DEF ConnStates

LEMMA ConnAborted ==
    ASSUME NEW r \in ConnStates, NEW e, NEW o, NEW q,
           q = [[[r EXCEPT !.error = e] EXCEPT !.slot = NoJob, !.kind = "single"]
                   EXCEPT !.owed = o]
    PROVE  q = [inUse |-> r.inUse, slot |-> NoJob,
                kind |-> "single", last |-> r.last, error |-> e,
                stop |-> r.stop, owed |-> o]
BY DEF ConnStates

LEMMA ConnThrew ==
    ASSUME NEW r \in ConnStates, NEW e, NEW o, NEW q,
           q = [r EXCEPT !.error = e, !.owed = o]
    PROVE  q = [inUse |-> r.inUse, slot |-> r.slot, kind |-> r.kind,
                last |-> r.last, error |-> e, stop |-> r.stop, owed |-> o]
BY DEF ConnStates

LEMMA ConnPolled ==
    ASSUME NEW r \in ConnStates, NEW l, NEW o, NEW q,
           q = [r EXCEPT !.last = l, !.owed = o]
    PROVE  q = [inUse |-> r.inUse, slot |-> r.slot, kind |-> r.kind,
                last |-> l, error |-> r.error, stop |-> r.stop, owed |-> o]
BY DEF ConnStates

(* The call left behind stays in the slot; its port is nobody's. *)
Orphan(job) == [id |-> job.id, owner |-> NoTask, stmts |-> job.stmts]

LEMMA ConnOrphaned ==
    ASSUME NEW r \in ConnStates, NEW q,
           q = [r EXCEPT !.slot.owner = NoTask]
    PROVE  q = [inUse |-> r.inUse, slot |-> Orphan(r.slot), kind |-> r.kind,
                last |-> r.last, error |-> r.error, stop |-> r.stop,
                owed |-> r.owed]
BY DEF ConnStates, Jobs, Orphan

LEMMA TaskReceived ==
    ASSUME NEW r \in TaskStates, NEW l, NEW o, NEW m, NEW q,
           q = [r EXCEPT !.pc = l, !.outcome = o, !.job = NoJob,
                          !.port = "none", !.mixed = m]
    PROVE  q = [pc |-> l, n |-> r.n, conn |-> r.conn, tx |-> r.tx,
                job |-> NoJob, kind |-> r.kind, port |-> "none",
                wrote |-> r.wrote, outcome |-> o,
                behind |-> r.behind, mixed |-> m]
BY DEF TaskStates

LEMMA TaskSyncing ==
    ASSUME NEW r \in TaskStates, NEW n, NEW w, NEW m, NEW q,
           q = [r EXCEPT !.n = n, !.wrote = w, !.mixed = m]
    PROVE  q = [pc |-> r.pc, n |-> n, conn |-> r.conn,
                tx |-> r.tx, job |-> r.job, kind |-> r.kind,
                port |-> r.port, wrote |-> w, outcome |-> r.outcome,
                behind |-> r.behind, mixed |-> m]
BY DEF TaskStates

LEMMA TaskThrew ==
    ASSUME NEW r \in TaskStates, NEW q,
           q = [r EXCEPT !.pc = "thrown", !.outcome = "threw",
                         !.job = NoJob, !.port = "none"]
    PROVE  q = [pc |-> "thrown", n |-> r.n, conn |-> r.conn, tx |-> r.tx,
                job |-> NoJob, kind |-> r.kind, port |-> "none",
                wrote |-> r.wrote, outcome |-> "threw", behind |-> r.behind,
                mixed |-> r.mixed]
BY DEF TaskStates

LEMMA TaskRefused ==
    ASSUME NEW r \in TaskStates, NEW q,
           q = [r EXCEPT !.pc = "thrown", !.outcome = "threw", !.job = NoJob]
    PROVE  q = [pc |-> "thrown", n |-> r.n, conn |-> r.conn, tx |-> r.tx,
                job |-> NoJob, kind |-> r.kind, port |-> r.port,
                wrote |-> r.wrote, outcome |-> "threw", behind |-> r.behind,
                mixed |-> r.mixed]
BY DEF TaskStates

LEMMA TaskGaveUp ==
    ASSUME NEW r \in TaskStates, NEW q,
           q = [r EXCEPT !.pc = "leaving", !.outcome = "threw"]
    PROVE  q = [pc |-> "leaving", n |-> r.n, conn |-> r.conn, tx |-> r.tx,
                job |-> r.job, kind |-> r.kind, port |-> r.port,
                wrote |-> r.wrote, outcome |-> "threw", behind |-> r.behind,
                mixed |-> r.mixed]
BY DEF TaskStates

LEMMA TaskLeased ==
    ASSUME NEW l, NEW n, NEW c, NEW x, NEW q,
           q = [IdleTask EXCEPT !.pc = l, !.n = n, !.conn = c, !.tx = x]
    PROVE  q = [pc |-> l, n |-> n, conn |-> c, tx |-> x,
                job |-> NoJob, kind |-> "single", port |-> "none",
                wrote |-> {}, outcome |-> "none", behind |-> FALSE,
                mixed |-> FALSE]
BY DEF IdleTask

LEMMA TaskReset ==
    ASSUME NEW n, NEW q, q = [IdleTask EXCEPT !.n = n]
    PROVE  q = [pc |-> "out", n |-> n, conn |-> 0, tx |-> FALSE,
                job |-> NoJob, kind |-> "single", port |-> "none",
                wrote |-> {}, outcome |-> "none", behind |-> FALSE,
                mixed |-> FALSE]
BY DEF IdleTask

LEMMA TaskAnswered ==
    ASSUME NEW r \in TaskStates, NEW x, NEW q,
           q = [r EXCEPT !.port = x]
    PROVE  q = [pc |-> r.pc, n |-> r.n, conn |-> r.conn,
                tx |-> r.tx, job |-> r.job, kind |-> r.kind,
                port |-> x, wrote |-> r.wrote,
                outcome |-> r.outcome, behind |-> r.behind,
                mixed |-> r.mixed]
BY DEF TaskStates

LEMMA PollsTyped ==
    /\ \A kind \in Kinds, job \in Jobs : Polls(kind, job) \in Nat
    /\ \A last \in Seq(Rows), n \in Nat : Rest(last, n) \in Seq(Rows)
    /\ \A owed \in Seq(Nat), n \in Nat : Append(owed, n) \in Seq(Nat)
<1>1. \A kind \in Kinds, job \in Jobs : Polls(kind, job) \in Nat
  BY LenProperties DEF Polls, Jobs
<1>2. \A last \in Seq(Rows), n \in Nat : Rest(last, n) \in Seq(Rows)
  BY DEF Rest
<1> QED
  BY <1>1, <1>2

(* The actions, each as what it does to its records. *)

Stops ==
    LET c == pool.at
    IN  /\ conn' \in [Conns -> ConnStates]
        /\ \A d \in Conns \ {c} : conn'[d] = conn[d]
        /\ conn'[c] = [inUse |-> conn[c].inUse, slot |-> conn[c].slot,
                       kind |-> conn[c].kind, last |-> conn[c].last,
                       error |-> conn[c].error, stop |-> TRUE, owed |-> conn[c].owed]

LEMMA StopEffect ==
    ASSUME TypeInv, Stop
    PROVE  Stops
<1> DEFINE c == pool.at
           w == [inUse |-> conn[c].inUse, slot |-> conn[c].slot,
                 kind |-> conn[c].kind, last |-> conn[c].last,
                 error |-> conn[c].error, stop |-> TRUE, owed |-> conn[c].owed]
<1>1. c \in Conns /\ conn[c] \in ConnStates
  BY Records DEF PoolStates
<1>2. [conn[c] EXCEPT !.stop = TRUE] = w
  BY <1>1, ConnStopped
<1>3. w \in ConnStates
  BY <1>1 DEF ConnStates
<1> HIDE DEF w, c
<1>4. conn' = [conn EXCEPT ![c] = w]
  BY <1>2 DEF Stop, c
<1> QED
  BY <1>1, <1>3, <1>4, Update DEF TypeInv, c, w, Stops

LeasesAt(t, tx, c) ==
    /\ ~conn[c].inUse
    /\ \A d \in Conns \ {c} : conn'[d] = conn[d]
    /\ conn'[c] = [inUse |-> TRUE, slot |-> conn[c].slot,
                   kind |-> conn[c].kind, last |-> conn[c].last,
                   error |-> conn[c].error, stop |-> conn[c].stop, owed |-> conn[c].owed]
    /\ task'[t] = [pc |-> IF tx THEN "begin" ELSE "body",
                   n |-> task[t].n, conn |-> c, tx |-> tx,
                   job |-> NoJob, kind |-> "single",
                   port |-> "none", wrote |-> {},
                   outcome |-> "none", behind |-> FALSE,
                   mixed |-> FALSE]
Leases(t, tx) ==
    /\ pool.phase = "open" /\ task[t].pc = "out"
    /\ UNCHANGED <<pool, worker, handle, db>>
    /\ task' \in [Tasks -> TaskStates] /\ conn' \in [Conns -> ConnStates]
    /\ \A u \in Tasks \ {t} : task'[u] = task[u]
    /\ \E c \in Conns : LeasesAt(t, tx, c)

LEMMA LeaseEffect ==
    ASSUME TypeInv, NEW t \in Tasks, NEW tx \in BOOLEAN, Lease(t, tx)
    PROVE  Leases(t, tx)
<1>1. PICK c \in Conns :
         /\ ~conn[c].inUse
         /\ conn' = [conn EXCEPT ![c].inUse = TRUE]
         /\ task' = [task EXCEPT ![t] = [IdleTask EXCEPT
                        !.pc = IF tx THEN "begin" ELSE "body",
                        !.n = task[t].n, !.conn = c, !.tx = tx]]
  BY DEF Lease
<1> DEFINE v == [pc |-> IF tx THEN "begin" ELSE "body",
                 n |-> task[t].n, conn |-> c, tx |-> tx,
                 job |-> NoJob, kind |-> "single",
                 port |-> "none", wrote |-> {},
                 outcome |-> "none", behind |-> FALSE, mixed |-> FALSE]
           w == [inUse |-> TRUE, slot |-> conn[c].slot,
                 kind |-> conn[c].kind, last |-> conn[c].last,
                 error |-> conn[c].error, stop |-> conn[c].stop, owed |-> conn[c].owed]
<1>2. task[t] \in TaskStates /\ conn[c] \in ConnStates
  BY Records
<1>3. [IdleTask EXCEPT !.pc = IF tx THEN "begin" ELSE "body",
                       !.n = task[t].n, !.conn = c, !.tx = tx] = v
  BY TaskLeased, ZenonT(60)
<1>4. [conn[c] EXCEPT !.inUse = TRUE] = w
  BY <1>2, ConnLent
<1>5. v \in TaskStates /\ w \in ConnStates
  BY <1>2, ConstantsTyped DEF TaskStates, ConnStates, Kinds
<1> HIDE DEF v, w
<1>6. task' = [task EXCEPT ![t] = v] /\ conn' = [conn EXCEPT ![c] = w]
  BY <1>1, <1>3, <1>4
<1>7. /\ task' \in [Tasks -> TaskStates] /\ conn' \in [Conns -> ConnStates]
      /\ task'[t] = v /\ \A u \in Tasks \ {t} : task'[u] = task[u]
      /\ conn'[c] = w /\ \A d \in Conns \ {c} : conn'[d] = conn[d]
  BY <1>5, <1>6, Update DEF TypeInv
<1> QED
  BY <1>1, <1>7 DEF Lease, v, w, Leases, LeasesAt

Submits(t, kind, stmts, then) ==
    LET c == task[t].conn
        j == [id |-> Id(t), owner |-> t, stmts |-> stmts]
    IN  /\ pool.phase = "open" /\ conn[c].slot = NoJob
        /\ j \in Jobs
        /\ UNCHANGED <<pool, handle, db>>
        /\ task' \in [Tasks -> TaskStates]
        /\ conn' \in [Conns -> ConnStates]
        /\ worker' = [worker EXCEPT ![c] = Woken(c)]
        /\ \A u \in Tasks \ {t} : task'[u] = task[u]
        /\ \A d \in Conns \ {c} : conn'[d] = conn[d]
        /\ conn'[c] = [inUse |-> conn[c].inUse, slot |-> j,
                       kind |-> IF kind = "single" THEN conn[c].kind
                                ELSE kind,
                       last |-> conn[c].last, error |-> conn[c].error,
                       stop |-> conn[c].stop, owed |-> conn[c].owed]
        /\ task'[t] = [pc |-> then, n |-> task[t].n + 1,
                       conn |-> c, tx |-> task[t].tx,
                       job |-> j, kind |-> kind,
                       port |-> task[t].port,
                       wrote |-> Wrote(t, stmts),
                       outcome |-> task[t].outcome,
                       behind |-> conn[c].owed # <<>>,
                       mixed |-> task[t].mixed]

LEMMA SubmitEffect ==
    ASSUME TypeInv, NEW t \in Tasks, NEW kind \in Kinds,
           NEW stmts \in Seq(Stmts), NEW then \in {"beginning", "await", "ending"},
           task[t].conn \in Conns, Submit(t, kind, stmts, then)
    PROVE  Submits(t, kind, stmts, then)
<1> DEFINE c == task[t].conn
           j == [id |-> Id(t), owner |-> t, stmts |-> stmts]
           n == task[t].n + 1
           wrote == Wrote(t, stmts)
           k == IF kind = "single" THEN conn[c].kind ELSE kind
           b == conn[c].owed # <<>>
           v == [pc |-> then, n |-> n, conn |-> c, tx |-> task[t].tx,
                 job |-> j, kind |-> kind, port |-> task[t].port,
                 wrote |-> wrote, outcome |-> task[t].outcome,
                 behind |-> b, mixed |-> task[t].mixed]
           w == [inUse |-> conn[c].inUse, slot |-> j, kind |-> k,
                 last |-> conn[c].last, error |-> conn[c].error,
                 stop |-> conn[c].stop, owed |-> conn[c].owed]
<1>1. task[t] \in TaskStates /\ conn[c] \in ConnStates
  BY Records
<1>2. Id(t) \in Ids /\ task[t].n \in Nat
  BY <1>1 DEF TaskStates, Ids
<1>3. j \in Jobs /\ wrote \in SUBSET Ids /\ k \in Kinds
  BY <1>1, <1>2 DEF Jobs, TaskStates, ConnStates
<1>4. /\ conn' = [conn EXCEPT ![c].slot = j,
                     ![c].kind = IF kind = "single" THEN @ ELSE kind]
      /\ task' = [task EXCEPT ![t] = [task[t] EXCEPT
              !.pc = then, !.n = n, !.job = j, !.kind = kind,
              !.wrote = wrote, !.behind = b]]
      /\ n \in Nat /\ b \in BOOLEAN
  BY <1>2 DEF Submit
<1> HIDE DEF j, n, wrote, k, b
<1>5. [task[t] EXCEPT !.pc = then, !.n = n, !.job = j, !.kind = kind,
                      !.wrote = wrote, !.behind = b] = v
  <2>1. PICK r \in TaskStates : r = task[t]
    BY <1>1
  <2>2. PICK q : q = [r EXCEPT !.pc = then, !.n = n, !.job = j,
                               !.kind = kind, !.wrote = wrote, !.behind = b]
    OBVIOUS
  <2>3. q = [pc |-> then, n |-> n, conn |-> r.conn, tx |-> r.tx, job |-> j,
             kind |-> kind, port |-> r.port, wrote |-> wrote,
             outcome |-> r.outcome, behind |-> b, mixed |-> r.mixed]
    BY <2>2 DEF TaskStates
  <2> QED
    BY <2>1, <2>2, <2>3
<1>6. [conn[c] EXCEPT !.slot = j, !.kind = k] = w
  BY <1>1, ConnFilled
<1>7. v \in TaskStates /\ w \in ConnStates
  <2>1. v \in TaskStates
    BY <1>1, <1>3, <1>4 DEF TaskStates
  <2>2. w \in ConnStates
    BY <1>1, <1>3 DEF ConnStates
  <2> QED
    BY <2>1, <2>2
<1> HIDE DEF v, w
<1>8. task' = [task EXCEPT ![t] = v]
  BY <1>4, <1>5
<1>9. conn' = [conn EXCEPT ![c] = w]
  BY <1>4, <1>6 DEF TypeInv, k
<1>10. /\ task' \in [Tasks -> TaskStates] /\ conn' \in [Conns -> ConnStates]
       /\ task'[t] = v /\ \A u \in Tasks \ {t} : task'[u] = task[u]
       /\ conn'[c] = w /\ \A d \in Conns \ {c} : conn'[d] = conn[d]
  BY <1>7, <1>8, <1>9, Update DEF TypeInv
<1> QED
  BY <1>3, <1>10 DEF Submit, v, w, j, k, n, wrote, b, Submits

(* What a task that resumes has in hand: the code was 1. *)
Fine(t) == task[t].port = "ok"

Receives(t) ==
    LET c == task[t].conn
    IN  /\ pool.phase = "open"
        /\ task[t].pc \in {"beginning", "await", "ending"}
        /\ task[t].port # "none" /\ conn[c].owed = <<>>
        /\ UNCHANGED <<pool, worker, handle, db>>
        /\ task' \in [Tasks -> TaskStates]
        /\ conn' \in [Conns -> ConnStates]
        /\ \A u \in Tasks \ {t} : task'[u] = task[u]
        /\ \A d \in Conns \ {c} : conn'[d] = conn[d]
        /\ conn'[c] = [inUse |-> conn[c].inUse, slot |-> conn[c].slot,
                       kind |-> conn[c].kind, last |-> conn'[c].last,
                       error |-> conn[c].error, stop |-> conn[c].stop, owed |-> conn[c].owed]
        /\ task'[t] = [pc |-> AfterAnswer(task[t].pc, Fine(t)),
                       n |-> task[t].n,
                       conn |-> c, tx |-> task[t].tx,
                       job |-> NoJob, kind |-> task[t].kind,
                       port |-> "none", wrote |-> task[t].wrote,
                       outcome |-> Outcome(t, Fine(t)),
                       behind |-> task[t].behind,
                       mixed |-> task[t].mixed /\ task[t].port # "ok"]

LEMMA ReceiveEffect ==
    ASSUME TypeInv, NEW t \in Tasks, task[t].conn \in Conns, Receive(t)
    PROVE  Receives(t)
<1> DEFINE c == task[t].conn
           fine == task[t].port = "ok"
           l == AfterAnswer(task[t].pc, Fine(t))
           o == Outcome(t, Fine(t))
           m == task[t].mixed /\ ~fine
           v == [pc |-> l, n |-> task[t].n, conn |-> c, tx |-> task[t].tx,
                 job |-> NoJob, kind |-> task[t].kind, port |-> "none",
                 wrote |-> task[t].wrote, outcome |-> o,
                 behind |-> task[t].behind, mixed |-> m]
           rest == Rest(conn[c].last, Polls(task[t].kind, task[t].job))
           w == [inUse |-> conn[c].inUse, slot |-> conn[c].slot,
                 kind |-> conn[c].kind, last |-> IF fine THEN rest ELSE conn[c].last,
                 error |-> conn[c].error, stop |-> conn[c].stop, owed |-> conn[c].owed]
<1>1. task[t] \in TaskStates /\ conn[c] \in ConnStates
  BY Records
<1>2. rest \in Seq(Rows)
  <2>1. Polls(task[t].kind, task[t].job) \in Nat
    BY <1>1, LenProperties DEF Polls, TaskStates, Jobs
  <2>2. conn[c].last \in Seq(Rows)
    BY <1>1 DEF ConnStates
  <2> QED
    BY <2>1, <2>2 DEF Rest
<1>3. l \in {"body", "leaving", "thrown"}
  BY DEF AfterAnswer
<1>4. o \in {"none", "threw", "returned", "commit_failed"}
  BY <1>1 DEF Outcome, TaskStates
<1>5. /\ conn' = IF ~fine THEN conn ELSE [conn EXCEPT ![c].last = rest]
      /\ task' = [task EXCEPT ![t] = [task[t] EXCEPT
            !.pc = l, !.outcome = o, !.job = NoJob, !.port = "none",
            !.mixed = m]]
      /\ m \in BOOLEAN
  BY DEF Receive, Fine
<1> HIDE DEF l, o, m, rest
<1>6. [task[t] EXCEPT !.pc = l, !.outcome = o, !.job = NoJob, !.port = "none",
                      !.mixed = m] = v
  BY <1>1, TaskReceived
<1>7. v \in TaskStates /\ w \in ConnStates
  <2>1. v \in TaskStates
    BY <1>1, <1>3, <1>4, <1>5, ConstantsTyped DEF TaskStates
  <2>2. w \in ConnStates
    BY <1>1, <1>2 DEF ConnStates
  <2> QED
    BY <2>1, <2>2
<1>8. conn' = [conn EXCEPT ![c] = w]
  <2>1. CASE fine
    <3>1. [conn[c] EXCEPT !.last = rest] = w
      BY <1>1, <2>1, ConnDrained
    <3> QED
      BY <1>5, <2>1, <3>1
  <2>2. CASE ~fine
    <3>1. conn[c] = w
      BY <1>1, <2>2 DEF ConnStates
    <3> QED
      BY <1>5, <2>2, <3>1 DEF TypeInv
  <2> QED
    BY <2>1, <2>2
<1> HIDE DEF v, w
<1>9. task' = [task EXCEPT ![t] = v]
  BY <1>5, <1>6
<1>10. /\ task' \in [Tasks -> TaskStates] /\ conn' \in [Conns -> ConnStates]
       /\ task'[t] = v /\ \A u \in Tasks \ {t} : task'[u] = task[u]
       /\ conn'[c] = w /\ \A d \in Conns \ {c} : conn'[d] = conn[d]
  BY <1>7, <1>8, <1>9, Update DEF TypeInv
<1> QED
  BY <1>10 DEF Receive, Resumes, v, w, l, o, m, Receives

Releases(t) ==
    LET c == task[t].conn
    IN  /\ pool.phase = "open"
        /\ task[t].pc \in {"body", "thrown", "leaving"}
        /\ task[t].pc = "leaving" \/ ~task[t].tx
        /\ UNCHANGED <<pool, worker, handle>>
        /\ db' = db \ task[t].wrote
        /\ task' \in [Tasks -> TaskStates]
        /\ conn' \in [Conns -> ConnStates]
        /\ \A u \in Tasks \ {t} : task'[u] = task[u]
        /\ \A d \in Conns \ {c} : conn'[d] = conn[d]
        /\ conn'[c] = [inUse |-> FALSE, slot |-> conn[c].slot,
                       kind |-> conn[c].kind, last |-> conn[c].last,
                       error |-> conn[c].error, stop |-> conn[c].stop, owed |-> conn[c].owed]
        /\ task'[t] = [pc |-> "out", n |-> task[t].n, conn |-> 0,
                       tx |-> FALSE, job |-> NoJob, kind |-> "single",
                       port |-> "none", wrote |-> {},
                       outcome |-> "none", behind |-> FALSE,
                       mixed |-> FALSE]

LEMMA ReleaseEffect ==
    ASSUME TypeInv, NEW t \in Tasks, task[t].conn \in Conns, Release(t)
    PROVE  Releases(t)
<1> DEFINE c == task[t].conn
           v == [pc |-> "out", n |-> task[t].n, conn |-> 0, tx |-> FALSE,
                 job |-> NoJob, kind |-> "single", port |-> "none",
                 wrote |-> {}, outcome |-> "none", behind |-> FALSE,
                 mixed |-> FALSE]
           w == [inUse |-> FALSE, slot |-> conn[c].slot,
                 kind |-> conn[c].kind, last |-> conn[c].last,
                 error |-> conn[c].error, stop |-> conn[c].stop, owed |-> conn[c].owed]
<1>1. task[t] \in TaskStates /\ conn[c] \in ConnStates
  BY Records
<1>2. [IdleTask EXCEPT !.n = task[t].n] = v
  BY TaskReset
<1>3. [conn[c] EXCEPT !.inUse = FALSE] = w
  BY <1>1, ConnLent
<1>4. v \in TaskStates /\ w \in ConnStates
  BY <1>1, ConstantsTyped DEF TaskStates, ConnStates, Kinds
<1> HIDE DEF v, w
<1>5. task' = [task EXCEPT ![t] = v] /\ conn' = [conn EXCEPT ![c] = w]
  BY <1>2, <1>3 DEF Release
<1>6. /\ task' \in [Tasks -> TaskStates] /\ conn' \in [Conns -> ConnStates]
      /\ task'[t] = v /\ \A u \in Tasks \ {t} : task'[u] = task[u]
      /\ conn'[c] = w /\ \A d \in Conns \ {c} : conn'[d] = conn[d]
  BY <1>4, <1>5, Update DEF TypeInv
<1> QED
  BY <1>6 DEF Release, v, w, Releases

Joins ==
    LET c == pool.at
    IN  /\ conn' \in [Conns -> ConnStates]
        /\ handle' \in [Conns -> HandleStates]
        /\ \A d \in Conns \ {c} : conn'[d] = conn[d]
        /\ \A d \in Conns \ {c} : handle'[d] = handle[d]
        /\ handle'[c] = FreshHandle
        /\ conn'[c] = [inUse |-> FALSE, slot |-> NoJob,
                       kind |-> "single", last |-> <<>>,
                       error |-> NoId, stop |-> TRUE, owed |-> <<>>]

LEMMA JoinEffect ==
    ASSUME TypeInv, Join
    PROVE  Joins
<1> DEFINE c == pool.at
           w == [inUse |-> FALSE, slot |-> NoJob, kind |-> "single",
                 last |-> <<>>, error |-> NoId, stop |-> TRUE, owed |-> <<>>]
<1>1. c \in Conns
  BY Records DEF PoolStates
<1>2. [FreshConn EXCEPT !.stop = TRUE] = w
  BY ConnReset
<1>3. w \in ConnStates /\ FreshHandle \in HandleStates
  BY ConstantsTyped, EmptySeq DEF ConnStates, Kinds
<1> HIDE DEF w, c
<1>4. conn' = [conn EXCEPT ![c] = w] /\ handle' = [handle EXCEPT ![c] = FreshHandle]
  BY <1>2 DEF Join, c
<1>5. /\ conn' \in [Conns -> ConnStates] /\ conn'[c] = w
      /\ \A d \in Conns \ {c} : conn'[d] = conn[d]
  BY <1>1, <1>3, <1>4, Update DEF TypeInv
<1>6. /\ handle' \in [Conns -> HandleStates] /\ handle'[c] = FreshHandle
      /\ \A d \in Conns \ {c} : handle'[d] = handle[d]
  BY <1>1, <1>3, <1>4, Update DEF TypeInv
<1> QED
  BY <1>5, <1>6 DEF c, w, Joins

StartsSyncOf(t, s) ==
    /\ pool' = [pool EXCEPT !.phase = "sync", !.at = task[t].conn,
                  !.job = [id |-> Id(t), owner |-> t, stmts |-> <<s>>]]
    /\ task'[t] = [pc |-> task[t].pc, n |-> task[t].n + 1,
                   conn |-> task[t].conn, tx |-> task[t].tx,
                   job |-> task[t].job, kind |-> task[t].kind,
                   port |-> task[t].port, wrote |-> Wrote(t, <<s>>),
                   outcome |-> task[t].outcome, behind |-> task[t].behind,
                   mixed |-> task[t].mixed \/ task[t].pc = "await"]
StartsSync(t) ==
    LET c == task[t].conn
    IN  /\ pool.phase = "open" /\ conn[c].slot = NoJob
        /\ task[t].pc \in {"body", "await"}
        /\ UNCHANGED <<worker, handle, db>>
        /\ conn' \in [Conns -> ConnStates]
        /\ \A d \in Conns \ {c} : conn'[d] = conn[d]
        /\ conn'[c] = [inUse |-> conn[c].inUse, slot |-> conn[c].slot,
                       kind |-> conn[c].kind, last |-> conn[c].last,
                       error |-> NoId, stop |-> conn[c].stop, owed |-> conn[c].owed]
        /\ task' \in [Tasks -> TaskStates] /\ pool' \in PoolStates
        /\ \A u \in Tasks \ {t} : task'[u] = task[u]
        /\ \E s \in {"read", "write"} : StartsSyncOf(t, s)

LEMMA SyncStartEffect ==
    ASSUME TypeInv, NEW t \in Tasks, task[t].conn \in Conns, SyncStart(t)
    PROVE  StartsSync(t)
<1>1. PICK s \in {"read", "write"} :
        /\ pool' = [pool EXCEPT !.phase = "sync", !.at = task[t].conn,
                       !.job = [id |-> Id(t), owner |-> t, stmts |-> <<s>>]]
        /\ task' = [task EXCEPT ![t] = [task[t] EXCEPT
              !.n = @ + 1, !.wrote = Wrote(t, <<s>>),
              !.mixed = @ \/ task[t].pc = "await"]]
  BY BodiesReadAndWrite DEF SyncStart
<1> DEFINE c == task[t].conn
           j == [id |-> Id(t), owner |-> t, stmts |-> <<s>>]
           n == task[t].n + 1
           wrote == Wrote(t, <<s>>)
           m == task[t].mixed \/ task[t].pc = "await"
           v == [pc |-> task[t].pc, n |-> n, conn |-> c, tx |-> task[t].tx,
                 job |-> task[t].job, kind |-> task[t].kind,
                 port |-> task[t].port, wrote |-> wrote,
                 outcome |-> task[t].outcome, behind |-> task[t].behind,
                 mixed |-> m]
           w == [inUse |-> conn[c].inUse, slot |-> conn[c].slot,
                 kind |-> conn[c].kind, last |-> conn[c].last,
                 error |-> NoId, stop |-> conn[c].stop, owed |-> conn[c].owed]
<1>2. task[t] \in TaskStates /\ conn[c] \in ConnStates /\ pool \in PoolStates
  BY Records
<1>3. Id(t) \in Ids /\ n \in Nat
  BY <1>2 DEF TaskStates, Ids
<1>4. j \in Jobs /\ wrote \in SUBSET Ids /\ m \in BOOLEAN
  <2>1. <<s>> \in Seq(Stmts)
    BY DEF Stmts
  <2> QED
    BY <1>2, <1>3, <2>1 DEF Jobs, TaskStates
<1>5. /\ task' = [task EXCEPT ![t] = [task[t] EXCEPT
                   !.n = n, !.wrote = wrote, !.mixed = m]]
      /\ pool' = [pool EXCEPT !.phase = "sync", !.at = c, !.job = j]
  BY <1>1
<1> HIDE DEF j, n, wrote, m
<1>6. [task[t] EXCEPT !.n = n, !.wrote = wrote, !.mixed = m] = v
  BY <1>2, TaskSyncing, ZenonT(60)
<1>7. [conn[c] EXCEPT !.error = NoId] = w
  BY <1>2, ConnErred
<1>8. v \in TaskStates
  BY <1>2, <1>3, <1>4 DEF TaskStates
<1>9. w \in ConnStates
  BY <1>2, ConstantsTyped DEF ConnStates
<1>10. pool' \in PoolStates
  BY <1>2, <1>4, <1>5 DEF PoolStates
<1> HIDE DEF v, w
<1>11. task' = [task EXCEPT ![t] = v] /\ conn' = [conn EXCEPT ![c] = w]
  BY <1>5, <1>6, <1>7 DEF SyncStart
<1>12. /\ task' \in [Tasks -> TaskStates] /\ conn' \in [Conns -> ConnStates]
       /\ task'[t] = v /\ \A u \in Tasks \ {t} : task'[u] = task[u]
       /\ conn'[c] = w /\ \A d \in Conns \ {c} : conn'[d] = conn[d]
  BY <1>8, <1>9, <1>11, Update DEF TypeInv
<1> QED
  BY <1>5, <1>10, <1>12 DEF SyncStart, MayRunSync, v, w, j, n, wrote, m,
     StartsSync, StartsSyncOf

ReturnsSync ==
    LET c == pool.at
    IN  /\ pool.phase = "sync"
        /\ RunsAll(c, pool.job.id, pool.job.stmts)
        /\ UNCHANGED <<worker, task>>
        /\ pool' \in PoolStates
        /\ pool' = [pool EXCEPT !.phase = "open", !.at = 1, !.job = NoJob]
        /\ conn' \in [Conns -> ConnStates]
        /\ \A d \in Conns \ {c} : conn'[d] = conn[d]
        /\ conn'[c] = [inUse |-> conn[c].inUse, slot |-> conn[c].slot,
                       kind |-> conn[c].kind, last |-> <<>>,
                       error |-> conn[c].error, stop |-> conn[c].stop, owed |-> conn[c].owed]

LEMMA SyncReturnsEffect ==
    ASSUME TypeInv, SyncReturns
    PROVE  ReturnsSync
<1> DEFINE c == pool.at
           w == [inUse |-> conn[c].inUse, slot |-> conn[c].slot,
                 kind |-> conn[c].kind, last |-> <<>>,
                 error |-> conn[c].error, stop |-> conn[c].stop, owed |-> conn[c].owed]
<1>1. c \in Conns /\ conn[c] \in ConnStates /\ pool \in PoolStates
  BY Records DEF PoolStates
<1>2. [conn[c] EXCEPT !.last = <<>>] = w
  BY <1>1, ConnDrained
<1>3. w \in ConnStates
  BY <1>1, EmptySeq DEF ConnStates
<1>4. pool' \in PoolStates
  BY <1>1, ConstantsTyped DEF SyncReturns, PoolStates
<1> HIDE DEF w, c
<1>5. conn' = [conn EXCEPT ![c] = w]
  BY <1>2 DEF SyncReturns, c
<1>6. /\ conn' \in [Conns -> ConnStates]
      /\ conn'[c] = w /\ \A d \in Conns \ {c} : conn'[d] = conn[d]
  BY <1>1, <1>3, <1>5, Update DEF TypeInv
<1> QED
  BY <1>4, <1>6 DEF SyncReturns, c, w, ReturnsSync

ThrowsSync ==
    LET c == pool.at
        t == pool.job.owner
    IN  /\ pool.phase = "sync"
        /\ RunsSome(c, pool.job.id, pool.job.stmts)
        /\ UNCHANGED worker
        /\ pool' \in PoolStates
        /\ pool' = [pool EXCEPT !.phase = "open", !.at = 1, !.job = NoJob]
        /\ conn' \in [Conns -> ConnStates]
        /\ \A d \in Conns \ {c} : conn'[d] = conn[d]
        /\ conn'[c] = [inUse |-> conn[c].inUse, slot |-> conn[c].slot,
                       kind |-> conn[c].kind, last |-> conn[c].last,
                       error |-> pool.job.id, stop |-> conn[c].stop,
                       owed |-> conn'[c].owed]
        /\ task' \in [Tasks -> TaskStates]
        /\ \A u \in Tasks \ {t} : task'[u] = task[u]
        /\ task'[t] = [pc |-> "thrown", n |-> task[t].n,
                       conn |-> task[t].conn, tx |-> task[t].tx,
                       job |-> NoJob, kind |-> task[t].kind,
                       port |-> "none", wrote |-> task[t].wrote,
                       outcome |-> "threw", behind |-> task[t].behind,
                       mixed |-> task[t].mixed]

LEMMA SyncThrowsEffect ==
    ASSUME TypeInv, pool.job.owner \in Tasks, SyncThrows
    PROVE  ThrowsSync
<1> DEFINE c == pool.at
           t == pool.job.owner
           e == pool.job.id
           o == Owes(c, task[t].port, Polls(task[t].kind, task[t].job))
           v == [pc |-> "thrown", n |-> task[t].n, conn |-> task[t].conn,
                 tx |-> task[t].tx, job |-> NoJob,
                 kind |-> task[t].kind, port |-> "none",
                 wrote |-> task[t].wrote, outcome |-> "threw",
                 behind |-> task[t].behind, mixed |-> task[t].mixed]
           w == [inUse |-> conn[c].inUse, slot |-> conn[c].slot,
                 kind |-> conn[c].kind, last |-> conn[c].last,
                 error |-> e, stop |-> conn[c].stop, owed |-> o]
<1>1. /\ c \in Conns /\ conn[c] \in ConnStates /\ pool \in PoolStates
      /\ task[t] \in TaskStates /\ t \in Tasks
  BY Records DEF PoolStates
<1>2. e \in Ids /\ o \in Seq(Nat)
  <2>1. e \in Ids /\ conn[c].owed \in Seq(Nat)
    BY <1>1 DEF PoolStates, Jobs, ConnStates
  <2>2. Polls(task[t].kind, task[t].job) \in Nat
    BY <1>1, PollsTyped DEF TaskStates
  <2> QED
    BY <2>1, <2>2, PollsTyped DEF Owes
<1>3. /\ task' = [task EXCEPT ![t] = [task[t] EXCEPT
                   !.pc = "thrown", !.outcome = "threw",
                   !.job = NoJob, !.port = "none"]]
      /\ conn' = [conn EXCEPT ![c].error = e, ![c].owed = o]
  BY DEF SyncThrows
<1>4. pool' \in PoolStates
  BY <1>1, ConstantsTyped DEF SyncThrows, PoolStates
<1> HIDE DEF c, t, e, o
<1>5. [task[t] EXCEPT !.pc = "thrown", !.outcome = "threw",
                      !.job = NoJob, !.port = "none"] = v
  BY <1>1, TaskThrew
<1>6. [conn[c] EXCEPT !.error = e, !.owed = o] = w
  BY <1>1, ConnThrew
<1>7. v \in TaskStates
  BY <1>1, ConstantsTyped DEF TaskStates
<1>8. w \in ConnStates
  BY <1>1, <1>2 DEF ConnStates
<1>9. w.owed = o
  OBVIOUS
<1> HIDE DEF v, w
<1>10. task' = [task EXCEPT ![t] = v] /\ conn' = [conn EXCEPT ![c] = w]
  BY <1>1, <1>3, <1>5, <1>6 DEF TypeInv
<1>11. /\ task' \in [Tasks -> TaskStates] /\ conn' \in [Conns -> ConnStates]
       /\ task'[t] = v /\ \A u \in Tasks \ {t} : task'[u] = task[u]
       /\ conn'[c] = w /\ \A d \in Conns \ {c} : conn'[d] = conn[d]
  BY <1>1, <1>7, <1>8, <1>10, Update DEF TypeInv
<1>12. conn'[c].owed = o
  BY <1>9, <1>11
<1> QED
  BY <1>4, <1>11, <1>12 DEF SyncThrows, c, t, e, o, v, w, ThrowsSync

Checks(c) ==
    /\ worker[c] = "check"
    /\ ~(pool.phase = "sync" /\ pool.at = c)
    /\ UNCHANGED <<pool, handle, db, task>>
    /\ conn' \in [Conns -> ConnStates]
    /\ \A d \in Conns \ {c} : conn'[d] = conn[d]
    /\ conn'[c] = [inUse |-> conn[c].inUse, slot |-> conn[c].slot,
                   kind |-> conn[c].kind, last |-> conn[c].last,
                   error |-> IF conn[c].slot = NoJob
                             THEN conn[c].error ELSE NoId,
                   stop |-> conn[c].stop, owed |-> conn[c].owed]
    /\ \A d \in Conns : worker'[d] = "run" =>
          \/ d = c /\ conn[c].slot # NoJob
          \/ d # c /\ worker[d] = "run"
    /\ worker' \in [Conns -> {"none", "check", "asleep", "run", "exited"}]

LEMMA CheckEffect ==
    ASSUME TypeInv, NEW c \in Conns, Check(c)
    PROVE  Checks(c)
<1> DEFINE e == IF conn[c].slot = NoJob THEN conn[c].error ELSE NoId
           w == [inUse |-> conn[c].inUse, slot |-> conn[c].slot,
                 kind |-> conn[c].kind, last |-> conn[c].last,
                 error |-> e, stop |-> conn[c].stop, owed |-> conn[c].owed]
<1>1. conn[c] \in ConnStates
  BY Records
<1>2. e \in Ids
  BY <1>1, ConstantsTyped DEF ConnStates
<1>3. w \in ConnStates
  BY <1>1, <1>2 DEF ConnStates
<1>4. conn' = [conn EXCEPT ![c] = w]
  <2>1. CASE conn[c].slot = NoJob
    <3>1. conn[c] = w
      BY <1>1, <2>1 DEF ConnStates
    <3> QED
      BY <2>1, <3>1 DEF Check, TypeInv
  <2>2. CASE conn[c].slot # NoJob
    <3>1. [conn[c] EXCEPT !.error = NoId] = w
      BY <1>1, <2>2, ConnErred
    <3> QED
      BY <2>2, <3>1 DEF Check
  <2> QED
    BY <2>1, <2>2
<1> HIDE DEF w
<1>5. /\ conn' \in [Conns -> ConnStates]
      /\ conn'[c] = w /\ \A d \in Conns \ {c} : conn'[d] = conn[d]
  BY <1>3, <1>4, Update DEF TypeInv
<1>6. /\ worker' \in [Conns -> {"none", "check", "asleep", "run", "exited"}]
      /\ \A d \in Conns : worker'[d] = "run" =>
            \/ d = c /\ conn[c].slot # NoJob
            \/ d # c /\ worker[d] = "run"
  BY DEF Check, TypeInv
<1> QED
  BY <1>5, <1>6 DEF Check, w, Checks

LEMMA ResultsTyped ==
    ASSUME NEW kind \in Kinds, NEW job \in Jobs
    PROVE  Results(kind, job) \in Seq(Rows)
<1>1. job.id \in Ids /\ job.stmts \in Seq(Stmts)
  BY DEF Jobs
<1>2. \A i \in Nat : Result(job.id, i) \in Rows
  BY <1>1 DEF Result, Rows
<1>3. CASE kind \in {"batch", "single"}
  BY <1>2, <1>3 DEF Results
<1>4. CASE kind = "multi"
  <2>1. PICK n \in Nat : DOMAIN job.stmts = 1..n
    BY <1>1
  <2>2. [i \in 1..n |-> Result(job.id, i)] \in Seq(Rows)
    BY <1>2, <2>1, SeqDef
  <2> QED
    BY <1>4, <2>1, <2>2 DEF Results
<1> QED
  BY <1>3, <1>4 DEF Kinds

(* What both answers change, whatever they leave in the connection.         *)
Answers(c, code) ==
    LET t == conn[c].slot.owner
    IN  /\ task' \in [Tasks -> TaskStates]
        /\ worker' \in [Conns -> {"none", "check", "asleep", "run", "exited"}]
        /\ worker'[c] = "check"
        /\ \A d \in Conns \ {c} : worker'[d] = worker[d]
        /\ \A u \in Tasks \ {t} : task'[u] = task[u]
        /\ t \in Tasks =>
              task'[t] = [pc |-> task[t].pc, n |-> task[t].n,
                          conn |-> task[t].conn, tx |-> task[t].tx,
                          job |-> task[t].job, kind |-> task[t].kind,
                          port |-> code, wrote |-> task[t].wrote,
                          outcome |-> task[t].outcome,
                          behind |-> task[t].behind,
                          mixed |-> task[t].mixed]

LEMMA AnswerEffect ==
    ASSUME TypeInv, NEW c \in Conns,
           NEW code \in {"ok", "aborted"}, NEW after, Answer(c, after, code)
    PROVE  Answers(c, code)
<1> DEFINE t == conn[c].slot.owner
           v == [pc |-> task[t].pc, n |-> task[t].n, conn |-> task[t].conn,
                 tx |-> task[t].tx, job |-> task[t].job,
                 kind |-> task[t].kind, port |-> code,
                 wrote |-> task[t].wrote, outcome |-> task[t].outcome,
                 behind |-> task[t].behind, mixed |-> task[t].mixed]
<1>1. /\ worker' = [worker EXCEPT ![c] = "check"]
      /\ task' = [u \in Tasks |-> IF u = t THEN [task[u] EXCEPT !.port = code]
                                   ELSE task[u]]
  BY DEF Answer
<1> HIDE DEF t
<1>2. CASE t \in Tasks
  <2>1. task[t] \in TaskStates
    BY <1>2, Records
  <2>2. [task[t] EXCEPT !.port = code] = v
    BY <2>1, TaskAnswered
  <2>3. v \in TaskStates
    BY <2>1 DEF TaskStates
  <2> HIDE DEF v
  <2>4. task' = [task EXCEPT ![t] = v]
    BY <1>1, <1>2, <2>2 DEF TypeInv
  <2>5. /\ task' \in [Tasks -> TaskStates]
        /\ task'[t] = v /\ \A u \in Tasks \ {t} : task'[u] = task[u]
    BY <1>2, <2>3, <2>4, Update DEF TypeInv
  <2> QED
    BY <1>1, <2>5 DEF TypeInv, t, v, Answers
<1>3. CASE t \notin Tasks
  <2>1. task' = task
    BY <1>1, <1>3 DEF TypeInv
  <2> QED
    BY <1>1, <1>3, <2>1 DEF TypeInv, t, Answers
<1> QED
  BY <1>2, <1>3

LEMMA BehindTyped ==
    ASSUME TypeInv, NEW c \in Conns, NEW code
    PROVE  Behind(c, code) \in Seq(Nat)
<1>1. conn[c].owed \in Seq(Nat) /\ conn[c].kind \in Kinds /\ conn[c].slot \in Jobs
  BY Records DEF ConnStates
<1>2. Polls(conn[c].kind, conn[c].slot) \in Nat
  BY <1>1, PollsTyped
<1> QED
  BY <1>1, <1>2, PollsTyped DEF Behind, Owes

Finishes(c) ==
    LET job == conn[c].slot
    IN  /\ worker[c] = "run"
        /\ RunsAll(c, job.id, job.stmts)
        /\ UNCHANGED pool
        /\ Answers(c, "ok")
        /\ conn' \in [Conns -> ConnStates]
        /\ \A d \in Conns \ {c} : conn'[d] = conn[d]
        /\ conn'[c] = [inUse |-> conn[c].inUse, slot |-> NoJob,
                       kind |-> "single",
                       last |-> Results(conn[c].kind, job),
                       error |-> conn[c].error, stop |-> conn[c].stop,
                       owed |-> Behind(c, "ok")]

LEMMA FinishEffect ==
    ASSUME TypeInv, NEW c \in Conns, Finish(c)
    PROVE  Finishes(c)
<1> DEFINE r == Results(conn[c].kind, conn[c].slot)
           o == Behind(c, "ok")
           w == [inUse |-> conn[c].inUse, slot |-> NoJob, kind |-> "single",
                 last |-> r, error |-> conn[c].error, stop |-> conn[c].stop,
                 owed |-> o]
<1>1. conn[c] \in ConnStates
  BY Records
<1>2. r \in Seq(Rows) /\ o \in Seq(Nat)
  BY <1>1, ResultsTyped, BehindTyped DEF ConnStates
<1>3. conn' = [conn EXCEPT ![c] =
                  [[[conn[c] EXCEPT !.last = r] EXCEPT !.slot = NoJob,
                                                       !.kind = "single"]
                      EXCEPT !.owed = o]]
  BY DEF Finish, Answer
<1>4. Answers(c, "ok")
  BY AnswerEffect DEF Finish
<1> HIDE DEF r, o
<1>5. [[[conn[c] EXCEPT !.last = r] EXCEPT !.slot = NoJob, !.kind = "single"]
          EXCEPT !.owed = o] = w
  BY <1>1, ConnFinished
<1>6. w \in ConnStates
  BY <1>1, <1>2, ConstantsTyped DEF ConnStates, Kinds
<1> HIDE DEF w
<1>7. /\ conn' \in [Conns -> ConnStates]
      /\ conn'[c] = w /\ \A d \in Conns \ {c} : conn'[d] = conn[d]
  BY <1>3, <1>5, <1>6, Update DEF TypeInv
<1> QED
  BY <1>4, <1>7 DEF Finish, w, r, o, Finishes

Aborts(c) ==
    LET job == conn[c].slot
    IN  /\ worker[c] = "run"
        /\ RunsSome(c, job.id, job.stmts)
        /\ UNCHANGED pool
        /\ Answers(c, "aborted")
        /\ conn' \in [Conns -> ConnStates]
        /\ \A d \in Conns \ {c} : conn'[d] = conn[d]
        /\ conn'[c] = [inUse |-> conn[c].inUse, slot |-> NoJob,
                       kind |-> "single", last |-> conn[c].last,
                       error |-> job.id, stop |-> conn[c].stop,
                       owed |-> Behind(c, "aborted")]

LEMMA AbortEffect ==
    ASSUME TypeInv, NEW c \in Conns, Abort(c)
    PROVE  Aborts(c)
<1> DEFINE e == conn[c].slot.id
           o == Behind(c, "aborted")
           w == [inUse |-> conn[c].inUse, slot |-> NoJob, kind |-> "single",
                 last |-> conn[c].last, error |-> e, stop |-> conn[c].stop,
                 owed |-> o]
<1>1. conn[c] \in ConnStates
  BY Records
<1>2. e \in Ids /\ o \in Seq(Nat)
  BY <1>1, BehindTyped DEF ConnStates, Jobs
<1>3. conn' = [conn EXCEPT ![c] =
                  [[[conn[c] EXCEPT !.error = e] EXCEPT !.slot = NoJob,
                                                        !.kind = "single"]
                      EXCEPT !.owed = o]]
  BY DEF Abort, Answer, AfterFailure, Aborted
<1>4. Answers(c, "aborted")
  BY AnswerEffect DEF Abort, AfterFailure, Aborted
<1> HIDE DEF e, o
<1>5. [[[conn[c] EXCEPT !.error = e] EXCEPT !.slot = NoJob, !.kind = "single"]
          EXCEPT !.owed = o] = w
  BY <1>1, ConnAborted
<1>6. w \in ConnStates
  BY <1>1, <1>2, ConstantsTyped DEF ConnStates, Kinds
<1> HIDE DEF w
<1>7. /\ conn' \in [Conns -> ConnStates]
      /\ conn'[c] = w /\ \A d \in Conns \ {c} : conn'[d] = conn[d]
  BY <1>3, <1>5, <1>6, Update DEF TypeInv
<1> QED
  BY <1>4, <1>7 DEF Abort, w, e, o, Aborts

RefusesCall(t) ==
    LET c == task[t].conn
    IN  /\ pool.phase = "open" /\ conn[c].slot # NoJob
        /\ task[t].pc \in {"body", "await"}
        /\ UNCHANGED <<pool, worker, handle, db>>
        /\ task' \in [Tasks -> TaskStates]
        /\ conn' \in [Conns -> ConnStates]
        /\ \A u \in Tasks \ {t} : task'[u] = task[u]
        /\ \A d \in Conns \ {c} : conn'[d] = conn[d]
        /\ conn'[c] = [inUse |-> conn[c].inUse, slot |-> Orphan(conn[c].slot),
                       kind |-> conn[c].kind, last |-> conn[c].last,
                       error |-> conn[c].error, stop |-> conn[c].stop,
                       owed |-> conn[c].owed]
        /\ task'[t] = [pc |-> "thrown", n |-> task[t].n, conn |-> c,
                       tx |-> task[t].tx, job |-> NoJob,
                       kind |-> task[t].kind, port |-> task[t].port,
                       wrote |-> task[t].wrote, outcome |-> "threw",
                       behind |-> task[t].behind, mixed |-> task[t].mixed]

LEMMA CallRefusedEffect ==
    ASSUME TypeInv, NEW t \in Tasks, task[t].conn \in Conns, CallRefused(t)
    PROVE  RefusesCall(t)
<1> DEFINE c == task[t].conn
           v == [pc |-> "thrown", n |-> task[t].n, conn |-> c,
                 tx |-> task[t].tx, job |-> NoJob, kind |-> task[t].kind,
                 port |-> task[t].port, wrote |-> task[t].wrote,
                 outcome |-> "threw", behind |-> task[t].behind,
                 mixed |-> task[t].mixed]
           w == [inUse |-> conn[c].inUse, slot |-> Orphan(conn[c].slot),
                 kind |-> conn[c].kind, last |-> conn[c].last,
                 error |-> conn[c].error, stop |-> conn[c].stop,
                 owed |-> conn[c].owed]
<1>1. task[t] \in TaskStates /\ conn[c] \in ConnStates
  BY Records
<1>2. [task[t] EXCEPT !.pc = "thrown", !.outcome = "threw", !.job = NoJob] = v
  BY <1>1, TaskRefused
<1>3. [conn[c] EXCEPT !.slot.owner = NoTask] = w
  BY <1>1, ConnOrphaned
<1>4. v \in TaskStates
  BY <1>1, ConstantsTyped DEF TaskStates
<1>5. w \in ConnStates
  BY <1>1 DEF ConnStates, Jobs, Orphan
<1> HIDE DEF v, w
<1>6. task' = [task EXCEPT ![t] = v] /\ conn' = [conn EXCEPT ![c] = w]
  BY <1>2, <1>3 DEF CallRefused
<1>7. /\ task' \in [Tasks -> TaskStates] /\ conn' \in [Conns -> ConnStates]
      /\ task'[t] = v /\ \A u \in Tasks \ {t} : task'[u] = task[u]
      /\ conn'[c] = w /\ \A d \in Conns \ {c} : conn'[d] = conn[d]
  BY <1>4, <1>5, <1>6, Update DEF TypeInv
<1> QED
  BY <1>7 DEF CallRefused, v, w, RefusesCall

RefusesEnd(t) ==
    LET c == task[t].conn
    IN  /\ pool.phase = "open" /\ conn[c].slot # NoJob
        /\ task[t].pc = "begin" \/ (task[t].tx /\ task[t].pc = "thrown")
        /\ UNCHANGED <<pool, conn, worker, db>>
        /\ handle' \in [Conns -> HandleStates]
        /\ \A d \in Conns \ {c} : handle'[d] = handle[d]
        /\ handle'[c] = [txn |-> handle[c].txn, dirty |-> handle[c].dirty,
                         stuck |-> handle[c].txn]
        /\ task' \in [Tasks -> TaskStates]
        /\ \A u \in Tasks \ {t} : task'[u] = task[u]
        /\ task'[t] = [pc |-> "leaving", n |-> task[t].n, conn |-> c,
                       tx |-> task[t].tx, job |-> task[t].job,
                       kind |-> task[t].kind, port |-> task[t].port,
                       wrote |-> task[t].wrote, outcome |-> "threw",
                       behind |-> task[t].behind, mixed |-> task[t].mixed]

LEMMA EndRefusedEffect ==
    ASSUME TypeInv, NEW t \in Tasks, task[t].conn \in Conns, EndRefused(t)
    PROVE  RefusesEnd(t)
<1> DEFINE c == task[t].conn
           v == [pc |-> "leaving", n |-> task[t].n, conn |-> c,
                 tx |-> task[t].tx, job |-> task[t].job,
                 kind |-> task[t].kind, port |-> task[t].port,
                 wrote |-> task[t].wrote, outcome |-> "threw",
                 behind |-> task[t].behind, mixed |-> task[t].mixed]
           h == [txn |-> handle[c].txn, dirty |-> handle[c].dirty,
                 stuck |-> handle[c].txn]
<1>1. task[t] \in TaskStates /\ handle[c] \in HandleStates
  BY Records
<1>2. [task[t] EXCEPT !.pc = "leaving", !.outcome = "threw"] = v
  BY <1>1, TaskGaveUp
<1>3. [handle[c] EXCEPT !.stuck = handle[c].txn] = h
  BY <1>1 DEF HandleStates
<1>4. v \in TaskStates /\ h \in HandleStates
  BY <1>1 DEF TaskStates, HandleStates
<1> HIDE DEF v, h
<1>5. task' = [task EXCEPT ![t] = v] /\ handle' = [handle EXCEPT ![c] = h]
  BY <1>2, <1>3 DEF EndRefused
<1>6. /\ task' \in [Tasks -> TaskStates]
      /\ task'[t] = v /\ \A u \in Tasks \ {t} : task'[u] = task[u]
  BY <1>4, <1>5, Update DEF TypeInv
<1>7. /\ handle' \in [Conns -> HandleStates]
      /\ handle'[c] = h /\ \A d \in Conns \ {c} : handle'[d] = handle[d]
  BY <1>4, <1>5, Update DEF TypeInv
<1> QED
  BY <1>6, <1>7 DEF EndRefused, v, h, RefusesEnd

Drains(c) ==
    /\ pool.phase = "open" /\ conn[c].owed # <<>>
    /\ UNCHANGED <<pool, worker, handle, db, task>>
    /\ conn' \in [Conns -> ConnStates]
    /\ \A d \in Conns \ {c} : conn'[d] = conn[d]
    /\ conn'[c] = [inUse |-> conn[c].inUse, slot |-> conn[c].slot,
                   kind |-> conn[c].kind, last |-> conn'[c].last,
                   error |-> conn[c].error, stop |-> conn[c].stop,
                   owed |-> conn'[c].owed]

LEMMA DrainEffect ==
    ASSUME TypeInv, NEW c \in Conns, DrainBehind(c)
    PROVE  Drains(c)
<1> DEFINE l == Rest(conn[c].last, Head(conn[c].owed))
           o == Tail(conn[c].owed)
           w == [inUse |-> conn[c].inUse, slot |-> conn[c].slot,
                 kind |-> conn[c].kind, last |-> l,
                 error |-> conn[c].error, stop |-> conn[c].stop, owed |-> o]
<1>1. conn[c] \in ConnStates
  BY Records
<1>2. l \in Seq(Rows) /\ o \in Seq(Nat)
  <2>1. conn[c].owed \in Seq(Nat) /\ conn[c].owed # <<>> /\ conn[c].last \in Seq(Rows)
    BY <1>1 DEF ConnStates, DrainBehind
  <2>2. Head(conn[c].owed) \in Nat /\ o \in Seq(Nat)
    BY <2>1, HeadTailProperties
  <2> QED
    BY <2>1, <2>2, PollsTyped
<1>3. conn' = [conn EXCEPT ![c].last = l, ![c].owed = o]
  BY DEF DrainBehind
<1> HIDE DEF l, o
<1>4. [conn[c] EXCEPT !.last = l, !.owed = o] = w
  BY <1>1, ConnPolled
<1>5. w \in ConnStates
  BY <1>1, <1>2 DEF ConnStates
<1>6. w.last = l /\ w.owed = o
  OBVIOUS
<1> HIDE DEF w
<1>7. conn' = [conn EXCEPT ![c] = w]
  BY <1>3, <1>4 DEF TypeInv
<1>8. /\ conn' \in [Conns -> ConnStates]
      /\ conn'[c] = w /\ \A d \in Conns \ {c} : conn'[d] = conn[d]
  BY <1>5, <1>7, Update DEF TypeInv
<1>9. conn'[c].last = l /\ conn'[c].owed = o
  BY <1>6, <1>8
<1> QED
  BY <1>8, <1>9 DEF DrainBehind, w, Drains

-------------------------------------------------------------------------------
Up == pool.phase \in {"create", "open", "sync"}
Awaiting(t) == task[t].pc \in {"beginning", "await", "ending"}

(* A task inside the pool has a connection of its own, which, until the     *)
(* pool is destroyed, is marked in_use.                                     *)
LeaseInv ==
    /\ \A t \in Tasks : task[t].pc # "out" =>
          /\ task[t].conn \in Conns
          /\ Up => conn[task[t].conn].inUse
    /\ \A t \in Tasks : task[t].pc = "begin" => task[t].tx
    /\ \A t, u \in Tasks :
          task[t].pc # "out" /\ task[u].pc # "out" /\ task[t].conn = task[u].conn
          => t = u

(* A filled slot holds the job its lessee awaits, and no other answer has   *)
(* been posted; or a call a body left behind, which nobody awaits.  An      *)
(* empty one has no flags and no thread in it.                              *)
Awaited(c) ==
    LET t == conn[c].slot.owner
    IN  /\ conn[c].inUse
        /\ t \in Tasks /\ Awaiting(t) /\ task[t].port = "none"
        /\ task[t].conn = c
        /\ task[t].job = conn[c].slot /\ task[t].kind = conn[c].kind
LeftBehind(c) ==
    /\ conn[c].slot.owner = NoTask
    /\ \E u \in Tasks : conn[c].slot.id \in {u} \X (1..task[u].n)
    /\ conn[c].slot.stmts \in Seq({"read", "write"})
    /\ \A u \in Tasks : task[u].conn = c => ~Awaiting(u)
SlotInv(c) ==
    IF conn[c].slot = NoJob
    THEN conn[c].kind = "single" /\ worker[c] # "run"
    ELSE Awaited(c) \/ LeftBehind(c)

(* What a task awaits: it is its own, and transaction control travels alone.*)
JobInv(t) ==
    IF ~Awaiting(t) THEN task[t].port = "none"
    ELSE /\ task[t].job.id \in {t} \X (1..task[t].n)
         /\ task[t].kind = "single" => Len(task[t].job.stmts) = 1
         /\ task[t].pc = "beginning" =>
               task[t].tx /\ task[t].job.stmts = <<"begin">>
         /\ task[t].pc = "await" => task[t].job.stmts \in Seq({"read", "write"})
         /\ task[t].pc = "ending" => /\ task[t].tx
                                     /\ task[t].job.stmts \in {<<"commit">>, <<"rollback">>}

(* While the isolate is inside executeSync its slot is empty, and whatever  *)
(* the same task awaits has been answered.                                  *)
SyncInv ==
    pool.phase = "sync" =>
        LET t == pool.job.owner
        IN  /\ conn[pool.at].slot = NoJob
            /\ t \in Tasks /\ task[t].conn = pool.at
            /\ task[t].pc \in {"body", "await"}
            /\ task[t].pc = "await" => task[t].mixed
            /\ pool.job.id \in {t} \X (1..task[t].n)
            /\ pool.job.stmts \in {<<"read">>, <<"write">>}

MailInv ==
    /\ LeaseInv
    /\ \A c \in Conns : SlotInv(c)
    /\ \A t \in Tasks : JobInv(t)
    /\ SyncInv

MailInvs == TypeInv /\ LoopInv /\ MailInv

(* The calls a task makes, by where it is.                                  *)
Calls(t, kind, stmts, then) ==
    /\ kind = "single" => Len(stmts) = 1
    /\ \/ /\ task[t].pc = "begin" /\ then = "beginning"
          /\ stmts = <<"begin">>
       \/ /\ task[t].pc = "body" /\ then = "await"
          /\ stmts \in Seq({"read", "write"})
       \/ /\ task[t].pc = "body" /\ task[t].tx /\ then = "ending"
          /\ stmts = <<"commit">>
       \/ /\ task[t].pc = "thrown" /\ task[t].tx /\ then = "ending"
          /\ stmts = <<"rollback">>

LEMMA TaskSteps ==
    ASSUME NEW t \in Tasks, TaskStep(t)
    PROVE  \/ \E tx \in BOOLEAN : Lease(t, tx)
           \/ \E kind \in Kinds, stmts \in Seq(Stmts),
                 then \in {"beginning", "await", "ending"} :
                 Calls(t, kind, stmts, then) /\ Submit(t, kind, stmts, then)
           \/ SyncStart(t) \/ Receive(t) \/ Release(t)
           \/ CallRefused(t) \/ EndRefused(t)
<1>1. /\ \A s \in Stmts : <<s>> \in Seq(Stmts) /\ Len(<<s>>) = 1
      /\ \A s \in {"read", "write"} : <<s>> \in Seq({"read", "write"})
      /\ \A stmts \in Seq({"read", "write"}) : stmts \in Seq(Stmts)
  BY SeqDef DEF Stmts
<1>2. CASE \E tx \in InTx[t] : Lease(t, tx)
  BY <1>2, BodiesReadAndWrite
<1>3. CASE Begin(t)
  BY <1>1, <1>3 DEF Begin, Calls, Kinds, Stmts
<1>4. CASE Execute(t)
  <2>1. PICK s \in {"read", "write"} : Submit(t, "single", <<s>>, "await")
    BY <1>4, BodiesReadAndWrite DEF Execute
  <2>2. Calls(t, "single", <<s>>, "await") /\ <<s>> \in Seq(Stmts)
    BY <1>1, <1>4 DEF Execute, InBody, Calls, Stmts
  <2> QED
    BY <2>1, <2>2 DEF Kinds
<1>5. CASE ExecuteBatch(t)
  <2>1. PICK stmts \in Seq({"read", "write"}) : Submit(t, "batch", stmts, "await")
    BY <1>5, BodiesReadAndWrite DEF ExecuteBatch
  <2>2. Calls(t, "batch", stmts, "await") /\ stmts \in Seq(Stmts)
    BY <1>1, <1>5 DEF ExecuteBatch, InBody, Calls
  <2> QED
    BY <2>1, <2>2 DEF Kinds
<1>6. CASE ExecuteMultiRead(t)
  <2>1. PICK stmts \in Seq({"read", "write"}) : Submit(t, "multi", stmts, "await")
    BY <1>6, BodiesReadAndWrite DEF ExecuteMultiRead
  <2>2. Calls(t, "multi", stmts, "await") /\ stmts \in Seq(Stmts)
    BY <1>1, <1>6 DEF ExecuteMultiRead, InBody, Calls
  <2> QED
    BY <2>1, <2>2 DEF Kinds
<1>7. CASE End(t, "commit") \/ End(t, "rollback")
  BY <1>1, <1>7 DEF End, Calls, Kinds, Stmts
<1> QED
  BY <1>2, <1>3, <1>4, <1>5, <1>6, <1>7 DEF TaskStep

-------------------------------------------------------------------------------
(* MailInv is inductive: action by action. *)

LEMMA MailInit == Init => MailInvs
<1> SUFFICES ASSUME Init PROVE MailInvs
  OBVIOUS
<1>1. TypeInv /\ LoopInv
  BY Init1
<1>2. \A t \in Tasks : task[t].pc = "out" /\ task[t].port = "none"
  BY DEF Init, IdleTask
<1>3. \A c \in Conns : conn[c].slot = NoJob /\ conn[c].kind = "single"
                       /\ worker[c] = "none"
  BY DEF Init, FreshConn
<1>4. pool.phase = "create"
  BY DEF Init
<1> QED
  BY <1>1, <1>2, <1>3, <1>4
  DEF MailInvs, MailInv, LeaseInv, SlotInv, JobInv, SyncInv, Awaiting

(* A slot that nobody fills, empties or moves to keeps its invariant.       *)
LEMMA SlotStays ==
    ASSUME TypeInv, NEW c \in Conns, SlotInv(c),
           conn'[c].slot = conn[c].slot, conn'[c].kind = conn[c].kind,
           worker'[c] = "run" => worker[c] = "run" \/ conn[c].slot # NoJob,
           conn[c].slot.owner \in Tasks =>
               /\ task'[conn[c].slot.owner] = task[conn[c].slot.owner]
               /\ conn'[c].inUse = conn[c].inUse,
           \A u \in Tasks : task'[u].n \in Nat /\ task[u].n <= task'[u].n,
           \A u \in Tasks : task'[u].conn = c /\ Awaiting(u)' =>
               task[u].conn = c /\ Awaiting(u)
    PROVE  SlotInv(c)'
<1>1. CASE conn[c].slot = NoJob
  BY <1>1 DEF SlotInv
<1>2. CASE Awaited(c) /\ conn[c].slot # NoJob
  <2>1. Awaited(c)'
    BY <1>2 DEF Awaited, Awaiting
  <2> QED
    BY <1>2, <2>1 DEF SlotInv
<1>3. CASE LeftBehind(c) /\ conn[c].slot # NoJob
  <2>1. PICK u \in Tasks : conn[c].slot.id \in {u} \X (1..task[u].n)
    BY <1>3 DEF LeftBehind
  <2>2. task[u].n \in Nat
    BY Records DEF TaskStates
  <2>3. 1..task[u].n \subseteq 1..task'[u].n
    BY <2>2
  <2>4. conn'[c].slot.id \in {u} \X (1..task'[u].n)
    BY <2>1, <2>3
  <2>5. LeftBehind(c)'
    BY <1>3, <2>4 DEF LeftBehind
  <2> QED
    BY <1>3, <2>5 DEF SlotInv
<1> QED
  BY <1>1, <1>2, <1>3 DEF SlotInv

LEMMA JobKept ==
    ASSUME NEW t \in Tasks, JobInv(t), task'[t] = task[t]
    PROVE  JobInv(t)'
BY DEF JobInv, Awaiting

(* A task lives in one connection: a filled slot elsewhere is not its own.  *)
LEMMA OthersSlot ==
    ASSUME MailInv, NEW t \in Tasks, NEW c \in Conns, c # task[t].conn,
           conn[c].slot # NoJob
    PROVE  conn[c].slot.owner \in (Tasks \cup {NoTask}) \ {t}
BY NoTaskIsNoTask DEF MailInv, SlotInv, Awaited, LeftBehind

(* What one task does leaves the other connections' slots alone.            *)
LEMMA SlotElsewhere ==
    ASSUME MailInvs, NEW t \in Tasks, NEW c \in Conns, c # task[t].conn,
           conn'[c] = conn[c], worker'[c] = "run" => worker[c] = "run",
           \A u \in Tasks \ {t} : task'[u] = task[u],
           task'[t].n \in Nat, task[t].n <= task'[t].n,
           Awaiting(t)' => task'[t].conn # c
    PROVE  SlotInv(c)'
<1>1. TypeInv /\ MailInv /\ SlotInv(c)
  BY DEF MailInvs, MailInv
<1>2. \A u \in Tasks : task[u].n \in Nat
  BY <1>1, Records DEF TaskStates
<1>3. \A u \in Tasks : task'[u].n \in Nat /\ task[u].n <= task'[u].n
  BY <1>2
<1>4. \A u \in Tasks : task'[u].conn = c /\ Awaiting(u)' =>
         task[u].conn = c /\ Awaiting(u)
  BY DEF Awaiting
<1>5. conn[c].slot.owner \in Tasks =>
         task'[conn[c].slot.owner] = task[conn[c].slot.owner]
  BY <1>1, OthersSlot, NoTaskIsNoTask DEF NoJob
<1> QED
  BY <1>1, <1>3, <1>4, <1>5, SlotStays

LEMMA LeaseKeepsMail ==
    ASSUME MailInvs, NEW t \in Tasks, NEW tx \in BOOLEAN, Lease(t, tx)
    PROVE  MailInvs'
<1> USE DEF MailInvs
<1>1. Leases(t, tx)
  BY LeaseEffect
<1>2. PICK c \in Conns : LeasesAt(t, tx, c)
  BY <1>1 DEF Leases
<1>3. /\ ~conn[c].inUse
      /\ \A d \in Conns \ {c} : conn'[d] = conn[d]
      /\ conn'[c].inUse /\ conn'[c].slot = conn[c].slot
      /\ conn'[c].kind = conn[c].kind
      /\ task'[t].pc = (IF tx THEN "begin" ELSE "body")
      /\ task'[t].conn = c /\ task'[t].tx = tx /\ task'[t].port = "none"
      /\ task'[t].n = task[t].n
  BY <1>2 DEF LeasesAt
<1>4. /\ pool.phase = "open" /\ task[t].pc = "out"
      /\ UNCHANGED <<pool, worker, handle, db>>
      /\ task' \in [Tasks -> TaskStates] /\ conn' \in [Conns -> ConnStates]
      /\ \A u \in Tasks \ {t} : task'[u] = task[u]
  BY <1>1 DEF Leases
<1>5. TypeInv' /\ LoopInv'
  BY <1>4 DEF TypeInv, LoopInv
<1>6. LeaseInv'
  BY <1>3, <1>4 DEF LeaseInv, MailInv, Up
<1>7. ASSUME NEW d \in Conns PROVE SlotInv(d)'
  <2>1. SlotInv(d)
    BY DEF MailInv
  <2>2. \A u \in Tasks : task'[u].n = task[u].n /\ task[u].n \in Nat
    BY <1>3, <1>4, Records DEF TaskStates
  <2>3. \A u \in Tasks : Awaiting(u)' => task'[u] = task[u] /\ Awaiting(u)
    BY <1>3, <1>4 DEF Awaiting
  <2>4. conn[d].slot.owner \in Tasks =>
           /\ task'[conn[d].slot.owner] = task[conn[d].slot.owner]
           /\ conn'[d].inUse = conn[d].inUse
    <3>1. SUFFICES ASSUME conn[d].slot.owner \in Tasks
                   PROVE  d # c /\ conn[d].slot.owner # t
      BY <1>3, <1>4
    <3>2. conn[d].slot # NoJob
      BY <3>1, NoTaskIsNoTask DEF NoJob
    <3> QED
      BY <1>3, <1>4, <2>1, <3>1, <3>2, NoTaskIsNoTask
      DEF SlotInv, Awaited, LeftBehind, Awaiting
  <2>5. conn'[d].slot = conn[d].slot /\ conn'[d].kind = conn[d].kind
    BY <1>3
  <2> QED
    BY <1>4, <2>1, <2>2, <2>3, <2>4, <2>5, SlotStays
<1>8. ASSUME NEW u \in Tasks PROVE JobInv(u)'
  <2>1. CASE u = t
    BY <1>3, <2>1 DEF JobInv, Awaiting
  <2>2. CASE u # t
    BY <1>4, <2>2, JobKept DEF MailInv
  <2> QED
    BY <2>1, <2>2
<1>9. SyncInv'
  BY <1>4 DEF SyncInv
<1> QED
  BY <1>6, <1>7, <1>8, <1>9, <1>5 DEF MailInv

LEMMA SubmitKeepsMail ==
    ASSUME MailInvs, NEW t \in Tasks, NEW kind \in Kinds,
           NEW stmts \in Seq(Stmts), NEW then \in {"beginning", "await", "ending"},
           Calls(t, kind, stmts, then), Submit(t, kind, stmts, then)
    PROVE  MailInvs'
<1> USE DEF MailInvs
<1> DEFINE c == task[t].conn
           j == [id |-> Id(t), owner |-> t, stmts |-> stmts]
<1>1. /\ c \in Conns /\ task[t].pc \in {"begin", "body", "thrown"}
      /\ task[t] \in TaskStates
  BY Records DEF Calls, MailInv, LeaseInv
<1>2. /\ pool.phase = "open" /\ conn[c].slot = NoJob
      /\ j \in Jobs
      /\ UNCHANGED <<pool, handle, db>>
      /\ task' \in [Tasks -> TaskStates]
      /\ conn' \in [Conns -> ConnStates]
      /\ worker' = [worker EXCEPT ![c] = Woken(c)]
      /\ \A u \in Tasks \ {t} : task'[u] = task[u]
      /\ \A d \in Conns \ {c} : conn'[d] = conn[d]
      /\ conn'[c].slot = j /\ conn'[c].inUse = conn[c].inUse
      /\ conn'[c].kind = (IF kind = "single" THEN conn[c].kind ELSE kind)
      /\ task'[t].pc = then /\ task'[t].conn = c /\ task'[t].tx = task[t].tx
      /\ task'[t].job = j /\ task'[t].kind = kind
      /\ task'[t].port = task[t].port /\ task'[t].n = task[t].n + 1
  <2>1. Submits(t, kind, stmts, then)
    BY <1>1, SubmitEffect
  <2> QED
    BY <2>1 DEF Submits
<1>3. /\ j # NoJob /\ j.owner = t /\ j.stmts = stmts
      /\ j.id \in {t} \X (1..task'[t].n)
  BY <1>1, <1>2, NoTaskIsNoTask DEF NoJob, TaskStates
<1> HIDE DEF j, c
<1>4. TypeInv' /\ LoopInv'
  BY <1>1, <1>2 DEF TypeInv, LoopInv
<1>5. LeaseInv'
  <2>1. /\ task[t].pc # "out" /\ task'[t].pc # "begin"
        /\ conn[c].inUse /\ task[t].conn = c
    BY <1>1, <1>2 DEF LeaseInv, MailInv, Up, c
  <2>2. \A u \in Tasks : task'[u].conn = task[u].conn
                         /\ (task'[u].pc = "out" <=> task[u].pc = "out")
    BY <1>1, <1>2, <2>1
  <2>3. \A d \in Conns : conn'[d].inUse = conn[d].inUse
    BY <1>2
  <2>4. \A u \in Tasks : task'[u].pc = "begin" =>
           task[u].pc = "begin" /\ task'[u].tx = task[u].tx
    BY <1>2, <2>1
  <2>5. Up' <=> Up
    BY <1>2 DEF Up
  <2> QED
    BY <2>2, <2>3, <2>4, <2>5 DEF LeaseInv, MailInv
<1>6. ASSUME NEW d \in Conns PROVE SlotInv(d)'
  <2>1. SlotInv(d) /\ JobInv(t)
    BY DEF MailInv
  <2>2. CASE d = c
    <3>1. conn[c].kind = "single" /\ conn[c].inUse /\ task[t].port = "none"
      BY <1>1, <1>2, <2>1, <2>2 DEF SlotInv, LeaseInv, MailInv, JobInv, Awaiting, Up, c
    <3> QED
      <4>1. conn'[c].slot # NoJob /\ conn'[c].slot.owner = t
        BY <1>2, <1>3
      <4>2. /\ task'[t].pc \in {"beginning", "await", "ending"}
            /\ task'[t].port = "none" /\ conn'[c].inUse
        BY <1>2, <3>1
      <4>3. task'[t].job = conn'[c].slot /\ task'[t].kind = conn'[c].kind
        BY <1>2, <3>1
      <4> QED
        BY <1>2, <2>2, <4>1, <4>2, <4>3 DEF SlotInv, Awaited, Awaiting
  <2>3. CASE d # c
    <3>1. worker'[d] = worker[d]
      BY <1>2, <2>3 DEF TypeInv
    <3>2. task'[t].n \in Nat /\ task[t].n <= task'[t].n
      BY <1>1, <1>2 DEF TaskStates
    <3> QED
      BY <1>2, <2>3, <3>1, <3>2, SlotElsewhere DEF c
  <2> QED
    BY <2>2, <2>3
<1>7. ASSUME NEW u \in Tasks PROVE JobInv(u)'
  <2>1. CASE u = t
    <3>1. then = "beginning" => task[t].tx
      BY DEF Calls, MailInv, LeaseInv
    <3>2. task[t].port = "none"
      BY <1>1 DEF MailInv, JobInv, Awaiting
    <3> QED
      BY <1>2, <1>3, <2>1, <3>1, <3>2 DEF JobInv, Awaiting, Calls
  <2>2. CASE u # t
    BY <1>2, <2>2, JobKept DEF MailInv
  <2> QED
    BY <2>1, <2>2
<1>8. SyncInv'
  BY <1>2 DEF SyncInv
<1> QED
  BY <1>4, <1>5, <1>6, <1>7, <1>8 DEF MailInv

LEMMA ReceiveKeepsMail ==
    ASSUME MailInvs, NEW t \in Tasks, Receive(t)
    PROVE  MailInvs'
<1> USE DEF MailInvs
<1> DEFINE c == task[t].conn
<1>1. /\ c \in Conns /\ Awaiting(t) /\ task[t].port # "none"
      /\ SlotInv(c) /\ JobInv(t)
  BY DEF Receive, Resumes, Awaiting, MailInv, LeaseInv
<1>2. Receives(t)
  BY <1>1, ReceiveEffect
<1>3. /\ pool.phase = "open"
      /\ UNCHANGED <<pool, worker, handle, db>>
      /\ task' \in [Tasks -> TaskStates] /\ conn' \in [Conns -> ConnStates]
      /\ \A u \in Tasks \ {t} : task'[u] = task[u]
      /\ \A d \in Conns \ {c} : conn'[d] = conn[d]
      /\ conn'[c].slot = conn[c].slot /\ conn'[c].inUse = conn[c].inUse
      /\ conn'[c].kind = conn[c].kind
      /\ task'[t].pc = AfterAnswer(task[t].pc, Fine(t))
      /\ task'[t].conn = c /\ task'[t].port = "none"
      /\ task'[t].n = task[t].n
  BY <1>2 DEF Receives
<1>4. task'[t].pc \in {"body", "leaving", "thrown"}
  BY <1>3 DEF AfterAnswer
<1>5. conn[c].slot = NoJob
  <2>1. SUFFICES ASSUME conn[c].slot # NoJob PROVE FALSE
    OBVIOUS
  <2>2. LET u == conn[c].slot.owner
        IN  u \in Tasks /\ Awaiting(u) /\ task[u].port = "none" /\ task[u].conn = c
    BY <1>1, <2>1 DEF SlotInv, Awaited, LeftBehind
  <2> QED
    BY <1>1, <2>2 DEF MailInv, LeaseInv, Awaiting
<1> HIDE DEF c
<1>6. TypeInv' /\ LoopInv'
  BY <1>3 DEF TypeInv, LoopInv
<1>7. LeaseInv'
  <2>1. \A u \in Tasks : task'[u].conn = task[u].conn
                         /\ (task'[u].pc # "out" => task[u].pc # "out")
                         /\ (task'[u].pc = "begin" => task'[u] = task[u])
    BY <1>1, <1>3, <1>4 DEF Awaiting, c
  <2>2. \A d \in Conns : conn'[d].inUse = conn[d].inUse
    BY <1>3
  <2> QED
    BY <1>3, <2>1, <2>2 DEF LeaseInv, MailInv, Up
<1>8. ASSUME NEW d \in Conns PROVE SlotInv(d)'
  <2>1. CASE d = c
    BY <1>1, <1>3, <1>5, <2>1 DEF SlotInv
  <2>2. CASE d # c
    <3>1. task'[t].n \in Nat /\ task[t].n <= task'[t].n
      BY <1>3, Records DEF TaskStates
    <3> QED
      BY <1>3, <2>2, <3>1, SlotElsewhere DEF c
  <2> QED
    BY <2>1, <2>2
<1>9. ASSUME NEW u \in Tasks PROVE JobInv(u)'
  <2>1. CASE u = t
    BY <1>3, <1>4, <2>1 DEF JobInv, Awaiting
  <2>2. CASE u # t
    BY <1>3, <2>2, JobKept DEF MailInv
  <2> QED
    BY <2>1, <2>2
<1>10. SyncInv'
  BY <1>3 DEF SyncInv
<1> QED
  BY <1>6, <1>7, <1>8, <1>9, <1>10 DEF MailInv

LEMMA ReleaseKeepsMail ==
    ASSUME MailInvs, NEW t \in Tasks, Release(t)
    PROVE  MailInvs'
<1> USE DEF MailInvs
<1> DEFINE c == task[t].conn
<1>1. c \in Conns /\ task[t].pc # "out" /\ ~Awaiting(t) /\ SlotInv(c)
  BY DEF Release, Awaiting, MailInv, LeaseInv
<1>2. Releases(t)
  BY <1>1, ReleaseEffect
<1>3. /\ pool.phase = "open"
      /\ UNCHANGED <<pool, worker, handle>>
      /\ db' = db \ task[t].wrote
      /\ task' \in [Tasks -> TaskStates] /\ conn' \in [Conns -> ConnStates]
      /\ \A u \in Tasks \ {t} : task'[u] = task[u]
      /\ \A d \in Conns \ {c} : conn'[d] = conn[d]
      /\ conn'[c].slot = conn[c].slot /\ conn'[c].kind = conn[c].kind
      /\ task'[t].pc = "out" /\ task'[t].port = "none"
      /\ task'[t].n = task[t].n
  BY <1>2 DEF Releases
<1>4. conn[c].slot.owner \notin Tasks
  <2>1. SUFFICES ASSUME conn[c].slot.owner \in Tasks PROVE FALSE
    OBVIOUS
  <2>2. conn[c].slot # NoJob
    BY <2>1, NoTaskIsNoTask DEF NoJob
  <2> QED
    BY <1>1, <2>1, <2>2, NoTaskIsNoTask
    DEF SlotInv, Awaited, LeftBehind, MailInv, LeaseInv, Awaiting
<1>5. \A u \in Tasks \ {t} : task[u].pc # "out" => task[u].conn # c
  BY <1>1 DEF MailInv, LeaseInv
<1> HIDE DEF c
<1>6. TypeInv' /\ LoopInv'
  BY <1>3 DEF TypeInv, LoopInv
<1>7. LeaseInv'
  <2>1. \A u \in Tasks : task'[u].pc # "out" => task'[u] = task[u] /\ u # t
    BY <1>3
  <2>2. \A d \in Conns : d # c => conn'[d].inUse = conn[d].inUse
    BY <1>3
  <2> QED
    BY <1>3, <1>5, <2>1, <2>2 DEF LeaseInv, MailInv, Up
<1>8. ASSUME NEW d \in Conns PROVE SlotInv(d)'
  <2>1. CASE d = c
    <3>1. \A u \in Tasks : task'[u].n = task[u].n /\ task[u].n \in Nat
      BY <1>3, Records DEF TaskStates
    <3>2. \A u \in Tasks : Awaiting(u)' => task'[u] = task[u] /\ Awaiting(u)
      BY <1>3 DEF Awaiting
    <3> QED
      BY <1>1, <1>3, <1>4, <2>1, <3>1, <3>2, SlotStays
  <2>2. CASE d # c
    <3>1. task'[t].n \in Nat /\ task[t].n <= task'[t].n
      BY <1>3, Records DEF TaskStates
    <3>2. ~Awaiting(t)'
      BY <1>3 DEF Awaiting
    <3> QED
      BY <1>3, <2>2, <3>1, <3>2, SlotElsewhere DEF c
  <2> QED
    BY <2>1, <2>2
<1>9. ASSUME NEW u \in Tasks PROVE JobInv(u)'
  <2>1. CASE u = t
    BY <1>3, <2>1 DEF JobInv, Awaiting
  <2>2. CASE u # t
    BY <1>3, <2>2, JobKept DEF MailInv
  <2> QED
    BY <2>1, <2>2
<1>10. SyncInv'
  BY <1>3 DEF SyncInv
<1> QED
  BY <1>6, <1>7, <1>8, <1>9, <1>10 DEF MailInv

LEMMA SyncStartKeepsMail ==
    ASSUME MailInvs, NEW t \in Tasks, SyncStart(t)
    PROVE  MailInvs'
<1> USE DEF MailInvs
<1> DEFINE c == task[t].conn
<1>1. c \in Conns /\ task[t].pc \in {"body", "await"} /\ SlotInv(c) /\ JobInv(t)
  BY DEF SyncStart, MailInv, LeaseInv
<1>2. StartsSync(t)
  BY <1>1, SyncStartEffect
<1>12. PICK s \in {"read", "write"} : StartsSyncOf(t, s)
  BY <1>2 DEF StartsSync
<1>3. /\ pool' = [pool EXCEPT !.phase = "sync", !.at = c,
                     !.job = [id |-> Id(t), owner |-> t, stmts |-> <<s>>]]
      /\ task'[t].pc = task[t].pc /\ task'[t].n = task[t].n + 1
      /\ task'[t].conn = c /\ task'[t].tx = task[t].tx
      /\ task'[t].job = task[t].job /\ task'[t].kind = task[t].kind
      /\ task'[t].port = task[t].port
      /\ task'[t].mixed = (task[t].mixed \/ task[t].pc = "await")
  BY <1>12 DEF StartsSyncOf
<1>4. /\ pool.phase = "open" /\ conn[c].slot = NoJob
      /\ UNCHANGED <<worker, handle, db>> /\ pool' \in PoolStates
      /\ task' \in [Tasks -> TaskStates] /\ conn' \in [Conns -> ConnStates]
      /\ \A u \in Tasks \ {t} : task'[u] = task[u]
      /\ \A d \in Conns \ {c} : conn'[d] = conn[d]
      /\ conn'[c].slot = conn[c].slot /\ conn'[c].inUse = conn[c].inUse
      /\ conn'[c].kind = conn[c].kind
  BY <1>2 DEF StartsSync
<1>5. /\ pool'.phase = "sync" /\ pool'.at = c /\ pool'.made = pool.made
      /\ pool'.job = [id |-> Id(t), owner |-> t, stmts |-> <<s>>]
  BY <1>3, Records DEF PoolStates
<1>6. /\ task[t].n \in Nat /\ 1..task[t].n \subseteq 1..task'[t].n
      /\ Id(t) \in {t} \X (1..task'[t].n)
  BY <1>3, Records DEF TaskStates
<1> HIDE DEF c
<1>7. TypeInv' /\ LoopInv'
  BY <1>4, <1>5 DEF TypeInv, LoopInv
<1>8. LeaseInv'
  <2>1. \A u \in Tasks : /\ task'[u].conn = task[u].conn
                         /\ task'[u].pc = task[u].pc /\ task'[u].tx = task[u].tx
    BY <1>3, <1>4 DEF c
  <2>2. \A d \in Conns : conn'[d].inUse = conn[d].inUse
    BY <1>4
  <2> QED
    BY <1>4, <2>1, <2>2 DEF LeaseInv, MailInv, Up
<1>9. ASSUME NEW d \in Conns PROVE SlotInv(d)'
  <2>1. CASE d = c
    BY <1>1, <1>4, <2>1 DEF SlotInv
  <2>2. CASE d # c
    <3>1. task'[t].n \in Nat /\ task[t].n <= task'[t].n
      BY <1>3, <1>6
    <3> QED
      BY <1>3, <1>4, <2>2, <3>1, SlotElsewhere DEF c
  <2> QED
    BY <2>1, <2>2
<1>10. ASSUME NEW u \in Tasks PROVE JobInv(u)'
  <2>1. CASE u = t
    BY <1>1, <1>3, <1>6, <2>1 DEF JobInv, Awaiting
  <2>2. CASE u # t
    BY <1>4, <2>2, JobKept DEF MailInv
  <2> QED
    BY <2>1, <2>2
<1>11. SyncInv'
  <2>1. /\ conn'[c].slot = NoJob /\ pool'.job.owner = t
        /\ pool'.job.id = Id(t) /\ pool'.job.stmts = <<s>>
    BY <1>4, <1>5
  <2>2. <<s>> \in {<<"read">>, <<"write">>}
    OBVIOUS
  <2> QED
    BY <1>1, <1>3, <1>5, <1>6, <2>1, <2>2 DEF SyncInv
<1> QED
  BY <1>7, <1>8, <1>9, <1>10, <1>11 DEF MailInv

LEMMA SyncReturnsKeepsMail ==
    ASSUME MailInvs, SyncReturns
    PROVE  MailInvs'
<1> USE DEF MailInvs
<1> DEFINE c == pool.at
<1>1. /\ c \in Conns /\ pool.job.id \in Ids /\ pool.job.stmts \in Seq(Stmts)
      /\ pool \in PoolStates
  BY Records DEF PoolStates, Jobs
<1>2. ReturnsSync
  BY SyncReturnsEffect
<1>3. /\ pool.phase = "sync" /\ UNCHANGED <<worker, task>>
      /\ pool' = [pool EXCEPT !.phase = "open", !.at = 1, !.job = NoJob]
      /\ pool' \in PoolStates /\ conn' \in [Conns -> ConnStates]
      /\ \A d \in Conns \ {c} : conn'[d] = conn[d]
      /\ conn'[c].slot = conn[c].slot /\ conn'[c].inUse = conn[c].inUse
      /\ conn'[c].kind = conn[c].kind
  BY <1>2 DEF ReturnsSync
<1>4. /\ pool'.phase = "open" /\ pool'.made = pool.made
  BY <1>1, <1>3 DEF PoolStates
<1>5. handle' \in [Conns -> HandleStates] /\ db' \in SUBSET Ids
  BY <1>1, <1>2, RunsTyped DEF ReturnsSync
<1> HIDE DEF c
<1>6. TypeInv' /\ LoopInv'
  BY <1>3, <1>4, <1>5 DEF TypeInv, LoopInv
<1>7. \A d \in Conns : /\ conn'[d].slot = conn[d].slot
                       /\ conn'[d].inUse = conn[d].inUse
                       /\ conn'[d].kind = conn[d].kind
  BY <1>3
<1>8. LeaseInv' /\ SyncInv'
  BY <1>3, <1>4, <1>7 DEF LeaseInv, MailInv, SyncInv, Up
<1>9. ASSUME NEW d \in Conns PROVE SlotInv(d)'
  BY <1>3, <1>7 DEF SlotInv, Awaited, LeftBehind, MailInv, Awaiting
<1>10. ASSUME NEW u \in Tasks PROVE JobInv(u)'
  BY <1>3, JobKept DEF MailInv
<1> QED
  BY <1>6, <1>8, <1>9, <1>10 DEF MailInv

LEMMA SyncThrowsKeepsMail ==
    ASSUME MailInvs, SyncThrows
    PROVE  MailInvs'
<1> USE DEF MailInvs
<1> DEFINE c == pool.at
           t == pool.job.owner
<1>1. /\ c \in Conns /\ pool.job.id \in Ids /\ pool.job.stmts \in Seq(Stmts)
      /\ pool \in PoolStates
  BY Records DEF PoolStates, Jobs
<1>2. /\ t \in Tasks /\ task[t].conn = c /\ conn[c].slot = NoJob
      /\ task[t].pc \in {"body", "await"} /\ JobInv(t) /\ pool.phase = "sync"
  BY DEF MailInv, SyncInv, SyncThrows
<1>3. ThrowsSync
  BY <1>2, SyncThrowsEffect
<1>4. /\ pool' = [pool EXCEPT !.phase = "open", !.at = 1, !.job = NoJob]
      /\ pool' \in PoolStates /\ conn' \in [Conns -> ConnStates]
      /\ UNCHANGED worker
      /\ \A d \in Conns \ {c} : conn'[d] = conn[d]
      /\ conn'[c].slot = conn[c].slot /\ conn'[c].inUse = conn[c].inUse
      /\ conn'[c].kind = conn[c].kind
      /\ task' \in [Tasks -> TaskStates]
      /\ \A u \in Tasks \ {t} : task'[u] = task[u]
      /\ task'[t].pc = "thrown" /\ task'[t].port = "none"
      /\ task'[t].n = task[t].n /\ task'[t].conn = task[t].conn
      /\ task'[t].tx = task[t].tx
  BY <1>3 DEF ThrowsSync
<1>5. /\ pool'.phase = "open" /\ pool'.made = pool.made
  BY <1>1, <1>4 DEF PoolStates
<1>6. handle' \in [Conns -> HandleStates] /\ db' \in SUBSET Ids
  BY <1>1, <1>3, RunsTyped DEF ThrowsSync
<1> HIDE DEF c, t
<1>7. TypeInv' /\ LoopInv'
  BY <1>2, <1>4, <1>5, <1>6 DEF TypeInv, LoopInv
<1>8. \A d \in Conns : /\ conn'[d].slot = conn[d].slot
                       /\ conn'[d].inUse = conn[d].inUse
                       /\ conn'[d].kind = conn[d].kind
  BY <1>4
<1>9. LeaseInv' /\ SyncInv'
  <2>1. \A u \in Tasks : /\ task'[u].conn = task[u].conn
                         /\ task'[u].pc # "out" => task[u].pc # "out"
                         /\ task'[u].pc = "begin" => task'[u] = task[u]
    BY <1>2, <1>4
  <2> QED
    BY <1>2, <1>4, <1>5, <1>8, <2>1 DEF LeaseInv, MailInv, SyncInv, Up
<1>10. ASSUME NEW d \in Conns PROVE SlotInv(d)'
  <2>1. CASE d = c
    BY <1>2, <1>4, <1>8, <2>1 DEF SlotInv, MailInv
  <2>2. CASE d # c
    <3>1. task'[t].n \in Nat /\ task[t].n <= task'[t].n
      BY <1>2, <1>4, Records DEF TaskStates
    <3> QED
      BY <1>2, <1>4, <2>2, <3>1, SlotElsewhere
  <2> QED
    BY <2>1, <2>2
<1>11. ASSUME NEW u \in Tasks PROVE JobInv(u)'
  <2>1. CASE u = t
    BY <1>2, <1>4, <2>1 DEF JobInv, Awaiting
  <2>2. CASE u # t
    BY <1>4, <2>2, JobKept DEF MailInv
  <2> QED
    BY <2>1, <2>2
<1> QED
  BY <1>7, <1>9, <1>10, <1>11 DEF MailInv

LEMMA CheckKeepsMail ==
    ASSUME MailInvs, NEW c \in Conns, Check(c)
    PROVE  MailInvs'
<1> USE DEF MailInvs
<1>1. Checks(c)
  BY CheckEffect
<1>2. /\ UNCHANGED <<pool, handle, db, task>>
      /\ ~(pool.phase = "sync" /\ pool.at = c)
      /\ conn' \in [Conns -> ConnStates]
      /\ \A d \in Conns \ {c} : conn'[d] = conn[d]
      /\ conn'[c].slot = conn[c].slot /\ conn'[c].inUse = conn[c].inUse
      /\ conn'[c].kind = conn[c].kind
      /\ \A d \in Conns : worker'[d] = "run" =>
                 \/ d = c /\ conn[c].slot # NoJob
                 \/ d # c /\ worker[d] = "run"
      /\ worker' \in [Conns -> {"none", "check", "asleep", "run", "exited"}]
  BY <1>1 DEF Checks
<1>3. \A d \in Conns : /\ conn'[d].slot = conn[d].slot
                       /\ conn'[d].inUse = conn[d].inUse
                       /\ conn'[d].kind = conn[d].kind
  BY <1>2
<1>4. TypeInv' /\ LoopInv'
  BY <1>2 DEF TypeInv, LoopInv
<1>5. LeaseInv' /\ SyncInv'
  <2>1. pool.at \in Conns
    BY Records DEF PoolStates
  <2> QED
    BY <1>2, <1>3, <2>1 DEF LeaseInv, SyncInv, MailInv, Up
<1>6. ASSUME NEW d \in Conns PROVE SlotInv(d)'
  BY <1>2, <1>3 DEF SlotInv, Awaited, LeftBehind, MailInv, Awaiting
<1>7. ASSUME NEW u \in Tasks PROVE JobInv(u)'
  BY <1>2, JobKept DEF MailInv
<1> QED
  BY <1>4, <1>5, <1>6, <1>7 DEF MailInv

(* A worker that answers empties the slot and posts to its lessee, if any.  *)
LEMMA AnswerKeepsMail ==
    ASSUME MailInvs, NEW c \in Conns, Finish(c) \/ Abort(c)
    PROVE  MailInvs'
<1> USE DEF MailInvs
<1> DEFINE job == conn[c].slot
           t == job.owner
<1>1. /\ job \in Jobs /\ worker[c] = "run" /\ job # NoJob
      /\ Awaited(c) \/ LeftBehind(c)
  BY Records DEF ConnStates, Finish, Abort, MailInv, SlotInv
<1>2. /\ UNCHANGED pool
      /\ RunsAll(c, job.id, job.stmts) \/ RunsSome(c, job.id, job.stmts)
      /\ \E code \in {"ok", "aborted"} : Answers(c, code)
      /\ conn' \in [Conns -> ConnStates]
      /\ \A d \in Conns \ {c} : conn'[d] = conn[d]
      /\ conn'[c].slot = NoJob /\ conn'[c].inUse = conn[c].inUse
      /\ conn'[c].kind = "single"
  <2>1. CASE Finish(c)
    <3>1. Finishes(c)
      BY <2>1, FinishEffect
    <3> QED
      BY <3>1 DEF Finishes
  <2>2. CASE Abort(c)
    <3>1. Aborts(c)
      BY <2>2, AbortEffect
    <3> QED
      BY <3>1 DEF Aborts
  <2> QED
    BY <2>1, <2>2
<1>3. PICK code \in {"ok", "aborted"} : Answers(c, code)
  BY <1>2
<1>4. /\ task' \in [Tasks -> TaskStates]
      /\ worker' \in [Conns -> {"none", "check", "asleep", "run", "exited"}]
      /\ worker'[c] = "check"
      /\ \A d \in Conns \ {c} : worker'[d] = worker[d]
      /\ \A u \in Tasks \ {t} : task'[u] = task[u]
      /\ t \in Tasks =>
         /\ task'[t].pc = task[t].pc /\ task'[t].n = task[t].n
         /\ task'[t].conn = task[t].conn /\ task'[t].tx = task[t].tx
         /\ task'[t].job = task[t].job /\ task'[t].kind = task[t].kind
         /\ task'[t].mixed = task[t].mixed
  BY <1>3 DEF Answers
<1>5. handle' \in [Conns -> HandleStates] /\ db' \in SUBSET Ids
  BY <1>1, <1>2, RunsTyped DEF Jobs
<1> HIDE DEF t
<1>6. TypeInv' /\ LoopInv'
  BY <1>2, <1>4, <1>5 DEF TypeInv, LoopInv
<1>7. \A u \in Tasks :
         /\ task'[u].pc = task[u].pc /\ task'[u].conn = task[u].conn
         /\ task'[u].tx = task[u].tx
         /\ task'[u].mixed = task[u].mixed /\ task'[u].n = task[u].n
         /\ task'[u] = task[u] \/ (u = t /\ Awaited(c))
  BY <1>1, <1>4, NoTaskIsNoTask DEF LeftBehind, t
<1>8. \A d \in Conns : conn'[d].inUse = conn[d].inUse
                       /\ (conn'[d].slot = conn[d].slot \/ conn'[d].slot = NoJob)
  BY <1>2
<1>9. LeaseInv' /\ SyncInv'
  <2>1. pool.at \in Conns
    BY Records DEF PoolStates
  <2>2. LeaseInv'
    <3>1. /\ \A u \in Tasks : /\ task'[u].pc = task[u].pc
                              /\ task'[u].conn = task[u].conn
                              /\ task'[u].tx = task[u].tx
          /\ \A d \in Conns : conn'[d].inUse = conn[d].inUse
          /\ Up' <=> Up
      BY <1>2, <1>7, <1>8 DEF Up
    <3>2. LeaseInv
      BY DEF MailInv
    <3> QED
      BY <3>1, <3>2 DEF LeaseInv
  <2>3. SyncInv'
    BY <1>2, <1>7, <1>8, <2>1 DEF SyncInv, MailInv
  <2> QED
    BY <2>2, <2>3
<1>10. ASSUME NEW d \in Conns PROVE SlotInv(d)'
  <2>1. CASE d = c
    BY <1>2, <1>4, <2>1 DEF SlotInv
  <2>2. CASE d # c
    <3>1. conn'[d] = conn[d] /\ worker'[d] = worker[d] /\ SlotInv(d)
      BY <1>2, <1>4, <2>2 DEF MailInv
    <3>2. conn[d].slot.owner \in Tasks =>
             task'[conn[d].slot.owner] = task[conn[d].slot.owner]
      <4>1. SUFFICES ASSUME conn[d].slot.owner \in Tasks
                     PROVE  task'[conn[d].slot.owner] = task[conn[d].slot.owner]
        OBVIOUS
      <4>2. conn[d].slot # NoJob
        BY <4>1, NoTaskIsNoTask DEF NoJob
      <4>3. task[conn[d].slot.owner].conn = d
        BY <3>1, <4>1, <4>2, NoTaskIsNoTask DEF SlotInv, Awaited, LeftBehind
      <4>4. Awaited(c) => task[t].conn = c
        BY DEF Awaited, t
      <4> QED
        BY <1>7, <2>2, <4>1, <4>3, <4>4
    <3>3. \A u \in Tasks : task'[u].n \in Nat /\ task[u].n <= task'[u].n
      BY <1>7, Records DEF TaskStates
    <3>4. \A u \in Tasks : task'[u].conn = d /\ Awaiting(u)' =>
             task[u].conn = d /\ Awaiting(u)
      BY <1>7 DEF Awaiting
    <3> QED
      BY <3>1, <3>2, <3>3, <3>4, SlotStays
  <2> QED
    BY <2>1, <2>2
<1>11. ASSUME NEW u \in Tasks PROVE JobInv(u)'
  <2>1. CASE u = t /\ Awaited(c)
    <3>1. Awaiting(t) /\ JobInv(t) /\ t \in Tasks
      BY <2>1 DEF Awaited, MailInv, t
    <3> QED
      BY <1>4, <2>1, <3>1 DEF JobInv, Awaiting
  <2>2. CASE task'[u] = task[u]
    BY <2>2, JobKept DEF MailInv
  <2> QED
    BY <1>7, <2>1, <2>2
<1> QED
  BY <1>6, <1>9, <1>10, <1>11 DEF MailInv

(* A refused call leaves the one in the slot behind: its body ends.         *)
LEMMA CallRefusedKeepsMail ==
    ASSUME MailInvs, NEW t \in Tasks, CallRefused(t)
    PROVE  MailInvs'
<1> USE DEF MailInvs
<1> DEFINE c == task[t].conn
<1>1. /\ c \in Conns /\ task[t].pc \in {"body", "await"}
      /\ SlotInv(c) /\ JobInv(t)
  BY DEF CallRefused, MailInv, LeaseInv
<1>2. RefusesCall(t)
  BY <1>1, CallRefusedEffect
<1>3. /\ pool.phase = "open" /\ conn[c].slot # NoJob
      /\ UNCHANGED <<pool, worker, handle, db>>
      /\ task' \in [Tasks -> TaskStates] /\ conn' \in [Conns -> ConnStates]
      /\ \A u \in Tasks \ {t} : task'[u] = task[u]
      /\ \A d \in Conns \ {c} : conn'[d] = conn[d]
      /\ conn'[c].slot = Orphan(conn[c].slot) /\ conn'[c].inUse = conn[c].inUse
      /\ conn'[c].kind = conn[c].kind
      /\ task'[t].pc = "thrown" /\ task'[t].port = task[t].port
      /\ task'[t].conn = c /\ task'[t].tx = task[t].tx
      /\ task'[t].n = task[t].n
  BY <1>2 DEF RefusesCall
<1>4. /\ task[t].port = "none"
      /\ conn[c].slot.stmts \in Seq({"read", "write"})
      /\ \E u \in Tasks : conn[c].slot.id \in {u} \X (1..task[u].n)
      /\ conn[c].slot.owner \in {t, NoTask}
  <2>1. CASE Awaited(c)
    <3>1. /\ conn[c].slot.owner = t /\ Awaiting(t)
          /\ task[t].port = "none" /\ task[t].job = conn[c].slot
      BY <1>1, <2>1 DEF Awaited, MailInv, LeaseInv, Awaiting
    <3>2. task[t].pc = "await"
      BY <1>1, <3>1 DEF Awaiting
    <3> QED
      BY <1>1, <3>1, <3>2 DEF JobInv
  <2>2. CASE LeftBehind(c)
    BY <1>1, <2>2 DEF LeftBehind, JobInv
  <2> QED
    BY <1>1, <1>3, <2>1, <2>2 DEF SlotInv
<1> HIDE DEF c
<1>5. TypeInv' /\ LoopInv'
  BY <1>3 DEF TypeInv, LoopInv
<1>6. LeaseInv'
  <2>1. \A u \in Tasks : task'[u].conn = task[u].conn
                         /\ (task'[u].pc # "out" => task[u].pc # "out")
                         /\ (task'[u].pc = "begin" => task'[u] = task[u])
    BY <1>1, <1>3 DEF c
  <2>2. \A d \in Conns : conn'[d].inUse = conn[d].inUse
    BY <1>3
  <2> QED
    BY <1>3, <2>1, <2>2 DEF LeaseInv, MailInv, Up
<1>7. ASSUME NEW d \in Conns PROVE SlotInv(d)'
  <2>1. CASE d = c
    <3>1. /\ conn'[c].slot.owner = NoTask
          /\ conn'[c].slot.id = conn[c].slot.id
          /\ conn'[c].slot.stmts = conn[c].slot.stmts
      BY <1>3 DEF Orphan
    <3>2. conn'[c].slot # NoJob
      <4>1. \A u \in Tasks : \A x \in {u} \X (1..task[u].n) : x # NoId
        BY NoTaskIsNoTask DEF NoId
      <4> QED
        BY <1>4, <3>1, <4>1 DEF NoJob
    <3>3. \A u \in Tasks : task'[u].conn = c => ~Awaiting(u)'
      BY <1>1, <1>3 DEF MailInv, LeaseInv, Awaiting, c
    <3>4. \A u \in Tasks : task'[u].n = task[u].n
      BY <1>3
    <3>5. LeftBehind(d)'
      <4>1. \E u \in Tasks : conn'[d].slot.id \in {u} \X (1..task'[u].n)
        BY <1>4, <2>1, <3>1, <3>4
      <4> QED
        BY <1>4, <2>1, <3>1, <3>3, <4>1 DEF LeftBehind
    <3> QED
      BY <2>1, <3>2, <3>5 DEF SlotInv
  <2>2. CASE d # c
    <3>1. task'[t].n \in Nat /\ task[t].n <= task'[t].n
      BY <1>3, Records DEF TaskStates
    <3> QED
      BY <1>3, <2>2, <3>1, SlotElsewhere DEF c
  <2> QED
    BY <2>1, <2>2
<1>8. ASSUME NEW u \in Tasks PROVE JobInv(u)'
  <2>1. CASE u = t
    BY <1>3, <1>4, <2>1 DEF JobInv, Awaiting
  <2>2. CASE u # t
    BY <1>3, <2>2, JobKept DEF MailInv
  <2> QED
    BY <2>1, <2>2
<1>9. SyncInv'
  BY <1>3 DEF SyncInv
<1> QED
  BY <1>5, <1>6, <1>7, <1>8, <1>9 DEF MailInv

LEMMA EndRefusedKeepsMail ==
    ASSUME MailInvs, NEW t \in Tasks, EndRefused(t)
    PROVE  MailInvs'
<1> USE DEF MailInvs
<1> DEFINE c == task[t].conn
<1>1. /\ c \in Conns /\ task[t].pc \in {"begin", "thrown"} /\ JobInv(t)
  BY DEF EndRefused, MailInv, LeaseInv
<1>2. RefusesEnd(t)
  BY <1>1, EndRefusedEffect
<1>3. /\ pool.phase = "open"
      /\ UNCHANGED <<pool, conn, worker, db>>
      /\ handle' \in [Conns -> HandleStates]
      /\ task' \in [Tasks -> TaskStates]
      /\ \A u \in Tasks \ {t} : task'[u] = task[u]
      /\ task'[t].pc = "leaving" /\ task'[t].port = task[t].port
      /\ task'[t].conn = c /\ task'[t].tx = task[t].tx
      /\ task'[t].n = task[t].n
  BY <1>2 DEF RefusesEnd
<1> HIDE DEF c
<1>4. TypeInv' /\ LoopInv'
  BY <1>3 DEF TypeInv, LoopInv
<1>5. LeaseInv'
  <2>1. \A u \in Tasks : task'[u].conn = task[u].conn
                         /\ (task'[u].pc # "out" => task[u].pc # "out")
                         /\ (task'[u].pc = "begin" => task'[u] = task[u])
    BY <1>1, <1>3 DEF c
  <2> QED
    BY <1>3, <2>1 DEF LeaseInv, MailInv, Up
<1>6. ASSUME NEW d \in Conns PROVE SlotInv(d)'
  <2>1. SlotInv(d)
    BY DEF MailInv
  <2>2. \A u \in Tasks : task'[u].n = task[u].n /\ task[u].n \in Nat
    BY <1>3, Records DEF TaskStates
  <2>3. \A u \in Tasks : Awaiting(u)' => task'[u] = task[u] /\ Awaiting(u)
    BY <1>3 DEF Awaiting
  <2>4. conn[d].slot.owner \in Tasks => conn[d].slot.owner # t
    <3>1. conn[d].slot.owner \in Tasks => conn[d].slot # NoJob
      BY NoTaskIsNoTask DEF NoJob
    <3>2. ~Awaiting(t)
      BY <1>1 DEF Awaiting
    <3> QED
      BY <2>1, <3>1, <3>2, NoTaskIsNoTask DEF SlotInv, Awaited, LeftBehind
  <2> QED
    BY <1>3, <2>1, <2>2, <2>3, <2>4, SlotStays
<1>7. ASSUME NEW u \in Tasks PROVE JobInv(u)'
  <2>1. CASE u = t
    BY <1>1, <1>3, <2>1 DEF JobInv, Awaiting
  <2>2. CASE u # t
    BY <1>3, <2>2, JobKept DEF MailInv
  <2> QED
    BY <2>1, <2>2
<1>8. SyncInv'
  BY <1>3 DEF SyncInv
<1> QED
  BY <1>4, <1>5, <1>6, <1>7, <1>8 DEF MailInv

LEMMA DrainKeepsMail ==
    ASSUME MailInvs, NEW c \in Conns, DrainBehind(c)
    PROVE  MailInvs'
<1> USE DEF MailInvs
<1>1. /\ pool.phase = "open"
      /\ UNCHANGED <<pool, worker, handle, db, task>>
      /\ conn' \in [Conns -> ConnStates]
      /\ \A d \in Conns : /\ conn'[d].slot = conn[d].slot
                          /\ conn'[d].inUse = conn[d].inUse
                          /\ conn'[d].kind = conn[d].kind
  <2>1. Drains(c)
    BY DrainEffect
  <2> QED
    BY <2>1 DEF Drains
<1>2. TypeInv' /\ LoopInv'
  BY <1>1 DEF TypeInv, LoopInv
<1>3. LeaseInv' /\ SyncInv'
  BY <1>1 DEF LeaseInv, SyncInv, MailInv, Up
<1>4. ASSUME NEW d \in Conns PROVE SlotInv(d)'
  BY <1>1 DEF SlotInv, Awaited, LeftBehind, MailInv, Awaiting
<1>5. ASSUME NEW u \in Tasks PROVE JobInv(u)'
  BY <1>1, JobKept DEF MailInv
<1> QED
  BY <1>2, <1>3, <1>4, <1>5 DEF MailInv

LEMMA Gone ==
    ASSUME pool \in PoolStates, NEW at \in Conns,
           NEW phase \in {"stop", "join", "freed"}, Goto(phase, at)
    PROVE  /\ pool' \in PoolStates /\ pool'.phase = phase /\ pool'.at = at
           /\ pool'.made = pool.made
BY DEF PoolStates

LEMMA LifecycleKeepsMail ==
    ASSUME MailInvs, Lifecycle \/ Destroy
    PROVE  MailInvs'
<1> USE DEF MailInvs
<1>1. UNCHANGED <<db, task>>
  BY DEF Lifecycle, Destroy, CreateConn, CreateFails, Stop, Join
<1>2. /\ pool' \in PoolStates /\ pool'.phase # "sync"
      /\ LoopInv' /\ (Up' => Up)
  <2>1. CASE CreateConn
    <3>1. /\ pool \in PoolStates /\ pool.at \in Conns /\ pool.made = pool.at - 1
          /\ pool.phase = "create" /\ 1 \in Conns
      BY <2>1, Records, ConstantsTyped DEF CreateConn, LoopInv, PoolStates
    <3> DEFINE phase == IF pool.at = MaxSize THEN "open" ELSE "create"
               at == IF pool.at = MaxSize THEN 1 ELSE pool.at + 1
               made == pool.made + 1
    <3>2. pool' = [pool EXCEPT !.made = made, !.phase = phase, !.at = at]
      BY <2>1, <3>1 DEF CreateConn
    <3>3. /\ made \in 0..MaxSize /\ at \in Conns /\ phase \in {"open", "create"}
          /\ phase = "open" => made = MaxSize
          /\ phase = "create" => made = at - 1
      BY <3>1, ConstantsTyped DEF Conns
    <3> HIDE DEF phase, at, made
    <3>4. /\ pool' \in PoolStates /\ pool'.phase = phase /\ pool'.at = at
          /\ pool'.made = made
      BY <3>1, <3>2, <3>3 DEF PoolStates
    <3> QED
      BY <3>1, <3>3, <3>4 DEF LoopInv, Up
  <2>2. CASE CreateFails
    <3>1. /\ pool \in PoolStates /\ pool.at \in Conns /\ pool.made = pool.at - 1
          /\ pool.phase = "create" /\ 1 \in Conns
      BY <2>2, Records, ConstantsTyped DEF CreateFails, LoopInv, PoolStates
    <3>2. PICK phase \in {"freed", "stop"} :
             /\ pool' = [pool EXCEPT !.phase = phase, !.at = 1, !.undo = TRUE]
             /\ phase = "stop" => pool.made # 0
      BY <2>2 DEF CreateFails
    <3>3. /\ pool' \in PoolStates /\ pool'.phase = phase /\ pool'.at = 1
          /\ pool'.made = pool.made
      BY <3>1, <3>2 DEF PoolStates
    <3> QED
      BY <3>1, <3>2, <3>3 DEF LoopInv, Up, Conns
  <2>3. CASE Destroy
    <3>1. /\ pool' \in PoolStates /\ pool'.phase = "stop" /\ pool'.at = 1
          /\ pool'.made = pool.made
      BY <2>3, Gone, Records, ConstantsTyped DEF Destroy
    <3> QED
      BY <2>3, <3>1, ConstantsTyped DEF Destroy, LoopInv, Up
  <2>4. ASSUME Stop \/ Join
        PROVE  \E phase \in {"stop", "join", "freed"}, at \in Conns :
                  Goto(phase, at) /\ (phase # "freed" => at <= pool.made)
    <3> HIDE DEF Goto
    <3>1. pool.phase \in {"stop", "join"} /\ pool \in PoolStates
      BY <2>4, Records DEF Stop, Join
    <3>2. /\ pool.at \in Nat /\ pool.made \in Nat /\ pool.made <= MaxSize
          /\ pool.at <= pool.made /\ pool.at \in Conns /\ 1 \in Conns
      BY <3>1, ConstantsTyped DEF PoolStates, Conns, LoopInv
    <3>3. pool.at # pool.made => pool.at + 1 \in Conns /\ pool.at + 1 <= pool.made
      BY <3>2, ConstantsTyped DEF Conns
    <3>4. 1 <= pool.made
      BY <3>2 DEF Conns
    <3>5. CASE Stop
      <4>1. CASE pool.undo
        <5>1. Goto("join", pool.at)
          BY <3>5, <4>1 DEF Stop
        <5> QED
          BY <3>2, <5>1
      <4>2. CASE ~pool.undo /\ pool.at < pool.made
        <5>1. Goto("stop", pool.at + 1)
          BY <3>5, <4>2 DEF Stop
        <5> QED
          BY <3>2, <3>3, <4>2, <5>1
      <4>3. CASE ~pool.undo /\ ~(pool.at < pool.made)
        <5>1. Goto("join", 1)
          BY <3>5, <4>3 DEF Stop
        <5> QED
          BY <3>2, <3>4, <5>1
      <4> QED
        BY <4>1, <4>2, <4>3
    <3>6. CASE Join
      <4>1. CASE pool.at = pool.made
        <5>1. Goto("freed", 1)
          BY <3>6, <4>1 DEF Join
        <5> QED
          BY <3>2, <5>1
      <4>2. CASE pool.at # pool.made
        <5> DEFINE phase == IF pool.undo THEN "stop" ELSE "join"
        <5>1. Goto(phase, pool.at + 1) /\ phase \in {"stop", "join"}
          BY <3>6, <4>2 DEF Join
        <5> HIDE DEF phase
        <5> QED
          BY <3>3, <4>2, <5>1
      <4> QED
        BY <4>1, <4>2
    <3> QED
      BY <2>4, <3>5, <3>6
  <2>5. CASE Stop \/ Join
    <3> HIDE DEF MailInvs
    <3>1. PICK phase \in {"stop", "join", "freed"}, at \in Conns :
             Goto(phase, at) /\ (phase # "freed" => at <= pool.made)
      BY <2>4, <2>5
    <3>2. /\ pool' \in PoolStates /\ pool'.phase = phase /\ pool'.at = at
          /\ pool'.made = pool.made
      BY <3>1, Gone, Records DEF MailInvs
    <3> QED
      BY <3>1, <3>2 DEF LoopInv, Up
  <2> QED
    BY <2>1, <2>2, <2>3, <2>5 DEF Lifecycle
<1>3. /\ conn' \in [Conns -> ConnStates] /\ handle' \in [Conns -> HandleStates]
      /\ worker' \in [Conns -> {"none", "check", "asleep", "run", "exited"}]
  <2>1. CASE CreateConn \/ CreateFails \/ Destroy
    BY <2>1 DEF CreateConn, CreateFails, Destroy, TypeInv
  <2>2. CASE Stop
    <3>1. Stops
      BY <2>2, StopEffect
    <3> QED
      BY <2>2, <3>1 DEF Stop, Stops, TypeInv
  <2>3. CASE Join
    <3>1. Joins
      BY <2>3, JoinEffect
    <3> QED
      BY <2>3, <3>1 DEF Join, Joins, TypeInv
  <2> QED
    BY <2>1, <2>2, <2>3 DEF Lifecycle
<1>4. ASSUME NEW d \in Conns
      PROVE  /\ worker'[d] = "run" => worker[d] = "run"
             /\ \/ /\ conn'[d].slot = conn[d].slot /\ conn'[d].kind = conn[d].kind
                   /\ conn'[d].inUse = conn[d].inUse
                \/ /\ conn'[d].slot = NoJob /\ conn'[d].kind = "single"
                   /\ worker'[d] # "run" /\ ~Up'
  <2>1. CASE CreateConn \/ CreateFails \/ Destroy
    BY <2>1 DEF CreateConn, CreateFails, Destroy, TypeInv
  <2>2. CASE Stop
    <3>1. Stops
      BY <2>2, StopEffect
    <3> QED
      BY <2>2, <3>1 DEF Stop, Stops, TypeInv
  <2>3. CASE Join
    <3>1. Joins
      BY <2>3, JoinEffect
    <3>2. ~Up' /\ worker' = worker
      BY <2>3, Records DEF Join, Up, PoolStates
    <3>3. CASE d = pool.at
      BY <2>3, <3>1, <3>2, <3>3 DEF Join, Joins
    <3>4. CASE d # pool.at
      BY <3>1, <3>2, <3>4 DEF Joins
    <3> QED
      BY <3>3, <3>4
  <2> QED
    BY <2>1, <2>2, <2>3 DEF Lifecycle
<1>5. TypeInv'
  BY <1>1, <1>2, <1>3 DEF TypeInv
<1>6. LeaseInv' /\ SyncInv'
  BY <1>1, <1>2, <1>4 DEF LeaseInv, SyncInv, MailInv
<1>7. ASSUME NEW d \in Conns PROVE SlotInv(d)'
  BY <1>1, <1>4 DEF SlotInv, Awaited, LeftBehind, Awaiting, MailInv
<1>8. ASSUME NEW u \in Tasks PROVE JobInv(u)'
  BY <1>1, JobKept DEF MailInv
<1> QED
  BY <1>2, <1>5, <1>6, <1>7, <1>8 DEF MailInv

LEMMA MailStep ==
    ASSUME MailInvs, [Next]_vars
    PROVE  MailInvs'
<1>1. CASE UNCHANGED vars
  BY <1>1 DEF vars, MailInvs, TypeInv, LoopInv, MailInv, LeaseInv, SlotInv,
              JobInv, SyncInv, Awaited, LeftBehind, Awaiting, Up
<1>2. CASE Lifecycle \/ Destroy
  BY <1>2, LifecycleKeepsMail
<1>3. CASE Sync
  BY <1>3, SyncReturnsKeepsMail, SyncThrowsKeepsMail DEF Sync
<1>4. ASSUME NEW t \in Tasks, TaskStep(t) PROVE MailInvs'
  <2>1. CASE \E tx \in BOOLEAN : Lease(t, tx)
    BY <2>1, LeaseKeepsMail
  <2>2. CASE \E kind \in Kinds, stmts \in Seq(Stmts),
                then \in {"beginning", "await", "ending"} :
                Calls(t, kind, stmts, then) /\ Submit(t, kind, stmts, then)
    BY <2>2, SubmitKeepsMail
  <2>3. CASE SyncStart(t) \/ Receive(t) \/ Release(t)
    BY <2>3, SyncStartKeepsMail, ReceiveKeepsMail, ReleaseKeepsMail
  <2>4. CASE CallRefused(t) \/ EndRefused(t)
    BY <2>4, CallRefusedKeepsMail, EndRefusedKeepsMail
  <2> QED
    BY <1>4, <2>1, <2>2, <2>3, <2>4, TaskSteps
<1>5. ASSUME NEW c \in Conns, Work(c) \/ DrainBehind(c) PROVE MailInvs'
  BY <1>5, CheckKeepsMail, AnswerKeepsMail, DrainKeepsMail DEF Work
<1> QED
  BY <1>1, <1>2, <1>3, <1>4, <1>5 DEF Next

(* A filled slot of sqlite_pool.c holds the call its lessee awaits, of the  *)
(* lessee's own, and nothing else has been posted to it, or a call that a   *)
(* body left behind and nobody awaits; executeSync runs only while its slot *)
(* is empty.                                                                *)
THEOREM MailInvariance == Spec => []MailInvs
BY MailInit, MailStep, PTL DEF Spec

(* executeSync (sqlite_conn_exec_sync) and the worker thread are never both *)
(* inside libsqlite3 on one handle.                                         *)
THEOREM OneThreadOnEveryDb == Spec => []OneThreadOnDb
<1>1. MailInvs => OneThreadOnDb
  <2> SUFFICES ASSUME MailInvs, pool.phase = "sync"
               PROVE  worker[pool.at] # "run" /\ conn[pool.at].slot = NoJob
    BY DEF OneThreadOnDb
  <2>1. pool.at \in Conns
    BY Records DEF MailInvs, PoolStates
  <2> QED
    BY <2>1 DEF MailInvs, MailInv, SyncInv, SlotInv
<1> QED
  BY <1>1, MailInvariance, PTL

-------------------------------------------------------------------------------
(* What the answer of an unmixed call points at is there until it is read:  *)
(* polls still owed to a call left behind are owed before it was submitted. *)
AnswerKept(t) ==
    LET c == task[t].conn
        job == task[t].job
    IN  Up /\ Awaiting(t) =>
            /\ conn[c].owed # <<>> => task[t].behind
            /\ ~task[t].mixed /\ ~task[t].behind =>
                  /\ task[t].port = "ok" /\ task[t].kind # "batch" =>
                        conn[c].last = Results(task[t].kind, job)
                  /\ task[t].port = "aborted" => conn[c].error = job.id
AnswerInv == \A t \in Tasks : AnswerKept(t)

LEMMA AnswerStays ==
    ASSUME NEW u \in Tasks, AnswerKept(u), task'[u] = task[u], Up' => Up,
           Awaiting(u) /\ Up' =>
               conn'[task[u].conn].owed = conn[task[u].conn].owed,
           Awaiting(u) /\ task[u].port # "none" /\ Up' =>
               /\ conn'[task[u].conn].last = conn[task[u].conn].last
               /\ conn'[task[u].conn].error = conn[task[u].conn].error
    PROVE  AnswerKept(u)'
BY DEF AnswerKept, Awaiting

(* Creating leaves the connections alone; past it, nobody is answered.      *)
LEMMA LifecycleQuiet ==
    ASSUME MailInvs, Lifecycle \/ Destroy
    PROVE  /\ UNCHANGED <<db, task>>
           /\ Up' => Up /\ UNCHANGED <<conn, handle>>
<1>1. CASE CreateConn
  BY <1>1 DEF CreateConn, Up
<1>2. CASE CreateFails
  <2>1. pool'.phase \in {"freed", "stop"}
    BY <1>2, Records DEF CreateFails, MailInvs, PoolStates
  <2> QED
    BY <1>2, <2>1 DEF CreateFails, Up
<1>3. CASE Destroy
  <2>1. pool'.phase = "stop"
    BY <1>3, Records DEF Destroy, MailInvs, PoolStates
  <2> QED
    BY <1>3, <2>1 DEF Destroy, Up
<1>4. CASE Stop
  <2>1. pool'.phase \in {"stop", "join"}
    BY <1>4, Records DEF Stop, MailInvs, PoolStates
  <2> QED
    BY <1>4, <2>1 DEF Stop, Up
<1>5. CASE Join
  <2>1. pool'.phase \in {"stop", "join", "freed"}
    BY <1>5, Records DEF Join, MailInvs, PoolStates
  <2> QED
    BY <1>5, <2>1 DEF Join, Up
<1> QED
  BY <1>1, <1>2, <1>3, <1>4, <1>5 DEF Lifecycle

LEMMA Apart ==
    ASSUME MailInvs, NEW t \in Tasks, NEW u \in Tasks \ {t},
           task[t].pc # "out", task[u].pc # "out"
    PROVE  /\ task[t].conn \in Conns /\ task[u].conn \in Conns
           /\ task[t].conn # task[u].conn
BY DEF MailInvs, MailInv, LeaseInv

LEMMA AnswerTask ==
    ASSUME MailInvs, AnswerInv, NEW t \in Tasks, TaskStep(t)
    PROVE  AnswerInv'
<1>1. TypeInv /\ (task[t].pc # "out" => task[t].conn \in Conns)
  BY DEF MailInvs, MailInv, LeaseInv
<1>2. SUFFICES /\ AnswerKept(t)'
               /\ \A u \in Tasks \ {t} : AnswerKept(u)'
  BY DEF AnswerInv
<1>3. CASE \E tx \in BOOLEAN : Lease(t, tx)
  <2>1. PICK tx \in BOOLEAN : Leases(t, tx)
    BY <1>1, <1>3, LeaseEffect
  <2>2. PICK c \in Conns : LeasesAt(t, tx, c)
    BY <2>1 DEF Leases
  <2>3. /\ \A d \in Conns : /\ conn'[d].last = conn[d].last
                            /\ conn'[d].error = conn[d].error
                            /\ conn'[d].owed = conn[d].owed
        /\ task'[t].pc \in {"begin", "body"}
    BY <2>2 DEF LeasesAt
  <2>4. UNCHANGED pool /\ \A u \in Tasks \ {t} : task'[u] = task[u]
    BY <2>1 DEF Leases
  <2>5. AnswerKept(t)'
    BY <2>3 DEF AnswerKept, Awaiting
  <2>6. ASSUME NEW u \in Tasks \ {t} PROVE AnswerKept(u)'
    <3>1. Awaiting(u) => task[u].conn \in Conns
      BY DEF Awaiting, MailInvs, MailInv, LeaseInv
    <3> QED
      BY <2>3, <2>4, <3>1, AnswerStays DEF AnswerInv, Up
  <2> QED
    BY <2>5, <2>6
<1>4. CASE \E kind \in Kinds, stmts \in Seq(Stmts),
              then \in {"beginning", "await", "ending"} :
              Calls(t, kind, stmts, then) /\ Submit(t, kind, stmts, then)
  <2>1. PICK kind \in Kinds, stmts \in Seq(Stmts),
             then \in {"beginning", "await", "ending"} :
             Calls(t, kind, stmts, then) /\ Submit(t, kind, stmts, then)
    BY <1>4
  <2>2. task[t].pc \in {"begin", "body", "thrown"} /\ task[t].port = "none"
    BY <2>1 DEF Calls, MailInvs, MailInv, JobInv, Awaiting
  <2>3. Submits(t, kind, stmts, then)
    BY <1>1, <2>1, <2>2, SubmitEffect
  <2>4. /\ UNCHANGED pool
        /\ \A u \in Tasks \ {t} : task'[u] = task[u]
        /\ \A d \in Conns \ {task[t].conn} : conn'[d] = conn[d]
        /\ task'[t].port = "none" /\ task'[t].conn = task[t].conn
        /\ task'[t].behind = (conn[task[t].conn].owed # <<>>)
        /\ conn'[task[t].conn].owed = conn[task[t].conn].owed
    BY <2>2, <2>3 DEF Submits
  <2>5. AnswerKept(t)'
    BY <2>4 DEF AnswerKept
  <2>6. ASSUME NEW u \in Tasks \ {t} PROVE AnswerKept(u)'
    <3>1. Awaiting(u) => conn'[task[u].conn] = conn[task[u].conn]
      BY <2>2, <2>4, Apart DEF Awaiting
    <3> QED
      BY <2>4, <3>1, AnswerStays DEF AnswerInv, Up
  <2> QED
    BY <2>5, <2>6
<1>5. CASE SyncStart(t)
  <2>1. StartsSync(t) /\ task[t].pc \in {"body", "await"}
    BY <1>1, <1>5, SyncStartEffect DEF SyncStart
  <2>2. PICK s \in {"read", "write"} : StartsSyncOf(t, s)
    BY <2>1 DEF StartsSync
  <2>3. task'[t].pc = "await" => task'[t].mixed
    <3>1. /\ task'[t].pc = task[t].pc
          /\ task'[t].mixed = (task[t].mixed \/ task[t].pc = "await")
      BY <2>2 DEF StartsSyncOf
    <3> QED
      BY <3>1
  <2>4. task'[t].pc \in {"body", "await"}
    BY <2>1, <2>2 DEF StartsSyncOf
  <2>5. /\ pool.phase = "open"
        /\ \A u \in Tasks \ {t} : task'[u] = task[u]
        /\ \A d \in Conns \ {task[t].conn} : conn'[d] = conn[d]
    BY <2>1 DEF StartsSync
  <2>6. AnswerKept(t)'
    <3>1. /\ task'[t].conn = task[t].conn /\ task'[t].behind = task[t].behind
          /\ task'[t].pc = task[t].pc
      BY <2>2 DEF StartsSyncOf
    <3>2. conn'[task[t].conn].owed = conn[task[t].conn].owed
      BY <2>1 DEF StartsSync
    <3>3. Up
      BY <2>5 DEF Up
    <3> QED
      BY <2>3, <2>4, <3>1, <3>2, <3>3 DEF AnswerKept, AnswerInv, Awaiting
  <2>7. ASSUME NEW u \in Tasks \ {t} PROVE AnswerKept(u)'
    <3>1. Awaiting(u) => conn'[task[u].conn] = conn[task[u].conn]
      BY <2>1, <2>5, Apart DEF Awaiting
    <3> QED
      BY <2>5, <3>1, AnswerStays DEF AnswerInv, Up
  <2> QED
    BY <2>6, <2>7
<1>6. CASE Receive(t)
  <2>1. Receives(t) /\ task[t].pc # "out"
    BY <1>1, <1>6, ReceiveEffect DEF Receive, Resumes
  <2>2. /\ task'[t].pc = AfterAnswer(task[t].pc, Fine(t))
        /\ UNCHANGED pool
        /\ \A u \in Tasks \ {t} : task'[u] = task[u]
        /\ \A d \in Conns \ {task[t].conn} : conn'[d] = conn[d]
    BY <2>1 DEF Receives
  <2>3. task'[t].pc \notin {"beginning", "await", "ending"}
    BY <2>2 DEF AfterAnswer
  <2>4. AnswerKept(t)'
    BY <2>3 DEF AnswerKept, Awaiting
  <2>5. ASSUME NEW u \in Tasks \ {t} PROVE AnswerKept(u)'
    <3>1. Awaiting(u) => conn'[task[u].conn] = conn[task[u].conn]
      BY <2>1, <2>2, Apart DEF Awaiting
    <3> QED
      BY <2>2, <3>1, AnswerStays DEF AnswerInv, Up
  <2> QED
    BY <2>4, <2>5
<1>7. CASE Release(t)
  <2>1. Releases(t) /\ task[t].pc # "out"
    BY <1>1, <1>7, ReleaseEffect DEF Release
  <2>2. /\ task'[t].pc = "out"
        /\ UNCHANGED pool
        /\ \A u \in Tasks \ {t} : task'[u] = task[u]
        /\ \A d \in Conns \ {task[t].conn} : conn'[d] = conn[d]
    BY <2>1 DEF Releases
  <2>3. AnswerKept(t)'
    BY <2>2 DEF AnswerKept, Awaiting
  <2>4. ASSUME NEW u \in Tasks \ {t} PROVE AnswerKept(u)'
    <3>1. Awaiting(u) => conn'[task[u].conn] = conn[task[u].conn]
      BY <2>1, <2>2, Apart DEF Awaiting
    <3> QED
      BY <2>2, <3>1, AnswerStays DEF AnswerInv, Up
  <2> QED
    BY <2>3, <2>4
<1>8. CASE CallRefused(t)
  <2>1. RefusesCall(t) /\ task[t].pc # "out"
    BY <1>1, <1>8, CallRefusedEffect DEF CallRefused
  <2>2. /\ task'[t].pc = "thrown"
        /\ UNCHANGED pool
        /\ \A u \in Tasks \ {t} : task'[u] = task[u]
        /\ \A d \in Conns \ {task[t].conn} : conn'[d] = conn[d]
    BY <2>1 DEF RefusesCall
  <2>3. AnswerKept(t)'
    BY <2>2 DEF AnswerKept, Awaiting
  <2>4. ASSUME NEW u \in Tasks \ {t} PROVE AnswerKept(u)'
    <3>1. Awaiting(u) => conn'[task[u].conn] = conn[task[u].conn]
      BY <2>1, <2>2, Apart DEF Awaiting
    <3> QED
      BY <2>2, <3>1, AnswerStays DEF AnswerInv, Up
  <2> QED
    BY <2>3, <2>4
<1>9. CASE EndRefused(t)
  <2>1. RefusesEnd(t)
    BY <1>1, <1>9, EndRefusedEffect DEF EndRefused
  <2>2. /\ task'[t].pc = "leaving"
        /\ UNCHANGED <<pool, conn>>
        /\ \A u \in Tasks \ {t} : task'[u] = task[u]
    BY <2>1 DEF RefusesEnd
  <2>3. AnswerKept(t)'
    BY <2>2 DEF AnswerKept, Awaiting
  <2>4. ASSUME NEW u \in Tasks \ {t} PROVE AnswerKept(u)'
    BY <2>2, AnswerStays DEF AnswerInv, Up
  <2> QED
    BY <2>3, <2>4
<1> QED
  BY <1>3, <1>4, <1>5, <1>6, <1>7, <1>8, <1>9, TaskSteps

LEMMA AnswerSync ==
    ASSUME MailInvs, AnswerInv, Sync
    PROVE  AnswerInv'
<1>1. PICK t \in Tasks :
      /\ t = pool.job.owner /\ pool.phase = "sync" /\ task[t].conn = pool.at
      /\ task[t].pc \in {"body", "await"}
      /\ task[t].pc = "await" => task[t].mixed
      /\ TypeInv
  BY DEF Sync, SyncReturns, SyncThrows, MailInvs, MailInv, SyncInv
<1>2. /\ \A u \in Tasks \ {t} : task'[u] = task[u]
      /\ \A d \in Conns \ {pool.at} : conn'[d] = conn[d]
      /\ \/ /\ task' = task
            /\ conn'[pool.at].owed = conn[pool.at].owed
         \/ task'[t].pc = "thrown"
  <2>1. CASE SyncReturns
    <3>1. ReturnsSync
      BY <1>1, <2>1, SyncReturnsEffect
    <3> QED
      BY <1>1, <3>1 DEF ReturnsSync
  <2>2. CASE SyncThrows
    <3>1. ThrowsSync
      BY <1>1, <2>2, SyncThrowsEffect
    <3> QED
      BY <1>1, <3>1 DEF ThrowsSync
  <2> QED
    BY <2>1, <2>2 DEF Sync
<1>3. AnswerKept(t)'
  BY <1>1, <1>2 DEF AnswerInv, AnswerKept, Awaiting, Up
<1>4. ASSUME NEW u \in Tasks \ {t} PROVE AnswerKept(u)'
  <2>1. Awaiting(u) => conn'[task[u].conn] = conn[task[u].conn]
    BY <1>1, <1>2, Apart DEF Awaiting
  <2> QED
    BY <1>1, <1>2, <2>1, AnswerStays DEF AnswerInv, Up
<1> QED
  BY <1>3, <1>4 DEF AnswerInv

LEMMA AnswerWork ==
    ASSUME MailInvs, AnswerInv, NEW c \in Conns, Work(c)
    PROVE  AnswerInv'
<1>1. TypeInv /\ SlotInv(c)
  BY DEF MailInvs, MailInv
<1>2. CASE Check(c)
  <2>1. Checks(c)
    BY <1>1, <1>2, CheckEffect
  <2>2. /\ UNCHANGED <<pool, task>>
        /\ \A d \in Conns \ {c} : conn'[d] = conn[d]
        /\ conn'[c].last = conn[c].last /\ conn'[c].owed = conn[c].owed
        /\ conn[c].slot = NoJob => conn'[c].error = conn[c].error
    BY <2>1 DEF Checks
  <2>3. ASSUME NEW u \in Tasks PROVE AnswerKept(u)'
    <3>0. Awaiting(u) => conn'[task[u].conn].owed = conn[task[u].conn].owed
      BY <2>2 DEF Awaiting, MailInvs, MailInv, LeaseInv
    <3>1. SUFFICES ASSUME Awaiting(u), task[u].port # "none"
                   PROVE  /\ conn'[task[u].conn].last = conn[task[u].conn].last
                          /\ conn'[task[u].conn].error = conn[task[u].conn].error
      BY <2>2, <3>0, AnswerStays DEF AnswerInv, Up
    <3>2. task[u].conn \in Conns
      BY <3>1 DEF Awaiting, MailInvs, MailInv, LeaseInv
    <3>3. CASE task[u].conn = c
      <4>1. conn[c].slot = NoJob
        BY <1>1, <3>1, <3>3
        DEF SlotInv, Awaited, LeftBehind, Awaiting, MailInvs, MailInv, LeaseInv
      <4> QED
        BY <2>2, <3>3, <4>1
    <3> QED
      BY <2>2, <3>2, <3>3
  <2> QED
    BY <2>3 DEF AnswerInv
<1>3. CASE Finish(c) \/ Abort(c)
  <2> DEFINE job == conn[c].slot
             t == job.owner
  <2>1. Awaited(c) \/ LeftBehind(c)
    BY <1>1, <1>3 DEF Finish, Abort, SlotInv
  <2>2. PICK code \in {"ok", "aborted"} :
          /\ Answers(c, code)
          /\ UNCHANGED pool
          /\ \A d \in Conns \ {c} : conn'[d] = conn[d]
          /\ conn'[c].owed = Behind(c, code)
          /\ code = "ok" => conn'[c].last = Results(conn[c].kind, job)
          /\ code = "aborted" => conn'[c].error = job.id
    <3>1. CASE Finish(c)
      <4>1. Finishes(c)
        BY <1>1, <3>1, FinishEffect
      <4> QED
        BY <4>1 DEF Finishes
    <3>2. CASE Abort(c)
      <4>1. Aborts(c)
        BY <1>1, <3>2, AbortEffect
      <4> QED
        BY <4>1 DEF Aborts
    <3> QED
      BY <1>3, <3>1, <3>2
  <2>3. /\ \A u \in Tasks \ {t} : task'[u] = task[u]
        /\ t \in Tasks =>
           /\ task'[t].conn = task[t].conn /\ task'[t].job = task[t].job
           /\ task'[t].kind = task[t].kind /\ task'[t].port = code
           /\ task'[t].behind = task[t].behind
    BY <2>2 DEF Answers
  <2> HIDE DEF job, t
  <2>4. ASSUME NEW u \in Tasks, task[u].conn # c, task'[u] = task[u]
        PROVE  AnswerKept(u)'
    <3>1. Awaiting(u) => conn'[task[u].conn] = conn[task[u].conn]
      BY <2>2, <2>4 DEF Awaiting, MailInvs, MailInv, LeaseInv
    <3> QED
      BY <2>2, <2>4, <3>1, AnswerStays DEF AnswerInv, Up
  <2>5. CASE Awaited(c)
    <3>1. /\ t \in Tasks /\ Awaiting(t) /\ task[t].conn = c
          /\ task[t].job = job /\ task[t].kind = conn[c].kind
          /\ conn[c].slot.owner \in Tasks
      BY <2>5 DEF Awaited, t, job
    <3>2. conn'[c].owed = conn[c].owed
      BY <2>2, <3>1 DEF Behind
    <3>3. ASSUME NEW u \in Tasks, u = t PROVE AnswerKept(u)'
      <4>1. /\ task'[u].conn = c /\ task'[u].job = job
            /\ task'[u].kind = conn[c].kind /\ task'[u].port = code
            /\ task'[u].behind = task[u].behind
        BY <2>3, <3>1, <3>3
      <4>2. Up' /\ conn[c].owed # <<>> => task[u].behind
        BY <2>2, <3>1, <3>3 DEF AnswerInv, AnswerKept, Up
      <4> QED
        BY <2>2, <3>2, <4>1, <4>2 DEF AnswerKept
    <3>4. ASSUME NEW u \in Tasks, u # t PROVE AnswerKept(u)'
      <4>1. task'[u] = task[u]
        BY <2>3, <3>4
      <4>2. CASE task[u].pc = "out"
        BY <4>1, <4>2 DEF AnswerKept, Awaiting
      <4>3. CASE task[u].pc # "out"
        BY <2>4, <3>1, <3>4, <4>1, <4>3, Apart DEF Awaiting
      <4> QED
        BY <4>2, <4>3
    <3> QED
      BY <3>3, <3>4 DEF AnswerInv
  <2>6. CASE LeftBehind(c)
    <3>1. t \notin Tasks /\ \A u \in Tasks : task[u].conn = c => ~Awaiting(u)
      BY <2>6, NoTaskIsNoTask DEF LeftBehind, t, job
    <3>2. \A u \in Tasks : task'[u] = task[u]
      BY <2>3, <3>1
    <3>3. ASSUME NEW u \in Tasks PROVE AnswerKept(u)'
      <4>1. CASE task[u].conn = c
        BY <3>1, <3>2, <4>1 DEF AnswerKept, Awaiting
      <4> QED
        BY <2>4, <3>2, <4>1
    <3> QED
      BY <3>3 DEF AnswerInv
  <2> QED
    BY <2>1, <2>5, <2>6
<1> QED
  BY <1>2, <1>3 DEF Work

(* The polls of a call left behind come before those of a later one.        *)
LEMMA AnswerDrain ==
    ASSUME MailInvs, AnswerInv, NEW c \in Conns, DrainBehind(c)
    PROVE  AnswerInv'
<1>1. Drains(c)
  BY DrainEffect DEF MailInvs
<1>2. /\ conn[c].owed # <<>> /\ UNCHANGED <<pool, task>>
      /\ \A d \in Conns \ {c} : conn'[d] = conn[d]
  BY <1>1 DEF Drains
<1>3. ASSUME NEW u \in Tasks PROVE AnswerKept(u)'
  <2>1. CASE task[u].conn = c
    <3>1. Up' /\ Awaiting(u)' => task'[u].behind
      BY <1>2, <2>1 DEF AnswerInv, AnswerKept, Awaiting, Up
    <3> QED
      BY <3>1 DEF AnswerKept
  <2>2. CASE task[u].conn # c
    <3>1. Awaiting(u) => conn'[task[u].conn] = conn[task[u].conn]
      BY <1>2, <2>2 DEF Awaiting, MailInvs, MailInv, LeaseInv
    <3> QED
      BY <1>2, <3>1, AnswerStays DEF AnswerInv, Up
  <2> QED
    BY <2>1, <2>2
<1> QED
  BY <1>3 DEF AnswerInv

LEMMA AnswerStep ==
    ASSUME MailInvs, AnswerInv, [Next]_vars
    PROVE  AnswerInv'
<1>1. CASE UNCHANGED vars
  BY <1>1 DEF vars, AnswerInv, AnswerKept, Awaiting, Up
<1>2. CASE Lifecycle \/ Destroy
  <2>1. /\ UNCHANGED <<db, task>>
        /\ Up' => Up /\ UNCHANGED <<conn, handle>>
    BY <1>2, LifecycleQuiet
  <2> QED
    BY <2>1, AnswerStays DEF AnswerInv
<1> QED
  BY <1>1, <1>2, AnswerTask, AnswerSync, AnswerWork, AnswerDrain
  DEF Next

(* What a task decodes from an answer that executeSync has not overwritten, *)
(* of a call submitted when none left behind was still to be read, is its   *)
(* own, statement by statement: sqlite_pool_worker.c leaves in       *)
(* last_result and last_error what the slot's job did, and nobody else's    *)
(* reading, polling or stopping touches them before the lessee has.         *)
THEOREM EveryAnswerIsOwn == Spec => []AnswerIsOwn
<1>1. Init => AnswerInv
  BY DEF Init, AnswerInv, AnswerKept, Awaiting, IdleTask
<1>2. ASSUME MailInvs, AnswerInv PROVE AnswerIsOwn
  <2>1. SUFFICES ASSUME NEW t \in Tasks,
                        pool.phase = "open" /\ Resumes(t)
                           /\ ~task[t].mixed /\ ~task[t].behind
                 PROVE  LET job == task[t].job
                            decoded == Decoded(task[t].kind, job,
                                               conn[task[t].conn].last)
                        IN  IF task[t].port = "ok"
                            THEN \A i \in DOMAIN decoded :
                                    decoded[i] = Result(job.id, i)
                            ELSE conn[task[t].conn].error = job.id
    BY DEF AnswerIsOwn
  <2> DEFINE job == task[t].job
             kind == task[t].kind
             last == conn[task[t].conn].last
  <2>2. /\ task[t].port = "ok" /\ kind # "batch" => last = Results(kind, job)
        /\ task[t].port = "aborted" => conn[task[t].conn].error = job.id
    BY <1>2, <2>1 DEF AnswerInv, AnswerKept, Resumes, Awaiting, Up
  <2>3. /\ job.stmts \in Seq(Stmts) /\ kind \in Kinds
        /\ task[t].port \in {"none", "ok", "aborted"}
    BY <1>2, Records DEF MailInvs, TaskStates, Jobs
  <2>4. kind = "single" => Len(job.stmts) = 1
    BY <1>2, <2>1 DEF MailInvs, MailInv, JobInv, Resumes, Awaiting
  <2> HIDE DEF job, kind, last
  <2>5. CASE task[t].port = "aborted"
    BY <2>2, <2>5 DEF job
  <2>6. CASE task[t].port = "ok" /\ kind = "batch"
    <3>1. DOMAIN Decoded(kind, job, last) = {}
      BY <2>6 DEF Decoded
    <3> QED
      BY <2>6, <3>1 DEF job, kind, last
  <2>7. CASE task[t].port = "ok" /\ kind # "batch"
    <3>1. PICK n \in Nat : n = Len(job.stmts) /\ DOMAIN job.stmts = 1..n
      BY <2>3
    <3>2. Decoded(kind, job, last) =
            [i \in 1..n |-> IF i <= Len(last) THEN last[i] ELSE Empty]
      BY <2>7, <3>1 DEF Decoded, Polls
    <3>3. last = [i \in 1..n |-> Result(job.id, i)]
      <4>1. CASE kind = "single"
        <5>1. n = 1 /\ last = <<Result(job.id, 1)>>
          BY <2>2, <2>4, <2>7, <3>1, <4>1 DEF Results
        <5> QED
          BY <5>1
      <4>2. CASE kind = "multi"
        BY <2>2, <2>7, <3>1, <4>2 DEF Results
      <4> QED
        BY <2>3, <2>7, <4>1, <4>2 DEF Kinds
    <3>4. Len(last) = n
      BY <3>1, <3>3, LenProperties
    <3>5. \A i \in DOMAIN Decoded(kind, job, last) :
             Decoded(kind, job, last)[i] = Result(job.id, i)
      BY <3>2, <3>3, <3>4
    <3> QED
      BY <2>7, <3>5 DEF job, kind, last
  <2>8. task[t].port # "none"
    BY <2>1 DEF Resumes
  <2> QED
    BY <2>3, <2>5, <2>6, <2>7, <2>8
<1> QED
  BY <1>1, <1>2, MailInvariance, AnswerStep, PTL DEF Spec

-------------------------------------------------------------------------------
(* What a call does to its handle and to the file. *)

LEMMA EffectsBounded ==
    ASSUME TypeInv, NEW c \in Conns, NEW id \in Ids, NEW stmts \in Seq(Stmts)
    PROVE  /\ Effects(c, id, stmts).dirty \subseteq handle[c].dirty \cup {id}
           /\ db \subseteq Effects(c, id, stmts).db
           /\ Effects(c, id, stmts).db \subseteq db \cup {id} \cup handle[c].dirty
BY Records DEF Effects, HandleStates

LEMMA RunsBounded ==
    ASSUME TypeInv, NEW c \in Conns, NEW id \in Ids, NEW stmts \in Seq(Stmts),
           RunsAll(c, id, stmts) \/ RunsSome(c, id, stmts)
    PROVE  /\ \A d \in Conns \ {c} : handle'[d] = handle[d]
           /\ handle'[c].dirty \subseteq handle[c].dirty \cup {id}
           /\ db \subseteq db' /\ db' \subseteq db \cup {id} \cup handle[c].dirty
<1>1. \A d \in Conns \ {c} : handle'[d] = handle[d]
  BY DEF RunsAll, RunsSome, TypeInv
<1>2. PICK part \in Seq(Stmts) :
         /\ \/ handle'[c].dirty = Effects(c, id, part).dirty
            \/ handle'[c].dirty = {}
         /\ db' = Effects(c, id, part).db
  <2>1. CASE RunsAll(c, id, stmts)
    <3>1. handle' = [handle EXCEPT ![c] =
              [txn |-> Effects(c, id, stmts).txn,
               dirty |-> Effects(c, id, stmts).dirty,
               stuck |-> @.stuck /\ Effects(c, id, stmts).txn]]
          /\ db' = Effects(c, id, stmts).db
      BY <2>1 DEF RunsAll
    <3>2. handle'[c].dirty = Effects(c, id, stmts).dirty
      BY <3>1 DEF TypeInv
    <3> QED
      BY <3>1, <3>2
  <2>2. CASE RunsSome(c, id, stmts)
    <3>1. PICK k \in 0..(Len(stmts) - 1), undone \in BOOLEAN :
          LET after == Effects(c, id, SubSeq(stmts, 1, k))
              s == stmts[k + 1]
          IN  /\ handle' = [handle EXCEPT ![c] =
                  IF undone /\ after.txn /\ s # "begin" THEN FreshHandle
                  ELSE [txn |-> after.txn, dirty |-> after.dirty,
                        stuck |-> @.stuck \/ (s = "commit" /\ after.txn)]]
              /\ db' = after.db
      BY <2>2 DEF RunsSome
    <3> DEFINE part == SubSeq(stmts, 1, k)
    <3>2. part \in Seq(Stmts)
      BY PrefixTyped
    <3>3. \/ handle'[c].dirty = Effects(c, id, part).dirty
          \/ handle'[c].dirty = {}
      BY <3>1 DEF TypeInv, FreshHandle
    <3> QED
      BY <3>1, <3>2, <3>3
  <2> QED
    BY <2>1, <2>2
<1> QED
  BY <1>1, <1>2, EffectsBounded

(* Reads and writes: inside a transaction they change nothing but it, they  *)
(* open none, and when all of them ran it is still there and holds them.    *)
LEMMA PlainEffects ==
    ASSUME TypeInv, NEW c \in Conns, NEW id \in Ids,
           NEW stmts \in Seq({"read", "write"})
    PROVE  /\ Effects(c, id, stmts).txn = handle[c].txn
           /\ handle[c].txn => Effects(c, id, stmts).db = db
           /\ ~handle[c].txn => Effects(c, id, stmts).db \subseteq db \cup {id}
           /\ handle[c].txn =>
                 /\ handle[c].dirty \subseteq Effects(c, id, stmts).dirty
                 /\ "write" \in ToSet(stmts) => id \in Effects(c, id, stmts).dirty
<1>1. stmts \notin {<<"begin">>, <<"commit">>, <<"rollback">>}
  <2>1. Len(stmts) = 1 => stmts[1] \in {"read", "write"}
    OBVIOUS
  <2> QED
    BY <2>1
<1>2. Effects(c, id, stmts) =
        LET open == handle[c].txn
            dirty == handle[c].dirty
            new == IF "write" \in ToSet(stmts) THEN {id} ELSE {}
        IN  [txn   |-> open,
             dirty |-> IF open THEN dirty \cup new ELSE dirty,
             db    |-> IF open THEN db ELSE db \cup new]
  BY <1>1 DEF Effects
<1> HIDE DEF ToSet
<1> QED
  BY <1>2

LEMMA PlainRuns ==
    ASSUME TypeInv, NEW c \in Conns, NEW id \in Ids,
           NEW stmts \in Seq({"read", "write"}),
           RunsAll(c, id, stmts) \/ RunsSome(c, id, stmts)
    PROVE  /\ handle[c].txn => db' = db
           /\ ~handle[c].txn => db' \subseteq db \cup {id}
           /\ handle'[c].txn =>
                 handle[c].txn /\ handle'[c].stuck = handle[c].stuck
           /\ RunsAll(c, id, stmts) /\ handle[c].txn =>
                 /\ handle'[c].txn /\ handle[c].dirty \subseteq handle'[c].dirty
                 /\ "write" \in ToSet(stmts) => id \in handle'[c].dirty
<1>1. handle[c] \in HandleStates /\ handle[c].stuck \in BOOLEAN
  BY Records DEF HandleStates
<1>2. ASSUME RunsAll(c, id, stmts)
      PROVE  /\ handle'[c].txn = handle[c].txn
             /\ handle'[c].txn => handle'[c].stuck = handle[c].stuck
             /\ handle'[c].dirty = Effects(c, id, stmts).dirty
             /\ db' = Effects(c, id, stmts).db
  <2>1. /\ db' = Effects(c, id, stmts).db
        /\ handle'[c] = [txn |-> Effects(c, id, stmts).txn,
                         dirty |-> Effects(c, id, stmts).dirty,
                         stuck |-> handle[c].stuck /\ Effects(c, id, stmts).txn]
    BY <1>2 DEF RunsAll, TypeInv
  <2>2. Effects(c, id, stmts).txn = handle[c].txn
    BY PlainEffects
  <2> QED
    BY <1>1, <2>1, <2>2
<1>3. CASE RunsAll(c, id, stmts)
  BY <1>2, <1>3, PlainEffects
<1>4. CASE RunsSome(c, id, stmts)
  <2>1. PICK k \in 0..(Len(stmts) - 1), undone \in BOOLEAN :
          LET after == Effects(c, id, SubSeq(stmts, 1, k))
              s == stmts[k + 1]
          IN  /\ handle' = [handle EXCEPT ![c] =
                  IF undone /\ after.txn /\ s # "begin" THEN FreshHandle
                  ELSE [txn |-> after.txn, dirty |-> after.dirty,
                        stuck |-> @.stuck \/ (s = "commit" /\ after.txn)]]
              /\ db' = after.db
    BY <1>4 DEF RunsSome
  <2> DEFINE part == SubSeq(stmts, 1, k)
             s == stmts[k + 1]
  <2>2. part \in Seq({"read", "write"}) /\ s \in {"read", "write"}
    BY PrefixTyped
  <2>3. /\ handle' = [handle EXCEPT ![c] =
                     IF undone /\ Effects(c, id, part).txn /\ s # "begin"
                     THEN FreshHandle
                     ELSE [txn |-> Effects(c, id, part).txn,
                           dirty |-> Effects(c, id, part).dirty,
                           stuck |-> \/ @.stuck
                                     \/ s = "commit" /\ Effects(c, id, part).txn]]
        /\ db' = Effects(c, id, part).db
    BY <2>1
  <2> HIDE DEF part, s
  <2>4. /\ Effects(c, id, part).txn = handle[c].txn
        /\ handle[c].txn => Effects(c, id, part).db = db
        /\ ~handle[c].txn => Effects(c, id, part).db \subseteq db \cup {id}
    BY <2>2, PlainEffects
  <2>5. handle'[c].txn => /\ handle[c].txn
                          /\ handle'[c].stuck = (handle[c].stuck \/ FALSE)
    <3>1. CASE undone /\ Effects(c, id, part).txn /\ s # "begin"
      BY <2>3, <3>1 DEF FreshHandle, TypeInv
    <3>2. CASE ~(undone /\ Effects(c, id, part).txn /\ s # "begin")
      <4>1. /\ handle'[c].txn = Effects(c, id, part).txn
            /\ handle'[c].stuck = (\/ handle[c].stuck
                                   \/ s = "commit" /\ Effects(c, id, part).txn)
        BY <2>3, <3>2 DEF TypeInv
      <4>2. s # "commit"
        BY <2>2
      <4> QED
        BY <2>4, <4>1, <4>2
    <3> QED
      BY <3>1, <3>2
  <2>6. handle'[c].txn =>
           handle[c].txn /\ handle'[c].stuck = handle[c].stuck
    BY <1>1, <2>5
  <2>7. RunsAll(c, id, stmts) /\ handle[c].txn =>
           /\ handle'[c].txn /\ handle[c].dirty \subseteq handle'[c].dirty
           /\ "write" \in ToSet(stmts) => id \in handle'[c].dirty
    BY <1>3, PlainEffects, <1>2
  <2> QED
    BY <2>3, <2>4, <2>6, <2>7
<1> QED
  BY <1>3, <1>4

(* Transaction control, alone in its call.                                  *)
LEMMA OneStatement ==
    ASSUME NEW x, NEW k \in 0..(Len(<<x>>) - 1)
    PROVE  k = 0 /\ SubSeq(<<x>>, 1, k) = <<>> /\ <<x>>[k + 1] = x
<1>1. Len(<<x>>) = 1
  OBVIOUS
<1>2. k = 0
  BY <1>1
<1> QED
  BY <1>2

LEMMA ControlFails ==
    ASSUME TypeInv, NEW c \in Conns, NEW id \in Ids,
           NEW s \in {"begin", "commit", "rollback"}, RunsSome(c, id, <<s>>)
    PROVE  /\ db' = db
           /\ s \in {"begin", "rollback"} => Illegal(c, s)
           /\ handle'[c].txn => handle[c].txn
           /\ handle'[c].txn => handle'[c].stuck = (handle[c].stuck \/ s = "commit")
           /\ handle'[c].txn /\ s = "commit" => handle'[c].stuck
<1>1. PICK k \in 0..(Len(<<s>>) - 1), undone \in BOOLEAN :
          LET after == Effects(c, id, SubSeq(<<s>>, 1, k))
              x == <<s>>[k + 1]
          IN  /\ x \in {"begin", "rollback"} => Illegal(c, x)
              /\ handle' = [handle EXCEPT ![c] =
                  IF undone /\ after.txn /\ x # "begin" THEN FreshHandle
                  ELSE [txn |-> after.txn, dirty |-> after.dirty,
                        stuck |-> @.stuck \/ (x = "commit" /\ after.txn)]]
              /\ db' = after.db
  BY DEF RunsSome
<1>2. SubSeq(<<s>>, 1, k) = <<>> /\ <<s>>[k + 1] = s
  BY OneStatement
<1> DEFINE after == Effects(c, id, <<>>)
<1>3. after.txn = handle[c].txn /\ after.db = db
  <2>1. <<>> \in Seq({"read", "write"}) /\ ToSet(<<>>) = {}
    BY DEF ToSet
  <2>2. <<>> \notin {<<"begin">>, <<"commit">>, <<"rollback">>}
    OBVIOUS
  <2> QED
    BY <2>1, <2>2 DEF Effects
<1> HIDE DEF after
<1>4. /\ s \in {"begin", "rollback"} => Illegal(c, s)
      /\ handle' = [handle EXCEPT ![c] =
           IF undone /\ after.txn /\ s # "begin" THEN FreshHandle
           ELSE [txn |-> after.txn, dirty |-> after.dirty,
                 stuck |-> @.stuck \/ (s = "commit" /\ after.txn)]]
      /\ db' = after.db
  BY <1>1, <1>2 DEF after
<1>5. handle[c].txn \in BOOLEAN /\ handle[c].stuck \in BOOLEAN
  BY Records DEF HandleStates
<1>6. CASE undone /\ after.txn /\ s # "begin"
  <2>1. handle'[c].txn = FALSE
    BY <1>4, <1>6 DEF TypeInv, FreshHandle
  <2> QED
    BY <1>3, <1>4, <2>1
<1>7. CASE ~(undone /\ after.txn /\ s # "begin")
  <2>1. /\ handle'[c].txn = after.txn
        /\ handle'[c].stuck = (handle[c].stuck \/ (s = "commit" /\ after.txn))
    BY <1>4, <1>7 DEF TypeInv
  <2> QED
    BY <1>3, <1>4, <1>5, <2>1
<1> QED
  BY <1>6, <1>7

LEMMA ControlRuns ==
    ASSUME TypeInv, NEW c \in Conns, NEW id \in Ids,
           NEW s \in {"begin", "commit", "rollback"}, RunsAll(c, id, <<s>>)
    PROVE  /\ handle'[c].txn = (s = "begin")
           /\ db' = IF s = "commit" THEN db \cup handle[c].dirty ELSE db
<1>1. /\ handle'[c].txn = Effects(c, id, <<s>>).txn
      /\ db' = Effects(c, id, <<s>>).db
  BY DEF RunsAll, TypeInv
<1>2. /\ Effects(c, id, <<s>>).txn = (s = "begin")
      /\ Effects(c, id, <<s>>).db = IF s = "commit" THEN db \cup handle[c].dirty
                                    ELSE db
  <2>1. \A x, y : <<x>> = <<y>> => x = y
    OBVIOUS
  <2>2. CASE s = "begin"
    BY <2>2 DEF Effects
  <2>3. CASE s = "commit"
    BY <2>1, <2>3 DEF Effects
  <2>4. CASE s = "rollback"
    BY <2>1, <2>4 DEF Effects
  <2> QED
    BY <2>2, <2>3, <2>4
<1> QED
  BY <1>1, <1>2

-------------------------------------------------------------------------------
(* A transaction nobody is going to end is one whose COMMIT has failed or   *)
(* whose ROLLBACK was refused: on a free connection, and with a lessee that *)
(* has none of its own, has not got one yet, or has had the answer to its   *)
(* last call.                                                               *)
Harmless(c) == handle[c].txn => handle[c].stuck
Settled(t) ==
    \/ task[t].pc # "out" /\ ~task[t].tx
    \/ task[t].pc \in {"begin", "leaving"}
    \/ task[t].pc = "beginning" /\ task[t].port # "ok"
    \/ task[t].pc = "ending" /\ task[t].port # "none"
CleanKept(t) == Settled(t) => Harmless(task[t].conn)
CleanInv ==
    /\ \A c \in Conns : ~conn[c].inUse => Harmless(c)
    /\ \A t \in Tasks : CleanKept(t)

LEMMA CleanStays ==
    ASSUME NEW u \in Tasks, CleanKept(u), task'[u] = task[u],
           Settled(u) => handle'[task[u].conn] = handle[task[u].conn]
    PROVE  CleanKept(u)'
BY DEF CleanKept, Settled, Harmless

LEMMA CleanTask ==
    ASSUME MailInvs, CleanInv, NEW t \in Tasks, TaskStep(t)
    PROVE  CleanInv'
<1>1. TypeInv /\ (task[t].pc # "out" => task[t].conn \in Conns) /\ CleanKept(t)
  BY DEF MailInvs, MailInv, LeaseInv, CleanInv
<1>2. ASSUME UNCHANGED handle, \A u \in Tasks \ {t} : task'[u] = task[u],
             CleanKept(t)',
             \A c \in Conns : ~conn'[c].inUse => Harmless(c)
      PROVE  CleanInv'
  <2>1. \A u \in Tasks \ {t} : CleanKept(u)'
    BY <1>2, CleanStays DEF CleanInv
  <2> QED
    BY <1>2, <2>1 DEF CleanInv, Harmless
<1>3. CASE \E tx \in BOOLEAN : Lease(t, tx)
  <2>1. PICK tx \in BOOLEAN : Leases(t, tx)
    BY <1>1, <1>3, LeaseEffect
  <2>2. PICK c \in Conns : LeasesAt(t, tx, c)
    BY <2>1 DEF Leases
  <2>3. /\ ~conn[c].inUse /\ conn'[c].inUse
        /\ \A d \in Conns \ {c} : conn'[d] = conn[d]
        /\ task'[t].conn = c
    BY <2>2 DEF LeasesAt
  <2>4. UNCHANGED handle /\ \A u \in Tasks \ {t} : task'[u] = task[u]
    BY <2>1 DEF Leases
  <2>5. Harmless(c)'
    BY <2>3, <2>4 DEF CleanInv, Harmless
  <2>6. CleanKept(t)'
    BY <2>3, <2>5 DEF CleanKept, Harmless
  <2> QED
    BY <1>2, <2>3, <2>4, <2>6 DEF CleanInv
<1>4. CASE \E kind \in Kinds, stmts \in Seq(Stmts),
              then \in {"beginning", "await", "ending"} :
              Calls(t, kind, stmts, then) /\ Submit(t, kind, stmts, then)
  <2>1. PICK kind \in Kinds, stmts \in Seq(Stmts),
             then \in {"beginning", "await", "ending"} :
             Calls(t, kind, stmts, then) /\ Submit(t, kind, stmts, then)
    BY <1>4
  <2>2. task[t].pc \in {"begin", "body", "thrown"} /\ task[t].port = "none"
    BY <2>1 DEF Calls, MailInvs, MailInv, JobInv, Awaiting
  <2>3. Submits(t, kind, stmts, then)
    BY <1>1, <2>1, <2>2, SubmitEffect
  <2>4. /\ UNCHANGED handle
        /\ \A u \in Tasks \ {t} : task'[u] = task[u]
        /\ \A d \in Conns : conn'[d].inUse = conn[d].inUse
        /\ task'[t].pc = then /\ task'[t].conn = task[t].conn
        /\ task'[t].tx = task[t].tx /\ task'[t].port = "none"
    BY <2>2, <2>3 DEF Submits
  <2>5. /\ then = "beginning" => task[t].pc = "begin"
        /\ then = "ending" => task[t].tx
    BY <2>1 DEF Calls
  <2>6. CleanKept(t)'
    BY <1>1, <2>2, <2>4, <2>5 DEF CleanKept, Settled, Harmless
  <2> QED
    BY <1>2, <2>4, <2>6 DEF CleanInv
<1>5. CASE SyncStart(t)
  <2>1. StartsSync(t) /\ task[t].pc \in {"body", "await"}
    BY <1>1, <1>5, SyncStartEffect DEF SyncStart
  <2>2. PICK s \in {"read", "write"} : StartsSyncOf(t, s)
    BY <2>1 DEF StartsSync
  <2>3. /\ task'[t].pc = task[t].pc /\ task'[t].conn = task[t].conn
        /\ task'[t].tx = task[t].tx
    BY <2>2 DEF StartsSyncOf
  <2>4. /\ UNCHANGED handle
        /\ \A u \in Tasks \ {t} : task'[u] = task[u]
        /\ \A d \in Conns : conn'[d].inUse = conn[d].inUse
    BY <2>1 DEF StartsSync
  <2>5. CleanKept(t)'
    BY <1>1, <2>1, <2>3, <2>4 DEF CleanKept, Settled, Harmless
  <2> QED
    BY <1>2, <2>4, <2>5 DEF CleanInv
<1>6. CASE Receive(t)
  <2>1. /\ Receives(t) /\ task[t].pc \in {"beginning", "await", "ending"}
        /\ task[t].port # "none"
    BY <1>1, <1>6, ReceiveEffect DEF Receive, Resumes
  <2>2. /\ task'[t].pc = AfterAnswer(task[t].pc, Fine(t))
        /\ task'[t].conn = task[t].conn /\ task'[t].tx = task[t].tx
        /\ UNCHANGED handle
        /\ \A u \in Tasks \ {t} : task'[u] = task[u]
        /\ \A d \in Conns : conn'[d].inUse = conn[d].inUse
    BY <2>1 DEF Receives
  <2>3. /\ task'[t].pc \in {"body", "leaving", "thrown"}
        /\ task'[t].pc = "leaving" => \/ task[t].pc = "ending"
                                      \/ task[t].pc = "beginning" /\ ~Fine(t)
    BY <2>1, <2>2 DEF AfterAnswer
  <2>4. task[t].pc = "beginning" /\ ~Fine(t) => task[t].port # "ok"
    BY DEF Fine
  <2>5. CleanKept(t)'
    BY <1>1, <2>1, <2>2, <2>3, <2>4 DEF CleanKept, Settled, Harmless
  <2> QED
    BY <1>2, <2>2, <2>5 DEF CleanInv
<1>7. CASE Release(t)
  <2>1. /\ Releases(t) /\ task[t].pc # "out"
        /\ task[t].pc = "leaving" \/ ~task[t].tx
    BY <1>1, <1>7, ReleaseEffect DEF Release
  <2>2. /\ task'[t].pc = "out"
        /\ UNCHANGED handle
        /\ \A u \in Tasks \ {t} : task'[u] = task[u]
        /\ \A d \in Conns \ {task[t].conn} : conn'[d] = conn[d]
    BY <2>1 DEF Releases
  <2>3. Harmless(task[t].conn)
    BY <1>1, <2>1 DEF CleanKept, Settled
  <2>4. CleanKept(t)'
    BY <2>2 DEF CleanKept, Settled
  <2> QED
    BY <1>2, <2>2, <2>3, <2>4 DEF CleanInv
<1>8. CASE CallRefused(t)
  <2>1. RefusesCall(t)
    BY <1>1, <1>8, CallRefusedEffect DEF CallRefused
  <2>2. /\ task'[t].pc = "thrown" /\ task[t].pc # "out"
        /\ task'[t].conn = task[t].conn /\ task'[t].tx = task[t].tx
        /\ UNCHANGED handle
        /\ \A u \in Tasks \ {t} : task'[u] = task[u]
        /\ \A d \in Conns : conn'[d].inUse = conn[d].inUse
    BY <2>1 DEF RefusesCall
  <2>3. CleanKept(t)'
    BY <1>1, <2>2 DEF CleanKept, Settled, Harmless
  <2> QED
    BY <1>2, <2>2, <2>3 DEF CleanInv
<1>9. CASE EndRefused(t)
  <2> DEFINE c == task[t].conn
  <2>1. RefusesEnd(t) /\ task[t].pc # "out"
    BY <1>1, <1>9, EndRefusedEffect DEF EndRefused
  <2>2. /\ UNCHANGED conn /\ task'[t].conn = c
        /\ \A u \in Tasks \ {t} : task'[u] = task[u]
        /\ \A d \in Conns \ {c} : handle'[d] = handle[d]
        /\ handle'[c].txn = handle[c].txn
        /\ handle'[c].stuck = handle[c].txn
    BY <2>1 DEF RefusesEnd
  <2>3. CleanKept(t)'
    BY <2>2 DEF CleanKept, Harmless
  <2>4. ASSUME NEW u \in Tasks \ {t} PROVE CleanKept(u)'
    <3>1. Settled(u) => task[u].conn \in Conns \ {c}
      BY <2>1, Apart DEF Settled
    <3> QED
      BY <2>2, <3>1, CleanStays DEF CleanInv
  <2>5. ASSUME NEW d \in Conns, ~conn'[d].inUse PROVE Harmless(d)'
    BY <2>2, <2>5 DEF CleanInv, Harmless
  <2> QED
    BY <2>3, <2>4, <2>5 DEF CleanInv
<1> QED
  BY <1>3, <1>4, <1>5, <1>6, <1>7, <1>8, <1>9, TaskSteps

LEMMA CleanSync ==
    ASSUME MailInvs, CleanInv, Sync
    PROVE  CleanInv'
<1>1. PICK t \in Tasks :
      /\ t = pool.job.owner /\ pool.phase = "sync" /\ task[t].conn = pool.at
      /\ task[t].pc \in {"body", "await"} /\ CleanKept(t)
      /\ pool.job.stmts \in {<<"read">>, <<"write">>}
      /\ TypeInv
  BY DEF Sync, SyncReturns, SyncThrows, MailInvs, MailInv, SyncInv, CleanInv
<1> DEFINE c == pool.at
<1>2. c \in Conns /\ pool.job.id \in Ids /\ conn[c].inUse
  BY <1>1, Records DEF PoolStates, Jobs, MailInvs, MailInv, LeaseInv, Up
<1>3. pool.job.stmts \in Seq({"read", "write"}) /\ pool.job.stmts \in Seq(Stmts)
  <2>1. \A x \in {"read", "write"} : <<x>> \in Seq({"read", "write"})
                                     /\ <<x>> \in Seq(Stmts)
    BY DEF Stmts
  <2> QED
    BY <1>1, <2>1
<1>4. /\ \A u \in Tasks \ {t} : task'[u] = task[u]
      /\ \A d \in Conns : conn'[d].inUse = conn[d].inUse
      /\ task'[t].pc \in {"body", "await", "thrown"}
      /\ task'[t].conn = task[t].conn /\ task'[t].tx = task[t].tx
  <2>1. CASE SyncReturns
    <3>1. ReturnsSync
      BY <1>1, <2>1, SyncReturnsEffect
    <3> QED
      BY <1>1, <3>1 DEF ReturnsSync
  <2>2. CASE SyncThrows
    <3>1. ThrowsSync
      BY <1>1, <2>2, SyncThrowsEffect
    <3>2. /\ task'[t].pc = "thrown"
          /\ task'[t].conn = task[t].conn /\ task'[t].tx = task[t].tx
      BY <1>1, <3>1 DEF ThrowsSync
    <3>3. /\ \A u \in Tasks \ {t} : task'[u] = task[u]
          /\ \A d \in Conns : conn'[d].inUse = conn[d].inUse
      BY <1>1, <3>1 DEF ThrowsSync
    <3> QED
      BY <1>1, <3>2, <3>3
  <2> QED
    BY <2>1, <2>2 DEF Sync
<1>5. RunsAll(c, pool.job.id, pool.job.stmts) \/ RunsSome(c, pool.job.id, pool.job.stmts)
  BY DEF Sync, SyncReturns, SyncThrows
<1>6. handle'[c].txn => handle[c].txn /\ handle'[c].stuck = handle[c].stuck
  BY <1>1, <1>2, <1>3, <1>5, PlainRuns
<1>7. \A d \in Conns \ {c} : handle'[d] = handle[d]
  BY <1>1, <1>2, <1>3, <1>5, RunsBounded
<1>8. CleanKept(t)'
  <2>1. Settled(t)' => Settled(t)
    BY <1>1, <1>4 DEF Settled
  <2> QED
    BY <1>1, <1>4, <1>6, <2>1 DEF CleanKept, Harmless
<1>9. ASSUME NEW u \in Tasks \ {t} PROVE CleanKept(u)'
  <2>1. Settled(u) => task[u].conn \in Conns \ {c}
    BY <1>1, Apart DEF Settled
  <2> QED
    BY <1>4, <1>7, <2>1, CleanStays DEF CleanInv
<1>10. ASSUME NEW d \in Conns, ~conn'[d].inUse PROVE Harmless(d)'
  BY <1>2, <1>4, <1>7, <1>10 DEF CleanInv, Harmless
<1> QED
  BY <1>8, <1>9, <1>10 DEF CleanInv

(* An answer, as the rest of the system sees it.                            *)
Posts(c, t, code) ==
    LET job == conn[c].slot
    IN  /\ Awaiting(t) /\ task[t].conn = c /\ task[t].job = job
        /\ task[t].port = "none" /\ conn[c].inUse /\ job # NoJob
        /\ job.id \in Ids /\ job.stmts \in Seq(Stmts)
        /\ code = "ok" => RunsAll(c, job.id, job.stmts)
        /\ code = "aborted" => RunsSome(c, job.id, job.stmts)
        /\ UNCHANGED pool
        /\ \A d \in Conns : conn'[d].inUse = conn[d].inUse
        /\ \A d \in Conns \ {c} : conn'[d] = conn[d]
        /\ conn'[c].slot = NoJob
        /\ \A u \in Tasks \ {t} : task'[u] = task[u]
        /\ task'[t].pc = task[t].pc /\ task'[t].n = task[t].n
        /\ task'[t].conn = task[t].conn /\ task'[t].tx = task[t].tx
        /\ task'[t].job = task[t].job /\ task'[t].port = code
        /\ task'[t].wrote = task[t].wrote /\ task'[t].outcome = task[t].outcome
        /\ task'[t].mixed = task[t].mixed

(* The answer to a call left behind: nobody's.                              *)
RunsOut(c) ==
    LET job == conn[c].slot
    IN  /\ LeftBehind(c) /\ job # NoJob
        /\ job.id \in Ids /\ job.stmts \in Seq(Stmts)
        /\ RunsAll(c, job.id, job.stmts) \/ RunsSome(c, job.id, job.stmts)
        /\ UNCHANGED <<pool, task>>
        /\ \A d \in Conns : conn'[d].inUse = conn[d].inUse
        /\ \A d \in Conns \ {c} : conn'[d] = conn[d]
        /\ conn'[c].slot = NoJob

LEMMA AnswerPosts ==
    ASSUME MailInvs, NEW c \in Conns, Finish(c) \/ Abort(c)
    PROVE  \/ \E t \in Tasks, code \in {"ok", "aborted"} : Posts(c, t, code)
           \/ RunsOut(c)
<1> DEFINE job == conn[c].slot
           t == job.owner
<1>1. /\ job # NoJob /\ TypeInv
      /\ Awaited(c) \/ LeftBehind(c)
  BY DEF Finish, Abort, SlotInv, MailInvs, MailInv
<1>2. job.id \in Ids /\ job.stmts \in Seq(Stmts)
  BY <1>1, Records DEF ConnStates, Jobs
<1>3. PICK code \in {"ok", "aborted"} :
         /\ Answers(c, code)
         /\ UNCHANGED pool
         /\ \A d \in Conns \ {c} : conn'[d] = conn[d]
         /\ conn'[c].slot = NoJob /\ conn'[c].inUse = conn[c].inUse
         /\ code = "ok" => RunsAll(c, job.id, job.stmts)
         /\ code = "aborted" => RunsSome(c, job.id, job.stmts)
  <2>1. CASE Finish(c)
    <3>1. Finishes(c)
      BY <1>1, <2>1, FinishEffect
    <3>2. /\ Answers(c, "ok")
          /\ UNCHANGED pool
          /\ \A d \in Conns \ {c} : conn'[d] = conn[d]
          /\ conn'[c].slot = NoJob /\ conn'[c].inUse = conn[c].inUse
          /\ RunsAll(c, job.id, job.stmts)
      BY <3>1 DEF Finishes
    <3> QED
      BY <3>2
  <2>2. CASE Abort(c)
    <3>1. Aborts(c)
      BY <1>1, <2>2, AbortEffect
    <3>2. /\ Answers(c, "aborted")
          /\ UNCHANGED pool
          /\ \A d \in Conns \ {c} : conn'[d] = conn[d]
          /\ conn'[c].slot = NoJob /\ conn'[c].inUse = conn[c].inUse
          /\ RunsSome(c, job.id, job.stmts)
      BY <3>1 DEF Aborts
    <3> QED
      BY <3>2
  <2> QED
    BY <2>1, <2>2
<1> HIDE DEF t
<1>4. CASE Awaited(c)
  <2>1. /\ t \in Tasks /\ Awaiting(t) /\ task[t].conn = c
        /\ task[t].job = job /\ task[t].port = "none" /\ conn[c].inUse
    BY <1>4 DEF Awaited, t
  <2>2. /\ \A u \in Tasks \ {t} : task'[u] = task[u]
        /\ task'[t].pc = task[t].pc /\ task'[t].n = task[t].n
        /\ task'[t].conn = task[t].conn /\ task'[t].tx = task[t].tx
        /\ task'[t].job = task[t].job /\ task'[t].port = code
        /\ task'[t].wrote = task[t].wrote /\ task'[t].outcome = task[t].outcome
        /\ task'[t].mixed = task[t].mixed
    BY <1>3, <2>1 DEF Answers, t
  <2>3. ASSUME NEW u \in Tasks, u = t PROVE Posts(c, u, code)
    BY <1>1, <1>2, <1>3, <2>1, <2>2, <2>3 DEF Posts
  <2> QED
    BY <2>1, <2>3
<1>5. CASE LeftBehind(c)
  <2>1. job.owner \notin Tasks
    BY <1>5, NoTaskIsNoTask DEF LeftBehind
  <2>2. \A u \in Tasks : task'[u] = task[u]
    BY <1>3, <2>1 DEF Answers
  <2>3. task' = task
    BY <1>1, <1>3, <2>2 DEF Answers, TypeInv
  <2>4. RunsOut(c)
    BY <1>1, <1>2, <1>3, <1>5, <2>3 DEF RunsOut
  <2> QED
    BY <2>4
<1> QED
  BY <1>1, <1>4, <1>5

LEMMA CleanWork ==
    ASSUME MailInvs, CleanInv, NEW c \in Conns, Work(c)
    PROVE  CleanInv'
<1>1. TypeInv
  BY DEF MailInvs
<1>2. CASE Check(c)
  <2>1. Checks(c)
    BY <1>1, <1>2, CheckEffect
  <2>2. /\ UNCHANGED <<handle, task>>
        /\ \A d \in Conns : conn'[d].inUse = conn[d].inUse
    BY <2>1 DEF Checks
  <2> QED
    BY <2>2, CleanStays DEF CleanInv, Harmless
<1>3. CASE \E t \in Tasks, code \in {"ok", "aborted"} : Posts(c, t, code)
  <2>1. PICK t \in Tasks, code \in {"ok", "aborted"} : Posts(c, t, code)
    BY <1>3
  <2> DEFINE id == conn[c].slot.id
             stmts == conn[c].slot.stmts
  <2>2. /\ Awaiting(t) /\ task[t].conn = c /\ task[t].job = conn[c].slot
        /\ task[t].port = "none" /\ conn[c].inUse
        /\ id \in Ids /\ stmts \in Seq(Stmts)
        /\ \A d \in Conns : conn'[d].inUse = conn[d].inUse
        /\ \A u \in Tasks \ {t} : task'[u] = task[u]
    BY <2>1 DEF Posts
  <2>3. /\ code = "ok" => RunsAll(c, id, stmts)
        /\ code = "aborted" => RunsSome(c, id, stmts)
        /\ task'[t].pc = task[t].pc /\ task'[t].conn = task[t].conn
        /\ task'[t].tx = task[t].tx /\ task'[t].port = code
    BY <2>1 DEF Posts
  <2>4. /\ CleanKept(t)
        /\ task[t].pc = "beginning" => task[t].tx /\ stmts = <<"begin">>
        /\ task[t].pc = "await" => stmts \in Seq({"read", "write"})
        /\ task[t].pc = "ending" =>
              task[t].tx /\ stmts \in {<<"commit">>, <<"rollback">>}
    BY <2>2 DEF MailInvs, MailInv, JobInv, CleanInv
  <2> HIDE DEF id, stmts
  <2>5. \A d \in Conns \ {c} : handle'[d] = handle[d]
    BY <1>1, <2>2, <2>3, RunsBounded
  <2>6. Settled(t)' => Harmless(c)'
    <3>1. CASE task[t].pc = "await"
      <4>1. handle'[c].txn => handle[c].txn /\ handle'[c].stuck = handle[c].stuck
        BY <1>1, <2>2, <2>3, <2>4, <3>1, PlainRuns
      <4>2. Settled(t)' => Settled(t)
        BY <2>3, <3>1 DEF Settled
      <4> QED
        BY <2>2, <2>4, <4>1, <4>2 DEF CleanKept, Harmless
    <3>2. CASE task[t].pc = "beginning"
      <4>1. CASE code = "ok"
        BY <2>3, <2>4, <3>2, <4>1 DEF Settled
      <4>2. CASE code = "aborted"
        <5>1. /\ handle'[c].txn => handle[c].txn
              /\ handle'[c].txn =>
                    handle'[c].stuck = (handle[c].stuck \/ "begin" = "commit")
          BY <1>1, <2>2, <2>3, <2>4, <3>2, <4>2, ControlFails
        <5>2. Settled(t)
          BY <2>2, <3>2 DEF Settled
        <5> QED
          BY <2>2, <2>4, <5>1, <5>2 DEF CleanKept, Harmless
      <4> QED
        BY <4>1, <4>2
    <3>3. CASE task[t].pc = "ending"
      <4>1. PICK s \in {"commit", "rollback"} : stmts = <<s>>
        BY <2>4, <3>3
      <4>2. CASE code = "ok"
        <5>1. handle'[c].txn = (s = "begin")
          BY <1>1, <2>2, <2>3, <4>1, <4>2, ControlRuns
        <5> QED
          BY <4>1, <5>1 DEF Harmless
      <4>3. CASE code = "aborted"
        <5>1. /\ s = "rollback" => Illegal(c, s)
              /\ handle'[c].txn => handle[c].txn
              /\ handle'[c].txn /\ s = "commit" => handle'[c].stuck
          BY <1>1, <2>2, <2>3, <4>1, <4>3, ControlFails
        <5> QED
          BY <4>1, <5>1 DEF Harmless, Illegal
      <4> QED
        BY <4>2, <4>3
    <3> QED
      BY <2>2, <3>1, <3>2, <3>3 DEF Awaiting
  <2>7. CleanKept(t)'
    BY <2>2, <2>3, <2>4, <2>6 DEF CleanKept, Harmless
  <2>8. ASSUME NEW u \in Tasks \ {t} PROVE CleanKept(u)'
    <3>1. Settled(u) => task[u].conn \in Conns \ {c}
      BY <2>2, Apart DEF Settled, Awaiting
    <3> QED
      BY <2>2, <2>5, <3>1, CleanStays DEF CleanInv
  <2>9. ASSUME NEW d \in Conns, ~conn'[d].inUse PROVE Harmless(d)'
    BY <2>2, <2>5, <2>9 DEF CleanInv, Harmless
  <2> QED
    BY <2>7, <2>8, <2>9 DEF CleanInv
<1>4. CASE RunsOut(c)
  <2>1. /\ conn[c].slot.id \in Ids /\ conn[c].slot.stmts \in Seq(Stmts)
        /\ \/ RunsAll(c, conn[c].slot.id, conn[c].slot.stmts)
           \/ RunsSome(c, conn[c].slot.id, conn[c].slot.stmts)
        /\ UNCHANGED task
        /\ \A d \in Conns : conn'[d].inUse = conn[d].inUse
        /\ conn[c].slot.stmts \in Seq({"read", "write"})
    BY <1>4 DEF RunsOut, LeftBehind
  <2>2. /\ \A d \in Conns \ {c} : handle'[d] = handle[d]
        /\ handle'[c].txn => handle[c].txn /\ handle'[c].stuck = handle[c].stuck
    BY <1>1, <2>1, RunsBounded, PlainRuns
  <2>3. \A d \in Conns : Harmless(d) => Harmless(d)'
    BY <2>2 DEF Harmless
  <2>4. ASSUME NEW u \in Tasks PROVE CleanKept(u)'
    <3>1. Settled(u) => task[u].conn \in Conns
      BY DEF Settled, MailInvs, MailInv, LeaseInv
    <3>2. CleanKept(u) /\ (Settled(u)' => Settled(u))
      BY <2>1 DEF CleanInv, Settled
    <3>3. task'[u].conn = task[u].conn
      BY <2>1
    <3> QED
      BY <2>2, <3>1, <3>2, <3>3 DEF CleanKept, Harmless
  <2> QED
    BY <2>1, <2>3, <2>4 DEF CleanInv
<1> QED
  BY <1>2, <1>3, <1>4, AnswerPosts DEF Work

(* Polling reads nothing but last_result. *)
LEMMA CleanDrain ==
    ASSUME MailInvs, CleanInv, NEW c \in Conns, DrainBehind(c)
    PROVE  CleanInv'
<1>1. Drains(c)
  BY DrainEffect DEF MailInvs
<1>2. /\ UNCHANGED <<handle, task>>
      /\ \A d \in Conns : conn'[d].inUse = conn[d].inUse
  BY <1>1 DEF Drains
<1> QED
  BY <1>2, CleanStays DEF CleanInv, Harmless

LEMMA CleanLifecycle ==
    ASSUME MailInvs, CleanInv, Lifecycle \/ Destroy
    PROVE  CleanInv'
<1>1. UNCHANGED task
  BY LifecycleQuiet
<1>2. ASSUME NEW d \in Conns
      PROVE  /\ Harmless(d) => Harmless(d)'
             /\ ~conn'[d].inUse => ~conn[d].inUse \/ Harmless(d)'
  <2>1. CASE CreateConn \/ CreateFails \/ Destroy
    BY <2>1 DEF CreateConn, CreateFails, Destroy, Harmless
  <2>2. CASE Stop
    <3>1. Stops
      BY <2>2, StopEffect DEF MailInvs
    <3> QED
      BY <2>2, <3>1 DEF Stop, Stops, Harmless
  <2>3. CASE Join
    <3>1. Joins
      BY <2>3, JoinEffect DEF MailInvs
    <3>2. CASE d = pool.at
      BY <3>1, <3>2 DEF Joins, Harmless, FreshHandle
    <3>3. CASE d # pool.at
      BY <3>1, <3>3 DEF Joins, Harmless
    <3> QED
      BY <3>2, <3>3
  <2> QED
    BY <2>1, <2>2, <2>3 DEF Lifecycle
<1>3. ASSUME NEW u \in Tasks PROVE CleanKept(u)'
  <2>1. Settled(u) => task[u].conn \in Conns
    BY DEF Settled, MailInvs, MailInv, LeaseInv
  <2>2. CleanKept(u) /\ (Settled(u)' => Settled(u))
    BY <1>1 DEF CleanInv, Settled
  <2> QED
    BY <1>1, <1>2, <2>1, <2>2 DEF CleanKept, Harmless
<1> QED
  BY <1>2, <1>3 DEF CleanInv

LEMMA CleanStep ==
    ASSUME MailInvs, CleanInv, [Next]_vars
    PROVE  CleanInv'
<1>1. CASE UNCHANGED vars
  BY <1>1 DEF vars, CleanInv, CleanKept, Settled, Harmless
<1> QED
  BY <1>1, CleanLifecycle, CleanTask, CleanSync, CleanWork, CleanDrain
  DEF Next

(* No connection goes back with a transaction open, except one whose COMMIT *)
(* failed and left it open, or whose ROLLBACK sqlite_pool.c refused because *)
(* the body had left a statement in the slot: with_sqlite_transaction.dart  *)
(* rolls back every other, however the body, executeSync and the pool's end *)
(* interleave.                                                              *)
THEOREM ConnectionsComeBackClean == Spec => []ReturnedCleanUnlessStuck
<1>1. Init => CleanInv
  BY DEF Init, CleanInv, CleanKept, Settled, Harmless, IdleTask, FreshHandle
<1>2. CleanInv => ReturnedCleanUnlessStuck
  BY DEF CleanInv, Harmless, ReturnedCleanUnlessStuck
<1> QED
  BY <1>1, <1>2, MailInvariance, CleanStep, PTL DEF Spec

-----------------------------------------------------------------------------
(***************************************************************************)
(* What a transaction of SqliteUnitOfWork leaves in the file: the          *)
(* invariant behind TransactionIsAtomic, on top of MailInvs.  In three     *)
(* layers, each inductive relative to those before: NameInv, a statement's *)
(* name is used once and its effects stay on its task's connection;        *)
(* CallInv, a call that has not run waits in the slot or in executeSync;   *)
(* TxInv, by where a task is, what of its transaction is open, durable,    *)
(* undone or lost.                                                         *)
(***************************************************************************)

(* The name of a statement: its task gives it once, the writes of a lease   *)
(* are names of its own, and only its connection has them uncommitted, or   *)
(* waiting in its slot.                                                     *)
Known(id) == id \in db \/ \E c \in Conns : id \in handle[c].dirty
NameKept(t) ==
    /\ \A id \in task[t].wrote : id \in {t} \X (1..task[t].n)
    /\ \A k \in Nat : k > task[t].n => ~Known(<<t, k>>)
    /\ \A c \in Conns : c # task[t].conn => task[t].wrote \cap handle[c].dirty = {}
SlotNamed(c) ==
    \A t \in Tasks : conn[c].slot.id \in task[t].wrote => task[t].conn = c
NameInv == (\A t \in Tasks : NameKept(t)) /\ (\A c \in Conns : SlotNamed(c))

(* A call that has not run yet waits in the slot, or in executeSync; it is  *)
(* counted as a write if it is one.                                         *)
CallKept(t) ==
    /\ Awaiting(t) /\ task[t].port = "none" =>
          /\ Up => conn[task[t].conn].slot # NoJob
          /\ task[t].job.id \in task[t].wrote =>
                "write" \in ToSet(task[t].job.stmts)
    /\ pool.phase = "sync" /\ pool.job.owner = t /\ pool.job.id \in task[t].wrote =>
          "write" \in ToSet(pool.job.stmts)
CallInv == \A t \in Tasks : CallKept(t)

(* Nothing of t is durable; its transaction is open and holds all of it     *)
(* that has run; executeSync has come upon a transaction that is gone.      *)
Pending(t) ==
    (IF Awaiting(t) /\ task[t].port = "none" THEN {task[t].job.id} ELSE {})
    \cup (IF pool.phase = "sync" /\ pool.job.owner = t THEN {pool.job.id} ELSE {})
Live(t) == Up \/ conn[task[t].conn].slot # NoJob
Hidden(t) == task[t].wrote \cap db = {}
Held(t) == Live(t) => /\ handle[task[t].conn].txn
                      /\ task[t].wrote \ Pending(t) \subseteq handle[task[t].conn].dirty
Lost(t) == task[t].mixed /\ ~handle[task[t].conn].txn
Commits(t) == task[t].pc = "ending" /\ task[t].job.stmts = <<"commit">>
RollsBack(t) == task[t].pc = "ending" /\ task[t].job.stmts # <<"commit">>

(* Where the transaction of t stands: its flags and its outcome so far,     *)
(* and what of its writes is where.                                         *)
Plain(t) ==
    LET pc == task[t].pc
    IN  /\ pc # "out"
        /\ pc \in {"begin", "beginning"} => task[t].wrote = {}
        /\ pc \in {"begin", "beginning", "body"} \/ Commits(t) => ~task[t].mixed
        /\ pc \in {"begin", "beginning", "body", "await"} \/ Commits(t) =>
              task[t].outcome = "none"
        /\ pc = "thrown" \/ RollsBack(t) => task[t].outcome = "threw"
        /\ pc = "await" /\ task[t].port = "none" => ~task[t].mixed
MustHold(t) ==
    \/ task[t].pc = "beginning" /\ task[t].port = "ok"
    \/ task[t].pc = "body"
    \/ task[t].pc = "await" /\ task[t].port # "aborted"
    \/ Commits(t) /\ task[t].port = "none"
MustHide(t) ==
    \/ task[t].pc = "body"
    \/ task[t].pc = "await" /\ task[t].port # "aborted"
    \/ RollsBack(t) /\ task[t].port = "ok"
    \/ Commits(t) /\ task[t].port # "ok"
MayLose(t) ==
    \/ task[t].pc = "thrown"
    \/ task[t].pc = "await" /\ task[t].port = "aborted"
    \/ RollsBack(t) /\ task[t].port # "ok"
Left(t) ==
    task[t].pc = "leaving" /\ ~task[t].mixed =>
        IF task[t].outcome = "returned" THEN task[t].wrote \subseteq db
        ELSE Hidden(t)
(* A call that its own body left behind still finds the transaction open,   *)
(* and one of an earlier lessee is over before this one begins.             *)
Orphaned(c) == conn[c].slot # NoJob /\ conn[c].slot.owner = NoTask
Guarded(t) ==
    LET c == task[t].conn
    IN  Orphaned(c) => /\ task[t].pc # "body"
                       /\ conn[c].slot.id \in task[t].wrote => handle[c].txn
TxKept(t) ==
    /\ Plain(t)
    /\ Guarded(t)
    /\ MustHold(t) => Held(t)
    /\ MustHide(t) => Hidden(t)
    /\ MayLose(t) => Hidden(t) \/ Lost(t)
    /\ Commits(t) /\ task[t].port = "ok" => task[t].wrote \subseteq db
    /\ Left(t)
TxInv == \A t \in Tasks : task[t].tx => TxKept(t)

-------------------------------------------------------------------------------
(* NameInv is inductive. *)

(* A task gives one more name, or none, and nothing runs.                   *)
LEMMA NameGiven ==
    ASSUME TypeInv, NEW u \in Tasks, NameKept(u), db' \subseteq db,
           \A c \in Conns : handle'[c].dirty \subseteq handle[c].dirty,
           \/ task'[u].n = task[u].n /\ task'[u].wrote \subseteq task[u].wrote
           \/ /\ task'[u].n = task[u].n + 1
              /\ task'[u].wrote \subseteq task[u].wrote \cup {Id(u)},
           task'[u].wrote = {} \/ task'[u].conn = task[u].conn
    PROVE  NameKept(u)'
<1>1. task[u].n \in Nat
  BY Records DEF TaskStates
<1>2. ASSUME NEW k \in Nat, k > task'[u].n PROVE ~Known(<<u, k>>)'
  <2>1. ~Known(<<u, k>>)
    BY <1>1, <1>2 DEF NameKept
  <2> QED
    BY <2>1 DEF Known
<1>3. ~Known(Id(u))
  BY <1>1 DEF NameKept
<1>4. \A id \in task'[u].wrote : id \in {u} \X (1..task'[u].n)
  <2>1. ASSUME NEW id \in task[u].wrote PROVE id \in {u} \X (1..task'[u].n)
    BY <1>1 DEF NameKept
  <2>2. task'[u].n = task[u].n + 1 => Id(u) \in {u} \X (1..task'[u].n)
    BY <1>1
  <2> QED
    BY <2>1, <2>2
<1>5. ASSUME NEW c \in Conns, c # task'[u].conn
      PROVE  task'[u].wrote \cap handle'[c].dirty = {}
  BY <1>3, <1>5 DEF NameKept, Known
<1> QED
  BY <1>2, <1>4, <1>5 DEF NameKept

(* A call of t runs; it counts as a write of its lessee, or of nobody.      *)
LEMMA NameRuns ==
    ASSUME TypeInv, NEW t \in Tasks, NEW u \in Tasks, NameKept(u), NEW c \in Conns,
           NEW id \in Ids, id \in {t} \X (1..task[t].n),
           id \in task[u].wrote => task[u].conn = c,
           \A d \in Conns \ {c} : handle'[d] = handle[d],
           handle'[c].dirty \subseteq handle[c].dirty \cup {id},
           db' \subseteq db \cup {id} \cup handle[c].dirty,
           task'[u].n = task[u].n, task'[u].wrote = task[u].wrote,
           task'[u].conn = task[u].conn
    PROVE  NameKept(u)'
<1>1. ASSUME NEW k \in Nat, k > task'[u].n PROVE ~Known(<<u, k>>)'
  <2>1. ~Known(<<u, k>>)
    BY <1>1 DEF NameKept
  <2>2. <<u, k>> # id
    <3>1. task[u].n \in Nat
      BY Records DEF TaskStates
    <3> QED
      BY <1>1, <3>1
  <2> QED
    BY <2>1, <2>2 DEF Known
<1>2. ASSUME NEW d \in Conns, d # task[u].conn
      PROVE  task[u].wrote \cap handle'[d].dirty = {}
  <2>1. task[u].wrote \cap handle[d].dirty = {}
    BY <1>2 DEF NameKept
  <2>2. d = c => id \notin task[u].wrote
    BY <1>2 DEF NameKept
  <2> QED
    BY <2>1, <2>2
<1> QED
  BY <1>1, <1>2 DEF NameKept

(* A name in a slot has been given.                                         *)
LEMMA SlotGiven ==
    ASSUME MailInvs, NEW c \in Conns
    PROVE  \/ conn[c].slot = NoJob
           \/ \E t \in Tasks : conn[c].slot.id \in {t} \X (1..task[t].n)
<1>1. SlotInv(c)
  BY DEF MailInvs, MailInv
<1>2. CASE Awaited(c)
  <2>1. PICK t \in Tasks : t = conn[c].slot.owner
    BY <1>2 DEF Awaited
  <2>2. Awaiting(t) /\ task[t].job = conn[c].slot
    BY <1>2, <2>1 DEF Awaited
  <2> QED
    BY <2>2 DEF MailInvs, MailInv, JobInv
<1> QED
  BY <1>1, <1>2 DEF SlotInv, LeftBehind

(* Slots that keep their names, or are emptied.                             *)
LEMMA SlotNameKept ==
    ASSUME MailInvs, NameInv, NEW c \in Conns,
           conn'[c].slot = NoJob \/ conn'[c].slot.id = conn[c].slot.id,
           \A u \in Tasks : task'[u].wrote = task[u].wrote /\ task'[u].conn = task[u].conn
    PROVE  SlotNamed(c)'
<1>1. \A u \in Tasks : NoId \notin task[u].wrote
  BY NoTaskIsNoTask DEF NameInv, NameKept, NoId
<1> QED
  BY <1>1 DEF NameInv, SlotNamed, NoJob

(* What a task itself does to its own names: a call gives one.              *)
LEMMA TaskNames ==
    ASSUME MailInvs, NEW t \in Tasks, TaskStep(t)
    PROVE  /\ \A c \in Conns : /\ handle'[c].txn = handle[c].txn
                               /\ handle'[c].dirty = handle[c].dirty
                               /\ \/ conn'[c].slot.id = conn[c].slot.id
                                  \/ c = task'[t].conn /\ conn'[c].slot.id = Id(t)
           /\ db' \subseteq db
           /\ \A u \in Tasks \ {t} : task'[u] = task[u]
           /\ \/ task'[t].n = task[t].n /\ task'[t].wrote \subseteq task[t].wrote
              \/ /\ task'[t].n = task[t].n + 1
                 /\ task'[t].wrote \subseteq task[t].wrote \cup {Id(t)}
           /\ task'[t].wrote = {} \/ task'[t].conn = task[t].conn
<1>1. TypeInv /\ (task[t].pc # "out" => task[t].conn \in Conns)
  BY DEF MailInvs, MailInv, LeaseInv
<1>2. CASE \E tx \in BOOLEAN : Lease(t, tx)
  <2>1. PICK tx \in BOOLEAN : Leases(t, tx)
    BY <1>1, <1>2, LeaseEffect
  <2>2. /\ task'[t].n = task[t].n /\ task'[t].wrote = {}
        /\ \A c \in Conns : conn'[c].slot = conn[c].slot
    BY <2>1 DEF Leases, LeasesAt
  <2> QED
    BY <2>1, <2>2 DEF Leases
<1>3. CASE \E kind \in Kinds, stmts \in Seq(Stmts),
              then \in {"beginning", "await", "ending"} :
              Calls(t, kind, stmts, then) /\ Submit(t, kind, stmts, then)
  <2>1. PICK kind \in Kinds, stmts \in Seq(Stmts),
             then \in {"beginning", "await", "ending"} :
             Calls(t, kind, stmts, then) /\ Submit(t, kind, stmts, then)
    BY <1>3
  <2>2. Submits(t, kind, stmts, then)
    BY <1>1, <2>1, SubmitEffect DEF Calls
  <2>3. /\ UNCHANGED <<handle, db>> /\ \A u \in Tasks \ {t} : task'[u] = task[u]
        /\ \A c \in Conns \ {task[t].conn} : conn'[c] = conn[c]
        /\ conn'[task[t].conn].slot.id = Id(t) /\ task'[t].conn = task[t].conn
        /\ task'[t].n = task[t].n + 1
        /\ task'[t].wrote \subseteq task[t].wrote \cup {Id(t)}
    BY <2>2 DEF Submits
  <2> QED
    BY <2>3
<1>4. CASE SyncStart(t)
  <2>1. StartsSync(t)
    BY <1>1, <1>4, SyncStartEffect DEF SyncStart
  <2>2. PICK s \in {"read", "write"} : StartsSyncOf(t, s)
    BY <2>1 DEF StartsSync
  <2>3. /\ task'[t].n = task[t].n + 1 /\ task'[t].conn = task[t].conn
        /\ task'[t].wrote \subseteq task[t].wrote \cup {Id(t)}
    BY <2>2 DEF StartsSyncOf
  <2> QED
    BY <2>1, <2>3 DEF StartsSync
<1>5. CASE Receive(t)
  <2>1. Receives(t)
    BY <1>1, <1>5, ReceiveEffect DEF Receive, Resumes
  <2> QED
    BY <2>1 DEF Receives
<1>6. CASE Release(t)
  <2>1. Releases(t)
    BY <1>1, <1>6, ReleaseEffect DEF Release
  <2> QED
    BY <2>1 DEF Releases
<1>7. CASE CallRefused(t)
  <2>1. RefusesCall(t)
    BY <1>1, <1>7, CallRefusedEffect DEF CallRefused
  <2>2. /\ UNCHANGED <<handle, db>> /\ \A u \in Tasks \ {t} : task'[u] = task[u]
        /\ \A c \in Conns \ {task[t].conn} : conn'[c] = conn[c]
        /\ conn'[task[t].conn].slot.id = conn[task[t].conn].slot.id
        /\ task'[t].conn = task[t].conn /\ task'[t].n = task[t].n
        /\ task'[t].wrote = task[t].wrote
    BY <2>1 DEF RefusesCall, Orphan
  <2> QED
    BY <2>2
<1>8. CASE EndRefused(t)
  <2>1. RefusesEnd(t)
    BY <1>1, <1>8, EndRefusedEffect DEF EndRefused
  <2>2. \A c \in Conns : /\ handle'[c].txn = handle[c].txn
                         /\ handle'[c].dirty = handle[c].dirty
    BY <2>1 DEF RefusesEnd
  <2> QED
    BY <2>1, <2>2 DEF RefusesEnd
<1> QED
  BY <1>2, <1>3, <1>4, <1>5, <1>6, <1>7, <1>8, TaskSteps

(* executeSync, once it is over, has run a statement of its task.           *)
SyncRuns(t, c, id, stmts) ==
    /\ pool.phase = "sync" /\ t = pool.job.owner /\ c = pool.at
    /\ id = pool.job.id /\ stmts = pool.job.stmts
    /\ task[t].conn = c /\ task[t].pc \in {"body", "await"}
    /\ task[t].pc = "await" => task[t].mixed
    /\ id \in {t} \X (1..task[t].n) /\ stmts \in Seq({"read", "write"})
    /\ conn[c].slot = NoJob
    /\ pool'.phase = "open"
    /\ \A d \in Conns : conn'[d].slot = conn[d].slot
    /\ \A u \in Tasks \ {t} : task'[u] = task[u]
    /\ task'[t].n = task[t].n /\ task'[t].conn = task[t].conn
    /\ task'[t].tx = task[t].tx /\ task'[t].wrote = task[t].wrote
    /\ task'[t].mixed = task[t].mixed
    /\ \/ RunsAll(c, id, stmts) /\ task'[t] = task[t]
       \/ /\ RunsSome(c, id, stmts)
          /\ task'[t].pc = "thrown" /\ task'[t].outcome = "threw"
          /\ task'[t].port = "none"

LEMMA SyncSteps ==
    ASSUME MailInvs, Sync
    PROVE  \E t \in Tasks, c \in Conns, id \in Ids, stmts \in Seq(Stmts) :
              SyncRuns(t, c, id, stmts)
<1>1. PICK t \in Tasks :
      /\ t = pool.job.owner /\ pool.phase = "sync" /\ task[t].conn = pool.at
      /\ conn[pool.at].slot = NoJob
      /\ task[t].pc \in {"body", "await"}
      /\ task[t].pc = "await" => task[t].mixed
      /\ pool.job.id \in {t} \X (1..task[t].n)
      /\ pool.job.stmts \in {<<"read">>, <<"write">>}
      /\ TypeInv
  BY DEF Sync, SyncReturns, SyncThrows, MailInvs, MailInv, SyncInv
<1> DEFINE c == pool.at
           id == pool.job.id
           stmts == pool.job.stmts
<1>2. c \in Conns /\ id \in Ids /\ pool.job \in Jobs
  BY <1>1, Records DEF PoolStates, Jobs
<1>3. stmts \in Seq({"read", "write"}) /\ stmts \in Seq(Stmts)
  <2>1. \A x \in {"read", "write"} : <<x>> \in Seq({"read", "write"})
                                     /\ <<x>> \in Seq(Stmts)
    BY DEF Stmts
  <2> QED
    BY <1>1, <2>1
<1>4. pool'.phase = "open"
  BY Records DEF Sync, SyncReturns, SyncThrows, PoolStates, MailInvs
<1>5. CASE SyncReturns
  <2>1. ReturnsSync
    BY <1>1, <1>5, SyncReturnsEffect
  <2>2. /\ \A d \in Conns : conn'[d].slot = conn[d].slot
        /\ UNCHANGED task /\ RunsAll(c, id, stmts)
    BY <2>1 DEF ReturnsSync
  <2> HIDE DEF c, id, stmts
  <2>3. SyncRuns(t, c, id, stmts)
    BY <1>1, <1>3, <1>4, <2>2 DEF SyncRuns, c, id, stmts
  <2> QED
    BY <1>2, <1>3, <2>3
<1>6. CASE SyncThrows
  <2>1. ThrowsSync
    BY <1>1, <1>6, SyncThrowsEffect
  <2>2. /\ \A d \in Conns : conn'[d].slot = conn[d].slot
        /\ \A u \in Tasks \ {t} : task'[u] = task[u]
        /\ RunsSome(c, id, stmts)
    BY <1>1, <2>1 DEF ThrowsSync
  <2>3. /\ task'[t].n = task[t].n /\ task'[t].conn = task[t].conn
        /\ task'[t].tx = task[t].tx /\ task'[t].wrote = task[t].wrote
        /\ task'[t].mixed = task[t].mixed /\ task'[t].port = "none"
        /\ task'[t].pc = "thrown" /\ task'[t].outcome = "threw"
    BY <1>1, <2>1 DEF ThrowsSync
  <2> HIDE DEF c, id, stmts
  <2>4. SyncRuns(t, c, id, stmts)
    BY <1>1, <1>3, <1>4, <2>2, <2>3 DEF SyncRuns, c, id, stmts
  <2> QED
    BY <1>2, <1>3, <2>4
<1> QED
  BY <1>5, <1>6 DEF Sync

LEMMA NameStep ==
    ASSUME MailInvs, NameInv, [Next]_vars
    PROVE  NameInv'
<1>1. TypeInv
  BY DEF MailInvs
<1>2. CASE UNCHANGED vars
  BY <1>2 DEF vars, NameInv, NameKept, Known, SlotNamed
<1>3. CASE Lifecycle \/ Destroy
  <2>1. UNCHANGED <<db, task>>
    BY <1>3, LifecycleQuiet
  <2>2. \A c \in Conns : handle'[c].dirty \subseteq handle[c].dirty
    <3>1. CASE Join
      BY <1>1, <3>1, JoinEffect DEF Joins, FreshHandle
    <3>2. CASE ~Join
      BY <1>3, <3>2 DEF Lifecycle, CreateConn, CreateFails, Destroy, Stop
    <3> QED
      BY <3>1, <3>2
  <2>3. \A c \in Conns : conn'[c].slot = NoJob \/ conn'[c].slot.id = conn[c].slot.id
    <3>1. CASE Join
      BY <1>1, <3>1, JoinEffect DEF Joins
    <3>2. CASE Stop
      BY <1>1, <3>2, StopEffect DEF Stops
    <3>3. CASE ~Join /\ ~Stop
      BY <1>3, <3>3 DEF Lifecycle, CreateConn, CreateFails, Destroy
    <3> QED
      BY <3>1, <3>2, <3>3
  <2>4. \A c \in Conns : SlotNamed(c)'
    BY <2>1, <2>3, SlotNameKept
  <2>5. \A t \in Tasks : NameKept(t)'
    BY <1>1, <2>1, <2>2, NameGiven DEF NameInv
  <2> QED
    BY <2>4, <2>5 DEF NameInv
<1>4. CASE Sync
  <2>1. PICK t \in Tasks, c \in Conns, id \in Ids, stmts \in Seq(Stmts) :
           SyncRuns(t, c, id, stmts)
    BY <1>4, SyncSteps
  <2>2. /\ task[t].conn = c /\ id \in {t} \X (1..task[t].n)
        /\ RunsAll(c, id, stmts) \/ RunsSome(c, id, stmts)
        /\ \A u \in Tasks : /\ task'[u].n = task[u].n
                            /\ task'[u].wrote = task[u].wrote
                            /\ task'[u].conn = task[u].conn
        /\ \A d \in Conns : conn'[d].slot = conn[d].slot
    BY <2>1 DEF SyncRuns
  <2>3. \A u \in Tasks : NameKept(u) /\ (id \in task[u].wrote => task[u].conn = c)
    BY <2>2 DEF NameInv, NameKept
  <2>4. \A u \in Tasks : NameKept(u)'
    BY <1>1, <2>2, <2>3, RunsBounded, NameRuns
  <2>5. \A d \in Conns : SlotNamed(d)'
    BY <2>2, SlotNameKept
  <2> QED
    BY <2>4, <2>5 DEF NameInv
<1>5. ASSUME NEW t \in Tasks, TaskStep(t) PROVE NameInv'
  <2>1. /\ \A c \in Conns :
              /\ handle'[c].dirty = handle[c].dirty
              /\ \/ conn'[c].slot.id = conn[c].slot.id
                 \/ c = task'[t].conn /\ conn'[c].slot.id = Id(t)
        /\ db' \subseteq db
        /\ \A u \in Tasks \ {t} : task'[u] = task[u]
        /\ \/ task'[t].n = task[t].n /\ task'[t].wrote \subseteq task[t].wrote
           \/ /\ task'[t].n = task[t].n + 1
              /\ task'[t].wrote \subseteq task[t].wrote \cup {Id(t)}
        /\ task'[t].wrote = {} \/ task'[t].conn = task[t].conn
    BY <1>5, TaskNames
  <2>2. NameKept(t)'
    BY <1>1, <2>1, NameGiven DEF NameInv
  <2>3. ASSUME NEW u \in Tasks \ {t} PROVE NameKept(u)'
    BY <1>1, <2>1, NameGiven DEF NameInv
  <2>4. ASSUME NEW c \in Conns PROVE SlotNamed(c)'
    <3>1. Id(t) # conn[c].slot.id
      <4>1. task[t].n \in Nat /\ t # NoTask
        BY <1>1, NoTaskIsNoTask, Records DEF TaskStates
      <4>2. CASE conn[c].slot = NoJob
        BY <4>1, <4>2 DEF NoJob, NoId
      <4>3. ASSUME NEW u \in Tasks, conn[c].slot.id \in {u} \X (1..task[u].n)
            PROVE  Id(t) # conn[c].slot.id
        BY <4>1, <4>3
      <4> QED
        BY <4>2, <4>3, SlotGiven
    <3>2. \A u \in Tasks \ {t} : Id(t) \notin task[u].wrote
      BY DEF NameInv, NameKept
    <3>3. SlotNamed(c)
      BY DEF NameInv
    <3>4. CASE conn'[c].slot.id = conn[c].slot.id
      <4>1. ASSUME NEW u \in Tasks, conn[c].slot.id \in task'[u].wrote
            PROVE  task'[u].conn = c
        <5>1. CASE u = t
          BY <2>1, <3>1, <3>3, <4>1, <5>1 DEF SlotNamed
        <5>2. CASE u # t
          BY <2>1, <3>3, <4>1, <5>2 DEF SlotNamed
        <5> QED
          BY <5>1, <5>2
      <4> QED
        BY <3>4, <4>1 DEF SlotNamed
    <3>5. CASE c = task'[t].conn /\ conn'[c].slot.id = Id(t)
      BY <2>1, <3>2, <3>5 DEF SlotNamed
    <3> QED
      BY <2>1, <3>4, <3>5
  <2> QED
    BY <2>2, <2>3, <2>4 DEF NameInv
<1>6. ASSUME NEW c \in Conns, Work(c) PROVE NameInv'
  <2>1. CASE Check(c)
    <3>0. Checks(c)
      BY <1>1, <2>1, CheckEffect
    <3>1. UNCHANGED <<handle, db, task>> /\ \A d \in Conns : conn'[d].slot = conn[d].slot
      BY <3>0 DEF Checks
    <3>2. \A u \in Tasks : NameKept(u)'
      BY <1>1, <3>1, NameGiven DEF NameInv
    <3> QED
      BY <3>1, <3>2, SlotNameKept DEF NameInv
  <2>2. CASE Finish(c) \/ Abort(c)
    <3> DEFINE id == conn[c].slot.id
               stmts == conn[c].slot.stmts
    <3>1. /\ conn[c].slot # NoJob /\ id \in Ids /\ stmts \in Seq(Stmts)
          /\ RunsAll(c, id, stmts) \/ RunsSome(c, id, stmts)
          /\ \A u \in Tasks : /\ task'[u].n = task[u].n
                              /\ task'[u].wrote = task[u].wrote
                              /\ task'[u].conn = task[u].conn
          /\ conn'[c].slot = NoJob /\ \A d \in Conns \ {c} : conn'[d] = conn[d]
      <4>1. CASE RunsOut(c)
        BY <4>1 DEF RunsOut
      <4>2. CASE \E t \in Tasks, code \in {"ok", "aborted"} : Posts(c, t, code)
        <5>1. PICK t \in Tasks, code \in {"ok", "aborted"} : Posts(c, t, code)
          BY <4>2
        <5> QED
          BY <5>1 DEF Posts
      <4> QED
        BY <2>2, <4>1, <4>2, AnswerPosts
    <3>2. PICK t \in Tasks : id \in {t} \X (1..task[t].n)
      BY <3>1, SlotGiven
    <3>3. \A u \in Tasks : NameKept(u) /\ (id \in task[u].wrote => task[u].conn = c)
      BY DEF NameInv, SlotNamed
    <3> HIDE DEF id, stmts
    <3>4. \A u \in Tasks : NameKept(u)'
      BY <1>1, <3>1, <3>2, <3>3, RunsBounded, NameRuns
    <3>5. \A d \in Conns : SlotNamed(d)'
      BY <3>1, SlotNameKept
    <3> QED
      BY <3>4, <3>5 DEF NameInv
  <2> QED
    BY <1>6, <2>1, <2>2 DEF Work
<1>7. ASSUME NEW c \in Conns, DrainBehind(c) PROVE NameInv'
  <2>0. Drains(c)
    BY <1>1, <1>7, DrainEffect
  <2>1. /\ UNCHANGED <<handle, db, task>>
        /\ \A d \in Conns : conn'[d].slot = conn[d].slot
    BY <2>0 DEF Drains
  <2>2. \A u \in Tasks : NameKept(u)'
    BY <1>1, <2>1, NameGiven DEF NameInv
  <2> QED
    BY <2>1, <2>2, SlotNameKept DEF NameInv
<1> QED
  BY <1>2, <1>3, <1>4, <1>5, <1>6, <1>7 DEF Next

-------------------------------------------------------------------------------
(* CallInv is inductive. *)

(* The calls of a task that stands still, while its slot does.              *)
LEMMA CallStays ==
    ASSUME NEW u \in Tasks, CallKept(u), task'[u] = task[u],
           Awaiting(u) /\ Up' =>
               Up /\ conn'[task[u].conn].slot = conn[task[u].conn].slot,
           pool'.phase = "sync" /\ pool'.job.owner = u =>
               UNCHANGED pool
    PROVE  CallKept(u)'
BY DEF CallKept, Awaiting

LEMMA CallTask ==
    ASSUME MailInvs, NameInv, CallInv, NEW t \in Tasks, TaskStep(t)
    PROVE  CallInv'
<1>1. /\ TypeInv /\ (task[t].pc # "out" => task[t].conn \in Conns)
      /\ CallKept(t) /\ NameKept(t)
      /\ pool.phase = "open" /\ task[t].n \in Nat
  BY Records DEF MailInvs, MailInv, LeaseInv, CallInv, NameInv, TaskStates, TaskStep,
     Lease, Begin, Execute, ExecuteBatch, ExecuteMultiRead, End, Submit, SyncStart,
     Receive, Release, CallRefused, EndRefused
<1>2. Id(t) \notin task[t].wrote
  BY <1>1 DEF NameKept
<1>3. ASSUME UNCHANGED pool \/ (pool'.phase = "sync" /\ pool'.job.owner = t),
             \A u \in Tasks \ {t} : task'[u] = task[u],
             \A d \in Conns : d = task[t].conn \/ conn'[d].slot = conn[d].slot,
             task[t].pc # "out" \/ \A d \in Conns : conn'[d].slot = conn[d].slot,
             CallKept(t)'
      PROVE  CallInv'
  <2>1. ASSUME NEW u \in Tasks \ {t} PROVE CallKept(u)'
    <3>1. Awaiting(u) => /\ task[u].conn \in Conns
                         /\ conn'[task[u].conn].slot = conn[task[u].conn].slot
      BY <1>3, Apart DEF Awaiting, MailInvs, MailInv, LeaseInv
    <3> QED
      BY <1>1, <1>3, <3>1, CallStays DEF CallInv, Up
  <2> QED
    BY <1>3, <2>1 DEF CallInv
<1>4. CASE \E tx \in BOOLEAN : Lease(t, tx)
  <2>1. PICK tx \in BOOLEAN : Leases(t, tx)
    BY <1>1, <1>4, LeaseEffect
  <2>2. /\ task'[t].pc \in {"begin", "body"}
        /\ \A d \in Conns : conn'[d].slot = conn[d].slot
    BY <2>1 DEF Leases, LeasesAt
  <2>3. UNCHANGED pool /\ \A u \in Tasks \ {t} : task'[u] = task[u]
    BY <2>1 DEF Leases
  <2>4. CallKept(t)'
    BY <1>1, <2>2, <2>3 DEF CallKept, Awaiting
  <2> QED
    BY <1>3, <2>2, <2>3, <2>4
<1>5. CASE \E kind \in Kinds, stmts \in Seq(Stmts),
              then \in {"beginning", "await", "ending"} :
              Calls(t, kind, stmts, then) /\ Submit(t, kind, stmts, then)
  <2>1. PICK kind \in Kinds, stmts \in Seq(Stmts),
             then \in {"beginning", "await", "ending"} :
             Calls(t, kind, stmts, then) /\ Submit(t, kind, stmts, then)
    BY <1>5
  <2> DEFINE j == [id |-> Id(t), owner |-> t, stmts |-> stmts]
  <2>2. task[t].pc # "out" /\ Submits(t, kind, stmts, then)
    BY <1>1, <2>1, SubmitEffect DEF Calls
  <2>3. /\ UNCHANGED pool /\ \A u \in Tasks \ {t} : task'[u] = task[u]
        /\ \A d \in Conns \ {task[t].conn} : conn'[d] = conn[d]
        /\ conn'[task[t].conn].slot = j /\ task'[t].conn = task[t].conn
        /\ task'[t].job = j /\ task'[t].wrote = Wrote(t, stmts)
    BY <2>2 DEF Submits
  <2>4. j # NoJob
    BY NoTaskIsNoTask DEF NoJob
  <2>5. Id(t) \in task'[t].wrote => "write" \in ToSet(stmts)
    BY <1>2, <2>3
  <2>6. CallKept(t)'
    BY <1>1, <2>3, <2>4, <2>5 DEF CallKept
  <2> QED
    BY <1>3, <2>2, <2>3, <2>6
<1>6. CASE SyncStart(t)
  <2>1. StartsSync(t) /\ task[t].pc \in {"body", "await"}
    BY <1>1, <1>6, SyncStartEffect DEF SyncStart
  <2>2. PICK s \in {"read", "write"} : StartsSyncOf(t, s)
    BY <2>1 DEF StartsSync
  <2> DEFINE j == [id |-> Id(t), owner |-> t, stmts |-> <<s>>]
  <2>3. /\ conn[task[t].conn].slot = NoJob
        /\ \A u \in Tasks \ {t} : task'[u] = task[u]
        /\ \A d \in Conns : conn'[d].slot = conn[d].slot
    BY <2>1 DEF StartsSync
  <2>4. ~(Awaiting(t) /\ task[t].port = "none")
    BY <1>1, <2>3 DEF CallKept, Up
  <2>5. /\ task'[t].pc = task[t].pc /\ task'[t].port = task[t].port
        /\ task'[t].wrote = Wrote(t, <<s>>)
    BY <2>2 DEF StartsSyncOf
  <2>6. pool'.phase = "sync" /\ pool'.job = j
    BY <2>2, Records DEF StartsSyncOf, MailInvs, PoolStates
  <2>7. Id(t) \in task'[t].wrote => "write" \in ToSet(<<s>>)
    BY <1>2, <2>5
  <2>8. CallKept(t)'
    BY <2>4, <2>5, <2>6, <2>7 DEF CallKept, Awaiting
  <2> QED
    BY <1>3, <2>3, <2>6, <2>8
<1>7. CASE Receive(t)
  <2>1. Receives(t) /\ task[t].pc # "out"
    BY <1>1, <1>7, ReceiveEffect DEF Receive, Resumes
  <2>2. /\ UNCHANGED pool /\ \A u \in Tasks \ {t} : task'[u] = task[u]
        /\ \A d \in Conns : conn'[d].slot = conn[d].slot
        /\ task'[t].pc = AfterAnswer(task[t].pc, Fine(t))
    BY <2>1 DEF Receives
  <2>3. CallKept(t)'
    BY <1>1, <2>2 DEF CallKept, Awaiting, AfterAnswer
  <2> QED
    BY <1>3, <2>2, <2>3
<1>8. CASE Release(t)
  <2>1. Releases(t)
    BY <1>1, <1>8, ReleaseEffect DEF Release
  <2>2. /\ UNCHANGED pool /\ \A u \in Tasks \ {t} : task'[u] = task[u]
        /\ \A d \in Conns : conn'[d].slot = conn[d].slot
        /\ task'[t].pc = "out"
    BY <2>1 DEF Releases
  <2>3. CallKept(t)'
    BY <1>1, <2>2 DEF CallKept, Awaiting
  <2> QED
    BY <1>3, <2>2, <2>3
<1>9. CASE CallRefused(t) \/ EndRefused(t)
  <2>1. RefusesCall(t) \/ RefusesEnd(t)
    BY <1>1, <1>9, CallRefusedEffect, EndRefusedEffect DEF CallRefused, EndRefused
  <2>2. /\ UNCHANGED pool /\ \A u \in Tasks \ {t} : task'[u] = task[u]
        /\ \A d \in Conns \ {task[t].conn} : conn'[d] = conn[d]
        /\ task'[t].pc \in {"thrown", "leaving"} /\ task[t].pc # "out"
    BY <2>1 DEF RefusesCall, RefusesEnd
  <2>3. CallKept(t)'
    BY <1>1, <2>2 DEF CallKept, Awaiting
  <2> QED
    BY <1>3, <2>2, <2>3
<1> QED
  BY <1>4, <1>5, <1>6, <1>7, <1>8, <1>9, TaskSteps

LEMMA LifecycleLeavesSync ==
    ASSUME MailInvs, Lifecycle \/ Destroy
    PROVE  pool'.phase # "sync"
BY Records DEF MailInvs, PoolStates, Lifecycle, Destroy, CreateConn, CreateFails, Stop,
   Join, Goto

LEMMA CallStep ==
    ASSUME MailInvs, NameInv, CallInv, [Next]_vars
    PROVE  CallInv'
<1>1. CASE UNCHANGED vars
  BY <1>1 DEF vars, CallInv, CallKept, Awaiting, Up
<1>2. CASE Lifecycle \/ Destroy
  <2>1. UNCHANGED <<db, task>> /\ (Up' => Up /\ UNCHANGED <<conn, handle>>)
    BY <1>2, LifecycleQuiet
  <2>2. pool'.phase # "sync"
    BY <1>2, LifecycleLeavesSync
  <2> QED
    BY <2>1, <2>2, CallStays DEF CallInv
<1>3. CASE Sync
  <2>1. PICK t \in Tasks, c \in Conns, id \in Ids, stmts \in Seq(Stmts) :
           SyncRuns(t, c, id, stmts)
    BY <1>3, SyncSteps
  <2>2. /\ pool.phase = "sync" /\ pool'.phase = "open"
        /\ \A d \in Conns : conn'[d].slot = conn[d].slot
        /\ \A u \in Tasks \ {t} : task'[u] = task[u]
        /\ task[t].conn = c /\ task'[t].conn = c
        /\ task'[t] = task[t] \/ task'[t].pc = "thrown"
    BY <2>1 DEF SyncRuns
  <2>3. CallKept(t)'
    BY <2>2 DEF CallInv, CallKept, Awaiting, Up
  <2>4. ASSUME NEW u \in Tasks \ {t} PROVE CallKept(u)'
    <3>1. Awaiting(u) => task[u].conn \in Conns
      BY DEF Awaiting, MailInvs, MailInv, LeaseInv
    <3> QED
      BY <2>2, <3>1, CallStays DEF CallInv, Up
  <2> QED
    BY <2>3, <2>4 DEF CallInv
<1>4. ASSUME NEW c \in Conns, Work(c) PROVE CallInv'
  <2>1. CASE Check(c)
    <3>1. Checks(c)
      BY <2>1, CheckEffect DEF MailInvs
    <3>2. /\ UNCHANGED <<pool, task>>
          /\ \A d \in Conns : conn'[d].slot = conn[d].slot
      BY <3>1 DEF Checks
    <3>3. ASSUME NEW u \in Tasks PROVE CallKept(u)'
      <4>1. Awaiting(u) => task[u].conn \in Conns
        BY DEF Awaiting, MailInvs, MailInv, LeaseInv
      <4> QED
        BY <3>2, <4>1, CallStays DEF CallInv, Up
    <3> QED
      BY <3>3 DEF CallInv
  <2>2. CASE Finish(c) \/ Abort(c)
    <3>1. CASE RunsOut(c)
      <4>1. /\ UNCHANGED <<pool, task>>
            /\ \A d \in Conns \ {c} : conn'[d] = conn[d]
            /\ \A u \in Tasks : task[u].conn = c => ~Awaiting(u)
        BY <3>1 DEF RunsOut, LeftBehind
      <4>2. ASSUME NEW u \in Tasks PROVE CallKept(u)'
        <5>1. Awaiting(u) => conn'[task[u].conn] = conn[task[u].conn]
          BY <4>1 DEF Awaiting, MailInvs, MailInv, LeaseInv
        <5> QED
          BY <4>1, <5>1, CallStays DEF CallInv, Up
      <4> QED
        BY <4>2 DEF CallInv
    <3>2. ASSUME NEW t \in Tasks, NEW code \in {"ok", "aborted"}, Posts(c, t, code)
          PROVE  CallInv'
      <4>2. /\ UNCHANGED pool /\ task[t].conn = c /\ Awaiting(t)
            /\ \A d \in Conns \ {c} : conn'[d] = conn[d]
            /\ \A u \in Tasks \ {t} : task'[u] = task[u]
            /\ task'[t].port = code /\ task'[t].wrote = task[t].wrote
        BY <3>2 DEF Posts
      <4>3. CallKept(t)'
        BY <4>2 DEF CallInv, CallKept
      <4>4. ASSUME NEW u \in Tasks \ {t} PROVE CallKept(u)'
        <5>1. Awaiting(u) => conn'[task[u].conn] = conn[task[u].conn]
          BY <4>2, Apart DEF Awaiting
        <5> QED
          BY <4>2, <5>1, CallStays DEF CallInv, Up
      <4> QED
        BY <4>3, <4>4 DEF CallInv
    <3> QED
      BY <2>2, <3>1, <3>2, AnswerPosts
  <2> QED
    BY <1>4, <2>1, <2>2 DEF Work
<1>5. ASSUME NEW c \in Conns, DrainBehind(c) PROVE CallInv'
  <2>1. Drains(c)
    BY <1>5, DrainEffect DEF MailInvs
  <2>2. /\ UNCHANGED <<pool, task>>
        /\ \A d \in Conns : conn'[d].slot = conn[d].slot
    BY <2>1 DEF Drains
  <2>3. ASSUME NEW u \in Tasks PROVE CallKept(u)'
    <3>1. Awaiting(u) => task[u].conn \in Conns
      BY DEF Awaiting, MailInvs, MailInv, LeaseInv
    <3> QED
      BY <2>2, <3>1, CallStays DEF CallInv, Up
  <2> QED
    BY <2>3 DEF CallInv
<1> QED
  BY <1>1, <1>2, <1>3, <1>4, <1>5, CallTask DEF Next

-------------------------------------------------------------------------------
(* TxInv is inductive. *)

(* The transaction of a task that stands still: its handle does too while   *)
(* it matters, and what others make durable or withdraw is not its own.     *)
LEMMA TxStays ==
    ASSUME NEW u \in Tasks, TxKept(u), task'[u] = task[u],
           conn'[task[u].conn].slot \in {conn[task[u].conn].slot, NoJob},
           Live(u)' => /\ Live(u)
                       /\ handle'[task[u].conn].txn = handle[task[u].conn].txn
                       /\ handle'[task[u].conn].dirty = handle[task[u].conn].dirty,
           handle'[task[u].conn].txn => handle[task[u].conn].txn,
           task[u].wrote \cap db' = task[u].wrote \cap db,
           Pending(u) \subseteq Pending(u)'
    PROVE  TxKept(u)'
<1>1. Plain(u)'
  BY DEF TxKept, Plain, Commits, RollsBack
<1>2. /\ Held(u) => Held(u)'
      /\ Hidden(u) => Hidden(u)'
      /\ Lost(u) => Lost(u)'
      /\ task[u].wrote \subseteq db => task[u].wrote \subseteq db'
  <2>1. Held(u) => Held(u)'
    BY DEF Held
  <2>2. (Hidden(u) => Hidden(u)') /\ (Lost(u) => Lost(u)')
    BY DEF Hidden, Lost
  <2> QED
    BY <2>1, <2>2
<1>3. /\ MustHold(u)' = MustHold(u) /\ MustHide(u)' = MustHide(u)
      /\ MayLose(u)' = MayLose(u)
      /\ (Commits(u) /\ task[u].port = "ok")' = (Commits(u) /\ task[u].port = "ok")
  BY DEF MustHold, MustHide, MayLose, Commits, RollsBack
<1>4. Left(u)'
  BY <1>2 DEF TxKept, Left
<1>5. Guarded(u)'
  BY DEF TxKept, Guarded, Orphaned, Live
<1> QED
  BY <1>1, <1>2, <1>3, <1>4, <1>5 DEF TxKept

(* The others, while t does something on its own connection.                *)
LEMMA OthersTx ==
    ASSUME MailInvs, NameInv, TxInv, NEW t \in Tasks,
           \A u \in Tasks \ {t} : task'[u] = task[u],
           task[t].pc # "out" => \A d \in Conns \ {task[t].conn} :
               handle'[d] = handle[d] /\ conn'[d].slot = conn[d].slot,
           task[t].pc = "out" => UNCHANGED handle
               /\ \A d \in Conns : conn'[d].slot = conn[d].slot,
           Up' => Up, \A u \in Tasks \ {t} : Pending(u) \subseteq Pending(u)',
           \A u \in Tasks \ {t} : task[u].tx /\ task[u].pc # "out" =>
               task[u].wrote \cap db' = task[u].wrote \cap db,
           task'[t].tx => TxKept(t)'
    PROVE  TxInv'
<1>1. ASSUME NEW u \in Tasks \ {t}, task[u].tx PROVE TxKept(u)'
  <2>1. TxKept(u) /\ task[u].pc # "out"
    BY <1>1 DEF TxInv, TxKept, Plain
  <2>2. /\ task[u].conn \in Conns
        /\ handle'[task[u].conn] = handle[task[u].conn]
        /\ conn'[task[u].conn].slot = conn[task[u].conn].slot
    BY <2>1, Apart DEF MailInvs, MailInv, LeaseInv
  <2>3. Live(u)' => Live(u)
    BY <1>1, <2>2 DEF Live
  <2> QED
    BY <1>1, <2>1, <2>2, <2>3, TxStays
<1> QED
  BY <1>1 DEF TxInv

LEMMA TxTask ==
    ASSUME MailInvs, NameInv, CallInv, TxInv, NEW t \in Tasks, TaskStep(t)
    PROVE  TxInv'
<1>1. /\ TypeInv /\ (task[t].pc # "out" => task[t].conn \in Conns)
      /\ CallKept(t) /\ NameKept(t) /\ (task[t].tx => TxKept(t))
      /\ pool.phase = "open" /\ task[t].n \in Nat
  BY Records DEF MailInvs, MailInv, LeaseInv, CallInv, NameInv, TxInv, TaskStates,
     TaskStep, Lease, Begin, Execute, ExecuteBatch, ExecuteMultiRead, End, Submit,
     SyncStart, Receive, Release, CallRefused, EndRefused
<1>2. /\ \A c \in Conns : /\ handle'[c].txn = handle[c].txn
                         /\ handle'[c].dirty = handle[c].dirty
      /\ \A u \in Tasks \ {t} : task'[u] = task[u]
  BY TaskNames
<1>3. ASSUME UNCHANGED pool \/ (pool'.phase = "sync" /\ pool'.job.owner = t),
             \A d \in Conns : d = task[t].conn \/ conn'[d].slot = conn[d].slot,
             task[t].pc # "out" \/ \A d \in Conns : conn'[d].slot = conn[d].slot,
             UNCHANGED db,
             task'[t].tx => TxKept(t)',
             \A d \in Conns : d = task[t].conn \/ handle'[d] = handle[d],
             task[t].pc # "out" \/ UNCHANGED handle
      PROVE  TxInv'
  <2>1. \A u \in Tasks \ {t} : Pending(u) \subseteq Pending(u)'
    BY <1>1, <1>2, <1>3 DEF Pending, Awaiting
  <2>2. Up' => Up
    BY <1>1 DEF Up
  <2> QED
    BY <1>2, <1>3, <2>1, <2>2, OthersTx
<1>4. Up /\ Id(t) \notin db
  BY <1>1 DEF NameKept, Known, Up
<1>5. CASE \E tx \in BOOLEAN : Lease(t, tx)
  <2>1. PICK tx \in BOOLEAN : Leases(t, tx)
    BY <1>1, <1>5, LeaseEffect
  <2>2. PICK c \in Conns : LeasesAt(t, tx, c)
    BY <2>1 DEF Leases
  <2>3. /\ \A d \in Conns : conn'[d].slot = conn[d].slot
        /\ task'[t].tx => task'[t].pc = "begin"
        /\ task'[t].wrote = {} /\ task'[t].outcome = "none"
        /\ ~task'[t].mixed
    BY <2>2 DEF LeasesAt
  <2>4. UNCHANGED <<pool, handle, db>>
    BY <2>1 DEF Leases
  <2>5. task'[t].tx => TxKept(t)'
    BY <2>3 DEF TxKept, Plain, Guarded, MustHold, MustHide, MayLose, Left, Commits, RollsBack
  <2> QED
    BY <1>3, <2>3, <2>4, <2>5
<1>6. CASE \E kind \in Kinds, stmts \in Seq(Stmts),
              then \in {"beginning", "await", "ending"} :
              Calls(t, kind, stmts, then) /\ Submit(t, kind, stmts, then)
  <2>1. PICK kind \in Kinds, stmts \in Seq(Stmts),
             then \in {"beginning", "await", "ending"} :
             Calls(t, kind, stmts, then) /\ Submit(t, kind, stmts, then)
    BY <1>6
  <2> DEFINE j == [id |-> Id(t), owner |-> t, stmts |-> stmts]
             c == task[t].conn
  <2>2. /\ task[t].pc \in {"begin", "body", "thrown"} /\ task[t].port = "none"
        /\ c \in Conns /\ Submits(t, kind, stmts, then)
    BY <1>1, <2>1, SubmitEffect DEF Calls, MailInvs, MailInv, JobInv, Awaiting
  <2>3. /\ UNCHANGED <<pool, handle, db>>
        /\ \A d \in Conns \ {c} : conn'[d] = conn[d]
        /\ conn'[c].slot = j
        /\ task'[t].conn = c /\ task'[t].tx = task[t].tx /\ task'[t].pc = then
        /\ task'[t].job = j /\ task'[t].wrote = Wrote(t, stmts)
        /\ task'[t].port = "none" /\ task'[t].outcome = task[t].outcome
        /\ task'[t].mixed = task[t].mixed
    BY <2>2 DEF Submits
  <2>4. /\ task'[t].job.id = Id(t) /\ task'[t].job.stmts = stmts
        /\ task'[t].wrote \subseteq task[t].wrote \cup {Id(t)}
        /\ "write" \notin ToSet(stmts) => task'[t].wrote = task[t].wrote
    BY <2>3
  <2>5. ASSUME NEW s \in {"begin", "commit", "rollback"}, stmts = <<s>>
        PROVE  "write" \notin ToSet(stmts)
    <3>1. ToSet(<<s>>) = {s}
      BY DEF ToSet
    <3> QED
      BY <2>5, <3>1
  <2>6. Pending(t) = {} /\ Live(t)
    BY <1>1, <2>2 DEF Pending, Awaiting, Live, Up
  <2>8. Guarded(t)'
    BY <2>3, NoTaskIsNoTask DEF Guarded, Orphaned
  <2> HIDE DEF j, c
  <2>7. ASSUME task[t].tx, TxKept(t) PROVE TxKept(t)'
    <3>1. CASE then = "beginning"
      <4>1. task[t].pc = "begin" /\ task'[t].wrote = task[t].wrote
        BY <2>1, <2>4, <2>5, <3>1 DEF Calls
      <4>2. /\ task[t].wrote = {} /\ task[t].outcome = "none"
            /\ ~task[t].mixed
        BY <2>7, <4>1 DEF TxKept, Plain
      <4> QED
        BY <2>3, <2>8, <3>1, <4>1, <4>2
        DEF TxKept, Plain, MustHold, MustHide, MayLose, Left, Commits, RollsBack
    <3>2. CASE then = "await"
      <4>1. task[t].pc = "body"
        BY <2>1, <3>2 DEF Calls
      <4>2. /\ ~task[t].mixed /\ task[t].outcome = "none"
            /\ Hidden(t) /\ Held(t)
        BY <2>7, <4>1 DEF TxKept, Plain, MustHold, MustHide
      <4>3. Id(t) \in Pending(t)'
        BY <2>3, <2>4, <3>2 DEF Pending, Awaiting
      <4>4. Held(t)'
        BY <1>2, <2>3, <2>4, <2>6, <4>2, <4>3 DEF Held, c
      <4>5. Hidden(t)'
        BY <1>4, <2>3, <2>4, <4>2 DEF Hidden
      <4> QED
        BY <2>3, <2>8, <3>2, <4>2, <4>4, <4>5
        DEF TxKept, Plain, MustHold, MustHide, MayLose, Left, Commits, RollsBack
    <3>3. CASE then = "ending" /\ task[t].pc = "body"
      <4>1. stmts = <<"commit">> /\ task'[t].wrote = task[t].wrote
        BY <2>1, <2>4, <2>5, <3>3 DEF Calls
      <4>2. /\ ~task[t].mixed /\ task[t].outcome = "none"
            /\ Hidden(t) /\ Held(t)
        BY <2>7, <3>3 DEF TxKept, Plain, MustHold, MustHide
      <4>3. Held(t)' /\ Hidden(t)'
        BY <1>2, <2>3, <2>6, <4>1, <4>2 DEF Held, Hidden, c
      <4>4. Commits(t)' /\ ~RollsBack(t)'
        BY <2>3, <2>4, <3>3, <4>1 DEF Commits, RollsBack
      <4> QED
        BY <2>3, <2>8, <3>3, <4>2, <4>3, <4>4
        DEF TxKept, Plain, MustHold, MustHide, MayLose, Left
    <3>4. CASE then = "ending" /\ task[t].pc # "body"
      <4>1. /\ task[t].pc = "thrown" /\ stmts = <<"rollback">>
            /\ task'[t].wrote = task[t].wrote
        BY <2>1, <2>4, <2>5, <3>4 DEF Calls
      <4>2. task[t].outcome = "threw" /\ (Hidden(t) \/ Lost(t))
        BY <2>7, <4>1 DEF TxKept, Plain, MayLose
      <4>3. Hidden(t)' \/ Lost(t)'
        BY <1>2, <2>3, <4>1, <4>2 DEF Hidden, Lost, c
      <4>4. RollsBack(t)' /\ ~Commits(t)'
        <5>1. <<"rollback">> # <<"commit">>
          OBVIOUS
        <5> QED
          BY <2>3, <2>4, <3>4, <4>1, <5>1 DEF Commits, RollsBack
      <4> QED
        BY <2>3, <2>8, <3>4, <4>2, <4>3, <4>4
        DEF TxKept, Plain, MustHold, MustHide, MayLose, Left
    <3> QED
      BY <3>1, <3>2, <3>3, <3>4
  <2> QED
    BY <1>1, <1>3, <2>2, <2>3, <2>7 DEF c
<1>7. CASE SyncStart(t)
  <2>1. StartsSync(t) /\ task[t].pc \in {"body", "await"}
    BY <1>1, <1>7, SyncStartEffect DEF SyncStart
  <2>2. PICK s \in {"read", "write"} : StartsSyncOf(t, s)
    BY <2>1 DEF StartsSync
  <2>3. /\ UNCHANGED <<handle, db>>
        /\ conn[task[t].conn].slot = NoJob
        /\ \A d \in Conns : conn'[d].slot = conn[d].slot
    BY <2>1 DEF StartsSync
  <2>4. /\ task'[t].conn = task[t].conn /\ task'[t].tx = task[t].tx
        /\ task'[t].pc = task[t].pc /\ task'[t].port = task[t].port
        /\ task'[t].job = task[t].job /\ task'[t].outcome = task[t].outcome
        /\ task'[t].mixed = (task[t].mixed \/ task[t].pc = "await")
        /\ task'[t].wrote \subseteq task[t].wrote \cup {Id(t)}
    BY <2>2 DEF StartsSyncOf
  <2>5. pool'.phase = "sync" /\ pool'.job.owner = t /\ pool'.job.id = Id(t)
    BY <2>2, Records DEF StartsSyncOf, MailInvs, PoolStates
  <2>6. ~(Awaiting(t) /\ task[t].port = "none")
    BY <1>1, <1>4, <2>3 DEF CallKept
  <2>7. ASSUME task[t].tx, TxKept(t) PROVE TxKept(t)'
    <3>1. Pending(t) = {} /\ Live(t) /\ Id(t) \in Pending(t)'
      BY <1>1, <1>4, <2>5, <2>6 DEF Pending, Live
    <3>2. /\ Held(t) => Held(t)'
          /\ Hidden(t) => Hidden(t)'
          /\ Lost(t) => Lost(t)'
      <4>1. Held(t) => Held(t)'
        BY <2>3, <2>4, <3>1 DEF Held
      <4>2. (Hidden(t) => Hidden(t)') /\ (Lost(t) => Lost(t)')
        BY <1>2, <1>4, <2>3, <2>4 DEF Hidden, Lost
      <4> QED
        BY <4>1, <4>2
    <3>5. Guarded(t)'
      BY <1>1, <2>1, <2>3, <2>4 DEF Guarded, Orphaned
    <3>3. CASE task[t].pc = "body"
      <4>1. /\ ~task[t].mixed /\ task[t].outcome = "none"
            /\ Hidden(t) /\ Held(t)
        BY <2>7, <3>3 DEF TxKept, Plain, MustHold, MustHide
      <4> QED
        BY <2>4, <3>2, <3>3, <3>5, <4>1
        DEF TxKept, Plain, MustHold, MustHide, MayLose, Left, Commits, RollsBack
    <3>4. CASE task[t].pc = "await"
      <4>1. /\ task[t].outcome = "none" /\ task[t].port # "none"
            /\ task[t].port # "aborted" => Hidden(t) /\ Held(t)
            /\ task[t].port = "aborted" => Hidden(t) \/ Lost(t)
        BY <2>3, <2>6, <2>7, <3>4
        DEF TxKept, Plain, MustHold, MustHide, MayLose, Awaiting
      <4> QED
        BY <2>4, <3>2, <3>4, <3>5, <4>1
        DEF TxKept, Plain, MustHold, MustHide, MayLose, Left, Commits, RollsBack
    <3> QED
      BY <2>1, <3>3, <3>4
  <2> QED
    BY <1>1, <1>3, <2>3, <2>4, <2>5, <2>7
<1>8. CASE Receive(t)
  <2>1. /\ Receives(t) /\ task[t].pc \in {"beginning", "await", "ending"}
        /\ task[t].port # "none" /\ task[t].port \in {"none", "ok", "aborted"}
    BY <1>1, <1>8, ReceiveEffect, Records DEF Receive, Resumes, TaskStates
  <2>2. /\ UNCHANGED <<pool, handle, db>>
        /\ \A d \in Conns : conn'[d].slot = conn[d].slot
        /\ task'[t].conn = task[t].conn /\ task'[t].tx = task[t].tx
        /\ task'[t].wrote = task[t].wrote /\ task'[t].port = "none"
        /\ task'[t].mixed = (task[t].mixed /\ task[t].port # "ok")
        /\ task'[t].pc = AfterAnswer(task[t].pc, Fine(t))
        /\ task'[t].outcome = Outcome(t, Fine(t))
    BY <2>1 DEF Receives
  <2>4. Guarded(t)'
    <3>1. task[t].conn \in Conns /\ Awaiting(t) /\ SlotInv(task[t].conn)
      BY <1>1, <2>1 DEF Awaiting, MailInvs, MailInv
    <3>2. ~LeftBehind(task[t].conn)
      BY <3>1 DEF LeftBehind
    <3>3. Awaited(task[t].conn) => conn[task[t].conn].slot.owner # NoTask
      BY NoTaskIsNoTask DEF Awaited
    <3>4. ~Orphaned(task[t].conn)
      BY <3>1, <3>2, <3>3 DEF SlotInv, Orphaned
    <3> QED
      BY <2>2, <3>1, <3>4 DEF Guarded, Orphaned
  <2>3. ASSUME task[t].tx, TxKept(t) PROVE TxKept(t)'
    <3>1. /\ Held(t) /\ task[t].port # "none" => Held(t)'
          /\ Hidden(t) => Hidden(t)'
          /\ Lost(t) /\ task[t].port # "ok" => Lost(t)'
      <4>1. Pending(t) \subseteq Pending(t)' /\ Live(t)
        BY <1>1, <1>4, <2>1, <2>2 DEF Pending, Live
      <4>2. Held(t) => Held(t)'
        BY <1>2, <2>2, <4>1 DEF Held
      <4>3. (Hidden(t) => Hidden(t)') /\ (Lost(t) /\ task[t].port # "ok" => Lost(t)')
        BY <1>2, <2>2 DEF Hidden, Lost
      <4> QED
        BY <4>2, <4>3
    <3>2. CASE task[t].pc = "beginning"
      <4>1. /\ task[t].wrote = {} /\ task[t].outcome = "none"
            /\ ~task[t].mixed
            /\ task[t].port = "ok" => Held(t)
        BY <2>3, <3>2 DEF TxKept, Plain, MustHold
      <4>2. Hidden(t)'
        BY <2>2, <4>1 DEF Hidden
      <4>3. CASE task[t].port = "ok"
        <5>1. task'[t].pc = "body" /\ task'[t].outcome = "none"
          BY <2>2, <3>2, <4>1, <4>3 DEF AfterAnswer, Outcome, Fine
        <5> QED
          BY <2>2, <2>4, <3>1, <4>1, <4>2, <4>3, <5>1
          DEF TxKept, Plain, MustHold, MustHide, MayLose, Left, Commits, RollsBack
      <4>4. CASE task[t].port = "aborted"
        <5>1. task'[t].pc = "leaving" /\ task'[t].outcome = "threw"
          BY <2>2, <3>2, <4>1, <4>4 DEF AfterAnswer, Outcome, Fine
        <5> QED
          BY <2>4, <4>2, <5>1
          DEF TxKept, Plain, MustHold, MustHide, MayLose, Left, Commits, RollsBack
      <4> QED
        BY <2>1, <4>3, <4>4
    <3>3. CASE task[t].pc = "await"
      <4>1. /\ task[t].outcome = "none"
            /\ task[t].port = "ok" => Hidden(t) /\ Held(t)
            /\ task[t].port = "aborted" => Hidden(t) \/ Lost(t)
        BY <2>3, <3>3 DEF TxKept, Plain, MustHold, MustHide, MayLose
      <4>2. CASE Fine(t)
        <5>1. task'[t].pc = "body" /\ task'[t].outcome = "none"
          BY <2>2, <3>3, <4>1, <4>2 DEF AfterAnswer, Outcome
        <5> QED
          BY <2>2, <2>4, <3>1, <4>1, <4>2, <5>1
          DEF TxKept, Plain, MustHold, MustHide, MayLose, Left, Commits, RollsBack,
              Fine
      <4>3. CASE ~Fine(t)
        <5>1. task'[t].pc = "thrown" /\ task'[t].outcome = "threw"
          BY <2>2, <3>3, <4>1, <4>3 DEF AfterAnswer, Outcome
        <5>2. Hidden(t)' \/ Lost(t)'
          BY <2>1, <3>1, <4>1
        <5> QED
          BY <2>4, <5>1, <5>2
          DEF TxKept, Plain, MustHold, MustHide, MayLose, Left, Commits, RollsBack
      <4> QED
        BY <4>2, <4>3
    <3>4. CASE task[t].pc = "ending"
      <4>1. task'[t].pc = "leaving"
        BY <2>2, <3>4 DEF AfterAnswer
      <4>2. SUFFICES Left(t)'
        BY <2>4, <4>1
        DEF TxKept, Plain, MustHold, MustHide, MayLose, Commits, RollsBack
      <4>3. CASE Commits(t) /\ task[t].port = "ok"
        <5>1. task[t].wrote \subseteq db /\ task[t].outcome = "none"
          BY <2>3, <4>3 DEF TxKept, Plain
        <5>2. task'[t].outcome = "returned"
          BY <2>2, <3>4, <4>3, <5>1 DEF Outcome, Fine
        <5> QED
          BY <2>2, <5>1, <5>2 DEF Left
      <4>4. CASE Commits(t) /\ task[t].port # "ok"
        <5>1. Hidden(t) /\ task[t].outcome = "none"
          BY <2>3, <4>4 DEF TxKept, Plain, MustHide
        <5>2. task'[t].outcome = "commit_failed"
          BY <2>2, <3>4, <4>4, <5>1 DEF Outcome, Fine
        <5> QED
          BY <3>1, <5>1, <5>2 DEF Left
      <4>5. CASE ~Commits(t)
        <5>1. RollsBack(t)
          BY <3>4, <4>5 DEF Commits, RollsBack
        <5>2. /\ task[t].outcome = "threw"
              /\ task[t].port = "ok" => Hidden(t)
              /\ task[t].port # "ok" => Hidden(t) \/ Lost(t)
          BY <2>3, <5>1 DEF TxKept, Plain, MustHide, MayLose
        <5>3. task'[t].outcome = "threw"
          BY <2>2, <5>2 DEF Outcome
        <5>4. task'[t].mixed \/ Hidden(t)'
          BY <2>2, <3>1, <5>2 DEF Lost
        <5> QED
          BY <5>3, <5>4 DEF Left
      <4> QED
        BY <4>3, <4>4, <4>5
    <3> QED
      BY <2>1, <3>2, <3>3, <3>4
  <2> QED
    BY <1>1, <1>3, <2>2, <2>3
<1>9. CASE Release(t)
  <2>1. Releases(t) /\ task[t].pc # "out"
    BY <1>1, <1>9, ReleaseEffect DEF Release
  <2>2. /\ UNCHANGED <<pool, handle>> /\ db' = db \ task[t].wrote
        /\ \A d \in Conns : conn'[d].slot = conn[d].slot
        /\ ~task'[t].tx
    BY <2>1 DEF Releases
  <2>3. \A u \in Tasks \ {t} : Pending(u) \subseteq Pending(u)'
    BY <1>2, <2>2 DEF Pending, Awaiting
  <2>4. ASSUME NEW u \in Tasks \ {t}
        PROVE  task[u].wrote \cap db' = task[u].wrote \cap db
    <3>1. task[u].wrote \cap task[t].wrote = {}
      <4>1. /\ \A id \in task[u].wrote : id[1] = u
            /\ \A id \in task[t].wrote : id[1] = t
        BY DEF NameInv, NameKept
      <4> QED
        BY <4>1
    <3> QED
      BY <2>2, <3>1
  <2>5. Up' => Up
    BY <2>2 DEF Up
  <2> QED
    BY <1>2, <2>1, <2>2, <2>3, <2>4, <2>5, OthersTx
<1>10. CASE CallRefused(t)
  <2>1. RefusesCall(t) /\ task[t].conn \in Conns
    BY <1>1, <1>10, CallRefusedEffect DEF CallRefused
  <2>2. /\ UNCHANGED <<pool, handle, db>> /\ conn[task[t].conn].slot # NoJob
        /\ task[t].pc \in {"body", "await"}
        /\ \A d \in Conns \ {task[t].conn} : conn'[d] = conn[d]
        /\ conn'[task[t].conn].slot.id = conn[task[t].conn].slot.id
        /\ task'[t].pc = "thrown" /\ task'[t].conn = task[t].conn
        /\ task'[t].tx = task[t].tx /\ task'[t].outcome = "threw"
        /\ task'[t].wrote = task[t].wrote /\ task'[t].mixed = task[t].mixed
    BY <2>1 DEF RefusesCall, Orphan
  <2>3. SlotInv(task[t].conn)
    BY <2>1 DEF MailInvs, MailInv
  <2>4. ASSUME task[t].tx, TxKept(t) PROVE TxKept(t)'
    <3>1. Awaiting(t) /\ task[t].pc = "await" /\ task[t].port = "none"
      <4>1. CASE Awaited(task[t].conn)
        <5>1. PICK u \in Tasks : /\ Awaiting(u) /\ task[u].port = "none"
                                 /\ task[u].conn = task[t].conn
          BY <4>1 DEF Awaited
        <5>2. u = t
          BY <2>2, <5>1, Apart DEF Awaiting
        <5> QED
          BY <2>2, <5>1, <5>2 DEF Awaiting
      <4>2. CASE LeftBehind(task[t].conn)
        <5>1. task[t].pc # "body"
          BY <2>2, <2>4, <4>2 DEF LeftBehind, TxKept, Guarded, Orphaned
        <5>2. ~Awaiting(t)
          BY <4>2 DEF LeftBehind
        <5> QED
          BY <2>2, <5>1, <5>2 DEF Awaiting
      <4> QED
        BY <2>2, <2>3, <4>1, <4>2 DEF SlotInv
    <3>2. Held(t) /\ Hidden(t)
      BY <2>4, <3>1 DEF TxKept, MustHold, MustHide
    <3>3. handle[task[t].conn].txn
      BY <2>2, <3>2 DEF Held, Live
    <3>4. Hidden(t)' /\ Guarded(t)'
      BY <2>2, <3>2, <3>3 DEF Hidden, Guarded
    <3> QED
      BY <2>2, <3>4
      DEF TxKept, Plain, MustHold, MustHide, MayLose, Left, Commits, RollsBack
  <2> QED
    BY <1>1, <1>3, <2>2, <2>4
<1>11. CASE EndRefused(t)
  <2>1. RefusesEnd(t)
    BY <1>1, <1>11, EndRefusedEffect DEF EndRefused
  <2>2. /\ UNCHANGED <<pool, conn, db>>
        /\ \A d \in Conns \ {task[t].conn} : handle'[d] = handle[d]
        /\ task[t].pc \in {"begin", "thrown"}
        /\ task'[t].pc = "leaving" /\ task'[t].conn = task[t].conn
        /\ task'[t].tx = task[t].tx /\ task'[t].outcome = "threw"
        /\ task'[t].wrote = task[t].wrote /\ task'[t].mixed = task[t].mixed
    BY <2>1 DEF RefusesEnd
  <2>3. ASSUME task[t].tx, TxKept(t) PROVE TxKept(t)'
    <3>1. Hidden(t) \/ task[t].mixed
      BY <2>2, <2>3 DEF TxKept, Plain, MayLose, Hidden, Lost
    <3>2. Hidden(t)' \/ task'[t].mixed
      BY <2>2, <3>1 DEF Hidden
    <3>3. Guarded(t)'
      BY <1>1, <1>2, <2>2, <2>3 DEF TxKept, Guarded, Orphaned
    <3> QED
      BY <2>2, <3>2, <3>3
      DEF TxKept, Plain, MustHold, MustHide, MayLose, Left, Commits, RollsBack
  <2> QED
    BY <1>1, <1>3, <2>2, <2>3
<1> QED
  BY <1>5, <1>6, <1>7, <1>8, <1>9, <1>10, <1>11, TaskSteps

(* A call of t runs: what others have written stays where it is.            *)
LEMMA RunsElsewhere ==
    ASSUME MailInvs, NameInv, NEW t \in Tasks, task[t].pc # "out",
           NEW id \in {t} \X (1..task[t].n), id \in Ids, NEW stmts \in Seq(Stmts),
           \/ RunsAll(task[t].conn, id, stmts)
           \/ RunsSome(task[t].conn, id, stmts)
    PROVE  /\ \A d \in Conns \ {task[t].conn} : handle'[d] = handle[d]
           /\ \A u \in Tasks \ {t} : task[u].tx /\ task[u].pc # "out" =>
                 task[u].wrote \cap db' = task[u].wrote \cap db
<1>1. TypeInv /\ task[t].conn \in Conns
  BY DEF MailInvs, MailInv, LeaseInv
<1>2. /\ \A d \in Conns \ {task[t].conn} : handle'[d] = handle[d]
      /\ db \subseteq db' /\ db' \subseteq db \cup {id} \cup handle[task[t].conn].dirty
  BY <1>1, RunsBounded
<1>3. ASSUME NEW u \in Tasks \ {t}, task[u].pc # "out"
      PROVE  task[u].wrote \cap db' = task[u].wrote \cap db
  <2>1. id \notin task[u].wrote
    BY DEF NameInv, NameKept
  <2>2. task[u].wrote \cap handle[task[t].conn].dirty = {}
    BY <1>1, <1>3, Apart DEF NameInv, NameKept
  <2> QED
    BY <1>2, <2>1, <2>2
<1> QED
  BY <1>2, <1>3

LEMMA TxSync ==
    ASSUME MailInvs, NameInv, CallInv, TxInv, Sync
    PROVE  TxInv'
<1>1. PICK t \in Tasks, c \in Conns, id \in Ids, stmts \in Seq(Stmts) :
         SyncRuns(t, c, id, stmts)
  BY SyncSteps
<1>2. /\ pool.phase = "sync" /\ t = pool.job.owner /\ id = pool.job.id
      /\ stmts = pool.job.stmts
      /\ task[t].conn = c /\ task[t].pc \in {"body", "await"}
      /\ task[t].pc = "await" => task[t].mixed
      /\ id \in {t} \X (1..task[t].n) /\ stmts \in Seq({"read", "write"})
      /\ conn[c].slot = NoJob /\ pool'.phase = "open"
      /\ \A d \in Conns : conn'[d].slot = conn[d].slot
      /\ \A u \in Tasks \ {t} : task'[u] = task[u]
  BY <1>1 DEF SyncRuns
<1>3. /\ task'[t].conn = task[t].conn /\ task'[t].tx = task[t].tx
      /\ task'[t].wrote = task[t].wrote /\ task'[t].mixed = task[t].mixed
      /\ \/ RunsAll(c, id, stmts) /\ task'[t] = task[t]
         \/ /\ RunsSome(c, id, stmts)
            /\ task'[t].pc = "thrown" /\ task'[t].outcome = "threw"
            /\ task'[t].port = "none"
  BY <1>1 DEF SyncRuns
<1>4. TypeInv /\ (RunsAll(c, id, stmts) \/ RunsSome(c, id, stmts))
  BY <1>3 DEF MailInvs
<1>5. /\ handle[c].txn => db' = db
      /\ handle'[c].txn => handle[c].txn
      /\ RunsAll(c, id, stmts) /\ handle[c].txn =>
            /\ handle'[c].txn /\ handle[c].dirty \subseteq handle'[c].dirty
            /\ "write" \in ToSet(stmts) => id \in handle'[c].dirty
  BY <1>2, <1>4, PlainRuns
<1>6. /\ \A d \in Conns \ {task[t].conn} : handle'[d] = handle[d]
      /\ \A u \in Tasks \ {t} : task[u].tx /\ task[u].pc # "out" =>
            task[u].wrote \cap db' = task[u].wrote \cap db
  BY <1>2, <1>4, RunsElsewhere
<1>7. ASSUME task[t].tx, TxKept(t) PROVE TxKept(t)'
  <2>1. /\ Live(t) /\ Live(t)'
        /\ id \in task[t].wrote => "write" \in ToSet(stmts)
    BY <1>2 DEF Live, Up, CallInv, CallKept
  <2>2. task[t].pc = "await" => task[t].port # "none"
    BY <1>2, <1>7 DEF TxKept, Plain
  <2>3. Pending(t) = {id} /\ Pending(t)' = {}
    BY <1>2, <1>3, <2>2 DEF Pending, Awaiting
  <2>4. /\ Held(t) => db' = db
        /\ Held(t) /\ RunsAll(c, id, stmts) => Held(t)'
        /\ Lost(t) => Lost(t)'
    <3>1. Held(t) => handle[c].txn /\ task[t].wrote \ {id} \subseteq handle[c].dirty
      BY <1>2, <2>1, <2>3 DEF Held
    <3>2. Held(t) /\ RunsAll(c, id, stmts) => Held(t)'
      BY <1>2, <1>3, <1>5, <2>1, <3>1 DEF Held
    <3>3. Lost(t) => Lost(t)'
      BY <1>2, <1>3, <1>5 DEF Lost
    <3> QED
      BY <1>5, <3>1, <3>2, <3>3
  <2>5. Hidden(t) /\ db' = db => Hidden(t)'
    BY <1>3 DEF Hidden
  <2>8. Guarded(t)'
    BY <1>2, <1>3 DEF Guarded, Orphaned
  <2>6. CASE task[t].pc = "body"
    <3>1. /\ ~task[t].mixed /\ task[t].outcome = "none"
          /\ Hidden(t) /\ Held(t)
      BY <1>7, <2>6 DEF TxKept, Plain, MustHold, MustHide
    <3>2. Hidden(t)' /\ (RunsAll(c, id, stmts) => Held(t)')
      BY <2>4, <2>5, <3>1
    <3>3. CASE RunsAll(c, id, stmts) /\ task'[t] = task[t]
      BY <2>6, <2>8, <3>1, <3>2, <3>3
      DEF TxKept, Plain, MustHold, MustHide, MayLose, Left, Commits, RollsBack
    <3>4. CASE task'[t].pc = "thrown" /\ task'[t].outcome = "threw"
      BY <2>8, <3>2, <3>4
      DEF TxKept, Plain, MustHold, MustHide, MayLose, Left, Commits, RollsBack
    <3> QED
      BY <1>3, <2>6, <3>3, <3>4
  <2>7. CASE task[t].pc = "await"
    <3>1. /\ task[t].outcome = "none" /\ task[t].port # "none" /\ task[t].mixed
          /\ task[t].port # "aborted" => Hidden(t) /\ Held(t)
          /\ task[t].port = "aborted" => Hidden(t) \/ Lost(t)
      BY <1>2, <1>7, <2>2, <2>7 DEF TxKept, Plain, MustHold, MustHide, MayLose
    <3>2. task[t].port # "aborted" =>
             Hidden(t)' /\ (RunsAll(c, id, stmts) => Held(t)')
      BY <2>4, <2>5, <3>1
    <3>3. task[t].port = "aborted" => Hidden(t)' \/ Lost(t)'
      <4>1. CASE handle[c].txn
        BY <1>2, <1>5, <2>5, <3>1, <4>1 DEF Lost
      <4>2. CASE ~handle[c].txn
        BY <1>2, <2>4, <3>1, <4>2 DEF Lost
      <4> QED
        BY <4>1, <4>2
    <3>4. CASE RunsAll(c, id, stmts) /\ task'[t] = task[t]
      BY <2>7, <2>8, <3>1, <3>2, <3>3, <3>4
      DEF TxKept, Plain, MustHold, MustHide, MayLose, Left, Commits, RollsBack
    <3>5. CASE task'[t].pc = "thrown" /\ task'[t].outcome = "threw"
      BY <2>8, <3>2, <3>3, <3>5
      DEF TxKept, Plain, MustHold, MustHide, MayLose, Left, Commits, RollsBack
    <3> QED
      BY <1>3, <3>4, <3>5
  <2> QED
    BY <1>2, <2>6, <2>7
<1>8. \A u \in Tasks \ {t} : Pending(u) \subseteq Pending(u)'
  BY <1>2 DEF Pending, Awaiting
<1>9. (Up' => Up) /\ (task'[t].tx => TxKept(t)') /\ task[t].pc # "out"
  BY <1>2, <1>3, <1>7 DEF Up, TxInv
<1> QED
  BY <1>2, <1>6, <1>8, <1>9, OthersTx

LEMMA TxAnswer ==
    ASSUME MailInvs, NameInv, CallInv, TxInv, NEW c \in Conns,
           NEW t \in Tasks, NEW code \in {"ok", "aborted"}, Posts(c, t, code)
    PROVE  TxInv'
<1> DEFINE id == conn[c].slot.id
           stmts == conn[c].slot.stmts
<1>2. /\ Awaiting(t) /\ task[t].conn = c /\ task[t].job = conn[c].slot
      /\ task[t].port = "none" /\ conn[c].slot # NoJob
      /\ id \in Ids /\ stmts \in Seq(Stmts)
      /\ UNCHANGED pool
      /\ \A d \in Conns \ {c} : conn'[d] = conn[d]
      /\ \A u \in Tasks \ {t} : task'[u] = task[u]
  BY DEF Posts
<1>3. /\ task'[t].pc = task[t].pc /\ task'[t].conn = c
      /\ task'[t].tx = task[t].tx /\ task'[t].job = task[t].job
      /\ task'[t].port = code /\ task'[t].wrote = task[t].wrote
      /\ task'[t].outcome = task[t].outcome
      /\ task'[t].mixed = task[t].mixed /\ conn'[c].slot = NoJob
      /\ code = "ok" => RunsAll(c, id, stmts)
      /\ code = "aborted" => RunsSome(c, id, stmts)
  BY <1>2 DEF Posts
<1>4. /\ id \in {t} \X (1..task[t].n)
      /\ task[t].pc = "beginning" => stmts = <<"begin">>
      /\ task[t].pc = "await" => stmts \in Seq({"read", "write"})
      /\ task[t].pc = "ending" => stmts \in {<<"commit">>, <<"rollback">>}
      /\ id \in task[t].wrote => "write" \in ToSet(stmts)
  BY <1>2 DEF MailInvs, MailInv, JobInv, CallInv, CallKept
<1>5. task[t].job.id = id /\ task[t].job.stmts = stmts
  BY <1>2
<1> HIDE DEF id, stmts
<1>6. /\ \A d \in Conns \ {c} : handle'[d] = handle[d]
      /\ \A u \in Tasks \ {t} : task[u].tx /\ task[u].pc # "out" =>
            task[u].wrote \cap db' = task[u].wrote \cap db
  BY <1>2, <1>3, <1>4, RunsElsewhere DEF Awaiting
<1>7. TypeInv
  BY DEF MailInvs
<1>8. ASSUME task[t].tx, TxKept(t) PROVE TxKept(t)'
  <2>1. Live(t) /\ id \in Pending(t) /\ Pending(t) \ {id} \subseteq Pending(t)'
    BY <1>2, <1>3, <1>5 DEF Live, Pending
  <2>2. Hidden(t) /\ db' = db => Hidden(t)'
    BY <1>3 DEF Hidden
  <2>7. Guarded(t)'
    BY <1>3 DEF Guarded, Orphaned
  <2>3. CASE task[t].pc = "beginning"
    <3>1. /\ task[t].wrote = {} /\ task[t].outcome = "none"
          /\ ~task[t].mixed
      BY <1>8, <2>3 DEF TxKept, Plain
    <3>2. code = "ok" => Held(t)'
      <4>1. SUFFICES ASSUME code = "ok" PROVE Held(t)'
        OBVIOUS
      <4>2. handle'[c].txn = TRUE
        BY <1>2, <1>3, <1>4, <1>7, <2>3, <4>1, ControlRuns
      <4> QED
        BY <1>3, <3>1, <4>2 DEF Held
    <3> QED
      BY <1>3, <2>3, <2>7, <3>1, <3>2
      DEF TxKept, Plain, MustHold, MustHide, MayLose, Left, Commits, RollsBack
  <2>4. CASE task[t].pc = "await"
    <3>1. /\ ~task[t].mixed /\ task[t].outcome = "none"
          /\ Hidden(t) /\ Held(t)
      BY <1>2, <1>8, <2>4 DEF TxKept, Plain, MustHold, MustHide
    <3>2. /\ handle[c].txn
          /\ task[t].wrote \ (Pending(t)' \cup {id}) \subseteq handle[c].dirty
      BY <1>2, <2>1, <3>1 DEF Held
    <3>3. /\ db' = db
          /\ RunsAll(c, id, stmts) =>
                /\ handle'[c].txn /\ handle[c].dirty \subseteq handle'[c].dirty
                /\ "write" \in ToSet(stmts) => id \in handle'[c].dirty
      BY <1>2, <1>3, <1>4, <1>7, <2>4, <3>2, PlainRuns
    <3>4. Hidden(t)' /\ (code = "ok" => Held(t)')
      BY <1>3, <1>4, <2>2, <3>1, <3>2, <3>3 DEF Held
    <3> QED
      BY <1>3, <2>4, <2>7, <3>1, <3>4
      DEF TxKept, Plain, MustHold, MustHide, MayLose, Left, Commits, RollsBack
  <2>5. CASE Commits(t)
    <3>1. /\ ~task[t].mixed /\ task[t].outcome = "none"
          /\ Hidden(t) /\ Held(t) /\ stmts = <<"commit">>
      BY <1>2, <1>5, <1>8, <2>5 DEF TxKept, Plain, MustHold, MustHide, Commits
    <3>2. Commits(t)' /\ ~RollsBack(t)'
      BY <1>3, <2>5 DEF Commits, RollsBack
    <3>3. CASE code = "ok"
      <4>1. id \notin task[t].wrote
        <5>1. ToSet(<<"commit">>) = {"commit"}
          BY DEF ToSet
        <5> QED
          BY <1>4, <3>1, <5>1
      <4>2. task[t].wrote \subseteq handle[c].dirty
        <5>1. task[t].wrote \ Pending(t) \subseteq handle[c].dirty
          BY <1>2, <2>1, <3>1 DEF Held
        <5>2. Pending(t) = {id}
          BY <1>2, <1>5, <2>5 DEF Pending, Commits, MailInvs, MailInv, SyncInv
        <5> QED
          BY <4>1, <5>1, <5>2
      <4>3. db' = db \cup handle[c].dirty
        BY <1>2, <1>3, <1>7, <3>1, <3>3, ControlRuns
      <4>4. task'[t].wrote \subseteq db'
        BY <1>3, <4>2, <4>3
      <4> QED
        BY <1>3, <2>5, <2>7, <3>1, <3>2, <3>3, <4>4
        DEF TxKept, Plain, MustHold, MustHide, MayLose, Left, Commits
    <3>4. CASE code = "aborted"
      <4>1. db' = db
        BY <1>2, <1>3, <1>7, <3>1, <3>4, ControlFails
      <4>2. Hidden(t)'
        BY <2>2, <3>1, <4>1
      <4> QED
        BY <1>3, <2>5, <2>7, <3>1, <3>2, <3>4, <4>2
        DEF TxKept, Plain, MustHold, MustHide, MayLose, Left, Commits
    <3> QED
      BY <3>3, <3>4
  <2>6. CASE RollsBack(t)
    <3>1. /\ task[t].outcome = "threw" /\ (Hidden(t) \/ Lost(t))
          /\ stmts = <<"rollback">> /\ task[t].pc = "ending"
      BY <1>2, <1>4, <1>5, <1>8, <2>6 DEF TxKept, Plain, MayLose, RollsBack
    <3>2. RollsBack(t)' /\ ~Commits(t)'
      BY <1>3, <2>6 DEF Commits, RollsBack
    <3>3. db' = db
      BY <1>2, <1>3, <1>7, <3>1, ControlRuns, ControlFails
    <3>4. CASE code = "ok"
      <4>1. handle[c].txn
        <5>1. RunsAll(c, id, <<"rollback">>) /\ 1 \in DOMAIN <<"rollback">>
          BY <1>3, <3>1, <3>4
        <5>2. ~Illegal(c, <<"rollback">>[1])
          BY <5>1 DEF RunsAll
        <5> QED
          BY <5>2 DEF Illegal
      <4>2. Hidden(t)'
        BY <1>2, <2>2, <3>1, <3>3, <4>1 DEF Lost
      <4> QED
        BY <1>3, <2>7, <3>1, <3>2, <3>4, <4>2
        DEF TxKept, Plain, MustHold, MustHide, MayLose, Left
    <3>5. CASE code = "aborted"
      <4>1. handle'[c].txn => handle[c].txn
        BY <1>2, <1>3, <1>7, <3>1, <3>5, ControlFails
      <4>2. Hidden(t)' \/ Lost(t)'
        BY <1>2, <1>3, <2>2, <3>1, <3>3, <4>1 DEF Lost
      <4> QED
        BY <1>3, <2>7, <3>1, <3>2, <3>5, <4>2
        DEF TxKept, Plain, MustHold, MustHide, MayLose, Left
    <3> QED
      BY <3>4, <3>5
  <2> QED
    BY <1>2, <2>3, <2>4, <2>5, <2>6 DEF Awaiting, Commits, RollsBack
<1>9. \A u \in Tasks \ {t} : Pending(u) \subseteq Pending(u)'
  BY <1>2 DEF Pending, Awaiting
<1>10. (Up' => Up) /\ (task'[t].tx => TxKept(t)') /\ task[t].pc # "out"
  BY <1>2, <1>3, <1>8 DEF Up, TxInv, Awaiting
<1> QED
  BY <1>2, <1>6, <1>9, <1>10, OthersTx

(* A call left behind runs, on the connection of its body or of a later     *)
(* lessee.                                                                  *)
LEMMA TxRunsOut ==
    ASSUME MailInvs, NameInv, TxInv, NEW c \in Conns, RunsOut(c)
    PROVE  TxInv'
<1> DEFINE id == conn[c].slot.id
           stmts == conn[c].slot.stmts
<1>1. /\ LeftBehind(c) /\ conn[c].slot # NoJob /\ conn'[c].slot = NoJob
      /\ id \in Ids /\ stmts \in Seq(Stmts) /\ stmts \in Seq({"read", "write"})
      /\ RunsAll(c, id, stmts) \/ RunsSome(c, id, stmts)
      /\ UNCHANGED <<pool, task>> /\ TypeInv
      /\ \A d \in Conns \ {c} : conn'[d] = conn[d]
      /\ \A u \in Tasks : task[u].conn = c => ~Awaiting(u)
  BY DEF RunsOut, LeftBehind, MailInvs
<1>2. \A u \in Tasks : id \in task[u].wrote => task[u].conn = c
  BY DEF NameInv, SlotNamed
<1>3. ASSUME NEW u \in Tasks, task[u].tx
      PROVE  /\ task[u].conn \in Conns
             /\ task[u].conn = c =>
                   /\ task[u].pc \in {"begin", "thrown", "leaving"}
                   /\ id \in task[u].wrote => handle[c].txn
  <2>1. TxKept(u) /\ task[u].pc # "out"
    BY <1>3 DEF TxInv, TxKept, Plain
  <2>2. task[u].conn = c => Orphaned(c)
    BY <1>1 DEF Orphaned, LeftBehind
  <2>3. task[u].conn \in Conns /\ task[u] \in TaskStates
    BY <1>1, <2>1, Records DEF MailInvs, MailInv, LeaseInv
  <2> QED
    BY <1>1, <2>1, <2>2, <2>3 DEF TxKept, Guarded, Awaiting, TaskStates
<1> HIDE DEF id, stmts
<1>4. /\ \A d \in Conns \ {c} : handle'[d] = handle[d]
      /\ db \subseteq db' /\ db' \subseteq db \cup {id} \cup handle[c].dirty
  BY <1>1, RunsBounded
<1>5. /\ handle[c].txn => db' = db
      /\ ~handle[c].txn => db' \subseteq db \cup {id}
      /\ handle'[c].txn => handle[c].txn
  BY <1>1, PlainRuns
<1>6. ASSUME NEW u \in Tasks, task[u].tx
      PROVE  task[u].wrote \cap db' = task[u].wrote \cap db
  <2>1. CASE task[u].conn = c
    BY <1>3, <1>4, <1>5, <1>6, <2>1
  <2>2. CASE task[u].conn # c
    <3>1. task[u].wrote \cap handle[c].dirty = {} /\ id \notin task[u].wrote
      BY <1>2, <2>2 DEF NameInv, NameKept
    <3> QED
      BY <1>4, <3>1
  <2> QED
    BY <2>1, <2>2
<1>7. ASSUME NEW u \in Tasks, task[u].tx PROVE TxKept(u)'
  <2>1. TxKept(u) /\ task'[u] = task[u]
    BY <1>1, <1>7 DEF TxInv
  <2>2. CASE task[u].conn # c
    <3>1. /\ conn'[task[u].conn] = conn[task[u].conn]
          /\ handle'[task[u].conn] = handle[task[u].conn]
      BY <1>1, <1>3, <1>4, <1>7, <2>2
    <3>2. (Live(u)' => Live(u)) /\ Pending(u) \subseteq Pending(u)'
      BY <1>1, <3>1 DEF Live, Up, Pending, Awaiting
    <3> QED
      BY <1>6, <1>7, <2>1, <3>1, <3>2, TxStays
  <2>3. CASE task[u].conn = c
    <3>1. task[u].pc \in {"begin", "thrown", "leaving"}
      BY <1>3, <1>7, <2>3
    <3>2. /\ Hidden(u) => Hidden(u)'
          /\ Lost(u) => Lost(u)'
          /\ task[u].wrote \subseteq db => task[u].wrote \subseteq db'
      BY <1>4, <1>5, <1>6, <1>7, <2>1, <2>3 DEF Hidden, Lost
    <3>3. Plain(u)' /\ Left(u)'
      BY <2>1, <3>2 DEF TxKept, Plain, Left, Commits, RollsBack
    <3>4. Guarded(u)'
      BY <1>1, <2>1, <2>3 DEF Guarded, Orphaned
    <3> QED
      BY <2>1, <3>1, <3>2, <3>3, <3>4
      DEF TxKept, MustHold, MustHide, MayLose, Commits, RollsBack
  <2> QED
    BY <2>2, <2>3
<1> QED
  BY <1>1, <1>7 DEF TxInv

LEMMA TxStep ==
    ASSUME MailInvs, NameInv, CallInv, TxInv, [Next]_vars
    PROVE  TxInv'
<1>1. ASSUME UNCHANGED <<db, task>>, pool'.phase # "sync" \/ UNCHANGED pool,
             pool.phase = "sync" => UNCHANGED pool,
             Up' => Up,
             \A c \in Conns : Up' \/ conn'[c].slot # NoJob =>
                 handle'[c] = handle[c] /\ conn'[c].slot = conn[c].slot,
             \A c \in Conns : handle'[c].txn => handle[c].txn
      PROVE  TxInv'
  <2>1. ASSUME NEW u \in Tasks, task[u].tx PROVE TxKept(u)'
    <3>1. TxKept(u) /\ task[u].conn \in Conns
      BY <2>1 DEF TxInv, TxKept, Plain, MailInvs, MailInv, LeaseInv
    <3>2. /\ Live(u)' => Live(u) /\ handle'[task[u].conn] = handle[task[u].conn]
          /\ conn'[task[u].conn].slot \in {conn[task[u].conn].slot, NoJob}
      BY <1>1, <3>1 DEF Live
    <3>3. Pending(u) \subseteq Pending(u)'
      BY <1>1 DEF Pending, Awaiting
    <3> QED
      BY <1>1, <3>1, <3>2, <3>3, TxStays
  <2> QED
    BY <1>1, <2>1 DEF TxInv
<1>2. CASE UNCHANGED vars
  BY <1>1, <1>2 DEF vars, Up
<1>3. CASE Lifecycle \/ Destroy
  <2>1. /\ UNCHANGED <<db, task>> /\ (Up' => Up /\ UNCHANGED <<conn, handle>>)
        /\ pool'.phase # "sync"
    BY <1>3, LifecycleQuiet, LifecycleLeavesSync
  <2>2. pool.phase # "sync"
    BY <1>3 DEF Lifecycle, Destroy, CreateConn, CreateFails, Stop, Join
  <2>3. ASSUME NEW c \in Conns
        PROVE  /\ conn'[c].slot # NoJob =>
                     handle'[c] = handle[c] /\ conn'[c].slot = conn[c].slot
               /\ handle'[c].txn => handle[c].txn
    <3>1. CASE CreateConn \/ CreateFails \/ Destroy
      BY <3>1 DEF CreateConn, CreateFails, Destroy
    <3>2. CASE Stop
      <4>1. Stops
        BY <3>2, StopEffect DEF MailInvs
      <4> QED
        BY <3>2, <4>1 DEF Stop, Stops
    <3>3. CASE Join
      <4>1. Joins
        BY <3>3, JoinEffect DEF MailInvs
      <4>2. CASE c = pool.at
        BY <4>1, <4>2 DEF Joins, FreshHandle
      <4>3. CASE c # pool.at
        BY <4>1, <4>3 DEF Joins
      <4> QED
        BY <4>2, <4>3
    <3> QED
      BY <1>3, <3>1, <3>2, <3>3 DEF Lifecycle
  <2> QED
    BY <1>1, <2>1, <2>2, <2>3
<1>4. ASSUME NEW c \in Conns, Work(c) PROVE TxInv'
  <2>1. CASE Check(c)
    <3>1. Checks(c)
      BY <2>1, CheckEffect DEF MailInvs
    <3>2. /\ UNCHANGED <<pool, handle, db, task>>
          /\ \A d \in Conns : conn'[d].slot = conn[d].slot
      BY <3>1 DEF Checks
    <3> QED
      BY <1>1, <3>2 DEF Up
  <2>2. CASE Finish(c) \/ Abort(c)
    BY <2>2, AnswerPosts, TxAnswer, TxRunsOut
  <2> QED
    BY <1>4, <2>1, <2>2 DEF Work
<1>5. ASSUME NEW c \in Conns, DrainBehind(c) PROVE TxInv'
  <2>1. Drains(c)
    BY <1>5, DrainEffect DEF MailInvs
  <2>2. /\ UNCHANGED <<pool, handle, db, task>>
        /\ \A d \in Conns : conn'[d].slot = conn[d].slot
    BY <2>1 DEF Drains
  <2> QED
    BY <1>1, <2>2 DEF Up
<1> QED
  BY <1>2, <1>3, <1>4, <1>5, TxTask, TxSync DEF Next

(* A transaction whose body threw leaves nothing, one that returned left    *)
(* everything, and one whose COMMIT failed leaves nothing yet               *)
(* (with_sqlite_transaction.dart, sqlite_unit_of_work.dart): whatever the   *)
(* pool's other lessees commit, roll back or leave behind, whichever        *)
(* statement fails, and whatever executeSync does in between, unless it     *)
(* wrote after libsqlite3 undid the transaction and before Dart knew.       *)
THEOREM TransactionsAreAtomic == Spec => []TransactionIsAtomic
<1>1. Init => NameInv /\ CallInv /\ TxInv
  BY DEF Init, NameInv, NameKept, Known, SlotNamed, CallInv, CallKept, TxInv,
     Awaiting, IdleTask, FreshHandle
<1>2. TxInv => TransactionIsAtomic
  BY DEF TxInv, TxKept, Left, Hidden, TransactionIsAtomic
<1> QED
  BY <1>1, <1>2, MailInvariance, NameStep, CallStep, TxStep, PTL DEF Spec
=============================================================================
