--------------------------- MODULE MongoPool_proofs ---------------------------
(***************************************************************************)
(* What the MongoDB stack keeps true for every number of connections and   *)
(* tasks, whatever operations they make and however many documents these   *)
(* carry.                                                                  *)
(*                                                                         *)
(* First what each action does to the connection and the task it changes,  *)
(* stated as an operator per action (Leases, Submits, Receives, ...): the  *)
(* rest of the proofs reads those.  Then MailInv, inductive with the types *)
(* (MailInvs): a filled slot holds the call its lessee awaits.  On top of  *)
(* it AnswerInv, which follows the answer from the worker to the task:     *)
(* before it is posted the server has nothing of the call (Untold); once   *)
(* posted, the chain on the connection answers it (PostKept); drained, the *)
(* task has it (GotKept).                                                  *)
(***************************************************************************)
EXTENDS MongoPool, FiniteSetTheorems, SequenceTheorems, WellFoundedInduction,
        TLAPS

USE DEF Goto, Woken, StopSignal

Ids == (Tasks \cup {NoTask}) \X Nat
Jobs == [id : Ids, owner : Tasks \cup {NoTask}, op : AllOps \cup {"none"},
         ordered : BOOLEAN]
Docs == [id : Ids, i : Nat, count : Nat, errors : SUBSET Nat, odd : BOOLEAN]

PoolStates == [phase : {"create", "open", "stop", "join", "freed"}, at : Conns,
               made : 0..MaxSize, undo : BOOLEAN]
ConnStates == [inUse : BOOLEAN, slot : Jobs, last : Seq(Docs), error : Ids,
               stop : BOOLEAN]
TaskStates ==
    [pc : {"out", "body", "await", "got"}, n : Nat, conn : Conns \cup {0},
     job : Jobs, port : {"none", "ok", "aborted"}, got : Seq(Docs),
     returned : BOOLEAN]

TypeInv ==
    /\ pool \in PoolStates
    /\ conn \in [Conns -> ConnStates]
    /\ worker \in [Conns -> {"none", "check", "asleep", "run", "exited"}]
    /\ task \in [Tasks -> TaskStates]

LoopInv ==
    /\ pool.phase = "create" => pool.made = pool.at - 1
    /\ pool.phase = "open" => pool.made = MaxSize
    /\ pool.phase \in {"stop", "join"} => pool.at <= pool.made

LEMMA ConstantsTyped ==
    /\ NoId \in Ids /\ NoJob \in Jobs
    /\ MaxSize \in Nat \ {0} /\ 1 \in Conns
    /\ <<>> \in Seq(Docs)
BY MaxSizeIsPositive, EmptySeq DEF NoId, Ids, NoJob, Jobs, Conns

LEMMA Records ==
    ASSUME TypeInv
    PROVE  /\ \A t \in Tasks : task[t] \in TaskStates
           /\ \A c \in Conns : conn[c] \in ConnStates
           /\ pool \in PoolStates
BY DEF TypeInv

LEMMA Init1 == Init => TypeInv /\ LoopInv
<1>1. FreshConn \in ConnStates /\ IdleTask \in TaskStates
  BY ConstantsTyped DEF FreshConn, ConnStates, IdleTask, TaskStates
<1> QED
  BY <1>1, ConstantsTyped DEF Init, TypeInv, LoopInv, PoolStates, Conns

-------------------------------------------------------------------------------
(* The least element of a set of naturals, which Min chooses.               *)
LEMMA LeastNat ==
    ASSUME NEW S, S \subseteq Nat, S # {}
    PROVE  \E x \in S : \A y \in S : x <= y
<1> DEFINE R == {ss \in Nat \X Nat : ss[1] < ss[2]}
<1>1. IsWellFoundedOn(R, Nat)
  BY NatLessThanWellFounded DEF OpToRel
<1>2. R = {ss \in Nat \X Nat : ss[1] < ss[2]}
  OBVIOUS
<1> HIDE DEF R
<1>3. PICK x \in S : \A y \in S : ~(<<y, x>> \in R)
  BY <1>1, WFMin
<1>4. \A y \in S : ~(y < x)
  BY <1>2, <1>3
<1> QED
  BY <1>4

LEMMA MinLeast ==
    ASSUME NEW S, S \subseteq Nat, S # {}
    PROVE  Min(S) \in S /\ \A y \in S : Min(S) <= y
BY LeastNat DEF Min

(* The two halves a drain cuts a chain into.                                *)
LEMMA Halves ==
    ASSUME NEW S, NEW s \in Seq(S), NEW k \in 0..Len(s)
    PROVE  /\ SubSeq(s, 1, k) \in Seq(S) /\ Len(SubSeq(s, 1, k)) = k
           /\ \A i \in 1..k : SubSeq(s, 1, k)[i] = s[i]
           /\ SubSeq(s, k + 1, Len(s)) \in Seq(S)
OBVIOUS

-------------------------------------------------------------------------------
(* What each action does to the records it changes, each spelled out as a   *)
(* whole record.                                                            *)
ConnRec(inUse, slot, last, error, stop) ==
    [inUse |-> inUse, slot |-> slot, last |-> last, error |-> error, stop |-> stop]
TaskRec(pc, n, c, job, port, got, returned) ==
    [pc |-> pc, n |-> n, conn |-> c, job |-> job, port |-> port, got |-> got,
     returned |-> returned]

ConnBecomes(c, w) ==
    /\ conn' \in [Conns -> ConnStates]
    /\ conn'[c] = w /\ \A d \in Conns \ {c} : conn'[d] = conn[d]
TaskBecomes(t, v) ==
    /\ task' \in [Tasks -> TaskStates]
    /\ task'[t] = v /\ \A u \in Tasks \ {t} : task'[u] = task[u]

LEMMA ConnUpdate ==
    ASSUME TypeInv, NEW c \in Conns, NEW w \in ConnStates,
           conn' = [conn EXCEPT ![c] = w]
    PROVE  ConnBecomes(c, w)
BY DEF TypeInv, ConnBecomes

LEMMA TaskUpdate ==
    ASSUME TypeInv, NEW t \in Tasks, NEW v \in TaskStates,
           task' = [task EXCEPT ![t] = v]
    PROVE  TaskBecomes(t, v)
BY DEF TypeInv, TaskBecomes

LEMMA ConnLent ==
    ASSUME NEW r \in ConnStates, NEW x \in BOOLEAN, NEW q,
           q = [r EXCEPT !.inUse = x]
    PROVE  q = ConnRec(x, r.slot, r.last, r.error, r.stop) /\ q \in ConnStates
BY DEF ConnStates, ConnRec

LEMMA ConnFilled ==
    ASSUME NEW r \in ConnStates, NEW j \in Jobs, NEW q,
           q = [r EXCEPT !.slot = j]
    PROVE  q = ConnRec(r.inUse, j, r.last, r.error, r.stop) /\ q \in ConnStates
BY DEF ConnStates, ConnRec

LEMMA ConnDrained ==
    ASSUME NEW r \in ConnStates, NEW l \in Seq(Docs), NEW q,
           q = [r EXCEPT !.last = l]
    PROVE  q = ConnRec(r.inUse, r.slot, l, r.error, r.stop) /\ q \in ConnStates
BY DEF ConnStates, ConnRec

LEMMA ConnErred ==
    ASSUME NEW r \in ConnStates, NEW e \in Ids, NEW q,
           q = [r EXCEPT !.error = e]
    PROVE  q = ConnRec(r.inUse, r.slot, r.last, e, r.stop) /\ q \in ConnStates
BY DEF ConnStates, ConnRec

LEMMA ConnStopped ==
    ASSUME NEW r \in ConnStates, NEW q, q = [r EXCEPT !.stop = TRUE]
    PROVE  q = ConnRec(r.inUse, r.slot, r.last, r.error, TRUE) /\ q \in ConnStates
BY DEF ConnStates, ConnRec

LEMMA ConnReset ==
    ASSUME NEW q, q = [FreshConn EXCEPT !.stop = TRUE]
    PROVE  q = ConnRec(FALSE, NoJob, <<>>, NoId, TRUE) /\ q \in ConnStates
BY ConstantsTyped DEF FreshConn, ConnStates, ConnRec

LEMMA ConnAnswered ==
    ASSUME NEW r \in ConnStates, NEW l \in Seq(Docs), NEW e \in Ids, NEW q,
           q = [r EXCEPT !.slot = NoJob, !.last = l, !.error = e]
    PROVE  q = ConnRec(r.inUse, NoJob, l, e, r.stop) /\ q \in ConnStates
BY ConstantsTyped DEF ConnStates, ConnRec

LEMMA TaskLeased ==
    ASSUME NEW n \in Nat, NEW c \in Conns, NEW q,
           q = [IdleTask EXCEPT !.pc = "body", !.n = n, !.conn = c]
    PROVE  q = TaskRec("body", n, c, NoJob, "none", <<>>, FALSE)
           /\ q \in TaskStates
BY ConstantsTyped DEF IdleTask, TaskStates, TaskRec

LEMMA TaskReset ==
    ASSUME NEW n \in Nat, NEW q, q = [IdleTask EXCEPT !.n = n]
    PROVE  q = TaskRec("out", n, 0, NoJob, "none", <<>>, FALSE)
           /\ q \in TaskStates
BY ConstantsTyped DEF IdleTask, TaskStates, TaskRec

LEMMA TaskSubmitted ==
    ASSUME NEW r \in TaskStates, NEW n \in Nat, NEW j \in Jobs, NEW q,
           q = [r EXCEPT !.pc = "await", !.n = n, !.job = j, !.got = <<>>]
    PROVE  q = TaskRec("await", n, r.conn, j, r.port, <<>>, r.returned)
           /\ q \in TaskStates
BY ConstantsTyped DEF TaskStates, TaskRec

LEMMA TaskReceived ==
    ASSUME NEW r \in TaskStates, NEW g \in Seq(Docs), NEW x \in BOOLEAN, NEW q,
           q = [r EXCEPT !.pc = "got", !.port = "none", !.got = g, !.returned = x]
    PROVE  q = TaskRec("got", r.n, r.conn, r.job, "none", g, x)
           /\ q \in TaskStates
BY DEF TaskStates, TaskRec

LEMMA TaskAnswered ==
    ASSUME NEW r \in TaskStates, NEW x \in {"ok", "aborted"}, NEW q,
           q = [r EXCEPT !.port = x]
    PROVE  q = TaskRec(r.pc, r.n, r.conn, r.job, x, r.got, r.returned)
           /\ q \in TaskStates
BY DEF TaskStates, TaskRec

-------------------------------------------------------------------------------
(* The actions, each as what it does to its records. *)

LeasesAt(t, c) ==
    /\ ~conn[c].inUse
    /\ ConnBecomes(c, ConnRec(TRUE, conn[c].slot, conn[c].last, conn[c].error,
                              conn[c].stop))
    /\ TaskBecomes(t, TaskRec("body", task[t].n, c, NoJob, "none", <<>>, FALSE))
Leases(t) ==
    /\ pool.phase = "open" /\ task[t].pc = "out"
    /\ UNCHANGED <<pool, worker, server>>
    /\ \E c \in Conns : LeasesAt(t, c)

LEMMA LeaseEffect ==
    ASSUME TypeInv, NEW t \in Tasks, Lease(t)
    PROVE  Leases(t)
<1>1. PICK c \in Conns :
         /\ ~conn[c].inUse
         /\ conn' = [conn EXCEPT ![c].inUse = TRUE]
         /\ task' = [task EXCEPT ![t] = [IdleTask EXCEPT
                        !.pc = "body", !.n = task[t].n, !.conn = c]]
  BY DEF Lease
<1>2. task[t] \in TaskStates /\ conn[c] \in ConnStates /\ task[t].n \in Nat
  BY Records DEF TaskStates
<1>3. PICK w : w = [conn[c] EXCEPT !.inUse = TRUE]
  OBVIOUS
<1>4. PICK v : v = [IdleTask EXCEPT !.pc = "body", !.n = task[t].n, !.conn = c]
  OBVIOUS
<1>5. ConnBecomes(c, w)
  BY <1>1, <1>2, <1>3, ConnLent, ConnUpdate
<1>6. TaskBecomes(t, v)
  BY <1>1, <1>2, <1>4, TaskLeased, TaskUpdate
<1>7. w = ConnRec(TRUE, conn[c].slot, conn[c].last, conn[c].error, conn[c].stop)
  BY <1>2, <1>3, ConnLent
<1>8. v = TaskRec("body", task[t].n, c, NoJob, "none", <<>>, FALSE)
  BY <1>2, <1>4, TaskLeased
<1> QED
  BY <1>1, <1>5, <1>6, <1>7, <1>8 DEF Lease, Leases, LeasesAt

SubmitsJob(t, j) ==
    LET c == task[t].conn
    IN  /\ j \in Jobs /\ j.id = <<t, task[t].n + 1>> /\ j.owner = t
        /\ j.op \in AllOps
        /\ ConnBecomes(c, ConnRec(conn[c].inUse, j, conn[c].last, conn[c].error,
                                  conn[c].stop))
        /\ TaskBecomes(t, TaskRec("await", task[t].n + 1, c, j, task[t].port,
                                  <<>>, task[t].returned))
Submits(t) ==
    LET c == task[t].conn
    IN  /\ pool.phase = "open" /\ conn[c].slot = NoJob
        /\ task[t].pc \in {"body", "got"}
        /\ worker' = [worker EXCEPT ![c] = Woken(c)]
        /\ Forget(t)
        /\ UNCHANGED pool
        /\ \E j \in Jobs : SubmitsJob(t, j)

LEMMA SubmitEffect ==
    ASSUME TypeInv, NEW t \in Tasks, task[t].conn \in Conns, Submit(t)
    PROVE  Submits(t)
<1> DEFINE c == task[t].conn
           n == task[t].n + 1
<1>1. PICK op \in Ops[t], ordered \in BOOLEAN :
         LET job == [id |-> <<t, n>>, owner |-> t, op |-> op,
                     ordered |-> op # "insert_many" \/ ordered]
         IN  /\ conn' = [conn EXCEPT ![c].slot = job]
             /\ task' = [task EXCEPT ![t] = [task[t] EXCEPT
                            !.pc = "await", !.n = n, !.job = job, !.got = <<>>]]
  BY DEF Submit
<1>2. task[t] \in TaskStates /\ conn[c] \in ConnStates /\ n \in Nat
  BY Records DEF TaskStates
<1>3. PICK j : j = [id |-> <<t, n>>, owner |-> t, op |-> op,
                    ordered |-> op # "insert_many" \/ ordered]
  OBVIOUS
<1>4. j \in Jobs /\ j.id = <<t, n>> /\ j.owner = t /\ j.op \in AllOps
  BY <1>2, <1>3, OpsAreKnown DEF Jobs, Ids
<1>5. PICK w : w = [conn[c] EXCEPT !.slot = j]
  OBVIOUS
<1>6. PICK v : v = [task[t] EXCEPT !.pc = "await", !.n = n, !.job = j, !.got = <<>>]
  OBVIOUS
<1>7. conn' = [conn EXCEPT ![c] = w] /\ task' = [task EXCEPT ![t] = v]
  BY <1>1, <1>3, <1>5, <1>6
<1> HIDE DEF n
<1>8. /\ w = ConnRec(conn[c].inUse, j, conn[c].last, conn[c].error, conn[c].stop)
      /\ w \in ConnStates
  BY <1>2, <1>4, <1>5, ConnFilled
<1>9. /\ v = TaskRec("await", n, c, j, task[t].port, <<>>, task[t].returned)
      /\ v \in TaskStates
  BY <1>2, <1>4, <1>6, TaskSubmitted
<1>10. ConnBecomes(c, w) /\ TaskBecomes(t, v)
  BY <1>7, <1>8, <1>9, ConnUpdate, TaskUpdate
<1> QED
  BY <1>4, <1>8, <1>9, <1>10 DEF n, Submit, Submits, SubmitsJob

(* How much of the chain a drain takes is within it. *)
LEMMA TakenTyped ==
    ASSUME TypeInv, NEW t \in Tasks, task[t].conn \in Conns
    PROVE  Taken(t) \in 0..Len(conn[task[t].conn].last)
<1> DEFINE last == conn[task[t].conn].last
           odds == {i \in DOMAIN last : last[i].odd}
<1>1. last \in Seq(Docs) /\ Len(last) \in Nat /\ DOMAIN last = 1..Len(last)
  BY Records, LenProperties DEF ConnStates
<1>2. DrainAll(last) \in 0..Len(last)
  <2>1. CASE odds = {}
    BY <1>1, <2>1 DEF DrainAll
  <2>2. CASE odds # {}
    <3>1. odds \subseteq Nat /\ odds \subseteq 1..Len(last)
      BY <1>1
    <3>2. Min(odds) \in odds
      BY <2>2, <3>1, MinLeast
    <3>3. DrainAll(last) = Min(odds)
      BY <2>2 DEF DrainAll
    <3>4. \A k \in 1..Len(last) : k \in 0..Len(last)
      BY <1>1
    <3> HIDE DEF odds, last
    <3>5. Min(odds) \in 1..Len(last)
      BY <3>1, <3>2
    <3> QED
      BY <3>3, <3>4, <3>5
  <2> QED
    BY <2>1, <2>2
<1>3. DrainOne(last) \in 0..Len(last)
  BY <1>1, EmptySeq DEF DrainOne
<1> QED
  BY <1>1, <1>2, <1>3 DEF Taken

Decodes(got) == \A i \in DOMAIN got : got[i].errors = {} /\ ~got[i].odd
Receives(t) ==
    LET c == task[t].conn
        last == conn[c].last
        got == SubSeq(last, 1, Taken(t))
    IN  /\ pool.phase = "open"
        /\ task[t].pc = "await" /\ task[t].port # "none"
        /\ UNCHANGED <<pool, worker, server>>
        /\ ConnBecomes(c, ConnRec(conn[c].inUse, conn[c].slot,
                                  SubSeq(last, Taken(t) + 1, Len(last)),
                                  conn[c].error, conn[c].stop))
        /\ TaskBecomes(t, TaskRec("got", task[t].n, c, task[t].job, "none", got,
                                  task[t].port = "ok" /\ Decodes(got)))

LEMMA ReceiveEffect ==
    ASSUME TypeInv, NEW t \in Tasks, task[t].conn \in Conns, Receive(t)
    PROVE  Receives(t)
<1> DEFINE c == task[t].conn
           k == Taken(t)
<1>1. task[t] \in TaskStates /\ conn[c] \in ConnStates /\ conn[c].last \in Seq(Docs)
  BY Records DEF ConnStates
<1>2. k \in 0..Len(conn[c].last)
  BY TakenTyped
<1>3. PICK g : g = SubSeq(conn[c].last, 1, k)
  OBVIOUS
<1>4. PICK l : l = SubSeq(conn[c].last, k + 1, Len(conn[c].last))
  OBVIOUS
<1>5. PICK x \in BOOLEAN : x = (task[t].port = "ok" /\ Decodes(g))
  OBVIOUS
<1>6. g \in Seq(Docs) /\ l \in Seq(Docs)
  BY <1>1, <1>2, <1>3, <1>4, Halves
<1>7. PICK w : w = [conn[c] EXCEPT !.last = l]
  OBVIOUS
<1>8. PICK v : v = [task[t] EXCEPT !.pc = "got", !.port = "none", !.got = g,
                                   !.returned = x]
  OBVIOUS
<1>9. conn' = [conn EXCEPT ![c] = w] /\ task' = [task EXCEPT ![t] = v]
  <2>1. conn' = [conn EXCEPT ![c] = w]
    BY <1>4, <1>7 DEF Receive, TypeInv
  <2>2. task' = [task EXCEPT ![t] = v]
    BY <1>3, <1>5, <1>8 DEF Receive, Decodes
  <2> QED
    BY <2>1, <2>2
<1>10. /\ w = ConnRec(conn[c].inUse, conn[c].slot, l, conn[c].error, conn[c].stop)
       /\ w \in ConnStates
  BY <1>1, <1>6, <1>7, ConnDrained
<1>11. /\ v = TaskRec("got", task[t].n, c, task[t].job, "none", g, x)
       /\ v \in TaskStates
  BY <1>1, <1>5, <1>6, <1>8, TaskReceived
<1>12. ConnBecomes(c, w) /\ TaskBecomes(t, v)
  BY <1>9, <1>10, <1>11, ConnUpdate, TaskUpdate
<1> QED
  BY <1>3, <1>4, <1>5, <1>10, <1>11, <1>12 DEF Receive, Resumes, Receives

Releases(t) ==
    LET c == task[t].conn
    IN  /\ pool.phase = "open"
        /\ task[t].pc \in {"body", "got"}
        /\ UNCHANGED <<pool, worker>>
        /\ Forget(t)
        /\ ConnBecomes(c, ConnRec(FALSE, conn[c].slot, conn[c].last,
                                  conn[c].error, conn[c].stop))
        /\ TaskBecomes(t, TaskRec("out", task[t].n, 0, NoJob, "none", <<>>, FALSE))

LEMMA ReleaseEffect ==
    ASSUME TypeInv, NEW t \in Tasks, task[t].conn \in Conns, Release(t)
    PROVE  Releases(t)
<1> DEFINE c == task[t].conn
<1>1. task[t] \in TaskStates /\ conn[c] \in ConnStates /\ task[t].n \in Nat
  BY Records DEF TaskStates
<1>2. PICK w : w = [conn[c] EXCEPT !.inUse = FALSE]
  OBVIOUS
<1>3. PICK v : v = [IdleTask EXCEPT !.n = task[t].n]
  OBVIOUS
<1>4. conn' = [conn EXCEPT ![c] = w] /\ task' = [task EXCEPT ![t] = v]
  BY <1>2, <1>3 DEF Release
<1>5. /\ w = ConnRec(FALSE, conn[c].slot, conn[c].last, conn[c].error, conn[c].stop)
      /\ w \in ConnStates
  BY <1>1, <1>2, ConnLent
<1>6. /\ v = TaskRec("out", task[t].n, 0, NoJob, "none", <<>>, FALSE)
      /\ v \in TaskStates
  BY <1>1, <1>3, TaskReset
<1>7. ConnBecomes(c, w) /\ TaskBecomes(t, v)
  BY <1>4, <1>5, <1>6, ConnUpdate, TaskUpdate
<1> QED
  BY <1>5, <1>6, <1>7 DEF Release, Releases

Stops ==
    LET c == pool.at
    IN  ConnBecomes(c, ConnRec(conn[c].inUse, conn[c].slot, conn[c].last,
                               conn[c].error, TRUE))

LEMMA StopEffect ==
    ASSUME TypeInv, Stop
    PROVE  Stops
<1>1. pool.at \in Conns /\ conn[pool.at] \in ConnStates
  BY Records DEF PoolStates
<1>2. PICK w : w = [conn[pool.at] EXCEPT !.stop = TRUE]
  OBVIOUS
<1>3. conn' = [conn EXCEPT ![pool.at] = w]
  BY <1>2 DEF Stop
<1> QED
  BY <1>1, <1>2, <1>3, ConnStopped, ConnUpdate DEF Stops

Joins == ConnBecomes(pool.at, ConnRec(FALSE, NoJob, <<>>, NoId, TRUE))

LEMMA JoinEffect ==
    ASSUME TypeInv, Join
    PROVE  Joins
<1>1. pool.at \in Conns
  BY Records DEF PoolStates
<1>2. PICK w : w = [FreshConn EXCEPT !.stop = TRUE]
  OBVIOUS
<1>3. conn' = [conn EXCEPT ![pool.at] = w]
  BY <1>2 DEF Join
<1> QED
  BY <1>1, <1>2, <1>3, ConnReset, ConnUpdate DEF Joins

Checks(c) ==
    /\ worker[c] = "check"
    /\ UNCHANGED <<pool, task, server>>
    /\ worker' = [worker EXCEPT ![c] = IF conn[c].slot # NoJob THEN "run"
                                      ELSE IF conn[c].stop THEN "exited"
                                      ELSE "asleep"]
    /\ \/ conn[c].slot = NoJob /\ UNCHANGED conn
       \/ /\ conn[c].slot # NoJob
          /\ ConnBecomes(c, ConnRec(conn[c].inUse, conn[c].slot, conn[c].last,
                                    NoId, conn[c].stop))

LEMMA CheckEffect ==
    ASSUME TypeInv, NEW c \in Conns, Check(c)
    PROVE  Checks(c)
<1>1. CASE conn[c].slot = NoJob
  BY <1>1 DEF Check, Checks
<1>2. CASE conn[c].slot # NoJob
  <2>1. PICK w : w = [conn[c] EXCEPT !.error = NoId]
    OBVIOUS
  <2>2. conn' = [conn EXCEPT ![c] = w]
    BY <1>2, <2>1 DEF Check
  <2>3. w = ConnRec(conn[c].inUse, conn[c].slot, conn[c].last, NoId, conn[c].stop)
        /\ w \in ConnStates
    BY <2>1, Records, ConstantsTyped, ConnErred
  <2>4. ConnBecomes(c, ConnRec(conn[c].inUse, conn[c].slot, conn[c].last, NoId,
                               conn[c].stop))
    BY <2>2, <2>3, ConnUpdate
  <2> QED
    BY <1>2, <2>4 DEF Check, Checks
<1> QED
  BY <1>1, <1>2

Answers(c, last, code) ==
    LET job == conn[c].slot
        t == job.owner
    IN  /\ worker[c] = "run"
        /\ UNCHANGED pool
        /\ worker' = [worker EXCEPT ![c] = "check"]
        /\ ConnBecomes(c, ConnRec(conn[c].inUse, NoJob, last,
                                  set_error(conn[c].error, job.id, code),
                                  conn[c].stop))
        /\ TaskBecomes(t, TaskRec(task[t].pc, task[t].n, task[t].conn, task[t].job,
                                  code, task[t].got, task[t].returned))

LEMMA AnswerEffect ==
    ASSUME TypeInv, NEW c \in Conns, conn[c].slot.owner \in Tasks,
           NEW last \in Seq(Docs), NEW code \in {"ok", "aborted"},
           Answer(c, last, code)
    PROVE  Answers(c, last, code)
<1> DEFINE job == conn[c].slot
           t == job.owner
<1>1. task[t] \in TaskStates /\ conn[c] \in ConnStates
  BY Records
<1>2. PICK e \in Ids : e = set_error(conn[c].error, job.id, code)
  BY <1>1 DEF set_error, ConnStates, Jobs
<1>3. PICK w : w = [conn[c] EXCEPT !.slot = NoJob, !.last = last, !.error = e]
  OBVIOUS
<1>4. PICK v : v = [task[t] EXCEPT !.port = code]
  OBVIOUS
<1>5. conn' = [conn EXCEPT ![c] = w] /\ task' = [task EXCEPT ![t] = v]
  BY <1>2, <1>3, <1>4 DEF Answer
<1>6. /\ w = ConnRec(conn[c].inUse, NoJob, last, e, conn[c].stop)
      /\ w \in ConnStates
  BY <1>1, <1>3, ConnAnswered
<1>7. /\ v = TaskRec(task[t].pc, task[t].n, task[t].conn, task[t].job, code,
                     task[t].got, task[t].returned)
      /\ v \in TaskStates
  BY <1>1, <1>4, TaskAnswered
<1>8. ConnBecomes(c, w) /\ TaskBecomes(t, v)
  BY <1>5, <1>6, <1>7, ConnUpdate, TaskUpdate
<1> QED
  BY <1>2, <1>6, <1>7, <1>8 DEF Answer, Answers

-------------------------------------------------------------------------------
Up == pool.phase \in {"create", "open"}
Awaiting(t) == task[t].pc = "await"

(* A task inside the pool has a connection of its own, which, until the     *)
(* pool is destroyed, is marked in_use.                                     *)
LeaseInv ==
    /\ \A t \in Tasks : task[t].pc # "out" =>
          /\ task[t].conn \in Conns
          /\ Up => conn[task[t].conn].inUse
    /\ \A t, u \in Tasks :
          task[t].pc # "out" /\ task[u].pc # "out" /\ task[t].conn = task[u].conn
          => t = u

(* A filled slot holds the call its lessee awaits, and no other answer has  *)
(* been posted; no thread executes an empty one.                            *)
SlotInv(c) ==
    IF conn[c].slot = NoJob THEN worker[c] # "run"
    ELSE LET t == conn[c].slot.owner
         IN  /\ conn[c].inUse
             /\ t \in Tasks /\ Awaiting(t) /\ task[t].port = "none"
             /\ task[t].conn = c /\ task[t].job = conn[c].slot

(* What a task awaits or has received is a call of its own.                 *)
JobInv(t) ==
    /\ ~Awaiting(t) => task[t].port = "none"
    /\ task[t].pc \in {"await", "got"} => /\ task[t].job.id \in {t} \X (1..task[t].n)
                                          /\ task[t].job.op \in AllOps

MailInv == LeaseInv /\ (\A c \in Conns : SlotInv(c)) /\ (\A t \in Tasks : JobInv(t))

MailInvs == TypeInv /\ LoopInv /\ MailInv

-------------------------------------------------------------------------------
(* MailInv is inductive: action by action. *)

LEMMA MailInit == Init => MailInvs
<1> SUFFICES ASSUME Init PROVE MailInvs
  OBVIOUS
<1>1. TypeInv /\ LoopInv
  BY Init1
<1>2. \A t \in Tasks : task[t].pc = "out" /\ task[t].port = "none"
  BY DEF Init, IdleTask
<1>3. \A c \in Conns : conn[c].slot = NoJob /\ worker[c] = "none"
  BY DEF Init, FreshConn
<1> QED
  BY <1>1, <1>2, <1>3 DEF MailInvs, MailInv, LeaseInv, SlotInv, JobInv, Awaiting

(* A slot whose record, worker and lessee stand still keeps its invariant.  *)
LEMMA SlotKept ==
    ASSUME TypeInv, NEW c \in Conns, SlotInv(c),
           conn'[c].slot = conn[c].slot, conn[c].inUse => conn'[c].inUse,
           worker'[c] = "run" => worker[c] = "run",
           conn[c].slot # NoJob =>
               task'[conn[c].slot.owner] = task[conn[c].slot.owner]
    PROVE  SlotInv(c)'
BY DEF SlotInv, Awaiting

LEMMA JobKept ==
    ASSUME NEW t \in Tasks, JobInv(t), task'[t] = task[t]
    PROVE  JobInv(t)'
BY DEF JobInv, Awaiting

(* A task lives in one connection: a filled slot elsewhere is not its own,  *)
(* and the slot of its own is empty unless it awaits an answer.             *)
LEMMA OthersSlot ==
    ASSUME MailInv, NEW t \in Tasks, NEW c \in Conns, c # task[t].conn,
           conn[c].slot # NoJob
    PROVE  conn[c].slot.owner \in Tasks \ {t}
BY DEF MailInv, SlotInv

LEMMA OwnSlot ==
    ASSUME MailInv, NEW t \in Tasks, task[t].pc # "out",
           ~Awaiting(t) \/ task[t].port # "none"
    PROVE  /\ task[t].conn \in Conns
           /\ conn[task[t].conn].slot = NoJob
BY DEF MailInv, SlotInv, LeaseInv, Awaiting

LEMMA LeaseKeepsMail ==
    ASSUME MailInvs, NEW t \in Tasks, Lease(t)
    PROVE  MailInvs'
<1> USE DEF MailInvs
<1>1. Leases(t)
  BY LeaseEffect
<1>2. PICK c \in Conns : LeasesAt(t, c)
  BY <1>1 DEF Leases
<1>3. /\ ~conn[c].inUse
      /\ \A d \in Conns \ {c} : conn'[d] = conn[d]
      /\ conn'[c].inUse /\ conn'[c].slot = conn[c].slot
      /\ task'[t].pc = "body" /\ task'[t].conn = c /\ task'[t].port = "none"
      /\ task' \in [Tasks -> TaskStates] /\ conn' \in [Conns -> ConnStates]
      /\ \A u \in Tasks \ {t} : task'[u] = task[u]
  BY <1>2 DEF LeasesAt, ConnBecomes, TaskBecomes, ConnRec, TaskRec
<1>4. /\ pool.phase = "open" /\ task[t].pc = "out" /\ UNCHANGED <<pool, worker>>
  BY <1>1 DEF Leases
<1>5. TypeInv' /\ LoopInv'
  BY <1>3, <1>4 DEF TypeInv, LoopInv
<1>6. LeaseInv'
  BY <1>3, <1>4 DEF LeaseInv, MailInv, Up
<1>7. ASSUME NEW d \in Conns PROVE SlotInv(d)'
  <2>1. SlotInv(d)
    BY DEF MailInv
  <2>2. conn[d].slot # NoJob => conn[d].slot.owner \in Tasks \ {t}
    BY <1>4, <2>1 DEF SlotInv, Awaiting
  <2> QED
    BY <1>3, <1>4, <2>1, <2>2, SlotKept
<1>8. ASSUME NEW u \in Tasks PROVE JobInv(u)'
  <2>1. CASE u = t
    BY <1>3, <2>1 DEF JobInv, Awaiting
  <2>2. CASE u # t
    BY <1>3, <2>2, JobKept DEF MailInv
  <2> QED
    BY <2>1, <2>2
<1> QED
  BY <1>5, <1>6, <1>7, <1>8 DEF MailInv

LEMMA SubmitKeepsMail ==
    ASSUME MailInvs, NEW t \in Tasks, Submit(t)
    PROVE  MailInvs'
<1> USE DEF MailInvs
<1>1. PICK c \in Conns : c = task[t].conn
  BY DEF Submit, MailInv, LeaseInv
<1>2. /\ Submits(t) /\ task[t] \in TaskStates
  BY <1>1, SubmitEffect, Records
<1>3. /\ pool.phase = "open" /\ conn[c].slot = NoJob
      /\ task[t].pc \in {"body", "got"} /\ UNCHANGED pool
      /\ worker' = [worker EXCEPT ![c] = Woken(c)]
  BY <1>1, <1>2 DEF Submits
<1>4. PICK j \in Jobs : SubmitsJob(t, j)
  BY <1>2 DEF Submits
<1>5. /\ j.id = <<t, task[t].n + 1>> /\ j.owner = t /\ j.op \in AllOps
      /\ conn' \in [Conns -> ConnStates] /\ task' \in [Tasks -> TaskStates]
      /\ conn'[c].slot = j /\ conn'[c].inUse = conn[c].inUse
      /\ \A d \in Conns \ {c} : conn'[d] = conn[d]
      /\ task'[t].pc = "await" /\ task'[t].n = task[t].n + 1
      /\ task'[t].conn = c /\ task'[t].job = j /\ task'[t].port = task[t].port
      /\ \A u \in Tasks \ {t} : task'[u] = task[u]
  BY <1>1, <1>4 DEF SubmitsJob, ConnBecomes, TaskBecomes, ConnRec, TaskRec
<1>6. j # NoJob /\ j.id \in {t} \X (1..task'[t].n)
  BY <1>2, <1>5, NoTaskIsNoTask DEF NoJob, TaskStates
<1>7. conn[c].inUse /\ task[t].port = "none"
  BY <1>1, <1>3 DEF MailInv, LeaseInv, JobInv, Awaiting, Up
<1>8. TypeInv' /\ LoopInv'
  BY <1>3, <1>5 DEF TypeInv, LoopInv
<1>9. LeaseInv'
  <2>1. \A u \in Tasks : task'[u].conn = task[u].conn
                         /\ (task'[u].pc = "out" <=> task[u].pc = "out")
    BY <1>1, <1>3, <1>5
  <2>2. \A d \in Conns : conn'[d].inUse = conn[d].inUse
    BY <1>5
  <2>3. Up' <=> Up
    BY <1>3 DEF Up
  <2> QED
    BY <2>1, <2>2, <2>3 DEF LeaseInv, MailInv
<1>10. ASSUME NEW d \in Conns PROVE SlotInv(d)'
  <2>1. CASE d = c
    BY <1>5, <1>6, <1>7, <2>1 DEF SlotInv, Awaiting
  <2>2. CASE d # c
    <3>1. worker'[d] = worker[d]
      BY <1>3, <2>2 DEF TypeInv
    <3>2. conn[d].slot # NoJob => conn[d].slot.owner \in Tasks \ {t}
      BY <1>1, <2>2, OthersSlot
    <3> QED
      BY <1>5, <2>2, <3>1, <3>2, SlotKept DEF MailInv
  <2> QED
    BY <2>1, <2>2
<1>11. ASSUME NEW u \in Tasks PROVE JobInv(u)'
  <2>1. CASE u = t
    BY <1>5, <1>6, <2>1 DEF JobInv, Awaiting
  <2>2. CASE u # t
    BY <1>5, <2>2, JobKept DEF MailInv
  <2> QED
    BY <2>1, <2>2
<1> QED
  BY <1>8, <1>9, <1>10, <1>11 DEF MailInv

LEMMA ReceiveKeepsMail ==
    ASSUME MailInvs, NEW t \in Tasks, Receive(t)
    PROVE  MailInvs'
<1> USE DEF MailInvs
<1>1. PICK c \in Conns : c = task[t].conn
  BY DEF Receive, Resumes, MailInv, LeaseInv
<1>2. Receives(t)
  BY <1>1, ReceiveEffect
<1>3. /\ pool.phase = "open" /\ UNCHANGED <<pool, worker>>
      /\ task[t].pc = "await" /\ task[t].port # "none"
      /\ conn' \in [Conns -> ConnStates] /\ task' \in [Tasks -> TaskStates]
      /\ \A d \in Conns \ {c} : conn'[d] = conn[d]
      /\ conn'[c].slot = conn[c].slot /\ conn'[c].inUse = conn[c].inUse
      /\ task'[t].pc = "got" /\ task'[t].conn = c /\ task'[t].port = "none"
      /\ task'[t].n = task[t].n /\ task'[t].job = task[t].job
      /\ \A u \in Tasks \ {t} : task'[u] = task[u]
  BY <1>1, <1>2 DEF Receives, ConnBecomes, TaskBecomes, ConnRec, TaskRec
<1>4. conn[c].slot = NoJob
  BY <1>1, <1>3, OwnSlot
<1>5. TypeInv' /\ LoopInv'
  BY <1>3 DEF TypeInv, LoopInv
<1>6. LeaseInv'
  <2>1. \A u \in Tasks : task'[u].conn = task[u].conn
                         /\ (task'[u].pc = "out" <=> task[u].pc = "out")
    BY <1>1, <1>3
  <2>2. \A d \in Conns : conn'[d].inUse = conn[d].inUse
    BY <1>3
  <2> QED
    BY <1>3, <2>1, <2>2 DEF LeaseInv, MailInv, Up
<1>7. ASSUME NEW d \in Conns PROVE SlotInv(d)'
  <2>1. conn[d].slot # NoJob => conn[d].slot.owner \in Tasks \ {t}
    BY <1>1, <1>4, OthersSlot
  <2> QED
    BY <1>3, <2>1, SlotKept DEF MailInv
<1>8. ASSUME NEW u \in Tasks PROVE JobInv(u)'
  <2>1. CASE u = t
    BY <1>3, <2>1 DEF JobInv, Awaiting, MailInv
  <2>2. CASE u # t
    BY <1>3, <2>2, JobKept DEF MailInv
  <2> QED
    BY <2>1, <2>2
<1> QED
  BY <1>5, <1>6, <1>7, <1>8 DEF MailInv

LEMMA ReleaseKeepsMail ==
    ASSUME MailInvs, NEW t \in Tasks, Release(t)
    PROVE  MailInvs'
<1> USE DEF MailInvs
<1>1. PICK c \in Conns : c = task[t].conn
  BY DEF Release, MailInv, LeaseInv
<1>2. Releases(t)
  BY <1>1, ReleaseEffect
<1>3. /\ pool.phase = "open" /\ UNCHANGED <<pool, worker>>
      /\ task[t].pc \in {"body", "got"}
      /\ conn' \in [Conns -> ConnStates] /\ task' \in [Tasks -> TaskStates]
      /\ \A d \in Conns \ {c} : conn'[d] = conn[d]
      /\ conn'[c].slot = conn[c].slot
      /\ task'[t].pc = "out" /\ task'[t].port = "none"
      /\ \A u \in Tasks \ {t} : task'[u] = task[u]
  BY <1>1, <1>2 DEF Releases, ConnBecomes, TaskBecomes, ConnRec, TaskRec
<1>4. conn[c].slot = NoJob
  BY <1>1, <1>3, OwnSlot DEF Awaiting
<1>5. \A u \in Tasks \ {t} : task[u].pc # "out" => task[u].conn # c
  BY <1>1, <1>3 DEF MailInv, LeaseInv
<1>6. TypeInv' /\ LoopInv'
  BY <1>3 DEF TypeInv, LoopInv
<1>7. LeaseInv'
  <2>1. \A u \in Tasks : task'[u].pc # "out" => task'[u] = task[u] /\ u # t
    BY <1>3
  <2> QED
    BY <1>3, <1>5, <2>1 DEF LeaseInv, MailInv, Up
<1>8. ASSUME NEW d \in Conns PROVE SlotInv(d)'
  <2>1. CASE d = c
    BY <1>3, <1>4, <2>1 DEF SlotInv, MailInv
  <2>2. CASE d # c
    <3>1. conn[d].slot # NoJob => conn[d].slot.owner \in Tasks \ {t}
      BY <1>1, <2>2, OthersSlot
    <3> QED
      BY <1>3, <2>2, <3>1, SlotKept DEF MailInv
  <2> QED
    BY <2>1, <2>2
<1>9. ASSUME NEW u \in Tasks PROVE JobInv(u)'
  <2>1. CASE u = t
    BY <1>3, <2>1 DEF JobInv, Awaiting
  <2>2. CASE u # t
    BY <1>3, <2>2, JobKept DEF MailInv
  <2> QED
    BY <2>1, <2>2
<1> QED
  BY <1>6, <1>7, <1>8, <1>9 DEF MailInv

LEMMA CheckKeepsMail ==
    ASSUME MailInvs, NEW c \in Conns, Check(c)
    PROVE  MailInvs'
<1> USE DEF MailInvs
<1>1. Checks(c)
  BY CheckEffect
<1>2. /\ UNCHANGED <<pool, task>>
      /\ conn' \in [Conns -> ConnStates]
      /\ \A d \in Conns : conn'[d].slot = conn[d].slot
                          /\ conn'[d].inUse = conn[d].inUse
      /\ worker' = [worker EXCEPT ![c] = IF conn[c].slot # NoJob THEN "run"
                                        ELSE IF conn[c].stop THEN "exited"
                                        ELSE "asleep"]
  BY <1>1 DEF Checks, ConnBecomes, ConnRec, TypeInv
<1>3. TypeInv' /\ LoopInv'
  BY <1>2 DEF TypeInv, LoopInv
<1>4. LeaseInv'
  BY <1>2 DEF LeaseInv, MailInv, Up
<1>5. ASSUME NEW d \in Conns PROVE SlotInv(d)'
  BY <1>2 DEF SlotInv, MailInv, TypeInv, Awaiting
<1>6. ASSUME NEW u \in Tasks PROVE JobInv(u)'
  BY <1>2, JobKept DEF MailInv
<1> QED
  BY <1>3, <1>4, <1>5, <1>6 DEF MailInv

(* The task an answer is for awaits it on this connection.                  *)
LEMMA Answered ==
    ASSUME MailInvs, NEW c \in Conns, worker[c] = "run"
    PROVE  LET job == conn[c].slot
           IN  /\ job # NoJob /\ job.owner \in Tasks
               /\ Awaiting(job.owner) /\ task[job.owner].port = "none"
               /\ task[job.owner].conn = c /\ task[job.owner].job = job
               /\ job.id \in {job.owner} \X (1..task[job.owner].n)
               /\ job.op \in AllOps /\ job \in Jobs
BY Records DEF MailInvs, MailInv, SlotInv, JobInv, Awaiting, ConnStates

LEMMA AnswerKeepsMail ==
    ASSUME MailInvs, NEW c \in Conns, NEW last, NEW code, Answers(c, last, code)
    PROVE  MailInvs'
<1> USE DEF MailInvs
<1>1. PICK t \in Tasks : t = conn[c].slot.owner
  BY Answered DEF Answers
<1>2. Awaiting(t) /\ task[t].port = "none" /\ task[t].conn = c
  BY <1>1, Answered DEF Answers
<1>3. /\ UNCHANGED pool
      /\ worker' = [worker EXCEPT ![c] = "check"]
      /\ conn' \in [Conns -> ConnStates] /\ task' \in [Tasks -> TaskStates]
      /\ \A d \in Conns \ {c} : conn'[d] = conn[d]
      /\ conn'[c].slot = NoJob /\ conn'[c].inUse = conn[c].inUse
      /\ task'[t].pc = task[t].pc /\ task'[t].conn = c
      /\ task'[t].n = task[t].n /\ task'[t].job = task[t].job
      /\ \A u \in Tasks \ {t} : task'[u] = task[u]
  BY <1>1, <1>2 DEF Answers, ConnBecomes, TaskBecomes, ConnRec, TaskRec
<1>4. TypeInv' /\ LoopInv'
  BY <1>3 DEF TypeInv, LoopInv
<1>5. LeaseInv'
  <2>1. \A u \in Tasks : task'[u].conn = task[u].conn
                         /\ (task'[u].pc = "out" <=> task[u].pc = "out")
    BY <1>2, <1>3
  <2>2. \A d \in Conns : conn'[d].inUse = conn[d].inUse
    BY <1>3
  <2> QED
    BY <1>3, <2>1, <2>2 DEF LeaseInv, MailInv, Up
<1>6. ASSUME NEW d \in Conns PROVE SlotInv(d)'
  <2>1. CASE d = c
    BY <1>3, <2>1 DEF SlotInv, TypeInv
  <2>2. CASE d # c
    <3>1. conn[d].slot # NoJob => conn[d].slot.owner \in Tasks \ {t}
      BY <1>2, <2>2, OthersSlot
    <3> QED
      BY <1>3, <2>2, <3>1, SlotKept DEF MailInv, TypeInv
  <2> QED
    BY <2>1, <2>2
<1>7. ASSUME NEW u \in Tasks PROVE JobInv(u)'
  <2>1. CASE u = t
    BY <1>2, <1>3, <2>1 DEF JobInv, Awaiting, MailInv
  <2>2. CASE u # t
    BY <1>3, <2>2, JobKept DEF MailInv
  <2> QED
    BY <2>1, <2>2
<1> QED
  BY <1>4, <1>5, <1>6, <1>7 DEF MailInv

LEMMA Gone ==
    ASSUME pool \in PoolStates, NEW at \in Conns,
           NEW phase \in {"stop", "join", "freed"}, Goto(phase, at)
    PROVE  /\ pool' \in PoolStates /\ pool'.phase = phase /\ pool'.at = at
           /\ pool'.made = pool.made
BY DEF PoolStates

(* Where tearing down goes on, within the connections that were made.       *)
LEMMA TearDownGoes ==
    ASSUME TypeInv, LoopInv, Stop \/ Join
    PROVE  \E phase \in {"stop", "join", "freed"}, at \in Conns :
              Goto(phase, at) /\ (phase # "freed" => at <= pool.made)
<1> HIDE DEF Goto
<1>1. pool.phase \in {"stop", "join"} /\ pool \in PoolStates
  BY Records DEF Stop, Join
<1>2. /\ pool.at \in Nat /\ pool.made \in Nat /\ pool.made <= MaxSize
      /\ pool.at <= pool.made /\ pool.at \in Conns /\ 1 \in Conns
  BY <1>1, ConstantsTyped DEF PoolStates, Conns, LoopInv
<1>3. pool.at # pool.made => pool.at + 1 \in Conns /\ pool.at + 1 <= pool.made
  BY <1>2, ConstantsTyped DEF Conns
<1>4. 1 <= pool.made
  BY <1>2 DEF Conns
<1>5. CASE Stop
  <2>1. CASE pool.undo
    <3>1. Goto("join", pool.at)
      BY <1>5, <2>1 DEF Stop
    <3> QED
      BY <1>2, <3>1
  <2>2. CASE ~pool.undo /\ pool.at < pool.made
    <3>1. Goto("stop", pool.at + 1)
      BY <1>5, <2>2 DEF Stop
    <3> QED
      BY <1>2, <1>3, <2>2, <3>1
  <2>3. CASE ~pool.undo /\ ~(pool.at < pool.made)
    <3>1. Goto("join", 1)
      BY <1>5, <2>3 DEF Stop
    <3> QED
      BY <1>2, <1>4, <3>1
  <2> QED
    BY <2>1, <2>2, <2>3
<1>6. CASE Join
  <2>1. CASE pool.at = pool.made
    <3>1. Goto("freed", 1)
      BY <1>6, <2>1 DEF Join
    <3> QED
      BY <1>2, <3>1
  <2>2. CASE pool.at # pool.made
    <3>1. PICK phase \in {"stop", "join"} : Goto(phase, pool.at + 1)
      BY <1>6, <2>2 DEF Join
    <3> QED
      BY <1>3, <2>2, <3>1
  <2> QED
    BY <2>1, <2>2
<1> QED
  BY <1>5, <1>6

LEMMA LifecyclePool ==
    ASSUME TypeInv, LoopInv, Lifecycle \/ Destroy
    PROVE  pool' \in PoolStates /\ LoopInv' /\ (Up' => Up /\ UNCHANGED conn)
<1>1. CASE CreateConn
  <2>1. /\ pool \in PoolStates /\ pool.at \in Conns /\ pool.made = pool.at - 1
        /\ pool.phase = "create" /\ 1 \in Conns
    BY <1>1, Records, ConstantsTyped DEF CreateConn, LoopInv, PoolStates
  <2> DEFINE phase == IF pool.at = MaxSize THEN "open" ELSE "create"
             at == IF pool.at = MaxSize THEN 1 ELSE pool.at + 1
             made == pool.made + 1
  <2>2. pool' = [pool EXCEPT !.made = made, !.phase = phase, !.at = at]
    BY <1>1, <2>1 DEF CreateConn
  <2>3. /\ made \in 0..MaxSize /\ at \in Conns /\ phase \in {"open", "create"}
        /\ phase = "open" => made = MaxSize
        /\ phase = "create" => made = at - 1
    BY <2>1, ConstantsTyped DEF Conns
  <2> HIDE DEF phase, at, made
  <2>4. /\ pool' \in PoolStates /\ pool'.phase = phase /\ pool'.at = at
        /\ pool'.made = made
    BY <2>1, <2>2, <2>3 DEF PoolStates
  <2> QED
    BY <1>1, <2>1, <2>3, <2>4 DEF CreateConn, LoopInv, Up
<1>2. CASE CreateFails
  <2>1. /\ pool \in PoolStates /\ pool.at \in Conns /\ pool.made = pool.at - 1
        /\ pool.phase = "create" /\ 1 \in Conns
    BY <1>2, Records, ConstantsTyped DEF CreateFails, LoopInv, PoolStates
  <2>2. PICK phase \in {"freed", "stop"} :
           /\ pool' = [pool EXCEPT !.phase = phase, !.at = 1, !.undo = TRUE]
           /\ phase = "stop" => pool.made # 0
    BY <1>2 DEF CreateFails
  <2>3. /\ pool' \in PoolStates /\ pool'.phase = phase /\ pool'.at = 1
        /\ pool'.made = pool.made
    BY <2>1, <2>2 DEF PoolStates
  <2> QED
    BY <2>1, <2>2, <2>3 DEF LoopInv, Up, Conns
<1>3. CASE Destroy
  <2>1. /\ pool' \in PoolStates /\ pool'.phase = "stop" /\ pool'.at = 1
        /\ pool'.made = pool.made
    BY <1>3, Gone, Records, ConstantsTyped DEF Destroy
  <2> QED
    BY <1>3, <2>1, ConstantsTyped DEF Destroy, LoopInv, Up
<1>4. CASE Stop \/ Join
  <2>1. PICK phase \in {"stop", "join", "freed"}, at \in Conns :
           Goto(phase, at) /\ (phase # "freed" => at <= pool.made)
    BY <1>4, TearDownGoes
  <2>2. /\ pool' \in PoolStates /\ pool'.phase = phase /\ pool'.at = at
        /\ pool'.made = pool.made
    BY <2>1, Gone, Records
  <2> QED
    BY <2>1, <2>2 DEF LoopInv, Up
<1> QED
  BY <1>1, <1>2, <1>3, <1>4 DEF Lifecycle

(* create and destroy leave the isolate and the server alone, and empty a   *)
(* slot only of a thread that has exited.                                   *)
LEMMA LifecycleQuiet ==
    ASSUME TypeInv, Lifecycle \/ Destroy
    PROVE  /\ UNCHANGED <<task, server>>
           /\ conn' \in [Conns -> ConnStates]
           /\ worker' \in [Conns -> {"none", "check", "asleep", "run", "exited"}]
           /\ \A d \in Conns :
                 /\ worker'[d] = "run" => worker[d] = "run"
                 /\ \/ /\ conn'[d].slot = conn[d].slot
                       /\ conn'[d].inUse = conn[d].inUse
                    \/ conn'[d].slot = NoJob /\ worker'[d] = "exited"
<1>1. CASE CreateConn \/ CreateFails \/ Destroy
  <2>1. UNCHANGED <<conn, task, server>>
    BY <1>1 DEF CreateConn, CreateFails, Destroy
  <2>2. /\ worker' \in [Conns -> {"none", "check", "asleep", "run", "exited"}]
        /\ \A d \in Conns : worker'[d] = "run" => worker[d] = "run"
    BY <1>1 DEF CreateConn, CreateFails, Destroy, TypeInv
  <2> QED
    BY <2>1, <2>2 DEF TypeInv
<1>2. CASE Stop
  <2>1. /\ conn' \in [Conns -> ConnStates]
        /\ \A d \in Conns : /\ conn'[d].slot = conn[d].slot
                            /\ conn'[d].inUse = conn[d].inUse
    BY <1>2, StopEffect DEF Stops, ConnBecomes, ConnRec
  <2>2. worker' = [worker EXCEPT ![pool.at] = Woken(pool.at)]
    BY <1>2 DEF Stop
  <2>3. /\ worker' \in [Conns -> {"none", "check", "asleep", "run", "exited"}]
        /\ \A d \in Conns : worker'[d] = "run" => worker[d] = "run"
    BY <2>2 DEF TypeInv
  <2>4. UNCHANGED <<task, server>>
    BY <1>2 DEF Stop
  <2> QED
    BY <2>1, <2>3, <2>4
<1>3. CASE Join
  <2>1. /\ conn' \in [Conns -> ConnStates]
        /\ \A d \in Conns : \/ /\ conn'[d].slot = conn[d].slot
                               /\ conn'[d].inUse = conn[d].inUse
                            \/ conn'[d].slot = NoJob /\ d = pool.at
    BY <1>3, JoinEffect DEF Joins, ConnBecomes, ConnRec
  <2>2. UNCHANGED <<task, server, worker>> /\ worker[pool.at] = "exited"
    BY <1>3 DEF Join
  <2> QED
    BY <2>1, <2>2 DEF TypeInv
<1> QED
  BY <1>1, <1>2, <1>3 DEF Lifecycle

LEMMA LifecycleKeepsMail ==
    ASSUME MailInvs, Lifecycle \/ Destroy
    PROVE  MailInvs'
<1>1. TypeInv /\ LoopInv /\ LeaseInv
  BY DEF MailInvs, MailInv
<1>2. pool' \in PoolStates /\ LoopInv' /\ (Up' => Up /\ UNCHANGED conn)
  BY <1>1, LifecyclePool
<1>3. /\ UNCHANGED task
      /\ conn' \in [Conns -> ConnStates]
      /\ worker' \in [Conns -> {"none", "check", "asleep", "run", "exited"}]
  BY <1>1, LifecycleQuiet
<1>4. TypeInv'
  BY <1>1, <1>2, <1>3 DEF TypeInv
<1>5. LeaseInv'
  BY <1>1, <1>2, <1>3 DEF LeaseInv
<1>6. ASSUME NEW d \in Conns PROVE SlotInv(d)'
  <2>1. SlotInv(d)
    BY DEF MailInvs, MailInv
  <2>2. CASE conn'[d].slot = NoJob /\ worker'[d] = "exited"
    BY <2>2 DEF SlotInv
  <2>3. CASE conn'[d].slot = conn[d].slot /\ conn'[d].inUse = conn[d].inUse
    BY <1>1, <1>3, <2>1, <2>3, LifecycleQuiet, SlotKept
  <2> QED
    BY <1>1, <2>2, <2>3, LifecycleQuiet
<1>7. ASSUME NEW u \in Tasks PROVE JobInv(u)'
  BY <1>3, JobKept DEF MailInvs, MailInv
<1> QED
  BY <1>2, <1>4, <1>5, <1>6, <1>7 DEF MailInvs, MailInv

-------------------------------------------------------------------------------
(* What the worker may answer with.                                         *)
LEMMA ReplyTyped ==
    ASSUME NEW id \in Ids, NEW n \in Nat, NEW errors \in SUBSET Nat
    PROVE  <<Reply(id, n, errors)>> \in Seq(Docs)
<1>1. Reply(id, n, errors) \in Docs
  BY DEF Reply, Docs
<1> QED
  BY <1>1

(* A count of documents, and that a part of them is not more.               *)
LEMMA Counts ==
    ASSUME NEW S \in SUBSET (1..MaxDocs)
    PROVE  /\ Cardinality(S) \in Nat
           /\ \A R \in SUBSET S : Cardinality(R) \in Nat
                                  /\ Cardinality(R) <= Cardinality(S)
<1>1. IsFiniteSet(1..MaxDocs)
  BY MaxDocsIsNat, FS_Interval
<1>2. \A R \in SUBSET (1..MaxDocs) : IsFiniteSet(R)
  BY <1>1, FS_Subset
<1>3. \A R \in SUBSET S : IsFiniteSet(R) /\ Cardinality(R) <= Cardinality(S)
  BY <1>2, FS_Subset
<1> QED
  BY <1>2, <1>3, FS_CardinalityType

(* What the server does with the documents 1..sent, of which it refuses     *)
(* `bad`: it names no inserted one; it has inserted all of them if it       *)
(* refuses none, otherwise it names some and, unordered, accounts for each. *)
LEMMA ServerAccounts ==
    ASSUME NEW ordered \in BOOLEAN, NEW sent \in 0..MaxDocs, NEW bad \in SUBSET (1..sent)
    PROVE  LET in == Inserted(ordered, sent, bad)
               errors == Refused(ordered, bad)
           IN  /\ in \in SUBSET (1..MaxDocs) /\ errors \in SUBSET Nat
               /\ errors \cap in = {}
               /\ bad = {} => in = 1..sent /\ errors = {}
               /\ bad # {} => errors # {} /\ (~ordered => errors \cup in = 1..sent)
<1>1. CASE bad = {}
  <2>1. Inserted(ordered, sent, bad) = 1..sent /\ Refused(ordered, bad) = {}
    BY <1>1 DEF Inserted, Refused
  <2>2. 1..sent \in SUBSET (1..MaxDocs)
    BY MaxDocsIsNat
  <2> QED
    BY <1>1, <2>1, <2>2
<1>2. CASE bad # {} /\ ~ordered
  <2>1. Inserted(ordered, sent, bad) = (1..sent) \ bad /\ Refused(ordered, bad) = bad
    BY <1>2 DEF Inserted, Refused
  <2>2. PICK all : all = 1..sent /\ all \subseteq Nat /\ all \subseteq 1..MaxDocs
    BY MaxDocsIsNat
  <2>3. /\ all \ bad \in SUBSET (1..MaxDocs) /\ bad \in SUBSET Nat
        /\ bad \cap (all \ bad) = {} /\ bad \cup (all \ bad) = all
    BY <2>2
  <2> QED
    BY <1>2, <2>1, <2>2, <2>3
<1>3. CASE bad # {} /\ ordered
  <2>1. PICK m \in bad : m = Min(bad)
    <3>1. bad \subseteq Nat
      BY MaxDocsIsNat
    <3> QED
      BY <1>3, <3>1, MinLeast
  <2>2. Inserted(ordered, sent, bad) = 1..(m - 1) /\ Refused(ordered, bad) = {m}
    BY <1>3, <2>1 DEF Inserted, Refused
  <2>3. 1..(m - 1) \in SUBSET (1..MaxDocs) /\ m \in Nat /\ {m} \cap 1..(m - 1) = {}
    BY MaxDocsIsNat
  <2> QED
    BY <1>3, <2>2, <2>3
<1> QED
  BY <1>1, <1>2, <1>3

(* The ways the worker ends an operation, with what it leaves on the        *)
(* connection.                                                              *)
Finds(c) ==
    LET id == conn[c].slot.id
    IN  /\ conn[c].slot.op = "find" /\ UNCHANGED server
        /\ \/ \E last \in Seq(Docs) :
                 /\ \A i \in DOMAIN last : last[i].id = id /\ last[i].i = i
                 /\ Answers(c, last, "ok")
           \/ Answers(c, <<>>, "aborted")
Writes(c) ==
    /\ conn[c].slot.op \in SingleReply /\ UNCHANGED server
    /\ \/ Answers(c, <<Reply(conn[c].slot.id, 0, {})>>, "ok")
       \/ Answers(c, conn[c].last, "aborted")

(* The documents of insert_many that the server has of a call.              *)
In(id) == {d[2] : d \in {e \in coll : e[1] = id}}
News(id, in) == {<<id, i>> : i \in in}

InsertsMany(c) ==
    LET job == conn[c].slot
    IN  \/ \E in \in SUBSET (1..MaxDocs), errors \in SUBSET Nat, code \in {"ok", "aborted"} :
              /\ errors \cap in = {}
              /\ code = "ok" => in = 1..MaxDocs /\ errors = {}
              /\ code = "aborted" /\ job.id \notin unnamed' =>
                    errors # {} /\ (~job.ordered => errors \cup in = 1..MaxDocs)
              /\ coll' = coll \cup News(job.id, in)
              /\ unnamed' \in {unnamed, unnamed \cup {job.id}}
              /\ UNCHANGED <<lost, unstored>>
              /\ Answers(c, <<Reply(job.id, Cardinality(in), errors)>>, code)
        \/ \E in \in SUBSET (1..MaxDocs), named \in SUBSET Nat :
           \E known \in SUBSET in :
              /\ named \cap in = {}
              /\ coll' = coll \cup News(job.id, in)
              /\ lost' = lost \cup {job.id} /\ UNCHANGED <<unnamed, unstored>>
              /\ Answers(c, <<Reply(job.id, Cardinality(known), named)>>, "aborted")
InsertsUnstored(c) ==
    LET job == conn[c].slot
    IN  /\ \E in \in SUBSET (1..MaxDocs) : coll' = coll \cup News(job.id, in)
        /\ unstored' = unstored \cup {job.id} /\ UNCHANGED <<lost, unnamed>>
        /\ Answers(c, conn[c].last, "aborted")

LEMMA FindEffect ==
    ASSUME MailInvs, NEW c \in Conns, Find(c)
    PROVE  Finds(c)
<1>1. worker[c] = "run"
  BY DEF Find, Answer
<1>2. /\ TypeInv /\ conn[c].slot.owner \in Tasks
      /\ conn[c].slot.id \in Ids
  BY <1>1, Answered DEF MailInvs, Jobs
<1>3. CASE Answer(c, <<>>, "aborted")
  <2>1. Answers(c, <<>>, "aborted")
    BY <1>2, <1>3, ConstantsTyped, AnswerEffect
  <2> QED
    BY <2>1 DEF Find, Finds
<1>4. CASE \E k \in 0..MaxDocs, odd \in 0..MaxDocs :
             Answer(c, [i \in 1..k |-> Doc(conn[c].slot.id, i, i = odd)], "ok")
  <2>1. PICK k \in 0..MaxDocs, odd \in 0..MaxDocs :
           Answer(c, [i \in 1..k |-> Doc(conn[c].slot.id, i, i = odd)], "ok")
    BY <1>4
  <2>2. PICK last : last = [i \in 1..k |-> Doc(conn[c].slot.id, i, i = odd)]
    OBVIOUS
  <2>3. k \in Nat /\ \A i \in 1..k : Doc(conn[c].slot.id, i, i = odd) \in Docs
    BY <1>2, MaxDocsIsNat DEF Doc, Docs
  <2>4. last \in [1..k -> Docs] /\ DOMAIN last = 1..k
    BY <2>2, <2>3
  <2>5. last \in Seq(Docs)
    BY <2>3, <2>4, SeqDef
  <2>6. \A i \in DOMAIN last : last[i].id = conn[c].slot.id /\ last[i].i = i
    BY <2>2, <2>4 DEF Doc
  <2>7. Answers(c, last, "ok")
    BY <1>2, <2>1, <2>2, <2>5, AnswerEffect
  <2> QED
    BY <2>5, <2>6, <2>7 DEF Find, Finds
<1> QED
  BY <1>3, <1>4 DEF Find

LEMMA WriteEffect ==
    ASSUME MailInvs, NEW c \in Conns, Write(c)
    PROVE  Writes(c)
<1> DEFINE reply == <<Reply(conn[c].slot.id, 0, {})>>
<1>1. worker[c] = "run"
  BY DEF Write, Answer
<1>2. /\ TypeInv /\ conn[c].slot.owner \in Tasks
      /\ conn[c].slot.id \in Ids /\ conn[c].last \in Seq(Docs)
  BY <1>1, Answered, Records DEF MailInvs, Jobs, ConnStates
<1>3. reply \in Seq(Docs)
  BY <1>2, ReplyTyped
<1>4. Answer(c, reply, "ok") \/ Answer(c, conn[c].last, "aborted")
  BY DEF Write, StoreSingle
<1> HIDE DEF reply
<1>5. Answers(c, reply, "ok") \/ Answers(c, conn[c].last, "aborted")
  BY <1>2, <1>3, <1>4, AnswerEffect
<1> QED
  BY <1>5 DEF Write, Writes, reply

LEMMA InsertManyEffect ==
    ASSUME MailInvs, NEW c \in Conns, InsertMany(c)
    PROVE  InsertsMany(c) /\ conn[c].slot.op = "insert_many"
<1> DEFINE job == conn[c].slot
           S(count, errors) == <<Reply(job.id, count, errors)>>
<1>1. worker[c] = "run"
  BY DEF InsertMany, Answer
<1>2. /\ TypeInv /\ job.owner \in Tasks /\ job.id \in Ids /\ job.ordered \in BOOLEAN
  BY <1>1, Answered DEF MailInvs, Jobs
<1>3. ASSUME NEW sent \in 0..MaxDocs, NEW concern \in BOOLEAN,
             NEW bad \in SUBSET (1..sent),
             LET in == Inserted(job.ordered, sent, bad)
                 reply == Reply(job.id, Cardinality(in), Refused(job.ordered, bad))
                 whole == sent < MaxDocs \/ concern
                 ok == bad = {} /\ ~whole
             IN  /\ coll' = coll \cup {<<job.id, i>> : i \in in}
                 /\ Answer(c, StoreReply(conn[c].last, reply, ok),
                           IF ok THEN "ok" ELSE "aborted")
                 /\ unnamed' = IF whole THEN unnamed \cup {job.id} ELSE unnamed
                 /\ UNCHANGED <<lost, unstored>>
      PROVE  InsertsMany(c)
  <2>1. PICK in : in = Inserted(job.ordered, sent, bad)
    OBVIOUS
  <2>2. PICK errors : errors = Refused(job.ordered, bad)
    OBVIOUS
  <2>3. PICK whole \in BOOLEAN : whole = (sent < MaxDocs \/ concern)
    OBVIOUS
  <2>4. PICK code \in {"ok", "aborted"} :
           code = IF bad = {} /\ ~whole THEN "ok" ELSE "aborted"
    OBVIOUS
  <2>5. /\ in \in SUBSET (1..MaxDocs) /\ errors \in SUBSET Nat
        /\ errors \cap in = {}
        /\ bad = {} => in = 1..sent /\ errors = {}
        /\ bad # {} => errors # {} /\ (~job.ordered => errors \cup in = 1..sent)
    BY <1>2, <2>1, <2>2, ServerAccounts
  <2>6. ~whole => sent = MaxDocs
    <3>1. ~(sent < MaxDocs) => sent = MaxDocs
      BY MaxDocsIsNat
    <3> QED
      BY <2>3, <3>1, Zenon
  <2>7. /\ coll' = coll \cup News(job.id, in) /\ UNCHANGED <<lost, unstored>>
        /\ unnamed' = IF whole THEN unnamed \cup {job.id} ELSE unnamed
    BY <1>3, <2>1, <2>3 DEF News
  <2>8. code = "ok" => in = 1..MaxDocs /\ errors = {}
    BY <2>4, <2>5, <2>6
  <2>9. code = "aborted" /\ job.id \notin unnamed' =>
           errors # {} /\ (~job.ordered => errors \cup in = 1..MaxDocs)
    BY <2>4, <2>5, <2>6, <2>7
  <2>10. S(Cardinality(in), errors) \in Seq(Docs)
    BY <1>2, <2>5, Counts, ReplyTyped
  <2>11. Answer(c, S(Cardinality(in), errors), code)
    BY <1>3, <2>1, <2>2, <2>3, <2>4 DEF StoreReply, StoreSingle
  <2>12. Answers(c, S(Cardinality(in), errors), code)
    BY <1>2, <2>10, <2>11, AnswerEffect
  <2> QED
    BY <2>5, <2>7, <2>8, <2>9, <2>12 DEF InsertsMany
<1>4. ASSUME NEW in \in SUBSET (1..MaxDocs), NEW known \in SUBSET in,
             NEW named \in SUBSET ((1..MaxDocs) \ in),
             LET reply == Reply(job.id, Cardinality(known), named)
             IN  /\ coll' = coll \cup {<<job.id, i>> : i \in in}
                 /\ Answer(c, StoreReply(conn[c].last, reply, FALSE), "aborted")
                 /\ lost' = lost \cup {job.id}
                 /\ UNCHANGED <<unnamed, unstored>>
      PROVE  InsertsMany(c)
  <2>1. named \in SUBSET Nat /\ named \cap in = {}
    OBVIOUS
  <2>2. S(Cardinality(known), named) \in Seq(Docs)
    BY <1>2, <2>1, Counts, ReplyTyped
  <2>3. Answer(c, S(Cardinality(known), named), "aborted")
    BY <1>4 DEF StoreReply, StoreSingle
  <2>4. Answers(c, S(Cardinality(known), named), "aborted")
    BY <1>2, <2>2, <2>3, AnswerEffect
  <2>5. coll' = coll \cup News(job.id, in)
    BY <1>4 DEF News
  <2> QED
    BY <1>4, <2>1, <2>4, <2>5 DEF InsertsMany
<1> QED
  BY <1>3, <1>4 DEF InsertMany

LEMMA InsertUnstoredEffect ==
    ASSUME MailInvs, NEW c \in Conns, InsertManyUnstored(c)
    PROVE  InsertsUnstored(c) /\ conn[c].slot.op = "insert_many"
<1>1. worker[c] = "run"
  BY DEF InsertManyUnstored, Answer
<1>2. /\ TypeInv /\ conn[c].slot.owner \in Tasks /\ conn[c].last \in Seq(Docs)
  BY <1>1, Answered, Records DEF MailInvs, ConnStates
<1>3. Answers(c, conn[c].last, "aborted")
  BY <1>2, AnswerEffect DEF InsertManyUnstored
<1>4. \E in \in SUBSET (1..MaxDocs) : coll' = coll \cup News(conn[c].slot.id, in)
  BY DEF InsertManyUnstored, News
<1> QED
  BY <1>3, <1>4 DEF InsertManyUnstored, InsertsUnstored

LEMMA WorkKeepsMail ==
    ASSUME MailInvs, NEW c \in Conns, Work(c)
    PROVE  MailInvs'
<1>1. CASE Find(c) \/ Write(c)
  BY <1>1, FindEffect, WriteEffect, AnswerKeepsMail DEF Finds, Writes
<1>2. CASE InsertMany(c) \/ InsertManyUnstored(c)
  BY <1>2, InsertManyEffect, InsertUnstoredEffect, AnswerKeepsMail
  DEF InsertsMany, InsertsUnstored
<1> QED
  BY <1>1, <1>2, CheckKeepsMail DEF Work

LEMMA MailStutters ==
    ASSUME MailInvs, UNCHANGED vars
    PROVE  MailInvs'
<1>1. /\ UNCHANGED <<pool, conn, worker, task>> /\ TypeInv /\ LoopInv /\ LeaseInv
      /\ (\A c \in Conns : SlotInv(c)) /\ (\A t \in Tasks : JobInv(t))
  BY DEF vars, MailInvs, MailInv
<1>2. TypeInv' /\ LoopInv' /\ LeaseInv'
  BY <1>1 DEF TypeInv, LoopInv, LeaseInv, Up
<1>3. \A c \in Conns : SlotInv(c)'
  BY <1>1 DEF SlotInv, Awaiting
<1>4. \A t \in Tasks : JobInv(t)'
  BY <1>1 DEF JobInv, Awaiting
<1> QED
  BY <1>2, <1>3, <1>4 DEF MailInvs, MailInv

LEMMA MailInvariance == Spec => []MailInvs
<1>1. ASSUME MailInvs, [Next]_vars PROVE MailInvs'
  <2>1. CASE UNCHANGED vars
    BY <1>1, <2>1, MailStutters
  <2>2. ASSUME NEW t \in Tasks, Lease(t) \/ Submit(t) \/ Receive(t) \/ Release(t)
        PROVE  MailInvs'
    BY <1>1, <2>2, LeaseKeepsMail, SubmitKeepsMail, ReceiveKeepsMail,
       ReleaseKeepsMail
  <2>3. ASSUME NEW c \in Conns, Work(c) PROVE MailInvs'
    BY <1>1, <2>3, WorkKeepsMail
  <2>4. CASE Lifecycle \/ Destroy
    BY <1>1, <2>4, LifecycleKeepsMail
  <2> QED
    BY <1>1, <2>1, <2>2, <2>3, <2>4 DEF Next
<1> QED
  BY <1>1, MailInit, PTL DEF Spec

-------------------------------------------------------------------------------
(* The answer, from the worker to the task.                                 *)

(* The server has nothing of any call of t.                                 *)
Untold(t) == /\ \A d \in coll : d[1][1] # t
             /\ \A id \in lost \cup unnamed \cup unstored : id[1] # t

(* The reply r to insert_many, with the code it came with, is what the      *)
(* server did: see InsertManyIsAccounted.                                   *)
Says(job, r, code) ==
    LET id == job.id
    IN  /\ r.id = id /\ r.i = 0
        /\ code = "ok" => /\ r.errors = {} /\ ~r.odd /\ In(id) = 1..MaxDocs
                          /\ id \notin lost
        /\ r.errors \cap In(id) = {}
        /\ id \notin lost => r.count = Cardinality(In(id))
        /\ code # "ok" /\ id \notin lost \cup unnamed =>
              /\ r.errors # {}
              /\ ~job.ordered => r.errors \cup In(id) = 1..MaxDocs
        /\ id \in lost => r.count <= Cardinality(In(id))

(* A call nobody executes yet has done nothing; once an answer is posted,   *)
(* the chain and the error on the connection belong to it.                  *)
PostKept(t) ==
    LET job == task[t].job
        port == task[t].port
        last == conn[task[t].conn].last
    IN  /\ Awaiting(t) /\ port = "none" => Untold(t)
        /\ Up /\ Awaiting(t) /\ port # "none" =>
              /\ port = "aborted" => conn[task[t].conn].error = job.id
              /\ port = "ok" /\ job.op = "find" =>
                    \A i \in DOMAIN last : last[i].id = job.id /\ last[i].i = i
              /\ port = "ok" /\ job.op \in SingleReply =>
                    last = <<Reply(job.id, 0, {})>>
              /\ job.op = "insert_many" =>
                    IF job.id \in unstored THEN port = "aborted" /\ job.id \notin lost
                    ELSE Len(last) = 1 /\ Says(job, last[1], port)

(* What a task has drained is the answer to its last call.                  *)
Responds(job, got, code) ==
    /\ job.id \notin unstored =>
          \A i \in DOMAIN got :
             got[i].id = job.id /\ got[i].i = IF job.op = "find" THEN i ELSE 0
    /\ job.op = "insert_many" =>
          IF job.id \in unstored THEN code = "aborted" /\ job.id \notin lost
          ELSE Len(got) = 1 /\ Says(job, got[1], code)

GotKept(t) ==
    task[t].pc = "got" =>
        Responds(task[t].job, task[t].got, IF task[t].returned THEN "ok" ELSE "aborted")

AnswerInv == \A t \in Tasks : PostKept(t) /\ GotKept(t)

-------------------------------------------------------------------------------
(* What a step leaves of the outcome of a call.                             *)
SameOutcome(id) == /\ In(id)' = In(id)
                   /\ (id \in lost)' <=> (id \in lost)
                   /\ (id \in unnamed)' <=> (id \in unnamed)
                   /\ (id \in unstored)' <=> (id \in unstored)

LEMMA SaysKept ==
    ASSUME NEW job, NEW r, NEW code, SameOutcome(job.id), Says(job, r, code)
    PROVE  Says(job, r, code)'
BY DEF SameOutcome, Says

LEMMA ForgetKeeps ==
    ASSUME NEW t, Forget(t)
    PROVE  /\ Untold(t)'
           /\ \A u : Untold(u) => Untold(u)'
           /\ \A id : id[1] # t => SameOutcome(id)
<1>1. Untold(t)' /\ \A u : Untold(u) => Untold(u)'
  BY DEF Forget, Untold
<1>2. ASSUME NEW id, id[1] # t PROVE SameOutcome(id)
  <2>1. {e \in coll : e[1] = id}' = {e \in coll : e[1] = id}
    BY <1>2 DEF Forget
  <2> QED
    BY <1>2, <2>1 DEF SameOutcome, In, Forget
<1> QED
  BY <1>1, <1>2

(* The server answers one call: it may add to the outcome of that one.      *)
Adds(id) ==
    /\ \E in : coll' = coll \cup News(id, in)
    /\ lost' \in {lost, lost \cup {id}} /\ unnamed' \in {unnamed, unnamed \cup {id}}
    /\ unstored' \in {unstored, unstored \cup {id}}

LEMMA AddsKeeps ==
    ASSUME NEW id, Adds(id)
    PROVE  /\ \A u : id[1] # u /\ Untold(u) => Untold(u)'
           /\ \A other : other # id => SameOutcome(other)
<1>1. PICK in : coll' = coll \cup News(id, in)
  BY DEF Adds
<1>2. \A d \in News(id, in) : d[1] = id
  BY DEF News
<1>3. \A d \in coll' : d \in coll \/ d[1] = id
  BY <1>1, <1>2
<1>4. \A other \in lost' \cup unnamed' \cup unstored' :
         other \in lost \cup unnamed \cup unstored \/ other = id
  BY DEF Adds
<1>5. \A u : id[1] # u /\ Untold(u) => Untold(u)'
  BY <1>3, <1>4 DEF Untold
<1>6. ASSUME NEW other, other # id PROVE SameOutcome(other)
  <2>1. {e \in coll : e[1] = other}' = {e \in coll : e[1] = other}
    BY <1>1, <1>2, <1>6
  <2> QED
    BY <1>6, <2>1 DEF SameOutcome, In, Adds
<1> QED
  BY <1>5, <1>6

LEMMA UnchangedKeeps ==
    ASSUME UNCHANGED server
    PROVE  /\ \A u : Untold(u) => Untold(u)'
           /\ \A id : SameOutcome(id)
BY DEF server, Untold, SameOutcome, In

(* What the server has of a call it had nothing of.                         *)
LEMMA InAfter ==
    ASSUME NEW id, NEW in, Untold(id[1]), coll' = coll \cup News(id, in)
    PROVE  In(id)' = in
<1>1. {e \in coll' : e[1] = id} = News(id, in)
  BY DEF Untold, News
<1>2. {d[2] : d \in News(id, in)} = in
  <2>1. ASSUME NEW i \in in PROVE i \in {d[2] : d \in News(id, in)}
    <3>1. <<id, i>> \in News(id, in) /\ <<id, i>>[2] = i
      BY DEF News
    <3> QED
      BY <3>1
  <2>2. \A d \in News(id, in) : d[2] \in in
    BY DEF News
  <2> QED
    BY <2>1, <2>2
<1> QED
  BY <1>1, <1>2 DEF In

-------------------------------------------------------------------------------
(* A step that touches neither a task nor the outcome of its call keeps     *)
(* what is known of its answer, if it is not in its connection either.      *)
LEMMA RespondsKept ==
    ASSUME NEW job, NEW got, NEW code, SameOutcome(job.id), Responds(job, got, code)
    PROVE  Responds(job, got, code)'
<1>1. PICK r : r = got[1]
  OBVIOUS
<1>2. Says(job, r, code) => Says(job, r, code)'
  BY SaysKept
<1> QED
  BY <1>1, <1>2 DEF SameOutcome, Responds

LEMMA GotStays ==
    ASSUME MailInvs, NEW u \in Tasks, task'[u] = task[u], GotKept(u),
           \A id \in {task[u].job.id} : task[u].pc = "got" => SameOutcome(id)
    PROVE  GotKept(u)'
<1>1. SUFFICES ASSUME task[u].pc = "got" PROVE GotKept(u)'
  BY DEF GotKept
<1>2. PICK job : job = task[u].job
  OBVIOUS
<1>3. PICK got : got = task[u].got
  OBVIOUS
<1>4. PICK code : code = IF task[u].returned THEN "ok" ELSE "aborted"
  OBVIOUS
<1>5. Responds(job, got, code)
  BY <1>1, <1>2, <1>3, <1>4 DEF GotKept
<1>6. Responds(job, got, code)'
  BY <1>1, <1>2, <1>5, RespondsKept
<1> QED
  BY <1>2, <1>3, <1>4, <1>6 DEF GotKept

LEMMA PostStays ==
    ASSUME MailInvs, NEW u \in Tasks, task'[u] = task[u], PostKept(u), Up' => Up,
           Untold(u) => Untold(u)',
           \A id \in {task[u].job.id} :
               Awaiting(u) /\ task[u].port # "none" => SameOutcome(id),
           Up /\ Awaiting(u) /\ task[u].port # "none" =>
               /\ conn'[task[u].conn].last = conn[task[u].conn].last
               /\ conn'[task[u].conn].error = conn[task[u].conn].error
    PROVE  PostKept(u)'
<1>1. Awaiting(u) /\ task[u].port = "none" => Untold(u)'
  BY DEF PostKept
<1>2. CASE ~(Up' /\ Awaiting(u) /\ task[u].port # "none")
  BY <1>1, <1>2 DEF PostKept, Awaiting
<1>3. CASE Up' /\ Awaiting(u) /\ task[u].port # "none"
  <2>1. PICK job : job = task[u].job
    OBVIOUS
  <2>2. PICK r : r = conn[task[u].conn].last[1]
    OBVIOUS
  <2>3. PICK code : code = task[u].port
    OBVIOUS
  <2>4. Says(job, r, code) => Says(job, r, code)'
    BY <1>3, <2>1, SaysKept
  <2>5. /\ (job.id \in lost)' = (job.id \in lost)
        /\ (job.id \in unstored)' = (job.id \in unstored)
    BY <1>3, <2>1 DEF SameOutcome
  <2> QED
    BY <1>3, <2>1, <2>2, <2>3, <2>4, <2>5 DEF PostKept, Awaiting
<1> QED
  BY <1>2, <1>3

(* A step of task t, or on the connection c it is in, as the others see it. *)
LEMMA OthersKeep ==
    ASSUME MailInvs, AnswerInv, NEW t \in Tasks, NEW c \in Conns,
           \A u \in Tasks \ {t} : task'[u] = task[u],
           \A d \in Conns \ {c} : conn'[d] = conn[d],
           UNCHANGED pool,
           ~conn[c].inUse \/ (task[t].pc # "out" /\ task[t].conn = c),
           \A u \in Tasks \ {t} : Untold(u) => Untold(u)',
           \A id : id[1] # t => SameOutcome(id)
    PROVE  \A u \in Tasks \ {t} : PostKept(u)' /\ GotKept(u)'
<1>1. SUFFICES ASSUME NEW u \in Tasks \ {t} PROVE PostKept(u)' /\ GotKept(u)'
  OBVIOUS
<1>2. /\ task[u].pc \in {"await", "got"} => task[u].job.id[1] = u
      /\ Up /\ task[u].pc # "out" => task[u].conn \in Conns \ {c}
  BY DEF MailInvs, MailInv, LeaseInv, JobInv
<1>3. \A id \in {task[u].job.id} : task[u].pc \in {"await", "got"} => SameOutcome(id)
  BY <1>2
<1>4. GotKept(u) /\ PostKept(u) /\ (Up' => Up)
  BY DEF AnswerInv, Up
<1>5. GotKept(u)'
  BY <1>3, <1>4, GotStays
<1>6. PostKept(u)'
  BY <1>2, <1>3, <1>4, PostStays DEF Awaiting
<1> QED
  BY <1>5, <1>6

-------------------------------------------------------------------------------
(* AnswerInv is inductive relative to MailInvs: action by action.           *)

LEMMA AnswerOfTask ==
    ASSUME MailInvs, AnswerInv, NEW t \in Tasks, Lease(t) \/ Submit(t) \/ Release(t)
    PROVE  AnswerInv'
<1>1. TypeInv /\ (task[t].pc # "out" => task[t].conn \in Conns)
  BY DEF MailInvs, MailInv, LeaseInv
<1>2. CASE Lease(t)
  <2>1. Leases(t)
    BY <1>1, <1>2, LeaseEffect
  <2>2. PICK c \in Conns : LeasesAt(t, c)
    BY <2>1 DEF Leases
  <2>3. /\ ~conn[c].inUse /\ task'[t].pc = "body"
        /\ \A u \in Tasks \ {t} : task'[u] = task[u]
        /\ \A d \in Conns \ {c} : conn'[d] = conn[d]
    BY <2>2 DEF LeasesAt, ConnBecomes, TaskBecomes, TaskRec
  <2>4. UNCHANGED pool /\ (\A u : Untold(u) => Untold(u)') /\ (\A id : SameOutcome(id))
    BY <2>1, UnchangedKeeps DEF Leases
  <2>5. \A u \in Tasks \ {t} : PostKept(u)' /\ GotKept(u)'
    BY <2>3, <2>4, OthersKeep
  <2>6. PostKept(t)' /\ GotKept(t)'
    BY <2>3 DEF PostKept, GotKept, Awaiting
  <2> QED
    BY <2>5, <2>6 DEF AnswerInv
<1>3. CASE Submit(t)
  <2>1. PICK c \in Conns : c = task[t].conn
    BY <1>1, <1>3 DEF Submit
  <2>2. Submits(t) /\ task[t].pc \in {"body", "got"}
    BY <1>1, <1>3, <2>1, SubmitEffect DEF Submit
  <2>3. PICK j \in Jobs : SubmitsJob(t, j)
    BY <2>2 DEF Submits
  <2>4. /\ task'[t].pc = "await" /\ task'[t].port = task[t].port
        /\ \A u \in Tasks \ {t} : task'[u] = task[u]
        /\ \A d \in Conns \ {c} : conn'[d] = conn[d]
    BY <2>1, <2>3 DEF SubmitsJob, ConnBecomes, TaskBecomes, TaskRec
  <2>5. task[t].port = "none"
    BY <2>2 DEF MailInvs, MailInv, JobInv, Awaiting
  <2>6. /\ UNCHANGED pool /\ Untold(t)' /\ (\A u : Untold(u) => Untold(u)')
        /\ \A id : id[1] # t => SameOutcome(id)
    BY <2>2, ForgetKeeps DEF Submits
  <2>7. \A u \in Tasks \ {t} : PostKept(u)' /\ GotKept(u)'
    BY <2>1, <2>2, <2>4, <2>6, OthersKeep
  <2>8. PostKept(t)' /\ GotKept(t)'
    BY <2>4, <2>5, <2>6 DEF PostKept, GotKept, Awaiting
  <2> QED
    BY <2>7, <2>8 DEF AnswerInv
<1>4. CASE Release(t)
  <2>1. PICK c \in Conns : c = task[t].conn
    BY <1>1, <1>4 DEF Release
  <2>2. Releases(t) /\ task[t].pc # "out"
    BY <1>1, <1>4, <2>1, ReleaseEffect DEF Release
  <2>3. /\ task'[t].pc = "out"
        /\ \A u \in Tasks \ {t} : task'[u] = task[u]
        /\ \A d \in Conns \ {c} : conn'[d] = conn[d]
    BY <2>1, <2>2 DEF Releases, ConnBecomes, TaskBecomes, TaskRec
  <2>4. /\ UNCHANGED pool /\ (\A u : Untold(u) => Untold(u)')
        /\ \A id : id[1] # t => SameOutcome(id)
    BY <2>2, ForgetKeeps DEF Releases
  <2>5. \A u \in Tasks \ {t} : PostKept(u)' /\ GotKept(u)'
    BY <2>1, <2>2, <2>3, <2>4, OthersKeep
  <2>6. PostKept(t)' /\ GotKept(t)'
    BY <2>3 DEF PostKept, GotKept, Awaiting
  <2> QED
    BY <2>5, <2>6 DEF AnswerInv
<1> QED
  BY <1>2, <1>3, <1>4

(* What Receive takes off the chain that answers the call.                  *)
LEMMA ReceivedOwn ==
    ASSUME MailInvs, NEW t \in Tasks, Up, Awaiting(t), task[t].port # "none",
           PostKept(t)
    PROVE  LET got == SubSeq(conn[task[t].conn].last, 1, Taken(t))
           IN  Responds(task[t].job, got,
                        IF task[t].port = "ok" /\ Decodes(got) THEN "ok" ELSE "aborted")
<1>1. PICK last : last = conn[task[t].conn].last
  OBVIOUS
<1>2. PICK job : job = task[t].job
  OBVIOUS
<1>3. PICK port : port = task[t].port
  OBVIOUS
<1>4. PICK got : got = SubSeq(last, 1, Taken(t))
  OBVIOUS
<1>5. PICK code : code = IF port = "ok" /\ Decodes(got) THEN "ok" ELSE "aborted"
  OBVIOUS
<1>6. SUFFICES Responds(job, got, code)
  BY <1>1, <1>2, <1>3, <1>4, <1>5
<1>7. /\ last \in Seq(Docs) /\ Len(last) \in Nat /\ DOMAIN last = 1..Len(last)
      /\ port \in {"ok", "aborted"} /\ job.op \in AllOps
  BY <1>1, <1>2, <1>3, Records, LenProperties
  DEF MailInvs, MailInv, LeaseInv, JobInv, Awaiting, ConnStates, TaskStates
<1>8. Taken(t) \in 0..Len(last)
  BY <1>1, TakenTyped DEF MailInvs, MailInv, LeaseInv, Awaiting
<1>9. PICK k \in 0..Len(last) : k = Taken(t)
  BY <1>8
<1>10. /\ got \in Seq(Docs) /\ Len(got) = k
      /\ \A i \in 1..k : got[i] = last[i]
  BY <1>4, <1>7, <1>9, Halves
<1>11. DOMAIN got = 1..k
  BY <1>10, LenProperties
<1>12. ASSUME port = "aborted", job.op # "insert_many" PROVE DOMAIN got = {}
  <2>1. k = 0
    BY <1>2, <1>3, <1>9, <1>12 DEF Taken, Drains
  <2> QED
    BY <1>11, <2>1
<1>13. k <= Len(last) /\ \A i \in 1..k : i \in DOMAIN last /\ got[i] = last[i]
  BY <1>7, <1>9, <1>10
<1>14. CASE job.op = "find"
  <2>1. port = "ok" => \A i \in DOMAIN last : last[i].id = job.id /\ last[i].i = i
    BY <1>1, <1>2, <1>3, <1>7, <1>14 DEF PostKept
  <2>2. port = "ok" => \A i \in DOMAIN got : got[i].id = job.id /\ got[i].i = i
    <3>1. SUFFICES ASSUME port = "ok", NEW i \in 1..k
                   PROVE  got[i].id = job.id /\ got[i].i = i
      BY <1>11
    <3>2. i \in DOMAIN last /\ got[i] = last[i]
      BY <1>13
    <3> QED
      BY <2>1, <3>1, <3>2
  <2> QED
    BY <1>5, <1>7, <1>12, <1>14, <2>2 DEF Responds
<1>15. CASE job.op \in SingleReply
  <2>1. port = "ok" => last = <<Reply(job.id, 0, {})>>
    BY <1>1, <1>2, <1>3, <1>7, <1>15 DEF PostKept
  <2>2. job.op # "find" /\ job.op # "insert_many"
    BY <1>15 DEF SingleReply
  <2>3. port = "ok" => /\ DOMAIN last = {1}
                       /\ last[1].id = job.id /\ last[1].i = 0
    BY <2>1 DEF Reply
  <2>4. port = "ok" => \A i \in DOMAIN got : got[i].id = job.id /\ got[i].i = 0
    <3>1. SUFFICES ASSUME port = "ok", NEW i \in 1..k
                   PROVE  got[i].id = job.id /\ got[i].i = 0
      BY <1>11
    <3>2. i \in DOMAIN last /\ got[i] = last[i]
      BY <1>13
    <3> QED
      BY <2>3, <3>1, <3>2
  <2> QED
    BY <1>5, <1>7, <1>12, <2>2, <2>4 DEF Responds
<1>16. CASE job.op = "insert_many"
  <2>1. IF job.id \in unstored THEN port = "aborted" /\ job.id \notin lost
        ELSE Len(last) = 1 /\ Says(job, last[1], port)
    BY <1>1, <1>2, <1>3, <1>7, <1>16 DEF PostKept
  <2>2. CASE job.id \in unstored
    BY <1>5, <1>16, <2>1, <2>2 DEF Responds
  <2>3. CASE job.id \notin unstored
    <3>1. Len(last) = 1 /\ Says(job, last[1], port)
      BY <2>1, <2>3
    <3>2. last # <<>>
      BY <3>1
    <3>3. k = 1
      BY <1>1, <1>2, <1>3, <1>9, <1>16, <3>2 DEF Taken, Drains, DrainOne
    <3>4. PICK r : r = got[1]
      OBVIOUS
    <3>5. Len(got) = 1 /\ Says(job, r, port) /\ DOMAIN got = {1}
      BY <1>10, <1>11, <3>1, <3>3, <3>4
    <3>6. r.id = job.id /\ r.i = 0 /\ (port = "ok" => r.errors = {} /\ ~r.odd)
      BY <3>5 DEF Says
    <3>7. Decodes(got) <=> r.errors = {} /\ ~r.odd
      BY <3>4, <3>5 DEF Decodes
    <3>8. port = code
      BY <1>5, <1>7, <3>6, <3>7
    <3> QED
      BY <1>16, <2>3, <3>4, <3>5, <3>6, <3>8 DEF Responds
  <2> QED
    BY <2>2, <2>3
<1> QED
  BY <1>7, <1>14, <1>15, <1>16 DEF AllOps

LEMMA AnswerOfReceive ==
    ASSUME MailInvs, AnswerInv, NEW t \in Tasks, Receive(t)
    PROVE  AnswerInv'
<1>1. PICK c \in Conns : c = task[t].conn
  BY DEF Receive, Resumes, MailInvs, MailInv, LeaseInv
<1>2. Receives(t)
  BY <1>1, ReceiveEffect DEF MailInvs
<1>3. PICK job : job = task[t].job
  OBVIOUS
<1>4. PICK got : got = SubSeq(conn[c].last, 1, Taken(t))
  OBVIOUS
<1>5. PICK fine \in BOOLEAN : fine = (task[t].port = "ok" /\ Decodes(got))
  OBVIOUS
<1>6. /\ pool.phase = "open" /\ task[t].pc = "await" /\ task[t].port # "none"
      /\ UNCHANGED <<pool, server>>
      /\ \A d \in Conns \ {c} : conn'[d] = conn[d]
  BY <1>1, <1>2 DEF Receives, ConnBecomes
<1>7. TaskBecomes(t, TaskRec("got", task[t].n, c, job, "none", got, fine))
  <2>1. TaskBecomes(t, TaskRec("got", task[t].n, c, task[t].job, "none",
                               SubSeq(conn[c].last, 1, Taken(t)),
                               task[t].port = "ok"
                               /\ Decodes(SubSeq(conn[c].last, 1, Taken(t)))))
    BY <1>1, <1>2 DEF Receives
  <2> QED
    BY <1>3, <1>4, <1>5, <2>1
<1>8. /\ task'[t].pc = "got" /\ task'[t].job = job /\ task'[t].got = got
      /\ task'[t].port = "none" /\ task'[t].returned = fine
      /\ \A u \in Tasks \ {t} : task'[u] = task[u]
  BY <1>7 DEF TaskBecomes, TaskRec
<1>9. (\A u : Untold(u) => Untold(u)') /\ (\A id : SameOutcome(id))
  BY <1>6, UnchangedKeeps
<1>10. \A u \in Tasks \ {t} : PostKept(u)' /\ GotKept(u)'
  BY <1>1, <1>6, <1>8, <1>9, OthersKeep
<1>11. PostKept(t)'
  BY <1>8 DEF PostKept, Awaiting
<1>12. PICK code : code = IF fine THEN "ok" ELSE "aborted"
  OBVIOUS
<1>13. Responds(job, got, code)
  <2>1. Up /\ Awaiting(t) /\ PostKept(t)
    BY <1>6 DEF Up, Awaiting, AnswerInv
  <2> QED
    BY <1>1, <1>3, <1>4, <1>5, <1>6, <1>12, <2>1, ReceivedOwn
<1>14. Responds(job, got, code)'
  BY <1>9, <1>13, RespondsKept
<1>15. GotKept(t)'
  BY <1>8, <1>12, <1>14 DEF GotKept
<1> QED
  BY <1>10, <1>11, <1>15 DEF AnswerInv

(* An answer keeps AnswerInv if it adds to the outcome of its own call only *)
(* and what it leaves on the connection is true to that.                    *)
LEMMA AnswerOfWorker ==
    ASSUME MailInvs, AnswerInv, NEW c \in Conns, NEW last, NEW code \in {"ok", "aborted"},
           NEW job, job = conn[c].slot, Answers(c, last, code), Adds(job.id),
           code = "ok" /\ job.op = "find" =>
               \A i \in DOMAIN last : last[i].id = job.id /\ last[i].i = i,
           code = "ok" /\ job.op \in SingleReply => last = <<Reply(job.id, 0, {})>>,
           job.op = "insert_many" =>
               IF job.id \in unstored' THEN code = "aborted" /\ job.id \notin lost'
               ELSE Len(last) = 1 /\ Says(job, last[1], code)'
    PROVE  AnswerInv'
<1>1. PICK t \in Tasks : t = job.owner
  BY Answered DEF Answers
<1>2. /\ Awaiting(t) /\ task[t].conn = c /\ task[t].job = job
      /\ job.id[1] = t
  BY <1>1, Answered DEF Answers
<1>3. /\ UNCHANGED pool
      /\ conn'[c].last = last
      /\ conn'[c].error = set_error(conn[c].error, job.id, code)
      /\ task'[t].pc = task[t].pc /\ task'[t].conn = c /\ task'[t].job = job
      /\ task'[t].port = code
      /\ \A u \in Tasks \ {t} : task'[u] = task[u]
      /\ \A d \in Conns \ {c} : conn'[d] = conn[d]
  BY <1>1, <1>2 DEF Answers, ConnBecomes, TaskBecomes, ConnRec, TaskRec
<1>4. /\ \A u \in Tasks \ {t} : Untold(u) => Untold(u)'
      /\ \A id : id[1] # t => SameOutcome(id)
  BY <1>2, AddsKeeps
<1>5. \A u \in Tasks \ {t} : PostKept(u)' /\ GotKept(u)'
  BY <1>2, <1>3, <1>4, OthersKeep DEF Awaiting
<1>6. PICK r : r = last[1]
  OBVIOUS
<1>7. code = "aborted" => conn'[c].error = job.id
  BY <1>3 DEF set_error
<1>8. job.op = "insert_many" =>
         IF job.id \in unstored' THEN code = "aborted" /\ job.id \notin lost'
         ELSE Len(last) = 1 /\ Says(job, r, code)'
  BY <1>6
<1>9. PostKept(t)'
  BY <1>2, <1>3, <1>6, <1>7, <1>8 DEF PostKept, Awaiting
<1>10. GotKept(t)'
  BY <1>2, <1>3 DEF GotKept, Awaiting
<1> QED
  BY <1>5, <1>9, <1>10 DEF AnswerInv

LEMMA AnswerOfCheck ==
    ASSUME MailInvs, AnswerInv, NEW c \in Conns, Check(c)
    PROVE  AnswerInv'
<1>1. Checks(c)
  BY CheckEffect DEF MailInvs
<1>2. UNCHANGED <<pool, task>> /\ (\A u : Untold(u) => Untold(u)') /\ (\A id : SameOutcome(id))
  BY <1>1, UnchangedKeeps DEF Checks
<1>3. ASSUME NEW u \in Tasks PROVE PostKept(u)' /\ GotKept(u)'
  <2>1. Awaiting(u) /\ task[u].port # "none" =>
           /\ conn'[task[u].conn].last = conn[task[u].conn].last
           /\ conn'[task[u].conn].error = conn[task[u].conn].error
    <3>1. SUFFICES ASSUME Awaiting(u), task[u].port # "none"
                   PROVE  conn'[task[u].conn] = conn[task[u].conn]
      OBVIOUS
    <3>2. task[u].conn \in Conns /\ conn[task[u].conn].slot = NoJob
      BY <3>1, OwnSlot DEF MailInvs, Awaiting
    <3> QED
      BY <1>1, <3>2 DEF Checks, ConnBecomes
  <2>2. PostKept(u) /\ GotKept(u) /\ task'[u] = task[u] /\ (Up' => Up)
    BY <1>2 DEF AnswerInv, Up
  <2>3. GotKept(u)'
    BY <1>2, <2>2, GotStays
  <2>4. PostKept(u)'
    BY <1>2, <2>1, <2>2, PostStays
  <2> QED
    BY <2>3, <2>4
<1> QED
  BY <1>3 DEF AnswerInv

LEMMA AnswerOfSingle ==
    ASSUME MailInvs, AnswerInv, NEW c \in Conns, Find(c) \/ Write(c)
    PROVE  AnswerInv'
<1>1. PICK job : job = conn[c].slot
  OBVIOUS
<1>2. UNCHANGED server /\ job.op # "insert_many"
  BY <1>1, FindEffect, WriteEffect DEF Finds, Writes, SingleReply
<1>3. Adds(job.id)
  <2>1. News(job.id, {}) = {}
    BY DEF News
  <2> QED
    BY <1>2, <2>1 DEF Adds, server
<1>4. CASE \E last : Answers(c, last, "aborted")
  BY <1>1, <1>2, <1>3, <1>4, AnswerOfWorker
<1>5. CASE job.op = "find" /\ \E last :
              /\ \A i \in DOMAIN last : last[i].id = job.id /\ last[i].i = i
              /\ Answers(c, last, "ok")
  BY <1>1, <1>3, <1>5, AnswerOfWorker DEF SingleReply
<1>6. CASE job.op \in SingleReply /\ Answers(c, <<Reply(job.id, 0, {})>>, "ok")
  BY <1>1, <1>3, <1>6, AnswerOfWorker DEF SingleReply
<1>7. CASE Find(c)
  BY <1>1, <1>4, <1>5, <1>7, FindEffect DEF Finds
<1>8. CASE Write(c)
  BY <1>1, <1>4, <1>6, <1>8, WriteEffect DEF Writes
<1> QED
  BY <1>7, <1>8

LEMMA AnswerOfInsertMany ==
    ASSUME MailInvs, AnswerInv, NEW c \in Conns, InsertMany(c)
    PROVE  AnswerInv'
<1>1. PICK job : job = conn[c].slot
  OBVIOUS
<1>2. worker[c] = "run" /\ InsertsMany(c) /\ job.op = "insert_many"
  BY <1>1, InsertManyEffect DEF InsertMany, Answer
<1>3. Untold(job.id[1]) /\ job.id \notin lost \cup unnamed \cup unstored
  <2>1. PICK t \in Tasks : t = job.owner
    BY <1>1, <1>2, Answered
  <2>2. Awaiting(t) /\ task[t].port = "none" /\ job.id[1] = t
    BY <1>1, <1>2, <2>1, Answered
  <2> QED
    BY <2>2 DEF AnswerInv, PostKept, Untold
<1>4. ASSUME NEW in \in SUBSET (1..MaxDocs), NEW errors \in SUBSET Nat,
             NEW code \in {"ok", "aborted"},
             errors \cap in = {},
             code = "ok" => in = 1..MaxDocs /\ errors = {},
             code = "aborted" /\ job.id \notin unnamed' =>
                errors # {} /\ (~job.ordered => errors \cup in = 1..MaxDocs),
             coll' = coll \cup News(job.id, in),
             unnamed' \in {unnamed, unnamed \cup {job.id}},
             UNCHANGED <<lost, unstored>>,
             Answers(c, <<Reply(job.id, Cardinality(in), errors)>>, code)
      PROVE  AnswerInv'
  <2>1. PICK r : r = Reply(job.id, Cardinality(in), errors)
    OBVIOUS
  <2>2. In(job.id)' = in /\ Adds(job.id)
    BY <1>3, <1>4, InAfter DEF Adds
  <2>3. Says(job, r, code)'
    BY <1>3, <1>4, <2>1, <2>2 DEF Says, Reply
  <2>4. PICK last : last = <<r>>
    OBVIOUS
  <2>5. Len(last) = 1 /\ last[1] = r
    BY <2>4
  <2>6. Says(job, last[1], code)'
    BY <2>3, <2>5
  <2>7. Answers(c, last, code) /\ job.op # "find" /\ job.op \notin SingleReply
    BY <1>2, <1>4, <2>1, <2>4 DEF SingleReply
  <2>8. job.id \notin unstored'
    BY <1>3, <1>4
  <2> QED
    BY <1>1, <2>2, <2>5, <2>6, <2>7, <2>8, AnswerOfWorker
<1>5. ASSUME NEW in \in SUBSET (1..MaxDocs), NEW known \in SUBSET in,
             coll' = coll \cup News(job.id, in),
             lost' = lost \cup {job.id}, UNCHANGED <<unnamed, unstored>>,
             NEW named \in SUBSET Nat, named \cap in = {},
             Answers(c, <<Reply(job.id, Cardinality(known), named)>>, "aborted")
      PROVE  AnswerInv'
  <2>1. PICK r : r = Reply(job.id, Cardinality(known), named)
    OBVIOUS
  <2>2. In(job.id)' = in /\ Adds(job.id)
    BY <1>3, <1>5, InAfter DEF Adds
  <2>3. Cardinality(known) <= Cardinality(in)
    BY Counts
  <2>4. Says(job, r, "aborted")'
    BY <1>5, <2>1, <2>2, <2>3 DEF Says, Reply
  <2>5. PICK last : last = <<r>>
    OBVIOUS
  <2>6. Len(last) = 1 /\ last[1] = r
    BY <2>5
  <2>7. Says(job, last[1], "aborted")'
    BY <2>4, <2>6
  <2>8. Answers(c, last, "aborted")
    BY <1>5, <2>1, <2>5
  <2>9. job.id \notin unstored'
    BY <1>3, <1>5
  <2> QED
    BY <1>1, <2>2, <2>6, <2>7, <2>8, <2>9, AnswerOfWorker
<1> QED
  BY <1>1, <1>2, <1>4, <1>5, ZenonT(60) DEF InsertsMany

LEMMA AnswerOfUnstored ==
    ASSUME MailInvs, AnswerInv, NEW c \in Conns, InsertManyUnstored(c)
    PROVE  AnswerInv'
<1>1. PICK job : job = conn[c].slot
  OBVIOUS
<1>2. PICK last : last = conn[c].last
  OBVIOUS
<1>3. /\ worker[c] = "run" /\ InsertsUnstored(c) /\ job.op = "insert_many"
  BY <1>1, InsertUnstoredEffect DEF InsertManyUnstored, Answer
<1>4. job.id \notin lost
  <2>1. PICK t \in Tasks : t = job.owner
    BY <1>1, <1>3, Answered
  <2>2. Awaiting(t) /\ task[t].port = "none" /\ job.id[1] = t
    BY <1>1, <1>3, <2>1, Answered
  <2> QED
    BY <2>2 DEF AnswerInv, PostKept, Untold
<1>5. /\ Adds(job.id) /\ Answers(c, last, "aborted")
      /\ job.id \in unstored' /\ job.id \notin lost'
  BY <1>1, <1>2, <1>3, <1>4 DEF InsertsUnstored, Adds
<1> QED
  BY <1>1, <1>3, <1>5, AnswerOfWorker

LEMMA AnswerOfLifecycle ==
    ASSUME MailInvs, AnswerInv, Lifecycle \/ Destroy
    PROVE  AnswerInv'
<1>1. UNCHANGED <<task, server>> /\ (Up' => Up /\ UNCHANGED conn)
  BY LifecycleQuiet, LifecyclePool DEF MailInvs
<1>2. (\A u : Untold(u) => Untold(u)') /\ (\A id : SameOutcome(id))
  BY <1>1, UnchangedKeeps
<1>3. ASSUME NEW u \in Tasks PROVE PostKept(u)' /\ GotKept(u)'
  <2>1. PostKept(u) /\ GotKept(u) /\ task'[u] = task[u]
    BY <1>1 DEF AnswerInv
  <2>2. GotKept(u)'
    BY <1>2, <2>1, GotStays
  <2>3. CASE Up'
    <3>1. UNCHANGED conn /\ (Up' => Up)
      BY <1>1, <2>3
    <3> QED
      BY <1>2, <2>1, <2>2, <3>1, PostStays
  <2>4. CASE ~Up'
    <3>1. Awaiting(u) /\ task[u].port = "none" => Untold(u)'
      BY <1>2, <2>1 DEF PostKept
    <3> QED
      BY <2>1, <2>2, <2>4, <3>1 DEF PostKept, Awaiting
  <2> QED
    BY <2>2, <2>3, <2>4
<1> QED
  BY <1>3 DEF AnswerInv

LEMMA AnswerStutters ==
    ASSUME MailInvs, AnswerInv, UNCHANGED vars
    PROVE  AnswerInv'
<1>1. UNCHANGED <<pool, conn, task, server>> /\ (Up' => Up)
  BY DEF vars, server, Up
<1>2. (\A u : Untold(u) => Untold(u)') /\ (\A id : SameOutcome(id))
  BY <1>1, UnchangedKeeps
<1>3. ASSUME NEW u \in Tasks PROVE PostKept(u)' /\ GotKept(u)'
  BY <1>1, <1>2, GotStays, PostStays DEF AnswerInv
<1> QED
  BY <1>3 DEF AnswerInv

LEMMA AnswerInvariance == Spec => []AnswerInv
<1>1. Init => AnswerInv
  BY DEF Init, IdleTask, AnswerInv, PostKept, GotKept, Awaiting
<1>2. ASSUME MailInvs, AnswerInv, [Next]_vars PROVE AnswerInv'
  <2>1. ASSUME NEW t \in Tasks, Lease(t) \/ Submit(t) \/ Receive(t) \/ Release(t)
        PROVE  AnswerInv'
    BY <1>2, <2>1, AnswerOfTask, AnswerOfReceive
  <2>2. ASSUME NEW c \in Conns, Work(c) PROVE AnswerInv'
    BY <1>2, <2>2, AnswerOfCheck, AnswerOfSingle, AnswerOfInsertMany, AnswerOfUnstored
    DEF Work
  <2>3. CASE Lifecycle \/ Destroy
    BY <1>2, <2>3, AnswerOfLifecycle
  <2>4. CASE UNCHANGED vars
    BY <1>2, <2>4, AnswerStutters
  <2> QED
    BY <1>2, <2>1, <2>2, <2>3, <2>4 DEF Next
<1> QED
  BY <1>1, <1>2, MailInvariance, PTL DEF Spec

(* What a call decodes is its own chain, in order, and the error it throws  *)
(* its own, whoever had the connection before and whatever that left on it  *)
(* (mongo_native_pool.dart, _drainAll and _drainOne).                       *)
THEOREM EveryAnswerIsOwn == Spec => []AnswerIsOwn
<1>1. ASSUME MailInvs, AnswerInv PROVE AnswerIsOwn
  <2>1. SUFFICES ASSUME NEW t \in Tasks
                 PROVE  /\ task[t].pc = "got" /\ task[t].job.id \notin unstored =>
                              \A i \in DOMAIN task[t].got :
                                 /\ task[t].got[i].id = task[t].job.id
                                 /\ task[t].got[i].i =
                                       IF task[t].job.op = "find" THEN i ELSE 0
                        /\ pool.phase = "open" /\ Resumes(t) /\ task[t].port = "aborted" =>
                              LastError(task[t].conn) = task[t].job.id
    BY DEF AnswerIsOwn
  <2>2. PostKept(t) /\ GotKept(t)
    BY <1>1 DEF AnswerInv
  <2>3. task[t].pc = "got" /\ task[t].job.id \notin unstored =>
           \A i \in DOMAIN task[t].got :
              /\ task[t].got[i].id = task[t].job.id
              /\ task[t].got[i].i = IF task[t].job.op = "find" THEN i ELSE 0
    BY <2>2 DEF GotKept, Responds
  <2>4. pool.phase = "open" /\ Resumes(t) /\ task[t].port = "aborted" =>
           LastError(task[t].conn) = task[t].job.id
    BY <2>2 DEF PostKept, Resumes, Awaiting, Up, LastError
  <2> QED
    BY <2>3, <2>4
<1> QED
  BY <1>1, MailInvariance, AnswerInvariance, PTL

(* What insertMany returns or throws says which documents the collection    *)
(* has (mongo_pool.h:147: the reply is stored even on failure), for any     *)
(* number of documents and any part of them that the server refuses, one by *)
(* one or as a whole.                                                       *)
THEOREM InsertManyAccounts == Spec => []InsertManyIsAccounted
<1>1. ASSUME AnswerInv PROVE InsertManyIsAccounted
  <2>1. SUFFICES ASSUME NEW t \in Tasks, task[t].pc = "got",
                        task[t].job.op = "insert_many"
                 PROVE  LET id == task[t].job.id
                            in == {d[2] : d \in {e \in coll : e[1] = id}}
                            count == IF task[t].got = <<>> THEN 0
                                     ELSE task[t].got[1].count
                            errors == IF task[t].got = <<>> THEN {}
                                      ELSE task[t].got[1].errors
                        IN  /\ task[t].returned => in = 1..MaxDocs
                            /\ id \notin unstored => errors \cap in = {}
                            /\ id \notin lost \cup unstored => count = Cardinality(in)
                            /\ ~task[t].returned /\ id \notin lost \cup unnamed \cup unstored =>
                                  /\ errors # {}
                                  /\ ~task[t].job.ordered =>
                                        errors \cup in = 1..MaxDocs
                            /\ id \in lost => count <= Cardinality(in)
    BY DEF InsertManyIsAccounted
  <2>2. PICK code : code = IF task[t].returned THEN "ok" ELSE "aborted"
    OBVIOUS
  <2>3. Responds(task[t].job, task[t].got, code)
    BY <1>1, <2>1, <2>2 DEF AnswerInv, GotKept
  <2>4. CASE task[t].job.id \in unstored
    BY <2>1, <2>2, <2>3, <2>4 DEF Responds
  <2>5. CASE task[t].job.id \notin unstored
    <3>1. Len(task[t].got) = 1 /\ Says(task[t].job, task[t].got[1], code)
      BY <2>1, <2>3, <2>5 DEF Responds
    <3>2. task[t].got # <<>>
      BY <3>1
    <3> QED
      BY <2>2, <2>5, <3>1, <3>2 DEF Says, In
  <2> QED
    BY <2>4, <2>5
<1> QED
  BY <1>1, AnswerInvariance, PTL
=============================================================================
