------------------------------ MODULE NativePool ------------------------------
(***************************************************************************)
(* native_pool.c: the native_pool_t.  pool_create opens the connections    *)
(* and their workers one by one and rolls back on the first failure;       *)
(* pool_acquire and pool_release hand the connections out under one mutex  *)
(* and one condition variable (free_cond); pool_destroy tells the workers  *)
(* to stop, joins them and frees everything.  mysql_pool.c, sqlite_pool.c  *)
(* and mongo_pool.c repeat this code.                                      *)
(*                                                                         *)
(* Callers are the threads that use the pool (isolates run on threads of   *)
(* their own).  A step is a section under pool->mutex, or one connection   *)
(* of a loop over the connections.  A worker is seen only as a thread that *)
(* must be told to stop and be joined; NativeSlot has its inside.          *)
(* Any of them may destroy the pool at any time.                           *)
(***************************************************************************)
EXTENDS Integers, FiniteSets

CONSTANTS Callers, NoCaller, MaxSize,
          DefaultWait   \* what default_acquire_timeout_ms asks for

Waits == {"probe",     \* 0: give up at once when nothing is free
          "timed",     \* > 0
          "forever"}   \* < 0

ASSUME MaxSizeIsPositive == MaxSize \in Nat \ {0}
ASSUME NoCallerIsNoCaller == NoCaller \notin Callers
ASSUME DefaultIsAWait == DefaultWait \in Waits

Conns == 1..MaxSize

VARIABLES phase,    \* where pool_create or pool_destroy is
          at,       \* the connection their loop has reached
          worker,   \* per connection: "none", "running", "told", "exited"
          owner,    \* per connection: who it is lent to (in_use = 0: nobody)
          pc,       \* per caller: "out", "scan", "blocked", "holding"
          wait      \* per caller: the effective timeout of its pool_acquire

vars == <<phase, at, worker, owner, pc, wait>>
callerVars == <<owner, pc, wait>>

Phases == {"creating", "undo", "null", "open", "telling", "joining", "waking",
           "freed"}

TypeOK ==
    /\ phase \in Phases
    /\ at \in 1..(MaxSize + 1)
    /\ worker \in [Conns -> {"none", "running", "told", "exited"}]
    /\ owner \in [Conns -> Callers \cup {NoCaller}]
    /\ pc \in [Callers -> {"out", "scan", "blocked", "holding"}]
    /\ wait \in [Callers -> Waits]

Init ==
    /\ phase = "creating"
    /\ at = 1
    /\ worker = [c \in Conns |-> "none"]
    /\ owner = [c \in Conns |-> NoCaller]
    /\ pc = [t \in Callers |-> "out"]
    /\ wait = [t \in Callers |-> DefaultWait]

Free == {c \in Conns : owner[c] = NoCaller}
Scanning == {t \in Callers : pc[t] = "scan"}
Blocked == {t \in Callers : pc[t] = "blocked"}

(* atomic shutting_down *)
ShuttingDown == phase \in {"telling", "joining", "waking", "freed"}

Goto(t, l) == pc' = [pc EXCEPT ![t] = l]

-------------------------------------------------------------------------------
(* Shared pieces, each preceded by a fault it could plausibly have: a       *)
(* variant that no action uses, kept to show that the properties notice it. *)

(* pthread_cond_signal(&free_cond): one blocked caller, if any, rescans.    *)
SignalNobody(next) == pc' = next
SignalOne(next) ==
    \/ Blocked = {} /\ pc' = next
    \/ \E u \in Blocked : pc' = [next EXCEPT ![u] = "scan"]

(* The scan under the mutex takes the first connection with in_use = 0.     *)
TakeFirst(c) == c = 1
FirstFree(c) == c \in Free /\ \A d \in Free : c <= d

(* shutdown_requested = 1 and a signal on slot_cond.                        *)
TellNobody(c) == UNCHANGED worker
Tell(c) == worker' = [worker EXCEPT ![c] =
               IF @ = "running" THEN "told" ELSE @]

(* The loop over the connections goes on. *)
MoreConns == at <= MaxSize

(* Where the rollback of pool_create starts. *)
UndoFrom == 2
UndoFromFirst == 1

-------------------------------------------------------------------------------
(* pool_create *)

InitConn ==
    /\ phase = "creating"
    /\ MoreConns
    /\ \/ /\ worker' = [worker EXCEPT ![at] = "running"]
          /\ at' = at + 1
          /\ UNCHANGED phase
       \/ /\ phase' = "undo"        \* PQconnectdb or pthread_create failed
          /\ UNCHANGED <<at, worker>>
    /\ UNCHANGED callerVars

Created ==
    /\ phase = "creating"
    /\ ~MoreConns
    /\ phase' = "open"
    /\ UNCHANGED <<at, worker, callerVars>>

(* The rollback stops and joins the workers created so far, one by one.     *)
UndoTell(c) ==
    /\ phase = "undo"
    /\ c \in UndoFromFirst..(at - 1)
    /\ worker[c] = "running"
    /\ \A d \in Conns : d < c /\ d >= UndoFromFirst => worker[d] = "none"
    /\ Tell(c)
    /\ UNCHANGED <<phase, at, callerVars>>

UndoJoin(c) ==
    /\ phase = "undo"
    /\ worker[c] = "exited"
    /\ worker' = [worker EXCEPT ![c] = "none"]
    /\ UNCHANGED <<phase, at, callerVars>>

UndoDone ==
    /\ phase = "undo"
    /\ \A c \in UndoFromFirst..(at - 1) : worker[c] = "none"
    /\ phase' = "null"
    /\ UNCHANGED <<at, worker, callerVars>>

WorkerExit(c) ==
    /\ worker[c] = "told"
    /\ worker' = [worker EXCEPT ![c] = "exited"]
    /\ UNCHANGED <<phase, at, callerVars>>

-------------------------------------------------------------------------------
(* pool_acquire and pool_release *)

(* Entry: shutting_down, read before the mutex is taken, is 0. *)
Enter(t, w) ==
    /\ phase = "open"
    /\ pc[t] = "out"
    /\ wait' = [wait EXCEPT ![t] = w]
    /\ Goto(t, "scan")
    /\ UNCHANGED <<phase, at, worker, owner>>

Scan(t) ==
    /\ phase # "freed"
    /\ pc[t] = "scan"
    /\ UNCHANGED <<phase, at, worker, wait>>
    /\ \/ /\ ShuttingDown
          /\ Goto(t, "out")
          /\ UNCHANGED owner
       \/ /\ ~ShuttingDown
          /\ \E c \in Conns : FirstFree(c) /\ owner' = [owner EXCEPT ![c] = t]
          /\ Goto(t, "holding")
       \/ /\ ~ShuttingDown
          /\ Free = {}
          /\ IF wait[t] = "probe" THEN Goto(t, "out") ELSE Goto(t, "blocked")
          /\ UNCHANGED owner

(* pthread_cond_timedwait says ETIMEDOUT: NULL, without another scan.  A    *)
(* wait that times out is taken not to use up a signal (glibc sends it on). *)
TimedOut(t) ==
    /\ phase # "freed"
    /\ pc[t] = "blocked"
    /\ wait[t] = "timed"
    /\ Goto(t, "out")
    /\ UNCHANGED <<phase, at, worker, owner, wait>>

SpuriousWake(t) ==
    /\ pc[t] = "blocked"
    /\ Goto(t, "scan")
    /\ UNCHANGED <<phase, at, worker, owner, wait>>

Release(t, c) ==
    /\ phase # "freed"
    /\ owner[c] = t
    /\ owner' = [owner EXCEPT ![c] = NoCaller]
    /\ SignalOne([pc EXCEPT ![t] = "out"])
    /\ UNCHANGED <<phase, at, worker, wait>>

-------------------------------------------------------------------------------
(* pool_destroy *)

Destroy ==
    /\ phase = "open"
    /\ phase' = "telling"
    /\ at' = 1
    /\ UNCHANGED <<worker, callerVars>>

DestroyTell ==
    /\ phase = "telling"
    /\ IF MoreConns
       THEN Tell(at) /\ at' = at + 1 /\ UNCHANGED phase
       ELSE phase' = "joining" /\ at' = 1 /\ UNCHANGED worker
    /\ UNCHANGED callerVars

DestroyJoin ==
    /\ phase = "joining"
    /\ IF MoreConns
       THEN /\ worker[at] = "exited"
            /\ worker' = [worker EXCEPT ![at] = "none"]
            /\ at' = at + 1
            /\ UNCHANGED phase
       ELSE phase' = "waking" /\ UNCHANGED <<at, worker>>
    /\ UNCHANGED callerVars

(* The broadcast wakes every blocked caller; the next lines free the mutex. *)
DestroyFree ==
    /\ phase = "waking"
    /\ phase' = "freed"
    /\ pc' = [t \in Callers |-> IF pc[t] = "blocked" THEN "scan" ELSE pc[t]]
    /\ UNCHANGED <<at, worker, owner, wait>>

-------------------------------------------------------------------------------
Create == InitConn \/ Created \/ UndoDone
          \/ \E c \in Conns : UndoTell(c) \/ UndoJoin(c)

CallerStep(t) ==
    \/ \E w \in {DefaultWait, "timed", "forever"} : Enter(t, w)
    \/ Scan(t) \/ TimedOut(t) \/ SpuriousWake(t)
    \/ \E c \in Conns : Release(t, c)

Teardown == DestroyTell \/ DestroyJoin \/ DestroyFree

Next ==
    \/ Create
    \/ \E c \in Conns : WorkerExit(c)
    \/ \E t \in Callers : CallerStep(t)
    \/ Destroy
    \/ Teardown

Spec == Init /\ [][Next]_vars

(* The thread inside pool_create or pool_destroy runs on, a worker that was *)
(* told to stop leaves (NativeSlot: CloseReturns), a caller that is not     *)
(* blocked gets the mutex.  Nobody is obliged to acquire, release, destroy. *)
FairSpec ==
    /\ Spec
    /\ WF_vars(Create) /\ WF_vars(Teardown)
    /\ \A c \in Conns : WF_vars(WorkerExit(c))
    /\ \A t \in Callers : WF_vars(Scan(t))

-------------------------------------------------------------------------------
(* No lost wake-up: while callers are blocked on free_cond, each free       *)
(* connection has a caller on its way to the scan.                          *)
NoLostWakeUp ==
    phase = "open" /\ Blocked # {} => Cardinality(Free) <= Cardinality(Scanning)

(* A caller woken for a connection that another took goes back to waiting   *)
(* and is not forgotten: with a free connection and nobody in between, the  *)
(* callers blocked on free_cond do not stay blocked all at once.            *)
FreeConnIsNoticed ==
    \A t \in Callers :
        pc[t] = "blocked" /\ Free # {} ~> pc[t] # "blocked" \/ Free = {}

(* native_pool.h: pool_create "returns NULL if any conn fails to open [...] *)
(* (partial state is rolled back before returning)", and after pool_destroy *)
(* "every worker exit[ed]": no worker thread outlives its pool.             *)
NoOrphanWorker ==
    phase \in {"null", "freed"} => \A c \in Conns : worker[c] = "none"

(* pool_create and pool_destroy return. *)
LifecycleReturns ==
    /\ phase = "creating" ~> phase \in {"null", "open"}
    /\ phase = "telling" ~> phase = "freed"

(* pool_acquire and pool_release implement the abstract pool. *)
Lease == INSTANCE LeasePool WITH
    Users <- Callers, Nobody <- NoCaller,
    phase <- IF phase = "open" THEN "open"
             ELSE IF ShuttingDown THEN "closed" ELSE "new"

ImplementsLeasePool == Lease!Spec
===============================================================================
