-------------------------- MODULE ConnectionPoolGate --------------------------
(***************************************************************************)
(* lib/src/pool/connection_pool.dart: the Dart gate in front of the C      *)
(* pool.  acquire() counts the connections in use; when the count is at    *)
(* maxSize it parks on a Completer, with a Timer; a release completes the  *)
(* oldest Completer.  Completing does not run the parked acquire(): its    *)
(* continuation is a microtask, and other code of the isolate may run      *)
(* before it.  mysql_, sqlite_ and mongo_connection_pool.dart are the same *)
(* code.                                                                   *)
(*                                                                         *)
(* One action is one synchronous segment of Dart code; nothing interleaves *)
(* inside it.  `resumed` is the part of the microtask queue that matters:  *)
(* the continuations of acquire() calls whose Completer is complete, in    *)
(* order.  Any task may call acquire() while `resumed` is not empty (its   *)
(* own microtask was queued before the release ran); `barged` remembers    *)
(* whether one ever did.  `ahead` remembers, among the calls that are      *)
(* parked now, which parked first, independently of the queues.            *)
(***************************************************************************)
EXTENDS Integers, FiniteSets, Sequences, SequencesExt

CONSTANTS Tasks,     \* asynchronous tasks of the isolate that borrow
          MaxSize,   \* config.maxSize, also the number of C connections
          NoTask     \* holder of a connection whose in_use is 0

ASSUME MaxSizeIsPositive == MaxSize \in Nat \ {0}
ASSUME NoTaskIsNoTask == NoTask \notin Tasks

Conns == 1..MaxSize

VARIABLES inUse,       \* _inUse
          waiters,     \* _waiters: tasks parked on an incomplete Completer
          resumed,     \* microtasks: tasks whose Completer was completed
          holder,      \* C side: the task each connection is lent to
          closed,      \* _closed
          nativePool,  \* _nativePool: "null", "live", "destroyed"
          pc,          \* what each task is doing
          barged,      \* history: has acquire() ever run between a
                       \* completion and its waiter?
          ahead        \* history: <<s, t>> when s and t are parked and s
                       \* parked first

vars ==
    <<inUse, waiters, resumed, holder, closed, nativePool, pc, barged, ahead>>

(* The three ways acquire() throws, seen from the task. *)
Failures == {"exhausted",    \* PoolExhaustedException, the Timer fired
             "probe_failed", \* the C probe found nothing after all
             "pool_closed"}  \* StateError

TypeOK ==
    /\ inUse \in Nat
    /\ waiters \in Seq(Tasks)
    /\ resumed \in Seq(Tasks)
    /\ holder \in [Conns -> Tasks \cup {NoTask}]
    /\ closed \in BOOLEAN
    /\ nativePool \in {"null", "live", "destroyed"}
    /\ pc \in [Tasks -> {"idle", "parked", "holding"} \cup Failures]
    /\ barged \in BOOLEAN
    /\ ahead \in SUBSET (Tasks \X Tasks)

Lent == {c \in Conns : holder[c] # NoTask}

Init ==
    /\ inUse = 0
    /\ waiters = <<>>
    /\ resumed = <<>>
    /\ holder = [c \in Conns |-> NoTask]
    /\ closed = FALSE
    /\ nativePool = "null"
    /\ pc = [t \in Tasks |-> "idle"]
    /\ barged = FALSE
    /\ ahead = {}

-------------------------------------------------------------------------------
(* The pieces the segments below share.  Each piece is preceded by the      *)
(* faults it could plausibly have: variants that no action uses, kept to    *)
(* show that the properties would notice them.                              *)

RoomOffByOne == inUse <= MaxSize
HasRoom == inUse < MaxSize

CountUp == inUse' = inUse + 1

CountLeaked == UNCHANGED inUse
CountDown == inUse' = inUse - 1

(* `_nativePool != null`, and still live. *)
DestroyedCounts == nativePool # "null"
PoolIsLive == nativePool = "live"

(* pool_acquire: the linear scan for the first connection not in use. *)
FirstFree(c) == c \notin Lent /\ \A d \in Conns \ Lent : c <= d

(* `_release`: complete the oldest waiter, if there is one. *)
WakeNobody == UNCHANGED <<waiters, resumed>>
DropWaiter ==
    /\ waiters' = IF waiters = <<>> THEN <<>> ELSE Tail(waiters)
    /\ UNCHANGED resumed
WakeYoungest ==
    IF waiters = <<>>
    THEN UNCHANGED <<waiters, resumed>>
    ELSE /\ waiters' = Front(waiters)
         /\ resumed' = Append(resumed, Last(waiters))
WakeOldest ==
    IF waiters = <<>>
    THEN UNCHANGED <<waiters, resumed>>
    ELSE /\ waiters' = Tail(waiters)
         /\ resumed' = Append(resumed, Head(waiters))

Parked == {t \in Tasks : pc[t] = "parked"}

(* Calls that are not parked any more are ahead of nobody, behind nobody. *)
StillParked == ahead' = {p \in ahead : p[1] \in Parked' /\ p[2] \in Parked'}

-------------------------------------------------------------------------------
Start ==
    /\ ~closed
    /\ nativePool = "null"
    /\ nativePool' = "live"
    /\ UNCHANGED <<inUse, waiters, resumed, holder, closed, pc, barged, ahead>>

(* `_inUse++; pool.acquire(timeout: Duration.zero)`.  The count goes up     *)
(* before the probe and stays up when the probe throws: because the pool    *)
(* was destroyed meanwhile, or because no connection is free.  In the       *)
(* latter case pool_acquire(0) falls back to the default acquire timeout    *)
(* and blocks the isolate for that long; nobody can release meanwhile, so   *)
(* it times out.                                                            *)
Probe(t) ==
    /\ CountUp
    /\ UNCHANGED <<waiters, closed, nativePool>>
    /\ \/ /\ PoolIsLive
          /\ \E c \in Conns : FirstFree(c) /\ holder' = [holder EXCEPT ![c] = t]
          /\ pc' = [pc EXCEPT ![t] = "holding"]
       \/ /\ PoolIsLive
          /\ Lent = Conns
          /\ pc' = [pc EXCEPT ![t] = "probe_failed"]
          /\ UNCHANGED holder
       \/ /\ ~PoolIsLive
          /\ pc' = [pc EXCEPT ![t] = "pool_closed"]
          /\ UNCHANGED holder

(* acquire() on a pool with room: straight to the probe. *)
AcquireNow(t) ==
    /\ pc[t] = "idle"
    /\ ~closed
    /\ nativePool = "live"
    /\ barged' = (barged \/ resumed # <<>>)
    /\ HasRoom
    /\ Probe(t)
    /\ UNCHANGED <<resumed, ahead>>

(* acquire() on a full pool: park on a new Completer, start its Timer. *)
AcquirePark(t) ==
    /\ pc[t] = "idle"
    /\ ~closed
    /\ nativePool = "live"
    /\ barged' = (barged \/ resumed # <<>>)
    /\ ~HasRoom
    /\ waiters' = Append(waiters, t)
    /\ pc' = [pc EXCEPT ![t] = "parked"]
    /\ ahead' = ahead \cup (Parked \X {t})
    /\ UNCHANGED <<inUse, resumed, holder, closed, nativePool>>

(* acquire() before start() or after close() throws a StateError. *)
AcquireRefused(t) ==
    /\ pc[t] = "idle"
    /\ closed \/ nativePool = "null"
    /\ pc' = [pc EXCEPT ![t] = "pool_closed"]
    /\ UNCHANGED <<inUse, waiters, resumed, holder, closed, nativePool, barged,
                   ahead>>

(* The microtask of the oldest completed Completer: acquire() goes on       *)
(* without looking at _inUse again.                                         *)
Resume ==
    /\ resumed # <<>>
    /\ resumed' = Tail(resumed)
    /\ Probe(Head(resumed))
    /\ StillParked
    /\ UNCHANGED barged

(* The Timer of a parked acquire().  Timers are events: they run only when  *)
(* the microtask queue is empty, and do nothing to a completed Completer.   *)
Timeout(t) ==
    /\ resumed = <<>>
    /\ \E i \in DOMAIN waiters :
          /\ waiters[i] = t
          /\ waiters' = RemoveAt(waiters, i)
    /\ pc' = [pc EXCEPT ![t] = "exhausted"]
    /\ StillParked
    /\ UNCHANGED <<inUse, resumed, holder, closed, nativePool, barged>>

(* PooledConnection.release() -> _release.  After close() the C side is     *)
(* gone and only the count moves.                                           *)
Release(t, c) ==
    /\ holder[c] = t
    /\ holder' = [holder EXCEPT ![c] = NoTask]
    /\ CountDown
    /\ WakeOldest
    /\ pc' = [pc EXCEPT ![t] = "idle"]
    /\ UNCHANGED <<closed, nativePool, barged, ahead>>

(* close(): fails every parked acquire(), then pool_destroy. *)
Close ==
    /\ ~closed
    /\ closed' = TRUE
    /\ waiters' = <<>>
    /\ pc' = [t \in Tasks |-> IF t \in ToSet(waiters) THEN "pool_closed"
                                                      ELSE pc[t]]
    /\ StillParked
    /\ nativePool' = IF nativePool = "live" THEN "destroyed" ELSE nativePool
    /\ UNCHANGED <<inUse, resumed, holder, barged>>

(* A caller that got an exception is free to call acquire() again. *)
Retry(t) ==
    /\ pc[t] \in Failures
    /\ pc' = [pc EXCEPT ![t] = "idle"]
    /\ UNCHANGED <<inUse, waiters, resumed, holder, closed, nativePool, barged,
                   ahead>>

Acquire(t) == AcquireNow(t) \/ AcquirePark(t) \/ AcquireRefused(t)

Next ==
    \/ Start
    \/ Resume
    \/ Close
    \/ \E t \in Tasks : Acquire(t) \/ Timeout(t) \/ Retry(t)
    \/ \E t \in Tasks, c \in Conns : Release(t, c)

Spec == Init /\ [][Next]_vars

(* The event loop runs every queued microtask, and a Timer that is due runs *)
(* between two events however many microtasks the events queue: strong      *)
(* fairness for the Timer.  Nothing obliges a task to release.              *)
FairSpec ==
    /\ Spec
    /\ WF_vars(Resume)
    /\ \A t \in Tasks : SF_vars(Timeout(t))

-------------------------------------------------------------------------------
(* connection_pool.dart:206 says of `borrowed`, that is of _inUse:          *)
(* "Connections currently checked out by consumers".  So, as long as nobody *)
(* barged, the count equals the number of connections the C pool has lent.  *)
(* An acquire() that threw after `_inUse++` breaks it for good, and the     *)
(* pool shrinks.                                                            *)
CountIsExact == ~barged /\ ~closed => inUse = Cardinality(Lent)

(* connection_pool.dart:236: acquire() "gates Dart-side to keep             *)
(* `_inUse <= maxSize` so the C-side `pool_acquire(0)` probe always         *)
(* succeeds immediately".  Both halves, as long as nobody barged: a probe   *)
(* that finds every connection lent has blocked the isolate for a whole     *)
(* acquire timeout.                                                         *)
GateKeepsItsWord ==
    ~barged => /\ inUse <= MaxSize
               /\ \A t \in Tasks : pc[t] # "probe_failed"

(* The gate may count too much, never too little: it does not admit more    *)
(* tasks than there are free connections, even when tasks barge in and even *)
(* while waiters are being woken.                                           *)
CountCoversLent == inUse >= Cardinality(Lent)

(* PoolExhaustedException "indicates sustained over-subscription: every     *)
(* connection is in use [...] The pool stays usable - callers can retry"    *)
(* (connection_pool.dart:85): when no connection is lent and nobody has     *)
(* been woken, an acquire() gets one instead of parking.                    *)
PoolStaysUsable ==
    nativePool = "live" /\ Lent = {} /\ resumed = <<>> => inUse < MaxSize

(* No lost wake-up: while tasks are parked, every slot of the pool is       *)
(* counted or has been promised to a waiter whose microtask is queued.      *)
NoSlotIdleWhileParked ==
    waiters # <<>> => inUse + Len(resumed) >= MaxSize

(* "Drained FIFO so a long-blocked caller eventually wins"                  *)
(* (connection_pool.dart:179): of two calls that are parked, the one that   *)
(* parked later never gets a connection first, whoever is completed, timed  *)
(* out or barges in between.                                                *)
ServedInOrder ==
    [][\A t \in Tasks :
          pc[t] = "parked" /\ pc'[t] = "holding"
              => \A s \in Tasks : <<s, t>> \notin ahead]_vars

(* Every acquire() that parks is answered: with a connection or with an     *)
(* exception.                                                               *)
AcquireIsAnswered == \A t \in Tasks : pc[t] = "parked" ~> pc[t] # "parked"

(* The gate implements the abstract pool: one user per handle, lent only    *)
(* while the C pool exists.                                                 *)
Lease == INSTANCE LeasePool WITH
    Users <- Tasks, Nobody <- NoTask, owner <- holder,
    phase <- IF closed THEN "closed"
             ELSE IF nativePool = "live" THEN "open" ELSE "new"

ImplementsLeasePool == Lease!Spec
===============================================================================
