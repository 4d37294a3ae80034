-------------------------- MODULE NativePool_proofs --------------------------
(***************************************************************************)
(* Proofs about NativePool, for every set of callers, finite or not, and   *)
(* every maxSize.                                                          *)
(*                                                                         *)
(* PoolInv is the inductive invariant.  Its two halves do not need each    *)
(* other: WorkersInv says, for every point of pool_create and pool_destroy,*)
(* which workers exist; CallersInv says that an owner holds one connection *)
(* and nothing else, which is what keeps the count of callers on their way *)
(* to the scan above the count of free connections.                        *)
(***************************************************************************)
EXTENDS NativePool, FiniteSetTheorems, TLAPS

(* The shared pieces of the actions are always read expanded. *)
USE DEF Goto, SignalOne, FirstFree, Tell, MoreConns, UndoFromFirst, callerVars

(* Which workers exist while the loops over the connections run. *)
WorkersInv ==
    /\ phase = "creating" =>
          \A c \in Conns : worker[c] = IF c < at THEN "running" ELSE "none"
    /\ phase = "undo" => \A c \in Conns : c >= at => worker[c] = "none"
    /\ phase = "open" => \A c \in Conns : worker[c] = "running"
    /\ phase = "telling" =>
          \A c \in Conns : IF c < at THEN worker[c] \in {"told", "exited"}
                                     ELSE worker[c] = "running"
    /\ phase = "joining" =>
          \A c \in Conns : IF c < at THEN worker[c] = "none"
                                     ELSE worker[c] \in {"told", "exited"}
    /\ phase \in {"null", "waking", "freed"} =>
          \A c \in Conns : worker[c] = "none"

Inside == {t \in Callers : pc[t] # "out"}

OwnersHold == \A c \in Conns : owner[c] # NoCaller => pc[owner[c]] = "holding"

OneConnEach ==
    \A c, d \in Conns : owner[c] # NoCaller /\ owner[c] = owner[d] => c = d

NobodyBeforeOpen ==
    phase \in {"creating", "undo", "null"} => Inside = {} /\ Free = Conns

CallersInv ==
    /\ IsFiniteSet(Inside)
    /\ OwnersHold
    /\ OneConnEach
    /\ NobodyBeforeOpen
    /\ NoLostWakeUp

PoolInv == TypeOK /\ WorkersInv /\ CallersInv

-------------------------------------------------------------------------------
LEMMA FreeFinite ==
    IsFiniteSet(Free) /\ Cardinality(Free) \in Nat
<1>1. IsFiniteSet(Conns)
  BY MaxSizeIsPositive, FS_Interval DEF Conns
<1>2. Free \in SUBSET Conns
  BY DEF Free
<1> QED
  BY <1>1, <1>2, FS_Subset, FS_CardinalityType

LEMMA ScanningFinite ==
    ASSUME IsFiniteSet(Inside)
    PROVE  IsFiniteSet(Scanning) /\ Cardinality(Scanning) \in Nat
<1>1. Scanning \in SUBSET Inside
  BY DEF Scanning, Inside
<1> QED
  BY <1>1, FS_Subset, FS_CardinalityType

(* One more caller inside leaves finitely many. *)
LEMMA InsideStaysFinite ==
    ASSUME IsFiniteSet(Inside), NEW t, Inside' \subseteq Inside \cup {t}
    PROVE  IsFiniteSet(Inside')
<1>1. IsFiniteSet(Inside \cup {t})
  BY FS_AddElement
<1> QED
  BY <1>1, FS_Subset

-------------------------------------------------------------------------------
LEMMA PoolInit == Init => PoolInv
<1> SUFFICES ASSUME Init PROVE PoolInv
  OBVIOUS
<1>1. TypeOK /\ WorkersInv
  BY MaxSizeIsPositive, DefaultIsAWait
  DEF Init, TypeOK, WorkersInv, Phases, Conns
<1>2. Inside = {} /\ Free = Conns
  BY DEF Init, Inside, Free
<1>3. CallersInv
  BY <1>2, FS_EmptySet
  DEF Init, CallersInv, OwnersHold, OneConnEach, NobodyBeforeOpen, NoLostWakeUp
<1> QED
  BY <1>1, <1>3 DEF PoolInv

LEMMA TypeStep == TypeOK /\ [Next]_vars => TypeOK'
<1> SUFFICES ASSUME TypeOK, [Next]_vars PROVE TypeOK'
  OBVIOUS
<1> USE MaxSizeIsPositive DEF TypeOK, Phases, Conns
<1>1. CASE Create
  BY <1>1 DEF Create, InitConn, Created, UndoTell, UndoJoin, UndoDone
<1>2. CASE \E c \in Conns : WorkerExit(c)
  BY <1>2 DEF WorkerExit
<1>3. ASSUME NEW t \in Callers, NEW w \in {DefaultWait, "timed", "forever"},
             Enter(t, w)
      PROVE  TypeOK'
  BY <1>3, DefaultIsAWait DEF Enter, Waits
<1>4. ASSUME NEW t \in Callers, Scan(t) \/ TimedOut(t) \/ SpuriousWake(t)
      PROVE  TypeOK'
  BY <1>4 DEF Scan, TimedOut, SpuriousWake
<1>5. ASSUME NEW t \in Callers, NEW c \in Conns, Release(t, c) PROVE TypeOK'
  <2>1. pc' \in [Callers -> {"out", "scan", "blocked", "holding"}]
    BY <1>5 DEF Release
  <2> QED
    BY <1>5, <2>1 DEF Release
<1>6. CASE Destroy
  BY <1>6 DEF Destroy
<1>7. CASE Teardown
  BY <1>7 DEF Teardown, DestroyTell, DestroyJoin, DestroyFree
<1>8. CASE UNCHANGED vars
  BY <1>8 DEF vars
<1> QED
  BY <1>1, <1>2, <1>3, <1>4, <1>5, <1>6, <1>7, <1>8 DEF Next, CallerStep

LEMMA WorkersStep == TypeOK /\ WorkersInv /\ [Next]_vars => WorkersInv'
<1> SUFFICES ASSUME TypeOK, WorkersInv, [Next]_vars PROVE WorkersInv'
  OBVIOUS
<1> USE MaxSizeIsPositive DEF TypeOK, WorkersInv, Phases, Conns
<1>1. CASE InitConn
  BY <1>1 DEF InitConn
<1>2. CASE Created \/ UndoDone
  BY <1>2 DEF Created, UndoDone
<1>3. ASSUME NEW c \in Conns, UndoTell(c) PROVE WorkersInv'
  BY <1>3 DEF UndoTell
<1>4. ASSUME NEW c \in Conns, UndoJoin(c) PROVE WorkersInv'
  BY <1>4 DEF UndoJoin
<1>5. ASSUME NEW c \in Conns, WorkerExit(c) PROVE WorkersInv'
  BY <1>5 DEF WorkerExit
<1>6. ASSUME NEW t \in Callers, CallerStep(t) PROVE WorkersInv'
  <2>1. phase' = phase /\ at' = at /\ worker' = worker
    BY <1>6 DEF CallerStep, Enter, Scan, TimedOut, SpuriousWake, Release
  <2> QED
    BY <2>1
<1>7. CASE Destroy
  BY <1>7 DEF Destroy
<1>8. CASE DestroyTell
  BY <1>8 DEF DestroyTell
<1>9. CASE DestroyJoin
  BY <1>9 DEF DestroyJoin
<1>10. CASE DestroyFree
  BY <1>10 DEF DestroyFree
<1>11. CASE UNCHANGED vars
  BY <1>11 DEF vars
<1> QED
  BY <1>1, <1>2, <1>3, <1>4, <1>5, <1>6, <1>7, <1>8, <1>9, <1>10, <1>11
  DEF Next, Create, Teardown

-------------------------------------------------------------------------------
(* Only pool_create and pool_destroy move the phase, and they touch no     *)
(* caller: the free list is handed over untouched.                         *)
LEMMA LifecycleKeepsCallers ==
    ASSUME CallersInv, UNCHANGED callerVars,
           \/ phase' = phase
           \/ phase = "creating" /\ phase' \in {"undo", "open"}
           \/ phase = "undo" /\ phase' = "null"
           \/ phase' \in {"telling", "joining", "waking"}
    PROVE  CallersInv'
<1>1. Inside' = Inside /\ Free' = Free /\ Scanning' = Scanning /\ Blocked' = Blocked
  BY DEF Inside, Free, Scanning, Blocked
<1>2. phase = "creating" => Blocked = {}
  BY DEF CallersInv, NobodyBeforeOpen, Inside, Blocked
<1>3. NoLostWakeUp'
  BY <1>1, <1>2 DEF CallersInv, NoLostWakeUp
<1> QED
  BY <1>1, <1>3 DEF CallersInv, OwnersHold, OneConnEach, NobodyBeforeOpen

(* A caller that takes a free connection uses up one scan and one free     *)
(* connection; the other callers that scan are enough for the rest.        *)
LEMMA TakeKeepsCallers ==
    ASSUME TypeOK, CallersInv, phase' = phase, ~ShuttingDown,
           NEW t \in Callers, pc[t] = "scan", pc' = [pc EXCEPT ![t] = "holding"],
           NEW c \in Conns, owner[c] = NoCaller, owner' = [owner EXCEPT ![c] = t]
    PROVE  CallersInv'
<1> USE DEF TypeOK, CallersInv
<1>1. IsFiniteSet(Inside')
  <2>1. Inside' \subseteq Inside \cup {t}
    BY DEF Inside
  <2> QED
    BY <2>1, InsideStaysFinite
<1>2. OwnersHold' /\ OneConnEach'
  BY NoCallerIsNoCaller DEF OwnersHold, OneConnEach
<1>3. NobodyBeforeOpen'
  BY DEF NobodyBeforeOpen, Inside
<1>4. NoLostWakeUp'
  <2>1. Cardinality(Free') = Cardinality(Free) - 1
    <3>1. Free' = Free \ {c} /\ c \in Free
      BY NoCallerIsNoCaller DEF Free
    <3> QED
      BY <3>1, FreeFinite, FS_RemoveElement
  <2>2. Cardinality(Scanning') = Cardinality(Scanning) - 1
    <3>1. Scanning' = Scanning \ {t} /\ t \in Scanning
      BY DEF Scanning
    <3> QED
      BY <3>1, ScanningFinite, FS_RemoveElement
  <2>3. Blocked' = Blocked
    BY DEF Blocked
  <2> QED
    BY <2>1, <2>2, <2>3, FreeFinite, ScanningFinite DEF NoLostWakeUp
<1> QED
  BY <1>1, <1>2, <1>3, <1>4

(* A caller that gives its connection back frees one connection and, when  *)
(* anybody is blocked, sends one of them to the scan.                      *)
LEMMA GiveKeepsCallers ==
    ASSUME TypeOK, CallersInv, NEW t \in Callers, NEW c \in Conns, Release(t, c)
    PROVE  CallersInv'
<1> USE DEF TypeOK, CallersInv
<1>0. /\ pc[t] = "holding"
      /\ owner[c] = t
      /\ owner' = [owner EXCEPT ![c] = NoCaller]
      /\ phase' = phase
  BY NoCallerIsNoCaller DEF Release, OwnersHold
<1>1. /\ pc' \in [Callers -> {"out", "scan", "blocked", "holding"}]
      /\ pc'[t] = "out"
      /\ \A v \in Callers \ {t} :
            pc'[v] = pc[v] \/ (pc[v] = "blocked" /\ pc'[v] = "scan")
  BY <1>0 DEF Release, Blocked
<1>2. IsFiniteSet(Inside')
  <2>1. Inside' \subseteq Inside
    BY <1>0, <1>1 DEF Inside
  <2> QED
    BY <2>1, FS_Subset
<1>3. OwnersHold' /\ OneConnEach'
  BY <1>0, <1>1, NoCallerIsNoCaller DEF OwnersHold, OneConnEach
<1>4. NobodyBeforeOpen'
  BY <1>0 DEF NobodyBeforeOpen, Inside
<1>5. NoLostWakeUp'
  <2>1. Cardinality(Free') = Cardinality(Free) + 1
    <3>1. Free' = Free \cup {c} /\ c \notin Free
      BY <1>0, NoCallerIsNoCaller DEF Free
    <3> QED
      BY <3>1, FreeFinite, FS_AddElement
  <2>2. CASE Blocked = {}
    <3>1. Blocked' = {}
      BY <1>1, <2>2 DEF Blocked
    <3> QED
      BY <3>1 DEF NoLostWakeUp
  <2>3. ASSUME NEW u \in Blocked,
               pc' = [[pc EXCEPT ![t] = "out"] EXCEPT ![u] = "scan"]
        PROVE  NoLostWakeUp'
    <3>1. Scanning' = Scanning \cup {u} /\ u \notin Scanning
      BY <1>0, <2>3 DEF Scanning, Blocked
    <3>2. Cardinality(Scanning') = Cardinality(Scanning) + 1
      BY <3>1, ScanningFinite, FS_AddElement
    <3> QED
      BY <1>0, <2>1, <2>3, <3>2, FreeFinite, ScanningFinite DEF NoLostWakeUp
  <2> QED
    BY <2>2, <2>3 DEF Release
<1> QED
  BY <1>2, <1>3, <1>4, <1>5

(* A caller that moves without touching the free list: the scans only grow *)
(* or nobody new is blocked.                                               *)
LEMMA MoveKeepsCallers ==
    ASSUME TypeOK, CallersInv, UNCHANGED <<phase, owner>>,
           phase \notin {"creating", "undo", "null"},
           NEW t \in Callers, pc[t] # "holding",
           NEW l \in {"out", "scan", "blocked"}, pc' = [pc EXCEPT ![t] = l],
           \/ l = "scan"
           \/ pc[t] = "scan" /\ (ShuttingDown \/ Free = {})
           \/ pc[t] = "blocked" /\ l = "out"
    PROVE  CallersInv'
<1> USE DEF TypeOK, CallersInv
<1>1. IsFiniteSet(Inside')
  <2>1. Inside' \subseteq Inside \cup {t}
    BY DEF Inside
  <2> QED
    BY <2>1, InsideStaysFinite
<1>2. OwnersHold' /\ OneConnEach'
  BY DEF OwnersHold, OneConnEach
<1>3. NobodyBeforeOpen'
  BY DEF NobodyBeforeOpen
<1>4. Free' = Free
  BY DEF Free
<1>5. CASE l = "scan"
  <2>1. Scanning' = Scanning \cup {t} /\ Blocked' \subseteq Blocked
    BY <1>5 DEF Scanning, Blocked
  <2>2. Cardinality(Scanning') \in {Cardinality(Scanning), Cardinality(Scanning) + 1}
    BY <2>1, ScanningFinite, FS_AddElement
  <2>3. NoLostWakeUp'
    BY <1>4, <2>1, <2>2, FreeFinite, ScanningFinite DEF NoLostWakeUp
  <2> QED
    BY <1>1, <1>2, <1>3, <2>3
<1>6. CASE pc[t] = "scan" /\ (ShuttingDown \/ Free = {})
  <2>1. IsFiniteSet(Scanning') /\ Cardinality(Scanning') \in Nat
    <3>1. Scanning' \in SUBSET Scanning \/ l = "scan"
      BY DEF Scanning
    <3>2. Scanning' \subseteq Scanning \cup {t}
      BY <3>1 DEF Scanning
    <3> QED
      BY <3>2, ScanningFinite, FS_AddElement, FS_Subset, FS_CardinalityType
  <2>2. NoLostWakeUp'
    BY <1>4, <1>6, <2>1, FS_EmptySet DEF NoLostWakeUp, ShuttingDown
  <2> QED
    BY <1>1, <1>2, <1>3, <2>2
<1>7. CASE pc[t] = "blocked" /\ l = "out"
  <2>1. Scanning' = Scanning /\ Blocked' \subseteq Blocked
    BY <1>7 DEF Scanning, Blocked
  <2>2. NoLostWakeUp'
    BY <1>4, <2>1 DEF NoLostWakeUp
  <2> QED
    BY <1>1, <1>2, <1>3, <2>2
<1> QED
  BY <1>5, <1>6, <1>7

LEMMA CallersStep == TypeOK /\ CallersInv /\ [Next]_vars => CallersInv'
<1> SUFFICES ASSUME TypeOK, CallersInv, [Next]_vars PROVE CallersInv'
  OBVIOUS
<1>0. ASSUME NEW t \in Callers, pc[t] # "out"
      PROVE  phase \notin {"creating", "undo", "null"}
  BY <1>0 DEF CallersInv, NobodyBeforeOpen, Inside
<1>1. CASE Create
  BY <1>1, LifecycleKeepsCallers
  DEF Create, InitConn, Created, UndoTell, UndoJoin, UndoDone
<1>2. ASSUME NEW c \in Conns, WorkerExit(c) PROVE CallersInv'
  BY <1>2, LifecycleKeepsCallers DEF WorkerExit
<1>3. ASSUME NEW t \in Callers, NEW w, Enter(t, w) PROVE CallersInv'
  BY <1>3, MoveKeepsCallers DEF Enter
<1>4. ASSUME NEW t \in Callers, Scan(t) PROVE CallersInv'
  <2>1. CASE ShuttingDown /\ pc' = [pc EXCEPT ![t] = "out"] /\ owner' = owner
    BY <1>0, <1>4, <2>1, MoveKeepsCallers DEF Scan
  <2>2. CASE ~ShuttingDown /\ \E c \in Conns : FirstFree(c) /\ owner' = [owner EXCEPT ![c] = t]
    BY <1>4, <2>2, TakeKeepsCallers DEF Scan, Free
  <2>3. CASE Free = {} /\ owner' = owner
             /\ \E l \in {"out", "blocked"} : pc' = [pc EXCEPT ![t] = l]
    BY <1>0, <1>4, <2>3, MoveKeepsCallers DEF Scan
  <2> QED
    BY <1>4, <2>1, <2>2, <2>3 DEF Scan
<1>5. ASSUME NEW t \in Callers, TimedOut(t) \/ SpuriousWake(t) PROVE CallersInv'
  BY <1>0, <1>5, MoveKeepsCallers DEF TimedOut, SpuriousWake
<1>6. ASSUME NEW t \in Callers, NEW c \in Conns, Release(t, c) PROVE CallersInv'
  BY <1>6, GiveKeepsCallers
<1>7. CASE Destroy \/ DestroyTell \/ DestroyJoin
  BY <1>7, LifecycleKeepsCallers DEF Destroy, DestroyTell, DestroyJoin
<1>8. CASE DestroyFree
  <2>1. Inside' \subseteq Inside
    BY <1>8 DEF DestroyFree, Inside
  <2>2. IsFiniteSet(Inside')
    BY <2>1, FS_Subset DEF CallersInv
  <2>3. OwnersHold'
    BY <1>8, NoCallerIsNoCaller DEF DestroyFree, CallersInv, OwnersHold, TypeOK
  <2> QED
    BY <1>8, <2>2, <2>3
    DEF DestroyFree, CallersInv, OneConnEach, NobodyBeforeOpen, NoLostWakeUp
<1>9. CASE UNCHANGED vars
  BY <1>9, LifecycleKeepsCallers DEF vars
<1> QED
  BY <1>1, <1>2, <1>3, <1>4, <1>5, <1>6, <1>7, <1>8, <1>9
  DEF Next, CallerStep, Teardown

LEMMA PoolInvariance == Spec => []PoolInv
<1>1. PoolInv /\ [Next]_vars => PoolInv'
  BY TypeStep, WorkersStep, CallersStep DEF PoolInv
<1> QED
  BY <1>1, PoolInit, PTL DEF Spec

(* The pool's own variables stay well typed: the loop index of pool_create *)
(* and pool_destroy never leaves the connections, a connection is lent to  *)
(* a caller or to nobody.                                                  *)
THEOREM PoolTypeOK == Spec => []TypeOK
BY PoolInvariance, PTL DEF PoolInv

(* pool_release wakes enough: while the pool is open and callers are       *)
(* blocked on free_cond, there are at least as many callers on their way   *)
(* to the scan as there are free connections.                              *)
THEOREM PoolLosesNoWakeUp == Spec => []NoLostWakeUp
BY PoolInvariance, PTL DEF PoolInv, CallersInv

(* Neither the rollback of pool_create nor pool_destroy leaves a worker    *)
(* thread behind.                                                          *)
THEOREM PoolOrphansNoWorker == Spec => []NoOrphanWorker
<1>1. PoolInv => NoOrphanWorker
  BY DEF PoolInv, WorkersInv, NoOrphanWorker
<1> QED
  BY <1>1, PoolInvariance, PTL

-------------------------------------------------------------------------------
(* pool_acquire lends a connection to one caller at a time and only while  *)
(* the pool is open, pool_release takes it back from that caller only: the *)
(* C pool implements LeasePool.                                            *)
THEOREM PoolImplementsLeasePool == Spec => ImplementsLeasePool
<1>1. Init => Lease!Init
  BY DEF Init, Lease!Init, ShuttingDown
<1>2. PoolInv /\ [Next]_vars => [Lease!Next]_(Lease!vars)
  <2> SUFFICES ASSUME PoolInv, [Next]_vars PROVE [Lease!Next]_(Lease!vars)
    OBVIOUS
  <2> USE DEF ShuttingDown
  <2>1. CASE InitConn \/ UndoDone
    BY <2>1 DEF InitConn, UndoDone, Lease!vars
  <2>2. CASE Created
    BY <2>2 DEF Created, Lease!Next, Lease!Open
  <2>3. ASSUME NEW c \in Conns, UndoTell(c) \/ UndoJoin(c) \/ WorkerExit(c)
        PROVE  [Lease!Next]_(Lease!vars)
    BY <2>3 DEF UndoTell, UndoJoin, WorkerExit, Lease!vars
  <2>4. ASSUME NEW t \in Callers, NEW w, Enter(t, w)
        PROVE  [Lease!Next]_(Lease!vars)
    BY <2>4 DEF Enter, Lease!vars
  <2>5. ASSUME NEW t \in Callers, TimedOut(t) \/ SpuriousWake(t)
        PROVE  [Lease!Next]_(Lease!vars)
    BY <2>5 DEF TimedOut, SpuriousWake, Lease!vars
  <2>6. ASSUME NEW t \in Callers, Scan(t) PROVE [Lease!Next]_(Lease!vars)
    <3>1. CASE owner' = owner
      BY <2>6, <3>1 DEF Scan, Lease!vars
    <3>2. ASSUME NEW c \in Conns, FirstFree(c), owner' = [owner EXCEPT ![c] = t]
          PROVE  [Lease!Next]_(Lease!vars)
      <4>1. CASE ShuttingDown
        BY <2>6, <4>1 DEF Scan, Lease!vars
      <4>2. CASE ~ShuttingDown
        <5>1. phase = "open"
          BY <2>6, <4>2
          DEF Scan, PoolInv, TypeOK, Phases, CallersInv, NobodyBeforeOpen, Inside
        <5>2. Lease!Take(t, c)
          BY <2>6, <3>2, <5>1 DEF Scan, Free, Lease!Take
        <5> QED
          BY <5>2 DEF Lease!Next
      <4> QED
        BY <4>1, <4>2
    <3> QED
      BY <2>6, <3>1, <3>2 DEF Scan
  <2>7. ASSUME NEW t \in Callers, NEW c \in Conns, Release(t, c)
        PROVE  [Lease!Next]_(Lease!vars)
    BY <2>7 DEF Release, Lease!Next, Lease!Give
  <2>8. CASE Destroy
    BY <2>8 DEF Destroy, Lease!Next, Lease!Close
  <2>9. CASE Teardown
    BY <2>9 DEF Teardown, DestroyTell, DestroyJoin, DestroyFree, Lease!vars
  <2>10. CASE UNCHANGED vars
    BY <2>10 DEF vars, Lease!vars
  <2> QED
    BY <2>1, <2>2, <2>3, <2>4, <2>5, <2>6, <2>7, <2>8, <2>9, <2>10
    DEF Next, Create, CallerStep
<1> QED
  BY <1>1, <1>2, PoolInvariance, PTL DEF Spec, ImplementsLeasePool, Lease!Spec
===============================================================================
