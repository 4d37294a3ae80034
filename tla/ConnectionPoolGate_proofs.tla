---------------------- MODULE ConnectionPoolGate_proofs ----------------------
(***************************************************************************)
(* Proofs about ConnectionPoolGate, for every set of tasks and every       *)
(* maxSize.                                                                *)
(*                                                                         *)
(* CoverInv (types, and the count never below the number of connections    *)
(* lent) holds whatever the program does.  OrderlyInv holds until a task   *)
(* barges; its key conjunct is that the count plus the number of           *)
(* woken waiters stays within maxSize: each woken waiter owns one slot.    *)
(* PlaceInv says where a task can be while it stands in one of the queues; *)
(* OrderInv, that whoever parked first stands first in them.               *)
(***************************************************************************)
EXTENDS ConnectionPoolGate, FiniteSetTheorems, SequenceTheorems, TLAPS

(* The shared pieces of the actions are always read expanded. *)
USE DEF HasRoom, CountUp, CountDown, PoolIsLive, FirstFree, WakeOldest

CoverInv == TypeOK /\ CountCoversLent

OrderlyInv ==
    /\ nativePool = "live" => ~closed
    /\ nativePool # "live" /\ ~closed => waiters = <<>> /\ resumed = <<>>
    /\ ~closed => inUse = Cardinality(Lent)
    /\ inUse + Len(resumed) <= MaxSize
    /\ \A t \in Tasks : pc[t] # "probe_failed"

-------------------------------------------------------------------------------
LEMMA ConnsFinite == IsFiniteSet(Conns) /\ Cardinality(Conns) = MaxSize
BY MaxSizeIsPositive, FS_Interval DEF Conns

LEMMA LentFinite ==
    /\ IsFiniteSet(Lent)
    /\ Cardinality(Lent) \in Nat
    /\ Cardinality(Lent) <= MaxSize
    /\ Cardinality(Lent) = MaxSize => Lent = Conns
<1>1. Lent \in SUBSET Conns
  BY DEF Lent
<1> QED
  BY <1>1, ConnsFinite, FS_Subset, FS_CardinalityType

(* Lending a free connection adds one to the number lent. *)
LEMMA LendOne ==
    ASSUME TypeOK, NEW t \in Tasks, NEW c \in Conns \ Lent,
           holder' = [holder EXCEPT ![c] = t]
    PROVE  Cardinality(Lent') = Cardinality(Lent) + 1
<1>1. Lent' = Lent \cup {c}
  BY NoTaskIsNoTask DEF Lent, TypeOK
<1> QED
  BY <1>1, LentFinite, FS_AddElement

(* Taking a lent connection back takes one off. *)
LEMMA ReturnOne ==
    ASSUME TypeOK, NEW t \in Tasks, NEW c \in Conns, holder[c] = t,
           holder' = [holder EXCEPT ![c] = NoTask]
    PROVE  Cardinality(Lent') = Cardinality(Lent) - 1
<1>1. Lent' = Lent \ {c} /\ c \in Lent
  BY NoTaskIsNoTask DEF Lent, TypeOK
<1> QED
  BY <1>1, LentFinite, FS_RemoveElement

(* What the probe does to the types and to the two counts. *)
LEMMA ProbeCounts ==
    ASSUME TypeOK, NEW t \in Tasks, Probe(t)
    PROVE  /\ inUse' = inUse + 1
           /\ holder' \in [Conns -> Tasks \cup {NoTask}]
           /\ pc' \in [Tasks -> {"idle", "parked", "holding"} \cup Failures]
           /\ waiters' = waiters /\ closed' = closed /\ nativePool' = nativePool
           /\ \/ /\ Cardinality(Lent') = Cardinality(Lent) + 1
                 /\ pc' = [pc EXCEPT ![t] = "holding"]
              \/ /\ Lent' = Lent
                 /\ \/ nativePool # "live" /\ pc' = [pc EXCEPT ![t] = "pool_closed"]
                    \/ nativePool = "live" /\ Lent = Conns
<1>1. CASE \E c \in Conns \ Lent : holder' = [holder EXCEPT ![c] = t]
                                   /\ pc' = [pc EXCEPT ![t] = "holding"]
  <2>1. PICK c \in Conns \ Lent : holder' = [holder EXCEPT ![c] = t]
    BY <1>1
  <2>2. Cardinality(Lent') = Cardinality(Lent) + 1
    BY <2>1, LendOne
  <2> QED
    BY <1>1, <2>1, <2>2 DEF Probe, TypeOK
<1>2. CASE /\ holder' = holder
           /\ \/ nativePool # "live" /\ pc' = [pc EXCEPT ![t] = "pool_closed"]
              \/ /\ nativePool = "live" /\ Lent = Conns
                 /\ pc' = [pc EXCEPT ![t] = "probe_failed"]
  <2>1. Lent' = Lent
    BY <1>2 DEF Lent
  <2> QED
    BY <1>2, <2>1 DEF Probe, TypeOK, Failures
<1> QED
  BY <1>1, <1>2 DEF Probe

-------------------------------------------------------------------------------
LEMMA CoverInit == Init => CoverInv
<1> SUFFICES ASSUME Init PROVE CoverInv
  OBVIOUS
<1>1. Lent = {}
  BY DEF Init, Lent
<1>2. CountCoversLent
  BY <1>1, FS_EmptySet DEF Init, CountCoversLent
<1>3. waiters \in Seq(Tasks) /\ resumed \in Seq(Tasks)
  BY EmptySeq DEF Init
<1> QED
  BY <1>2, <1>3 DEF Init, CoverInv, TypeOK

LEMMA AheadTyped ==
    TypeOK /\ [Next]_vars => ahead' \in SUBSET (Tasks \X Tasks)
<1> SUFFICES ASSUME TypeOK, [Next]_vars
             PROVE  ahead' \in SUBSET (Tasks \X Tasks)
  OBVIOUS
<1>1. CASE UNCHANGED ahead
  BY <1>1 DEF TypeOK
<1>2. CASE StillParked
  BY <1>2 DEF StillParked, TypeOK
<1>3. ASSUME NEW t \in Tasks, ahead' = ahead \cup (Parked \X {t})
      PROVE  ahead' \in SUBSET (Tasks \X Tasks)
  BY <1>3 DEF Parked, TypeOK
<1> QED
  BY <1>1, <1>2, <1>3 DEF Next, vars, Start, Resume, Close, Acquire, AcquireNow,
     AcquirePark, AcquireRefused, Timeout, Retry, Release

LEMMA CoverStep == CoverInv /\ [Next]_vars => CoverInv'
<1> SUFFICES ASSUME CoverInv, [Next]_vars PROVE CoverInv'
  OBVIOUS
<1> USE DEF CoverInv, CountCoversLent
<1>0. TypeOK /\ Cardinality(Lent) \in Nat
  BY LentFinite
<1>a. ahead' \in SUBSET (Tasks \X Tasks)
  BY AheadTyped
<1>1. CASE Start
  BY <1>a, <1>1 DEF Start, TypeOK, Lent
<1>2. CASE Resume
  <2>1. Head(resumed) \in Tasks /\ Tail(resumed) \in Seq(Tasks)
    BY <1>a, <1>2 DEF Resume, TypeOK
  <2>2. Probe(Head(resumed))
    BY <1>2 DEF Resume
  <2> QED
    BY <1>a, <1>0, <1>2, <2>1, <2>2, ProbeCounts DEF Resume, TypeOK
<1>3. CASE Close
  BY <1>a, <1>3 DEF Close, TypeOK, Lent, Failures
<1>4. ASSUME NEW t \in Tasks, AcquireNow(t) PROVE CoverInv'
  BY <1>a, <1>0, <1>4, ProbeCounts DEF AcquireNow, TypeOK
<1>5. ASSUME NEW t \in Tasks, AcquirePark(t) PROVE CoverInv'
  BY <1>a, <1>5 DEF AcquirePark, TypeOK, Lent
<1>6. ASSUME NEW t \in Tasks, AcquireRefused(t) PROVE CoverInv'
  BY <1>a, <1>6 DEF AcquireRefused, TypeOK, Lent, Failures
<1>7. ASSUME NEW t \in Tasks, Timeout(t) PROVE CoverInv'
  <2>1. PICK i \in DOMAIN waiters : waiters' = RemoveAt(waiters, i)
    BY <1>7 DEF Timeout
  <2>2. waiters' \in Seq(Tasks)
    BY <2>1 DEF RemoveAt, TypeOK
  <2> QED
    BY <1>a, <1>7, <2>2 DEF Timeout, TypeOK, Lent, Failures
<1>8. ASSUME NEW t \in Tasks, Retry(t) PROVE CoverInv'
  BY <1>a, <1>8 DEF Retry, TypeOK, Lent
<1>9. ASSUME NEW t \in Tasks, NEW c \in Conns, Release(t, c) PROVE CoverInv'
  <2>1. Cardinality(Lent') = Cardinality(Lent) - 1
    BY <1>9, ReturnOne DEF Release
  <2>2. Cardinality(Lent') \in Nat
    <3>1. Lent' \in SUBSET Conns
      BY DEF Lent, Conns
    <3> QED
      BY <3>1, ConnsFinite, FS_Subset, FS_CardinalityType
  <2>3. inUse' \in Nat /\ inUse' >= Cardinality(Lent')
    BY <1>a, <1>0, <1>9, <2>1, <2>2 DEF Release, TypeOK
  <2>4. waiters' \in Seq(Tasks) /\ resumed' \in Seq(Tasks)
    <3>1. CASE waiters = <<>>
      BY <1>9, <3>1 DEF Release, TypeOK
    <3>2. CASE waiters # <<>>
      <4>1. waiters' = Tail(waiters) /\ resumed' = Append(resumed, Head(waiters))
        BY <1>9, <3>2 DEF Release
      <4> QED
        BY <3>2, <4>1, HeadTailProperties, AppendProperties DEF TypeOK
    <3> QED
      BY <3>1, <3>2
  <2> QED
    BY <1>a, <1>9, <2>3, <2>4 DEF Release, TypeOK
<1>10. CASE UNCHANGED vars
  BY <1>a, <1>10 DEF vars, TypeOK, Lent
<1> QED
  BY <1>1, <1>2, <1>3, <1>4, <1>5, <1>6, <1>7, <1>8, <1>9, <1>10
  DEF Next, Acquire

(* The state stays well typed whatever the tasks do: in particular the     *)
(* count never goes below zero.                                            *)
THEOREM GateTypeOK == Spec => []TypeOK
<1>1. Spec => []CoverInv
  BY CoverInit, CoverStep, PTL DEF Spec
<1> QED
  BY <1>1, PTL DEF CoverInv

(* The gate never counts fewer connections than are lent, barging or not.  *)
THEOREM GateCovers == Spec => []CountCoversLent
<1>1. Spec => []CoverInv
  BY CoverInit, CoverStep, PTL DEF Spec
<1> QED
  BY <1>1, PTL DEF CoverInv

-------------------------------------------------------------------------------
LEMMA OrderlyInit == Init => OrderlyInv
<1> SUFFICES ASSUME Init PROVE OrderlyInv
  OBVIOUS
<1>1. Lent = {}
  BY DEF Init, Lent
<1> QED
  BY <1>1, FS_EmptySet, MaxSizeIsPositive
  DEF Init, OrderlyInv

LEMMA OrderlyStep ==
    CoverInv /\ (~barged => OrderlyInv) /\ [Next]_vars => (~barged' => OrderlyInv')
<1> SUFFICES ASSUME CoverInv, ~barged => OrderlyInv, [Next]_vars, ~barged'
             PROVE  OrderlyInv'
  OBVIOUS
<1>a. ~barged
  BY DEF Next, vars, Start, Resume, Close, Acquire, AcquireNow, AcquirePark,
         AcquireRefused, Timeout, Retry, Release
<1>b. OrderlyInv
  BY <1>a
<1> USE <1>b DEF OrderlyInv
<1>0. TypeOK /\ Cardinality(Lent) \in Nat /\ MaxSize \in Nat
  BY LentFinite, MaxSizeIsPositive DEF CoverInv
<1>1. CASE Start
  BY <1>0, <1>1 DEF Start, TypeOK, Lent
<1>2. CASE Resume
  <2>1. /\ Head(resumed) \in Tasks
        /\ Len(resumed) \in Nat \ {0}
        /\ Len(resumed') = Len(resumed) - 1
    BY <1>0, <1>2 DEF Resume, TypeOK
  <2>2. Probe(Head(resumed))
    BY <1>2 DEF Resume
  <2>3. nativePool = "live" => Lent # Conns
    BY <1>0, <2>1, ConnsFinite DEF TypeOK
  <2>4. closed' = closed /\ nativePool' = nativePool /\ inUse' = inUse + 1
    BY <1>0, <2>1, <2>2, ProbeCounts
  <2>5. CASE /\ Cardinality(Lent') = Cardinality(Lent) + 1
             /\ pc' = [pc EXCEPT ![Head(resumed)] = "holding"]
    BY <1>0, <2>1, <2>4, <2>5 DEF TypeOK
  <2>6. CASE /\ Lent' = Lent
             /\ nativePool # "live"
             /\ pc' = [pc EXCEPT ![Head(resumed)] = "pool_closed"]
    BY <1>0, <2>1, <2>4, <2>6 DEF TypeOK
  <2> QED
    BY <1>0, <2>1, <2>2, <2>3, <2>5, <2>6, ProbeCounts
<1>3. CASE Close
  BY <1>0, <1>3 DEF Close, TypeOK, Lent
<1>4. ASSUME NEW t \in Tasks, AcquireNow(t) PROVE OrderlyInv'
  <2>1. Len(resumed) = 0 /\ resumed' = resumed /\ inUse < MaxSize /\ ~closed
    BY <1>4 DEF AcquireNow
  <2>2. Probe(t) /\ nativePool = "live"
    BY <1>4 DEF AcquireNow
  <2>3. Lent # Conns
    BY <1>0, <2>1, ConnsFinite DEF TypeOK
  <2> QED
    BY <1>0, <2>1, <2>2, <2>3, ProbeCounts DEF TypeOK
<1>5. ASSUME NEW t \in Tasks, AcquirePark(t) PROVE OrderlyInv'
  BY <1>0, <1>5 DEF AcquirePark, TypeOK, Lent
<1>6. ASSUME NEW t \in Tasks, AcquireRefused(t) PROVE OrderlyInv'
  BY <1>0, <1>6 DEF AcquireRefused, TypeOK, Lent
<1>7. ASSUME NEW t \in Tasks, Timeout(t) PROVE OrderlyInv'
  BY <1>0, <1>7 DEF Timeout, TypeOK, Lent
<1>8. ASSUME NEW t \in Tasks, Retry(t) PROVE OrderlyInv'
  BY <1>0, <1>8 DEF Retry, TypeOK, Lent
<1>9. ASSUME NEW t \in Tasks, NEW c \in Conns, Release(t, c) PROVE OrderlyInv'
  <2>1. Cardinality(Lent') = Cardinality(Lent) - 1
    BY <1>0, <1>9, ReturnOne DEF Release
  <2>2. Len(resumed') \in {Len(resumed), Len(resumed) + 1}
    BY <1>0, <1>9 DEF Release, TypeOK
  <2> QED
    BY <1>0, <1>9, <2>1, <2>2 DEF Release, TypeOK
<1>10. CASE UNCHANGED vars
  BY <1>0, <1>10 DEF vars, TypeOK, Lent
<1> QED
  BY <1>1, <1>2, <1>3, <1>4, <1>5, <1>6, <1>7, <1>8, <1>9, <1>10
  DEF Next, Acquire

LEMMA OrderlyInvariance == Spec => [](CoverInv /\ (~barged => OrderlyInv))
BY CoverInit, CoverStep, OrderlyInit, OrderlyStep, PTL DEF Spec

(* Until a task barges the gate keeps the promise of                       *)
(* connection_pool.dart:236: the count stays within maxSize and the probe  *)
(* behind it always finds a connection.                                    *)
THEOREM OrderlyKeepsItsWord == Spec => []GateKeepsItsWord
<1>1. CoverInv /\ (~barged => OrderlyInv) => GateKeepsItsWord
  BY MaxSizeIsPositive DEF CoverInv, OrderlyInv, GateKeepsItsWord, TypeOK
<1> QED
  BY <1>1, OrderlyInvariance, PTL

(* Until then `borrowed` is the number of connections lent.                *)
THEOREM OrderlyCountIsExact == Spec => []CountIsExact
<1>1. CoverInv /\ (~barged => OrderlyInv) => CountIsExact
  BY DEF OrderlyInv, CountIsExact
<1> QED
  BY <1>1, OrderlyInvariance, PTL

-------------------------------------------------------------------------------
(* While tasks are parked every slot of the pool is counted or promised to *)
(* a waiter whose microtask is queued: only a full pool parks a task, and  *)
(* a release hands its slot on before it hands over its count.             *)
THEOREM GateIdlesNoSlot == Spec => []NoSlotIdleWhileParked
<1>1. Init => NoSlotIdleWhileParked
  BY DEF Init, NoSlotIdleWhileParked
<1>2. TypeOK /\ NoSlotIdleWhileParked /\ [Next]_vars => NoSlotIdleWhileParked'
  <2> SUFFICES ASSUME TypeOK, NoSlotIdleWhileParked, [Next]_vars
               PROVE  NoSlotIdleWhileParked'
    OBVIOUS
  <2> USE DEF NoSlotIdleWhileParked
  <2>0. /\ inUse \in Nat /\ MaxSize \in Nat
        /\ Len(resumed) \in Nat
    BY MaxSizeIsPositive DEF TypeOK
  <2>1. CASE Resume
    <3>1. Len(resumed') = Len(resumed) - 1
      BY <2>1 DEF Resume, TypeOK
    <3> QED
      BY <2>0, <2>1, <3>1 DEF Resume, Probe
  <2>2. ASSUME NEW t \in Tasks, AcquireNow(t) PROVE NoSlotIdleWhileParked'
    BY <2>0, <2>2 DEF AcquireNow, Probe
  <2>3. ASSUME NEW t \in Tasks, AcquirePark(t) PROVE NoSlotIdleWhileParked'
    BY <2>0, <2>3 DEF AcquirePark
  <2>4. ASSUME NEW t \in Tasks, Timeout(t) PROVE NoSlotIdleWhileParked'
    <3>1. waiters # <<>> /\ inUse' = inUse /\ resumed' = resumed
      BY <2>4 DEF Timeout
    <3> QED
      BY <3>1
  <2>5. ASSUME NEW t \in Tasks, NEW c \in Conns, Release(t, c)
        PROVE  NoSlotIdleWhileParked'
    <3>1. CASE waiters = <<>>
      BY <2>5, <3>1 DEF Release
    <3>2. CASE waiters # <<>>
      <4>1. Head(waiters) \in Tasks /\ resumed' = Append(resumed, Head(waiters))
        BY <2>5, <3>2, HeadTailProperties DEF Release, TypeOK
      <4>2. Len(resumed') = Len(resumed) + 1
        BY <4>1, AppendProperties DEF TypeOK
      <4> QED
        BY <2>0, <2>5, <3>2, <4>2 DEF Release
    <3> QED
      BY <3>1, <3>2
  <2>6. CASE Start \/ Close
    BY <2>6 DEF Start, Close
  <2>7. ASSUME NEW t \in Tasks, AcquireRefused(t) \/ Retry(t)
        PROVE  NoSlotIdleWhileParked'
    BY <2>7 DEF AcquireRefused, Retry
  <2>8. CASE UNCHANGED vars
    BY <2>8 DEF vars
  <2> QED
    BY <2>1, <2>2, <2>3, <2>4, <2>5, <2>6, <2>7, <2>8 DEF Next, Acquire
<1> QED
  BY <1>1, <1>2, GateTypeOK, PTL DEF Spec

-------------------------------------------------------------------------------
(* A task is in one place at a time: a queue holds parked tasks only, each *)
(* once and in one queue, and a task that holds a connection holds one and *)
(* waits for none.                                                         *)
PlaceInv ==
    /\ \A i \in DOMAIN waiters : pc[waiters[i]] = "parked"
    /\ \A i \in DOMAIN resumed : pc[resumed[i]] = "parked"
    /\ \A i, j \in DOMAIN waiters : waiters[i] = waiters[j] => i = j
    /\ \A i, j \in DOMAIN resumed : resumed[i] = resumed[j] => i = j
    /\ \A i \in DOMAIN waiters, j \in DOMAIN resumed : waiters[i] # resumed[j]
    /\ \A c \in Conns : holder[c] # NoTask => pc[holder[c]] = "holding"
    /\ \A c, d \in Conns : holder[c] # NoTask /\ holder[c] = holder[d] => c = d

(* A probe for a task that holds nothing moves that task, and keeps one    *)
(* holder per connection.                                                  *)
LEMMA ProbePlaces ==
    ASSUME TypeOK, PlaceInv, NEW t \in Tasks, Probe(t), pc[t] # "holding"
    PROVE  /\ \A u \in Tasks \ {t} : pc'[u] = pc[u]
           /\ \A c \in Conns : holder'[c] # NoTask => pc'[holder'[c]] = "holding"
           /\ \A c, d \in Conns :
                 holder'[c] # NoTask /\ holder'[c] = holder'[d] => c = d
<1>1. CASE \E c \in Conns \ Lent : holder' = [holder EXCEPT ![c] = t]
                                   /\ pc' = [pc EXCEPT ![t] = "holding"]
  BY <1>1, NoTaskIsNoTask DEF TypeOK, PlaceInv
<1>2. CASE /\ holder' = holder
           /\ \E l \in Failures : pc' = [pc EXCEPT ![t] = l]
  BY <1>2, NoTaskIsNoTask DEF TypeOK, PlaceInv
<1> QED
  BY <1>1, <1>2 DEF Probe, Failures

(* Removing the i-th element of a queue closes the gap. *)
LEMMA RemoveAtClosesGap ==
    ASSUME NEW S, NEW s \in Seq(S), NEW i \in 1..Len(s)
    PROVE  /\ DOMAIN RemoveAt(s, i) = 1..(Len(s) - 1)
           /\ \A j \in 1..(Len(s) - 1) :
                 RemoveAt(s, i)[j] = IF j < i THEN s[j] ELSE s[j + 1]
<1> DEFINE front == SubSeq(s, 1, i - 1)
           back  == SubSeq(s, i + 1, Len(s))
<1>0. Len(s) \in Nat /\ \A j \in 1..Len(s) : s[j] \in S
  BY LenProperties, ElementOfSeq
<1>1. /\ front \in Seq(S) /\ Len(front) = i - 1
      /\ \A j \in 1..(i - 1) : front[j] = s[j]
  BY <1>0, SubSeqProperties
<1>2. /\ back \in Seq(S) /\ Len(back) = Len(s) - i
      /\ \A j \in 1..(Len(s) - i) : back[j] = s[i + j]
  BY <1>0, SubSeqProperties
<1> HIDE DEF front, back
<1>3. /\ front \o back \in Seq(S)
      /\ Len(front \o back) = Len(front) + Len(back)
      /\ \A j \in 1..(Len(front) + Len(back)) :
            (front \o back)[j] =
               IF j <= Len(front) THEN front[j] ELSE back[j - Len(front)]
  BY <1>1, <1>2, ConcatProperties
<1>4. Len(front) + Len(back) = Len(s) - 1 /\ Len(front) = i - 1
  BY <1>0, <1>1, <1>2
<1>5. DOMAIN (front \o back) = 1..(Len(s) - 1)
  BY <1>3, <1>4, LenProperties
<1>6. ASSUME NEW j \in 1..(Len(s) - 1)
      PROVE  (front \o back)[j] = IF j < i THEN s[j] ELSE s[j + 1]
  <2>1. (front \o back)[j] = IF j <= i - 1 THEN front[j] ELSE back[j - (i - 1)]
    BY <1>3, <1>4
  <2>2. j \in Nat /\ i \in Nat
    BY <1>0
  <2>3. CASE j < i
    BY <1>1, <2>1, <2>2, <2>3
  <2>4. CASE ~(j < i)
    <3>1. j - (i - 1) \in 1..(Len(s) - i) /\ i + (j - (i - 1)) = j + 1
      BY <1>0, <2>2, <2>4
    <3>2. back[j - (i - 1)] = s[j + 1]
      BY <1>2, <3>1
    <3> QED
      BY <2>1, <2>2, <2>4, <3>2
  <2> QED
    BY <2>3, <2>4
<1> QED
  BY <1>5, <1>6 DEF RemoveAt, front, back

LEMMA PlaceStep == TypeOK /\ PlaceInv /\ [Next]_vars => PlaceInv'
<1> SUFFICES ASSUME TypeOK, PlaceInv, [Next]_vars PROVE PlaceInv'
  OBVIOUS
<1> USE DEF PlaceInv
<1>0. /\ DOMAIN waiters = 1..Len(waiters) /\ Len(waiters) \in Nat
      /\ DOMAIN resumed = 1..Len(resumed) /\ Len(resumed) \in Nat
      /\ \A i \in DOMAIN waiters : waiters[i] \in Tasks
      /\ \A i \in DOMAIN resumed : resumed[i] \in Tasks
  BY LenProperties, ElementOfSeq DEF TypeOK
<1>1. CASE Start
  BY <1>1 DEF Start
<1>2. CASE Resume
  <2>1. /\ Head(resumed) = resumed[1]
        /\ DOMAIN resumed' = 1..(Len(resumed) - 1)
        /\ \A i \in DOMAIN resumed' : i + 1 \in DOMAIN resumed
                                      /\ resumed'[i] = resumed[i + 1]
        /\ 1 \in DOMAIN resumed
    BY <1>0, <1>2, HeadTailProperties DEF Resume, TypeOK
  <2> DEFINE t == resumed[1]
  <2>2. /\ t \in Tasks /\ pc[t] = "parked" /\ Probe(t)
        /\ waiters' = waiters
    BY <1>0, <1>2, <2>1 DEF Resume, Probe
  <2>3. /\ \A i \in DOMAIN waiters : waiters[i] \in Tasks \ {t}
        /\ \A i \in DOMAIN resumed' : resumed'[i] \in Tasks \ {t}
    BY <1>0, <2>1
  <2> HIDE DEF t
  <2>4. \A u \in Tasks \ {t} : pc'[u] = pc[u]
    BY <2>2, ProbePlaces
  <2>5. /\ \A c \in Conns : holder'[c] # NoTask => pc'[holder'[c]] = "holding"
        /\ \A c, d \in Conns :
              holder'[c] # NoTask /\ holder'[c] = holder'[d] => c = d
    BY <2>2, ProbePlaces
  <2> QED
    BY <1>0, <2>1, <2>2, <2>3, <2>4, <2>5
<1>3. CASE Close
  <2>1. ToSet(waiters) = {waiters[i] : i \in DOMAIN waiters}
    BY DEF ToSet
  <2> QED
    BY <1>0, <1>3, <2>1, NoTaskIsNoTask DEF Close, TypeOK
<1>4. ASSUME NEW t \in Tasks, AcquireNow(t) PROVE PlaceInv'
  BY <1>0, <1>4, ProbePlaces DEF AcquireNow, Probe
<1>5. ASSUME NEW t \in Tasks, AcquirePark(t) PROVE PlaceInv'
  <2>1. /\ DOMAIN waiters' = 1..(Len(waiters) + 1)
        /\ \A i \in DOMAIN waiters : waiters'[i] = waiters[i]
        /\ waiters'[Len(waiters) + 1] = t
    BY <1>0, <1>5, AppendProperties DEF AcquirePark, TypeOK
  <2>2. /\ pc[t] = "idle" /\ pc' = [pc EXCEPT ![t] = "parked"]
        /\ UNCHANGED <<resumed, holder>>
    BY <1>5 DEF AcquirePark
  <2>3. \A u \in Tasks : pc[u] \in {"parked", "holding"} => pc'[u] = pc[u]
    BY <2>2 DEF TypeOK
  <2>4. pc'[t] = "parked"
    BY <2>2 DEF TypeOK
  <2>5. \A i \in DOMAIN waiters' : i \in DOMAIN waiters \/ i = Len(waiters) + 1
    BY <1>0, <2>1
  <2>6. /\ \A i \in DOMAIN waiters' : pc'[waiters'[i]] = "parked"
        /\ \A i \in DOMAIN resumed' : pc'[resumed'[i]] = "parked"
    BY <1>0, <2>1, <2>2, <2>3, <2>4, <2>5
  <2>7. \A c \in Conns : holder'[c] # NoTask => pc'[holder'[c]] = "holding"
    BY <2>2, <2>3, NoTaskIsNoTask DEF TypeOK
  <2>8. /\ \A i \in DOMAIN waiters : waiters[i] # t
        /\ \A i \in DOMAIN resumed : resumed[i] # t
    BY <2>2
  <2>9. \A i, j \in DOMAIN waiters' : waiters'[i] = waiters'[j] => i = j
    BY <2>1, <2>5, <2>8
  <2>10. \A i \in DOMAIN waiters', j \in DOMAIN resumed' :
            waiters'[i] # resumed'[j]
    BY <2>1, <2>2, <2>5, <2>8
  <2>11. /\ \A i, j \in DOMAIN resumed' : resumed'[i] = resumed'[j] => i = j
         /\ \A c, d \in Conns :
               holder'[c] # NoTask /\ holder'[c] = holder'[d] => c = d
    BY <2>2
  <2> QED
    BY <2>6, <2>7, <2>9, <2>10, <2>11
<1>6. ASSUME NEW t \in Tasks, AcquireRefused(t) \/ Retry(t) PROVE PlaceInv'
  <2>1. waiters' = waiters /\ resumed' = resumed /\ holder' = holder
    BY <1>6 DEF AcquireRefused, Retry
  <2>2. \A u \in Tasks : pc[u] \in {"parked", "holding"} => pc'[u] = pc[u]
    BY <1>6 DEF AcquireRefused, Retry, Failures, TypeOK
  <2>3. /\ \A i \in DOMAIN waiters : pc'[waiters[i]] = "parked"
        /\ \A i \in DOMAIN resumed : pc'[resumed[i]] = "parked"
    BY <1>0, <2>2
  <2>4. \A c \in Conns : holder[c] # NoTask => pc'[holder[c]] = "holding"
    BY <2>2, NoTaskIsNoTask DEF TypeOK
  <2>5. /\ \A i, j \in DOMAIN waiters' : waiters'[i] = waiters'[j] => i = j
        /\ \A i, j \in DOMAIN resumed' : resumed'[i] = resumed'[j] => i = j
    BY <2>1
  <2>6. \A i \in DOMAIN waiters', j \in DOMAIN resumed' :
           waiters'[i] # resumed'[j]
    BY <2>1
  <2>7. \A c, d \in Conns :
           holder'[c] # NoTask /\ holder'[c] = holder'[d] => c = d
    BY <2>1
  <2>8. /\ \A i \in DOMAIN waiters' : pc'[waiters'[i]] = "parked"
        /\ \A i \in DOMAIN resumed' : pc'[resumed'[i]] = "parked"
        /\ \A c \in Conns : holder'[c] # NoTask => pc'[holder'[c]] = "holding"
    BY <2>1, <2>3, <2>4
  <2> QED
    BY <2>5, <2>6, <2>7, <2>8
<1>7. ASSUME NEW t \in Tasks, Timeout(t) PROVE PlaceInv'
  <2>1. PICK i \in DOMAIN waiters : waiters[i] = t /\ waiters' = RemoveAt(waiters, i)
    BY <1>7 DEF Timeout
  <2>2. /\ DOMAIN waiters' = 1..(Len(waiters) - 1)
        /\ \A j \in DOMAIN waiters' :
              waiters'[j] = IF j < i THEN waiters[j] ELSE waiters[j + 1]
    BY <1>0, <2>1, RemoveAtClosesGap DEF TypeOK
  <2>3. \A j \in DOMAIN waiters' : waiters'[j] # t
    BY <1>0, <2>1, <2>2
  <2>4. /\ resumed = <<>> /\ resumed' = <<>> /\ holder' = holder
        /\ pc' = [pc EXCEPT ![t] = "exhausted"]
    BY <1>7 DEF Timeout
  <2>5. \A u \in Tasks : u # t => pc'[u] = pc[u]
    BY <2>4 DEF TypeOK
  <2>6. \A j \in DOMAIN waiters' : \E k \in DOMAIN waiters : waiters'[j] = waiters[k]
    BY <1>0, <2>1, <2>2
  <2>7. \A j \in DOMAIN waiters' : pc'[waiters'[j]] = "parked"
    BY <1>0, <2>3, <2>5, <2>6
  <2>8. \A j, k \in DOMAIN waiters' : waiters'[j] = waiters'[k] => j = k
    BY <1>0, <2>1, <2>2
  <2>9. pc[t] = "parked"
    BY <2>1
  <2> QED
    BY <2>4, <2>7, <2>8, <2>9, NoTaskIsNoTask DEF TypeOK
<1>8. ASSUME NEW t \in Tasks, NEW c \in Conns, Release(t, c) PROVE PlaceInv'
  <2>1. /\ pc[t] = "holding"
        /\ pc' = [pc EXCEPT ![t] = "idle"]
        /\ holder' = [holder EXCEPT ![c] = NoTask]
    BY <1>8, NoTaskIsNoTask DEF Release
  <2>2. /\ \A d \in Conns : holder'[d] # NoTask => pc'[holder'[d]] = "holding"
        /\ \A d, e \in Conns :
              holder'[d] # NoTask /\ holder'[d] = holder'[e] => d = e
    BY <1>8, <2>1, NoTaskIsNoTask DEF Release, TypeOK
  <2>3. CASE waiters = <<>>
    BY <1>0, <1>8, <2>1, <2>2, <2>3 DEF Release, TypeOK
  <2>4. CASE waiters # <<>>
    <3>1. /\ Head(waiters) = waiters[1]
          /\ 1 \in DOMAIN waiters
          /\ DOMAIN waiters' = 1..(Len(waiters) - 1)
          /\ \A i \in DOMAIN waiters' : i + 1 \in DOMAIN waiters
                                        /\ waiters'[i] = waiters[i + 1]
      BY <1>0, <1>8, <2>4, HeadTailProperties DEF Release, TypeOK
    <3>2. /\ DOMAIN resumed' = 1..(Len(resumed) + 1)
          /\ \A i \in DOMAIN resumed : resumed'[i] = resumed[i]
          /\ resumed'[Len(resumed) + 1] = waiters[1]
      BY <1>0, <1>8, <2>4, <3>1, AppendProperties DEF Release, TypeOK
    <3>3. \A u \in Tasks : pc[u] = "parked" => pc'[u] = "parked"
      BY <2>1 DEF TypeOK
    <3> QED
      BY <1>0, <2>2, <3>1, <3>2, <3>3
  <2> QED
    BY <2>3, <2>4
<1>9. CASE UNCHANGED vars
  BY <1>9 DEF vars
<1> QED
  BY <1>1, <1>2, <1>3, <1>4, <1>5, <1>6, <1>7, <1>8, <1>9 DEF Next, Acquire

LEMMA PlaceInvariance == Spec => []PlaceInv
<1>1. Init => PlaceInv
  BY DEF Init, PlaceInv
<1> QED
  BY <1>1, PlaceStep, GateTypeOK, PTL DEF Spec

(* Who is parked stands in a queue, and who parked first stands first:     *)
(* `resumed` before `waiters`, and in each of them in order.               *)
Before(s, t) ==
    \/ \E i, j \in DOMAIN resumed : i < j /\ resumed[i] = s /\ resumed[j] = t
    \/ \E i, j \in DOMAIN waiters : i < j /\ waiters[i] = s /\ waiters[j] = t
    \/ \E i \in DOMAIN resumed, j \in DOMAIN waiters :
          resumed[i] = s /\ waiters[j] = t

Queued(t) == \/ \E i \in DOMAIN resumed : resumed[i] = t
             \/ \E i \in DOMAIN waiters : waiters[i] = t

OrderInv == /\ \A t \in Parked : Queued(t)
            /\ \A s, t \in Tasks : <<s, t>> \in ahead =>
                  s \in Parked /\ t \in Parked /\ Before(s, t)

(* Nobody is ahead of the continuation that runs next.                     *)
LEMMA NobodyAheadOfHead ==
    ASSUME TypeOK, PlaceInv, OrderInv, resumed # <<>>, NEW s \in Tasks
    PROVE  <<s, Head(resumed)>> \notin ahead
<1>1. /\ Head(resumed) = resumed[1] /\ 1 \in DOMAIN resumed
      /\ DOMAIN resumed = 1..Len(resumed) /\ Len(resumed) \in Nat
      /\ resumed[1] \in Tasks
  BY HeadTailProperties, LenProperties, ElementOfSeq DEF TypeOK
<1>2. ~Before(s, resumed[1])
  BY <1>1 DEF Before, PlaceInv
<1> QED
  BY <1>1, <1>2 DEF OrderInv

(* Steps that leave the queues and the set of parked calls alone.          *)
LEMMA OrderUndisturbed ==
    ASSUME OrderInv, UNCHANGED <<waiters, resumed, ahead>>, Parked' = Parked
    PROVE  OrderInv'
BY DEF OrderInv, Before, Queued

LEMMA OrderStep == TypeOK /\ PlaceInv /\ OrderInv /\ [Next]_vars => OrderInv'
<1> SUFFICES ASSUME TypeOK, PlaceInv, OrderInv, [Next]_vars PROVE OrderInv'
  OBVIOUS
<1>0. /\ DOMAIN waiters = 1..Len(waiters) /\ Len(waiters) \in Nat
      /\ DOMAIN resumed = 1..Len(resumed) /\ Len(resumed) \in Nat
      /\ \A i \in DOMAIN waiters : waiters[i] \in Tasks
      /\ \A i \in DOMAIN resumed : resumed[i] \in Tasks
      /\ \A i \in DOMAIN waiters : pc[waiters[i]] = "parked"
      /\ \A i \in DOMAIN resumed : pc[resumed[i]] = "parked"
  BY LenProperties, ElementOfSeq DEF TypeOK, PlaceInv
<1>1. CASE Start
  BY <1>1, OrderUndisturbed DEF Start, Parked
<1>2. CASE Resume
  <2> DEFINE t == resumed[1]
  <2>1. /\ Head(resumed) = t
        /\ DOMAIN resumed' = 1..(Len(resumed) - 1)
        /\ \A i \in DOMAIN resumed' : resumed'[i] = resumed[i + 1]
        /\ 1 \in DOMAIN resumed
    BY <1>0, <1>2, HeadTailProperties DEF Resume, TypeOK
  <2>2. t \in Tasks /\ pc[t] = "parked" /\ Probe(t) /\ waiters' = waiters
    BY <1>0, <1>2, <2>1 DEF Resume, Probe
  <2>3. Parked' = Parked \ {t}
    BY <2>2 DEF Probe, Parked, TypeOK
  <2>4. ahead' = {p \in ahead : p[1] \in Parked' /\ p[2] \in Parked'}
    BY <1>2 DEF Resume, StillParked
  <2>5. ASSUME NEW i \in DOMAIN resumed, resumed[i] # t
        PROVE  i - 1 \in DOMAIN resumed' /\ resumed'[i - 1] = resumed[i]
    BY <1>0, <2>1, <2>5
  <2> HIDE DEF t
  <2>6. \A u \in Tasks : u # t /\ Queued(u) => Queued(u)'
    BY <2>2, <2>5 DEF Queued
  <2>7. ASSUME NEW r \in Tasks, NEW u \in Tasks, r # t, u # t, Before(r, u)
        PROVE  Before(r, u)'
    <3>1. CASE \E i, j \in DOMAIN resumed :
                  i < j /\ resumed[i] = r /\ resumed[j] = u
      <4>1. PICK i, j \in DOMAIN resumed :
                    i < j /\ resumed[i] = r /\ resumed[j] = u
        BY <3>1
      <4>2. /\ i - 1 \in DOMAIN resumed' /\ resumed'[i - 1] = r
            /\ j - 1 \in DOMAIN resumed' /\ resumed'[j - 1] = u
            /\ i - 1 < j - 1
        BY <1>0, <2>5, <2>7, <4>1
      <4> QED
        BY <4>2 DEF Before
    <3>2. CASE \E i, j \in DOMAIN waiters :
                  i < j /\ waiters[i] = r /\ waiters[j] = u
      BY <2>2, <3>2 DEF Before
    <3>3. CASE \E i \in DOMAIN resumed, j \in DOMAIN waiters :
                  resumed[i] = r /\ waiters[j] = u
      BY <2>2, <2>5, <2>7, <3>3 DEF Before
    <3> QED
      BY <2>7, <3>1, <3>2, <3>3 DEF Before
  <2>8. \A u \in Parked' : u \in Tasks /\ u # t
    BY <2>3 DEF Parked
  <2>9. \A r, u \in Tasks : <<r, u>> \in ahead' =>
           <<r, u>> \in ahead /\ r \in Parked' /\ u \in Parked'
    BY <2>4
  <2>10. \A u \in Parked' : Queued(u)'
    BY <2>3, <2>6, <2>8 DEF OrderInv
  <2>11. \A r, u \in Tasks : <<r, u>> \in ahead' =>
            r \in Parked' /\ u \in Parked' /\ Before(r, u)'
    BY <2>7, <2>8, <2>9 DEF OrderInv
  <2> QED
    BY <2>10, <2>11 DEF OrderInv
<1>3. CASE Close
  <2>1. /\ ToSet(waiters) = {waiters[i] : i \in DOMAIN waiters}
        /\ waiters' = <<>> /\ resumed' = resumed
        /\ pc' = [u \in Tasks |-> IF u \in ToSet(waiters) THEN "pool_closed"
                                                         ELSE pc[u]]
        /\ ahead' = {p \in ahead : p[1] \in Parked' /\ p[2] \in Parked'}
    BY <1>3 DEF Close, StillParked, ToSet
  <2>2. Parked' = {u \in Parked : \A i \in DOMAIN waiters : waiters[i] # u}
    BY <2>1 DEF Parked
  <2>3. \A u \in Parked' : Queued(u)'
    BY <2>1, <2>2 DEF OrderInv, Queued
  <2>4. \A r, u \in Tasks : <<r, u>> \in ahead' =>
           r \in Parked' /\ u \in Parked' /\ Before(r, u)'
    BY <2>1, <2>2 DEF OrderInv, Before
  <2> QED
    BY <2>3, <2>4 DEF OrderInv
<1>4. ASSUME NEW t \in Tasks, AcquireNow(t) PROVE OrderInv'
  <2>1. Parked' = Parked
    BY <1>4 DEF AcquireNow, Probe, Parked, TypeOK
  <2> QED
    BY <1>4, <2>1, OrderUndisturbed DEF AcquireNow, Probe
<1>5. ASSUME NEW t \in Tasks, AcquirePark(t) PROVE OrderInv'
  <2>1. /\ DOMAIN waiters' = 1..(Len(waiters) + 1)
        /\ \A i \in DOMAIN waiters : waiters'[i] = waiters[i]
        /\ waiters'[Len(waiters) + 1] = t
    BY <1>0, <1>5, AppendProperties DEF AcquirePark, TypeOK
  <2>2. /\ Parked' = Parked \cup {t}
        /\ resumed' = resumed
        /\ ahead' = ahead \cup (Parked \X {t})
    BY <1>5 DEF AcquirePark, Parked, TypeOK
  <2>3. Queued(t)' /\ \A u \in Tasks : Queued(u) => Queued(u)'
    BY <1>0, <2>1, <2>2 DEF Queued
  <2>4. \A r, u \in Tasks : Before(r, u) => Before(r, u)'
    BY <1>0, <2>1, <2>2 DEF Before
  <2>5. ASSUME NEW r \in Parked PROVE Before(r, t)'
    <3>1. Queued(r)
      BY DEF OrderInv
    <3>2. /\ Len(waiters) + 1 \in DOMAIN waiters'
          /\ \A i \in DOMAIN waiters : i \in DOMAIN waiters' /\ i < Len(waiters) + 1
      BY <1>0, <2>1
    <3> QED
      BY <2>1, <2>2, <3>1, <3>2 DEF Queued, Before
  <2>6. \A u \in Parked' : Queued(u)'
    BY <2>2, <2>3 DEF OrderInv, Parked
  <2>7. \A r, u \in Tasks : <<r, u>> \in ahead' =>
           r \in Parked' /\ u \in Parked' /\ Before(r, u)'
    BY <2>2, <2>4, <2>5 DEF OrderInv
  <2> QED
    BY <2>6, <2>7 DEF OrderInv
<1>6. ASSUME NEW t \in Tasks, AcquireRefused(t) \/ Retry(t) PROVE OrderInv'
  <2>1. Parked' = Parked
    BY <1>6 DEF AcquireRefused, Retry, Failures, Parked, TypeOK
  <2> QED
    BY <1>6, <2>1, OrderUndisturbed DEF AcquireRefused, Retry
<1>7. ASSUME NEW t \in Tasks, Timeout(t) PROVE OrderInv'
  <2>1. PICK k \in DOMAIN waiters : waiters[k] = t /\ waiters' = RemoveAt(waiters, k)
    BY <1>7 DEF Timeout
  <2>2. /\ DOMAIN waiters' = 1..(Len(waiters) - 1)
        /\ \A j \in DOMAIN waiters' :
              waiters'[j] = IF j < k THEN waiters[j] ELSE waiters[j + 1]
    BY <1>0, <2>1, RemoveAtClosesGap DEF TypeOK
  <2>3. /\ resumed = <<>> /\ resumed' = <<>>
        /\ pc' = [pc EXCEPT ![t] = "exhausted"]
        /\ ahead' = {p \in ahead : p[1] \in Parked' /\ p[2] \in Parked'}
    BY <1>7 DEF Timeout, StillParked
  <2>4. Parked' = Parked \ {t}
    BY <2>3 DEF Parked, TypeOK
  <2> DEFINE Shift(i) == IF i < k THEN i ELSE i - 1
  <2>5. ASSUME NEW i \in DOMAIN waiters, waiters[i] # t
        PROVE  Shift(i) \in DOMAIN waiters' /\ waiters'[Shift(i)] = waiters[i]
    BY <1>0, <2>1, <2>2, <2>5
  <2>6. ASSUME NEW i \in DOMAIN waiters, NEW j \in DOMAIN waiters,
               waiters[i] # t, waiters[j] # t, i < j
        PROVE  Shift(i) < Shift(j)
    BY <1>0, <2>1, <2>6
  <2> HIDE DEF Shift
  <2>7. ASSUME NEW u \in Parked' PROVE Queued(u)'
    <3>1. u \in Parked /\ u # t
      BY <2>4
    <3>2. PICK i \in DOMAIN waiters : waiters[i] = u
      BY <2>3, <3>1 DEF OrderInv, Queued
    <3> QED
      BY <2>5, <3>1, <3>2 DEF Queued
  <2>8. ASSUME NEW r \in Tasks, NEW u \in Tasks, <<r, u>> \in ahead'
        PROVE  r \in Parked' /\ u \in Parked' /\ Before(r, u)'
    <3>1. r \in Parked' /\ u \in Parked' /\ <<r, u>> \in ahead
      BY <2>3, <2>8
    <3>2. r # t /\ u # t
      BY <2>4, <3>1
    <3>3. PICK i, j \in DOMAIN waiters :
                  i < j /\ waiters[i] = r /\ waiters[j] = u
      BY <2>3, <3>1 DEF OrderInv, Before
    <3> QED
      BY <2>5, <2>6, <3>1, <3>2, <3>3 DEF Before
  <2> QED
    BY <2>7, <2>8 DEF OrderInv
<1>8. ASSUME NEW t \in Tasks, NEW c \in Conns, Release(t, c) PROVE OrderInv'
  <2>1. Parked' = Parked /\ ahead' = ahead
    <3>1. pc[t] = "holding" /\ pc' = [pc EXCEPT ![t] = "idle"]
      BY <1>8, NoTaskIsNoTask DEF Release, PlaceInv
    <3> QED
      BY <1>8, <3>1 DEF Release, Parked, TypeOK
  <2>2. CASE waiters = <<>>
    BY <1>8, <2>1, <2>2, OrderUndisturbed DEF Release
  <2>3. CASE waiters # <<>>
    <3>1. /\ Head(waiters) = waiters[1]
          /\ 1 \in DOMAIN waiters
          /\ DOMAIN waiters' = 1..(Len(waiters) - 1)
          /\ \A i \in DOMAIN waiters' : waiters'[i] = waiters[i + 1]
      BY <1>0, <1>8, <2>3, HeadTailProperties DEF Release, TypeOK
    <3>2. /\ DOMAIN resumed' = 1..(Len(resumed) + 1)
          /\ \A i \in DOMAIN resumed : resumed'[i] = resumed[i]
          /\ resumed'[Len(resumed) + 1] = waiters[1]
      BY <1>0, <1>8, <2>3, <3>1, AppendProperties DEF Release, TypeOK
    <3>3. /\ \A i \in DOMAIN waiters :
               i # 1 => i - 1 \in DOMAIN waiters' /\ waiters'[i - 1] = waiters[i]
          /\ \A i \in DOMAIN resumed : i \in DOMAIN resumed'
                                        /\ i < Len(resumed) + 1
          /\ Len(resumed) + 1 \in DOMAIN resumed'
      BY <1>0, <3>1, <3>2
    <3>4. \A u \in Tasks : Queued(u) => Queued(u)'
      BY <3>2, <3>3 DEF Queued
    <3>5. ASSUME NEW r \in Tasks, NEW u \in Tasks, Before(r, u)
          PROVE  Before(r, u)'
      <4>1. CASE \E i, j \in DOMAIN resumed :
                    i < j /\ resumed[i] = r /\ resumed[j] = u
        BY <3>2, <3>3, <4>1 DEF Before
      <4>2. CASE \E i, j \in DOMAIN waiters :
                    i < j /\ waiters[i] = r /\ waiters[j] = u
        <5>1. PICK i, j \in DOMAIN waiters :
                      i < j /\ waiters[i] = r /\ waiters[j] = u
          BY <4>2
        <5>2. j # 1 /\ j - 1 \in DOMAIN waiters' /\ waiters'[j - 1] = u
          BY <1>0, <3>3, <5>1
        <5>3. CASE i = 1
          BY <3>2, <3>3, <5>1, <5>2, <5>3 DEF Before
        <5>4. CASE i # 1
          <6>1. i - 1 \in DOMAIN waiters' /\ waiters'[i - 1] = r /\ i - 1 < j - 1
            BY <1>0, <3>3, <5>1, <5>4
          <6> QED
            BY <5>2, <6>1 DEF Before
        <5> QED
          BY <5>3, <5>4
      <4>3. CASE \E i \in DOMAIN resumed, j \in DOMAIN waiters :
                    resumed[i] = r /\ waiters[j] = u
        BY <3>2, <3>3, <4>3 DEF Before
      <4> QED
        BY <3>5, <4>1, <4>2, <4>3 DEF Before
    <3>6. \A u \in Parked' : Queued(u)'
      BY <2>1, <3>4 DEF OrderInv, Parked
    <3>7. \A r, u \in Tasks : <<r, u>> \in ahead' =>
             r \in Parked' /\ u \in Parked' /\ Before(r, u)'
      BY <2>1, <3>5 DEF OrderInv
    <3> QED
      BY <3>6, <3>7 DEF OrderInv
  <2> QED
    BY <2>2, <2>3
<1>9. CASE UNCHANGED vars
  <2>1. Parked' = Parked
    BY <1>9 DEF vars, Parked
  <2> QED
    BY <1>9, <2>1, OrderUndisturbed DEF vars
<1> QED
  BY <1>1, <1>2, <1>3, <1>4, <1>5, <1>6, <1>7, <1>8, <1>9 DEF Next, Acquire

(* connection_pool.dart:179, "Drained FIFO": however releases, deadlines    *)
(* and barging tasks interleave, a call that parked is never served while   *)
(* one that parked before it is still waiting.                              *)
THEOREM GateServesInOrder == Spec => ServedInOrder
<1> DEFINE Step ==
       \A t \in Tasks :
          pc[t] = "parked" /\ pc'[t] = "holding"
              => \A s \in Tasks : <<s, t>> \notin ahead
<1>1. Init => OrderInv
  BY DEF Init, OrderInv, Parked
<1>2. TypeOK /\ PlaceInv /\ OrderInv /\ [Next]_vars => [Step]_vars
  <2> SUFFICES ASSUME TypeOK, PlaceInv, OrderInv, Next,
                      NEW t \in Tasks, pc[t] = "parked", pc'[t] = "holding",
                      NEW s \in Tasks
               PROVE  <<s, t>> \notin ahead
    OBVIOUS
  <2>1. CASE Resume
    <3>1. resumed # <<>> /\ Head(resumed) \in Tasks /\ Probe(Head(resumed))
      BY <2>1, HeadTailProperties DEF Resume, TypeOK
    <3>2. pc'[t] = pc[t] \/ t = Head(resumed)
      BY <3>1 DEF Probe, TypeOK
    <3> QED
      BY <3>1, <3>2, NobodyAheadOfHead
  <2>2. ASSUME NEW u \in Tasks, AcquireNow(u) PROVE FALSE
    BY <2>2, ProbePlaces DEF AcquireNow
  <2>3. ASSUME NEW u \in Tasks,
               AcquirePark(u) \/ AcquireRefused(u) \/ Timeout(u) \/ Retry(u)
        PROVE  FALSE
    BY <2>3 DEF AcquirePark, AcquireRefused, Timeout, Retry, TypeOK
  <2>4. ASSUME NEW u \in Tasks, NEW c \in Conns, Release(u, c) PROVE FALSE
    BY <2>4 DEF Release, TypeOK
  <2>5. CASE Start \/ Close
    BY <2>5 DEF Start, Close, TypeOK
  <2> QED
    BY <2>1, <2>2, <2>3, <2>4, <2>5 DEF Next, Acquire
<1> QED
  BY <1>1, <1>2, OrderStep, GateTypeOK, PlaceInvariance, PTL
  DEF Spec, ServedInOrder

-------------------------------------------------------------------------------
(* The C pool exists exactly between start() and close(). *)
LifeInv ==
    /\ nativePool = "live" => ~closed
    /\ nativePool = "destroyed" => closed

LEMMA LifeStep == TypeOK /\ LifeInv /\ [Next]_vars => LifeInv'
BY DEF TypeOK, LifeInv, Next, vars, Start, Resume, Probe, Close, Acquire,
       AcquireNow, AcquirePark, AcquireRefused, Timeout, Retry, Release

(* A probe lends one free handle of an open pool, or lends nothing.        *)
LEMMA ProbeIsTakeOrStutter ==
    ASSUME TypeOK, LifeInv, NEW t \in Tasks, Probe(t)
    PROVE  [Lease!Next]_(Lease!vars)
<1>1. closed' = closed /\ nativePool' = nativePool
  BY DEF Probe
<1>2. CASE nativePool = "live" /\ \E c \in Conns \ Lent : holder' = [holder EXCEPT ![c] = t]
  <2>1. PICK c \in Conns \ Lent : holder' = [holder EXCEPT ![c] = t]
    BY <1>2
  <2>2. Lease!Take(t, c)
    BY <1>1, <1>2, <2>1 DEF Lease!Take, Lent, LifeInv
  <2> QED
    BY <2>2 DEF Lease!Next
<1>3. CASE holder' = holder
  BY <1>1, <1>3 DEF Lease!vars
<1> QED
  BY <1>2, <1>3 DEF Probe

(* The gate lends each handle to one task at a time, only while the C pool *)
(* exists, and takes it back only from that task: it implements LeasePool, *)
(* barging or not.                                                         *)
THEOREM GateImplementsLeasePool == Spec => ImplementsLeasePool
<1>1. Init => Lease!Init /\ LifeInv
  BY DEF Init, Lease!Init, LifeInv
<1>2. TypeOK /\ LifeInv /\ [Next]_vars => [Lease!Next]_(Lease!vars)
  <2> SUFFICES ASSUME TypeOK, LifeInv, [Next]_vars
               PROVE  [Lease!Next]_(Lease!vars)
    OBVIOUS
  <2>1. CASE Start
    BY <2>1 DEF Start, Lease!Next, Lease!Open
  <2>2. CASE Resume
    <3>1. Head(resumed) \in Tasks /\ Probe(Head(resumed))
      BY <2>2, HeadTailProperties DEF Resume, TypeOK
    <3> QED
      BY <3>1, ProbeIsTakeOrStutter
  <2>3. CASE Close
    BY <2>3 DEF Close, Lease!Next, Lease!Close
  <2>4. ASSUME NEW t \in Tasks, AcquireNow(t) PROVE [Lease!Next]_(Lease!vars)
    BY <2>4, ProbeIsTakeOrStutter DEF AcquireNow
  <2>5. ASSUME NEW t \in Tasks, AcquirePark(t) \/ AcquireRefused(t) \/ Timeout(t) \/ Retry(t)
        PROVE  [Lease!Next]_(Lease!vars)
    BY <2>5 DEF AcquirePark, AcquireRefused, Timeout, Retry, Lease!vars
  <2>6. ASSUME NEW t \in Tasks, NEW c \in Conns, Release(t, c)
        PROVE  [Lease!Next]_(Lease!vars)
    <3>1. Lease!Give(t, c)
      BY <2>6 DEF Release, Lease!Give
    <3> QED
      BY <3>1 DEF Lease!Next
  <2>7. CASE UNCHANGED vars
    BY <2>7 DEF vars, Lease!vars
  <2> QED
    BY <2>1, <2>2, <2>3, <2>4, <2>5, <2>6, <2>7 DEF Next, Acquire
<1> QED
  BY <1>1, <1>2, LifeStep, GateTypeOK, PTL DEF Spec, ImplementsLeasePool, Lease!Spec
===============================================================================
