-------------------------- MODULE NativeSlot_proofs --------------------------
(***************************************************************************)
(* Proofs about NativeSlot, for every set of tasks and every number of     *)
(* statements.                                                             *)
(*                                                                         *)
(* MailboxInv is what the mailbox guarantees whatever the Dart side does,  *)
(* overlapping statements and untimely close() included.  TurnInv holds    *)
(* until statements overlap, or a lease ends with one in flight.  Its      *)
(* heart is Turns: either nothing is in the mailbox and the worker rests,  *)
(* or the one lessee is waiting for exactly the statement the worker has.  *)
(* ChainInv and InboxInv, on top of it, say whose results wait in the      *)
(* native chain and in libpq: the first until the lease leaves some of     *)
(* them there, the second until a statement is aborted.                    *)
(***************************************************************************)
EXTENDS NativeSlot, SequenceTheorems, TLAPS

(* The shared pieces of the actions are always read expanded. *)
USE DEF MarkLease, SlotIsFree, SlotIsFilled, Reply

ExitedIsFinal == wpc = "exited" => shutdown /\ slot = NoJob

MailboxInv ==
    /\ TypeOK
    /\ PayloadPinned
    /\ AcceptedIsAccountedFor
    /\ ExitedIsFinal

Quiet == slot = NoJob /\ wpc \in {"check", "asleep", "exited"}

InFlight(t) ==
    /\ pc[t] = "waiting"
    /\ answer[mine[t]] = "none"
    /\ \/ slot = mine[t] /\ wpc \in {"check", "run", "clear"}
       \/ slot = NoJob /\ wpc = "post" /\ job = mine[t]

OneLessee == \A t, u \in lessees : t = u

LesseesAreBusy == \A t \in Tasks : pc[t] # "out" <=> t \in lessees

Turns == Quiet \/ \E t \in lessees : InFlight(t)

FreshAnswers == \A j \in Jobs : j >= nextJob => answer[j] = "none"

MineAccepted ==
    \A t \in Tasks : pc[t] = "waiting" => mine[t] \in Jobs /\ mine[t] < nextJob

RefusedAtShutdown == \A t \in Tasks : pc[t] = "refused" => shutdown

TurnInv ==
    /\ OneLessee
    /\ LesseesAreBusy
    /\ Turns
    /\ FreshAnswers
    /\ MineAccepted
    /\ RefusedAtShutdown

(* Results in q wait for the lessee, which will drain them.                *)
WaitForLessee(q) ==
    \A i \in DOMAIN q : \E t \in lessees :
        q[i] = mine[t] /\ pc[t] \in {"waiting", "draining"}

NoResultsYet ==
    \/ slot # NoJob /\ wpc \in {"check", "run"}
    \/ wpc \in {"clear", "post"} /\ status = "aborted"
    \/ \E t \in Tasks : pc[t] = "waiting" /\ answer[mine[t]] = "aborted"

Owned(q) == WaitForLessee(q) /\ (NoResultsYet => q = <<>>)

(* pool_release leaves no chain to the next lessee; until the lessee itself *)
(* leaves some, what is in the chain is its own.                           *)
ChainInv ==
    /\ lessees = {} /\ closer = "open" => chain = <<>>
    /\ ~left => Owned(chain)

InboxInv == ~gaveUp => Owned(inbox)

-------------------------------------------------------------------------------
LEMMA MailboxInit == Init => MailboxInv
<1> SUFFICES ASSUME Init PROVE MailboxInv
  OBVIOUS
<1>1. TypeOK
  <2>1. chain \in Seq(Jobs) /\ inbox \in Seq(Jobs)
    BY EmptySeq DEF Init
  <2>2. nextJob \in 1..(MaxJobs + 1)
    BY MaxJobsIsNat DEF Init
  <2> QED
    BY <2>1, <2>2 DEF Init, TypeOK
<1>2. PayloadPinned /\ ExitedIsFinal
  BY DEF Init, PayloadPinned, ExitedIsFinal
<1>3. AcceptedIsAccountedFor
  BY DEF Init, AcceptedIsAccountedFor, Jobs
<1> QED
  BY <1>1, <1>2, <1>3 DEF MailboxInv

LEMMA CopiesProperties ==
    ASSUME job \in Jobs, NEW k \in 0..2
    PROVE  /\ Copies(k) \in Seq(Jobs) /\ Len(Copies(k)) = k
           /\ \A i \in DOMAIN Copies(k) : Copies(k)[i] = job
BY DEF Copies

LEMMA MailboxStep == MailboxInv /\ [Next]_vars => MailboxInv'
<1> SUFFICES ASSUME MailboxInv, [Next]_vars PROVE MailboxInv'
  OBVIOUS
<1> USE MaxJobsIsNat DEF MailboxInv, PayloadPinned, AcceptedIsAccountedFor,
        ExitedIsFinal, TypeOK, Jobs, NoJob, workerVars, dartVars, useVars, results, Goto
<1>1. ASSUME NEW t \in Tasks, Lease(t) PROVE MailboxInv'
  BY <1>1 DEF Lease
<1>2. ASSUME NEW t \in Tasks, Submit(t) PROVE MailboxInv'
  BY <1>2 DEF Submit, Signalled
<1>3. ASSUME NEW t \in Tasks, SubmitRefused(t) PROVE MailboxInv'
  BY <1>3 DEF SubmitRefused
<1>4. ASSUME NEW t \in Tasks, Receive(t) PROVE MailboxInv'
  <2>1. /\ pc' \in [Tasks -> {"out", "idle", "waiting", "draining", "refused"}]
        /\ isolate' \in Tasks \cup {NoTask, Closer}
    BY <1>4 DEF Receive
  <2>2. UNCHANGED <<lessees, mine, slot, nextJob, wpc, job, status, chain, inbox,
                    answer, shutdown, closer, overlapped, closedEarly, gaveUp, left>>
    BY <1>4 DEF Receive
  <2> QED
    BY <2>1, <2>2
<1>5. ASSUME NEW t \in Tasks, Poll(t) \/ StopPolling(t) PROVE MailboxInv'
  <2>1. chain' \in Seq(Jobs) /\ inbox' \in Seq(Jobs)
    <3>1. chain \in Seq(Jobs) /\ inbox \in Seq(Jobs)
      OBVIOUS
    <3>2. /\ chain # <<>> => Tail(chain) \in Seq(Jobs)
          /\ inbox # <<>> => Tail(inbox) \in Seq(Jobs)
      BY <3>1, HeadTailProperties
    <3>3. chain' = chain \/ (chain # <<>> /\ chain' = Tail(chain))
      BY <1>5 DEF Poll, StopPolling
    <3>4. inbox' = inbox \/ (inbox # <<>> /\ inbox' = Tail(inbox))
      BY <1>5 DEF Poll, StopPolling
    <3> QED
      BY <3>1, <3>2, <3>3, <3>4
  <2>2. /\ pc' \in [Tasks -> {"out", "idle", "waiting", "draining", "refused"}]
        /\ isolate' \in Tasks \cup {NoTask, Closer}
        /\ left' \in BOOLEAN
    BY <1>5 DEF Poll, StopPolling
  <2>3. UNCHANGED <<lessees, mine, slot, nextJob, wpc, job, status, answer,
                    shutdown, closer, overlapped, closedEarly, gaveUp>>
    BY <1>5 DEF Poll, StopPolling
  <2> QED
    BY <2>1, <2>2, <2>3
<1>6. ASSUME NEW t \in Tasks, Release(t) PROVE MailboxInv'
  <2>1. chain' \in Seq(Jobs)
    BY <1>6, EmptySeq DEF Release, ChainFreed
  <2>2. /\ pc' \in [Tasks -> {"out", "idle", "waiting", "draining", "refused"}]
        /\ lessees' \subseteq Tasks /\ overlapped' \in BOOLEAN
    BY <1>6 DEF Release
  <2>3. UNCHANGED <<mine, isolate, slot, nextJob, wpc, job, status, inbox, answer,
                    shutdown, closer, closedEarly, gaveUp, left>>
    BY <1>6 DEF Release
  <2> QED
    BY <2>1, <2>2, <2>3
<1>7. CASE WorkerCheck
  BY <1>7 DEF WorkerCheck
<1>8. CASE WorkerSpuriousWake
  BY <1>8 DEF WorkerSpuriousWake
<1>9. CASE WorkerRun
  <2>1. job \in Jobs /\ \A k \in 0..2 : Copies(k) \in Seq(Jobs)
    <3>1. job \in Jobs
      BY <1>9 DEF WorkerRun
    <3> HIDE DEF Jobs
    <3> QED
      BY <3>1, CopiesProperties
  <2>2. chain \in Seq(Jobs) /\ inbox \in Seq(Jobs) /\ <<>> \in Seq(Jobs)
    BY EmptySeq
  <2>3. \A k \in 0..2 : /\ inbox \o Copies(k) \in Seq(Jobs)
                        /\ Len(inbox \o Copies(k)) = Len(inbox) + k
    <3> TAKE k \in 0..2
    <3>1. job \in Jobs /\ Copies(k) \in Seq(Jobs) /\ Len(Copies(k)) = k
      BY <2>1, CopiesProperties
    <3> HIDE DEF Jobs
    <3> QED
      BY <2>2, <3>1, ConcatProperties
  <2>4. \A k \in 1..2 : SubSeq(inbox \o Copies(k), k + 1, Len(inbox) + k) \in Seq(Jobs)
    <3> TAKE k \in 1..2
    <3> DEFINE q == inbox \o Copies(k)
    <3>1. q \in Seq(Jobs) /\ Len(q) = Len(inbox) + k /\ Len(inbox) \in Nat
      BY <2>2, <2>3, LenProperties
    <3> HIDE DEF q, Jobs
    <3>2. \A i \in 1..Len(q) : q[i] \in Jobs
      BY <3>1, ElementOfSeq
    <3>3. \A i \in (k + 1)..(Len(inbox) + k) : q[i] \in Jobs
      BY <3>1, <3>2
    <3>4. SubSeq(q, k + 1, Len(inbox) + k) \in Seq(Jobs)
      BY <3>1, <3>3, SubSeqProperties
    <3> QED
      BY <3>4 DEF q
  <2>5. chain' \in Seq(Jobs) /\ inbox' \in Seq(Jobs)
    <3>1. CASE Completes
      <4>1. PICK k \in 1..2 :
              \/ chain' = Copies(k) /\ inbox' = inbox
              \/ inbox' = inbox \o Copies(k) /\ chain' = chain
              \/ inbox' = SubSeq(inbox \o Copies(k), k + 1, Len(inbox) + k)
                 /\ chain' = chain
        BY <3>1 DEF Completes
      <4>2. k \in 0..2
        BY <4>1
      <4> QED
        BY <2>1, <2>2, <2>3, <2>4, <4>1, <4>2
    <3>2. CASE GivesUp
      BY <2>2, <2>3, <3>2 DEF GivesUp
    <3> QED
      BY <1>9, <3>1, <3>2 DEF WorkerRun
  <2>6. status' \in {"ok", "aborted"} /\ gaveUp' \in BOOLEAN
    BY <1>9 DEF WorkerRun, Completes, GivesUp
  <2> QED
    BY <1>9, <2>5, <2>6 DEF WorkerRun
<1>10. CASE WorkerClear
  BY <1>10 DEF WorkerClear
<1>11. CASE WorkerPost
  <2>1. /\ wpc = "post" /\ wpc' = "check"
        /\ answer' = [answer EXCEPT ![job] = status]
    BY <1>11 DEF WorkerPost
  <2>2. /\ answer' \in [Jobs -> {"none", "ok", "aborted"}]
        /\ \A j \in Jobs : answer'[j] = IF j = job THEN status ELSE answer[j]
    BY <2>1
  <2>3. UNCHANGED <<lessees, pc, mine, isolate, slot, nextJob, job, status, chain,
                    inbox, shutdown, closer, overlapped, closedEarly, gaveUp, left>>
    BY <1>11 DEF WorkerPost
  <2>4. AcceptedIsAccountedFor'
    BY <2>1, <2>2, <2>3
  <2> QED
    BY <2>1, <2>2, <2>3, <2>4
<1>12. CASE CloseFlag
  BY <1>12 DEF CloseFlag, Closer
<1>13. CASE CloseSignal
  BY <1>13 DEF CloseSignal, Signalled
<1>14. CASE CloseJoin
  <2>1. chain' \in Seq(Jobs) /\ inbox' \in Seq(Jobs)
    BY <1>14, EmptySeq DEF CloseJoin
  <2> QED
    BY <1>14, <2>1 DEF CloseJoin
<1>15. CASE UNCHANGED vars
  BY <1>15 DEF vars
<1> QED
  BY <1>1, <1>2, <1>3, <1>4, <1>5, <1>6, <1>7, <1>8, <1>9, <1>10, <1>11,
     <1>12, <1>13, <1>14, <1>15 DEF Next, TaskStep, Worker

LEMMA MailboxAlways == Spec => []MailboxInv
BY MailboxInit, MailboxStep, PTL DEF Spec

(* Type correctness. *)
THEOREM SlotTypeOK == Spec => []TypeOK
<1>1. MailboxInv => TypeOK
  BY DEF MailboxInv
<1> QED
  BY <1>1, MailboxAlways, PTL

(* The worker executes from a payload nobody replaces or frees, whatever    *)
(* the Dart side submits or closes meanwhile.                               *)
THEOREM SlotPayloadPinned == Spec => []PayloadPinned
<1>1. MailboxInv => PayloadPinned
  BY DEF MailboxInv
<1> QED
  BY <1>1, MailboxAlways, PTL

(* No accepted statement is lost between the mailbox and its port, not even *)
(* when the pool is destroyed under it.                                     *)
THEOREM SlotAcceptedIsAccountedFor == Spec => []AcceptedIsAccountedFor
<1>1. MailboxInv => AcceptedIsAccountedFor
  BY DEF MailboxInv
<1> QED
  BY <1>1, MailboxAlways, PTL

-------------------------------------------------------------------------------
LEMMA TurnInit == Init => TurnInv
<1> SUFFICES ASSUME Init PROVE TurnInv
  OBVIOUS
<1>1. OneLessee /\ LesseesAreBusy /\ MineAccepted /\ RefusedAtShutdown
  BY DEF Init, OneLessee, LesseesAreBusy, MineAccepted, RefusedAtShutdown
<1>2. Turns /\ FreshAnswers
  BY DEF Init, Turns, Quiet, FreshAnswers
<1> QED
  BY <1>1, <1>2 DEF TurnInv

(* A lessee that is not in flight has the worker at rest.                  *)
LEMMA RestingLessee ==
    ASSUME TypeOK, TurnInv, NEW t \in Tasks, pc[t] # "out"
    PROVE  /\ lessees = {t}
           /\ ~InFlight(t) => Quiet
<1>1. lessees = {t}
  BY DEF TurnInv, OneLessee, LesseesAreBusy, TypeOK
<1> QED
  BY <1>1 DEF TurnInv, Turns

LEMMA TurnStepDart ==
    ASSUME MailboxInv, TurnInv, ~overlapped', NEW t \in Tasks, TaskStep(t)
    PROVE  TurnInv'
<1> USE MaxJobsIsNat DEF NoJob, Jobs
<1>0. TypeOK
  BY DEF MailboxInv
<1>1. CASE Lease(t)
  <2>1. Quiet /\ lessees = {} /\ lessees' = {t}
    BY <1>1 DEF Lease, TurnInv, Turns
  <2>2. pc' = [pc EXCEPT ![t] = "idle"] /\ pc[t] = "out"
        /\ UNCHANGED <<mine, slot, nextJob, wpc, job, status, answer, shutdown>>
    BY <1>1 DEF Lease, Goto, workerVars
  <2> QED
    BY <1>0, <2>1, <2>2 DEF TurnInv, OneLessee, LesseesAreBusy, Turns, Quiet,
       FreshAnswers, MineAccepted, RefusedAtShutdown, TypeOK
<1>2. CASE Submit(t)
  <2>1. lessees = {t} /\ Quiet /\ nextJob \in Jobs /\ answer[nextJob] = "none"
    BY <1>0, <1>2, RestingLessee DEF Submit, InFlight, TurnInv, FreshAnswers, TypeOK
  <2>2. /\ slot' = nextJob /\ nextJob' = nextJob + 1
        /\ mine' = [mine EXCEPT ![t] = nextJob]
        /\ pc' = [pc EXCEPT ![t] = "waiting"] /\ pc[t] = "idle"
        /\ wpc' = Signalled
        /\ ~shutdown
        /\ UNCHANGED <<lessees, job, status, answer, shutdown>>
    BY <1>2 DEF Submit, Goto
  <2>3. wpc' = "check"
    BY <2>1, <2>2 DEF Quiet, Signalled, MailboxInv, ExitedIsFinal
  <2>4. pc'[t] = "waiting" /\ mine'[t] = nextJob
    BY <1>0, <2>2 DEF TypeOK
  <2>5. OneLessee' /\ LesseesAreBusy'
    BY <1>0, <2>2 DEF TurnInv, OneLessee, LesseesAreBusy, TypeOK
  <2>6. InFlight(t)' /\ Turns'
    BY <2>1, <2>2, <2>3, <2>4 DEF InFlight, Turns
  <2>7. FreshAnswers' /\ MineAccepted' /\ RefusedAtShutdown'
    BY <1>0, <2>1, <2>2, <2>4 DEF TurnInv, FreshAnswers, MineAccepted,
       RefusedAtShutdown, TypeOK
  <2> QED
    BY <2>5, <2>6, <2>7 DEF TurnInv
<1>3. CASE SubmitRefused(t)
  <2>1. lessees = {t} /\ Quiet /\ shutdown
    BY <1>0, <1>3, RestingLessee DEF SubmitRefused, InFlight, Quiet
  <2>2. /\ pc' = [pc EXCEPT ![t] = "refused"] /\ pc[t] = "idle"
        /\ UNCHANGED <<lessees, mine, slot, nextJob, wpc, job, status, answer,
                       shutdown>>
    BY <1>3 DEF SubmitRefused, Goto, workerVars
  <2> QED
    BY <1>0, <2>1, <2>2 DEF TurnInv, OneLessee, LesseesAreBusy, Turns, Quiet,
       FreshAnswers, MineAccepted, RefusedAtShutdown, TypeOK
<1>4. CASE Receive(t) \/ Poll(t) \/ StopPolling(t)
  <2>1. lessees = {t} /\ Quiet
    BY <1>0, <1>4, RestingLessee DEF Receive, Poll, StopPolling, InFlight
  <2>2. /\ pc[t] \in {"waiting", "draining"}
        /\ pc' = pc \/ \E l \in {"idle", "draining"} : pc' = [pc EXCEPT ![t] = l]
        /\ UNCHANGED <<lessees, mine, slot, nextJob, wpc, job, status, answer,
                       shutdown>>
    BY <1>4 DEF Receive, Poll, StopPolling, Goto, workerVars
  <2> QED
    BY <1>0, <2>1, <2>2 DEF TurnInv, OneLessee, LesseesAreBusy, Turns, Quiet,
       FreshAnswers, MineAccepted, RefusedAtShutdown, TypeOK
<1>5. CASE Release(t)
  <2>1. pc[t] \in {"idle", "refused"}
    BY <1>5 DEF Release
  <2>2. lessees = {t} /\ Quiet
    BY <1>0, <2>1, RestingLessee DEF InFlight
  <2>3. /\ pc' = [pc EXCEPT ![t] = "out"] /\ pc[t] # "out" /\ lessees' = {}
        /\ UNCHANGED <<mine, slot, nextJob, wpc, job, status, answer, shutdown>>
    BY <1>5, <2>1, <2>2 DEF Release, Goto, workerVars
  <2> QED
    BY <1>0, <2>2, <2>3 DEF TurnInv, OneLessee, LesseesAreBusy, Turns, Quiet,
       FreshAnswers, MineAccepted, RefusedAtShutdown, TypeOK
<1> QED
  BY <1>1, <1>2, <1>3, <1>4, <1>5 DEF TaskStep

LEMMA TurnStepWorker ==
    ASSUME MailboxInv, TurnInv, Worker \/ WorkerSpuriousWake
    PROVE  TurnInv'
<1> USE MaxJobsIsNat DEF NoJob, Jobs
<1>0. TypeOK
  BY DEF MailboxInv
<1>1. UNCHANGED <<lessees, pc, mine, nextJob, shutdown>>
  BY DEF Worker, WorkerCheck, WorkerRun, WorkerClear, WorkerPost,
     WorkerSpuriousWake, dartVars
<1>2. OneLessee' /\ LesseesAreBusy' /\ MineAccepted' /\ RefusedAtShutdown'
  BY <1>1 DEF TurnInv, OneLessee, LesseesAreBusy, MineAccepted, RefusedAtShutdown
<1>3. CASE WorkerCheck \/ WorkerSpuriousWake
  <2>1. UNCHANGED <<slot, answer>>
    BY <1>3 DEF WorkerCheck, WorkerSpuriousWake, dartVars
  <2>2. \/ wpc = "check" /\ slot # NoJob /\ wpc' = "run"
        \/ wpc \in {"check", "asleep"} /\ wpc' \in {"check", "asleep", "exited"}
           /\ (wpc = "check" => slot = NoJob)
    BY <1>3 DEF WorkerCheck, WorkerSpuriousWake
  <2>3. Turns' /\ FreshAnswers'
    BY <1>1, <2>1, <2>2 DEF TurnInv, Turns, Quiet, InFlight, FreshAnswers
  <2> QED
    BY <1>2, <2>3 DEF TurnInv
<1>4. CASE WorkerRun
  <2>1. PICK t \in lessees : InFlight(t)
    BY <1>4 DEF WorkerRun, TurnInv, Turns, Quiet
  <2>2. UNCHANGED <<slot, job, answer>> /\ wpc' = "clear" /\ wpc = "run"
    BY <1>4 DEF WorkerRun, dartVars
  <2>3. Turns' /\ FreshAnswers'
    BY <1>1, <2>1, <2>2 DEF TurnInv, Turns, InFlight, FreshAnswers
  <2> QED
    BY <1>2, <2>3 DEF TurnInv
<1>5. CASE WorkerClear
  <2>1. PICK t \in lessees : InFlight(t)
    BY <1>5 DEF WorkerClear, TurnInv, Turns, Quiet
  <2>2. slot = mine[t] /\ job = mine[t]
    BY <1>5, <2>1 DEF WorkerClear, InFlight, MailboxInv, PayloadPinned
  <2>3. UNCHANGED <<job, answer>> /\ wpc' = "post" /\ slot' = NoJob
    BY <1>5 DEF WorkerClear, dartVars
  <2>4. Turns' /\ FreshAnswers'
    BY <1>1, <2>1, <2>2, <2>3 DEF TurnInv, Turns, InFlight, FreshAnswers
  <2> QED
    BY <1>2, <2>4 DEF TurnInv
<1>6. CASE WorkerPost
  <2>1. PICK t \in lessees : InFlight(t)
    BY <1>6 DEF WorkerPost, TurnInv, Turns, Quiet
  <2>2. job = mine[t] /\ slot = NoJob /\ pc[t] = "waiting"
    BY <1>6, <2>1 DEF WorkerPost, InFlight
  <2>3. UNCHANGED <<slot, job>> /\ wpc' = "check"
        /\ answer' = [answer EXCEPT ![job] = status]
    BY <1>6 DEF WorkerPost, dartVars
  <2>4. mine[t] < nextJob /\ mine[t] \in Jobs /\ t \in Tasks
    BY <1>0, <2>1, <2>2 DEF TurnInv, MineAccepted, TypeOK
  <2>5. Turns' /\ FreshAnswers'
    BY <1>0, <1>1, <2>2, <2>3, <2>4 DEF TurnInv, Turns, Quiet, FreshAnswers, TypeOK
  <2> QED
    BY <1>2, <2>5 DEF TurnInv
<1> QED
  BY <1>3, <1>4, <1>5, <1>6 DEF Worker

LEMMA TurnStepClose ==
    ASSUME MailboxInv, TurnInv, CloseFlag \/ CloseSignal \/ CloseJoin
    PROVE  TurnInv'
<1>1. UNCHANGED <<lessees, pc, mine, nextJob, status, job, answer>>
  BY DEF CloseFlag, CloseSignal, CloseJoin, dartVars, workerVars
<1>a. shutdown' = shutdown \/ shutdown' = TRUE
  BY DEF CloseFlag, CloseSignal, CloseJoin
<1>2. /\ slot' = slot
      /\ \/ wpc' = wpc
         \/ wpc = "asleep" /\ wpc' = "check"
  <2>1. CASE CloseFlag
    BY <2>1 DEF CloseFlag, workerVars
  <2>2. CASE CloseSignal
    BY <2>2 DEF CloseSignal, Signalled
  <2>3. CASE CloseJoin
    BY <2>3 DEF CloseJoin, workerVars, MailboxInv, ExitedIsFinal
  <2> QED
    BY <2>1, <2>2, <2>3
<1>3. OneLessee' /\ LesseesAreBusy' /\ MineAccepted' /\ RefusedAtShutdown'
  BY <1>1, <1>a DEF TurnInv, OneLessee, LesseesAreBusy, MineAccepted,
     RefusedAtShutdown
<1>4. Turns' /\ FreshAnswers'
  BY <1>1, <1>2 DEF TurnInv, Turns, Quiet, InFlight, FreshAnswers
<1> QED
  BY <1>3, <1>4 DEF TurnInv

(* The history variable only goes up. *)
LEMMA OverlapStays == [Next]_vars /\ ~overlapped' => ~overlapped
BY DEF Next, vars, useVars, TaskStep, Lease, Submit, SubmitRefused, Receive,
       Poll, StopPolling, Release, Worker, WorkerCheck, WorkerRun, WorkerClear,
       WorkerPost, WorkerSpuriousWake, CloseFlag, CloseSignal, CloseJoin

LEMMA TurnStep ==
    MailboxInv /\ (~overlapped => TurnInv) /\ [Next]_vars
        => (~overlapped' => TurnInv')
<1> SUFFICES ASSUME MailboxInv, ~overlapped => TurnInv, [Next]_vars, ~overlapped'
             PROVE  TurnInv'
  OBVIOUS
<1>0. TurnInv
  BY OverlapStays
<1>1. ASSUME NEW t \in Tasks, TaskStep(t) PROVE TurnInv'
  BY <1>0, <1>1, TurnStepDart
<1>2. CASE Worker \/ WorkerSpuriousWake
  BY <1>0, <1>2, TurnStepWorker
<1>3. CASE CloseFlag \/ CloseSignal \/ CloseJoin
  BY <1>0, <1>3, TurnStepClose
<1>4. CASE UNCHANGED vars
  BY <1>0, <1>4 DEF vars, TurnInv, OneLessee, LesseesAreBusy, Turns, Quiet, InFlight,
     FreshAnswers, MineAccepted, RefusedAtShutdown
<1> QED
  BY <1>1, <1>2, <1>3, <1>4 DEF Next

LEMMA TurnAlways == Spec => [](MailboxInv /\ (~overlapped => TurnInv))
<1>1. Init => MailboxInv /\ TurnInv
  BY MailboxInit, TurnInit
<1>2. /\ MailboxInv /\ (~overlapped => TurnInv) /\ [Next]_vars
      => (MailboxInv /\ (~overlapped => TurnInv))'
  BY MailboxStep, TurnStep
<1> QED
  BY <1>1, <1>2, PTL DEF Spec

-------------------------------------------------------------------------------
(* The pool_destroy of a pool that nobody uses any more leaves nobody who   *)
(* could.                                                                   *)
DestroyInv ==
    closer # "open" /\ ~closedEarly => \A t \in Tasks : pc[t] = "out"

LEMMA DestroyAlways == Spec => []DestroyInv
<1>1. Init => DestroyInv
  BY DEF Init, DestroyInv
<1>2. TypeOK /\ DestroyInv /\ [Next]_vars => DestroyInv'
  <2> SUFFICES ASSUME TypeOK, DestroyInv, [Next]_vars PROVE DestroyInv'
    OBVIOUS
  <2>1. ASSUME NEW t \in Tasks, TaskStep(t) PROVE DestroyInv'
    <3>1. CASE Lease(t)
      BY <3>1 DEF Lease, DestroyInv
    <3>2. CASE Submit(t) \/ SubmitRefused(t) \/ Receive(t) \/ Poll(t)
               \/ StopPolling(t) \/ Release(t)
      <4>1. closer' = closer /\ closedEarly' = closedEarly
        BY <3>2 DEF Submit, SubmitRefused, Receive, Poll, StopPolling, Release,
           useVars
      <4>2. pc' = pc \/ (pc[t] # "out" /\ \E l \in {"idle", "waiting", "draining",
                            "refused", "out"} : pc' = [pc EXCEPT ![t] = l])
        BY <3>2 DEF Submit, SubmitRefused, Receive, Poll, StopPolling, Release, Goto
      <4> QED
        BY <4>1, <4>2 DEF DestroyInv, TypeOK
    <3> QED
      BY <2>1, <3>1, <3>2 DEF TaskStep
  <2>2. CASE Worker \/ WorkerSpuriousWake
    BY <2>2 DEF DestroyInv, Worker, WorkerCheck, WorkerRun, WorkerClear,
       WorkerPost, WorkerSpuriousWake, dartVars, useVars
  <2>3. CASE CloseFlag \/ CloseSignal \/ CloseJoin
    BY <2>3 DEF DestroyInv, CloseFlag, CloseSignal, CloseJoin, dartVars, useVars
  <2>4. CASE UNCHANGED vars
    BY <2>4 DEF DestroyInv, vars, useVars
  <2> QED
    BY <2>1, <2>2, <2>3, <2>4 DEF Next
<1> QED
  BY <1>1, <1>2, SlotTypeOK, PTL DEF Spec

-------------------------------------------------------------------------------
(* Whose results wait for poll_result.                                     *)
ResultsInv == ChainInv /\ InboxInv

(* Nobody waits or drains: nothing is left to be drained.                  *)
LEMMA NobodyLeavesNothing ==
    ASSUME NEW q \in Seq(Jobs), WaitForLessee(q),
           \A u \in lessees : pc[u] \notin {"waiting", "draining"}
    PROVE  q = <<>>
<1>1. DOMAIN q = {} /\ Len(q) \in Nat /\ DOMAIN q = 1..Len(q)
  BY LenProperties DEF WaitForLessee
<1> QED
  BY <1>1, EmptySeq

LEMMA NothingToDrain ==
    ASSUME TypeOK, ResultsInv,
           \A u \in lessees : pc[u] \notin {"waiting", "draining"}
    PROVE  (~left => chain = <<>>) /\ (~gaveUp => inbox = <<>>)
BY NobodyLeavesNothing DEF TypeOK, ResultsInv, ChainInv, InboxInv, Owned

(* While the lessee is past its answer nothing is on its way.              *)
LEMMA NothingOnItsWay ==
    ASSUME Quiet, NEW t \in Tasks, lessees = {t}, LesseesAreBusy,
           pc[t] # "waiting" \/ answer[mine[t]] # "aborted"
    PROVE  ~NoResultsYet
BY DEF Quiet, LesseesAreBusy, NoResultsYet

LEMMA ResultsInit == Init => ResultsInv
BY DEF Init, ResultsInv, ChainInv, InboxInv, Owned, WaitForLessee

LEMMA ResultsStepDart ==
    ASSUME MailboxInv, TurnInv, ResultsInv, TurnInv', ~overlapped',
           NEW t \in Tasks, TaskStep(t)
    PROVE  ResultsInv'
<1> USE DEF ResultsInv, ChainInv, InboxInv
<1>0. TypeOK
  BY DEF MailboxInv
<1>1. CASE Lease(t)
  <2>1. lessees = {} /\ closer = "open" /\ lessees' = {t}
        /\ UNCHANGED <<chain, inbox, closer, gaveUp>>
    BY <1>1 DEF Lease, results
  <2>2. chain' = <<>> /\ (~gaveUp' => inbox' = <<>>)
    BY <1>0, <2>1, NothingToDrain
  <2> QED
    BY <2>1, <2>2 DEF Owned, WaitForLessee
<1>2. CASE Submit(t) \/ SubmitRefused(t)
  <2>1. pc[t] = "idle" /\ UNCHANGED <<lessees, chain, inbox, gaveUp, left>>
    BY <1>2 DEF Submit, SubmitRefused, results, useVars
  <2>2. lessees = {t}
    BY <1>0, <2>1, RestingLessee
  <2>3. (~left' => chain' = <<>>) /\ (~gaveUp' => inbox' = <<>>)
    BY <1>0, <2>1, <2>2, NothingToDrain
  <2> QED
    BY <2>1, <2>2, <2>3 DEF Owned, WaitForLessee
<1>3. CASE Receive(t)
  <2>1. lessees = {t} /\ Quiet
    BY <1>0, <1>3, RestingLessee DEF Receive, InFlight
  <2>2. UNCHANGED <<lessees, mine, chain, inbox, gaveUp, left, slot, wpc, answer>>
    BY <1>3 DEF Receive, results, useVars, workerVars
  <2>3. CASE answer[mine[t]] = "ok"
    <3>1. pc'[t] = "draining"
      BY <1>0, <1>3, <2>3 DEF Receive, Goto, TypeOK
    <3>2. ~NoResultsYet'
      BY <2>1, <2>2, <3>1 DEF NoResultsYet, Quiet, TurnInv, LesseesAreBusy
    <3>3. WaitForLessee(chain) => WaitForLessee(chain)'
      BY <2>1, <2>2, <3>1 DEF WaitForLessee
    <3>4. WaitForLessee(inbox) => WaitForLessee(inbox)'
      BY <2>1, <2>2, <3>1 DEF WaitForLessee
    <3> QED
      BY <2>1, <2>2, <3>2, <3>3, <3>4 DEF Owned
  <2>4. CASE answer[mine[t]] = "aborted"
    <3>1. NoResultsYet
      BY <1>3, <2>4 DEF Receive, NoResultsYet
    <3>2. (~left' => chain' = <<>>) /\ (~gaveUp' => inbox' = <<>>)
      BY <2>2, <3>1 DEF Owned
    <3> QED
      BY <2>1, <2>2, <3>2 DEF Owned, WaitForLessee
  <2> QED
    BY <1>3, <2>3, <2>4 DEF Receive
<1>4. CASE Poll(t)
  <2>1. lessees = {t} /\ Quiet /\ pc[t] = "draining"
    BY <1>0, <1>4, RestingLessee DEF Poll, InFlight
  <2>2. UNCHANGED <<lessees, mine, gaveUp, left, slot, wpc, answer>>
    BY <1>4 DEF Poll, useVars, workerVars
  <2>3. chain \in Seq(Jobs) /\ inbox \in Seq(Jobs)
    BY <1>0 DEF TypeOK
  <2>4. CASE pc' = pc
    <3>1. ~NoResultsYet'
      BY <2>1, <2>2, <2>4 DEF NoResultsYet, Quiet, TurnInv, LesseesAreBusy
    <3>2. WaitForLessee(chain) => WaitForLessee(chain)'
      <4>1. CASE chain # <<>>
        <5>1. /\ chain' = Tail(chain)
              /\ \A i \in DOMAIN Tail(chain) :
                    i + 1 \in DOMAIN chain /\ Tail(chain)[i] = chain[i + 1]
          BY <1>4, <2>3, <4>1, HeadTailProperties, LenProperties DEF Poll
        <5> QED
          BY <2>1, <2>2, <2>4, <5>1 DEF WaitForLessee
      <4>2. CASE chain = <<>>
        BY <1>4, <4>2 DEF Poll, results, WaitForLessee
      <4> QED
        BY <4>1, <4>2
    <3>3. WaitForLessee(inbox) => WaitForLessee(inbox)'
      <4>1. CASE chain = <<>> /\ inbox # <<>>
        <5>1. /\ inbox' = Tail(inbox)
              /\ \A i \in DOMAIN Tail(inbox) :
                    i + 1 \in DOMAIN inbox /\ Tail(inbox)[i] = inbox[i + 1]
          BY <1>4, <2>3, <4>1, HeadTailProperties, LenProperties DEF Poll
        <5> QED
          BY <2>1, <2>2, <2>4, <5>1 DEF WaitForLessee
      <4>2. CASE chain # <<>> \/ inbox = <<>>
        <5>1. inbox' = inbox
          BY <1>4, <4>2 DEF Poll, results
        <5> QED
          BY <2>1, <2>2, <2>4, <5>1 DEF WaitForLessee
      <4> QED
        BY <4>1, <4>2
    <3> QED
      BY <2>1, <2>2, <3>1, <3>2, <3>3 DEF Owned
  <2>5. CASE pc' # pc
    <3>1. chain' = <<>> /\ inbox' = <<>>
      BY <1>4, <2>5 DEF Poll, results
    <3> QED
      BY <2>1, <2>2, <3>1 DEF Owned, WaitForLessee
  <2> QED
    BY <2>4, <2>5
<1>5. CASE StopPolling(t)
  <2>1. lessees = {t}
    BY <1>0, <1>5, RestingLessee DEF StopPolling
  <2>2. left' /\ inbox' = <<>> /\ lessees' = lessees
    BY <1>5 DEF StopPolling, results
  <2> QED
    BY <2>1, <2>2 DEF Owned, WaitForLessee
<1>6. CASE Release(t)
  <2>1. pc[t] \in {"idle", "refused"}
    BY <1>6 DEF Release
  <2>2. lessees = {t}
    BY <1>0, <2>1, RestingLessee
  <2>3. (~left => chain = <<>>) /\ (~gaveUp => inbox = <<>>)
    BY <1>0, <2>1, <2>2, NothingToDrain
  <2>4. /\ closer' = "open" => chain' = <<>>
        /\ ~left' => chain' = <<>>
        /\ ~gaveUp' => inbox' = <<>>
    BY <1>6, <2>2, <2>3 DEF Release, ChainFreed
  <2> QED
    BY <2>4 DEF Owned, WaitForLessee
<1> QED
  BY <1>1, <1>2, <1>3, <1>4, <1>5, <1>6 DEF TaskStep

LEMMA ResultsStepWorker ==
    ASSUME MailboxInv, TurnInv, ResultsInv, TurnInv', Worker \/ WorkerSpuriousWake
    PROVE  ResultsInv'
<1> USE DEF ResultsInv, ChainInv, InboxInv, NoJob
<1>0. TypeOK
  BY DEF MailboxInv
<1>1. UNCHANGED <<lessees, pc, mine, closer, left>>
  BY DEF Worker, WorkerCheck, WorkerRun, WorkerClear, WorkerPost,
     WorkerSpuriousWake, dartVars, useVars
<1>2. CASE WorkerCheck \/ WorkerSpuriousWake \/ WorkerClear \/ WorkerPost
  <2>1. UNCHANGED <<chain, inbox, gaveUp>>
    BY <1>2 DEF WorkerCheck, WorkerSpuriousWake, WorkerClear, WorkerPost, results,
       useVars
  <2>2. NoResultsYet' => NoResultsYet
    <3>1. CASE WorkerCheck \/ WorkerSpuriousWake
      <4>1. UNCHANGED <<slot, status, answer>>
        BY <3>1 DEF WorkerCheck, WorkerSpuriousWake, dartVars
      <4>2. \/ wpc = "check" /\ slot # NoJob /\ wpc' = "run"
            \/ wpc \in {"check", "asleep"} /\ wpc' \in {"check", "asleep", "exited"}
               /\ (wpc = "check" => slot = NoJob)
        BY <3>1 DEF WorkerCheck, WorkerSpuriousWake
      <4>3. wpc = "asleep" => slot = NoJob
        BY DEF TurnInv, Turns, Quiet, InFlight
      <4> QED
        BY <1>1, <4>1, <4>2, <4>3 DEF NoResultsYet
    <3>2. CASE WorkerClear
      BY <1>1, <3>2 DEF WorkerClear, NoResultsYet
    <3>3. CASE WorkerPost
      <4>1. PICK t \in lessees : InFlight(t)
        BY <3>3 DEF WorkerPost, TurnInv, Turns, Quiet
      <4>2. job = mine[t] /\ slot = NoJob /\ pc[t] = "waiting" /\ job \in Jobs
            /\ t \in Tasks
        BY <1>0, <3>3, <4>1 DEF WorkerPost, InFlight, TurnInv, MineAccepted, TypeOK
      <4>3. slot' = slot /\ wpc' = "check" /\ wpc = "post"
            /\ answer' = [answer EXCEPT ![job] = status]
        BY <3>3 DEF WorkerPost
      <4>4. \A u \in Tasks : pc[u] = "waiting" => u = t
        BY <1>0, <4>1 DEF TurnInv, OneLessee, LesseesAreBusy, TypeOK
      <4>5. answer'[mine'[t]] = status
        BY <1>0, <1>1, <4>2, <4>3 DEF TypeOK
      <4> QED
        BY <1>1, <4>2, <4>3, <4>4, <4>5 DEF NoResultsYet
    <3> QED
      BY <1>2, <3>1, <3>2, <3>3
  <2>3. /\ WaitForLessee(chain) => WaitForLessee(chain)'
        /\ WaitForLessee(inbox) => WaitForLessee(inbox)'
    BY <1>1, <2>1 DEF WaitForLessee
  <2> QED
    BY <1>1, <2>1, <2>2, <2>3 DEF Owned
<1>3. CASE WorkerRun
  <2>1. PICK t \in lessees : InFlight(t)
    BY <1>3 DEF WorkerRun, TurnInv, Turns, Quiet
  <2>2. /\ slot = job /\ job = mine[t] /\ pc[t] = "waiting"
        /\ answer[mine[t]] = "none" /\ job \in Jobs /\ slot # NoJob
    BY <1>0, <1>3, <2>1 DEF WorkerRun, InFlight, MailboxInv, PayloadPinned, TypeOK
  <2>3. UNCHANGED <<slot, job, answer>> /\ wpc' = "clear" /\ wpc = "run"
    BY <1>3 DEF WorkerRun, dartVars
  <2>4. (~left => chain = <<>>) /\ (~gaveUp => inbox = <<>>)
    BY <2>2, <2>3 DEF NoResultsYet, Owned
  <2>5. CASE GivesUp
    BY <1>1, <2>1, <2>4, <2>5 DEF GivesUp, Owned, WaitForLessee
  <2>6. CASE Completes
    <3>1. ~NoResultsYet'
      <4>1. \A u \in Tasks : pc[u] = "waiting" => u = t
        BY <1>0, <2>1 DEF TurnInv, OneLessee, LesseesAreBusy, TypeOK
      <4> QED
        BY <1>1, <2>2, <2>3, <2>6, <4>1 DEF Completes, NoResultsYet
    <3>2. PICK k \in 1..2 :
            \/ chain' = Copies(k) /\ inbox' = inbox
            \/ inbox' = inbox \o Copies(k) /\ chain' = chain
            \/ inbox' = SubSeq(inbox \o Copies(k), k + 1, Len(inbox) + k)
               /\ chain' = chain
      BY <2>6 DEF Completes
    <3>3. Copies(k) \in Seq(Jobs) /\ \A i \in DOMAIN Copies(k) : Copies(k)[i] = job
      BY <2>2, CopiesProperties
    <3>4. inbox = <<>> =>
            /\ inbox \o Copies(k) = Copies(k)
            /\ SubSeq(inbox \o Copies(k), k + 1, Len(inbox) + k) = <<>>
      <4>1. ASSUME inbox = <<>> PROVE Len(inbox) + k < k + 1
        BY <4>1, EmptySeq
      <4>2. inbox = <<>> => inbox \o Copies(k) = Copies(k)
        BY <3>3, ConcatEmptySeq
      <4>3. ASSUME inbox = <<>>
            PROVE  SubSeq(inbox \o Copies(k), k + 1, Len(inbox) + k) = <<>>
        <5>1. Len(inbox) + k \in Int /\ k + 1 \in Int
          BY <4>3, EmptySeq
        <5> QED
          BY <4>1, <4>3, <5>1, SubSeqEmpty
      <4> QED
        BY <4>2, <4>3
    <3>5. ~left' => chain' = <<>> \/ chain' = Copies(k)
      BY <1>1, <2>4, <3>2
    <3>6. ~gaveUp' => inbox' = <<>> \/ inbox' = Copies(k)
      BY <2>4, <2>6, <3>2, <3>4 DEF Completes
    <3> HIDE DEF Copies
    <3>7. (~left' => WaitForLessee(chain)') /\ (~gaveUp' => WaitForLessee(inbox)')
      BY <1>1, <2>1, <2>2, <3>3, <3>5, <3>6 DEF WaitForLessee
    <3> QED
      BY <1>1, <2>1, <3>1, <3>7 DEF Owned
  <2> QED
    BY <1>3, <2>5, <2>6 DEF WorkerRun
<1> QED
  BY <1>2, <1>3 DEF Worker

LEMMA ResultsStepClose ==
    ASSUME MailboxInv, TurnInv, ResultsInv, CloseFlag \/ CloseSignal \/ CloseJoin
    PROVE  ResultsInv'
<1> USE DEF ResultsInv, ChainInv, InboxInv
<1>1. UNCHANGED <<lessees, pc, mine, status, answer, gaveUp, left>>
  BY DEF CloseFlag, CloseSignal, CloseJoin, dartVars, workerVars, useVars
<1>2. closer' # "open" /\ chain' \in {chain, <<>>} /\ inbox' \in {inbox, <<>>}
  BY DEF CloseFlag, CloseSignal, CloseJoin, results
<1>3. /\ slot' = slot
      /\ wpc' = wpc \/ (wpc = "asleep" /\ wpc' = "check" /\ slot = NoJob)
  <2>1. CASE CloseFlag
    BY <2>1 DEF CloseFlag, workerVars
  <2>2. CASE CloseSignal
    BY <2>2 DEF CloseSignal, Signalled, TurnInv, Turns, Quiet, InFlight
  <2>3. CASE CloseJoin
    BY <2>3 DEF CloseJoin, workerVars, MailboxInv, ExitedIsFinal
  <2> QED
    BY <2>1, <2>2, <2>3
<1>4. NoResultsYet' => NoResultsYet
  BY <1>1, <1>3 DEF NoResultsYet
<1>5. /\ WaitForLessee(chain) => WaitForLessee(chain)'
      /\ WaitForLessee(inbox) => WaitForLessee(inbox)'
  BY <1>1, <1>2 DEF WaitForLessee
<1> QED
  BY <1>1, <1>2, <1>4, <1>5 DEF Owned

LEMMA ResultsAlways == Spec => [](~overlapped => ResultsInv)
<1>1. Init => ResultsInv
  BY ResultsInit
<1>2. /\ MailboxInv /\ (~overlapped => TurnInv) /\ (~overlapped' => TurnInv')
      /\ (~overlapped => ResultsInv) /\ [Next]_vars
      => (~overlapped' => ResultsInv')
  <2> SUFFICES ASSUME MailboxInv, ~overlapped => TurnInv, ~overlapped' => TurnInv',
                      ~overlapped => ResultsInv, [Next]_vars, ~overlapped'
               PROVE  ResultsInv'
    OBVIOUS
  <2>0. TurnInv /\ TurnInv' /\ ResultsInv
    BY OverlapStays
  <2>1. ASSUME NEW t \in Tasks, TaskStep(t) PROVE ResultsInv'
    BY <2>0, <2>1, ResultsStepDart
  <2>2. CASE Worker \/ WorkerSpuriousWake
    BY <2>0, <2>2, ResultsStepWorker
  <2>3. CASE CloseFlag \/ CloseSignal \/ CloseJoin
    BY <2>0, <2>3, ResultsStepClose
  <2>4. CASE UNCHANGED vars
    BY <2>0, <2>4 DEF vars, useVars, results, ResultsInv, ChainInv, InboxInv, Owned,
       WaitForLessee, NoResultsYet
  <2> QED
    BY <2>1, <2>2, <2>3, <2>4 DEF Next
<1> QED
  BY <1>1, <1>2, TurnAlways, PTL DEF Spec

(* A task that awaited its statement drains that statement's results,       *)
(* whoever had the connection before and whatever it left in the chain;     *)
(* until statements overlap, one is aborted on the connection, or the lease *)
(* itself leaves results of a multi-read in the chain.                      *)
THEOREM SlotDrainsOwnResults == Spec => []DrainsOwnResults
<1>1. MailboxInv /\ (~overlapped => TurnInv) /\ (~overlapped => ResultsInv)
        => DrainsOwnResults
  <2> SUFFICES ASSUME MailboxInv, TurnInv, ResultsInv, ~gaveUp, ~left,
                      NEW t \in Tasks, pc[t] = "draining"
               PROVE  /\ \A i \in DOMAIN chain : chain[i] = mine[t]
                      /\ \A i \in DOMAIN inbox : inbox[i] = mine[t]
    BY DEF DrainsOwnResults
  <2>1. lessees = {t}
    BY RestingLessee DEF MailboxInv
  <2> QED
    BY <2>1 DEF ResultsInv, ChainInv, InboxInv, Owned, WaitForLessee
<1> QED
  BY <1>1, TurnAlways, ResultsAlways, PTL

(* Until statements overlap the worker and the isolate never touch the      *)
(* PGconn and its result chain together; and unless the pool was closed     *)
(* under a task that used it no drain reaches a freed connection.           *)
THEOREM SlotOneThreadAtATime == Spec => []OneThreadAtATime
<1>1. MailboxInv /\ (~overlapped => TurnInv) /\ DestroyInv => OneThreadAtATime
  <2> SUFFICES ASSUME MailboxInv, ~overlapped => TurnInv, DestroyInv,
                      NEW t \in Tasks, pc[t] = "draining"
               PROVE  (overlapped \/ wpc # "run") /\ (closedEarly \/ closer # "freed")
    BY DEF OneThreadAtATime
  <2>1. CASE ~overlapped
    BY <2>1, RestingLessee DEF MailboxInv, InFlight, Quiet, DestroyInv
  <2>2. CASE overlapped
    BY <2>2 DEF DestroyInv
  <2> QED
    BY <2>1, <2>2
<1> QED
  BY <1>1, TurnAlways, DestroyAlways, PTL

(* Until statements overlap "slot busy" is never seen: clearing before      *)
(* posting works, and a refused submit means the pool is going away.        *)
THEOREM SlotNoSpuriousRefusal == Spec => []NoSpuriousRefusal
<1>1. MailboxInv /\ (~overlapped => TurnInv) => NoSpuriousRefusal
  BY DEF TurnInv, RefusedAtShutdown, NoSpuriousRefusal
<1> QED
  BY <1>1, TurnAlways, PTL

(* A lease whose every statement was awaited ends with the worker at rest,  *)
(* so pool_release may free the chain without a lock; pool_release itself   *)
(* does not look.                                                           *)
THEOREM SlotWorkerIdleAtRelease == Spec => WorkerIdleAtRelease
<1>1. MailboxInv /\ (~overlapped => TurnInv) /\ [Next]_vars =>
        [~overlapped' /\ lessees # {} /\ lessees' = {} =>
            slot = NoJob /\ wpc \in {"check", "asleep", "exited"}]_vars
  <2> SUFFICES ASSUME MailboxInv, ~overlapped => TurnInv, Next, ~overlapped',
                      lessees # {}, lessees' = {}
               PROVE  Quiet
    BY DEF Quiet
  <2>1. PICK t \in Tasks : Release(t)
    BY DEF Next, TaskStep, Lease, Submit, SubmitRefused, Receive, Poll, StopPolling,
       Worker, WorkerCheck, WorkerRun, WorkerClear, WorkerPost, WorkerSpuriousWake,
       CloseFlag, CloseSignal, CloseJoin, dartVars
  <2>2. TurnInv /\ pc[t] \in {"idle", "refused"}
    BY <2>1 DEF Release
  <2> QED
    BY <2>2, RestingLessee DEF MailboxInv, InFlight
<1> QED
  BY <1>1, TurnAlways, PTL DEF Spec, WorkerIdleAtRelease
===============================================================================
