-------------------------- MODULE PgConnection_proofs --------------------------
(***************************************************************************)
(* What one Postgres connection keeps true for every number of calls and   *)
(* of statements in them, whatever the server refuses and whatever is      *)
(* given up: PgConnInv, inductive by itself, and the three properties that *)
(* follow from it.                                                         *)
(*                                                                         *)
(* Its heart are two pictures of what is still on its way while a call is  *)
(* under way: StringKept for the query string of execute_single, _params   *)
(* and _multi_read, PipeKept for the 2n + 1 answers to a pipeline.  A      *)
(* connection aborted inside a pipeline is outside both: it stays so       *)
(* until some later pipeline happens to read the last outstanding answer.  *)
(***************************************************************************)
EXTENDS PgConnection, SequenceTheorems, TLAPS

Working == {"running", "ok", "rest", "restThenThrow"}

(* Where a call can be, given its kind, and what its connection is like.    *)
StepInv ==
    /\ lessee = NoTask <=> step = "out"
    /\ step \notin {"out", "idle"} => job \in Jobs
    /\ step = "aborted" => suspect
    /\ pipelineMode /\ ~suspect => step = "running" /\ kind = "pipeline"
    /\ step = "running" /\ kind = "pipeline" => pipelineMode /\ remaining > 0
    /\ step \in Working /\ kind \in {"simple", "multi"} => ~pipelineMode
    /\ step = "rest" => kind \in {"simple", "params"}
    /\ step = "restThenThrow" => kind # "pipeline"
    /\ step = "ok" /\ kind = "pipeline" /\ ~StuckInPipeline => LibpqIdle

(* What is outstanding or was refused is of the calls so far.               *)
AgeInv ==
    /\ \A i \in 1..Len(sent) : sent[i].of <= job
    /\ \A j \in failed : j <= job
    /\ step = "submitted" => /\ \A i \in 1..Len(sent) : sent[i].of < job
                             /\ job \notin failed

(* Between calls nothing is outstanding.  The chain may be kept by a        *)
(* multi-read longer than its list, until the lease ends; a call of another *)
(* kind that meets it is stale.                                             *)
RestInv ==
    /\ step \in {"out", "idle", "submitted"} /\ ~suspect => LibpqIdle
    /\ step = "out" => chain = <<>>
    /\ kind = "multi" => ~stale
    /\ step \notin {"out", "idle"} /\ kind # "multi" /\ ~stale => chain = <<>>

GotInv ==
    /\ step \in {"submitted", "running"} \/ kind = "pipeline" => got = <<>>
    /\ step = "ok" /\ kind # "multi" => got = <<>>
    /\ ~StuckInPipeline /\ ~stale => ResultIsOwn

(* The calls none of whose statements can be refused without a throw.       *)
MustSucceed == \/ kind = "multi" /\ n <= reads
               \/ kind \in {"simple", "params"} /\ n = 1 /\ ~stale

ReportInv ==
    report = "returned" =>
        /\ step \in {"out", "idle"}
        /\ ~StuckInPipeline =>
              /\ LibpqIdle
              /\ kind = "multi" => Len(got) = IF n < reads THEN n ELSE reads
              /\ MustSucceed => job \notin failed

(* Outside pipeline mode the server has the rest of one string to process.  *)
SentIsString ==
    ~pipelineMode =>
        \A i \in 1..Len(sent) :
            sent[i].what = IF i = Len(sent) THEN "end" ELSE "stmt"

(* A pipeline answers: result, end, ..., result, end, sync.                 *)
Left == Len(inbox) + Len(sent)
PipeKept ==
    step = "running" /\ kind = "pipeline" /\ ~suspect =>
        /\ remaining = (Left + 1) \div 2
        /\ \A i \in 1..Len(inbox) : inbox[i].what = "end" <=> (Left - i) % 2 = 1
        /\ \A i \in 1..Len(sent) : sent[i].what = "end" <=> (Len(sent) - i) % 2 = 1

(* The results of a string are its own, in order, the end comes last, and   *)
(* an error is the last result.                                             *)
Own ==
    /\ \A i \in 1..Len(sent) : sent[i].of = job
    /\ \A i \in 1..Len(inbox) : inbox[i].of = job
    /\ ~stale => \A i \in 1..Len(chain) : chain[i].of = job
EndIsLast ==
    \A i \in 1..Len(inbox) :
        /\ inbox[i].what \in {"result", "error", "end"}
        /\ inbox[i].what = "end" <=> i = Left
ErrorIsLast ==
    /\ \A i \in 1..Len(chain) :
          chain[i].what = "error" => i = Len(chain) /\ Left <= 1
    /\ \A i \in 1..Len(inbox) : inbox[i].what = "error" => Left = i + 1
    /\ job \in failed <=> \/ \E i \in 1..Len(chain) : chain[i].what = "error"
                          \/ \E i \in 1..Len(inbox) : inbox[i].what = "error"
(* A statement not refused has a result in got, the chain or on its way.    *)
Total == Len(got) + Len(chain) + Left
Complete(k) == Total <= k /\ (job \notin failed => Total = k)

StringKept ==
    step \in Working /\ kind # "pipeline" /\ ~pipelineMode =>
        /\ Own /\ EndIsLast
        /\ step \in {"running", "ok"} /\ ~stale => ErrorIsLast
        /\ step = "running" => Left > 0 /\ (~stale => Complete(n + 1))
        /\ step = "ok" /\ kind = "multi" =>
              LibpqIdle /\ Complete(n) /\ Len(got) < reads
        /\ step = "ok" /\ kind # "multi" => inbox # <<>> /\ (~stale => Complete(n + 1))
        /\ step = "rest" /\ n = 1 /\ ~stale => job \notin failed /\ Left = 1
        /\ step = "restThenThrow" /\ kind = "multi" => LibpqIdle

PgConnInv ==
    /\ TypeOK /\ StepInv /\ AgeInv /\ RestInv /\ GotInv /\ ReportInv
    /\ SentIsString /\ PipeKept /\ StringKept

-------------------------------------------------------------------------------
(* Sequences, and the commands of a call. *)
LEMMA TailFacts ==
    ASSUME NEW S, NEW s \in Seq(S), s # <<>>
    PROVE  /\ Len(s) \in Nat /\ Len(s) >= 1
           /\ Head(s) = s[1] /\ s[1] \in S
           /\ Tail(s) \in Seq(S) /\ Len(Tail(s)) = Len(s) - 1
           /\ \A i \in 1..(Len(s) - 1) : Tail(s)[i] = s[i + 1] /\ i + 1 \in 1..Len(s)
OBVIOUS

LEMMA AppendFacts ==
    ASSUME NEW S, NEW s \in Seq(S), NEW x \in S
    PROVE  /\ Len(s) \in Nat
           /\ Append(s, x) \in Seq(S) /\ Len(Append(s, x)) = Len(s) + 1
           /\ \A i \in 1..Len(s) : Append(s, x)[i] = s[i]
           /\ Append(s, x)[Len(s) + 1] = x
OBVIOUS

LEMMA SeqFacts ==
    ASSUME NEW S, NEW s \in Seq(S)
    PROVE  /\ Len(s) \in Nat
           /\ Len(s) = 0 <=> s = <<>>
           /\ \A i \in 1..Len(s) : s[i] \in S
OBVIOUS

(* A string of n statements, or n statements and their separators.          *)
LEMMA CommandsFacts ==
    ASSUME TypeOK, job \in Jobs
    PROVE  /\ Commands \in Seq([of : Jobs, what : {"stmt", "skip", "end", "sync"}])
           /\ \A i \in 1..Len(Commands) : Commands[i].of = job
           /\ kind # "pipeline" =>
                 /\ Len(Commands) = n + 1
                 /\ \A i \in 1..Len(Commands) :
                       Commands[i].what = IF i = Len(Commands) THEN "end" ELSE "stmt"
           /\ kind = "pipeline" =>
                 /\ Len(Commands) = 2 * n + 1
                 /\ \A i \in 1..Len(Commands) :
                       Commands[i].what = "end" <=> (Len(Commands) - i) % 2 = 1
<1> DEFINE S == [of : Jobs, what : {"stmt", "skip", "end", "sync"}]
<1>1. n \in Nat /\ n >= 1
  BY BoundsAreNat DEF TypeOK
<1>2. /\ Item("stmt") \in S /\ Item("end") \in S /\ Item("sync") \in S
      /\ \A what : Item(what).of = job /\ Item(what).what = what
  BY DEF Item
<1>3. CASE kind # "pipeline"
  <2> DEFINE q == [i \in 1..n |-> Item("stmt")]
  <2>1. q \in Seq(S) /\ Len(q) = n /\ \A i \in 1..n : q[i] = Item("stmt")
    BY <1>1, <1>2
  <2>2. Commands = q \o <<Item("end")>>
    BY <1>3 DEF Commands
  <2> HIDE DEF q
  <2>3. Commands = Append(q, Item("end"))
    BY <1>2, <2>1, <2>2, AppendIsConcat
  <2>4. /\ Commands \in Seq(S) /\ Len(Commands) = n + 1
        /\ \A i \in 1..n : Commands[i] = q[i]
        /\ Commands[n + 1] = Item("end")
    BY <1>2, <2>1, <2>3, AppendFacts
  <2> QED
    BY <1>1, <1>2, <1>3, <2>1, <2>4
<1>4. CASE kind = "pipeline"
  <2> DEFINE q == [i \in 1..(2 * n) |-> Item(IF i % 2 = 1 THEN "stmt" ELSE "end")]
  <2>1. /\ q \in Seq(S) /\ Len(q) = 2 * n
        /\ \A i \in 1..(2 * n) : q[i] = Item(IF i % 2 = 1 THEN "stmt" ELSE "end")
    BY <1>1, <1>2
  <2>2. Commands = q \o <<Item("sync")>>
    BY <1>4 DEF Commands
  <2> HIDE DEF q
  <2>3. Commands = Append(q, Item("sync"))
    BY <1>2, <2>1, <2>2, AppendIsConcat
  <2>4. /\ Commands \in Seq(S) /\ Len(Commands) = 2 * n + 1
        /\ \A i \in 1..(2 * n) : Commands[i] = q[i]
        /\ Commands[2 * n + 1] = Item("sync")
    <3>1. Len(q) = 2 * n /\ q \in Seq(S) /\ Item("sync") \in S
      BY <1>2, <2>1
    <3> QED
      BY <2>3, <3>1, AppendFacts
  <2>5. \A i \in 1..(2 * n + 1) :
           /\ i # 2 * n + 1 => i \in 1..(2 * n)
           /\ (2 * n + 1 - i) % 2 = 1 <=> i % 2 # 1
           /\ (2 * n + 1 - (2 * n + 1)) % 2 = 0
    BY <1>1
  <2>6. \A i \in 1..Len(Commands) :
           Commands[i].what = "end" <=> (Len(Commands) - i) % 2 = 1
    <3> SUFFICES ASSUME NEW i \in 1..Len(Commands)
                 PROVE  Commands[i].what = "end" <=> (Len(Commands) - i) % 2 = 1
      OBVIOUS
    <3>1. CASE i = 2 * n + 1
      BY <1>2, <2>4, <2>5, <3>1
    <3>2. CASE i # 2 * n + 1
      <4>1. i \in 1..(2 * n) /\ ((Len(Commands) - i) % 2 = 1 <=> i % 2 # 1)
        BY <2>4, <2>5, <3>2
      <4> QED
        BY <1>2, <2>1, <2>4, <4>1
    <3> QED
      BY <3>1, <3>2
  <2>7. \A i \in 1..Len(Commands) : Commands[i].of = job
    <3>1. \A i \in 1..Len(Commands) : i = 2 * n + 1 \/ i \in 1..(2 * n)
      BY <2>4, <2>5
    <3> QED
      BY <1>2, <2>1, <2>4, <3>1
  <2> QED
    BY <1>4, <2>4, <2>6, <2>7
<1> QED
  BY <1>3, <1>4

-------------------------------------------------------------------------------
(* The steps of the pool and the executor. *)
LEMMA InitGood == Init => PgConnInv
<1> SUFFICES ASSUME Init PROVE PgConnInv
  OBVIOUS
<1>1. TypeOK
  <2>1. 1 \in 1..MaxReads /\ 0 \in 0..MaxJobs /\ 0 \in 0..(MaxReads + 1)
    BY BoundsAreNat
  <2>2. (\A S : <<>> \in Seq(S)) /\ 0 \in 0..Len(<<>>)
    OBVIOUS
  <2> QED
    BY <2>1, <2>2 DEF Init, TypeOK, Steps, AllKinds
<1>2. StepInv /\ RestInv /\ ReportInv /\ PipeKept /\ StringKept
  BY NoTaskIsNoTask
     DEF Init, StepInv, RestInv, ReportInv, PipeKept, StringKept, Working, LibpqIdle
<1>3. AgeInv /\ GotInv /\ SentIsString
  BY DEF Init, AgeInv, GotInv, SentIsString, ResultIsOwn
<1> QED
  BY <1>1, <1>2, <1>3 DEF PgConnInv

LEMMA LeaseKeeps == ASSUME PgConnInv, NEW t \in Tasks, Lease(t) PROVE PgConnInv'
BY NoTaskIsNoTask
   DEF Lease, callVars, libpqVars, PgConnInv, TypeOK, StepInv, AgeInv, RestInv,
       GotInv, ReportInv, SentIsString, PipeKept, StringKept, Working, LibpqIdle,
       ResultIsOwn, MustSucceed, StuckInPipeline, Steps, Left

LEMMA ReleaseKeeps == ASSUME PgConnInv, Release PROVE PgConnInv'
BY NoTaskIsNoTask
   DEF Release, FreeResultChain, callVars, libpqVars, PgConnInv, TypeOK, StepInv, AgeInv,
       RestInv, GotInv, ReportInv, SentIsString, PipeKept, StringKept, Working,
       LibpqIdle, ResultIsOwn, MustSucceed, StuckInPipeline, Steps, Left

LEMMA SubmitKeeps ==
    ASSUME PgConnInv, NEW k \in Kinds, NEW m \in 1..MaxReads, NEW r \in 1..MaxReads,
           Submit(k, m, r)
    PROVE  PgConnInv'
<1> USE DEF PgConnInv, Submit, libpqVars, MustSucceed
<1>1. job' \in Jobs /\ job' = job + 1 /\ job \in Nat
  BY BoundsAreNat DEF TypeOK, Jobs
<1>2. TypeOK'
  BY <1>1, KindsAreKnown, BoundsAreNat DEF TypeOK, Steps, Jobs
<1>3. StepInv' /\ RestInv' /\ ReportInv' /\ PipeKept' /\ StringKept' /\ SentIsString'
  BY <1>1
     DEF StepInv, RestInv, ReportInv, PipeKept, StringKept, SentIsString, Working,
         LibpqIdle, StuckInPipeline
<1>4. AgeInv'
  <2>1. \A i \in 1..Len(sent) : sent[i].of \in Int
    <3> DEFINE S == [of : Jobs, what : {"stmt", "skip", "end", "sync"}]
    <3>1. sent \in Seq(S) /\ (\A x \in S : x.of \in Int)
      BY DEF TypeOK, Jobs
    <3> HIDE DEF S
    <3> QED
      BY <3>1
  <2>2. \A j \in failed : j \in Int
    BY DEF TypeOK, Jobs
  <2> QED
    BY <1>1, <2>1, <2>2 DEF AgeInv
<1>5. GotInv'
  BY DEF GotInv, ResultIsOwn, MustSucceed, StuckInPipeline
<1> QED
  BY <1>2, <1>3, <1>4, <1>5

LEMMA RunSingleKeeps == ASSUME PgConnInv, RunSingle PROVE PgConnInv'
BY NoTaskIsNoTask
   DEF RunSingle, callVars, libpqVars, PgConnInv, TypeOK, StepInv, AgeInv, RestInv,
       GotInv, ReportInv, SentIsString, PipeKept, StringKept, Working, LibpqIdle,
       ResultIsOwn, MustSucceed, StuckInPipeline, Steps, Left, Own, EndIsLast, ErrorIsLast, Complete,
       Total

LEMMA ThrowKeeps == ASSUME PgConnInv, Throw PROVE PgConnInv'
BY NoTaskIsNoTask
   DEF Throw, Finish, callVars, libpqVars, PgConnInv, TypeOK, StepInv, AgeInv, RestInv,
       GotInv, ReportInv, SentIsString, PipeKept, StringKept, Working, LibpqIdle,
       ResultIsOwn, MustSucceed, StuckInPipeline, Steps, Left

LEMMA PipelineReturnsKeeps == ASSUME PgConnInv, PipelineReturns PROVE PgConnInv'
BY NoTaskIsNoTask
   DEF PipelineReturns, Finish, callVars, libpqVars, PgConnInv, TypeOK, StepInv, AgeInv,
       RestInv, GotInv, ReportInv, SentIsString, PipeKept, StringKept, Working,
       LibpqIdle, ResultIsOwn, MustSucceed, StuckInPipeline, Steps, Left

LEMMA ChainType ==
    ASSUME TypeOK, chain' \in {chain, <<>>}
    PROVE  chain' \in Seq([of : Jobs, what : {"result", "error"}])
<1> DEFINE R == [of : Jobs, what : {"result", "error"}]
<1>1. chain \in Seq(R)
  BY DEF TypeOK
<1>2. \A S : <<>> \in Seq(S)
  OBVIOUS
<1> HIDE DEF R
<1>3. chain' \in Seq(R)
  BY <1>1, <1>2
<1> QED
  BY <1>3 DEF R

LEMMA SendKeeps == ASSUME PgConnInv, Send PROVE PgConnInv'
<1> USE DEF PgConnInv
<1> DEFINE S == [of : Jobs, what : {"stmt", "skip", "end", "sync"}]
<1>1. /\ step = "submitted" /\ job \in Jobs /\ job \in Nat /\ got = <<>>
      /\ report # "returned" /\ sent \in Seq(S)
      /\ chain' \in {chain, <<>>} /\ (kind = "multi" \/ ~stale => chain' = <<>>)
  BY DEF Send, FreeResultChain, StepInv, RestInv, GotInv, ReportInv, TypeOK, Jobs
<1>2. CASE ~SendAccepted
  <2> USE <1>1, <1>2 DEF Send
  <2>1. TypeOK'
    <3>1. chain' \in Seq([of : Jobs, what : {"result", "error"}])
      BY <1>1, ChainType
    <3>2. fresh' \in 0..Len(inbox')
      BY DEF TypeOK
    <3> QED
      BY <3>1, <3>2 DEF TypeOK, callVars, Steps
  <2>2. StepInv' /\ RestInv' /\ GotInv' /\ ReportInv'
    BY DEF StepInv, RestInv, GotInv, ReportInv, Working, StuckInPipeline, callVars,
           ResultIsOwn
  <2>3. AgeInv' /\ SentIsString' /\ PipeKept' /\ StringKept'
    BY DEF AgeInv, SentIsString, PipeKept, StringKept, Working, callVars
  <2> QED
    BY <2>1, <2>2, <2>3
<1>3. CASE SendAccepted
  <2>1. /\ step' = "running" /\ sent' = sent \o Commands /\ remaining' = n + 1
        /\ pipelineMode' = (pipelineMode \/ kind = "pipeline")
        /\ UNCHANGED <<lessee, kind, n, reads, job, stale, inbox, fresh, dead, got,
                       report, failed, suspect>>
    BY <1>1, <1>3 DEF Send, callVars, PipelineResults
  <2>2. /\ Commands \in Seq(S)
        /\ \A i \in 1..Len(Commands) : Commands[i].of = job
    BY <1>1, CommandsFacts
  <2>3. /\ sent' \in Seq(S) /\ Len(sent') = Len(sent) + Len(Commands)
        /\ \A i \in 1..Len(sent') :
              sent'[i] = IF i <= Len(sent) THEN sent[i] ELSE Commands[i - Len(sent)]
        /\ Len(sent) \in Nat /\ Len(Commands) \in Nat
    <3> HIDE DEF S
    <3> QED
      BY <1>1, <2>1, <2>2, ConcatProperties
  <2>4. TypeOK'
    <3>1. n + 1 \in 0..(MaxReads + 1)
      BY BoundsAreNat DEF TypeOK
    <3>2. chain' \in Seq([of : Jobs, what : {"result", "error"}])
      BY <1>1, ChainType
    <3>3. fresh' \in 0..Len(inbox')
      BY <2>1 DEF TypeOK
    <3> QED
      BY <1>1, <2>1, <2>3, <3>1, <3>2, <3>3 DEF TypeOK, Steps
  <2>5. StepInv' /\ RestInv' /\ GotInv' /\ ReportInv'
    <3>1. n + 1 > 0
      BY BoundsAreNat DEF TypeOK
    <3>2. /\ kind \in {"simple", "multi"} => ~pipelineMode
          /\ pipelineMode => suspect
      BY <1>1, <1>3 DEF SendAccepted, StepInv
    <3> QED
      BY <1>1, <2>1, <3>1, <3>2
         DEF StepInv, RestInv, GotInv, ReportInv, Working, StuckInPipeline, MustSucceed, ResultIsOwn
  <2>6. AgeInv'
    <3>1. \A i \in 1..Len(sent) : sent[i].of \in Nat /\ sent[i].of < job
      <4> HIDE DEF S
      <4>1. \A x \in S : x.of \in Nat
        BY DEF S, Jobs
      <4> QED
        BY <1>1, <4>1 DEF AgeInv
    <3>2. \A i \in 1..Len(sent') :
             sent'[i].of = job \/ (i \in 1..Len(sent) /\ sent'[i] = sent[i])
      <4>1. \A i \in 1..(Len(sent) + Len(Commands)) :
               /\ i <= Len(sent) => i \in 1..Len(sent)
               /\ ~(i <= Len(sent)) => (i - Len(sent)) \in 1..Len(Commands)
        BY <2>3
      <4> QED
        BY <2>2, <2>3, <4>1
    <3>3. (\A i \in 1..Len(sent') : sent'[i].of <= job)
      BY <1>1, <3>1, <3>2
    <3> QED
      BY <2>1, <3>3 DEF AgeInv
  <2>7. ~pipelineMode => sent = <<>> /\ inbox = <<>> /\ sent' = Commands
    <3>1. ~pipelineMode => sent = <<>> /\ inbox = <<>>
      BY <1>3 DEF SendAccepted, LibpqIdle
    <3>2. <<>> \o Commands = Commands
      BY <2>2, ConcatEmptySeq
    <3> QED
      BY <2>1, <3>1, <3>2
  <2>8. SentIsString' /\ PipeKept' /\ StringKept'
    <3>1. CASE pipelineMode
      BY <1>1, <2>1, <3>1 DEF SentIsString, PipeKept, StringKept, StepInv
    <3>2. CASE ~pipelineMode /\ kind # "pipeline"
      <4>1. /\ Len(sent') = n + 1 /\ Len(inbox) = 0 /\ Len(got) = 0
            /\ ~stale => Len(chain') = 0
            /\ n \in Nat /\ n >= 1
            /\ \A i \in 1..Len(sent') : sent'[i].of = job
        BY <1>1, <2>2, <2>7, <3>2, CommandsFacts, BoundsAreNat DEF TypeOK
      <4>2. SentIsString' /\ PipeKept'
        BY <1>1, <2>1, <2>7, <3>2, CommandsFacts DEF SentIsString, PipeKept
      <4>3. StringKept'
        BY <1>1, <2>1, <2>7, <3>2, <4>1
           DEF StringKept, Own, EndIsLast, ErrorIsLast, Complete, Total, Left, AgeInv
      <4> QED
        BY <4>2, <4>3
    <3>3. CASE ~pipelineMode /\ kind = "pipeline"
      <4>1. /\ Len(sent') = 2 * n + 1 /\ Len(inbox') = 0 /\ n \in Nat
            /\ \A i \in 1..Len(sent') :
                  sent'[i].what = "end" <=> (Len(sent') - i) % 2 = 1
        <5>1. n \in Nat /\ inbox' = inbox /\ inbox = <<>>
          BY <2>1, <2>7, <3>3, BoundsAreNat DEF TypeOK
        <5> QED
          BY <1>1, <2>7, <3>3, <5>1, CommandsFacts
      <4>2. remaining' = (Left' + 1) \div 2
        BY <2>1, <4>1 DEF Left
      <4> QED
        <5>1. pipelineMode' /\ kind' = "pipeline" /\ step' = "running"
          BY <2>1, <3>3
        <5>2. SentIsString' /\ StringKept'
          BY <5>1 DEF SentIsString, StringKept
        <5>3. PipeKept'
          BY <4>1, <4>2 DEF PipeKept
        <5> QED
          BY <5>2, <5>3
    <3> QED
      BY <3>1, <3>2, <3>3
  <2> QED
    BY <2>4, <2>5, <2>6, <2>8
<1> QED
  BY <1>2, <1>3

LEMMA AbortKeeps == ASSUME PgConnInv, Abort PROVE PgConnInv'
<1> USE DEF PgConnInv
<1>1. /\ step = "running" /\ step' = "aborted" /\ suspect' /\ job \in Jobs
      /\ chain' \in {chain, <<>>} /\ (kind = "multi" \/ ~stale => chain' = <<>>)
      /\ report # "returned" /\ got = <<>>
      /\ pipelineMode' => pipelineMode
      /\ kind # "pipeline" => pipelineMode' = pipelineMode
      /\ ~pipelineMode' /\ pipelineMode => sent = <<>>
      /\ UNCHANGED <<lessee, kind, n, reads, job, stale, sent, inbox, fresh,
                     remaining, got, report, failed>>
      /\ dead' \in BOOLEAN /\ pipelineMode' \in BOOLEAN /\ suspect' \in BOOLEAN
  BY DEF Abort, AbortCode, FreeResultChain, ExitPipeline, callVars, StepInv, RestInv,
         GotInv, ReportInv, TypeOK
<1>2. TypeOK'
  <2>1. chain' \in Seq([of : Jobs, what : {"result", "error"}])
    BY <1>1, ChainType
  <2>2. fresh' \in 0..Len(inbox')
    BY <1>1 DEF TypeOK
  <2> QED
    BY <1>1, <2>1, <2>2 DEF TypeOK, Steps
<1>3. StepInv' /\ RestInv' /\ GotInv' /\ ReportInv'
  BY <1>1 DEF StepInv, RestInv, GotInv, ReportInv, Working, StuckInPipeline, MustSucceed, ResultIsOwn
<1>4. AgeInv' /\ SentIsString' /\ PipeKept' /\ StringKept'
  BY <1>1 DEF AgeInv, SentIsString, PipeKept, StringKept, Working
<1> QED
  BY <1>2, <1>3, <1>4

-------------------------------------------------------------------------------
(* The worker reads the answers to a multi-read, or to a pipeline. *)
LEMMA RunMultiReadKeeps == ASSUME PgConnInv, RunMultiRead PROVE PgConnInv'
<1> USE DEF PgConnInv
<1> DEFINE I == [of : Jobs, what : {"result", "error", "skipped", "end", "sync"}]
           R == [of : Jobs, what : {"result", "error"}]
           x == inbox[1]
<1>1. /\ step = "running" /\ kind = "multi" /\ ~pipelineMode /\ inbox # <<>>
      /\ inbox \in Seq(I) /\ chain \in Seq(R) /\ got = <<>> /\ report # "returned"
      /\ ~stale /\ reads \in Nat /\ reads >= 1
      /\ Own /\ EndIsLast /\ ErrorIsLast /\ Left > 0 /\ Complete(n + 1)
  <2>1. reads \in Nat /\ reads >= 1
    BY BoundsAreNat DEF TypeOK
  <2> QED
    BY <2>1
       DEF RunMultiRead, StepInv, TypeOK, RestInv, GotInv, ReportInv, StringKept, Working
<1>2. /\ Len(inbox) \in Nat /\ Len(inbox) >= 1 /\ Head(inbox) = x /\ x \in I
      /\ Tail(inbox) \in Seq(I) /\ Len(Tail(inbox)) = Len(inbox) - 1
      /\ \A i \in 1..(Len(inbox) - 1) :
            Tail(inbox)[i] = inbox[i + 1] /\ i + 1 \in 1..Len(inbox)
  <2> HIDE DEF I
  <2> QED
    BY <1>1, TailFacts
<1>3. /\ inbox' = Tail(inbox) /\ fresh' \in 0..Len(inbox')
      /\ UNCHANGED <<lessee, kind, n, reads, job, stale, sent, pipelineMode, dead,
                     remaining, got, report, failed, suspect>>
      /\ x.what = "end" => step' = "ok" /\ chain' = chain
      /\ x.what # "end" => step' = step /\ chain' = Append(chain, x)
  <2>1. fresh' \in 0..Len(inbox')
    <3>1. inbox' = Tail(inbox) /\ fresh' = IF fresh = Len(inbox) THEN 0 ELSE fresh
      BY DEF RunMultiRead, GetResult
    <3>2. fresh \in 0..Len(inbox)
      BY DEF TypeOK
    <3>3. Len(inbox') = Len(inbox) - 1 /\ Len(inbox) \in Nat /\ Len(inbox) >= 1
      BY <1>2, <3>1
    <3>4. fresh' = IF fresh = Len(inbox) THEN 0 ELSE fresh
      BY <3>1
    <3> QED
      BY <3>2, <3>3, <3>4
  <2> QED
    BY <1>2, <2>1 DEF RunMultiRead, GetResult, WholeStringDrained, Appended, callVars
<1>4. Len(sent) \in Nat /\ Len(chain) \in Nat /\ n \in Nat /\ n >= 1 /\ Len(got) = 0
  BY <1>1, BoundsAreNat DEF TypeOK
<1>5. CASE x.what = "end"
  <2>1. Left = 1
    BY <1>2, <1>5, <1>1 DEF EndIsLast
  <2>2. inbox' = <<>> /\ sent = <<>> /\ Len(inbox') = 0 /\ Len(sent) = 0
    BY <1>1, <1>2, <1>3, <1>4, <2>1 DEF Left, TypeOK
  <2>3. TypeOK'
    BY <1>2, <1>3, <1>5 DEF TypeOK, Steps
  <2>4. StepInv' /\ AgeInv' /\ RestInv' /\ GotInv' /\ ReportInv' /\ SentIsString'
        /\ PipeKept'
    BY <1>1, <1>3, <1>5, <2>2
       DEF StepInv, AgeInv, RestInv, GotInv, ReportInv, SentIsString, PipeKept,
           Working, StuckInPipeline, MustSucceed, ResultIsOwn
  <2>5. sent' = sent /\ chain' = chain /\ got' = got /\ failed' = failed /\ job' = job
    BY <1>3, <1>5
  <2>6. Len(inbox) = 1 /\ Left' = 0 /\ Total' = Total - 1 /\ Total \in Nat
    <3>1. Len(inbox) = 1
      <4>1. Len(sent) = 0 /\ Len(inbox) \in Nat
        BY <1>2, <2>2
      <4> QED
        BY <2>1, <4>1 DEF Left
    <3>2. Left' = 0
      BY <2>2, <2>5 DEF Left
    <3> QED
      BY <1>4, <2>1, <2>5, <3>1, <3>2 DEF Total
  <2>7. Own' /\ EndIsLast' /\ LibpqIdle'
    <3>1. Own'
      BY <1>1, <2>2, <2>5 DEF Own
    <3> QED
      BY <2>2, <2>5, <3>1 DEF EndIsLast, LibpqIdle
  <2>8. \A i \in 1..Len(inbox) : inbox[i].what # "error"
    BY <1>5, <2>6
  <2>9. ErrorIsLast'
    <3>1. \A i \in 1..Len(chain) : chain[i].what = "error" => i = Len(chain)
      BY <1>1 DEF ErrorIsLast
    <3>2. job \in failed <=> \E i \in 1..Len(chain) : chain[i].what = "error"
      BY <1>1, <2>8 DEF ErrorIsLast
    <3> QED
      BY <2>2, <2>6, <2>5, <3>1, <3>2 DEF ErrorIsLast
  <2>10. StringKept'
    BY <1>1, <1>3, <1>4, <1>5, <2>6, <2>7, <2>9 DEF StringKept, Complete
  <2> QED
    BY <2>3, <2>4, <2>10
<1>6. CASE x.what # "end"
  <2>1. x \in R /\ x.of = job
    BY <1>1, <1>2, <1>6 DEF EndIsLast, Own
  <2>2. /\ chain' \in Seq(R) /\ Len(chain') = Len(chain) + 1
        /\ \A i \in 1..Len(chain) : chain'[i] = chain[i]
        /\ chain'[Len(chain) + 1] = x
    <3>1. chain' = Append(chain, x) /\ chain \in Seq(R) /\ x \in R
      BY <1>1, <1>3, <1>6, <2>1
    <3> HIDE DEF R, x
    <3> QED
      BY <3>1, AppendFacts
  <2>3. TypeOK'
    BY <1>2, <1>3, <1>6, <2>2 DEF TypeOK, Steps
  <2>4. StepInv' /\ AgeInv' /\ RestInv' /\ GotInv' /\ ReportInv' /\ SentIsString'
        /\ PipeKept'
    BY <1>1, <1>3, <1>6
       DEF StepInv, AgeInv, RestInv, GotInv, ReportInv, SentIsString, PipeKept,
           Working, StuckInPipeline, MustSucceed, ResultIsOwn
  <2>5. /\ Left' = Left - 1 /\ Total' = Total /\ Left >= 2
        /\ \A i \in 1..Len(chain) : chain[i].what # "error"
    BY <1>1, <1>2, <1>3, <1>4, <1>6, <2>2 DEF Left, Total, EndIsLast, ErrorIsLast
  <2>6. \A i \in 1..Len(inbox') : i + 1 \in 1..Len(inbox) /\ inbox'[i] = inbox[i + 1]
    BY <1>2, <1>3
  <2>7. \A i \in 1..Len(chain') :
           \/ i \in 1..Len(chain) /\ chain'[i] = chain[i]
           \/ i = Len(chain') /\ chain'[i] = x
    BY <1>4, <2>2
  <2>8. Own'
    BY <1>1, <1>3, <2>1, <2>6, <2>7 DEF Own
  <2>9. EndIsLast'
    BY <1>1, <1>2, <1>4, <2>5, <2>6 DEF EndIsLast, Left
  <2>10. /\ x.what = "error" => Left = 2
         /\ \A i \in 1..Len(inbox') : inbox'[i].what = "error" => Left' = i + 1
    BY <1>1, <1>2, <1>4, <2>5, <2>6 DEF ErrorIsLast, Left
  <2>11. \A i \in 1..Len(chain') :
            chain'[i].what = "error" => i = Len(chain') /\ Left' <= 1
    BY <1>4, <2>5, <2>7, <2>10 DEF Left
  <2>12. \/ \E i \in 1..Len(chain') : chain'[i].what = "error"
         \/ \E i \in 1..Len(inbox') : inbox'[i].what = "error"
         <=> \E i \in 1..Len(inbox) : inbox[i].what = "error"
    <3>1. ASSUME NEW i \in 1..Len(inbox), inbox[i].what = "error"
          PROVE  \/ \E k \in 1..Len(chain') : chain'[k].what = "error"
                 \/ \E k \in 1..Len(inbox') : inbox'[k].what = "error"
      <4>1. CASE i = 1
        BY <1>4, <2>2, <3>1, <4>1
      <4>2. CASE i # 1
        <5>1. i - 1 \in 1..Len(inbox') /\ inbox'[i - 1] = inbox[i]
          BY <1>2, <1>3, <4>2
        <5> QED
          BY <3>1, <5>1
      <4> QED
        BY <4>1, <4>2
    <3>2. ASSUME NEW k \in 1..Len(chain'), chain'[k].what = "error"
          PROVE  \E i \in 1..Len(inbox) : inbox[i].what = "error"
      BY <1>2, <2>5, <2>7, <3>2
    <3>3. ASSUME NEW k \in 1..Len(inbox'), inbox'[k].what = "error"
          PROVE  \E i \in 1..Len(inbox) : inbox[i].what = "error"
      BY <2>6, <3>3
    <3> QED
      BY <3>1, <3>2, <3>3
  <2>13. ErrorIsLast'
    <3>1. job \in failed <=> \E i \in 1..Len(inbox) : inbox[i].what = "error"
      BY <1>1, <2>5 DEF ErrorIsLast
    <3> QED
      BY <1>3, <2>10, <2>11, <2>12, <3>1 DEF ErrorIsLast
  <2>15. StringKept'
    BY <1>1, <1>3, <1>6, <2>5, <2>8, <2>9, <2>13 DEF StringKept, Complete, Left
  <2> QED
    BY <2>3, <2>4, <2>15
<1> QED
  BY <1>5, <1>6

LEMMA RunPipelineKeeps == ASSUME PgConnInv, RunPipeline PROVE PgConnInv'
<1> USE DEF PgConnInv
<1> DEFINE I == [of : Jobs, what : {"result", "error", "skipped", "end", "sync"}]
           left == IF inbox[1].what = "end" THEN remaining ELSE remaining - 1
<1>1. /\ step = "running" /\ kind = "pipeline" /\ pipelineMode /\ inbox # <<>>
      /\ inbox \in Seq(I) /\ got = <<>> /\ report # "returned"
      /\ remaining \in 0..(MaxReads + 1) /\ remaining > 0
  BY DEF RunPipeline, StepInv, TypeOK, RestInv, GotInv, ReportInv
<1>2. /\ Len(inbox) \in Nat /\ Len(inbox) >= 1 /\ Head(inbox) = inbox[1]
      /\ Tail(inbox) \in Seq(I) /\ Len(Tail(inbox)) = Len(inbox) - 1
      /\ \A i \in 1..(Len(inbox) - 1) :
            Tail(inbox)[i] = inbox[i + 1] /\ i + 1 \in 1..Len(inbox)
  <2> HIDE DEF I
  <2> QED
    BY <1>1, TailFacts
<1>3. /\ inbox' = Tail(inbox) /\ remaining' = left /\ fresh' \in 0..Len(inbox')
      /\ UNCHANGED <<lessee, kind, n, reads, job, stale, sent, dead, chain, got, report,
                     failed, suspect>>
      /\ left = 0 => /\ step' = "ok"
                     /\ pipelineMode' = (pipelineMode /\ (sent # <<>> \/ inbox' # <<>>))
      /\ left # 0 => step' = step /\ pipelineMode' = pipelineMode
  <2>1. fresh' \in 0..Len(inbox')
    <3>1. inbox' = Tail(inbox) /\ fresh' = IF fresh = Len(inbox) THEN 0 ELSE fresh
      BY DEF RunPipeline, GetResult
    <3>2. fresh \in 0..Len(inbox)
      BY DEF TypeOK
    <3>3. Len(inbox') = Len(inbox) - 1 /\ Len(inbox) \in Nat /\ Len(inbox) >= 1
      BY <1>2, <3>1
    <3>4. fresh' = IF fresh = Len(inbox) THEN 0 ELSE fresh
      BY <3>1
    <3> QED
      BY <3>2, <3>3, <3>4
  <2> QED
    BY <1>2, <2>1 DEF RunPipeline, GetResult, ExitPipeline, callVars
<1>4. Len(sent) \in Nat /\ left \in 0..(MaxReads + 1)
  BY <1>1, BoundsAreNat DEF TypeOK
<1>5. ~suspect => /\ left = (Left - 1 + 1) \div 2
                  /\ \A i \in 1..Len(inbox) : inbox[i].what = "end" <=> (Left - i) % 2 = 1
                  /\ \A i \in 1..Len(sent) :
                        sent[i].what = "end" <=> (Len(sent) - i) % 2 = 1
  <2> SUFFICES ASSUME ~suspect
               PROVE  left = (Left - 1 + 1) \div 2
    BY <1>1 DEF PipeKept
  <2>1. /\ remaining = (Left + 1) \div 2 /\ Left \in Nat
        /\ inbox[1].what = "end" <=> (Left - 1) % 2 = 1
    BY <1>1, <1>2, <1>4 DEF PipeKept, Left
  <2> QED
    BY <2>1
<1>6. ~suspect /\ left = 0 => LibpqIdle'
  BY <1>2, <1>3, <1>4, <1>5 DEF Left, LibpqIdle, TypeOK
<1>7. TypeOK'
  <2> HIDE DEF left
  <2> QED
    BY <1>1, <1>2, <1>3, <1>4 DEF TypeOK, Steps
<1> HIDE DEF left
<1>8. /\ sent' = sent /\ chain' = chain /\ stale' = stale
      /\ got' = <<>> /\ report' # "returned"
      /\ step' \in {"running", "ok"} /\ kind' = "pipeline" /\ lessee' = lessee
      /\ suspect' = suspect /\ job' = job /\ pipelineMode' \in BOOLEAN
      /\ ~pipelineMode' => step' = "ok" /\ sent = <<>> /\ LibpqIdle'
      /\ step' = "ok" => left = 0
  BY <1>1, <1>3, <1>4 DEF LibpqIdle
<1>9. StepInv' /\ RestInv' /\ GotInv' /\ ReportInv'
  <2>1. StepInv'
    <3>1. left = 0 /\ LibpqIdle' => ~pipelineMode'
      BY <1>3, <1>8 DEF LibpqIdle
    <3>2. left # 0 => step' = "running" /\ pipelineMode' /\ remaining' > 0
      BY <1>1, <1>3, <1>4
    <3>3. lessee # NoTask /\ job \in Jobs
      BY <1>1 DEF StepInv
    <3> QED
      BY <1>6, <1>8, <3>1, <3>2, <3>3, <1>3 DEF StepInv, StuckInPipeline, Working
  <2> QED
    BY <1>1, <1>8, <2>1 DEF RestInv, GotInv, ReportInv, ResultIsOwn
<1>10. AgeInv' /\ StringKept'
  BY <1>1, <1>3 DEF AgeInv, StringKept
<1>11. SentIsString'
  BY <1>8 DEF SentIsString
<1>12. PipeKept'
  <2> SUFFICES ASSUME ~suspect, left # 0
               PROVE  /\ remaining' = (Left' + 1) \div 2
                      /\ \A i \in 1..Len(inbox') :
                            inbox'[i].what = "end" <=> (Left' - i) % 2 = 1
                      /\ \A i \in 1..Len(sent') :
                            sent'[i].what = "end" <=> (Len(sent') - i) % 2 = 1
    BY <1>1, <1>3 DEF PipeKept
  <2>1. Left' = Left - 1 /\ Left \in Nat
    BY <1>2, <1>3, <1>4 DEF Left
  <2>2. \A i \in 1..(Len(inbox) - 1) : Left - 1 - i = Left - (i + 1)
    BY <1>2, <2>1
  <2>3. remaining' = (Left' + 1) \div 2
    <3>1. remaining' = left /\ left = (Left - 1 + 1) \div 2
      BY <1>3, <1>5
    <3> QED
      BY <2>1, <3>1
  <2>4. \A i \in 1..Len(inbox') : inbox'[i].what = "end" <=> (Left' - i) % 2 = 1
    <3>1. \A i \in 1..Len(inbox') :
             /\ inbox'[i] = inbox[i + 1] /\ i + 1 \in 1..Len(inbox)
             /\ Left - (i + 1) = Left' - i
      BY <1>2, <1>3, <2>1, <2>2
    <3>2. \A i \in 1..Len(inbox) : inbox[i].what = "end" <=> (Left - i) % 2 = 1
      BY <1>5
    <3> QED
      BY <3>1, <3>2
  <2>5. \A i \in 1..Len(sent') : sent'[i].what = "end" <=> (Len(sent') - i) % 2 = 1
    BY <1>3, <1>5
  <2> QED
    BY <2>3, <2>4, <2>5
<1> QED
  BY <1>7, <1>9, <1>10, <1>11, <1>12

-------------------------------------------------------------------------------
(* The isolate polls: what poll_result takes, and what is left. *)
Answers == [of : Jobs, what : {"result", "error", "skipped", "end", "sync"}]
Results == [of : Jobs, what : {"result", "error"}]

LEMMA PollFacts ==
    ASSUME TypeOK, StepInv, RestInv, StringKept, PollTakes, step \in Working
    PROVE  /\ chain' \in Seq(Results)
           /\ inbox' \in Seq(Answers)
           /\ fresh' \in 0..Len(inbox')
           /\ Polled.what # "end" => Polled.of \in Jobs
           /\ chain # <<>> =>
                 /\ Polled = chain[1] /\ Polled.what \in {"result", "error"}
                 /\ inbox' = inbox /\ Len(chain') = Len(chain) - 1
                 /\ \A i \in 1..Len(chain') :
                       i + 1 \in 1..Len(chain) /\ chain'[i] = chain[i + 1]
           /\ chain = <<>> => chain' = <<>>
           /\ chain = <<>> /\ inbox # <<>> =>
                 /\ Polled = inbox[1] /\ Len(inbox') = Len(inbox) - 1
                 /\ \A i \in 1..Len(inbox') :
                       i + 1 \in 1..Len(inbox) /\ inbox'[i] = inbox[i + 1]
           /\ chain = <<>> /\ inbox = <<>> =>
                 Polled.what = "end" /\ sent = <<>> /\ inbox' = <<>>
<1>1. inbox \in Seq(Answers) /\ chain \in Seq(Results)
  BY DEF TypeOK, Answers, Results
<1>2. \A y \in Answers \cup Results : y.of \in Jobs
  BY DEF Answers, Results
<1>3. \A y \in Results : y.what \in {"result", "error"}
  BY DEF Results
<1>4. CASE chain # <<>>
  <2>1. /\ inbox' = inbox /\ chain' = Tail(chain) /\ Polled = Head(chain)
        /\ fresh' \in 0..Len(inbox')
    BY <1>4 DEF PollTakes, Polled, TypeOK
  <2>2. /\ chain' \in Seq(Results) /\ Polled \in Results /\ Polled = chain[1]
        /\ Len(chain') = Len(chain) - 1
        /\ \A i \in 1..(Len(chain) - 1) :
              chain'[i] = chain[i + 1] /\ i + 1 \in 1..Len(chain)
    BY <1>1, <1>4, <2>1, TailFacts
  <2>3. /\ Polled.of \in Jobs /\ Polled.what \in {"result", "error"}
        /\ inbox' \in Seq(Answers)
    BY <1>1, <1>2, <1>3, <2>1, <2>2
  <2>4. \A i \in 1..Len(chain') : i + 1 \in 1..Len(chain) /\ chain'[i] = chain[i + 1]
    BY <2>2
  <2> QED
    BY <1>4, <2>1, <2>2, <2>3, <2>4
<1>5. CASE chain = <<>> /\ inbox # <<>>
  <2>1. chain' = chain /\ inbox' = Tail(inbox) /\ Polled = Head(inbox)
    BY <1>5 DEF PollTakes, GetResult, Polled
  <2>2. /\ inbox' \in Seq(Answers) /\ Polled \in Answers /\ Polled = inbox[1]
        /\ Len(inbox') = Len(inbox) - 1
        /\ \A i \in 1..(Len(inbox) - 1) :
              inbox'[i] = inbox[i + 1] /\ i + 1 \in 1..Len(inbox)
    BY <1>1, <1>5, <2>1, TailFacts
  <2>3. Polled.of \in Jobs /\ chain' \in Seq(Results) /\ chain' = <<>>
    BY <1>1, <1>2, <1>5, <2>1, <2>2
  <2>4. \A i \in 1..Len(inbox') : i + 1 \in 1..Len(inbox) /\ inbox'[i] = inbox[i + 1]
    BY <2>2
  <2>5. fresh' \in 0..Len(inbox')
    <3>1. Len(inbox) \in Nat /\ Len(inbox) >= 1 /\ fresh \in 0..Len(inbox)
      BY <1>1, <1>5, SeqFacts DEF TypeOK
    <3>2. fresh' = IF fresh = Len(inbox) THEN 0 ELSE fresh
      BY <1>5 DEF PollTakes, GetResult
    <3> QED
      BY <2>2, <3>1, <3>2
  <2> QED
    BY <1>5, <2>2, <2>3, <2>4, <2>5
<1>6. CASE chain = <<>> /\ inbox = <<>>
  BY <1>1, <1>6 DEF PollTakes, Polled, Item, TypeOK
<1> QED
  BY <1>4, <1>5, <1>6

LEMMA PollKeepsString ==
    ASSUME TypeOK, StepInv, RestInv, StringKept, PollTakes, ~pipelineMode,
           step \in {"ok", "rest", "restThenThrow"}, kind # "pipeline",
           sent' = sent, job' = job, stale' = stale
    PROVE  /\ Own' /\ EndIsLast'
           /\ chain # <<>> => Left' = Left
           /\ chain = <<>> /\ inbox # <<>> => Left' = Left - 1
           /\ LibpqIdle => LibpqIdle'
           /\ Polled.what = "end" => chain' = <<>> /\ LibpqIdle'
           /\ Polled.what # "end" /\ ~stale => Polled.of = job
           /\ Left \in Nat
<1>1. Own /\ EndIsLast /\ step \in Working
  BY DEF StringKept, Working
<1>2. Len(sent) \in Nat /\ Len(inbox) \in Nat /\ Len(chain) \in Nat
  BY DEF TypeOK
<1>3. CASE chain # <<>>
  <2>1. inbox' = inbox /\ Polled = chain[1] /\ Polled.what \in {"result", "error"}
        /\ \A i \in 1..Len(chain') :
              i + 1 \in 1..Len(chain) /\ chain'[i] = chain[i + 1]
    BY <1>1, <1>3, PollFacts
  <2>2. Left' = Left
    BY <2>1 DEF Left
  <2>3. 1 \in 1..Len(chain)
    BY <1>2, <1>3 DEF TypeOK
  <2>4. Own'
    BY <1>1, <2>1 DEF Own
  <2>5. EndIsLast'
    BY <1>1, <2>1, <2>2 DEF EndIsLast
  <2>6. ~stale => Polled.of = job
    BY <1>1, <2>1, <2>3 DEF Own
  <2>7. /\ LibpqIdle => LibpqIdle'
        /\ Left \in Nat
    BY <1>2, <2>1 DEF LibpqIdle, Left
  <2> QED
    BY <1>3, <2>1, <2>2, <2>4, <2>5, <2>6, <2>7
<1>4. CASE chain = <<>> /\ inbox # <<>>
  <2>1. /\ chain' = <<>> /\ Polled = inbox[1] /\ Len(inbox') = Len(inbox) - 1
        /\ inbox' \in Seq(Answers)
        /\ \A i \in 1..Len(inbox') :
              i + 1 \in 1..Len(inbox) /\ inbox'[i] = inbox[i + 1]
    BY <1>1, <1>4, PollFacts
  <2>2. Left' = Left - 1
    BY <1>2, <2>1 DEF Left
  <2>3. 1 \in 1..Len(inbox)
    BY <1>2, <1>4 DEF TypeOK
  <2>4. Own'
    BY <1>1, <2>1 DEF Own
  <2>5. EndIsLast'
    <3>1. Left \in Nat
      BY <1>2 DEF Left
    <3> QED
      BY <1>1, <2>1, <2>2, <3>1 DEF EndIsLast
  <2>6. Polled.what = "end" => Left = 1
    BY <1>1, <2>1, <2>3 DEF EndIsLast
  <2>7. Left = 1 => Len(sent) = 0 /\ Len(inbox') = 0
    BY <1>2, <2>1, <2>3 DEF Left
  <2>8. Polled.what = "end" => LibpqIdle'
    <3>1. Len(sent) = 0 => sent = <<>>
      BY DEF TypeOK
    <3>2. Len(inbox') = 0 => inbox' = <<>>
      BY <2>1
    <3> QED
      BY <2>6, <2>7, <3>1, <3>2 DEF LibpqIdle
  <2>9. Polled.of = job
    BY <1>1, <2>1, <2>3 DEF Own
  <2>10. ~LibpqIdle /\ Left \in Nat
    BY <1>2, <1>4 DEF LibpqIdle, Left
  <2> QED
    BY <1>4, <2>1, <2>2, <2>4, <2>5, <2>8, <2>9, <2>10
<1>5. CASE chain = <<>> /\ inbox = <<>>
  <2>1. chain' = <<>> /\ Polled.what = "end" /\ sent = <<>> /\ inbox' = <<>>
    BY <1>1, <1>5, PollFacts
  <2> QED
    BY <1>2, <1>5, <2>1 DEF Own, EndIsLast, LibpqIdle, Left
<1> QED
  BY <1>3, <1>4, <1>5

LEMMA DrainRemainingKeeps == ASSUME PgConnInv, DrainRemaining PROVE PgConnInv'
<1> USE DEF PgConnInv
<1>1. /\ step \in {"rest", "restThenThrow"} /\ step \in Working /\ PollTakes
      /\ job \in Jobs /\ kind # "pipeline" /\ lessee # NoTask /\ report # "returned"
      /\ UNCHANGED <<lessee, kind, n, reads, job, stale, sent, pipelineMode, dead, remaining, got,
                     failed, suspect>>
      /\ Polled.what # "end" => step' = step /\ report' = report
      /\ Polled.what = "end" =>
            /\ step' = "idle"
            /\ report' = IF step = "rest" THEN "returned" ELSE "threw"
  BY DEF DrainRemaining, Finish, callVars, Working, StepInv, ReportInv
<1>2. /\ chain' \in Seq(Results) /\ inbox' \in Seq(Answers) /\ fresh' \in 0..Len(inbox')
      /\ chain = <<>> => chain' = <<>>
  BY <1>1, PollFacts
<1>3. TypeOK'
  BY <1>1, <1>2 DEF TypeOK, Results, Answers, Steps
<1>4. CASE pipelineMode
  <2>1. suspect /\ kind = "params" /\ (~stale => chain' = <<>>)
    BY <1>1, <1>2, <1>4 DEF StepInv, RestInv, TypeOK, AllKinds
  <2>2. StepInv' /\ RestInv' /\ GotInv' /\ ReportInv' /\ AgeInv'
    BY <1>1, <1>4, <2>1
       DEF StepInv, RestInv, GotInv, ReportInv, AgeInv, StuckInPipeline, Working
  <2>3. SentIsString' /\ PipeKept' /\ StringKept'
    BY <1>1, <1>4, <2>1 DEF SentIsString, PipeKept, StringKept
  <2> QED
    BY <1>3, <2>2, <2>3
<1>5. CASE ~pipelineMode
  <2>1. /\ Own' /\ EndIsLast' /\ Left \in Nat
        /\ chain # <<>> => Left' = Left
        /\ chain = <<>> /\ inbox # <<>> => Left' = Left - 1
        /\ LibpqIdle => LibpqIdle'
        /\ Polled.what = "end" => chain' = <<>> /\ LibpqIdle'
    BY <1>1, <1>5, PollKeepsString
  <2>2. step = "rest" /\ n = 1 /\ ~stale =>
           job \notin failed /\ Left = 1 /\ Polled.what = "end"
    <3> SUFFICES ASSUME step = "rest", n = 1, ~stale
                 PROVE  job \notin failed /\ Left = 1 /\ Polled.what = "end"
      OBVIOUS
    <3>1. job \notin failed /\ Left = 1 /\ EndIsLast /\ chain = <<>>
      BY <1>1, <1>5 DEF StringKept, RestInv, StepInv
    <3>2. CASE inbox = <<>>
      BY <1>1, <3>1, <3>2, PollFacts
    <3>3. CASE inbox # <<>>
      <4>1. Polled = inbox[1] /\ 1 \in 1..Len(inbox)
        BY <1>1, <3>1, <3>3, PollFacts DEF TypeOK
      <4> QED
        BY <3>1, <4>1 DEF EndIsLast
    <3> QED
      BY <3>1, <3>2, <3>3
  <2>3. StepInv' /\ RestInv' /\ AgeInv' /\ GotInv'
    BY <1>1, <1>2, <1>5, <2>1
       DEF StepInv, RestInv, AgeInv, GotInv, StuckInPipeline, Working, ResultIsOwn
  <2>4. ReportInv'
    BY <1>1, <1>5, <2>1, <2>2 DEF ReportInv, MustSucceed, StuckInPipeline, StepInv
  <2>5. SentIsString' /\ PipeKept'
    BY <1>1, <1>5 DEF SentIsString, PipeKept
  <2>6. StringKept'
    BY <1>1, <1>5, <2>1, <2>2 DEF StringKept, Working
  <2> QED
    BY <1>3, <2>3, <2>4, <2>5, <2>6
<1> QED
  BY <1>4, <1>5

(* Outside an aborted pipeline the first poll of a call that is not stale   *)
(* finds a result, or an error; that of a multi-read also when its list is  *)
(* not used up and something is left in the chain.                          *)
LEMMA SomethingToDecode ==
    ASSUME PgConnInv, PollTakes, step = "ok", kind # "pipeline", ~pipelineMode, ~stale
    PROVE  /\ kind = "multi" =>
                 IF chain = <<>> THEN Polled.what = "end" /\ inbox = <<>>
                 ELSE Polled.what \in {"result", "error"} /\ Polled = chain[1]
           /\ kind # "multi" => /\ Polled.what \in {"result", "error"} /\ chain = <<>> /\ inbox # <<>> /\ Polled = inbox[1]
                                /\ Left >= 2
<1> USE DEF PgConnInv
<1>1. /\ EndIsLast /\ ErrorIsLast /\ step \in Working
      /\ Len(sent) \in Nat /\ Len(inbox) \in Nat /\ Len(chain) \in Nat /\ Len(got) \in Nat
      /\ n \in Nat /\ n >= 1
  BY BoundsAreNat DEF StringKept, Working, TypeOK
<1>2. CASE kind = "multi"
  <2>1. LibpqIdle
    BY <1>2 DEF StringKept, Working
  <2> QED
    BY <1>1, <1>2, <2>1, PollFacts DEF LibpqIdle
<1>3. CASE kind # "multi"
  <2>1. inbox # <<>> /\ Complete(n + 1) /\ chain = <<>> /\ got = <<>>
    BY <1>3 DEF StringKept, RestInv, GotInv, Working
  <2>2. Polled = inbox[1] /\ 1 \in 1..Len(inbox)
    BY <1>1, <2>1, PollFacts DEF TypeOK
  <2>3. Left >= 2
    <3>1. CASE job \in failed
      BY <1>1, <2>1, <3>1 DEF ErrorIsLast
    <3>2. CASE job \notin failed
      <4>1. Len(got) = 0 /\ Len(chain) = 0 /\ Left \in Nat
        BY <1>1, <2>1 DEF Left
      <4>2. Len(got) + Len(chain) + Left = n + 1
        BY <2>1, <3>2 DEF Complete, Total
      <4> QED
        BY <1>1, <4>1, <4>2
    <3> QED
      BY <3>1, <3>2
  <2> QED
    BY <1>1, <1>3, <2>1, <2>2, <2>3 DEF EndIsLast
<1> QED
  BY <1>2, <1>3

LEMMA DecodeKeeps == ASSUME PgConnInv, Decode PROVE PgConnInv'
<1> USE DEF PgConnInv
<1>1. /\ step = "ok" /\ step \in Working /\ kind # "pipeline" /\ PollTakes
      /\ job \in Jobs /\ lessee # NoTask /\ report # "returned"
      /\ UNCHANGED <<lessee, kind, n, reads, job, stale, sent, pipelineMode, dead, remaining,
                     failed, suspect>>
      /\ got \in Seq(Jobs)
      /\ n \in Nat /\ n >= 1 /\ reads \in Nat /\ reads >= 1
  BY BoundsAreNat DEF Decode, callVars, Working, StepInv, ReportInv, TypeOK
<1>2. \/ Polled.what = "end" /\ step' = "idle" /\ report' = "returned" /\ got' = got
      \/ Polled.what = "error" /\ step' = "restThenThrow" /\ report' = report /\ got' = got
      \/ /\ Polled.what \notin {"end", "error"} /\ got' = Append(got, Polled.of)
         /\ \/ kind # "multi" /\ step' = "rest" /\ report' = report
            \/ kind = "multi" /\ Len(got') = reads /\ step' = "idle" /\ report' = "returned"
            \/ kind = "multi" /\ Len(got') # reads /\ step' = step /\ report' = report
  BY DEF Decode, IsError, Finish
<1>3. /\ chain' \in Seq(Results) /\ inbox' \in Seq(Answers) /\ fresh' \in 0..Len(inbox')
      /\ chain = <<>> => chain' = <<>>
      /\ Polled.what # "end" => Polled.of \in Jobs
  BY <1>1, PollFacts
<1>4. Polled.what # "end" =>
         /\ Append(got, Polled.of) \in Seq(Jobs)
         /\ Len(Append(got, Polled.of)) = Len(got) + 1
         /\ \A i \in 1..Len(got) : Append(got, Polled.of)[i] = got[i]
         /\ Append(got, Polled.of)[Len(got) + 1] = Polled.of
  BY <1>1, <1>3, AppendFacts
<1>5. TypeOK'
  BY <1>1, <1>2, <1>3, <1>4 DEF TypeOK, Results, Answers, Steps
<1>6. CASE pipelineMode
  <2>1. suspect /\ kind = "params" /\ (~stale => chain' = <<>>)
    BY <1>1, <1>3, <1>6 DEF StepInv, RestInv, TypeOK, AllKinds
  <2>2. /\ step' \in {"idle", "restThenThrow", "rest"} /\ StuckInPipeline'
        /\ report' = "returned" => step' = "idle"
    BY <1>1, <1>2, <1>6, <2>1 DEF StuckInPipeline
  <2>3. StepInv' /\ RestInv' /\ GotInv' /\ ReportInv' /\ AgeInv'
    BY <1>1, <1>6, <2>1, <2>2
       DEF StepInv, RestInv, GotInv, ReportInv, AgeInv, StuckInPipeline, Working
  <2>4. SentIsString' /\ PipeKept' /\ StringKept'
    BY <1>1, <1>6, <2>1 DEF SentIsString, PipeKept, StringKept
  <2> QED
    BY <1>5, <2>3, <2>4
<1>7. CASE ~pipelineMode
  <2>1. /\ Own' /\ EndIsLast' /\ Left \in Nat
        /\ chain # <<>> => Left' = Left
        /\ chain = <<>> /\ inbox # <<>> => Left' = Left - 1
        /\ LibpqIdle => LibpqIdle'
        /\ Polled.what = "end" => chain' = <<>> /\ LibpqIdle'
        /\ Polled.what # "end" /\ ~stale => Polled.of = job
    BY <1>1, <1>7, PollKeepsString
  <2>2. AgeInv' /\ SentIsString' /\ PipeKept'
    BY <1>1, <1>2, <1>7 DEF AgeInv, SentIsString, PipeKept
  <2>3. ~stale => ResultIsOwn'
    <3> SUFFICES ASSUME ~stale PROVE ResultIsOwn'
      OBVIOUS
    <3>1. \A i \in 1..Len(got) : got[i] = job
      BY <1>1, <1>7 DEF GotInv, StuckInPipeline, ResultIsOwn
    <3>2. \A i \in 1..Len(got') : got'[i] = job
      BY <1>1, <1>2, <1>4, <2>1, <3>1
    <3>3. DOMAIN got' = 1..Len(got')
      BY <1>5 DEF TypeOK
    <3> QED
      BY <1>1, <3>2, <3>3 DEF ResultIsOwn
  <2>4. CASE stale
    <3>1. /\ kind \in {"simple", "params"} /\ stale'
          /\ step' \in {"idle", "restThenThrow", "rest"}
          /\ step' = "idle" <=> Polled.what = "end"
          /\ report' = "returned" => Polled.what = "end"
      BY <1>1, <1>2, <2>4 DEF RestInv, TypeOK, AllKinds
    <3>2. StepInv' /\ RestInv' /\ GotInv' /\ ReportInv'
      BY <1>1, <1>7, <2>1, <2>4, <3>1
         DEF StepInv, RestInv, GotInv, ReportInv, MustSucceed, Working, StuckInPipeline
    <3>3. StringKept'
      BY <1>1, <1>7, <2>1, <2>4, <3>1 DEF StringKept, Working
    <3> QED
      BY <1>5, <2>2, <3>2, <3>3
  <2>5. CASE ~stale /\ kind # "multi"
    <3>1. /\ Polled.what \in {"result", "error"} /\ chain = <<>> /\ chain' = <<>>
          /\ inbox # <<>> /\ Polled = inbox[1] /\ Left >= 2
          /\ ErrorIsLast /\ Complete(n + 1) /\ got = <<>>
      BY <1>1, <1>3, <1>7, <2>5, SomethingToDecode DEF StringKept, GotInv
    <3>2. CASE Polled.what = "error"
      <4>1. step' = "restThenThrow" /\ report' = report /\ got' = got
        BY <1>2, <3>2
      <4>2. StepInv' /\ RestInv' /\ GotInv' /\ ReportInv'
        BY <1>1, <1>7, <2>3, <2>5, <3>1, <4>1
           DEF StepInv, RestInv, GotInv, ReportInv, Working, StuckInPipeline
      <4>3. StringKept'
        BY <1>1, <1>7, <2>1, <2>5, <4>1 DEF StringKept, Working
      <4> QED
        BY <1>5, <2>2, <4>2, <4>3
    <3>3. CASE Polled.what = "result"
      <4>1. step' = "rest" /\ report' = report
        BY <1>2, <2>5, <3>3
      <4>2. StepInv' /\ RestInv' /\ GotInv' /\ ReportInv'
        BY <1>1, <1>7, <2>3, <2>5, <3>1, <4>1
           DEF StepInv, RestInv, GotInv, ReportInv, Working, StuckInPipeline, TypeOK,
               AllKinds
      <4>3. n = 1 => job \notin failed /\ Left' = 1
        BY <1>1, <2>1, <3>1, <3>3 DEF ErrorIsLast, Complete, Total
      <4>4. StringKept'
        BY <1>1, <1>7, <2>1, <2>5, <4>1, <4>3 DEF StringKept, Working
      <4> QED
        BY <1>5, <2>2, <4>2, <4>4
    <3> QED
      BY <3>1, <3>2, <3>3
  <2>6. CASE ~stale /\ kind = "multi"
    <3>1. /\ ErrorIsLast /\ LibpqIdle /\ LibpqIdle' /\ Complete(n) /\ Len(got) < reads
          /\ Left = 0 /\ Left' = 0 /\ inbox = <<>> /\ inbox' = <<>>
          /\ Len(got) \in Nat /\ Len(chain) \in Nat
      <4>1. ErrorIsLast /\ LibpqIdle /\ Complete(n) /\ Len(got) < reads
        BY <1>1, <1>7, <2>6 DEF StringKept
      <4>2. Len(got) \in Nat /\ Len(chain) \in Nat
        BY DEF TypeOK
      <4> QED
        BY <1>1, <2>1, <4>1, <4>2 DEF LibpqIdle, Left
    <3>2. job \in failed <=> \E i \in 1..Len(chain) : chain[i].what = "error"
      BY <3>1 DEF ErrorIsLast
    <3>3. CASE chain = <<>>
      <4>1. Polled.what = "end"
        BY <1>1, <1>7, <2>6, <3>3, SomethingToDecode
      <4>2. step' = "idle" /\ report' = "returned" /\ got' = got /\ chain' = <<>>
        BY <1>2, <1>3, <3>3, <4>1
      <4>3. job \notin failed /\ Len(got) = n
        <5>1. job \notin failed
          BY <3>2, <3>3
        <5> QED
          BY <1>1, <3>1, <3>3, <5>1 DEF Complete, Total
      <4>4. StepInv' /\ RestInv' /\ GotInv' /\ ReportInv' /\ StringKept'
        BY <1>1, <1>7, <2>3, <2>6, <3>1, <4>2, <4>3
           DEF StepInv, RestInv, GotInv, ReportInv, MustSucceed, StringKept, Working,
               StuckInPipeline
      <4> QED
        BY <1>5, <2>2, <4>4
    <3>4. CASE chain # <<>> /\ Polled.what = "error"
      <4>1. step' = "restThenThrow" /\ report' = report /\ got' = got
        BY <1>2, <3>4
      <4>2. StepInv' /\ RestInv' /\ GotInv' /\ ReportInv'
        BY <1>1, <1>7, <2>3, <2>6, <4>1
           DEF StepInv, RestInv, GotInv, ReportInv, Working, StuckInPipeline
      <4>3. StringKept'
        BY <1>1, <1>7, <2>1, <2>6, <3>1, <4>1 DEF StringKept, Working
      <4> QED
        BY <1>5, <2>2, <4>2, <4>3
    <3>5. CASE chain # <<>> /\ Polled.what # "error"
      <4>1. Polled.what = "result" /\ Polled = chain[1]
        BY <1>1, <1>7, <2>6, <3>5, SomethingToDecode
      <4>2. /\ Len(chain') = Len(chain) - 1
            /\ \A i \in 1..Len(chain') :
                  i + 1 \in 1..Len(chain) /\ chain'[i] = chain[i + 1]
        BY <1>1, <3>5, PollFacts
      <4>3. /\ Len(chain) \in Nat /\ Len(chain) >= 1 /\ Len(chain') \in Nat
            /\ Len(got') = Len(got) + 1
        BY <1>2, <1>3, <1>4, <3>1, <3>5, <4>1, <4>2 DEF TypeOK
      <4>4. (\E i \in 1..Len(chain) : chain[i].what = "error")
            <=> \E i \in 1..Len(chain') : chain'[i].what = "error"
        <5>1. \A i \in 1..Len(chain) :
                 i = 1 \/ (i - 1 \in 1..Len(chain') /\ chain'[i - 1] = chain[i])
          BY <4>2, <4>3
        <5> QED
          BY <4>1, <4>2, <5>1
      <4>5. Complete(n)'
        <5>1. Total' = Total
          BY <3>1, <4>2, <4>3 DEF Total
        <5> QED
          BY <1>1, <3>1, <5>1 DEF Complete
      <4>6. ErrorIsLast'
        <5>1. \A i \in 1..Len(chain') : chain'[i].what = "error" => i = Len(chain')
          <6>1. \A i \in 1..Len(chain) : chain[i].what = "error" => i = Len(chain)
            BY <3>1 DEF ErrorIsLast
          <6>2. \A i \in 1..Len(chain') :
                   /\ i + 1 \in 1..Len(chain) /\ chain'[i] = chain[i + 1]
                   /\ i + 1 = Len(chain) => i = Len(chain')
            BY <4>2, <4>3
          <6> QED
            BY <6>1, <6>2
        <5> QED
          BY <1>1, <3>1, <3>2, <4>4, <5>1 DEF ErrorIsLast
      <4>7. CASE Len(got') = reads
        <5>1. step' = "idle" /\ report' = "returned"
          BY <1>2, <2>6, <4>1, <4>7
        <5>2. /\ reads <= n
              /\ n <= reads => job \notin failed
          <6>1. Len(got') + Len(chain') <= n
            BY <3>1, <4>2, <4>3 DEF Complete, Total
          <6>2. reads <= n /\ (n <= reads => Len(chain') = 0)
            BY <1>1, <4>3, <4>7, <6>1
          <6> QED
            BY <3>2, <4>3, <4>4, <6>2
        <5>3. StepInv' /\ RestInv' /\ GotInv' /\ ReportInv' /\ StringKept'
          BY <1>1, <1>7, <2>3, <2>6, <3>1, <4>7, <5>1, <5>2
             DEF StepInv, RestInv, GotInv, ReportInv, MustSucceed, StringKept, Working,
                 StuckInPipeline
        <5> QED
          BY <1>5, <2>2, <5>3
      <4>8. CASE Len(got') # reads
        <5>1. step' = "ok" /\ report' = report
          BY <1>1, <1>2, <2>6, <4>1, <4>8
        <5>2. Len(got') < reads
          BY <1>1, <3>1, <4>3, <4>8
        <5>3. StepInv' /\ RestInv' /\ GotInv' /\ ReportInv'
          BY <1>1, <1>7, <2>3, <2>6, <5>1
             DEF StepInv, RestInv, GotInv, ReportInv, Working, StuckInPipeline
        <5>4. StringKept'
          BY <1>1, <1>7, <2>1, <2>6, <3>1, <4>5, <4>6, <5>1, <5>2 DEF StringKept, Working
        <5> QED
          BY <1>5, <2>2, <5>3, <5>4
      <4> QED
        BY <4>7, <4>8
    <3> QED
      BY <3>3, <3>4, <3>5
  <2> QED
    BY <2>4, <2>5, <2>6
<1> QED
  BY <1>6, <1>7

-------------------------------------------------------------------------------
(* The server. *)
Commanded == [of : Jobs, what : {"stmt", "skip", "end", "sync"}]

(* What ServerStep does to the two queues: one item moves, and an error     *)
(* drops, or skips, statements behind it.                                   *)
Moves(what) ==
    /\ inbox' = Append(inbox, [sent[1] EXCEPT !.what = what])
    /\ inbox' \in Seq(Answers) /\ Len(inbox') = Len(inbox) + 1
    /\ \A i \in 1..Len(inbox) : inbox'[i] = inbox[i]
    /\ inbox'[Len(inbox')].of = sent[1].of /\ inbox'[Len(inbox')].what = what
    /\ fresh' \in 0..Len(inbox')

LEMMA ServerFacts ==
    ASSUME TypeOK, SentIsString, ServerStep
    PROVE  /\ sent # <<>> /\ sent[1] \in Commanded /\ sent' \in Seq(Commanded)
           /\ UNCHANGED <<lessee, step, kind, n, reads, job, stale, pipelineMode, dead, remaining,
                          chain, got, report, suspect>>
           /\ \/ /\ sent[1].what = "stmt" /\ Moves("result") /\ failed' = failed
                 /\ Len(sent') = Len(sent) - 1
                 /\ \A i \in 1..Len(sent') : sent'[i] = sent[i + 1]
              \/ /\ sent[1].what = "stmt" /\ Moves("error") /\ pipelineMode
                 /\ failed' = failed \cup {sent[1].of}
                 /\ Len(sent') = Len(sent) - 1
                 /\ \A i \in 1..Len(sent') :
                       /\ sent'[i].of = sent[i + 1].of
                       /\ sent'[i].what = "end" <=> sent[i + 1].what = "end"
              \/ /\ sent[1].what = "stmt" /\ Moves("error") /\ ~pipelineMode
                 /\ failed' = failed \cup {sent[1].of}
                 /\ Len(sent) > 1
                 /\ Len(sent') = 1 /\ sent'[1] = sent[Len(sent)]
              \/ /\ sent[1].what # "stmt" /\ failed' = failed
                 /\ Moves(IF sent[1].what = "skip" THEN "skipped" ELSE sent[1].what)
                 /\ Len(sent') = Len(sent) - 1
                 /\ \A i \in 1..Len(sent') : sent'[i] = sent[i + 1]
<1> DEFINE x == sent[1]
           t == Tail(sent)
<1>1. sent \in Seq(Commanded) /\ inbox \in Seq(Answers) /\ sent # <<>>
  BY DEF TypeOK, Commanded, Answers, ServerStep
<1>2. /\ Len(sent) \in Nat /\ Len(sent) >= 1 /\ Head(sent) = x /\ x \in Commanded
      /\ t \in Seq(Commanded) /\ Len(t) = Len(sent) - 1
      /\ \A i \in 1..(Len(sent) - 1) : t[i] = sent[i + 1] /\ i + 1 \in 1..Len(sent)
  BY <1>1, TailFacts
<1>3. ASSUME NEW what \in {"result", "error", "skipped", "end", "sync"}, Arrives(x, what)
      PROVE  Moves(what)
  <2> DEFINE y == [x EXCEPT !.what = what]
  <2>1. y \in Answers /\ y.of = x.of /\ y.what = what
    BY <1>2 DEF Commanded, Answers
  <2>2. inbox' = Append(inbox, y)
    BY <1>3 DEF Arrives
  <2>0. fresh' \in {0, fresh + 1} /\ fresh \in 0..Len(inbox)
    BY <1>3 DEF Arrives, TypeOK
  <2> HIDE DEF y
  <2>3. /\ inbox' \in Seq(Answers) /\ Len(inbox') = Len(inbox) + 1
        /\ \A i \in 1..Len(inbox) : inbox'[i] = inbox[i]
        /\ inbox'[Len(inbox) + 1] = y
        /\ Len(inbox) \in Nat
    BY <1>1, <2>1, <2>2, AppendFacts
  <2>4. fresh' \in 0..Len(inbox')
    BY <2>0, <2>3
  <2> QED
    BY <2>1, <2>2, <2>3, <2>4 DEF Moves, y
<1>4. UNCHANGED <<lessee, step, kind, n, reads, job, stale, pipelineMode, dead, remaining,
                  chain, got, report, suspect>>
  BY DEF ServerStep, callVars
<1>5. CASE x.what = "stmt" /\ Arrives(x, "result") /\ sent' = t /\ failed' = failed
  BY <1>1, <1>2, <1>3, <1>4, <1>5
<1>6. CASE /\ x.what = "stmt" /\ Arrives(x, "error") /\ sent' = AfterError(t)
           /\ failed' = failed \cup {x.of}
  <2>1. CASE pipelineMode
    <3>1. sent' = [i \in DOMAIN t |->
                     IF t[i].what = "stmt" /\ \A k \in 1..i : t[k].what # "sync"
                     THEN [t[i] EXCEPT !.what = "skip"] ELSE t[i]]
      BY <1>6, <2>1 DEF AfterError
    <3>2. DOMAIN t = 1..Len(t) /\ Len(t) \in Nat /\ \A i \in 1..Len(t) : t[i] \in Commanded
      BY <1>2
    <3>3. \A y \in Commanded : /\ [y EXCEPT !.what = "skip"] \in Commanded
                               /\ [y EXCEPT !.what = "skip"].of = y.of
                               /\ [y EXCEPT !.what = "skip"].what = "skip"
      BY DEF Commanded
    <3> HIDE DEF t
    <3>4. /\ DOMAIN sent' = 1..Len(t)
          /\ \A i \in 1..Len(t) :
                /\ sent'[i] \in Commanded /\ sent'[i].of = t[i].of
                /\ sent'[i].what = "end" <=> t[i].what = "end"
      BY <3>1, <3>2, <3>3
    <3>5. sent' \in Seq(Commanded) /\ Len(sent') = Len(t)
      BY <3>1, <3>2, <3>4
    <3> QED
      BY <1>1, <1>2, <1>3, <1>4, <1>6, <2>1, <3>4, <3>5
  <2>2. CASE ~pipelineMode
    <3>1. Len(sent) > 1
      <4>1. 1 \in 1..Len(sent) /\ sent[1].what # "end"
        BY <1>2, <1>6
      <4>2. 1 # Len(sent)
        BY <2>2, <4>1 DEF SentIsString
      <4> QED
        BY <1>2, <4>2
    <3>2. sent' = <<t[Len(t)]>> /\ t[Len(t)] = sent[Len(sent)]
      BY <1>2, <1>6, <2>2, <3>1 DEF AfterError, Last
    <3>3. sent[Len(sent)] \in Commanded
      BY <1>1, <1>2
    <3>4. sent' \in Seq(Commanded) /\ Len(sent') = 1 /\ sent'[1] = sent[Len(sent)]
      <4>1. \A y \in Commanded :
               <<y>> \in Seq(Commanded) /\ Len(<<y>>) = 1 /\ <<y>>[1] = y
        OBVIOUS
      <4>2. sent' = <<sent[Len(sent)]>>
        BY <3>2
      <4> HIDE DEF t
      <4> QED
        BY <3>3, <4>1, <4>2
    <3> QED
      BY <1>1, <1>2, <1>3, <1>4, <1>6, <2>2, <3>1, <3>4
  <2> QED
    BY <2>1, <2>2
<1>7. CASE /\ x.what # "stmt" /\ Arrives(x, IF x.what = "skip" THEN "skipped" ELSE x.what)
           /\ sent' = t /\ failed' = failed
  <2>1. (IF x.what = "skip" THEN "skipped" ELSE x.what) \in {"skipped", "end", "sync"}
    BY <1>2, <1>7 DEF Commanded
  <2> QED
    BY <1>1, <1>2, <1>3, <1>4, <1>7, <2>1
<1> QED
  BY <1>2, <1>5, <1>6, <1>7 DEF ServerStep

LEMMA ServerStepKeeps == ASSUME PgConnInv, ServerStep PROVE PgConnInv'
<1> USE DEF PgConnInv
<1> DEFINE x == sent[1]
<1>1. /\ sent # <<>> /\ x \in Commanded /\ sent' \in Seq(Commanded)
      /\ UNCHANGED <<lessee, step, kind, n, reads, job, stale, pipelineMode, dead, remaining,
                     chain, got, report, suspect>>
      /\ ~LibpqIdle
  BY ServerFacts DEF LibpqIdle
<1>2. /\ sent \in Seq(Commanded) /\ inbox \in Seq(Answers)
      /\ Len(sent) \in Nat /\ Len(sent) >= 1 /\ Len(inbox) \in Nat /\ 1 \in 1..Len(sent)
      /\ Len(chain) \in Nat /\ Len(got) \in Nat
      /\ \A i \in 1..Len(sent) : sent[i].of \in Nat
  <2>1. sent \in Seq(Commanded) /\ inbox \in Seq(Answers)
    BY DEF TypeOK, Commanded, Answers
  <2>2. \A y \in Commanded : y.of \in Nat
    BY DEF Commanded, Jobs
  <2>3. Len(chain) \in Nat /\ Len(got) \in Nat
    BY DEF TypeOK
  <2> QED
    BY <1>1, <2>1, <2>2, <2>3
<1>3. \/ Moves("result") \/ Moves("error")
      \/ Moves(IF x.what = "skip" THEN "skipped" ELSE x.what)
  BY ServerFacts
<1>4. /\ inbox' \in Seq(Answers) /\ Len(inbox') = Len(inbox) + 1
      /\ \A i \in 1..Len(inbox) : inbox'[i] = inbox[i]
      /\ inbox'[Len(inbox')].of = x.of
      /\ \A i \in 1..Len(inbox') : i \in 1..Len(inbox) \/ i = Len(inbox')
      /\ fresh' \in 0..Len(inbox')
  BY <1>2, <1>3 DEF Moves
<1>5. failed' \in {failed, failed \cup {x.of}}
  BY ServerFacts
<1>6. \A i \in 1..Len(sent') : \E k \in 1..Len(sent) : sent'[i].of = sent[k].of
  <2>1. CASE Len(sent') = Len(sent) - 1 /\ \A i \in 1..Len(sent') : sent'[i].of = sent[i + 1].of
    <3>1. \A i \in 1..Len(sent') : i + 1 \in 1..Len(sent)
      BY <1>2, <2>1
    <3> QED
      BY <2>1, <3>1
  <2>2. CASE Len(sent') = 1 /\ sent'[1] = sent[Len(sent)]
    BY <1>2, <2>2
  <2> QED
    BY <2>1, <2>2, ServerFacts
<1>7. TypeOK'
  <2>1. x.of \in Jobs
    BY <1>1 DEF Commanded
  <2> QED
    BY <1>1, <1>4, <1>5, <2>1 DEF TypeOK, Commanded, Answers
<1>8. StepInv' /\ RestInv' /\ GotInv' /\ ReportInv'
  BY <1>1 DEF StepInv, RestInv, GotInv, ReportInv, StuckInPipeline, MustSucceed, ResultIsOwn
<1>9. AgeInv'
  <2>1. x.of \in Nat /\ (\A i \in 1..Len(sent) : sent[i].of <= job)
        /\ (step = "submitted" => \A i \in 1..Len(sent) : sent[i].of < job)
    BY <1>2 DEF AgeInv
  <2>2. x.of <= job /\ (step = "submitted" => x.of < job)
    BY <1>2, <2>1
  <2>3. \A j \in failed' : j \in failed \/ j = x.of
    BY <1>5
  <2>4. /\ \A j \in failed' : j <= job
        /\ step = "submitted" => job \notin failed'
    BY <2>1, <2>2, <2>3 DEF AgeInv, TypeOK
  <2>5. /\ \A i \in 1..Len(sent') : sent'[i].of <= job
        /\ step = "submitted" => \A i \in 1..Len(sent') : sent'[i].of < job
    BY <1>6, <2>1
  <2> QED
    BY <1>1, <2>4, <2>5 DEF AgeInv
<1>10. CASE pipelineMode
  <2>1. SentIsString' /\ StringKept'
    BY <1>1, <1>10 DEF SentIsString, StringKept
  <2>2. PipeKept'
    <3> SUFFICES ASSUME step = "running", kind = "pipeline", ~suspect
                 PROVE  /\ remaining = (Left' + 1) \div 2
                        /\ \A i \in 1..Len(inbox') :
                              inbox'[i].what = "end" <=> (Left' - i) % 2 = 1
                        /\ \A i \in 1..Len(sent') :
                              sent'[i].what = "end" <=> (Len(sent') - i) % 2 = 1
      BY <1>1 DEF PipeKept
    <3>1. /\ remaining = (Left + 1) \div 2
          /\ \A i \in 1..Len(inbox) : inbox[i].what = "end" <=> (Left - i) % 2 = 1
          /\ \A i \in 1..Len(sent) : sent[i].what = "end" <=> (Len(sent) - i) % 2 = 1
      BY DEF PipeKept
    <3>2. /\ Len(sent') = Len(sent) - 1
          /\ \A i \in 1..Len(sent') : sent'[i].what = "end" <=> sent[i + 1].what = "end"
          /\ inbox'[Len(inbox')].what = "end" <=> x.what = "end"
      BY <1>10, ServerFacts DEF Moves
    <3>3. Left' = Left
      BY <1>2, <1>4, <3>2 DEF Left
    <3>4. x.what = "end" <=> (Left' - Len(inbox')) % 2 = 1
      BY <1>2, <1>4, <3>1, <3>2 DEF Left
    <3>5. \A i \in 1..Len(inbox') : inbox'[i].what = "end" <=> (Left' - i) % 2 = 1
      BY <1>4, <3>1, <3>2, <3>3, <3>4
    <3>6. \A i \in 1..Len(sent') :
             i + 1 \in 1..Len(sent) /\ Len(sent) - (i + 1) = Len(sent') - i
      BY <1>2, <3>2
    <3>7. \A i \in 1..Len(sent') :
             sent'[i].what = "end" <=> (Len(sent') - i) % 2 = 1
      BY <3>1, <3>2, <3>6
    <3> QED
      BY <3>1, <3>3, <3>5, <3>7
  <2> QED
    BY <1>7, <1>8, <1>9, <2>1, <2>2
<1>11. CASE ~pipelineMode
  <2>1. /\ \A i \in 1..Len(sent) : sent[i].what = IF i = Len(sent) THEN "end" ELSE "stmt"
        /\ x.what = IF Len(sent) = 1 THEN "end" ELSE "stmt"
    BY <1>2, <1>11 DEF SentIsString
  <2>2. SentIsString'
    <3>1. CASE Len(sent') = Len(sent) - 1 /\ \A i \in 1..Len(sent') : sent'[i] = sent[i + 1]
      <4>1. \A i \in 1..Len(sent') :
               i + 1 \in 1..Len(sent) /\ (i = Len(sent') <=> i + 1 = Len(sent))
        BY <1>2, <3>1
      <4> QED
        BY <2>1, <3>1, <4>1 DEF SentIsString
    <3>2. CASE Len(sent') = 1 /\ sent'[1] = sent[Len(sent)]
      BY <1>2, <2>1, <3>2 DEF SentIsString
    <3> QED
      BY <1>11, <3>1, <3>2, ServerFacts
  <2>3. PipeKept'
    BY <1>1, <1>11 DEF PipeKept, StepInv
  <2>4. StringKept'
    <3> SUFFICES ASSUME step \in Working, kind # "pipeline"
                 PROVE  StringKept'
      BY <1>1 DEF StringKept
    <3>1. /\ Own /\ EndIsLast /\ Left \in Nat /\ Left >= Len(inbox) + 1
          /\ Left = Len(inbox) + Len(sent)
      BY <1>2, <1>11 DEF StringKept, Left
    <3>2. Own'
      BY <1>1, <1>2, <1>4, <1>6, <3>1 DEF Own
    <3>3. CASE /\ Len(sent') = Len(sent) - 1 /\ failed' = failed
               /\ inbox'[Len(inbox')].what = IF Len(sent) = 1 THEN "end" ELSE "result"
      <4>1. Left' = Left /\ (Left = Len(inbox') <=> Len(sent) = 1)
        BY <1>2, <1>4, <3>1, <3>3 DEF Left
      <4>2. EndIsLast'
        BY <1>2, <1>4, <3>1, <3>3, <4>1, SMTT(60) DEF EndIsLast
      <4>3. ErrorIsLast => ErrorIsLast'
        <5> SUFFICES ASSUME ErrorIsLast PROVE ErrorIsLast'
          OBVIOUS
        <5>1. inbox'[Len(inbox')].what # "error"
          BY <3>3
        <5>2. \A i \in 1..Len(inbox') :
                 inbox'[i].what = "error" => i \in 1..Len(inbox) /\ inbox'[i] = inbox[i]
          BY <1>4, <5>1
        <5>3. \A i \in 1..Len(inbox') : inbox'[i].what = "error" => Left' = i + 1
          BY <4>1, <5>2 DEF ErrorIsLast
        <5>4. (\E i \in 1..Len(inbox') : inbox'[i].what = "error")
              <=> \E i \in 1..Len(inbox) : inbox[i].what = "error"
          <6>1. 1..Len(inbox) \subseteq 1..Len(inbox')
            BY <1>2, <1>4
          <6> QED
            BY <1>4, <5>2, <6>1
        <5>5. \A i \in 1..Len(chain') :
                 chain'[i].what = "error" => i = Len(chain') /\ Left' <= 1
          BY <1>1, <4>1 DEF ErrorIsLast
        <5> QED
          BY <1>1, <3>3, <5>3, <5>4, <5>5 DEF ErrorIsLast
      <4>4. Total' = Total /\ inbox' # <<>>
        BY <1>1, <1>2, <1>4, <4>1 DEF Total
      <4> QED
        BY <1>1, <1>11, <3>2, <3>3, <4>1, <4>2, <4>3, <4>4
           DEF StringKept, Complete
    <3>4. CASE /\ Len(sent) > 1 /\ Len(sent') = 1 /\ failed' = failed \cup {x.of}
               /\ inbox'[Len(inbox')].what = "error"
      <4>1. /\ Left' = Len(inbox') + 1 /\ Left' <= Left /\ Left >= 2 /\ job \in failed'
            /\ Left > Len(inbox) + 1
        BY <1>2, <1>4, <3>1, <3>4 DEF Left, Own
      <4>2. EndIsLast'
        BY <1>2, <1>4, <3>1, <3>4, <4>1, SMTT(60) DEF EndIsLast
      <4>3. ErrorIsLast => ErrorIsLast'
        <5> SUFFICES ASSUME ErrorIsLast PROVE ErrorIsLast'
          OBVIOUS
        <5>1. /\ \A i \in 1..Len(chain) : chain[i].what # "error"
              /\ \A i \in 1..Len(inbox) : inbox[i].what # "error"
          BY <1>2, <3>1, <4>1, SMTT(60) DEF ErrorIsLast
        <5>2. Len(inbox') \in 1..Len(inbox')
          BY <1>2, <1>4
        <5> QED
          BY <1>1, <1>4, <3>4, <4>1, <5>1, <5>2 DEF ErrorIsLast
      <4>4. Total' <= Total /\ inbox' # <<>> /\ Total \in Nat /\ Total' \in Nat
        <5>1. Left' \in Nat /\ chain' = chain /\ got' = got
          BY <1>1, <1>2, <1>4, <4>1
        <5>2. Total' <= Total /\ Total \in Nat /\ Total' \in Nat
          BY <1>2, <3>1, <4>1, <5>1 DEF Total
        <5>3. inbox' # <<>>
          BY <1>2, <1>4
        <5> QED
          BY <5>2, <5>3
      <4>5. \A k \in Nat : Complete(k) => (Total' <= k)
        BY <4>4 DEF Complete
      <4>6. n \in Nat
        BY BoundsAreNat DEF TypeOK
      <4>7. step = "rest" /\ ~stale => n # 1
        BY <1>11, <4>1 DEF StringKept
      <4> QED
        BY <1>1, <1>11, <3>2, <3>4, <4>1, <4>2, <4>3, <4>4, <4>5, <4>6, <4>7
           DEF StringKept, Complete
    <3> QED
      BY <1>11, <2>1, <3>3, <3>4, ServerFacts DEF Moves
  <2> QED
    BY <1>7, <1>8, <1>9, <2>2, <2>3, <2>4
<1> QED
  BY <1>10, <1>11

-------------------------------------------------------------------------------
LEMMA StepKeeps == PgConnInv /\ [Next]_vars => PgConnInv'
<1> SUFFICES ASSUME PgConnInv, [Next]_vars PROVE PgConnInv'
  OBVIOUS
<1>1. CASE Next
  BY <1>1, LeaseKeeps, ReleaseKeeps, SubmitKeeps, SendKeeps, RunSingleKeeps,
     RunMultiReadKeeps, RunPipelineKeeps, ThrowKeeps, PipelineReturnsKeeps, DecodeKeeps,
     DrainRemainingKeeps, AbortKeeps, ServerStepKeeps DEF Next, Call
<1>2. CASE UNCHANGED vars
  BY <1>2
     DEF vars, PgConnInv, TypeOK, StepInv, AgeInv, RestInv, GotInv, ReportInv,
         SentIsString, PipeKept, StringKept, Own, EndIsLast, ErrorIsLast, Left, Total,
         Complete, LibpqIdle, ResultIsOwn, MustSucceed, StuckInPipeline
<1> QED
  BY <1>1, <1>2

(* The invariant holds in every reachable state, whatever is refused, given *)
(* up or left unread.                                                       *)
THEOREM ConnInvariance == Spec => []PgConnInv
<1>1. PgConnInv /\ [Next]_vars => PgConnInv'
  BY StepKeeps
<1> QED
  BY <1>1, InitGood, PTL DEF Spec

(* Until a statement is aborted on the connection, the executor decodes for *)
(* a call the results of this call, unless the call found results of an     *)
(* earlier multi-read of its lease in the chain (_drainResults,             *)
(* poll_result): pipelines, refused statements and other lessees leave it   *)
(* nothing to mistake for its own.                                          *)
THEOREM ConnResultIsOwn == Spec => []ResultIsOwnUnlessSuspect
<1>1. PgConnInv => ResultIsOwnUnlessSuspect
  BY DEF PgConnInv, GotInv, StuckInPipeline, MustSucceed, ResultIsOwnUnlessSuspect
<1> QED
  BY <1>1, ConnInvariance, PTL

(* A connection in the pool has nothing unread, is out of pipeline mode and *)
(* keeps no result chain, until a statement is aborted on it: pool_release  *)
(* does not look at libpq and need not.                                     *)
THEOREM ConnCleanOnReacquire == Spec => []CleanOnReacquire
<1>1. PgConnInv => CleanOnReacquire
  BY DEF PgConnInv, StepInv, RestInv, CleanOnReacquire
<1> QED
  BY <1>1, ConnInvariance, PTL

(* A call that returns was run to its end and read to its end, with a       *)
(* result per entry of a multi-read or per result if there are fewer, and   *)
(* no statement of it was refused, if it is a single one that found no      *)
(* chain or a multi-read no longer than its list; on an aborted connection  *)
(* too, unless it is stuck in a pipeline.                                   *)
THEOREM ConnReturnedMeansRun == Spec => []ReturnedMeansRun
<1>1. PgConnInv => ReturnedMeansRun
  <2> SUFFICES ASSUME PgConnInv, report = "returned", ~StuckInPipeline
               PROVE  /\ \A i \in DOMAIN (sent \o inbox) : (sent \o inbox)[i].of # job
                      /\ kind = "multi" => Len(got) = IF n < reads THEN n ELSE reads
                      /\ MustSucceed => job \notin failed
    BY DEF ReturnedMeansRun, MustSucceed
  <2>1. /\ sent = <<>> /\ inbox = <<>>
        /\ kind = "multi" => Len(got) = IF n < reads THEN n ELSE reads
        /\ MustSucceed => job \notin failed
    BY DEF PgConnInv, ReportInv, LibpqIdle
  <2> QED
    BY <2>1
<1> QED
  BY <1>1, ConnInvariance, PTL
=============================================================================
