----------------------- MODULE GradingPipelineProofs -----------------------
(***************************************************************************)
(* Proofs about GradingPipeline for any number of batches, papers and      *)
(* workers.  The argument: attempts of a paper are ordered by round and,   *)
(* within a round, by call; the lease of a running paper is its last       *)
(* attempt; and a paper that may still be called has no doubtful call in   *)
(* its current round.                                                      *)
(***************************************************************************)
EXTENDS GradingPipeline, SequenceTheorems, TLAPS

-----------------------------------------------------------------------------
(* The inductive invariant                                                 *)

(* Rounds never decrease along the history, call numbers grow within one.  *)
HistoryOrdered ==
  \A i \in Items :
    /\ \A k \in DOMAIN attempts[i] : attempts[i][k].round <= item[i].version
    /\ \A k, l \in DOMAIN attempts[i] : k < l =>
         /\ attempts[i][k].round <= attempts[i][l].round
         /\ attempts[i][k].round = attempts[i][l].round
              => attempts[i][k].seq < attempts[i][l].seq

(* A paper that may still be called has no doubtful call in its round.     *)
NoDoubtInQueue ==
  \A i \in Items :
    item[i].status \in {"queued", "running"} =>
      \A k \in DOMAIN attempts[i] :
        attempts[i][k].call = "ambiguous"
          => attempts[i][k].round < item[i].version

(* Papers appear with their batch and have no history before.              *)
BornTogether ==
  \A i \in Items :
    /\ job[JobOf[i]].status = "absent" => item[i].status = "absent"
    /\ item[i].status = "absent" => attempts[i] = <<>>

PipelineInv ==
  /\ TypeOK
  /\ LeaseMatchesRunningAttempt
  /\ NoCallAfterUnknownOutcome
  /\ HistoryOrdered
  /\ NoDoubtInQueue
  /\ BornTogether

-----------------------------------------------------------------------------
(* Lemmas about the operators                                              *)

(* What the types say of one paper's row and history.                      *)
LEMMA PaperTypes ==
  ASSUME TypeOK, NEW i \in Items
  PROVE  /\ item[i] \in Item
         /\ item[i].version \in Nat /\ item[i].lease \in Nat
         /\ attempts[i] \in Seq(Attempt)
         /\ Len(attempts[i]) \in Nat
         /\ DOMAIN attempts[i] = 1..Len(attempts[i])
         /\ \A k \in DOMAIN attempts[i] :
              /\ attempts[i][k] \in Attempt
              /\ attempts[i][k].round \in Nat /\ attempts[i][k].seq \in Nat
<1>1. item[i] \in Item /\ attempts[i] \in Seq(Attempt)
  BY DEF TypeOK
<1>2. item[i].version \in Nat /\ item[i].lease \in Nat
  BY <1>1 DEF Item
<1>3. Len(attempts[i]) \in Nat /\ DOMAIN attempts[i] = 1..Len(attempts[i])
  BY <1>1, LenProperties
<1>4. \A k \in DOMAIN attempts[i] : attempts[i][k] \in Attempt
  BY <1>1, <1>3, ElementOfSeq
<1>5. \A a \in Attempt : a.round \in Nat /\ a.seq \in Nat
  BY DEF Attempt
<1> QED BY <1>1, <1>2, <1>3, <1>4, <1>5

(* The call number claim_attempt computes is above every call of the       *)
(* round: the maximum exists because the history is ordered.               *)
LEMMA NextCallFresh ==
  ASSUME TypeOK, HistoryOrdered, NEW i \in Items
  PROVE  /\ NextCall(i) \in Nat
         /\ \A k \in InRound(i, item[i].version) :
              attempts[i][k].seq < NextCall(i)
<1> DEFINE s == attempts[i]
           v == item[i].version
           S == {0} \cup {s[k].seq : k \in InRound(i, v)}
<1>1. /\ s \in Seq(Attempt)
      /\ v \in Nat
      /\ \A k \in DOMAIN s : s[k].seq \in Nat /\ s[k].round \in Nat
  BY PaperTypes
<1>2. DOMAIN s = 1..Len(s) /\ Len(s) \in Nat
  BY PaperTypes
<1>3. \E m \in S : \A y \in S : m >= y
  <2>1. CASE InRound(i, v) = {}
    BY <2>1
  <2>2. CASE InRound(i, v) # {}
    <3>1. PICK k \in InRound(i, v) : TRUE
      BY <2>2
    <3>2. k \in 1..Len(s) /\ s[k].round = v
      BY <3>1, <1>2 DEF InRound
    <3>3. Len(s) \in DOMAIN s /\ s[Len(s)].round = v
      <4>1. Len(s) \in DOMAIN s
        BY <3>2, <1>2
      <4>2. s[Len(s)].round <= v
        BY <4>1 DEF HistoryOrdered
      <4>3. v <= s[Len(s)].round
        <5>1. CASE k = Len(s)
          BY <5>1, <3>2, <1>1
        <5>2. CASE k < Len(s)
          BY <5>2, <3>2, <4>1, <1>2 DEF HistoryOrdered
        <5> QED BY <5>1, <5>2, <3>2, <1>2
      <4> QED BY <4>1, <4>2, <4>3, <1>1
    <3>4. Len(s) \in InRound(i, v)
      BY <3>3 DEF InRound
    <3>5. \A l \in InRound(i, v) : s[l].seq <= s[Len(s)].seq
      <4> TAKE l \in InRound(i, v)
      <4>1. l \in 1..Len(s) /\ s[l].round = v
        BY <1>2 DEF InRound
      <4>2. CASE l = Len(s)
        BY <4>2, <4>1, <1>1, <1>2
      <4>3. CASE l < Len(s)
        <5>1. s[l].seq < s[Len(s)].seq
          BY <4>3, <4>1, <3>3, <1>2 DEF HistoryOrdered
        <5> QED BY <5>1, <4>1, <3>3, <1>1, <1>2
      <4> QED BY <4>1, <4>2, <4>3, <1>2
    <3>6. s[Len(s)].seq \in S /\ s[Len(s)].seq \in Nat
      BY <3>3, <3>4, <1>1
    <3>7. \A y \in S : s[Len(s)].seq >= y
      BY <3>5, <3>6, <1>1 DEF InRound
    <3> QED BY <3>6, <3>7
  <2> QED BY <2>1, <2>2
<1>4. S \subseteq Nat
  BY <1>1 DEF InRound
<1>5. Max(S) \in S /\ \A y \in S : Max(S) >= y
  BY <1>3 DEF Max
<1>6. NextCall(i) = 1 + Max(S)
  BY DEF NextCall
<1>7. NextCall(i) \in Nat
  BY <1>4, <1>5, <1>6
<1>8. ASSUME NEW k \in InRound(i, v) PROVE s[k].seq < NextCall(i)
  <2>1. s[k].seq \in S
    OBVIOUS
  <2>2. s[k].seq \in Nat /\ Max(S) \in Nat
    BY <2>1, <1>4, <1>5
  <2>3. Max(S) >= s[k].seq
    BY <2>1, <1>5
  <2> HIDE DEF S
  <2> QED BY <2>2, <2>3, <1>6
<1> QED BY <1>7, <1>8

(* What a worker holds in each of its states.                              *)
LEMMA WorkerTypes ==
  ASSUME TypeOK, NEW w \in Workers
  PROVE  /\ worker[w].pc = "prepared" =>
              /\ worker[w].item \in Items /\ worker[w].version \in Nat
              /\ worker[w].kind \in Kinds /\ worker[w].prompt \in Prompts
         /\ worker[w].pc = "calling" =>
              worker[w].item \in Items /\ worker[w].number \in Nat
         /\ worker[w].pc = "answered" =>
              /\ worker[w].item \in Items /\ worker[w].number \in Nat
              /\ worker[w].outcome \in Outcomes
<1>1. worker[w] \in {Idle} \cup Prepared \cup Calling \cup Answered
  BY DEF TypeOK
<1>2. Idle.pc = "idle"
  BY DEF Idle
<1>3. \A p \in Prepared : /\ p.pc = "prepared" /\ p.item \in Items
                          /\ p.version \in Nat /\ p.kind \in Kinds
                          /\ p.prompt \in Prompts
  BY DEF Prepared
<1>4. \A p \in Calling : p.pc = "calling" /\ p.item \in Items /\ p.number \in Nat
  BY DEF Calling
<1>5. \A p \in Answered : /\ p.pc = "answered" /\ p.item \in Items
                          /\ p.number \in Nat /\ p.outcome \in Outcomes
  BY DEF Answered
<1> QED BY <1>1, <1>2, <1>3, <1>4, <1>5

(* Finishing keeps the types and an attempt's place in the history, closes *)
(* both rows, and puts a paper back into the queue only without a doubt.   *)
LEMMA FinishedRows ==
  ASSUME NEW a \in Attempt, NEW o \in Outcomes, NEW it \in Item
  PROVE  /\ FinishedAttempt(a, o) \in Attempt
         /\ FinishedAttempt(a, o).round = a.round
         /\ FinishedAttempt(a, o).seq = a.seq
         /\ FinishedAttempt(a, o).status # "running"
         /\ FinishedItem(it, o, a) \in Item
         /\ FinishedItem(it, o, a).version = it.version
         /\ FinishedItem(it, o, a).lease = 0
         /\ FinishedItem(it, o, a).status
              \in {"queued", "needs_review", "failed"}
         /\ FinishedItem(it, o, a).status = "queued"
              => FinishedAttempt(a, o).call # "ambiguous"
         /\ FinishedAttempt(a, o).status = "succeeded" =>
              /\ FinishedItem(it, o, a).status = "needs_review"
              /\ FinishedAttempt(a, o).call # "ambiguous"
         /\ FinishedAttempt(a, o).call = "response_received"
              => HasResponse(o)
         /\ FinishedAttempt(a, o).kind = a.kind
         /\ FinishedAttempt(a, o).prompt = a.prompt
         /\ FinishedAttempt(a, o).code = "correction_required"
              => a.prompt = "initial"
         /\ FinishedItem(it, o, a).status = "queued" =>
              \/ a.seq <= MaxProviderRetries
              \/ FinishedAttempt(a, o).code = "correction_required"
<1>1. CallState(o) \in {"not_sent", "response_received", "ambiguous"}
  BY DEF CallState
<1>2. /\ FinishedAttempt(a, o) \in Attempt
      /\ FinishedAttempt(a, o).round = a.round
      /\ FinishedAttempt(a, o).seq = a.seq
      /\ FinishedAttempt(a, o).status # "running"
      /\ FinishedAttempt(a, o).call = CallState(o)
      /\ FinishedAttempt(a, o).status = "succeeded" => o = "valid"
      /\ FinishedAttempt(a, o).kind = a.kind
      /\ FinishedAttempt(a, o).prompt = a.prompt
      /\ FinishedAttempt(a, o).code = "correction_required"
           <=> NeedsCorrection(o, a)
  BY <1>1 DEF FinishedAttempt, Attempt, NeedsCorrection
<1>10. NeedsCorrection(o, a) => a.prompt = "initial"
  BY DEF NeedsCorrection
<1>11. Verdict(o, a) = "retry" =>
         a.seq <= MaxProviderRetries \/ NeedsCorrection(o, a)
  BY DEF Verdict, NeedsCorrection
<1>8. CallState(o) = "response_received" => HasResponse(o)
  BY DEF CallState
<1>9. o = "valid" => /\ Verdict(o, a) = "succeeded"
                     /\ CallState(o) = "response_received"
  BY DEF Verdict, CallState, HasResponse
<1>3. o \in AllOutcomes
  BY PipelineAssumption
<1>4. Verdict(o, a) = "retry" => o \in {"invalid", "safe"}
  BY <1>3 DEF Verdict, AllOutcomes
<1>5. o \in {"invalid", "safe"} => CallState(o) = "response_received"
  BY DEF CallState, HasResponse
<1>0. PICK f : f = FinishedItem(it, o, a)
  OBVIOUS
<1>6. CASE Verdict(o, a) = "retry"
  <2>1. PICK n : n = it.retries + 1
    OBVIOUS
  <2>2. PICK r : r = (o = "invalid")
    OBVIOUS
  <2>3. f = [it EXCEPT !.status = "queued", !.lease = 0, !.retries = n,
                       !.ready = r]
    BY <1>0, <1>6, <2>1, <2>2 DEF FinishedItem
  <2>4. n \in Nat
    BY <2>1 DEF Item
  <2>5. r \in BOOLEAN
    BY <2>2
  <2>6. /\ f \in Item /\ f.version = it.version /\ f.lease = 0
        /\ f.status = "queued"
    <3>1. "queued" \in ItemStatus
      BY DEF ItemStatus
    <3> QED BY <2>3, <2>4, <2>5, <3>1 DEF Item
  <2> QED BY <2>6, <1>0, <1>2, <1>4, <1>5, <1>6, <1>8, <1>9, <1>10, <1>11
<1>7. CASE Verdict(o, a) # "retry"
  <2>1. PICK st \in {"failed", "needs_review"} :
          /\ f = [it EXCEPT !.status = st, !.lease = 0]
          /\ st = "failed" <=> Verdict(o, a) = "failed"
    BY <1>0, <1>7 DEF FinishedItem
  <2>2. /\ f \in Item /\ f.version = it.version /\ f.lease = 0
        /\ f.status \in {"needs_review", "failed"}
        /\ f.status = "failed" <=> Verdict(o, a) = "failed"
    <3>1. st \in ItemStatus
      BY DEF ItemStatus
    <3> QED BY <2>1, <3>1 DEF Item
  <2> QED BY <2>2, <1>0, <1>2, <1>8, <1>9, <1>10
<1> QED BY <1>6, <1>7

(* _reconcile_job writes a status and never makes a batch disappear.       *)
LEMMA ReconcileStatus ==
  ASSUME TypeOK, NEW j \in Jobs, NEW its
  PROVE  /\ Reconcile(j, its) \in JobStatus
         /\ Reconcile(j, its) = "absent" => job[j].status = "absent"
<1>1. job[j].status \in JobStatus
  BY DEF TypeOK, Job
<1> QED BY <1>1 DEF Reconcile, JobStatus

(* The expiry task finds the attempt it closes.                            *)
LEMMA RunningAttemptExists ==
  ASSUME NEW i \in Items,
         \E k \in DOMAIN attempts[i] : attempts[i][k].status = "running"
  PROVE  /\ RunningAttempt(i) \in DOMAIN attempts[i]
         /\ attempts[i][RunningAttempt(i)].status = "running"
BY DEF RunningAttempt

-----------------------------------------------------------------------------
(* Type correctness                                                        *)

(* Teachers' operations keep the types.                                    *)
LEMMA TeacherTypes ==
  ASSUME TypeOK, TeacherStep
  PROVE  TypeOK'
<1>1. ASSUME NEW j \in Jobs, CreateJob(j) PROVE TypeOK'
  <2>1. job' \in [Jobs -> Job]
    BY <1>1 DEF CreateJob, TypeOK, Job, JobStatus
  <2>2. item' \in [Items -> Item]
    BY <1>1 DEF CreateJob, TypeOK, Item, ItemStatus
  <2>3. messages' \subseteq Items \X Nat
    BY <1>1, <2>2 DEF CreateJob, TypeOK, QueuedMessages, ItemsOf, Item
  <2> QED BY <1>1, <2>1, <2>2, <2>3 DEF CreateJob, TypeOK
<1>2. ASSUME NEW j \in Jobs, RepeatCreateJob(j) PROVE TypeOK'
  <2>1. messages' \subseteq Items \X Nat
    BY <1>2 DEF RepeatCreateJob, TypeOK, QueuedMessages, ItemsOf, Item
  <2> QED BY <1>2, <2>1 DEF RepeatCreateJob, TypeOK
<1>3. ASSUME NEW j \in Jobs, PauseJob(j) PROVE TypeOK'
  <2>1. job' \in [Jobs -> Job]
    BY <1>3 DEF PauseJob, TypeOK, Job, JobStatus
  <2> QED BY <1>3, <2>1 DEF PauseJob, TypeOK
<1>4. ASSUME NEW j \in Jobs, ResumeJob(j) PROVE TypeOK'
  <2>1. job' \in [Jobs -> Job]
    BY <1>4 DEF ResumeJob, TypeOK, Job, JobStatus
  <2>2. messages' \subseteq Items \X Nat
    BY <1>4 DEF ResumeJob, TypeOK, QueuedMessages, ItemsOf, Item
  <2> QED BY <1>4, <2>1, <2>2 DEF ResumeJob, TypeOK
<1>5. ASSUME NEW j \in Jobs, CancelJob(j) PROVE TypeOK'
  <2>1. job' \in [Jobs -> Job]
    BY <1>5 DEF CancelJob, TypeOK, Job, JobStatus
  <2>2. item' \in [Items -> Item]
    BY <1>5 DEF CancelJob, TypeOK, Item, ItemStatus
  <2> QED BY <1>5, <2>1, <2>2 DEF CancelJob, TypeOK
<1>6. ASSUME NEW i \in Items, RetryItem(i) PROVE TypeOK'
  <2>1. job' \in [Jobs -> Job]
    <3>1. job' = [job EXCEPT ![JobOf[i]].status = "running"]
      BY <1>6 DEF RetryItem
    <3> QED BY <3>1 DEF TypeOK, Job, JobStatus
  <2>2. item' \in [Items -> Item]
    <3>1. item[i].version + 1 \in Nat
      BY DEF TypeOK, Item
    <3> QED BY <1>6, <3>1 DEF RetryItem, TypeOK, Item, ItemStatus
  <2>3. messages' \subseteq Items \X Nat
    BY <1>6, <2>2 DEF RetryItem, TypeOK, QueuedMessages, ItemsOf, Item
  <2> QED BY <1>6, <2>1, <2>2, <2>3 DEF RetryItem, TypeOK
<1>7. ASSUME NEW S \in (SUBSET Items) \ {{}}, ConfirmItems(S) PROVE TypeOK'
  <2>1. job' \in [Jobs -> Job]
    <3>1. DOMAIN job' = Jobs /\ job' = [j \in Jobs |-> job'[j]]
      BY <1>7 DEF ConfirmItems
    <3>2. ASSUME NEW j \in Jobs PROVE job'[j] \in Job
      <4>1. job[j] \in Job
        BY DEF TypeOK
      <4>2. CASE job'[j] = job[j]
        BY <4>1, <4>2
      <4>3. CASE job'[j] # job[j]
        <5>1. PICK st \in {"completed", "needs_review", "paused", "running"} :
                job'[j] = [job[j] EXCEPT !.status = st]
          BY <1>7, <4>3 DEF ConfirmItems
        <5> QED BY <4>1, <5>1 DEF Job, JobStatus
      <4> QED BY <4>2, <4>3
    <3> QED BY <3>1, <3>2
  <2>2. item' \in [Items -> Item]
    <3>1. item' = [i \in Items |->
                    IF i \in S THEN [item[i] EXCEPT !.status = "completed"]
                               ELSE item[i]]
      BY <1>7 DEF ConfirmItems
    <3> QED BY <3>1 DEF TypeOK, Item, ItemStatus
  <2> QED BY <1>7, <2>1, <2>2 DEF ConfirmItems, TypeOK
<1> QED BY <1>1, <1>2, <1>3, <1>4, <1>5, <1>6, <1>7 DEF TeacherStep

(* Configuration changes keep the types.                                   *)
LEMMA ConfigurationTypes ==
  ASSUME TypeOK, ConfigurationStep
  PROVE  TypeOK'
<1>1. CASE BeginProviderUpdate
  BY <1>1 DEF BeginProviderUpdate, TypeOK
<1>2. CASE CommitProviderUpdate
  <2>1. job' \in [Jobs -> Job]
    BY <1>2 DEF CommitProviderUpdate, TypeOK, Job
  <2> QED BY <1>2, <2>1 DEF CommitProviderUpdate, TypeOK
<1>3. CASE EnableProvider
  BY <1>3 DEF EnableProvider, TypeOK
<1>4. CASE DisableProvider
  BY <1>4 DEF DisableProvider, TypeOK
<1>5. CASE ConfirmRubric
  <2>1. job' \in [Jobs -> Job]
    BY <1>5 DEF ConfirmRubric, TypeOK, Job
  <2> QED BY <1>5, <2>1 DEF ConfirmRubric, TypeOK
<1> QED BY <1>1, <1>2, <1>3, <1>4, <1>5 DEF ConfigurationStep

(* Maintenance tasks, the clock and the broker keep the types.             *)
LEMMA MaintenanceTypes ==
  ASSUME TypeOK, MaintenanceStep
  PROVE  TypeOK'
<1>1. CASE DispatchReadyItems
  <2>1. messages' \subseteq Items \X Nat
    <3>1. messages' \subseteq messages \cup {<<i, item[i].version>> : i \in Items}
      BY <1>1 DEF DispatchReadyItems
    <3>2. \A i \in Items : item[i].version \in Nat
      BY PaperTypes
    <3> QED BY <3>1, <3>2 DEF TypeOK
  <2> QED BY <1>1, <2>1 DEF DispatchReadyItems, TypeOK
<1>2. ASSUME NEW S \in (SUBSET Items) \ {{}}, ExpireStaleAttempts(S)
      PROVE  TypeOK'
  <2>1. item' \in [Items -> Item]
    <3>1. item' = [i \in Items |->
             IF i \in S THEN [item[i] EXCEPT !.status = "needs_review",
                                            !.lease = 0]
             ELSE item[i]]
      BY <1>2 DEF ExpireStaleAttempts
    <3> QED BY <3>1 DEF TypeOK, Item, ItemStatus
  <2>2. ASSUME NEW i \in Items PROVE attempts'[i] \in Seq(Attempt)
    <3>1. CASE i \in S
      <4>1. RunningAttempt(i) \in DOMAIN attempts[i]
        BY <1>2, <3>1, RunningAttemptExists DEF ExpireStaleAttempts
      <4>2. PICK a : a = attempts[i][RunningAttempt(i)]
        OBVIOUS
      <4>3. a \in Attempt
        BY <4>1, <4>2, PaperTypes
      <4>4. PICK b : b = [a EXCEPT !.status = "failed", !.call = "ambiguous",
                                   !.code = "other"]
        OBVIOUS
      <4>5. b \in Attempt
        BY <4>3, <4>4 DEF Attempt
      <4>6. attempts'[i] = [attempts[i] EXCEPT ![RunningAttempt(i)] = b]
        BY <1>2, <3>1, <4>2, <4>4 DEF ExpireStaleAttempts
      <4> QED BY <4>1, <4>5, <4>6, PaperTypes, ExceptSeq
    <3>2. CASE i \notin S
      BY <1>2, <3>2 DEF ExpireStaleAttempts, TypeOK
    <3> QED BY <3>1, <3>2
  <2>3. job' \in [Jobs -> Job]
    <3>1. \A j \in Jobs : Reconcile(j, item') \in JobStatus
      BY ReconcileStatus
    <3> QED BY <1>2, <3>1 DEF ExpireStaleAttempts, TypeOK, Job
  <2>4. attempts' \in [Items -> Seq(Attempt)]
    BY <1>2, <2>2 DEF ExpireStaleAttempts
  <2> QED BY <1>2, <2>1, <2>3, <2>4 DEF ExpireStaleAttempts, TypeOK
<1>3. ASSUME NEW i \in Items, RetryDelayEnds(i) PROVE TypeOK'
  <2>1. item' \in [Items -> Item]
    BY <1>3 DEF RetryDelayEnds, TypeOK, Item
  <2> QED BY <1>3, <2>1 DEF RetryDelayEnds, TypeOK
<1>4. ASSUME NEW m \in messages, LoseMessage(m) PROVE TypeOK'
  BY <1>4 DEF LoseMessage, TypeOK
<1> QED BY <1>1, <1>2, <1>3, <1>4 DEF MaintenanceStep

(* A worker's steps keep the types; the call number of a claim needs the   *)
(* ordered history and the finished attempt is the one the lease names.    *)
LEMMA WorkerStepTypes ==
  ASSUME TypeOK, LeaseMatchesRunningAttempt, HistoryOrdered,
         NEW w \in Workers, WorkerStep(w)
  PROVE  TypeOK'
<1>1. ASSUME NEW i \in Items, NEW v \in 1..MaxRounds, PrepareItem(w, i, v)
      PROVE  TypeOK'
  <2>1. messages' \subseteq Items \X Nat
    BY <1>1 DEF PrepareItem, TypeOK
  <2>2. NextKind(i, v) \in Kinds
    BY DEF NextKind, Kinds
  <2>3. v \in Nat
    BY PipelineAssumption
  <2>4. PICK pr \in Prompts :
          pr = IF CorrectionSources(i, v) # {} THEN "correction" ELSE "initial"
    BY DEF Prompts
  <2>5. PICK p : p = [pc |-> "prepared", item |-> i, version |-> v,
                      kind |-> NextKind(i, v), prompt |-> pr]
    OBVIOUS
  <2>6. p \in Prepared
    BY <2>2, <2>3, <2>5 DEF Prepared
  <2>7. worker' = worker \/ worker' = [worker EXCEPT ![w] = p]
    BY <1>1, <2>4, <2>5 DEF PrepareItem
  <2>8. worker' \in [Workers -> {Idle} \cup Prepared \cup Calling \cup Answered]
    BY <2>6, <2>7 DEF TypeOK
  <2> QED BY <1>1, <2>1, <2>8 DEF PrepareItem, TypeOK
<1>2. CASE ClaimAttempt(w)
  <2>1. PICK p : p = worker[w]
    OBVIOUS
  <2>2. PICK i \in Items : i = worker[w].item
    BY <1>2, WorkerTypes DEF ClaimAttempt
  <2>3. p.kind \in Kinds /\ p.prompt \in Prompts
    BY <1>2, <2>1, WorkerTypes DEF ClaimAttempt
  <2>4. /\ NextCall(i) \in Nat
        /\ Len(attempts[i]) + 1 \in Nat
        /\ item[i].version \in Nat
        /\ attempts[i] \in Seq(Attempt)
    BY NextCallFresh, PaperTypes
  <2>5. PICK a : a = [round |-> item[i].version, seq |-> NextCall(i),
                      kind |-> p.kind, prompt |-> p.prompt,
                      status |-> "running", call |-> "started",
                      code |-> "none"]
    OBVIOUS
  <2>6. a \in Attempt
    BY <2>3, <2>4, <2>5 DEF Attempt
  <2>7. attempts' = [attempts EXCEPT ![i] = Append(attempts[i], a)]
    BY <1>2, <2>1, <2>2, <2>5 DEF ClaimAttempt
  <2>8. attempts' \in [Items -> Seq(Attempt)]
    <3>1. Append(attempts[i], a) \in Seq(Attempt)
      BY <2>4, <2>6, AppendProperties
    <3> QED BY <2>7, <3>1 DEF TypeOK
  <2>9. item' \in [Items -> Item]
    <3>1. PICK n \in Nat : n = Len(attempts[i]) + 1
      BY <2>4
    <3>2. item' = [item EXCEPT ![i] =
                    [item[i] EXCEPT !.status = "running", !.lease = n]]
      BY <1>2, <2>2, <3>1 DEF ClaimAttempt, TypeOK
    <3>3. [item[i] EXCEPT !.status = "running", !.lease = n] \in Item
      BY PaperTypes DEF Item, ItemStatus
    <3> QED BY <3>2, <3>3 DEF TypeOK
  <2>10. job' \in [Jobs -> Job]
    <3>1. job' = [job EXCEPT ![JobOf[i]].status = "running"]
      BY <1>2, <2>2 DEF ClaimAttempt
    <3> QED BY <3>1 DEF TypeOK, Job, JobStatus
  <2>11. worker' \in [Workers -> {Idle} \cup Prepared \cup Calling \cup Answered]
    <3>1. PICK c : c = [pc |-> "calling", item |-> i,
                        number |-> Len(attempts[i]) + 1]
      OBVIOUS
    <3>2. c \in Calling
      BY <2>4, <3>1 DEF Calling
    <3>3. worker' = [worker EXCEPT ![w] = c]
      BY <1>2, <2>2, <3>1 DEF ClaimAttempt
    <3> QED BY <3>2, <3>3 DEF TypeOK
  <2> QED BY <1>2, <2>8, <2>9, <2>10, <2>11 DEF ClaimAttempt, TypeOK
<1>3. CASE ClaimRefused(w)
  BY <1>3 DEF ClaimRefused, TypeOK
<1>4. ASSUME NEW o \in Outcomes, CallProvider(w, o) PROVE TypeOK'
  <2>1. worker[w].item \in Items /\ worker[w].number \in Nat
    BY <1>4, WorkerTypes DEF CallProvider
  <2>2. PICK c : c = [pc |-> "answered", item |-> worker[w].item,
                      number |-> worker[w].number, outcome |-> o]
    OBVIOUS
  <2>3. c \in Answered
    BY <2>1, <2>2 DEF Answered
  <2>4. worker' = [worker EXCEPT ![w] = c]
    BY <1>4, <2>2 DEF CallProvider
  <2>5. worker' \in [Workers -> {Idle} \cup Prepared \cup Calling \cup Answered]
    BY <2>3, <2>4 DEF TypeOK
  <2>6. stored' \subseteq Items \X Nat
    BY <1>4, <2>1 DEF CallProvider, TypeOK
  <2> QED BY <1>4, <2>5, <2>6 DEF CallProvider, TypeOK
<1>5. CASE FinishAttempt(w)
  <2>1. PICK i \in Items : i = worker[w].item
    BY <1>5, WorkerTypes DEF FinishAttempt
  <2>2. PICK n : n = worker[w].number
    OBVIOUS
  <2>3. PICK o \in Outcomes : o = worker[w].outcome
    BY <1>5, WorkerTypes DEF FinishAttempt
  <2>4. n \in DOMAIN attempts[i]
    BY <1>5, <2>1, <2>2 DEF FinishAttempt, HoldsLease, LeaseMatchesRunningAttempt
  <2>5. PICK a \in Attempt : a = attempts[i][n]
    BY <2>4, PaperTypes
  <2>6. attempts' = [attempts EXCEPT ![i] =
                      [attempts[i] EXCEPT ![n] = FinishedAttempt(a, o)]]
    BY <1>5, <2>1, <2>2, <2>3, <2>5 DEF FinishAttempt
  <2>7. attempts' \in [Items -> Seq(Attempt)]
    <3>1. [attempts[i] EXCEPT ![n] = FinishedAttempt(a, o)] \in Seq(Attempt)
      <4>1. FinishedAttempt(a, o) \in Attempt
        BY FinishedRows, PaperTypes
      <4> QED BY <2>4, <4>1, PaperTypes, ExceptSeq
    <3> QED BY <2>6, <3>1 DEF TypeOK
  <2>8. item' \in [Items -> Item]
    <3>1. item' = [item EXCEPT ![i] = FinishedItem(item[i], o, a)]
      BY <1>5, <2>1, <2>2, <2>3, <2>5 DEF FinishAttempt
    <3>2. FinishedItem(item[i], o, a) \in Item
      BY FinishedRows, PaperTypes
    <3> QED BY <3>1, <3>2 DEF TypeOK
  <2>9. job' \in [Jobs -> Job]
    <3>1. JobOf[i] \in Jobs
      BY PipelineAssumption
    <3>2. PICK st \in JobStatus : st = Reconcile(JobOf[i], item')
      BY <3>1, ReconcileStatus
    <3>3. job' = [job EXCEPT ![JobOf[i]].status = st]
      BY <1>5, <2>1, <3>2 DEF FinishAttempt
    <3> QED BY <3>3 DEF TypeOK, Job
  <2>10. worker' \in [Workers -> {Idle} \cup Prepared \cup Calling \cup Answered]
    <3>1. worker' = [worker EXCEPT ![w] = Idle]
      BY <1>5 DEF FinishAttempt
    <3> QED BY <3>1 DEF TypeOK
  <2> QED BY <1>5, <2>7, <2>8, <2>9, <2>10 DEF FinishAttempt, TypeOK
<1>6. CASE FinishRejected(w)
  BY <1>6 DEF FinishRejected, TypeOK
<1>7. CASE WorkerLost(w)
  BY <1>7 DEF WorkerLost, TypeOK
<1> QED BY <1>1, <1>2, <1>3, <1>4, <1>5, <1>6, <1>7 DEF WorkerStep

-----------------------------------------------------------------------------
(* What a step can do to one paper                                         *)

PaperKept(i) ==
  /\ item'[i].status = item[i].status /\ item'[i].version = item[i].version
  /\ item'[i].lease = item[i].lease /\ attempts'[i] = attempts[i]

PaperOpened(i) ==
  /\ item[i].status = "absent" /\ item'[i].status = "queued"
  /\ job'[JobOf[i]].status # "absent"
  /\ item'[i].version = item[i].version
  /\ item'[i].lease = item[i].lease /\ attempts'[i] = attempts[i]

PaperEnded(i) ==
  /\ \/ item[i].status = "queued" /\ item'[i].status = "cancelled"
     \/ Reviewable(i) /\ item'[i].status = "completed"
  /\ item'[i].version = item[i].version
  /\ item'[i].lease = item[i].lease /\ attempts'[i] = attempts[i]

PaperRegraded(i) ==
  /\ item[i].status \in {"needs_review", "failed"}
  /\ item'[i].status = "queued" /\ item'[i].version = item[i].version + 1
  /\ item'[i].lease = 0 /\ attempts'[i] = attempts[i]

PaperClaimed(i) ==
  /\ item[i].status = "queued" /\ item'[i].status = "running"
  /\ job[JobOf[i]].status \in {"queued", "running"}
  /\ item'[i].version = item[i].version
  /\ item'[i].lease = Len(attempts[i]) + 1
  /\ \E a \in Attempt :
       /\ attempts'[i] = Append(attempts[i], a)
       /\ a.round = item[i].version /\ a.seq = NextCall(i)
       /\ a.status = "running" /\ a.call = "started" /\ a.code = "none"
       /\ \E w \in Workers : /\ ClaimAttempt(w) /\ worker[w].item = i
                             /\ a.kind = worker[w].kind
                             /\ a.prompt = worker[w].prompt

PaperReturned(i) ==
  /\ item[i].status = "running" /\ item'[i].version = item[i].version
  /\ item'[i].status \in {"queued", "needs_review", "failed"}
  /\ item'[i].lease = 0
  /\ \E b \in Attempt :
       LET n == Len(attempts[i]) IN
       /\ attempts'[i] = [attempts[i] EXCEPT ![n] = b]
       /\ b.round = attempts[i][n].round /\ b.seq = attempts[i][n].seq
       /\ b.kind = attempts[i][n].kind /\ b.prompt = attempts[i][n].prompt
       /\ b.status # "running"
       /\ b.code = "correction_required" => b.prompt = "initial"
       /\ item'[i].status = "queued" =>
            /\ \/ b.seq <= MaxProviderRetries
               \/ b.code = "correction_required"
            /\ \E w \in Workers : FinishAttempt(w) /\ worker[w].item = i
       /\ item'[i].status = "queued" => b.call # "ambiguous"
       /\ b.status = "succeeded" =>
            item'[i].status = "needs_review" /\ b.call # "ambiguous"
       /\ b.call = "response_received" =>
            \E w \in Workers : /\ worker[w].pc = "answered"
                              /\ worker[w].item = i /\ worker[w].number = n
                              /\ HasResponse(worker[w].outcome)

PaperStep(i) ==
  PaperKept(i) \/ PaperOpened(i) \/ PaperEnded(i) \/ PaperRegraded(i)
    \/ PaperClaimed(i) \/ PaperReturned(i)

(* The running attempt of a running paper is its last one.                 *)
LEMMA LeaseIsLast ==
  ASSUME TypeOK, LeaseMatchesRunningAttempt, NEW i \in Items,
         item[i].status = "running"
  PROVE  /\ Len(attempts[i]) \in DOMAIN attempts[i]
         /\ item[i].lease = Len(attempts[i])
         /\ \A k \in DOMAIN attempts[i] :
              attempts[i][k].status = "running" <=> k = Len(attempts[i])
BY DEF LeaseMatchesRunningAttempt

(* Every step is one of these for every paper.                             *)
LEMMA PaperStepOfNext ==
  ASSUME TypeOK, LeaseMatchesRunningAttempt, HistoryOrdered, BornTogether,
         Next, NEW i \in Items
  PROVE  PaperStep(i)
<1>0. item[i] \in Item /\ JobOf[i] \in Jobs
  BY PaperTypes, PipelineAssumption
<1>1. ASSUME item' = item, attempts' = attempts PROVE PaperStep(i)
  BY <1>1 DEF PaperStep, PaperKept
<1>2. ASSUME NEW j \in Jobs, CreateJob(j) PROVE PaperStep(i)
  <2>1. CASE JobOf[i] = j
    <3>1. item'[i] = [item[i] EXCEPT !.status = "queued"]
      BY <1>2, <2>1 DEF CreateJob
    <3>2. attempts'[i] = attempts[i] /\ item[i].status = "absent"
      BY <1>2, <2>1 DEF CreateJob, BornTogether
    <3>3. job'[j].status = "queued"
      BY <1>2 DEF CreateJob, TypeOK
    <3> QED BY <1>0, <2>1, <3>1, <3>2, <3>3 DEF PaperStep, PaperOpened, Item
  <2>2. CASE JobOf[i] # j
    BY <1>2, <2>2 DEF CreateJob, PaperStep, PaperKept
  <2> QED BY <2>1, <2>2
<1>3. ASSUME NEW j \in Jobs, CancelJob(j) PROVE PaperStep(i)
  <2>1. CASE JobOf[i] = j /\ item[i].status = "queued"
    <3>1. item'[i] = [item[i] EXCEPT !.status = "cancelled"]
      BY <1>3, <2>1 DEF CancelJob
    <3>2. attempts'[i] = attempts[i]
      BY <1>3 DEF CancelJob
    <3> QED BY <1>0, <2>1, <3>1, <3>2 DEF PaperStep, PaperEnded, Item
  <2>2. CASE ~(JobOf[i] = j /\ item[i].status = "queued")
    BY <1>3, <2>2 DEF CancelJob, PaperStep, PaperKept
  <2> QED BY <2>1, <2>2
<1>4. ASSUME NEW x \in Items, RetryItem(x) PROVE PaperStep(i)
  <2>1. attempts'[i] = attempts[i]
    BY <1>4 DEF RetryItem
  <2>2. CASE x = i
    <3>1. item'[i] = [status |-> "queued", version |-> item[i].version + 1,
                      retries |-> 0, ready |-> TRUE, lease |-> 0]
      BY <1>4, <2>2 DEF RetryItem, TypeOK
    <3>2. item[i].status \in {"needs_review", "failed"}
      BY <1>4, <2>2 DEF RetryItem
    <3> QED BY <2>1, <3>1, <3>2 DEF PaperStep, PaperRegraded
  <2>3. CASE x # i
    <3>1. item'[i] = item[i]
      BY <1>4, <2>3 DEF RetryItem, TypeOK
    <3> QED BY <2>1, <3>1 DEF PaperStep, PaperKept
  <2> QED BY <2>2, <2>3
<1>5. ASSUME NEW S \in (SUBSET Items) \ {{}}, ConfirmItems(S) PROVE PaperStep(i)
  <2>1. attempts'[i] = attempts[i]
    BY <1>5 DEF ConfirmItems
  <2>2. CASE i \in S
    <3>1. item'[i] = [item[i] EXCEPT !.status = "completed"]
      BY <1>5, <2>2 DEF ConfirmItems
    <3>2. Reviewable(i)
      BY <1>5, <2>2 DEF ConfirmItems
    <3> QED BY <1>0, <2>1, <3>1, <3>2 DEF PaperStep, PaperEnded, Item
  <2>3. CASE i \notin S
    <3>1. item'[i] = item[i]
      BY <1>5, <2>3 DEF ConfirmItems
    <3> QED BY <2>1, <3>1 DEF PaperStep, PaperKept
  <2> QED BY <2>2, <2>3
<1>6. ASSUME NEW w \in Workers, ClaimAttempt(w) PROVE PaperStep(i)
  <2>1. PICK p : p = worker[w]
    OBVIOUS
  <2>2. PICK x \in Items : x = worker[w].item
    BY <1>6, WorkerTypes DEF ClaimAttempt
  <2>3. CASE x # i
    <3>1. item'[i] = item[i] /\ attempts'[i] = attempts[i]
      BY <1>6, <2>2, <2>3 DEF ClaimAttempt, TypeOK
    <3> QED BY <3>1 DEF PaperStep, PaperKept
  <2>4. CASE x = i
    <3>1. PICK n \in Nat : n = Len(attempts[i]) + 1
      BY PaperTypes
    <3>2. item'[i] = [item[i] EXCEPT !.status = "running", !.lease = n]
      BY <1>6, <2>2, <2>4, <3>1 DEF ClaimAttempt, TypeOK
    <3>3. /\ item'[i].status = "running" /\ item'[i].lease = n
          /\ item'[i].version = item[i].version
      BY <1>0, <3>2 DEF Item
    <3>4. /\ item[i].status = "queued"
          /\ job[JobOf[i]].status \in {"queued", "running"}
      BY <1>6, <2>2, <2>4 DEF ClaimAttempt, Claimable, Dispatchable
    <3>5. p.kind \in Kinds /\ p.prompt \in Prompts
      BY <1>6, <2>1, WorkerTypes DEF ClaimAttempt
    <3>6. item[i].version \in Nat /\ NextCall(i) \in Nat
      BY PaperTypes, NextCallFresh
    <3>7. PICK a : a = [round |-> item[i].version, seq |-> NextCall(i),
                        kind |-> p.kind, prompt |-> p.prompt,
                        status |-> "running", call |-> "started",
                        code |-> "none"]
      OBVIOUS
    <3>8. /\ a \in Attempt /\ a.round = item[i].version
          /\ a.seq = NextCall(i) /\ a.status = "running"
          /\ a.call = "started" /\ a.code = "none"
          /\ a.kind = p.kind /\ a.prompt = p.prompt
      BY <3>5, <3>6, <3>7 DEF Attempt
    <3>9. attempts'[i] = Append(attempts[i], a)
      BY <1>6, <2>1, <2>2, <2>4, <3>7 DEF ClaimAttempt, TypeOK
    <3>10. PaperClaimed(i)
      BY <1>6, <2>1, <2>2, <2>4, <3>1, <3>3, <3>4, <3>8, <3>9
         DEF PaperClaimed
    <3> QED BY <3>10 DEF PaperStep
  <2> QED BY <2>3, <2>4
<1>7. ASSUME NEW w \in Workers, FinishAttempt(w) PROVE PaperStep(i)
  <2>1. PICK x \in Items : x = worker[w].item
    BY <1>7, WorkerTypes DEF FinishAttempt
  <2>2. PICK n : n = worker[w].number
    OBVIOUS
  <2>3. PICK o \in Outcomes : o = worker[w].outcome
    BY <1>7, WorkerTypes DEF FinishAttempt
  <2>4. CASE x # i
    <3>1. item'[i] = item[i] /\ attempts'[i] = attempts[i]
      BY <1>7, <2>1, <2>4 DEF FinishAttempt, TypeOK
    <3> QED BY <3>1 DEF PaperStep, PaperKept
  <2>5. CASE x = i
    <3>1. item[i].status = "running" /\ n = item[i].lease
      BY <1>7, <2>1, <2>2, <2>5 DEF FinishAttempt, HoldsLease
    <3>2. n = Len(attempts[i]) /\ n \in DOMAIN attempts[i]
      BY <3>1, LeaseIsLast
    <3>3. PICK a \in Attempt : a = attempts[i][n]
      BY <3>2, PaperTypes
    <3>4. PICK b : b = FinishedAttempt(a, o)
      OBVIOUS
    <3>5. PICK f : f = FinishedItem(item[i], o, a)
      OBVIOUS
    <3>6. attempts'[i] = [attempts[i] EXCEPT ![n] = b]
      BY <1>7, <2>1, <2>2, <2>3, <2>5, <3>3, <3>4 DEF FinishAttempt, TypeOK
    <3>7. item'[i] = f
      BY <1>7, <2>1, <2>2, <2>3, <2>5, <3>3, <3>5 DEF FinishAttempt, TypeOK
    <3>8. /\ b \in Attempt /\ b.round = a.round /\ b.seq = a.seq
          /\ b.status # "running"
          /\ f.version = item[i].version /\ f.lease = 0
          /\ f.status \in {"queued", "needs_review", "failed"}
          /\ f.status = "queued" => b.call # "ambiguous"
          /\ b.status = "succeeded" =>
               f.status = "needs_review" /\ b.call # "ambiguous"
          /\ b.call = "response_received" => HasResponse(o)
          /\ b.kind = a.kind /\ b.prompt = a.prompt
          /\ b.code = "correction_required" => a.prompt = "initial"
          /\ f.status = "queued" => \/ a.seq <= MaxProviderRetries
                                   \/ b.code = "correction_required"
      BY <1>0, <3>4, <3>5, FinishedRows
    <3>9. worker[w].pc = "answered"
      BY <1>7 DEF FinishAttempt
    <3>10. PaperReturned(i)
      BY <1>7, <2>1, <2>2, <2>3, <2>5, <3>1, <3>2, <3>3, <3>6, <3>7, <3>8,
         <3>9
         DEF PaperReturned
    <3> QED BY <3>10 DEF PaperStep
  <2> QED BY <2>4, <2>5
<1>8. ASSUME NEW S \in (SUBSET Items) \ {{}}, ExpireStaleAttempts(S)
      PROVE  PaperStep(i)
  <2>1. CASE i \notin S
    <3>1. item'[i] = item[i] /\ attempts'[i] = attempts[i]
      BY <1>8, <2>1 DEF ExpireStaleAttempts
    <3> QED BY <3>1 DEF PaperStep, PaperKept
  <2>2. CASE i \in S
    <3>1. item[i].status = "running"
      BY <1>8, <2>2 DEF ExpireStaleAttempts
    <3>2. PICK n : n = RunningAttempt(i)
      OBVIOUS
    <3>3. n \in DOMAIN attempts[i] /\ attempts[i][n].status = "running"
      BY <1>8, <2>2, <3>2, RunningAttemptExists DEF ExpireStaleAttempts
    <3>4. n = Len(attempts[i])
      BY <3>1, <3>3, LeaseIsLast
    <3>5. PICK a \in Attempt : a = attempts[i][n]
      BY <3>3, PaperTypes
    <3>6. PICK b : b = [a EXCEPT !.status = "failed", !.call = "ambiguous",
                                 !.code = "other"]
      OBVIOUS
    <3>7. /\ b \in Attempt /\ b.round = a.round /\ b.seq = a.seq
          /\ b.status = "failed" /\ b.call = "ambiguous"
          /\ b.kind = a.kind /\ b.prompt = a.prompt /\ b.code = "other"
      BY <3>6 DEF Attempt
    <3>8. attempts'[i] = [attempts[i] EXCEPT ![n] = b]
      BY <1>8, <2>2, <3>2, <3>5, <3>6 DEF ExpireStaleAttempts
    <3>9. item'[i] = [item[i] EXCEPT !.status = "needs_review", !.lease = 0]
      BY <1>8, <2>2 DEF ExpireStaleAttempts
    <3>10. /\ item'[i].status = "needs_review" /\ item'[i].lease = 0
           /\ item'[i].version = item[i].version
      BY <1>0, <3>9 DEF Item
    <3>11. PaperReturned(i)
      BY <3>1, <3>4, <3>5, <3>7, <3>8, <3>10 DEF PaperReturned
    <3> QED BY <3>11 DEF PaperStep
  <2> QED BY <2>1, <2>2
<1>9. ASSUME NEW x \in Items, RetryDelayEnds(x) PROVE PaperStep(i)
  <2>1. attempts'[i] = attempts[i]
    BY <1>9 DEF RetryDelayEnds
  <2>2. item'[i] = item[i] \/ item'[i] = [item[i] EXCEPT !.ready = TRUE]
    BY <1>9 DEF RetryDelayEnds, TypeOK
  <2>3. /\ item'[i].status = item[i].status /\ item'[i].lease = item[i].lease
        /\ item'[i].version = item[i].version
    BY <1>0, <2>2 DEF Item
  <2> QED BY <2>1, <2>3 DEF PaperStep, PaperKept
<1>10. CASE TeacherStep
  <2>1. ASSUME NEW j \in Jobs,
               RepeatCreateJob(j) \/ PauseJob(j) \/ ResumeJob(j)
        PROVE  PaperStep(i)
    BY <2>1, <1>1 DEF RepeatCreateJob, PauseJob, ResumeJob
  <2> QED BY <1>2, <1>3, <1>4, <1>5, <1>10, <2>1 DEF TeacherStep
<1>11. ASSUME NEW w \in Workers, WorkerStep(w) PROVE PaperStep(i)
  <2>1. ASSUME NEW x \in Items, NEW v \in 1..MaxRounds, PrepareItem(w, x, v)
        PROVE  PaperStep(i)
    BY <2>1, <1>1 DEF PrepareItem
  <2>2. ASSUME NEW o \in Outcomes, CallProvider(w, o) PROVE PaperStep(i)
    BY <2>2, <1>1 DEF CallProvider
  <2>3. CASE ClaimRefused(w) \/ FinishRejected(w) \/ WorkerLost(w)
    BY <2>3, <1>1 DEF ClaimRefused, FinishRejected, WorkerLost
  <2> QED BY <1>6, <1>7, <1>11, <2>1, <2>2, <2>3 DEF WorkerStep
<1>12. CASE MaintenanceStep
  <2>1. CASE DispatchReadyItems
    BY <2>1, <1>1 DEF DispatchReadyItems
  <2>2. ASSUME NEW m \in messages, LoseMessage(m) PROVE PaperStep(i)
    BY <2>2, <1>1 DEF LoseMessage
  <2> QED BY <1>8, <1>9, <1>12, <2>1, <2>2 DEF MaintenanceStep
<1>13. CASE ConfigurationStep
  BY <1>13, <1>1 DEF ConfigurationStep, BeginProviderUpdate,
     CommitProviderUpdate, EnableProvider, DisableProvider, ConfirmRubric
<1> QED BY <1>10, <1>11, <1>12, <1>13 DEF Next

-----------------------------------------------------------------------------
(* The invariant of one paper                                              *)

LeaseOf(i) ==
  /\ item[i].status = "running" =>
       /\ item[i].lease \in DOMAIN attempts[i]
       /\ item[i].lease = Len(attempts[i])
       /\ attempts[i][item[i].lease].status = "running"
       /\ attempts[i][item[i].lease].round = item[i].version
       /\ \A k \in DOMAIN attempts[i] :
            k # item[i].lease => attempts[i][k].status # "running"
  /\ item[i].status # "running" =>
       /\ item[i].lease = 0
       /\ \A k \in DOMAIN attempts[i] : attempts[i][k].status # "running"

OrderOf(i) ==
  /\ \A k \in DOMAIN attempts[i] : attempts[i][k].round <= item[i].version
  /\ \A k, l \in DOMAIN attempts[i] : k < l =>
       /\ attempts[i][k].round <= attempts[i][l].round
       /\ attempts[i][k].round = attempts[i][l].round
            => attempts[i][k].seq < attempts[i][l].seq

DoubtOf(i) ==
  /\ \A k, l \in DOMAIN attempts[i] :
       k < l /\ attempts[i][k].call = "ambiguous"
         => attempts[i][k].round < attempts[i][l].round
  /\ item[i].status \in {"queued", "running"} =>
       \A k \in DOMAIN attempts[i] :
         attempts[i][k].call = "ambiguous"
           => attempts[i][k].round < item[i].version

PaperInv(i) == LeaseOf(i) /\ OrderOf(i) /\ DoubtOf(i)

(* The invariants are these, for every paper.                              *)
LEMMA PaperInvAll ==
  (\A i \in Items : PaperInv(i))
    <=> /\ LeaseMatchesRunningAttempt /\ HistoryOrdered
        /\ NoCallAfterUnknownOutcome /\ NoDoubtInQueue
BY DEF PaperInv, LeaseOf, OrderOf, DoubtOf, LeaseMatchesRunningAttempt,
   HistoryOrdered, NoCallAfterUnknownOutcome, NoDoubtInQueue

(* A step that leaves the history alone, and opens a queue entry only for  *)
(* a paper without one in doubt, keeps a paper's invariant.                *)
LEMMA PaperHistoryKept ==
  ASSUME TypeOK, BornTogether, NEW i \in Items, PaperInv(i),
         PaperKept(i) \/ PaperOpened(i) \/ PaperEnded(i) \/ PaperRegraded(i)
  PROVE  PaperInv(i)'
<1>1. attempts'[i] = attempts[i]
  BY DEF PaperKept, PaperOpened, PaperEnded, PaperRegraded
<1>2. /\ item[i].version \in Nat
      /\ \A k \in DOMAIN attempts[i] : attempts[i][k].round \in Nat
  BY PaperTypes
<1>3. CASE PaperKept(i)
  BY <1>3 DEF PaperKept, PaperInv, LeaseOf, OrderOf, DoubtOf
<1>4. CASE PaperOpened(i)
  <2>1. attempts[i] = <<>> /\ DOMAIN attempts[i] = {}
    BY <1>4 DEF PaperOpened, BornTogether
  <2> QED BY <1>4, <2>1 DEF PaperOpened, PaperInv, LeaseOf, OrderOf, DoubtOf
<1>5. CASE PaperEnded(i)
  BY <1>5 DEF PaperEnded, Reviewable, PaperInv, LeaseOf, OrderOf, DoubtOf
<1>6. CASE PaperRegraded(i)
  <2>1. LeaseOf(i)'
    BY <1>6 DEF PaperRegraded, PaperInv, LeaseOf
  <2>2. \A k \in DOMAIN attempts[i] : attempts[i][k].round < item'[i].version
    BY <1>2, <1>6 DEF PaperRegraded, PaperInv, OrderOf
  <2>3. item'[i].version \in Nat
    BY <1>2, <1>6 DEF PaperRegraded
  <2>4. OrderOf(i)' /\ DoubtOf(i)'
    BY <1>1, <1>2, <2>2, <2>3 DEF PaperInv, OrderOf, DoubtOf
  <2> QED BY <2>1, <2>4 DEF PaperInv
<1> QED BY <1>3, <1>4, <1>5, <1>6

(* A claim appends a call that is the newest of the newest round.          *)
LEMMA PaperClaimKept ==
  ASSUME TypeOK, HistoryOrdered, NEW i \in Items, PaperInv(i), PaperClaimed(i)
  PROVE  PaperInv(i)'
<1> DEFINE s == attempts[i]
           t == attempts'[i]
           n == Len(s) + 1
<1>1. /\ s \in Seq(Attempt) /\ Len(s) \in Nat /\ DOMAIN s = 1..Len(s)
      /\ item[i].version \in Nat
      /\ \A k \in DOMAIN s : s[k].round \in Nat /\ s[k].seq \in Nat
  BY PaperTypes
<1>2. PICK a \in Attempt :
        /\ t = Append(s, a)
        /\ a.round = item[i].version /\ a.seq = NextCall(i)
        /\ a.status = "running" /\ a.call = "started"
  BY DEF PaperClaimed
<1>3. /\ item[i].status = "queued" /\ item'[i].status = "running"
      /\ item'[i].version = item[i].version /\ item'[i].lease = n
  BY DEF PaperClaimed
<1>4. /\ Len(t) = n /\ DOMAIN t = 1..n /\ t[n] = a
      /\ \A k \in 1..Len(s) : t[k] = s[k]
  BY <1>1, <1>2, AppendProperties
<1>5. \A k \in 1..n : k = n \/ k \in DOMAIN s
  BY <1>1
<1>6. n \in 1..n /\ n \notin DOMAIN s
  BY <1>1
<1>7. \A k \in DOMAIN s :
        /\ t[k] = s[k] /\ s[k].status # "running"
        /\ s[k].round <= item[i].version
        /\ s[k].call = "ambiguous" => s[k].round < item[i].version
  BY <1>1, <1>3, <1>4 DEF PaperInv, LeaseOf, OrderOf, DoubtOf
<1>8. \A k \in DOMAIN s : s[k].round = a.round => s[k].seq < a.seq
  BY <1>2, NextCallFresh DEF InRound
<1>9. LeaseOf(i)'
  BY <1>2, <1>3, <1>4, <1>5, <1>6, <1>7 DEF LeaseOf
<1>10. \A k, l \in 1..n : k < l => k \in DOMAIN s
  BY <1>1
<1>11. OrderOf(i)'
  <2>1. ASSUME NEW k \in DOMAIN t PROVE t[k].round <= item'[i].version
    BY <1>1, <1>2, <1>3, <1>4, <1>5, <1>7
  <2>2. ASSUME NEW k \in DOMAIN t, NEW l \in DOMAIN t, k < l
        PROVE  /\ t[k].round <= t[l].round
               /\ t[k].round = t[l].round => t[k].seq < t[l].seq
    <3>1. k \in DOMAIN s /\ t[k] = s[k]
      BY <1>4, <1>7, <1>10, <2>2
    <3>2. CASE l = n
      BY <1>2, <1>4, <1>7, <1>8, <3>1, <3>2
    <3>3. CASE l \in DOMAIN s
      BY <1>7, <2>2, <3>1, <3>3 DEF PaperInv, OrderOf
    <3> QED BY <1>4, <1>5, <3>2, <3>3
  <2> QED BY <2>1, <2>2 DEF OrderOf
<1>12. DoubtOf(i)'
  <2>1. ASSUME NEW k \in DOMAIN t, t[k].call = "ambiguous"
        PROVE  t[k].round < item'[i].version
    BY <1>2, <1>3, <1>4, <1>5, <1>7, <2>1
  <2>2. ASSUME NEW k \in DOMAIN t, NEW l \in DOMAIN t, k < l,
               t[k].call = "ambiguous"
        PROVE  t[k].round < t[l].round
    <3>1. k \in DOMAIN s /\ t[k] = s[k]
      BY <1>4, <1>7, <1>10, <2>2
    <3>2. CASE l = n
      BY <1>2, <1>4, <1>7, <2>2, <3>1, <3>2
    <3>3. CASE l \in DOMAIN s
      BY <1>7, <2>2, <3>1, <3>3 DEF PaperInv, DoubtOf
    <3> QED BY <1>4, <1>5, <3>2, <3>3
  <2> QED BY <2>1, <2>2 DEF DoubtOf
<1> QED BY <1>9, <1>11, <1>12 DEF PaperInv

(* Finishing or expiring a call closes the last attempt in its place.      *)
LEMMA PaperReturnKept ==
  ASSUME TypeOK, NEW i \in Items, PaperInv(i), PaperReturned(i)
  PROVE  PaperInv(i)'
<1> DEFINE s == attempts[i]
           t == attempts'[i]
           n == Len(s)
<1>1. /\ s \in Seq(Attempt) /\ Len(s) \in Nat /\ DOMAIN s = 1..Len(s)
      /\ item[i].version \in Nat
      /\ \A k \in DOMAIN s : s[k].round \in Nat /\ s[k].seq \in Nat
  BY PaperTypes
<1>2. PICK b \in Attempt :
        /\ t = [s EXCEPT ![n] = b]
        /\ b.round = s[n].round /\ b.seq = s[n].seq
        /\ b.status # "running"
        /\ item'[i].status = "queued" => b.call # "ambiguous"
  BY DEF PaperReturned
<1>3. /\ item[i].status = "running" /\ item'[i].status # "running"
      /\ item'[i].version = item[i].version /\ item'[i].lease = 0
  BY DEF PaperReturned
<1>4. n \in DOMAIN s
  BY <1>3 DEF PaperInv, LeaseOf
<1>5. /\ DOMAIN t = DOMAIN s /\ t[n] = b
      /\ \A k \in DOMAIN s : k # n => t[k] = s[k]
  BY <1>1, <1>2, <1>4
<1>6. \A k \in DOMAIN s : t[k].round = s[k].round /\ t[k].seq = s[k].seq
  BY <1>2, <1>5
<1>7. LeaseOf(i)'
  BY <1>2, <1>3, <1>5 DEF PaperInv, LeaseOf
<1>8. OrderOf(i)'
  BY <1>3, <1>5, <1>6 DEF PaperInv, OrderOf
<1>9. DoubtOf(i)'
  <2>1. \A k, l \in DOMAIN s : k < l => k # n
    BY <1>1
  <2>2. ASSUME NEW k \in DOMAIN s, NEW l \in DOMAIN s, k < l,
               t[k].call = "ambiguous"
        PROVE  t[k].round < t[l].round
    BY <1>5, <1>6, <2>1, <2>2 DEF PaperInv, DoubtOf
  <2>3. ASSUME item'[i].status \in {"queued", "running"},
               NEW k \in DOMAIN s, t[k].call = "ambiguous"
        PROVE  t[k].round < item'[i].version
    <3>1. k # n
      BY <1>2, <1>3, <1>5, <2>3
    <3> QED BY <1>3, <1>5, <2>3, <3>1 DEF PaperInv, DoubtOf
  <2> QED BY <1>5, <2>2, <2>3 DEF DoubtOf
<1> QED BY <1>7, <1>8, <1>9 DEF PaperInv

-----------------------------------------------------------------------------
(* Batches                                                                 *)

(* No step makes a batch disappear.                                        *)
LEMMA BatchesStay ==
  ASSUME TypeOK, Next, NEW j \in Jobs, job'[j].status = "absent"
  PROVE  job[j].status = "absent"
<1>0. job \in [Jobs -> Job]
  BY DEF TypeOK
<1>1. CASE TeacherStep
  <2>1. ASSUME NEW x \in Jobs, \/ CreateJob(x) \/ RepeatCreateJob(x)
                               \/ PauseJob(x) \/ ResumeJob(x) \/ CancelJob(x)
        PROVE  job[j].status = "absent"
    BY <1>0, <2>1 DEF CreateJob, RepeatCreateJob, PauseJob, ResumeJob,
       CancelJob, Job
  <2>2. ASSUME NEW i \in Items, RetryItem(i) PROVE job[j].status = "absent"
    <3>1. job' = [job EXCEPT ![JobOf[i]].status = "running"]
      BY <2>2 DEF RetryItem
    <3> QED BY <1>0, <3>1 DEF Job
  <2>3. ASSUME NEW S \in (SUBSET Items) \ {{}}, ConfirmItems(S)
        PROVE  job[j].status = "absent"
    <3>1. CASE job'[j] = job[j]
      BY <3>1
    <3>2. CASE job'[j] # job[j]
      <4>1. PICK st \in {"completed", "needs_review", "paused", "running"} :
              job'[j] = [job[j] EXCEPT !.status = st]
        BY <2>3, <3>2 DEF ConfirmItems
      <4> QED BY <1>0, <4>1 DEF Job
    <3> QED BY <3>1, <3>2
  <2> QED BY <1>1, <2>1, <2>2, <2>3 DEF TeacherStep
<1>2. ASSUME NEW w \in Workers, WorkerStep(w) PROVE job[j].status = "absent"
  <2>1. CASE job' = job
    BY <2>1
  <2>2. CASE ClaimAttempt(w)
    <3>1. PICK x : job' = [job EXCEPT ![x].status = "running"]
      BY <2>2 DEF ClaimAttempt
    <3> QED BY <1>0, <3>1 DEF Job
  <2>3. CASE FinishAttempt(w)
    <3>1. PICK i \in Items : i = worker[w].item
      BY <2>3, WorkerTypes DEF FinishAttempt
    <3>2. PICK st : st = Reconcile(JobOf[i], item')
      OBVIOUS
    <3>3. job' = [job EXCEPT ![JobOf[i]].status = st]
      BY <2>3, <3>1, <3>2 DEF FinishAttempt
    <3>4. JobOf[i] \in Jobs
      BY PipelineAssumption
    <3>5. st = "absent" => job[JobOf[i]].status = "absent"
      BY <3>2, <3>4, ReconcileStatus
    <3> QED BY <1>0, <3>3, <3>5 DEF Job
  <2>4. ASSUME NEW i \in Items, NEW v \in 1..MaxRounds, PrepareItem(w, i, v)
        PROVE  job' = job
    BY <2>4 DEF PrepareItem
  <2>5. ASSUME NEW o \in Outcomes, CallProvider(w, o) PROVE job' = job
    BY <2>5 DEF CallProvider
  <2>6. ClaimRefused(w) \/ FinishRejected(w) \/ WorkerLost(w) => job' = job
    BY DEF ClaimRefused, FinishRejected, WorkerLost
  <2> QED BY <1>2, <2>1, <2>2, <2>3, <2>4, <2>5, <2>6 DEF WorkerStep
<1>3. CASE MaintenanceStep
  <2>1. CASE job' = job
    BY <2>1
  <2>2. ASSUME NEW S \in (SUBSET Items) \ {{}}, ExpireStaleAttempts(S)
        PROVE  job[j].status = "absent"
    <3>1. job' = [k \in Jobs |-> [job[k] EXCEPT !.status =
             IF \E i \in S : JobOf[i] = k THEN Reconcile(k, item') ELSE @]]
      BY <2>2 DEF ExpireStaleAttempts
    <3>2. job'[j].status = IF \E i \in S : JobOf[i] = j
                           THEN Reconcile(j, item') ELSE job[j].status
      BY <1>0, <3>1 DEF Job
    <3> QED BY <3>2, ReconcileStatus
  <2> QED BY <1>3, <2>1, <2>2 DEF MaintenanceStep, DispatchReadyItems,
          RetryDelayEnds, LoseMessage
<1>4. CASE ConfigurationStep
  BY <1>0, <1>4 DEF ConfigurationStep, BeginProviderUpdate,
     CommitProviderUpdate, EnableProvider, DisableProvider, ConfirmRubric, Job
<1> QED BY <1>1, <1>2, <1>3, <1>4 DEF Next

-----------------------------------------------------------------------------
(* The theorems                                                            *)

(* Initially there are no batches, so the invariant holds.                 *)
LEMMA InitInv == Init => PipelineInv
<1> SUFFICES ASSUME Init PROVE PipelineInv
  OBVIOUS
<1>1. TypeOK
  <2>1. job \in [Jobs -> Job]
    BY DEF Init, Job, JobStatus
  <2>2. item \in [Items -> Item]
    BY DEF Init, Item, ItemStatus
  <2>3. attempts \in [Items -> Seq(Attempt)]
    BY DEF Init
  <2> QED BY <2>1, <2>2, <2>3 DEF Init, TypeOK
<1>2. /\ \A i \in Items : /\ item[i].status = "absent" /\ item[i].lease = 0
                          /\ attempts[i] = <<>> /\ DOMAIN attempts[i] = {}
  BY DEF Init
<1>3. \A i \in Items : PaperInv(i)
  BY <1>2 DEF PaperInv, LeaseOf, OrderOf, DoubtOf
<1>4. BornTogether
  BY <1>2 DEF BornTogether
<1> QED BY <1>1, <1>3, <1>4, PaperInvAll DEF PipelineInv

(* Every step keeps it.                                                    *)
LEMMA StepInv == PipelineInv /\ [Next]_vars => PipelineInv'
<1> SUFFICES ASSUME PipelineInv, [Next]_vars PROVE PipelineInv'
  OBVIOUS
<1>0. /\ TypeOK /\ LeaseMatchesRunningAttempt /\ HistoryOrdered
      /\ BornTogether /\ \A i \in Items : PaperInv(i)
  BY PaperInvAll DEF PipelineInv
<1>1. CASE UNCHANGED vars
  BY <1>1 DEF vars, PipelineInv, TypeOK, LeaseMatchesRunningAttempt,
     NoCallAfterUnknownOutcome, HistoryOrdered, NoDoubtInQueue, BornTogether
<1>2. CASE Next
  <2>1. TypeOK'
    BY <1>0, <1>2, TeacherTypes, WorkerStepTypes, MaintenanceTypes,
       ConfigurationTypes DEF Next
  <2>2. \A i \in Items : PaperStep(i)
    BY <1>0, <1>2, PaperStepOfNext
  <2>3. \A i \in Items : PaperInv(i)'
    BY <1>0, <2>2, PaperHistoryKept, PaperClaimKept, PaperReturnKept
       DEF PaperStep
  <2>4. BornTogether'
    <3>1. ASSUME NEW i \in Items
          PROVE  /\ job'[JobOf[i]].status = "absent"
                      => item'[i].status = "absent"
                 /\ item'[i].status = "absent" => attempts'[i] = <<>>
      <4>1. JobOf[i] \in Jobs
        BY PipelineAssumption
      <4>2. job'[JobOf[i]].status = "absent" => item[i].status = "absent"
        BY <1>0, <1>2, <4>1, BatchesStay DEF BornTogether
      <4>3. item[i].status = "absent" => attempts[i] = <<>>
        BY <1>0 DEF BornTogether
      <4> QED BY <2>2, <4>2, <4>3 DEF PaperStep, PaperKept, PaperOpened,
              PaperEnded, PaperRegraded, PaperClaimed, PaperReturned, Reviewable
    <3> QED BY <3>1 DEF BornTogether
  <2>5. /\ LeaseMatchesRunningAttempt' /\ HistoryOrdered'
        /\ NoCallAfterUnknownOutcome' /\ NoDoubtInQueue'
    BY <2>3 DEF PaperInv, LeaseOf, OrderOf, DoubtOf, NoDoubtInQueue,
       LeaseMatchesRunningAttempt, HistoryOrdered, NoCallAfterUnknownOutcome
  <2> QED BY <2>1, <2>4, <2>5 DEF PipelineInv
<1> QED BY <1>1, <1>2

(* The tables, queue and workers of the pipeline always satisfy the        *)
(* inductive invariant: types, leases, ordered histories, no doubt in the  *)
(* queue.  It rests on what claim_attempt, finish_* and                    *)
(* expire_stale_attempts do to one paper.                                  *)
THEOREM PipelineInvariant == Spec => []PipelineInv
<1>1. Init => PipelineInv
  BY InitInv
<1>2. PipelineInv /\ [Next]_vars => PipelineInv'
  BY StepInv
<1> QED BY <1>1, <1>2, PTL DEF Spec

(* Every variable keeps its type: statuses, attempt rows and messages are  *)
(* of the kinds the schema allows.                                         *)
THEOREM TypeCorrect == Spec => []TypeOK
<1>1. PipelineInv => TypeOK
  BY DEF PipelineInv
<1> QED BY <1>1, PipelineInvariant, PTL

(* For any number of workers, duplicated messages and expiries: a running  *)
(* paper has exactly one running attempt, its newest, in its current       *)
(* round, and its lease_token is that attempt's.                           *)
THEOREM LeaseIsExclusive == Spec => []LeaseMatchesRunningAttempt
<1>1. PipelineInv => LeaseMatchesRunningAttempt
  BY DEF PipelineInv
<1> QED BY <1>1, PipelineInvariant, PTL

(* For any number of workers, redeliveries and retries: a call whose       *)
(* outcome is unknown is never repeated within its round.                  *)
THEOREM NoRepeatInDoubt == Spec => []NoCallAfterUnknownOutcome
<1>1. PipelineInv => NoCallAfterUnknownOutcome
  BY DEF PipelineInv
<1> QED BY <1>1, PipelineInvariant, PTL

(* For any number of workers: no step rewrites a finished attempt, also    *)
(* not a worker that answers after its lease was taken away.               *)
THEOREM HistoryImmutable == Spec => FinishedAttemptsImmutable
<1> DEFINE A == \A i \in Items :
       /\ Len(attempts'[i]) >= Len(attempts[i])
       /\ \A k \in DOMAIN attempts[i] :
            attempts[i][k].status # "running"
              => attempts'[i][k] = attempts[i][k]
<1>1. PipelineInv /\ [Next]_vars => [A]_vars
  <2> SUFFICES ASSUME PipelineInv, Next, NEW i \in Items
               PROVE  /\ Len(attempts'[i]) >= Len(attempts[i])
                      /\ \A k \in DOMAIN attempts[i] :
                           attempts[i][k].status # "running"
                             => attempts'[i][k] = attempts[i][k]
    OBVIOUS
  <2>0. TypeOK /\ LeaseMatchesRunningAttempt /\ HistoryOrdered /\ BornTogether
    BY DEF PipelineInv
  <2>1. /\ attempts[i] \in Seq(Attempt) /\ Len(attempts[i]) \in Nat
        /\ DOMAIN attempts[i] = 1..Len(attempts[i])
    BY <2>0, PaperTypes
  <2>2. PaperStep(i)
    BY <2>0, PaperStepOfNext
  <2>3. CASE PaperClaimed(i)
    BY <2>1, <2>3, AppendProperties DEF PaperClaimed
  <2>4. CASE PaperReturned(i)
    <3>1. PICK b \in Attempt :
            attempts'[i] = [attempts[i] EXCEPT ![Len(attempts[i])] = b]
      BY <2>4 DEF PaperReturned
    <3>2. /\ Len(attempts[i]) \in DOMAIN attempts[i]
          /\ attempts[i][Len(attempts[i])].status = "running"
      BY <2>0, <2>4, LeaseIsLast DEF PaperReturned
    <3>3. Len(attempts'[i]) = Len(attempts[i])
      BY <2>1, <3>1, <3>2, ExceptSeq
    <3>4. \A k \in DOMAIN attempts[i] :
            k # Len(attempts[i]) => attempts'[i][k] = attempts[i][k]
      BY <2>1, <3>1
    <3> QED BY <2>1, <3>2, <3>3, <3>4
  <2>5. CASE attempts'[i] = attempts[i]
    BY <2>1, <2>5
  <2> QED BY <2>2, <2>3, <2>4, <2>5 DEF PaperStep, PaperKept, PaperOpened,
          PaperEnded, PaperRegraded
<1> QED BY <1>1, PipelineInvariant, PTL DEF Spec, FinishedAttemptsImmutable

(* No step takes a batch out of "cancelled": neither a confirmation, nor a *)
(* re-grading, nor the result of a call that was still running.            *)
LEMMA CancelledStays ==
  ASSUME TypeOK, Next, NEW j \in Jobs, job[j].status = "cancelled"
  PROVE  job'[j].status = "cancelled"
<1>0. job \in [Jobs -> Job]
  BY DEF TypeOK
<1>1. \A its : Reconcile(j, its) = "cancelled"
  BY DEF Reconcile
<1>2. CASE TeacherStep
  <2>1. ASSUME NEW x \in Jobs, \/ CreateJob(x) \/ RepeatCreateJob(x)
                               \/ PauseJob(x) \/ ResumeJob(x) \/ CancelJob(x)
        PROVE  job'[j].status = "cancelled"
    BY <1>0, <2>1 DEF CreateJob, RepeatCreateJob, PauseJob, ResumeJob,
       CancelJob, Job
  <2>2. ASSUME NEW i \in Items, RetryItem(i)
        PROVE  job'[j].status = "cancelled"
    <3>1. /\ job' = [job EXCEPT ![JobOf[i]].status = "running"]
          /\ JobOf[i] # j
      BY <2>2 DEF RetryItem
    <3> QED BY <1>0, <3>1
  <2>3. ASSUME NEW S \in (SUBSET Items) \ {{}}, ConfirmItems(S)
        PROVE  job'[j].status = "cancelled"
    <3>1. \A i \in S : JobOf[i] # j
      BY <2>3 DEF ConfirmItems
    <3>2. job'[j] = job[j]
      BY <2>3, <3>1 DEF ConfirmItems
    <3> QED BY <3>2
  <2> QED BY <1>2, <2>1, <2>2, <2>3 DEF TeacherStep
<1>3. ASSUME NEW w \in Workers, WorkerStep(w) PROVE job'[j].status = "cancelled"
  <2>1. CASE job' = job
    BY <2>1
  <2>2. CASE ClaimAttempt(w)
    <3>1. PICK x : x = JobOf[worker[w].item]
      OBVIOUS
    <3>2. job' = [job EXCEPT ![x].status = "running"]
      BY <2>2, <3>1 DEF ClaimAttempt
    <3>3. job[x].status \in {"queued", "running"}
      BY <2>2, <3>1 DEF ClaimAttempt, Claimable, Dispatchable
    <3> QED BY <1>0, <3>2, <3>3 DEF Job
  <2>3. CASE FinishAttempt(w)
    <3>1. PICK x : x = JobOf[worker[w].item]
      OBVIOUS
    <3>2. PICK st : st = Reconcile(x, item')
      OBVIOUS
    <3>3. job' = [job EXCEPT ![x].status = st]
      BY <2>3, <3>1, <3>2 DEF FinishAttempt
    <3>4. x = j => st = "cancelled"
      BY <1>1, <3>2
    <3> QED BY <1>0, <3>3, <3>4 DEF Job
  <2>4. ASSUME NEW i \in Items, NEW v \in 1..MaxRounds, PrepareItem(w, i, v)
        PROVE  job' = job
    BY <2>4 DEF PrepareItem
  <2>5. ASSUME NEW o \in Outcomes, CallProvider(w, o) PROVE job' = job
    BY <2>5 DEF CallProvider
  <2>6. ClaimRefused(w) \/ FinishRejected(w) \/ WorkerLost(w) => job' = job
    BY DEF ClaimRefused, FinishRejected, WorkerLost
  <2> QED BY <1>3, <2>1, <2>2, <2>3, <2>4, <2>5, <2>6 DEF WorkerStep
<1>4. CASE MaintenanceStep
  <2>1. CASE job' = job
    BY <2>1
  <2>2. ASSUME NEW S \in (SUBSET Items) \ {{}}, ExpireStaleAttempts(S)
        PROVE  job'[j].status = "cancelled"
    <3>1. job' = [k \in Jobs |-> [job[k] EXCEPT !.status =
             IF \E i \in S : JobOf[i] = k THEN Reconcile(k, item') ELSE @]]
      BY <2>2 DEF ExpireStaleAttempts
    <3>2. job'[j].status = IF \E i \in S : JobOf[i] = j
                           THEN Reconcile(j, item') ELSE job[j].status
      BY <1>0, <3>1 DEF Job
    <3> QED BY <1>1, <3>2
  <2> QED BY <1>4, <2>1, <2>2 DEF MaintenanceStep, DispatchReadyItems,
          RetryDelayEnds, LoseMessage
<1>5. CASE ConfigurationStep
  BY <1>0, <1>5 DEF ConfigurationStep, BeginProviderUpdate,
     CommitProviderUpdate, EnableProvider, DisableProvider, ConfirmRubric, Job
<1> QED BY <1>2, <1>3, <1>4, <1>5 DEF Next

(* For any number of workers and messages still in the queue: cancelling a *)
(* batch is final and no paper of it is claimed again.                     *)
THEOREM CancelIsFinal == Spec => CancelledBatchStaysQuiet
<1>1. PipelineInv /\ [Next]_vars =>
        [\A i \in Items : job[JobOf[i]].status = "cancelled" =>
           /\ job'[JobOf[i]].status = "cancelled"
           /\ Len(attempts'[i]) = Len(attempts[i])]_vars
  <2> SUFFICES ASSUME PipelineInv, Next, NEW i \in Items,
                      job[JobOf[i]].status = "cancelled"
               PROVE  /\ job'[JobOf[i]].status = "cancelled"
                      /\ Len(attempts'[i]) = Len(attempts[i])
    OBVIOUS
  <2>0. TypeOK /\ LeaseMatchesRunningAttempt /\ HistoryOrdered /\ BornTogether
    BY DEF PipelineInv
  <2>1. job'[JobOf[i]].status = "cancelled"
    BY <2>0, CancelledStays, PipelineAssumption
  <2>2. PaperStep(i) /\ ~PaperClaimed(i)
    BY <2>0, PaperStepOfNext DEF PaperClaimed
  <2>3. CASE PaperReturned(i)
    <3>1. PICK b \in Attempt :
            attempts'[i] = [attempts[i] EXCEPT ![Len(attempts[i])] = b]
      BY <2>3 DEF PaperReturned
    <3>2. Len(attempts[i]) \in DOMAIN attempts[i]
      BY <2>0, <2>3, LeaseIsLast DEF PaperReturned
    <3>3. attempts[i] \in Seq(Attempt)
      BY <2>0, PaperTypes
    <3>4. Len(attempts'[i]) = Len(attempts[i])
      BY <3>1, <3>2, <3>3, ExceptSeq
    <3> QED BY <2>1, <3>4
  <2> QED BY <2>1, <2>2, <2>3 DEF PaperStep, PaperKept, PaperOpened,
          PaperEnded, PaperRegraded
<1> QED BY <1>1, PipelineInvariant, PTL DEF Spec, CancelledBatchStaysQuiet
=============================================================================
