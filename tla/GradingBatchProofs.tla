------------------------- MODULE GradingBatchProofs -------------------------
(***************************************************************************)
(* What a batch, its provider and its history can rely on, for any         *)
(* batches, papers and workers: the batch status follows from its papers,  *)
(* the provider's limit holds, answers are stored before they are          *)
(* reported, and the calls of one round are bounded.  With one worker, the *)
(* deployed set-up, also the kinds and corrections of attempts.            *)
(***************************************************************************)
EXTENDS GradingPipelineProofs, FiniteSetTheorems

-----------------------------------------------------------------------------
(* Batch status                                                            *)

BatchOf(j) ==
  /\ job[j].status = "absent" <=>
       \A i \in ItemsOf(j) : item[i].status = "absent"
  /\ job[j].status \in {"queued", "running", "paused"} =>
       \E i \in ItemsOf(j) : Active(item, i)
  /\ job[j].status \in {"needs_review", "completed", "failed"} =>
       \A i \in ItemsOf(j) : ~Active(item, i)
  /\ job[j].status = "completed" <=>
       \A i \in ItemsOf(j) : item[i].status = "completed"

(* The statuses of a batch and its papers, and that it has papers.         *)
LEMMA BatchTypes ==
  ASSUME TypeOK, NEW j \in Jobs
  PROVE  /\ job[j] \in Job /\ job[j].status \in JobStatus
         /\ ItemsOf(j) # {}
         /\ \A i \in ItemsOf(j) : /\ i \in Items /\ JobOf[i] = j
                                  /\ item[i] \in Item
                                  /\ item[i].status \in ItemStatus
<1>1. job[j] \in Job /\ job[j].status \in JobStatus
  BY DEF TypeOK, Job
<1>2. ItemsOf(j) # {}
  BY BatchAssumption DEF ItemsOf
<1> QED BY <1>1, <1>2 DEF ItemsOf, TypeOK, Item

LEMMA BatchKept ==
  ASSUME NEW j \in Jobs, BatchOf(j), job'[j].status = job[j].status,
         \A i \in ItemsOf(j) : item'[i].status = item[i].status
  PROVE  BatchOf(j)'
BY DEF BatchOf, Active

(* A teacher's operation keeps a batch in agreement.                       *)
LEMMA TeacherBatch ==
  ASSUME TypeOK, BornTogether, TeacherStep, NEW j \in Jobs, BatchOf(j)
  PROVE  BatchOf(j)'
<1>0. /\ job[j] \in Job /\ job[j].status \in JobStatus /\ ItemsOf(j) # {}
      /\ \A i \in ItemsOf(j) : /\ i \in Items /\ JobOf[i] = j
                               /\ item[i] \in Item
                               /\ item[i].status \in ItemStatus
  BY BatchTypes
<1>1. ASSUME NEW x \in Jobs, CreateJob(x) PROVE BatchOf(j)'
  <2>1. CASE x = j
    <3>1. job'[j].status = "queued"
      BY <1>1, <2>1 DEF CreateJob, TypeOK
    <3>2. \A i \in ItemsOf(j) : item'[i] = [item[i] EXCEPT !.status = "queued"]
      BY <1>0, <1>1, <2>1 DEF CreateJob
    <3>3. \A i \in ItemsOf(j) : item'[i].status = "queued"
      BY <1>0, <3>2 DEF Item
    <3> QED BY <1>0, <3>1, <3>3 DEF BatchOf, Active
  <2>2. CASE x # j
    <3>1. job'[j] = job[j] /\ \A i \in ItemsOf(j) : item'[i] = item[i]
      BY <1>0, <1>1, <2>2 DEF CreateJob, TypeOK
    <3> QED BY <3>1, BatchKept
  <2> QED BY <2>1, <2>2
<1>2. ASSUME NEW x \in Jobs, RepeatCreateJob(x) PROVE BatchOf(j)'
  BY <1>2, BatchKept DEF RepeatCreateJob
<1>3. ASSUME NEW x \in Jobs, PauseJob(x) \/ ResumeJob(x) PROVE BatchOf(j)'
  <2>1. CASE x = j
    <3>1. /\ job[j].status \in {"queued", "running", "paused"}
          /\ job'[j].status \in {"paused", "running"}
      BY <1>0, <1>3, <2>1 DEF PauseJob, ResumeJob, TypeOK, Job
    <3>2. item' = item
      BY <1>3 DEF PauseJob, ResumeJob
    <3> QED BY <3>1, <3>2 DEF BatchOf, Active
  <2>2. CASE x # j
    <3>1. job'[j] = job[j] /\ item' = item
      BY <1>3, <2>2 DEF PauseJob, ResumeJob, TypeOK
    <3> QED BY <3>1, BatchKept
  <2> QED BY <2>1, <2>2
<1>4. ASSUME NEW x \in Jobs, CancelJob(x) PROVE BatchOf(j)'
  <2>1. CASE x = j
    <3>1. /\ job[j].status \in {"queued", "running", "paused"}
          /\ job'[j].status = "cancelled"
      BY <1>0, <1>4, <2>1 DEF CancelJob, TypeOK, Job
    <3>2. \A i \in ItemsOf(j) :
            item'[i] = IF item[i].status = "queued"
                       THEN [item[i] EXCEPT !.status = "cancelled"]
                       ELSE item[i]
      BY <1>0, <1>4, <2>1 DEF CancelJob
    <3>3. \A i \in ItemsOf(j) :
            item'[i].status = IF item[i].status = "queued"
                              THEN "cancelled" ELSE item[i].status
      BY <1>0, <3>2 DEF Item
    <3>4. PICK i \in ItemsOf(j) : Active(item, i)
      BY <3>1 DEF BatchOf
    <3>5. item'[i].status \in {"cancelled", "running"}
      BY <3>3, <3>4 DEF Active
    <3> QED BY <3>1, <3>5 DEF BatchOf
  <2>2. CASE x # j
    <3>1. job'[j] = job[j] /\ \A i \in ItemsOf(j) : item'[i] = item[i]
      BY <1>0, <1>4, <2>2 DEF CancelJob, TypeOK
    <3> QED BY <3>1, BatchKept
  <2> QED BY <2>1, <2>2
<1>5. ASSUME NEW x \in Items, RetryItem(x) PROVE BatchOf(j)'
  <2>0. /\ job' = [job EXCEPT ![JobOf[x]].status = "running"]
        /\ item'[x].status = "queued"
        /\ \A i \in Items : i # x => item'[i] = item[i]
    BY <1>5 DEF RetryItem, TypeOK
  <2>1. CASE JobOf[x] = j
    <3>1. job'[j].status = "running" /\ x \in ItemsOf(j)
      BY <1>0, <2>0, <2>1 DEF TypeOK, Job, ItemsOf
    <3> QED BY <2>0, <3>1 DEF BatchOf, Active
  <2>2. CASE JobOf[x] # j
    <3>1. job'[j] = job[j] /\ \A i \in ItemsOf(j) : item'[i] = item[i]
      BY <1>0, <2>0, <2>2 DEF TypeOK
    <3> QED BY <3>1, BatchKept
  <2> QED BY <2>1, <2>2
<1>6. ASSUME NEW S \in (SUBSET Items) \ {{}}, ConfirmItems(S)
      PROVE  BatchOf(j)'
  <2>1. CASE \A i \in S : JobOf[i] # j
    <3>1. job'[j] = job[j] /\ \A i \in ItemsOf(j) : item'[i] = item[i]
      BY <1>0, <1>6, <2>1 DEF ConfirmItems
    <3> QED BY <3>1, BatchKept
  <2>2. CASE \E i \in S : JobOf[i] = j
    <3>1. PICK x \in S : JobOf[x] = j
      BY <2>2
    <3>2. x \in ItemsOf(j) /\ x \in Items
      BY <3>1 DEF ItemsOf
    <3>3. item'[x].status = "completed"
      <4>1. item'[x] = [item[x] EXCEPT !.status = "completed"]
        BY <1>6, <3>1, <3>2 DEF ConfirmItems
      <4> QED BY <1>0, <3>2, <4>1 DEF Item
    <3>4. PICK st : /\ job'[j] = [job[j] EXCEPT !.status = st]
                    /\ st = IF \A i \in ItemsOf(j) :
                                 item'[i].status = "completed"
                            THEN "completed"
                            ELSE IF \A i \in ItemsOf(j) : ~Active(item', i)
                            THEN "needs_review"
                            ELSE IF job[j].status = "paused" THEN "paused"
                            ELSE "running"
      BY <1>6, <2>2 DEF ConfirmItems
    <3>5. job'[j].status = st
      BY <1>0, <3>4 DEF Job
    <3>6. st = "completed" <=>
            \A i \in ItemsOf(j) : item'[i].status = "completed"
      BY <3>4
    <3>7. st \in {"paused", "running"} =>
            \E i \in ItemsOf(j) : Active(item', i)
      BY <3>4
    <3>8. st \in {"needs_review", "completed"} =>
            \A i \in ItemsOf(j) : ~Active(item', i)
      BY <3>4 DEF Active
    <3>9. st \in {"completed", "needs_review", "paused", "running"}
      BY <3>4
    <3> QED BY <3>2, <3>3, <3>5, <3>6, <3>7, <3>8, <3>9 DEF BatchOf
  <2> QED BY <2>1, <2>2
<1> QED BY <1>1, <1>2, <1>3, <1>4, <1>5, <1>6 DEF TeacherStep

(* _reconcile_job keeps a batch in agreement when papers of it stop        *)
(* running: none of them is confirmed, so it is not complete.              *)
LEMMA ReconcileBatch ==
  ASSUME TypeOK, NEW j \in Jobs, BatchOf(j),
         NEW S \in SUBSET ItemsOf(j), S # {},
         \A i \in S : /\ item[i].status = "running"
                      /\ item'[i].status
                           \in {"queued", "needs_review", "failed"},
         \A i \in ItemsOf(j) \ S : item'[i].status = item[i].status,
         job'[j].status = Reconcile(j, item')
  PROVE  BatchOf(j)'
<1>0. job[j].status \in JobStatus /\ \A i \in S : i \in ItemsOf(j)
  BY BatchTypes
<1>1. PICK x \in S : x \in ItemsOf(j) /\ item[x].status = "running"
  OBVIOUS
<1>2. job[j].status \in {"queued", "running", "paused", "cancelled"}
  BY <1>0, <1>1 DEF BatchOf, Active, JobStatus
<1>3. \A i \in ItemsOf(j) :
        item'[i].status = "completed" => item[i].status = "completed"
  BY <1>0
<1>4. item'[x].status \in {"queued", "needs_review", "failed"}
  BY <1>1
<1> DEFINE has(T) == \E i \in ItemsOf(j) : item'[i].status \in T
<1>5. CASE job[j].status = "cancelled"
  <2>1. job'[j].status = "cancelled"
    BY <1>5 DEF Reconcile
  <2> QED BY <1>1, <1>4, <2>1 DEF BatchOf
<1>6. CASE job[j].status # "cancelled" /\ has({"queued", "running"})
  <2>1. job'[j].status = job[j].status
    BY <1>6 DEF Reconcile
  <2>2. \E i \in ItemsOf(j) : Active(item', i)
    BY <1>6 DEF Active
  <2> QED BY <1>1, <1>2, <1>4, <1>6, <2>1, <2>2 DEF BatchOf
<1>7. CASE job[j].status # "cancelled" /\ ~has({"queued", "running"})
  <2>1. job'[j].status \in {"needs_review", "failed", "cancelled"}
    BY <1>7 DEF Reconcile
  <2>2. \A i \in ItemsOf(j) : ~Active(item', i)
    BY <1>7 DEF Active
  <2> QED BY <1>1, <1>4, <2>1, <2>2 DEF BatchOf
<1> QED BY <1>5, <1>6, <1>7

(* A worker's claim or result keeps a batch in agreement.                  *)
LEMMA WorkerBatch ==
  ASSUME TypeOK, LeaseMatchesRunningAttempt, NEW w \in Workers, WorkerStep(w),
         NEW j \in Jobs, BatchOf(j)
  PROVE  BatchOf(j)'
<1>0. /\ job[j] \in Job /\ job[j].status \in JobStatus /\ ItemsOf(j) # {}
      /\ \A i \in ItemsOf(j) : /\ i \in Items /\ JobOf[i] = j
                               /\ item[i] \in Item
                               /\ item[i].status \in ItemStatus
  BY BatchTypes
<1>1. CASE ClaimAttempt(w)
  <2>1. PICK x \in Items : x = worker[w].item
    BY <1>1, WorkerTypes DEF ClaimAttempt
  <2>2. /\ job' = [job EXCEPT ![JobOf[x]].status = "running"]
        /\ \A i \in Items : i # x => item'[i] = item[i]
    BY <1>1, <2>1 DEF ClaimAttempt, TypeOK
  <2>3. CASE JobOf[x] = j
    <3>1. PICK n : item' = [item EXCEPT ![x].status = "running", ![x].lease = n]
      BY <1>1, <2>1 DEF ClaimAttempt
    <3>2. item'[x].status = "running" /\ x \in ItemsOf(j)
      BY <1>0, <2>3, <3>1 DEF TypeOK, Item, ItemsOf
    <3>3. job'[j].status = "running"
      BY <1>0, <2>2, <2>3 DEF TypeOK, Job
    <3> QED BY <3>2, <3>3 DEF BatchOf, Active
  <2>4. CASE JobOf[x] # j
    <3>1. job'[j] = job[j] /\ \A i \in ItemsOf(j) : item'[i] = item[i]
      BY <1>0, <2>2, <2>4 DEF TypeOK
    <3> QED BY <3>1, BatchKept
  <2> QED BY <2>3, <2>4
<1>2. CASE FinishAttempt(w)
  <2>1. PICK x \in Items : x = worker[w].item
    BY <1>2, WorkerTypes DEF FinishAttempt
  <2>2. PICK st : st = Reconcile(JobOf[x], item')
    OBVIOUS
  <2>3. /\ job' = [job EXCEPT ![JobOf[x]].status = st]
        /\ \A i \in Items : i # x => item'[i] = item[i]
    BY <1>2, <2>1, <2>2 DEF FinishAttempt, TypeOK
  <2>4. item[x].status = "running"
    BY <1>2, <2>1 DEF FinishAttempt, HoldsLease
  <2>5. item'[x].status \in {"queued", "needs_review", "failed"}
    <3>1. PICK n : n = worker[w].number
      OBVIOUS
    <3>2. PICK o \in Outcomes : o = worker[w].outcome
      BY <1>2, WorkerTypes DEF FinishAttempt
    <3>3. n \in DOMAIN attempts[x]
      BY <1>2, <2>1, <3>1 DEF FinishAttempt, HoldsLease,
         LeaseMatchesRunningAttempt
    <3>4. PICK a \in Attempt : a = attempts[x][n]
      BY <3>3, PaperTypes
    <3>5. item'[x] = FinishedItem(item[x], o, a)
      BY <1>2, <2>1, <3>1, <3>2, <3>4 DEF FinishAttempt, TypeOK
    <3> QED BY <3>5, PaperTypes, FinishedRows
  <2>6. CASE JobOf[x] = j
    <3>1. job'[j].status = Reconcile(j, item')
      BY <1>0, <2>2, <2>3, <2>6 DEF TypeOK, Job
    <3>2. {x} \in SUBSET ItemsOf(j) /\ {x} # {}
      BY <2>6 DEF ItemsOf
    <3>3. \A i \in ItemsOf(j) \ {x} : item'[i].status = item[i].status
      BY <1>0, <2>3
    <3>4. \A i \in {x} : /\ item[i].status = "running"
                         /\ item'[i].status
                              \in {"queued", "needs_review", "failed"}
      BY <2>4, <2>5
    <3> QED BY <3>1, <3>2, <3>3, <3>4, ReconcileBatch
  <2>7. CASE JobOf[x] # j
    <3>1. job'[j] = job[j] /\ \A i \in ItemsOf(j) : item'[i] = item[i]
      BY <1>0, <2>3, <2>7 DEF TypeOK
    <3> QED BY <3>1, BatchKept
  <2> QED BY <2>6, <2>7
<1>3. ASSUME job' = job, item' = item PROVE BatchOf(j)'
  BY <1>3, BatchKept
<1>4. ASSUME NEW x \in Items, NEW v \in 1..MaxRounds, PrepareItem(w, x, v)
      PROVE  job' = job /\ item' = item
  BY <1>4 DEF PrepareItem
<1>5. ASSUME NEW o \in Outcomes, CallProvider(w, o)
      PROVE  job' = job /\ item' = item
  BY <1>5 DEF CallProvider
<1>6. ClaimRefused(w) \/ FinishRejected(w) \/ WorkerLost(w)
        => job' = job /\ item' = item
  BY DEF ClaimRefused, FinishRejected, WorkerLost
<1> QED BY <1>1, <1>2, <1>3, <1>4, <1>5, <1>6 DEF WorkerStep

(* So do maintenance and configuration changes.                            *)
LEMMA MaintenanceBatch ==
  ASSUME TypeOK, MaintenanceStep \/ ConfigurationStep,
         NEW j \in Jobs, BatchOf(j)
  PROVE  BatchOf(j)'
<1>0. /\ job[j] \in Job /\ job[j].status \in JobStatus /\ ItemsOf(j) # {}
      /\ \A i \in ItemsOf(j) : /\ i \in Items /\ JobOf[i] = j
                               /\ item[i] \in Item
                               /\ item[i].status \in ItemStatus
  BY BatchTypes
<1>1. ASSUME NEW S \in (SUBSET Items) \ {{}}, ExpireStaleAttempts(S)
      PROVE  BatchOf(j)'
  <2> DEFINE T == {i \in S : JobOf[i] = j}
  <2>1. job'[j] = [job[j] EXCEPT !.status =
                     IF \E i \in S : JobOf[i] = j
                     THEN Reconcile(j, item') ELSE job[j].status]
    BY <1>1 DEF ExpireStaleAttempts
  <2>2. job'[j].status = IF \E i \in S : JobOf[i] = j
                         THEN Reconcile(j, item') ELSE job[j].status
    BY <1>0, <2>1 DEF Job
  <2>3. \A i \in ItemsOf(j) \ T : item'[i] = item[i]
    BY <1>0, <1>1 DEF ExpireStaleAttempts
  <2>4. CASE T = {}
    BY <2>2, <2>3, <2>4, BatchKept
  <2>5. CASE T # {}
    <3>1. job'[j].status = Reconcile(j, item')
      BY <2>2, <2>5
    <3>2. T \in SUBSET ItemsOf(j)
      BY DEF ItemsOf
    <3>3. ASSUME NEW i \in T
          PROVE  /\ item[i].status = "running"
                 /\ item'[i].status = "needs_review"
      <4>1. item'[i] = [item[i] EXCEPT !.status = "needs_review", !.lease = 0]
        BY <1>1 DEF ExpireStaleAttempts
      <4>2. item[i] \in Item /\ item[i].status = "running"
        BY <1>0, <1>1, <3>2 DEF ExpireStaleAttempts
      <4> QED BY <4>1, <4>2 DEF Item
    <3>4. \A i \in ItemsOf(j) \ T : item'[i].status = item[i].status
      BY <2>3
    <3> HIDE DEF T
    <3> QED BY <2>5, <3>1, <3>2, <3>3, <3>4, ReconcileBatch
  <2> QED BY <2>4, <2>5
<1>2. ASSUME NEW x \in Items, RetryDelayEnds(x) PROVE BatchOf(j)'
  <2>1. job' = job
    BY <1>2 DEF RetryDelayEnds
  <2>2. \A i \in ItemsOf(j) :
          item'[i] = item[i] \/ item'[i] = [item[i] EXCEPT !.ready = TRUE]
    BY <1>0, <1>2 DEF RetryDelayEnds, TypeOK
  <2>3. \A i \in ItemsOf(j) : item'[i].status = item[i].status
    BY <1>0, <2>2 DEF Item
  <2> QED BY <2>1, <2>3, BatchKept
<1>3. ASSUME DispatchReadyItems \/ \E m \in messages : LoseMessage(m)
      PROVE  BatchOf(j)'
  BY <1>3, BatchKept DEF DispatchReadyItems, LoseMessage
<1>4. CASE ConfigurationStep
  <2>1. item' = item
    BY <1>4 DEF ConfigurationStep, BeginProviderUpdate,
       CommitProviderUpdate, EnableProvider, DisableProvider, ConfirmRubric
  <2>2. job'[j].status = job[j].status
    BY <1>0, <1>4 DEF ConfigurationStep, BeginProviderUpdate, Job,
       CommitProviderUpdate, EnableProvider, DisableProvider, ConfirmRubric
  <2> QED BY <2>1, <2>2, BatchKept
<1> QED BY <1>1, <1>2, <1>3, <1>4 DEF MaintenanceStep

(* For any batches, papers and workers: an active batch has work left, a   *)
(* settled one has none, and it is completed exactly when every paper is   *)
(* confirmed.  _reconcile_job and the trigger on confirmations both        *)
(* maintain it.                                                            *)
THEOREM BatchStatusAgrees == Spec => []BatchAgreesWithPapers
<1>1. BatchAgreesWithPapers <=> \A j \in Jobs : BatchOf(j)
  BY DEF BatchAgreesWithPapers, BatchOf
<1>2. Init => BatchAgreesWithPapers
  <2> SUFFICES ASSUME Init, NEW j \in Jobs PROVE BatchOf(j)
    BY <1>1
  <2>1. job[j].status = "absent" /\ \A i \in Items : item[i].status = "absent"
    BY DEF Init
  <2>2. ItemsOf(j) # {} /\ ItemsOf(j) \subseteq Items
    BY BatchAssumption DEF ItemsOf
  <2> QED BY <2>1, <2>2 DEF BatchOf
<1>3. ASSUME PipelineInv, BatchAgreesWithPapers, [Next]_vars
      PROVE  BatchAgreesWithPapers'
  <2>0. TypeOK /\ LeaseMatchesRunningAttempt /\ BornTogether
    BY <1>3 DEF PipelineInv
  <2>1. ASSUME NEW j \in Jobs PROVE BatchOf(j)'
    <3>1. BatchOf(j)
      BY <1>1, <1>3
    <3>2. CASE UNCHANGED vars
      BY <3>1, <3>2, BatchKept DEF vars
    <3>3. CASE Next
      BY <2>0, <3>1, <3>3, TeacherBatch, WorkerBatch, MaintenanceBatch
         DEF Next
    <3> QED BY <1>3, <3>2, <3>3
  <2> QED BY <2>1 DEF BatchAgreesWithPapers, BatchOf
<1> QED BY <1>2, <1>3, PipelineInvariant, PTL DEF Spec

-----------------------------------------------------------------------------
(* Stored answers                                                          *)

(* A worker that holds an answer has stored it under its attempt's key.    *)
AnswersStored ==
  \A w \in Workers :
    worker[w].pc = "answered" /\ HasResponse(worker[w].outcome)
      => <<worker[w].item, worker[w].number>> \in stored

AuditInv == PipelineInv /\ AnswersStored /\ AnswersAreAudited

(* Nothing takes an answer out of storage, and only a worker that holds a  *)
(* stored answer is in state "answered".                                   *)
LEMMA AnswersStoredStep ==
  ASSUME TypeOK, AnswersStored, Next
  PROVE  AnswersStored' /\ stored \subseteq stored'
<1>0. worker \in [Workers -> {Idle} \cup Prepared \cup Calling \cup Answered]
  BY DEF TypeOK
<1>1. ASSUME stored \subseteq stored', NEW w \in Workers, NEW c,
             worker' = [worker EXCEPT ![w] = c],
             c.pc = "answered" /\ HasResponse(c.outcome)
               => <<c.item, c.number>> \in stored'
      PROVE  AnswersStored'
  BY <1>0, <1>1 DEF AnswersStored
<1>2. ASSUME worker' = worker, stored' = stored PROVE AnswersStored'
  BY <1>2 DEF AnswersStored
<1>3. TeacherStep \/ MaintenanceStep \/ ConfigurationStep
        => worker' = worker /\ stored' = stored
  BY DEF TeacherStep, MaintenanceStep, ConfigurationStep, CreateJob,
     RepeatCreateJob, PauseJob, ResumeJob, CancelJob, RetryItem,
     ConfirmItems, DispatchReadyItems, ExpireStaleAttempts, RetryDelayEnds,
     LoseMessage, BeginProviderUpdate, CommitProviderUpdate, EnableProvider,
     DisableProvider, ConfirmRubric
<1>4. ASSUME NEW w \in Workers, WorkerStep(w)
      PROVE  AnswersStored' /\ stored \subseteq stored'
  <2>1. ASSUME NEW i \in Items, NEW v \in 1..MaxRounds, PrepareItem(w, i, v)
        PROVE  AnswersStored' /\ stored \subseteq stored'
    <3> DEFINE c == [pc |-> "prepared", item |-> i, version |-> v,
                     kind |-> NextKind(i, v),
                     prompt |-> IF CorrectionSources(i, v) # {}
                                THEN "correction" ELSE "initial"]
    <3>1. /\ c.pc = "prepared"
          /\ worker' = worker \/ worker' = [worker EXCEPT ![w] = c]
      BY <2>1 DEF PrepareItem
    <3> HIDE DEF c
    <3>2. stored' = stored
      BY <2>1 DEF PrepareItem
    <3> QED BY <1>1, <1>2, <3>1, <3>2
  <2>2. CASE ClaimAttempt(w)
    <3>1. PICK c : c.pc = "calling" /\ worker' = [worker EXCEPT ![w] = c]
      BY <2>2 DEF ClaimAttempt
    <3> QED BY <1>1, <2>2, <3>1 DEF ClaimAttempt
  <2>3. ASSUME NEW o \in Outcomes, CallProvider(w, o)
        PROVE  AnswersStored' /\ stored \subseteq stored'
    <3>1. PICK c : /\ c.item = worker[w].item /\ c.number = worker[w].number
                   /\ c.outcome = o /\ worker' = [worker EXCEPT ![w] = c]
      BY <2>3 DEF CallProvider
    <3>2. stored' = IF HasResponse(o)
                    THEN stored \cup {<<worker[w].item, worker[w].number>>}
                    ELSE stored
      BY <2>3 DEF CallProvider
    <3> QED BY <1>1, <3>1, <3>2
  <2>4. CASE \/ ClaimRefused(w) \/ FinishAttempt(w)
             \/ FinishRejected(w) \/ WorkerLost(w)
    <3>1. worker' = [worker EXCEPT ![w] = Idle] /\ stored' = stored
      BY <2>4 DEF ClaimRefused, FinishAttempt, FinishRejected, WorkerLost
    <3>2. Idle.pc = "idle"
      BY DEF Idle
    <3> QED BY <1>1, <3>1, <3>2
  <2> QED BY <1>4, <2>1, <2>2, <2>3, <2>4 DEF WorkerStep
<1> QED BY <1>2, <1>3, <1>4 DEF Next

(* For any number of workers, late answers and expiries: an attempt row    *)
(* that reports an answer of the provider has it in storage, since the     *)
(* runner stores the answer before finish_* may write the row.             *)
THEOREM AnswersCanBeRead == Spec => []AnswersAreAudited
<1>1. Init => AuditInv
  BY InitInv DEF Init, AuditInv, AnswersStored, AnswersAreAudited, Idle
<1>2. ASSUME AuditInv, [Next]_vars PROVE AuditInv'
  <2>0. /\ TypeOK /\ LeaseMatchesRunningAttempt /\ HistoryOrdered
        /\ BornTogether /\ AnswersStored /\ AnswersAreAudited /\ PipelineInv
    BY <1>2 DEF AuditInv, PipelineInv
  <2>1. PipelineInv'
    BY <1>2, <2>0, StepInv
  <2>2. CASE UNCHANGED vars
    BY <2>0, <2>1, <2>2 DEF vars, AuditInv, AnswersStored, AnswersAreAudited
  <2>3. CASE Next
    <3>1. AnswersStored' /\ stored \subseteq stored'
      BY <2>0, <2>3, AnswersStoredStep
    <3>2. ASSUME NEW i \in Items, NEW k \in DOMAIN attempts'[i],
                 attempts'[i][k].call = "response_received"
          PROVE  <<i, k>> \in stored'
      <4> DEFINE s == attempts[i]
                 t == attempts'[i]
      <4>1. s \in Seq(Attempt) /\ Len(s) \in Nat /\ DOMAIN s = 1..Len(s)
        BY <2>0, PaperTypes
      <4>2. PaperStep(i)
        BY <2>0, <2>3, PaperStepOfNext
      <4>3. CASE k \in DOMAIN s /\ t[k] = s[k]
        BY <2>0, <3>1, <3>2, <4>3 DEF AnswersAreAudited
      <4>4. CASE PaperClaimed(i)
        <5>1. PICK a \in Attempt : t = Append(s, a) /\ a.call = "started"
          BY <4>4 DEF PaperClaimed
        <5> QED BY <3>2, <4>1, <4>3, <5>1, AppendProperties
      <4>5. CASE PaperReturned(i)
        <5>1. PICK b \in Attempt :
                /\ t = [s EXCEPT ![Len(s)] = b]
                /\ b.call = "response_received" =>
                     \E w \in Workers : /\ worker[w].pc = "answered"
                                       /\ worker[w].item = i
                                       /\ worker[w].number = Len(s)
                                       /\ HasResponse(worker[w].outcome)
          BY <4>5 DEF PaperReturned
        <5>2. k \in DOMAIN s /\ (t[k] = s[k] \/ (k = Len(s) /\ t[k] = b))
          BY <4>1, <5>1
        <5>3. CASE k = Len(s) /\ t[k] = b
          BY <2>0, <3>1, <3>2, <5>1, <5>3 DEF AnswersStored
        <5> QED BY <4>3, <5>2, <5>3
      <4> QED BY <4>2, <4>3, <4>4, <4>5 DEF PaperStep, PaperKept,
              PaperOpened, PaperEnded, PaperRegraded
    <3> QED BY <2>1, <3>1, <3>2 DEF AuditInv, AnswersAreAudited
  <2> QED BY <1>2, <2>2, <2>3
<1>3. AuditInv => AnswersAreAudited
  BY DEF AuditInv
<1> QED BY <1>1, <1>2, <1>3, PTL DEF Spec

-----------------------------------------------------------------------------
(* Calls at the same time                                                  *)

(* A finite set of numbers has a largest one: a smallest subset without    *)
(* one would lose its defect with any of its elements.                     *)
LEMMA LargestExists ==
  ASSUME NEW S \in SUBSET Nat, IsFiniteSet(S), S # {}
  PROVE  \E m \in S : \A y \in S : m >= y
<1> DEFINE Largest(T) == \E m \in T : \A y \in T : m >= y
           Bad == {T \in FiniteSubsetsOf(S) : T # {} /\ ~Largest(T)}
<1> SUFFICES ASSUME ~Largest(S) PROVE FALSE
  OBVIOUS
<1>1. S \in Bad
  BY DEF FiniteSubsetsOf
<1>2. PICK T \in Bad : \A U \in Bad : <<U, T>> \notin StrictSubsetOrdering(S)
  <2>1. IsWellFoundedOn(StrictSubsetOrdering(S), FiniteSubsetsOf(S))
    BY FS_StrictSubsetOrderingWellFounded
  <2>2. Bad \subseteq FiniteSubsetsOf(S) /\ Bad # {}
    BY <1>1
  <2> HIDE DEF Bad
  <2> QED BY <2>1, <2>2, WFMin
<1>3. T \subseteq Nat /\ T \subseteq S /\ IsFiniteSet(T) /\ T # {} /\ ~Largest(T)
  BY DEF FiniteSubsetsOf
<1>4. PICK x \in T : TRUE
  BY <1>3
<1>5. IsFiniteSet(T \ {x})
  BY <1>3, FS_RemoveElement
<1>6. T \ {x} \notin Bad
  <2>1. <<T \ {x}, T>> \in StrictSubsetOrdering(S)
    BY <1>3, <1>4 DEF StrictSubsetOrdering
  <2> QED BY <1>2, <2>1
<1>7. T \ {x} = {} \/ Largest(T \ {x})
  BY <1>3, <1>5, <1>6 DEF FiniteSubsetsOf
<1>8. CASE T \ {x} = {}
  BY <1>3, <1>4, <1>8
<1>9. CASE Largest(T \ {x})
  <2>1. PICK m \in T \ {x} : \A y \in T \ {x} : m >= y
    BY <1>9
  <2>2. m \in Nat /\ x \in Nat
    BY <1>3, <1>4
  <2> QED BY <1>3, <1>4, <2>1, <2>2
<1> QED BY <1>7, <1>8, <1>9

(* No batch is more generous than the most generous one.                   *)
LEMMA MostGenerous ==
  /\ Max({Limit[j] : j \in Jobs}) \in Nat
  /\ \A j \in Jobs : Limit[j] <= Max({Limit[k] : k \in Jobs})
<1> DEFINE L == {Limit[j] : j \in Jobs}
<1>1. IsFiniteSet(Jobs)
  <2>1. JobOf \in Surjection(Items, Jobs)
    BY PipelineAssumption, BatchAssumption DEF Surjection
  <2> QED BY <2>1, FiniteAssumption, FS_Surjection
<1>2. IsFiniteSet(L)
  <2>1. Limit \in Surjection(Jobs, L)
    BY PipelineAssumption DEF Surjection
  <2> HIDE DEF L
  <2> QED BY <1>1, <2>1, FS_Surjection
<1>3. L \in SUBSET Nat /\ L # {}
  BY PipelineAssumption, BatchAssumption
<1>4. \E m \in L : \A y \in L : m >= y
  <2> HIDE DEF L
  <2> QED BY <1>2, <1>3, LargestExists
<1>5. Max(L) \in L /\ \A y \in L : Max(L) >= y
  BY <1>4 DEF Max
<1>6. \A j \in Jobs : Limit[j] \in L
  OBVIOUS
<1> HIDE DEF L
<1>7. Max(L) \in Nat /\ \A j \in Jobs : Limit[j] <= Max(L)
  BY <1>3, <1>5, <1>6
<1> QED BY <1>7 DEF L

(* Each paper has at most one running attempt, its lease.                  *)
LEMMA RunningIsFinite ==
  ASSUME TypeOK, LeaseMatchesRunningAttempt
  PROVE  /\ IsFiniteSet(RunningAttempts)
         /\ Cardinality(RunningAttempts) \in Nat
<1> DEFINE f == [x \in RunningAttempts |-> x[1]]
<1>1. ASSUME NEW x \in RunningAttempts
      PROVE  x[1] \in Items /\ x = <<x[1], item[x[1]].lease>>
  <2>1. PICK i \in Items : \E k \in DOMAIN attempts[i] :
          x = <<i, k>> /\ attempts[i][k].status = "running"
    BY DEF RunningAttempts
  <2>3. PICK k \in DOMAIN attempts[i] :
          x = <<i, k>> /\ attempts[i][k].status = "running"
    BY <2>1
  <2>2. k = item[i].lease
    BY <2>3 DEF LeaseMatchesRunningAttempt
  <2> QED BY <2>2, <2>3
<1>2. f \in Injection(RunningAttempts, Items)
  BY <1>1 DEF Injection, IsInjective
<1> HIDE DEF f
<1> QED BY <1>2, FiniteAssumption, FS_Injection, FS_CardinalityType

(* Only a claim adds a running attempt, and it adds one.                   *)
LEMMA RunningStep ==
  ASSUME TypeOK, LeaseMatchesRunningAttempt, HistoryOrdered, BornTogether,
         Next
  PROVE  \/ RunningAttempts' \subseteq RunningAttempts
         \/ \E i \in Items : \E x :
              /\ RunningAttempts' \subseteq RunningAttempts \cup {x}
              /\ Cardinality(RunningAttempts) < Limit[JobOf[i]]
<1> DEFINE Run(i) == {k \in DOMAIN attempts[i] :
                        attempts[i][k].status = "running"}
           Ran(i) == {k \in DOMAIN attempts'[i] :
                        attempts'[i][k].status = "running"}
<1>1. /\ \A x : x \in RunningAttempts
                  <=> \E i \in Items : \E k \in Run(i) : x = <<i, k>>
      /\ \A x : x \in RunningAttempts'
                  <=> \E i \in Items : \E k \in Ran(i) : x = <<i, k>>
  BY DEF RunningAttempts
<1>2. ASSUME NEW i \in Items, ~PaperClaimed(i) PROVE Ran(i) \subseteq Run(i)
  <2>1. PaperStep(i)
    BY PaperStepOfNext
  <2>2. CASE PaperReturned(i)
    <3> DEFINE s == attempts[i]
               n == Len(s)
    <3>1. PICK b \in Attempt : /\ attempts'[i] = [s EXCEPT ![n] = b]
                               /\ b.status # "running"
      BY <2>2 DEF PaperReturned
    <3>2. \A k \in DOMAIN s : k # n => attempts'[i][k] = s[k]
      BY <3>1
    <3>3. DOMAIN attempts'[i] = DOMAIN s /\ n \notin Ran(i)
      BY <3>1
    <3> QED BY <3>2, <3>3
  <2>3. CASE attempts'[i] = attempts[i]
    BY <2>3
  <2> QED BY <1>2, <2>1, <2>2, <2>3 DEF PaperStep, PaperKept, PaperOpened,
          PaperEnded, PaperRegraded
<1>3. CASE \A i \in Items : ~PaperClaimed(i)
  <2>1. \A i \in Items : Ran(i) \subseteq Run(i)
    BY <1>2, <1>3
  <2> HIDE DEF Run, Ran
  <2> QED BY <1>1, <2>1
<1>4. ASSUME NEW i \in Items, PaperClaimed(i)
      PROVE  /\ RunningAttempts' \subseteq
                  RunningAttempts \cup {<<i, Len(attempts[i]) + 1>>}
             /\ Cardinality(RunningAttempts) < Limit[JobOf[i]]
  <2> DEFINE s == attempts[i]
             n == Len(s) + 1
  <2>1. PICK a \in Attempt, w \in Workers :
          /\ attempts'[i] = Append(s, a)
          /\ ClaimAttempt(w) /\ worker[w].item = i
    BY <1>4 DEF PaperClaimed
  <2>2. s \in Seq(Attempt) /\ Len(s) \in Nat /\ DOMAIN s = 1..Len(s)
    BY PaperTypes
  <2>3. Ran(i) \subseteq Run(i) \cup {n}
    <3>1. DOMAIN attempts'[i] = 1..n /\ \A k \in 1..Len(s) : attempts'[i][k] = s[k]
      BY <2>1, <2>2, AppendProperties
    <3>2. \A k \in 1..n : k \in DOMAIN s \/ k = n
      BY <2>2
    <3> QED BY <2>2, <3>1, <3>2
  <2>4. \A k \in Items \ {i} : Ran(k) = Run(k)
    BY <2>1 DEF ClaimAttempt, TypeOK
  <2>5. Cardinality(RunningAttempts) < Limit[JobOf[i]]
    BY <2>1 DEF ClaimAttempt, Claimable
  <2> HIDE DEF Run, Ran, n, s
  <2>6. RunningAttempts' \subseteq RunningAttempts \cup {<<i, n>>}
    BY <1>1, <2>3, <2>4
  <2> QED BY <2>5, <2>6 DEF n, s
<1> QED BY <1>3, <1>4

(* Whatever number of workers claims at the same time, the provider never  *)
(* sees more calls than the most generous batch snapshot allows: the       *)
(* advisory lock makes claim_attempt count and insert in one step.         *)
THEOREM CallsAtOnceBounded == Spec => []ConcurrencyLimit
<1> DEFINE M == Max({Limit[j] : j \in Jobs})
<1>0. M \in Nat /\ \A j \in Jobs : Limit[j] <= M
  BY MostGenerous
<1>1. ConcurrencyLimit <=> Cardinality(RunningAttempts) <= M
  BY DEF ConcurrencyLimit
<1>2. Init => ConcurrencyLimit
  <2> SUFFICES ASSUME Init PROVE Cardinality(RunningAttempts) <= M
    BY <1>1
  <2>1. RunningAttempts = {}
    BY DEF Init, RunningAttempts
  <2> HIDE DEF M
  <2> QED BY <1>0, <2>1, FS_EmptySet
<1>3. ASSUME PipelineInv, ConcurrencyLimit, [Next]_vars
      PROVE  ConcurrencyLimit'
  <2> DEFINE R == RunningAttempts
  <2>0. TypeOK /\ LeaseMatchesRunningAttempt /\ HistoryOrdered /\ BornTogether
    BY <1>3 DEF PipelineInv
  <2>1. IsFiniteSet(R) /\ Cardinality(R) \in Nat /\ Cardinality(R) <= M
    BY <1>1, <1>3, <2>0, RunningIsFinite
  <2>2. M' = M
    OBVIOUS
  <2>3. ConcurrencyLimit' <=> Cardinality(R') <= M
    BY DEF ConcurrencyLimit
  <2> HIDE DEF M
  <2>4. ASSUME R' \subseteq R PROVE Cardinality(R') <= M
    <3> HIDE DEF R
    <3>1. Cardinality(R') <= Cardinality(R) /\ Cardinality(R') \in Nat
      BY <2>1, <2>4, FS_Subset, FS_CardinalityType
    <3> QED BY <1>0, <2>1, <3>1
  <2>5. ASSUME NEW i \in Items, NEW x, R' \subseteq R \cup {x},
               Cardinality(R) < Limit[JobOf[i]]
        PROVE  Cardinality(R') <= M
    <3> HIDE DEF R
    <3>1. /\ IsFiniteSet(R \cup {x})
          /\ Cardinality(R \cup {x}) <= Cardinality(R) + 1
          /\ Cardinality(R \cup {x}) \in Nat
      <4>1. /\ IsFiniteSet(R \cup {x})
            /\ Cardinality(R \cup {x}) =
                 IF x \in R THEN Cardinality(R) ELSE Cardinality(R) + 1
        BY <2>1, FS_AddElement
      <4> QED BY <2>1, <4>1
    <3>2. Cardinality(R') <= Cardinality(R \cup {x}) /\ Cardinality(R') \in Nat
      BY <2>5, <3>1, FS_Subset, FS_CardinalityType
    <3>3. Limit[JobOf[i]] <= M /\ Limit[JobOf[i]] \in Nat
      BY <1>0, PipelineAssumption
    <3> QED BY <1>0, <2>1, <2>5, <3>1, <3>2, <3>3
  <2>6. CASE UNCHANGED vars
    BY <2>4, <2>3, <2>6 DEF vars, RunningAttempts
  <2>7. CASE Next
    <3>1. \/ R' \subseteq R
          \/ \E i \in Items : \E x : /\ R' \subseteq R \cup {x}
                                     /\ Cardinality(R) < Limit[JobOf[i]]
      BY <2>0, <2>7, RunningStep
    <3> QED BY <2>3, <2>4, <2>5, <3>1
  <2> QED BY <1>3, <2>6, <2>7
<1> QED BY <1>2, <1>3, PipelineInvariant, PTL DEF Spec

-----------------------------------------------------------------------------
(* Calls of one round                                                      *)

(* The number of the newest call of a paper's current round.               *)
LastCall(i) ==
  LET n == Len(attempts[i]) IN
  IF n > 0 /\ attempts[i][n].round = item[i].version
    THEN attempts[i][n].seq ELSE 0

(* Workers that prepared an initial prompt in the current round: only they *)
(* can still make a call whose output may ask for a correction once the    *)
(* round has had one.                                                      *)
Stale(i) ==
  {w \in Workers : /\ worker[w].pc = "prepared" /\ worker[w].item = i
                   /\ worker[w].version = item[i].version
                   /\ worker[w].prompt = "initial"}

Budget == MaxProviderRetries + Cardinality(Workers)

(* Safe errors put a paper back only up to the retry limit.  Beyond it the *)
(* round has had a correction, and every further correction uses up one of *)
(* the stale preparations; a call with the correction prompt is the last.  *)
BudgetOf(i) ==
  /\ \A k \in DOMAIN attempts[i] : attempts[i][k].seq <= Budget + 1
  /\ item[i].status = "queued" =>
       \/ LastCall(i) <= MaxProviderRetries
       \/ /\ CorrectionSources(i, item[i].version) # {}
          /\ LastCall(i) + Cardinality(Stale(i)) <= Budget
  /\ item[i].status = "running" =>
       \/ LastCall(i) <= MaxProviderRetries + 1
       \/ /\ attempts[i][Len(attempts[i])].prompt = "initial"
          /\ LastCall(i) + Cardinality(Stale(i)) <= Budget
       \/ /\ attempts[i][Len(attempts[i])].prompt = "correction"
          /\ LastCall(i) <= Budget + 1

BudgetInv == PipelineInv /\ \A i \in Items : BudgetOf(i)

(* The number claim_attempt gives a call is the one after the newest.      *)
LEMMA LastCallNext ==
  ASSUME TypeOK, HistoryOrdered, NEW i \in Items
  PROVE  LastCall(i) \in Nat /\ NextCall(i) = LastCall(i) + 1
<1> DEFINE s == attempts[i]
           n == Len(s)
           v == item[i].version
           S == {0} \cup {s[k].seq : k \in InRound(i, v)}
           m == LastCall(i)
<1>1. /\ n \in Nat /\ DOMAIN s = 1..n /\ v \in Nat
      /\ \A k \in DOMAIN s : s[k].seq \in Nat /\ s[k].round \in Nat
  BY PaperTypes
<1>2. S \subseteq Nat
  BY <1>1 DEF InRound
<1>3. m \in S
  <2>1. n > 0 => n \in DOMAIN s
    BY <1>1
  <2> QED BY <2>1 DEF LastCall, InRound
<1>4. ASSUME NEW k \in InRound(i, v) PROVE s[k].seq <= m
  <2>1. k \in 1..n /\ s[k].round = v /\ n > 0 /\ n \in DOMAIN s
    BY <1>1, <1>4 DEF InRound
  <2>2. CASE k = n
    BY <1>1, <2>1, <2>2 DEF LastCall
  <2>3. CASE k < n
    <3>1. s[k].round <= s[n].round /\ s[n].round <= v
      BY <1>1, <2>1, <2>3 DEF HistoryOrdered
    <3>2. s[n].round = v
      BY <1>1, <2>1, <3>1
    <3>3. s[k].seq < s[n].seq
      BY <1>1, <2>1, <2>3, <3>2 DEF HistoryOrdered
    <3> QED BY <1>1, <2>1, <3>2, <3>3 DEF LastCall
  <2> QED BY <1>1, <2>1, <2>2, <2>3
<1>5. \A y \in S : m >= y
  <2>1. m \in Nat
    BY <1>2, <1>3
  <2>2. ASSUME NEW y \in S PROVE m >= y
    <3>1. CASE y = 0
      BY <2>1, <3>1
    <3>2. CASE \E k \in InRound(i, v) : y = s[k].seq
      BY <1>2, <1>4, <2>1, <3>2
    <3> QED BY <2>2, <3>1, <3>2
  <2> QED BY <2>2
<1>6. NextCall(i) = 1 + Max(S)
  BY DEF NextCall
<1> HIDE DEF S, m
<1>7. Max(S) \in S /\ \A y \in S : Max(S) >= y
  BY <1>3, <1>5 DEF Max
<1>8. Max(S) = m /\ m \in Nat
  <2>1. Max(S) \in Nat /\ m \in Nat
    BY <1>2, <1>3, <1>7
  <2>2. Max(S) >= m /\ m >= Max(S)
    BY <1>3, <1>5, <1>7
  <2> QED BY <2>1, <2>2
<1> QED BY <1>6, <1>8 DEF m

(* There are no more stale preparations than workers, nor than workers     *)
(* that are not doing something else.                                      *)
LEMMA StaleBound ==
  ASSUME NEW i \in Items
  PROVE  /\ IsFiniteSet(Stale(i)) /\ Cardinality(Stale(i)) \in Nat
         /\ Cardinality(Workers) \in Nat /\ Budget \in Nat
         /\ \A w \in Workers \ Stale(i) :
              Cardinality(Stale(i)) + 1 <= Cardinality(Workers)
<1> DEFINE S == Stale(i)
<1>1. S \in SUBSET Workers
  BY DEF Stale
<1> HIDE DEF S
<1>2. IsFiniteSet(S) /\ Cardinality(S) \in Nat /\ Cardinality(Workers) \in Nat
  BY <1>1, FiniteAssumption, FS_Subset, FS_CardinalityType
<1>3. ASSUME NEW w \in Workers \ S
      PROVE  Cardinality(S) + 1 <= Cardinality(Workers)
  <2>1. Cardinality(S \cup {w}) = Cardinality(S) + 1
    BY <1>2, FS_AddElement
  <2>2. S \cup {w} \in SUBSET Workers
    BY <1>1
  <2>3. Cardinality(S \cup {w}) <= Cardinality(Workers)
    BY <2>2, FiniteAssumption, FS_Subset
  <2> QED BY <2>1, <2>3
<1>4. Budget \in Nat
  BY <1>2, PipelineAssumption DEF Budget
<1> QED BY <1>2, <1>3, <1>4 DEF S

(* A worker becomes "prepared" only in PrepareItem, for a paper that is    *)
(* queued, with the prompt its round calls for.                            *)
LEMMA PreparedStep ==
  ASSUME TypeOK, Next, NEW w \in Workers, worker'[w].pc = "prepared"
  PROVE  \/ worker'[w] = worker[w]
         \/ \E i \in Items :
              /\ item[i].status = "queued" /\ item' = item
              /\ attempts' = attempts
              /\ worker'[w] =
                   [pc |-> "prepared", item |-> i,
                    version |-> item[i].version,
                    kind |-> NextKind(i, item[i].version),
                    prompt |-> IF CorrectionSources(i, item[i].version) # {}
                               THEN "correction" ELSE "initial"]
<1>0. worker \in [Workers -> {Idle} \cup Prepared \cup Calling \cup Answered]
  BY DEF TypeOK
<1>1. TeacherStep \/ MaintenanceStep \/ ConfigurationStep => worker' = worker
  BY DEF TeacherStep, MaintenanceStep, ConfigurationStep, CreateJob,
     RepeatCreateJob, PauseJob, ResumeJob, CancelJob, RetryItem,
     ConfirmItems, DispatchReadyItems, ExpireStaleAttempts, RetryDelayEnds,
     LoseMessage, BeginProviderUpdate, CommitProviderUpdate, EnableProvider,
     DisableProvider, ConfirmRubric
<1>2. ASSUME NEW u \in Workers, WorkerStep(u), worker'[w] # worker[w]
      PROVE  \E i \in Items, v \in 1..MaxRounds : PrepareItem(w, i, v)
  <2>1. ASSUME NEW i \in Items, NEW v \in 1..MaxRounds, PrepareItem(u, i, v)
        PROVE  w = u
    <3>1. PICK p : worker' = worker \/ worker' = [worker EXCEPT ![u] = p]
      BY <2>1 DEF PrepareItem
    <3> QED BY <1>0, <1>2, <3>1
  <2>2. ASSUME NEW c, worker' = [worker EXCEPT ![u] = c], c.pc # "prepared"
        PROVE  FALSE
    BY <1>0, <1>2, <2>2
  <2>3. ~ClaimAttempt(u)
    <3> SUFFICES ASSUME ClaimAttempt(u) PROVE FALSE
      OBVIOUS
    <3>1. PICK c : c.pc = "calling" /\ worker' = [worker EXCEPT ![u] = c]
      BY DEF ClaimAttempt
    <3> QED BY <2>2, <3>1
  <2>4. ASSUME NEW o \in Outcomes, CallProvider(u, o) PROVE FALSE
    <3>1. PICK c : c = [pc |-> "answered", item |-> worker[u].item,
                        number |-> worker[u].number, outcome |-> o]
      OBVIOUS
    <3>2. c.pc = "answered" /\ worker' = [worker EXCEPT ![u] = c]
      BY <2>4, <3>1 DEF CallProvider
    <3> QED BY <2>2, <3>2
  <2>5. ~(\/ ClaimRefused(u) \/ FinishAttempt(u)
          \/ FinishRejected(u) \/ WorkerLost(u))
    <3>1. Idle.pc # "prepared"
      BY DEF Idle
    <3> QED BY <2>2, <3>1 DEF ClaimRefused, FinishAttempt, FinishRejected,
            WorkerLost
  <2> QED BY <1>2, <2>1, <2>3, <2>4, <2>5 DEF WorkerStep
<1>3. ASSUME NEW i \in Items, NEW v \in 1..MaxRounds, PrepareItem(w, i, v),
             worker'[w] # worker[w]
      PROVE  /\ item[i].status = "queued" /\ item[i].version = v
             /\ item' = item /\ attempts' = attempts
             /\ worker'[w] =
                   [pc |-> "prepared", item |-> i, version |-> v,
                    kind |-> NextKind(i, v),
                    prompt |-> IF CorrectionSources(i, v) # {}
                               THEN "correction" ELSE "initial"]
  BY <1>0, <1>3 DEF PrepareItem, Dispatchable
<1>4. CASE worker'[w] # worker[w]
  <2>1. PICK i \in Items : \E v \in 1..MaxRounds : PrepareItem(w, i, v)
    BY <1>1, <1>2, <1>4 DEF Next
  <2> QED BY <1>3, <1>4, <2>1
<1> QED BY <1>4

(* Once a round has had a correction, or while the paper runs, nobody      *)
(* prepares an initial prompt for it any more.                             *)
LEMMA StaleShrinks ==
  ASSUME TypeOK, Next, NEW i \in Items,
         item'[i].version = item[i].version,
         \/ item[i].status # "queued"
         \/ CorrectionSources(i, item[i].version) # {}
  PROVE  Stale(i)' \subseteq Stale(i)
<1> SUFFICES ASSUME NEW w \in Workers, worker'[w].pc = "prepared",
                    worker'[w].item = i,
                    worker'[w].version = item'[i].version,
                    worker'[w].prompt = "initial"
             PROVE  w \in Stale(i)
  BY DEF Stale
<1>1. CASE worker'[w] = worker[w]
  BY <1>1 DEF Stale
<1>2. CASE worker'[w] # worker[w]
  <2>1. PICK k \in Items :
          /\ item[k].status = "queued"
          /\ worker'[w] =
               [pc |-> "prepared", item |-> k, version |-> item[k].version,
                kind |-> NextKind(k, item[k].version),
                prompt |-> IF CorrectionSources(k, item[k].version) # {}
                           THEN "correction" ELSE "initial"]
    BY <1>2, PreparedStep
  <2>2. k = i
    BY <2>1
  <2> QED BY <2>1, <2>2
<1> QED BY <1>1, <1>2

(* A smaller set of stale preparations counts no more.                     *)
LEMMA StaleCount ==
  ASSUME NEW i \in Items, Stale(i)' \subseteq Stale(i)
  PROVE  /\ Cardinality(Stale(i)') <= Cardinality(Stale(i))
         /\ Cardinality(Stale(i)') \in Nat
         /\ \A w \in Stale(i) \ Stale(i)' :
              Cardinality(Stale(i)') + 1 <= Cardinality(Stale(i))
<1> DEFINE S == Stale(i)
           T == Stale(i)'
<1>1. IsFiniteSet(S) /\ Cardinality(S) \in Nat /\ T \in SUBSET S
  BY StaleBound
<1> HIDE DEF S, T
<1>2. IsFiniteSet(T) /\ Cardinality(T) <= Cardinality(S)
  BY <1>1, FS_Subset
<1>3. Cardinality(T) \in Nat
  BY <1>2, FS_CardinalityType
<1>4. ASSUME NEW w \in S \ T PROVE Cardinality(T) + 1 <= Cardinality(S)
  <2>1. S # T
    BY <1>4
  <2>2. Cardinality(S) # Cardinality(T)
    BY <1>1, <2>1, FS_Subset
  <2> QED BY <1>1, <1>2, <1>3, <2>2
<1> QED BY <1>2, <1>3, <1>4 DEF S, T

(* A paper that is not called keeps its budget: leaving the queue frees it *)
(* of its bound, a new round starts at zero.                               *)
LEMMA BudgetKept ==
  ASSUME TypeOK, HistoryOrdered, BornTogether, NEW i \in Items, BudgetOf(i),
         Next,
         PaperKept(i) \/ PaperOpened(i) \/ PaperEnded(i) \/ PaperRegraded(i)
  PROVE  BudgetOf(i)'
<1> DEFINE s == attempts[i]
           n == Len(s)
<1>1. /\ n \in Nat /\ DOMAIN s = 1..n /\ item[i].version \in Nat
      /\ \A k \in DOMAIN s : s[k].seq \in Nat /\ s[k].round \in Nat
  BY PaperTypes
<1>2. attempts'[i] = s
  BY DEF PaperKept, PaperOpened, PaperEnded, PaperRegraded
<1>3. MaxProviderRetries \in Nat /\ LastCall(i) \in Nat
  BY PipelineAssumption, LastCallNext
<1>4. \A k \in DOMAIN attempts'[i] : attempts'[i][k].seq <= Budget + 1
  BY <1>2 DEF BudgetOf
<1>5. CASE PaperKept(i)
  <2>1. LastCall(i)' = LastCall(i)
    BY <1>2, <1>5 DEF PaperKept, LastCall
  <2>2. CorrectionSources(i, item[i].version)'
          = CorrectionSources(i, item[i].version)
    BY <1>2, <1>5 DEF PaperKept, CorrectionSources, InRound
  <2>3. CASE \/ item[i].status = "running"
             \/ CorrectionSources(i, item[i].version) # {}
    <3>1. Stale(i)' \subseteq Stale(i)
      BY <1>5, <2>3, StaleShrinks DEF PaperKept
    <3>2. /\ Cardinality(Stale(i)') <= Cardinality(Stale(i))
          /\ Cardinality(Stale(i)') \in Nat /\ Cardinality(Stale(i)) \in Nat
          /\ Budget \in Nat
      BY <3>1, StaleCount, StaleBound
    <3> HIDE DEF s, n
    <3> QED BY <1>2, <1>3, <1>4, <1>5, <2>1, <2>2, <3>2
            DEF BudgetOf, PaperKept, Budget, s
  <2>4. CASE /\ item[i].status # "running"
             /\ CorrectionSources(i, item[i].version) = {}
    BY <1>4, <1>5, <2>1, <2>4 DEF BudgetOf, PaperKept
  <2> QED BY <2>3, <2>4
<1>6. CASE PaperOpened(i)
  <2>1. s = <<>> /\ n = 0
    BY <1>6 DEF PaperOpened, BornTogether
  <2>2. LastCall(i)' = 0
    BY <1>2, <2>1 DEF LastCall
  <2> QED BY <1>3, <1>4, <1>6, <2>2 DEF BudgetOf, PaperOpened
<1>7. CASE PaperEnded(i)
  BY <1>4, <1>7 DEF BudgetOf, PaperEnded
<1>8. CASE PaperRegraded(i)
  <2>1. n > 0 => s[n].round < item'[i].version
    BY <1>1, <1>8 DEF PaperRegraded, HistoryOrdered
  <2>2. LastCall(i)' = 0
    BY <1>1, <1>2, <2>1 DEF LastCall
  <2> QED BY <1>3, <1>4, <1>8, <2>2 DEF BudgetOf, PaperRegraded
<1> QED BY <1>5, <1>6, <1>7, <1>8

(* A claim uses up one of the stale preparations, or is a correction.      *)
LEMMA BudgetClaimed ==
  ASSUME TypeOK, HistoryOrdered, NEW i \in Items, BudgetOf(i), Next,
         PaperClaimed(i)
  PROVE  BudgetOf(i)'
<1> DEFINE s == attempts[i]
           t == attempts'[i]
           n == Len(s) + 1
           S == Cardinality(Stale(i))
           T == Cardinality(Stale(i)')
<1>1. PICK a \in Attempt, w \in Workers :
        /\ t = Append(s, a)
        /\ a.round = item[i].version /\ a.seq = NextCall(i)
        /\ ClaimAttempt(w) /\ worker[w].item = i
        /\ a.prompt = worker[w].prompt
  BY DEF PaperClaimed
<1>2. /\ item[i].status = "queued" /\ item'[i].status = "running"
      /\ item'[i].version = item[i].version
  BY DEF PaperClaimed
<1>3. s \in Seq(Attempt) /\ Len(s) \in Nat /\ DOMAIN s = 1..Len(s)
  BY PaperTypes
<1>4. /\ Len(t) = n /\ DOMAIN t = 1..n /\ t[n] = a
      /\ \A k \in DOMAIN s : t[k] = s[k]
  BY <1>1, <1>3, AppendProperties
<1>5. \A k \in 1..n : k = n \/ k \in DOMAIN s
  BY <1>3
<1>6. LastCall(i) \in Nat /\ a.seq = LastCall(i) + 1
  BY <1>1, LastCallNext
<1>7. LastCall(i)' = a.seq
  BY <1>1, <1>2, <1>3, <1>4 DEF LastCall
<1>8. S \in Nat /\ Budget \in Nat /\ MaxProviderRetries \in Nat
      /\ Budget >= MaxProviderRetries
  BY StaleBound, PipelineAssumption DEF Budget
<1>9. a.prompt \in {"initial", "correction"}
  BY DEF Attempt, Prompts
<1>10. CASE LastCall(i) <= MaxProviderRetries
  <2>1. a.seq <= MaxProviderRetries + 1 /\ a.seq <= Budget + 1
    BY <1>6, <1>8, <1>10
  <2>2. \A k \in DOMAIN t : t[k].seq <= Budget + 1
    BY <1>4, <1>5, <2>1 DEF BudgetOf
  <2> QED BY <1>2, <1>7, <2>1, <2>2 DEF BudgetOf
<1>11. CASE /\ CorrectionSources(i, item[i].version) # {}
            /\ LastCall(i) + S <= Budget
  <2>1. Stale(i)' \subseteq Stale(i)
    BY <1>2, <1>11, StaleShrinks
  <2>2. /\ T <= S /\ T \in Nat
        /\ \A u \in Stale(i) \ Stale(i)' : T + 1 <= S
    BY <2>1, StaleCount
  <2>3. a.prompt = "initial" => w \in Stale(i) \ Stale(i)'
    <3>1. worker'[w].pc = "calling"
      BY <1>1 DEF ClaimAttempt, TypeOK
    <3>2. worker[w].pc = "prepared" /\ worker[w].version = item[i].version
      BY <1>1 DEF ClaimAttempt, Claimable
    <3> QED BY <1>1, <3>1, <3>2 DEF Stale
  <2> HIDE DEF S, T
  <2>4. a.prompt = "initial" => a.seq + T <= Budget
    BY <1>6, <1>8, <1>11, <2>2, <2>3
  <2>5. a.seq <= Budget + 1
    BY <1>6, <1>8, <1>11, <2>2
  <2>6. \A k \in DOMAIN t : t[k].seq <= Budget + 1
    BY <1>4, <1>5, <2>5 DEF BudgetOf
  <2>7. t[Len(t)].prompt = a.prompt
    BY <1>4
  <2> HIDE DEF t, s, n
  <2> QED BY <1>2, <1>7, <1>9, <2>4, <2>5, <2>6, <2>7
          DEF BudgetOf, T, t
<1> QED BY <1>2, <1>10, <1>11 DEF BudgetOf

(* A paper goes back to the queue for a safe error within the retry limit, *)
(* or for a correction that the finished call, whose worker is idle now,   *)
(* may have been the first to ask for.                                     *)
LEMMA BudgetReturned ==
  ASSUME TypeOK, LeaseMatchesRunningAttempt, HistoryOrdered,
         NEW i \in Items, BudgetOf(i), Next, PaperReturned(i)
  PROVE  BudgetOf(i)'
<1> DEFINE s == attempts[i]
           t == attempts'[i]
           n == Len(s)
           S == Cardinality(Stale(i))
           T == Cardinality(Stale(i)')
<1>1. PICK b \in Attempt :
        /\ t = [s EXCEPT ![n] = b]
        /\ b.round = s[n].round /\ b.seq = s[n].seq
        /\ b.prompt = s[n].prompt
        /\ b.code = "correction_required" => b.prompt = "initial"
        /\ item'[i].status = "queued" =>
             /\ b.seq <= MaxProviderRetries \/ b.code = "correction_required"
             /\ \E w \in Workers : FinishAttempt(w) /\ worker[w].item = i
  BY DEF PaperReturned
<1>2. /\ item[i].status = "running" /\ item'[i].status # "running"
      /\ item'[i].version = item[i].version
  BY DEF PaperReturned
<1>3. /\ s \in Seq(Attempt) /\ n \in Nat /\ DOMAIN s = 1..n
      /\ n \in DOMAIN s /\ s[n].round = item[i].version
  BY <1>2, PaperTypes DEF LeaseMatchesRunningAttempt
<1>4. /\ DOMAIN t = DOMAIN s /\ t[n] = b /\ Len(t) = n
      /\ \A k \in DOMAIN s : t[k].seq = s[k].seq
  BY <1>1, <1>3
<1>5. \A k \in DOMAIN t : t[k].seq <= Budget + 1
  BY <1>4 DEF BudgetOf
<1>6. LastCall(i) = b.seq /\ LastCall(i)' = b.seq /\ b.seq \in Nat
  <2>1. n > 0
    BY <1>3
  <2>2. LastCall(i) = s[n].seq /\ LastCall(i)' = t[n].seq
    BY <1>1, <1>2, <1>3, <1>4, <2>1 DEF LastCall
  <2> QED BY <1>1, <1>4, <2>2 DEF Attempt
<1>7. CASE item'[i].status # "queued"
  BY <1>2, <1>5, <1>7 DEF BudgetOf
<1>8. CASE item'[i].status = "queued" /\ b.seq <= MaxProviderRetries
  BY <1>2, <1>5, <1>6, <1>8 DEF BudgetOf
<1>9. CASE item'[i].status = "queued" /\ b.code = "correction_required"
  <2>1. CorrectionSources(i, item[i].version)' # {}
    <3>1. n \in InRound(i, item[i].version)'
      BY <1>1, <1>2, <1>3, <1>4 DEF InRound
    <3> QED BY <1>4, <1>9, <3>1 DEF CorrectionSources
  <2>2. PICK w \in Workers : FinishAttempt(w) /\ worker[w].item = i
    BY <1>1, <1>9
  <2>3. w \notin Stale(i)'
    <3>1. worker'[w].pc = "idle"
      BY <2>2 DEF FinishAttempt, TypeOK, Idle
    <3> QED BY <3>1 DEF Stale
  <2>4. Stale(i)' \subseteq Stale(i)
    BY <1>2, StaleShrinks
  <2>5. T <= S /\ T \in Nat /\ S \in Nat /\ Budget \in Nat
    BY <2>4, StaleCount, StaleBound
  <2>6. T + 1 <= Cardinality(Workers) /\ Cardinality(Workers) \in Nat
    <3>1. w \notin Stale(i) 
      BY <2>2 DEF FinishAttempt, Stale
    <3>2. S + 1 <= Cardinality(Workers) /\ Cardinality(Workers) \in Nat
      BY <3>1, StaleBound
    <3> HIDE DEF S, T
    <3> QED BY <2>5, <3>2
  <2> HIDE DEF S, T
  <2>7. MaxProviderRetries \in Nat
    BY PipelineAssumption
  <2>8. b.seq + T <= Budget
    <3>1. CASE b.seq <= MaxProviderRetries + 1
      BY <1>6, <2>5, <2>6, <2>7, <3>1 DEF Budget
    <3>2. CASE b.seq + S <= Budget
      BY <1>6, <2>5, <3>2
    <3>3. b.prompt = "initial" /\ s[n].prompt = "initial"
      BY <1>1, <1>9
    <3> QED BY <1>2, <1>6, <3>1, <3>2, <3>3 DEF BudgetOf, S
  <2> QED BY <1>2, <1>5, <1>6, <1>9, <2>1, <2>8 DEF BudgetOf, T
<1> QED BY <1>1, <1>7, <1>8, <1>9

(* For any number of workers and duplicated messages: one round of a paper *)
(* makes at most one call for each retry and each worker, and one more.    *)
THEOREM CallsOfARoundBounded == Spec => []CallBudget
<1>1. Init => BudgetInv
  <2> SUFFICES ASSUME Init, NEW i \in Items PROVE BudgetOf(i)
    BY InitInv DEF BudgetInv
  <2>1. attempts[i] = <<>> /\ item[i].status = "absent"
    BY DEF Init
  <2> QED BY <2>1 DEF BudgetOf
<1>2. ASSUME BudgetInv, [Next]_vars PROVE BudgetInv'
  <2>0. /\ TypeOK /\ LeaseMatchesRunningAttempt /\ HistoryOrdered
        /\ BornTogether /\ PipelineInv /\ \A i \in Items : BudgetOf(i)
    BY <1>2 DEF BudgetInv, PipelineInv
  <2>1. PipelineInv'
    BY <1>2, <2>0, StepInv
  <2>2. CASE UNCHANGED vars
    BY <2>0, <2>1, <2>2 DEF vars, BudgetInv, BudgetOf, LastCall, Stale,
       CorrectionSources, InRound
  <2>3. ASSUME Next, NEW i \in Items PROVE BudgetOf(i)'
    <3>1. PaperStep(i) /\ BudgetOf(i)
      BY <2>0, <2>3, PaperStepOfNext
    <3> QED BY <2>0, <2>3, <3>1, BudgetKept, BudgetClaimed, BudgetReturned
            DEF PaperStep
  <2> QED BY <1>2, <2>1, <2>2, <2>3 DEF BudgetInv
<1>3. BudgetInv => CallBudget
  BY DEF BudgetInv, BudgetOf, CallBudget, Budget
<1> QED BY <1>1, <1>2, <1>3, PTL DEF Spec

-----------------------------------------------------------------------------
(* One worker                                                              *)

(* A paper that was called before has a history; rounds count from one.    *)
RoundsOf(i) ==
  /\ item[i].version >= 1
  /\ \A k \in DOMAIN attempts[i] : attempts[i][k].round >= 1
  /\ item[i].version > 1 => attempts[i] # <<>>
  /\ item[i].status \in {"running", "needs_review", "failed"}
       => attempts[i] # <<>>

(* Only an initial prompt leads to a correction, and after one the round   *)
(* uses the correction prompt.                                             *)
CorrectionsOf(i) ==
  /\ \A k \in DOMAIN attempts[i] :
       attempts[i][k].code = "correction_required"
         => attempts[i][k].prompt = "initial"
  /\ \A k, l \in DOMAIN attempts[i] :
       k < l /\ attempts[i][k].round = attempts[i][l].round
         /\ attempts[i][k].code = "correction_required"
       => attempts[i][l].prompt = "correction"

(* KindMatchesHistory for one paper.                                       *)
KindsOf(i) ==
  \A k \in DOMAIN attempts[i] :
    attempts[i][k].kind =
      IF k = 1 THEN "initial"
      ELSE IF attempts[i][k - 1].round < attempts[i][k].round
        THEN "manual_retry"
      ELSE IF attempts[i][k - 1].code = "correction_required"
      THEN "correction" ELSE "automatic_retry"

(* What the only worker prepared for the current round is still what the   *)
(* history calls for: nobody else can have called since.                   *)
FreshOf(i) ==
  \A w \in Workers :
    worker[w].pc = "prepared" /\ worker[w].item = i =>
      /\ worker[w].version <= item[i].version
      /\ worker[w].version = item[i].version =>
           /\ item[i].status # "running"
           /\ worker[w].kind = NextKind(i, item[i].version)
           /\ worker[w].prompt =
                IF CorrectionSources(i, item[i].version) # {}
                THEN "correction" ELSE "initial"

SoloOf(i) == RoundsOf(i) /\ CorrectionsOf(i) /\ KindsOf(i) /\ FreshOf(i)

SoloInv == PipelineInv /\ \A i \in Items : SoloOf(i)

(* What a preparation derives depends on the paper's history alone.        *)
LEMMA DerivedFromHistory ==
  ASSUME NEW i \in Items, attempts'[i] = attempts[i],
         item'[i].version = item[i].version
  PROVE  /\ NextKind(i, item[i].version)' = NextKind(i, item[i].version)
         /\ CorrectionSources(i, item[i].version)'
              = CorrectionSources(i, item[i].version)
BY DEF NextKind, CorrectionSources, InRound

(* Rounds count from one and a re-graded paper has been called.            *)
LEMMA RoundsStep ==
  ASSUME TypeOK, NEW i \in Items, RoundsOf(i), PaperStep(i)
  PROVE  RoundsOf(i)'
<1> DEFINE s == attempts[i]
<1>1. s \in Seq(Attempt) /\ Len(s) \in Nat /\ DOMAIN s = 1..Len(s)
  BY PaperTypes
<1>2. item[i].version \in Nat
  BY PaperTypes
<1>3. CASE PaperKept(i) \/ PaperOpened(i) \/ PaperEnded(i)
  BY <1>3 DEF RoundsOf, PaperKept, PaperOpened, PaperEnded
<1>4. CASE PaperRegraded(i)
  BY <1>2, <1>4 DEF RoundsOf, PaperRegraded
<1>5. CASE PaperClaimed(i)
  <2>1. PICK a \in Attempt :
          attempts'[i] = Append(s, a) /\ a.round = item[i].version
    BY <1>5 DEF PaperClaimed
  <2>2. /\ DOMAIN attempts'[i] = 1..Len(s) + 1
        /\ attempts'[i][Len(s) + 1] = a
        /\ \A k \in 1..Len(s) : attempts'[i][k] = s[k]
    BY <1>1, <2>1, AppendProperties
  <2>3. \A k \in 1..Len(s) + 1 : k \in 1..Len(s) \/ k = Len(s) + 1
    BY <1>1
  <2>4. \A k \in DOMAIN attempts'[i] : attempts'[i][k].round >= 1
    BY <1>1, <2>1, <2>2, <2>3 DEF RoundsOf
  <2>5. attempts'[i] # <<>>
    BY <1>1, <2>2
  <2> QED BY <1>5, <2>4, <2>5 DEF RoundsOf, PaperClaimed
<1>6. CASE PaperReturned(i)
  <2>1. PICK b \in Attempt :
          attempts'[i] = [s EXCEPT ![Len(s)] = b] /\ b.round = s[Len(s)].round
    BY <1>6 DEF PaperReturned
  <2>2. DOMAIN attempts'[i] = DOMAIN s /\ s # <<>>
    BY <1>6, <2>1 DEF RoundsOf, PaperReturned
  <2>3. Len(s) \in DOMAIN s
    BY <1>1, <2>2, EmptySeq
  <2>4. \A k \in DOMAIN s : attempts'[i][k].round >= 1
    BY <2>1, <2>3 DEF RoundsOf
  <2>5. attempts'[i] # <<>>
    BY <2>2, <2>3
  <2> QED BY <1>6, <2>2, <2>4, <2>5 DEF RoundsOf, PaperReturned
<1> QED BY <1>3, <1>4, <1>5, <1>6 DEF PaperStep

(* A claim records what was prepared; finishing decides about the last     *)
(* attempt, which nothing follows yet.                                     *)
LEMMA CorrectionsStep ==
  ASSUME TypeOK, LeaseMatchesRunningAttempt, NEW i \in Items,
         CorrectionsOf(i), FreshOf(i), PaperStep(i)
  PROVE  CorrectionsOf(i)'
<1> DEFINE s == attempts[i]
           t == attempts'[i]
<1>1. s \in Seq(Attempt) /\ Len(s) \in Nat /\ DOMAIN s = 1..Len(s)
  BY PaperTypes
<1>2. CASE PaperKept(i) \/ PaperOpened(i) \/ PaperEnded(i) \/ PaperRegraded(i)
  BY <1>2 DEF CorrectionsOf, PaperKept, PaperOpened, PaperEnded, PaperRegraded
<1>3. CASE PaperClaimed(i)
  <2> DEFINE n == Len(s) + 1
  <2>1. PICK a \in Attempt, w \in Workers :
          /\ t = Append(s, a) /\ a.round = item[i].version
          /\ a.code = "none" /\ ClaimAttempt(w) /\ worker[w].item = i
          /\ a.prompt = worker[w].prompt
    BY <1>3 DEF PaperClaimed
  <2>2. /\ DOMAIN t = 1..n /\ t[n] = a
        /\ \A k \in DOMAIN s : t[k] = s[k]
    BY <1>1, <2>1, AppendProperties
  <2>3. \A k \in 1..n : k \in DOMAIN s \/ k = n
    BY <1>1
  <2>4. CorrectionSources(i, item[i].version) # {} => a.prompt = "correction"
    <3>1. worker[w].pc = "prepared" /\ worker[w].version = item[i].version
      BY <2>1 DEF ClaimAttempt, Claimable
    <3> QED BY <2>1, <3>1 DEF FreshOf
  <2>5. \A k \in DOMAIN s :
          s[k].round = a.round /\ s[k].code = "correction_required"
            => a.prompt = "correction"
    BY <2>1, <2>4 DEF CorrectionSources, InRound
  <2>6. \A k, l \in 1..n : k < l => k \in DOMAIN s
    BY <1>1
  <2>7. \A k \in DOMAIN t : t[k].code = "correction_required"
                              => t[k].prompt = "initial"
    BY <2>1, <2>2, <2>3 DEF CorrectionsOf
  <2>8. ASSUME NEW k \in DOMAIN t, NEW l \in DOMAIN t, k < l,
               t[k].round = t[l].round, t[k].code = "correction_required"
        PROVE  t[l].prompt = "correction"
    <3>1. k \in DOMAIN s /\ t[k] = s[k]
      BY <2>2, <2>6, <2>8
    <3>2. CASE l = n
      BY <2>2, <2>5, <2>8, <3>1, <3>2
    <3>3. CASE l \in DOMAIN s
      BY <2>2, <2>8, <3>1, <3>3 DEF CorrectionsOf
    <3> QED BY <2>2, <2>3, <3>2, <3>3
  <2> QED BY <2>7, <2>8 DEF CorrectionsOf
<1>4. CASE PaperReturned(i)
  <2> DEFINE n == Len(s)
  <2>1. PICK b \in Attempt :
          /\ t = [s EXCEPT ![n] = b] /\ b.round = s[n].round
          /\ b.prompt = s[n].prompt
          /\ b.code = "correction_required" => b.prompt = "initial"
    BY <1>4 DEF PaperReturned
  <2>2. n \in DOMAIN s
    BY <1>4, LeaseIsLast DEF PaperReturned
  <2>3. /\ DOMAIN t = DOMAIN s /\ t[n] = b
        /\ \A k \in DOMAIN s : k # n => t[k] = s[k]
    BY <2>1, <2>2
  <2>4. \A k \in DOMAIN s : t[k].round = s[k].round /\ t[k].prompt = s[k].prompt
    BY <2>1, <2>3
  <2>5. \A k, l \in DOMAIN s : k < l => k # n
    BY <1>1
  <2>6. \A k \in DOMAIN t : t[k].code = "correction_required"
                              => t[k].prompt = "initial"
    BY <2>1, <2>3 DEF CorrectionsOf
  <2>7. ASSUME NEW k \in DOMAIN s, NEW l \in DOMAIN s, k < l,
               t[k].round = t[l].round, t[k].code = "correction_required"
        PROVE  t[l].prompt = "correction"
    BY <2>3, <2>4, <2>5, <2>7 DEF CorrectionsOf
  <2> QED BY <2>3, <2>6, <2>7 DEF CorrectionsOf
<1> QED BY <1>2, <1>3, <1>4 DEF PaperStep

(* The kind that was prepared is the kind of the call that follows.        *)
LEMMA KindOfClaim ==
  ASSUME TypeOK, HistoryOrdered, NEW i \in Items, RoundsOf(i)
  PROVE  LET s == attempts[i]
             n == Len(s)
             v == item[i].version
         IN  NextKind(i, v) =
               IF n = 0 THEN "initial"
               ELSE IF s[n].round < v THEN "manual_retry"
               ELSE IF s[n].code = "correction_required"
               THEN "correction" ELSE "automatic_retry"
<1> DEFINE s == attempts[i]
           n == Len(s)
           v == item[i].version
           C == CorrectionSources(i, v)
<1>1. /\ s \in Seq(Attempt) /\ n \in Nat /\ DOMAIN s = 1..n /\ v \in Nat
      /\ \A k \in DOMAIN s : s[k].round \in Nat
  BY PaperTypes
<1>2. C = {k \in DOMAIN s : s[k].round = v /\ s[k].code = "correction_required"}
  BY DEF CorrectionSources, InRound
<1>3. n # 0 => n \in DOMAIN s /\ s[n].round >= 1 /\ s[n].round <= v
  BY <1>1 DEF RoundsOf, HistoryOrdered
<1>4. n = 0 => v = 1 /\ C = {}
  <2>1. n = 0 => s = <<>>
    BY <1>1, EmptySeq
  <2> QED BY <1>1, <1>2, <2>1 DEF RoundsOf
<1>5. C # {} => n # 0 /\ s[n].round = v
  <2> SUFFICES ASSUME NEW k \in C PROVE n # 0 /\ s[n].round = v
    OBVIOUS
  <2>1. k \in 1..n /\ s[k].round = v
    BY <1>1, <1>2
  <2>2. CASE k = n
    BY <1>1, <2>1, <2>2
  <2>3. CASE k < n
    <3>1. n \in DOMAIN s
      BY <1>1, <2>1
    <3>2. s[k].round <= s[n].round
      BY <1>1, <2>1, <2>3, <3>1 DEF HistoryOrdered
    <3> QED BY <1>1, <1>3, <2>1, <3>1, <3>2
  <2> QED BY <1>1, <2>1, <2>2, <2>3
<1>6. NextKind(i, v) =
        IF C # {} THEN IF n \in C THEN "correction" ELSE "automatic_retry"
        ELSE IF v > 1 /\ (n = 0 \/ s[n].round < v) THEN "manual_retry"
        ELSE IF n > 0 THEN "automatic_retry" ELSE "initial"
  BY DEF NextKind
<1>7. n # 0 => (n \in C <=> s[n].round = v /\ s[n].code = "correction_required")
  BY <1>2, <1>3
<1> HIDE DEF C
<1>8. CASE n = 0
  BY <1>1, <1>4, <1>6, <1>8
<1>9. CASE n # 0 /\ s[n].round < v
  BY <1>1, <1>3, <1>5, <1>6, <1>9
<1>10. CASE n # 0 /\ ~(s[n].round < v)
  <2>1. s[n].round = v /\ n > 0
    BY <1>1, <1>3, <1>10
  <2> QED BY <1>1, <1>6, <1>7, <1>10, <2>1
<1> QED BY <1>8, <1>9, <1>10

(* Kinds stay true: a claim adds the right one, and no later step changes  *)
(* what it was derived from.                                               *)
LEMMA KindsStep ==
  ASSUME TypeOK, LeaseMatchesRunningAttempt, HistoryOrdered, NEW i \in Items,
         RoundsOf(i), KindsOf(i), FreshOf(i), PaperStep(i)
  PROVE  KindsOf(i)'
<1> DEFINE s == attempts[i]
           t == attempts'[i]
<1>1. /\ s \in Seq(Attempt) /\ Len(s) \in Nat /\ DOMAIN s = 1..Len(s)
      /\ item[i].version \in Nat
      /\ \A k \in DOMAIN s : s[k].round \in Nat
  BY PaperTypes
<1>2. CASE PaperKept(i) \/ PaperOpened(i) \/ PaperEnded(i) \/ PaperRegraded(i)
  BY <1>2 DEF KindsOf, PaperKept, PaperOpened, PaperEnded, PaperRegraded
<1>3. CASE PaperClaimed(i)
  <2> DEFINE n == Len(s) + 1
  <2>1. PICK a \in Attempt, w \in Workers :
          /\ t = Append(s, a) /\ a.round = item[i].version
          /\ ClaimAttempt(w) /\ worker[w].item = i
          /\ a.kind = worker[w].kind
    BY <1>3 DEF PaperClaimed
  <2>2. /\ DOMAIN t = 1..n /\ t[n] = a
        /\ \A k \in DOMAIN s : t[k] = s[k]
    BY <1>1, <2>1, AppendProperties
  <2>3. a.kind = NextKind(i, item[i].version)
    <3>1. worker[w].pc = "prepared" /\ worker[w].version = item[i].version
      BY <2>1 DEF ClaimAttempt, Claimable
    <3> QED BY <2>1, <3>1 DEF FreshOf
  <2>4. a.kind = IF Len(s) = 0 THEN "initial"
                 ELSE IF s[Len(s)].round < a.round THEN "manual_retry"
                 ELSE IF s[Len(s)].code = "correction_required"
                 THEN "correction" ELSE "automatic_retry"
    BY <2>1, <2>3, KindOfClaim
  <2>5. ASSUME NEW k \in DOMAIN t
        PROVE  t[k].kind =
                 IF k = 1 THEN "initial"
                 ELSE IF t[k - 1].round < t[k].round THEN "manual_retry"
                 ELSE IF t[k - 1].code = "correction_required"
                 THEN "correction" ELSE "automatic_retry"
    <3>1. CASE k = n
      <4>1. n = 1 <=> Len(s) = 0
        BY <1>1
      <4>2. n # 1 => n - 1 = Len(s) /\ Len(s) \in DOMAIN s
        BY <1>1
      <4> QED BY <2>2, <2>4, <3>1, <4>1, <4>2
    <3>2. CASE k \in DOMAIN s
      <4>1. k # 1 => k - 1 \in DOMAIN s
        BY <1>1, <3>2
      <4> QED BY <2>2, <3>2, <4>1 DEF KindsOf
    <3> QED BY <1>1, <2>2, <3>1, <3>2
  <2> QED BY <2>5 DEF KindsOf
<1>4. CASE PaperReturned(i)
  <2> DEFINE n == Len(s)
  <2>1. PICK b \in Attempt :
          /\ t = [s EXCEPT ![n] = b] /\ b.round = s[n].round
          /\ b.kind = s[n].kind
    BY <1>4 DEF PaperReturned
  <2>2. n \in DOMAIN s
    BY <1>4, LeaseIsLast DEF PaperReturned
  <2>3. /\ DOMAIN t = DOMAIN s
        /\ \A k \in DOMAIN s : t[k].round = s[k].round /\ t[k].kind = s[k].kind
        /\ \A k \in DOMAIN s : k # n => t[k] = s[k]
    BY <2>1, <2>2
  <2>4. \A k \in DOMAIN s : k # 1 => k - 1 \in DOMAIN s /\ k - 1 # n
    BY <1>1
  <2> QED BY <2>3, <2>4 DEF KindsOf
<1> QED BY <1>2, <1>3, <1>4 DEF PaperStep

(* With one worker nobody calls between its preparation and its claim.     *)
LEMMA FreshStep ==
  ASSUME \A u, w \in Workers : u = w,
         TypeOK, Next, NEW i \in Items, FreshOf(i), PaperStep(i)
  PROVE  FreshOf(i)'
<1> SUFFICES ASSUME NEW w \in Workers, worker'[w].pc = "prepared",
                    worker'[w].item = i
             PROVE  /\ worker'[w].version <= item'[i].version
                    /\ worker'[w].version = item'[i].version =>
                         /\ item'[i].status # "running"
                         /\ worker'[w].kind = NextKind(i, item[i].version)'
                         /\ worker'[w].prompt =
                              IF CorrectionSources(i, item[i].version)' # {}
                              THEN "correction" ELSE "initial"
  BY DEF FreshOf
<1>0. item[i].version \in Nat
  BY PaperTypes
<1>1. CASE worker'[w] # worker[w]
  <2>1. PICK k \in Items :
          /\ item[k].status = "queued" /\ item' = item /\ attempts' = attempts
          /\ worker'[w] =
               [pc |-> "prepared", item |-> k, version |-> item[k].version,
                kind |-> NextKind(k, item[k].version),
                prompt |-> IF CorrectionSources(k, item[k].version) # {}
                           THEN "correction" ELSE "initial"]
    BY <1>1, PreparedStep
  <2>2. k = i
    BY <2>1
  <2>3. attempts'[i] = attempts[i] /\ item'[i].version = item[i].version
    BY <2>1
  <2> QED BY <1>0, <2>1, <2>2, <2>3, DerivedFromHistory
<1>2. CASE worker'[w] = worker[w]
  <2>1. worker[w].version \in Nat
    BY <1>2, WorkerTypes
  <2>2. /\ worker[w].version <= item[i].version
        /\ worker[w].version = item[i].version =>
             /\ item[i].status # "running"
             /\ worker[w].kind = NextKind(i, item[i].version)
             /\ worker[w].prompt =
                  IF CorrectionSources(i, item[i].version) # {}
                  THEN "correction" ELSE "initial"
    BY <1>2 DEF FreshOf
  <2>3. CASE PaperKept(i) \/ PaperOpened(i) \/ PaperEnded(i)
    <3>1. /\ attempts'[i] = attempts[i] /\ item'[i].version = item[i].version
          /\ item'[i].status = "running" => item[i].status = "running"
      BY <2>3 DEF PaperKept, PaperOpened, PaperEnded
    <3> QED BY <1>2, <2>2, <3>1, DerivedFromHistory
  <2>4. CASE PaperRegraded(i)
    BY <1>0, <1>2, <2>1, <2>2, <2>4 DEF PaperRegraded
  <2>5. CASE PaperReturned(i)
    BY <1>2, <2>2, <2>5 DEF PaperReturned
  <2>6. ~PaperClaimed(i)
    <3> SUFFICES ASSUME NEW u \in Workers, ClaimAttempt(u) PROVE FALSE
      BY DEF PaperClaimed
    <3>1. worker'[u].pc = "calling"
      BY DEF ClaimAttempt, TypeOK
    <3> QED BY <3>1
  <2> QED BY <2>3, <2>4, <2>5, <2>6 DEF PaperStep
<1> QED BY <1>1, <1>2

(* The invariant of the single worker.                                     *)
LEMMA SoloInvariant ==
  ASSUME \A u, w \in Workers : u = w
  PROVE  Spec => []SoloInv
<1>1. Init => SoloInv
  <2> SUFFICES ASSUME Init, NEW i \in Items PROVE SoloOf(i)
    BY InitInv DEF SoloInv
  <2>1. /\ attempts[i] = <<>> /\ item[i].version = 1
        /\ item[i].status = "absent" /\ DOMAIN attempts[i] = {}
        /\ \A w \in Workers : worker[w].pc = "idle"
    BY DEF Init, Idle
  <2> QED BY <2>1 DEF SoloOf, RoundsOf, CorrectionsOf, KindsOf, FreshOf
<1>2. ASSUME SoloInv, [Next]_vars PROVE SoloInv'
  <2>0. /\ TypeOK /\ LeaseMatchesRunningAttempt /\ HistoryOrdered
        /\ BornTogether /\ PipelineInv /\ \A i \in Items : SoloOf(i)
    BY <1>2 DEF SoloInv, PipelineInv
  <2>1. PipelineInv'
    BY <1>2, <2>0, StepInv
  <2>2. CASE UNCHANGED vars
    BY <2>0, <2>1, <2>2 DEF vars, SoloInv, SoloOf, RoundsOf, CorrectionsOf,
       KindsOf, FreshOf, NextKind, CorrectionSources, InRound
  <2>3. ASSUME Next, NEW i \in Items PROVE SoloOf(i)'
    <3>1. /\ PaperStep(i) /\ RoundsOf(i) /\ CorrectionsOf(i)
          /\ KindsOf(i) /\ FreshOf(i)
      BY <2>0, <2>3, PaperStepOfNext DEF SoloOf
    <3>2. RoundsOf(i)'
      BY <2>0, <3>1, RoundsStep
    <3>3. CorrectionsOf(i)'
      BY <2>0, <3>1, CorrectionsStep
    <3>4. KindsOf(i)'
      BY <2>0, <3>1, KindsStep
    <3>5. FreshOf(i)'
      BY <2>0, <2>3, <3>1, FreshStep
    <3> QED BY <3>2, <3>3, <3>4, <3>5 DEF SoloOf
  <2> QED BY <1>2, <2>1, <2>2, <2>3 DEF SoloInv
<1> QED BY <1>1, <1>2, PTL DEF Spec

(* With one worker process, for any batches, papers and retry limit: a     *)
(* round asks the model to correct its output at most once.  With two the  *)
(* stale preparation of the second one breaks it.                          *)
THEOREM OneCorrection ==
  ASSUME \A u, w \in Workers : u = w
  PROVE  Spec => []OneCorrectionPerRound
<1>1. SoloInv => OneCorrectionPerRound
  <2> SUFFICES ASSUME SoloInv, NEW i \in Items, NEW v \in 1..MaxRounds
               PROVE  Cardinality(CorrectionSources(i, v)) <= 1
    BY DEF OneCorrectionPerRound
  <2> DEFINE C == CorrectionSources(i, v)
  <2>0. DOMAIN attempts[i] \subseteq Int
    BY PaperTypes DEF SoloInv, PipelineInv
  <2>1. \A k \in C : /\ k \in DOMAIN attempts[i] /\ attempts[i][k].round = v
                     /\ attempts[i][k].code = "correction_required"
    BY DEF CorrectionSources, InRound
  <2>2. ASSUME NEW k \in C, NEW l \in C, k < l PROVE FALSE
    <3>1. attempts[i][l].prompt = "correction"
      BY <2>1, <2>2 DEF SoloInv, SoloOf, CorrectionsOf
    <3>2. attempts[i][l].prompt = "initial"
      BY <2>1 DEF SoloInv, SoloOf, CorrectionsOf
    <3> QED BY <3>1, <3>2
  <2>3. \A k, l \in C : k = l
    BY <2>0, <2>1, <2>2
  <2> HIDE DEF C
  <2>4. C = {} \/ \E k : C = {k}
    BY <2>3
  <2>5. Cardinality(C) = 0 \/ Cardinality(C) = 1
    BY <2>4, FS_EmptySet, FS_Singleton
  <2> QED BY <2>5 DEF C
<1> QED BY <1>1, SoloInvariant, PTL

(* With one worker process: attempt_kind tells the truth about the history *)
(* of every paper, as prepare_item derives it before claim_attempt writes  *)
(* the row.                                                                *)
THEOREM KindsAreTrue ==
  ASSUME \A u, w \in Workers : u = w
  PROVE  Spec => []KindMatchesHistory
<1>1. SoloInv => KindMatchesHistory
  BY DEF SoloInv, SoloOf, KindsOf, KindMatchesHistory
<1> QED BY <1>1, SoloInvariant, PTL
=============================================================================
