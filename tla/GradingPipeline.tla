--------------------------- MODULE GradingPipeline ---------------------------
(***************************************************************************)
(* Batch grading of papers: grading_jobs, grading_job_items and            *)
(* grading_attempts in PostgreSQL, the Celery messages that point at them, *)
(* the grading workers, the periodic maintenance tasks, and the two        *)
(* configuration changes (provider update, new rubric version) that the    *)
(* workers re-read.  One action is one database transaction, or one step   *)
(* of a worker between two transactions.                                   *)
(***************************************************************************)
EXTENDS Integers, Sequences, FiniteSets, FiniteSetsExt

CONSTANTS
  Jobs,                \* grading batches a teacher may create
  Items,               \* papers of those batches; numbers, in dispatch order
  JobOf,               \* the batch a paper belongs to
  Limit,               \* max_concurrency in each batch's provider snapshot
  Workers,             \* grading worker processes
  MaxProviderRetries,  \* automatic retries of a safe provider error
  DispatchLimit,       \* rows one scan of the dispatcher returns
  Outcomes,            \* provider outcomes the run considers
  MaxRounds            \* bound: manual re-gradings of one paper

(* How one call of the provider can end, as the runner tells them apart.   *)
AllOutcomes == { "valid",            \* output accepted by the validator
                 "invalid",          \* output rejected by the validator
                 "safe",             \* 408/429/5xx answer, not billed
                 "unknown",          \* no answer: nobody knows if it ran
                 "unknown_answered", \* answered, but unusable and maybe billed
                 "never",            \* definite error without an answer
                 "never_answered",   \* definite error in an answer
                 "url_rejected" }    \* the address policy refused to send

ASSUME PipelineAssumption ==
  /\ Items \subseteq Nat
  /\ JobOf \in [Items -> Jobs]
  /\ Limit \in [Jobs -> Nat \ {0}]
  /\ MaxProviderRetries \in Nat
  /\ DispatchLimit \in Nat \ {0}
  /\ Outcomes \subseteq AllOutcomes
  /\ MaxRounds \in Nat \ {0}

(* GradingJobCreate.submission_ids has min_length 1.                       *)
ASSUME BatchAssumption ==
  Jobs # {} /\ \A j \in Jobs : \E i \in Items : JobOf[i] = j

ASSUME FiniteAssumption == IsFiniteSet(Items) /\ IsFiniteSet(Workers)

VARIABLES
  job,       \* grading_jobs: status, and whether the snapshots still hold
  item,      \* grading_job_items
  attempts,  \* grading_attempts of each paper, by attempt_number
  messages,  \* grade_item messages in Redis: <<item, dispatch_version>>
  worker,    \* what each worker process holds in memory
  stored,    \* provider responses kept in object storage
  provider   \* the provider configuration row the batches use

vars == <<job, item, attempts, messages, worker, stored, provider>>

-----------------------------------------------------------------------------
(* State                                                                   *)

JobStatus == { "absent", "queued", "running", "paused", "needs_review",
               "completed", "failed", "cancelled" }
ItemStatus == { "absent", "queued", "running", "needs_review",
                "completed", "failed", "cancelled" }

Job == [status : JobStatus, rubricOk : BOOLEAN, configOk : BOOLEAN]

(* ready: available_at has passed; lease: the attempt whose claim put the  *)
(* current lease_token there, 0 for NULL.                                  *)
Item == [status : ItemStatus, version : Nat, retries : Nat,
         ready : BOOLEAN, lease : Nat]

Kinds == { "initial", "correction", "automatic_retry", "manual_retry" }
Prompts == { "initial", "correction" }

Attempt == [round : Nat, seq : Nat, kind : Kinds, prompt : Prompts,
            status : {"running", "succeeded", "failed"},
            call : {"started", "not_sent", "response_received", "ambiguous"},
            code : {"none", "correction_required", "other"}]

Idle == [pc |-> "idle"]
Prepared == [pc : {"prepared"}, item : Items, version : Nat,
             kind : Kinds, prompt : Prompts]
Calling == [pc : {"calling"}, item : Items, number : Nat]
Answered == [pc : {"answered"}, item : Items, number : Nat,
             outcome : Outcomes]

TypeOK ==
  /\ job \in [Jobs -> Job]
  /\ item \in [Items -> Item]
  /\ attempts \in [Items -> Seq(Attempt)]
  /\ messages \subseteq Items \X Nat
  /\ worker \in [Workers -> {Idle} \cup Prepared \cup Calling \cup Answered]
  /\ stored \subseteq Items \X Nat
  /\ provider \in [enabled : BOOLEAN, updating : BOOLEAN]

Init ==
  /\ job = [j \in Jobs |->
              [status |-> "absent", rubricOk |-> TRUE, configOk |-> TRUE]]
  /\ item = [i \in Items |->
              [status |-> "absent", version |-> 1, retries |-> 0,
               ready |-> TRUE, lease |-> 0]]
  /\ attempts = [i \in Items |-> <<>>]
  /\ messages = {}
  /\ worker = [w \in Workers |-> Idle]
  /\ stored = {}
  /\ provider = [enabled |-> TRUE, updating |-> FALSE]

ItemsOf(j) == {i \in Items : JobOf[i] = j}

Active(its, i) == its[i].status \in {"queued", "running"}

(* The messages the API sends after a commit, one for each queued paper.   *)
QueuedMessages(j, its) ==
  {<<i, its[i].version>> : i \in {k \in ItemsOf(j) : its[k].status = "queued"}}

-----------------------------------------------------------------------------
(* The teacher's batch operations.  The API enqueues after the commit; a   *)
(* message it fails to send is one LoseMessage takes.                      *)

(* create_or_get_job, first use of the idempotency key.  The transaction   *)
(* locks the provider row, so it waits for an update that is under way.    *)
(* Batches are numbered by created_at, as Items is in dispatch order.      *)
CreateJob(j) ==
  /\ job[j].status = "absent"
  /\ \A i \in Items, k \in ItemsOf(j) :
       i < k /\ JobOf[i] # j => item[i].status # "absent"
  /\ provider.enabled /\ ~provider.updating
  /\ job' = [job EXCEPT ![j] =
               [status |-> "queued", rubricOk |-> TRUE, configOk |-> TRUE]]
  /\ item' = [i \in Items |->
               IF JobOf[i] = j THEN [item[i] EXCEPT !.status = "queued"]
                               ELSE item[i]]
  /\ messages' = messages \cup QueuedMessages(j, item')
  /\ UNCHANGED <<attempts, worker, stored, provider>>

(* create_or_get_job with a key already used: the batch is returned as it  *)
(* is and its queued papers are enqueued once more.                        *)
RepeatCreateJob(j) ==
  /\ job[j].status # "absent"
  /\ messages' = messages \cup QueuedMessages(j, item)
  /\ UNCHANGED <<job, item, attempts, worker, stored, provider>>

PauseJob(j) ==
  /\ job[j].status \in {"queued", "running"}
  /\ job' = [job EXCEPT ![j].status = "paused"]
  /\ UNCHANGED <<item, attempts, messages, worker, stored, provider>>

ResumeJob(j) ==
  /\ job[j].status = "paused"
  /\ job' = [job EXCEPT ![j].status = "running"]
  /\ messages' = messages \cup QueuedMessages(j, item)
  /\ UNCHANGED <<item, attempts, worker, stored, provider>>

(* Papers not started are cancelled; a running call is left to finish.     *)
CancelJob(j) ==
  /\ job[j].status \in {"queued", "running", "paused"}
  /\ job' = [job EXCEPT ![j].status = "cancelled"]
  /\ item' = [i \in Items |->
               IF JobOf[i] = j /\ item[i].status = "queued"
               THEN [item[i] EXCEPT !.status = "cancelled"]
               ELSE item[i]]
  /\ UNCHANGED <<attempts, messages, worker, stored, provider>>

(* Manual re-grading opens a new round.  The provider row is read without  *)
(* a lock, so an update in progress is not seen; the job's transition      *)
(* trigger rejects a cancelled batch.                                      *)
RetryItem(i) ==
  LET j == JobOf[i] IN
  /\ job[j].status \notin {"absent", "cancelled"}
  /\ job[j].configOk
  /\ item[i].status \in {"needs_review", "failed"}
  /\ item[i].version < MaxRounds
  /\ item' = [item EXCEPT ![i] =
               [status |-> "queued", version |-> item[i].version + 1,
                retries |-> 0, ready |-> TRUE, lease |-> 0]]
  /\ job' = [job EXCEPT ![j].status = "running"]
  /\ messages' = messages \cup QueuedMessages(j, item')
  /\ UNCHANGED <<attempts, worker, stored, provider>>

(* Mutant: any succeeded attempt counts, also one of an earlier round.     *)
ReviewableAnyRound(i) ==
  /\ item[i].status = "needs_review"
  /\ \E k \in DOMAIN attempts[i] : attempts[i][k].status = "succeeded"

(* A paper can be reviewed when its current round produced a grade.        *)
Reviewable(i) ==
  /\ item[i].status = "needs_review"
  /\ \E k \in DOMAIN attempts[i] :
       /\ attempts[i][k].status = "succeeded"
       /\ attempts[i][k].round = item[i].version

(* Mutant: without the trigger, a confirmation settles the batch whether   *)
(* or not papers are still queued or running.                              *)
ConfirmItemsSettles(S) ==
  /\ \A i \in S : Reviewable(i) /\ job[JobOf[i]].status # "cancelled"
  /\ item' = [i \in Items |->
               IF i \in S THEN [item[i] EXCEPT !.status = "completed"]
                          ELSE item[i]]
  /\ job' = [j \in Jobs |->
      IF \A i \in S : JobOf[i] # j THEN job[j]
      ELSE [job[j] EXCEPT !.status =
              IF \A i \in ItemsOf(j) : item'[i].status = "completed"
                THEN "completed" ELSE "needs_review"]]
  /\ UNCHANGED <<attempts, messages, worker, stored, provider>>

(* What confirm_teacher_reviews does to papers and batches, with the       *)
(* trigger that keeps a batch with unfinished papers dispatchable.  One    *)
(* cancelled batch makes the transition trigger reject the whole request.  *)
ConfirmItems(S) ==
  /\ \A i \in S : Reviewable(i) /\ job[JobOf[i]].status # "cancelled"
  /\ item' = [i \in Items |->
               IF i \in S THEN [item[i] EXCEPT !.status = "completed"]
                          ELSE item[i]]
  /\ job' = [j \in Jobs |->
      IF \A i \in S : JobOf[i] # j THEN job[j]
      ELSE [job[j] EXCEPT !.status =
              IF \A i \in ItemsOf(j) : item'[i].status = "completed"
                THEN "completed"
              ELSE IF \A i \in ItemsOf(j) : ~Active(item', i)
                THEN "needs_review"
              ELSE IF job[j].status = "paused" THEN "paused"
              ELSE "running"]]
  /\ UNCHANGED <<attempts, messages, worker, stored, provider>>

-----------------------------------------------------------------------------
(* A grading worker: prepare, claim, call the provider, store the answer,  *)
(* finish.  Celery delivers at least once and in any order.                *)

(* Mutant: the batch status is not looked at. *)
DispatchableInAnyBatch(i) == item[i].status = "queued" /\ item[i].ready

Dispatchable(i) ==
  /\ item[i].status = "queued" /\ item[i].ready
  /\ job[JobOf[i]].status \in {"queued", "running"}

InputsValid(i) == job[JobOf[i]].rubricOk /\ job[JobOf[i]].configOk

InRound(i, v) == {k \in DOMAIN attempts[i] : attempts[i][k].round = v}

CorrectionSources(i, v) ==
  {k \in InRound(i, v) : attempts[i][k].code = "correction_required"}

(* Mutant: every preparation after a rejected output is a correction.      *)
NextKindStaysCorrection(i, v) ==
  LET last == Len(attempts[i]) IN
  IF CorrectionSources(i, v) # {} THEN "correction"
  ELSE IF v > 1 /\ (last = 0 \/ attempts[i][last].round < v)
    THEN "manual_retry"
  ELSE IF last > 0 THEN "automatic_retry"
  ELSE "initial"

(* Which attempt_kind a preparation records, from the history it reads.    *)
NextKind(i, v) ==
  LET last == Len(attempts[i]) IN
  IF CorrectionSources(i, v) # {}
    THEN IF last \in CorrectionSources(i, v) THEN "correction"
                                             ELSE "automatic_retry"
  ELSE IF v > 1 /\ (last = 0 \/ attempts[i][last].round < v)
    THEN "manual_retry"
  ELSE IF last > 0 THEN "automatic_retry"
  ELSE "initial"

(* prepare_item for a delivered message.  A stale or duplicate message is  *)
(* dropped; so is one whose inputs no longer hold (the task raises).  The  *)
(* broker may deliver the same message again.                              *)
PrepareItem(w, i, v) ==
  /\ worker[w] = Idle
  /\ <<i, v>> \in messages
  /\ messages' \in {messages, messages \ {<<i, v>>}}
  /\ worker' = IF Dispatchable(i) /\ item[i].version = v /\ InputsValid(i)
               THEN [worker EXCEPT ![w] =
                      [pc |-> "prepared", item |-> i, version |-> v,
                       kind |-> NextKind(i, v),
                       prompt |-> IF CorrectionSources(i, v) # {}
                                  THEN "correction" ELSE "initial"]]
               ELSE worker
  /\ UNCHANGED <<job, item, attempts, stored, provider>>

RunningAttempts ==
  UNION {{<<i, k>> : k \in {n \in DOMAIN attempts[i] :
                              attempts[i][n].status = "running"}} : i \in Items}

(* Mutant: one call too many. *)
ClaimableAtLimit(p) ==
  /\ Cardinality(RunningAttempts) <= Limit[JobOf[p.item]]
  /\ Dispatchable(p.item)
  /\ item[p.item].version = p.version

Claimable(p) ==
  /\ Cardinality(RunningAttempts) < Limit[JobOf[p.item]]
  /\ Dispatchable(p.item)
  /\ item[p.item].version = p.version

NextCall(i) ==
  1 + Max({0} \cup {attempts[i][k].seq : k \in InRound(i, item[i].version)})

(* claim_attempt.  The advisory lock on the provider and the row locks     *)
(* make the count, the checks and the insert one step.                     *)
ClaimAttempt(w) ==
  LET p == worker[w]
      i == p.item IN
  /\ p.pc = "prepared"
  /\ Claimable(p)
  /\ attempts' = [attempts EXCEPT ![i] = Append(@,
       [round |-> item[i].version, seq |-> NextCall(i), kind |-> p.kind,
        prompt |-> p.prompt, status |-> "running", call |-> "started",
        code |-> "none"])]
  /\ item' = [item EXCEPT ![i].status = "running",
                          ![i].lease = Len(attempts[i]) + 1]
  /\ job' = [job EXCEPT ![JobOf[i]].status = "running"]
  /\ worker' = [worker EXCEPT ![w] =
       [pc |-> "calling", item |-> i, number |-> Len(attempts[i]) + 1]]
  /\ UNCHANGED <<messages, stored, provider>>

(* claim_attempt returns None: the message ends as a duplicate.            *)
ClaimRefused(w) ==
  /\ worker[w].pc = "prepared"
  /\ ~Claimable(worker[w])
  /\ worker' = [worker EXCEPT ![w] = Idle]
  /\ UNCHANGED <<job, item, attempts, messages, stored, provider>>

HasResponse(o) == o \in {"valid", "invalid", "safe", "unknown_answered",
                         "never_answered"}

(* Mutant: only a usable result is stored, an error answer is dropped.     *)
CallProviderKeepsResults(w, o) ==
  /\ worker[w].pc = "calling"
  /\ worker' = [worker EXCEPT ![w] =
       [pc |-> "answered", item |-> worker[w].item,
        number |-> worker[w].number, outcome |-> o]]
  /\ stored' = IF o \in {"valid", "invalid"}
               THEN stored \cup {<<worker[w].item, worker[w].number>>}
               ELSE stored
  /\ UNCHANGED <<job, item, attempts, messages, provider>>

(* The provider call ends; an answer is put into storage, under a key of   *)
(* this attempt alone, before anything is decided.                         *)
CallProvider(w, o) ==
  /\ worker[w].pc = "calling"
  /\ worker' = [worker EXCEPT ![w] =
       [pc |-> "answered", item |-> worker[w].item,
        number |-> worker[w].number, outcome |-> o]]
  /\ stored' = IF HasResponse(o)
               THEN stored \cup {<<worker[w].item, worker[w].number>>}
               ELSE stored
  /\ UNCHANGED <<job, item, attempts, messages, provider>>

(* assess_grade_response: output rejected for the first time, since a call *)
(* that already was a correction carries the correction prompt.            *)
NeedsCorrection(o, a) == o = "invalid" /\ a.prompt = "initial"

(* Mutant: one retry of a safe error too many.                             *)
VerdictOneMore(o, a) ==
  CASE o = "valid" -> "succeeded"
    [] o = "invalid" -> IF NeedsCorrection(o, a) THEN "retry"
                                                 ELSE "needs_review"
    [] o = "safe" -> IF a.seq <= MaxProviderRetries + 1 THEN "retry"
                                                        ELSE "needs_review"
    [] o \in {"unknown", "unknown_answered"} -> "needs_review"
    [] OTHER -> "failed"

(* What the runner decides about a finished call.                          *)
Verdict(o, a) ==
  CASE o = "valid" -> "succeeded"
    [] o = "invalid" -> IF NeedsCorrection(o, a) THEN "retry"
                                                 ELSE "needs_review"
    [] o = "safe" -> IF a.seq <= MaxProviderRetries THEN "retry"
                                                    ELSE "needs_review"
    [] o \in {"unknown", "unknown_answered"} -> "needs_review"
    [] OTHER -> "failed"

CallState(o) ==
  IF HasResponse(o) THEN "response_received"
  ELSE IF o = "url_rejected" THEN "not_sent" ELSE "ambiguous"

(* Mutant: a rejected correction asks for another correction.              *)
FinishedAttemptCorrectsAgain(a, o) ==
  [a EXCEPT !.status = IF o = "valid" THEN "succeeded" ELSE "failed",
            !.call = CallState(o),
            !.code = IF o = "valid" THEN "none"
                     ELSE IF o = "invalid"
                     THEN "correction_required" ELSE "other"]

(* The attempt row after finish_success or finish_failure.                 *)
FinishedAttempt(a, o) ==
  [a EXCEPT !.status = IF o = "valid" THEN "succeeded" ELSE "failed",
            !.call = CallState(o),
            !.code = IF o = "valid" THEN "none"
                     ELSE IF NeedsCorrection(o, a)
                     THEN "correction_required" ELSE "other"]

(* Mutant: a retry leaves the old lease_token in the row.                  *)
FinishedItemKeepsLease(it, o, a) ==
  LET v == Verdict(o, a) IN
  IF v = "retry"
  THEN [it EXCEPT !.status = "queued", !.retries = @ + 1,
                  !.ready = (o = "invalid")]
  ELSE [it EXCEPT !.status = IF v = "failed" THEN "failed" ELSE "needs_review",
                  !.lease = 0]

(* The item row after the verdict; a correction is available at once, a    *)
(* provider retry only after its delay.                                    *)
FinishedItem(it, o, a) ==
  LET v == Verdict(o, a) IN
  IF v = "retry"
  THEN [it EXCEPT !.status = "queued", !.lease = 0, !.retries = @ + 1,
                  !.ready = (o = "invalid")]
  ELSE [it EXCEPT !.status = IF v = "failed" THEN "failed" ELSE "needs_review",
                  !.lease = 0]

(* _reconcile_job: the batch status that follows from its papers.          *)
Reconcile(j, its) ==
  LET has(S) == \E i \in ItemsOf(j) : its[i].status \in S IN
  IF job[j].status = "cancelled" \/ has({"queued", "running"})
    THEN job[j].status
  ELSE IF has({"needs_review", "completed"}) THEN "needs_review"
  ELSE IF has({"failed"}) THEN "failed"
  ELSE "cancelled"

(* Mutant: any worker may finish for a paper that is running.              *)
HoldsAnyLease(c) == item[c.item].status = "running"

(* The lease check of finish_success and finish_failure.                   *)
HoldsLease(c) ==
  /\ attempts[c.item][c.number].status = "running"
  /\ item[c.item].status = "running"
  /\ item[c.item].lease = c.number

FinishAttempt(w) ==
  LET c == worker[w]
      i == c.item
      a == attempts[i][c.number] IN
  /\ c.pc = "answered"
  /\ HoldsLease(c)
  /\ attempts' = [attempts EXCEPT ![i][c.number] = FinishedAttempt(a, c.outcome)]
  /\ item' = [item EXCEPT ![i] = FinishedItem(item[i], c.outcome, a)]
  /\ job' = [job EXCEPT ![JobOf[i]].status = Reconcile(JobOf[i], item')]
  /\ worker' = [worker EXCEPT ![w] = Idle]
  /\ UNCHANGED <<messages, stored, provider>>

(* The lease was lost meanwhile: the transaction raises, nothing changes.  *)
FinishRejected(w) ==
  /\ worker[w].pc = "answered"
  /\ ~HoldsLease(worker[w])
  /\ worker' = [worker EXCEPT ![w] = Idle]
  /\ UNCHANGED <<job, item, attempts, messages, stored, provider>>

(* A worker dies, or an exception outside the handled ones ends its task,  *)
(* at any point: what it did to the database stays.                        *)
WorkerLost(w) ==
  /\ worker[w] # Idle
  /\ worker' = [worker EXCEPT ![w] = Idle]
  /\ UNCHANGED <<job, item, attempts, messages, stored, provider>>

-----------------------------------------------------------------------------
(* Maintenance tasks, time and the broker.                                 *)

(* Mutant: the scan sees only batches no worker has started.               *)
DispatchNewBatches ==
  LET D == {i \in Items : Dispatchable(i) /\ job[JobOf[i]].status = "queued"}
      first == {i \in D : Cardinality({k \in D : k < i}) < DispatchLimit} IN
  /\ messages' = messages \cup {<<i, item[i].version>> : i \in first}
  /\ UNCHANGED <<job, item, attempts, worker, stored, provider>>

(* dispatch_ready_items: the first DispatchLimit dispatchable papers.      *)
DispatchReadyItems ==
  LET D == {i \in Items : Dispatchable(i)}
      first == {i \in D : Cardinality({k \in D : k < i}) < DispatchLimit} IN
  /\ messages' = messages \cup {<<i, item[i].version>> : i \in first}
  /\ UNCHANGED <<job, item, attempts, worker, stored, provider>>

(* The unique running attempt of a paper (partial unique index).           *)
RunningAttempt(i) ==
  CHOOSE k \in DOMAIN attempts[i] : attempts[i][k].status = "running"

(* Mutant: a lost worker's paper goes back to the queue.                   *)
ExpireRequeues(S) ==
  /\ \A i \in S : /\ item[i].status = "running"
                  /\ \E k \in DOMAIN attempts[i] :
                       attempts[i][k].status = "running"
  /\ attempts' = [i \in Items |->
       IF i \in S THEN [attempts[i] EXCEPT ![RunningAttempt(i)] =
              [@ EXCEPT !.status = "failed", !.call = "ambiguous",
                        !.code = "other"]]
       ELSE attempts[i]]
  /\ item' = [i \in Items |->
       IF i \in S THEN [item[i] EXCEPT !.status = "queued", !.lease = 0]
       ELSE item[i]]
  /\ job' = [j \in Jobs |-> [job[j] EXCEPT !.status =
       IF \E i \in S : JobOf[i] = j THEN Reconcile(j, item') ELSE @]]
  /\ UNCHANGED <<messages, worker, stored, provider>>

(* expire_stale_attempts, one transaction for the papers S whose lease ran *)
(* out, whether their workers died or are only slow: the outcome counts as *)
(* unknown.  A running paper without a running attempt aborts all of it.   *)
ExpireStaleAttempts(S) ==
  /\ \A i \in S : /\ item[i].status = "running"
                  /\ \E k \in DOMAIN attempts[i] :
                       attempts[i][k].status = "running"
  /\ attempts' = [i \in Items |->
       IF i \in S THEN [attempts[i] EXCEPT ![RunningAttempt(i)] =
              [@ EXCEPT !.status = "failed", !.call = "ambiguous",
                        !.code = "other"]]
       ELSE attempts[i]]
  /\ item' = [i \in Items |->
       IF i \in S THEN [item[i] EXCEPT !.status = "needs_review", !.lease = 0]
       ELSE item[i]]
  /\ job' = [j \in Jobs |-> [job[j] EXCEPT !.status =
       IF \E i \in S : JobOf[i] = j THEN Reconcile(j, item') ELSE @]]
  /\ UNCHANGED <<messages, worker, stored, provider>>

(* available_at passes. *)
RetryDelayEnds(i) ==
  /\ item[i].status = "queued" /\ ~item[i].ready
  /\ item' = [item EXCEPT ![i].ready = TRUE]
  /\ UNCHANGED <<job, attempts, messages, worker, stored, provider>>

LoseMessage(m) ==
  /\ m \in messages
  /\ messages' = messages \ {m}
  /\ UNCHANGED <<job, item, attempts, worker, stored, provider>>

-----------------------------------------------------------------------------
(* Configuration changes by administrators and teachers.                   *)

(* The UPDATE runs its trigger: no batch may be active.  Until it commits  *)
(* it holds the provider row, but other transactions see the old version.  *)
BeginProviderUpdate ==
  /\ ~provider.updating
  /\ \A j \in Jobs : job[j].status \notin {"queued", "running", "paused"}
  /\ provider' = [provider EXCEPT !.updating = TRUE]
  /\ UNCHANGED <<job, item, attempts, messages, worker, stored>>

(* config_version grows, so no existing batch matches it any more; the     *)
(* test is cleared and the provider is a draft again, not enabled.         *)
CommitProviderUpdate ==
  /\ provider.updating
  /\ provider' = [enabled |-> FALSE, updating |-> FALSE]
  /\ job' = [j \in Jobs |-> [job[j] EXCEPT !.configOk =
                               @ /\ job[j].status = "absent"]]
  /\ UNCHANGED <<item, attempts, messages, worker, stored>>

EnableProvider ==
  /\ ~provider.updating /\ ~provider.enabled
  /\ provider' = [provider EXCEPT !.enabled = TRUE]
  /\ UNCHANGED <<job, item, attempts, messages, worker, stored>>

DisableProvider ==
  /\ ~provider.updating /\ provider.enabled
  /\ provider' = [provider EXCEPT !.enabled = FALSE]
  /\ UNCHANGED <<job, item, attempts, messages, worker, stored>>

(* confirm_rubric supersedes the version every existing batch refers to;   *)
(* nothing looks for active batches.                                       *)
ConfirmRubric ==
  /\ provider.enabled /\ ~provider.updating
  /\ job' = [j \in Jobs |-> [job[j] EXCEPT !.rubricOk =
                               @ /\ job[j].status = "absent"]]
  /\ UNCHANGED <<item, attempts, messages, worker, stored, provider>>

-----------------------------------------------------------------------------
TeacherStep ==
  \/ \E j \in Jobs : CreateJob(j) \/ RepeatCreateJob(j) \/ PauseJob(j)
                     \/ ResumeJob(j) \/ CancelJob(j)
  \/ \E i \in Items : RetryItem(i)
  \/ \E S \in (SUBSET Items) \ {{}} : ConfirmItems(S)

WorkerStep(w) ==
  \/ \E i \in Items, v \in 1..MaxRounds : PrepareItem(w, i, v)
  \/ ClaimAttempt(w) \/ ClaimRefused(w)
  \/ \E o \in Outcomes : CallProvider(w, o)
  \/ FinishAttempt(w) \/ FinishRejected(w) \/ WorkerLost(w)

MaintenanceStep ==
  \/ DispatchReadyItems
  \/ \E S \in (SUBSET Items) \ {{}} : ExpireStaleAttempts(S)
  \/ \E i \in Items : RetryDelayEnds(i)
  \/ \E m \in messages : LoseMessage(m)

ConfigurationStep ==
  \/ BeginProviderUpdate \/ CommitProviderUpdate
  \/ EnableProvider \/ DisableProvider \/ ConfirmRubric

Next ==
  \/ TeacherStep
  \/ \E w \in Workers : WorkerStep(w)
  \/ MaintenanceStep
  \/ ConfigurationStep

Spec == Init /\ [][Next]_vars

(* Celery beat runs the maintenance tasks every 30 seconds, a provider     *)
(* call has a timeout, and a worker that is restarted or whose message is  *)
(* lost gets another chance: it does not die at the same step for ever.    *)
(* Nothing is assumed of teachers and administrators.                      *)
Fairness ==
  /\ WF_vars(DispatchReadyItems)
  /\ \A i \in Items :
       /\ WF_vars(\E S \in SUBSET Items : i \in S /\ ExpireStaleAttempts(S))
       /\ WF_vars(RetryDelayEnds(i))
  /\ \A i \in Items, v \in 1..MaxRounds :
       SF_vars(\E w \in Workers : PrepareItem(w, i, v))
  /\ \A w \in Workers :
       /\ SF_vars(ClaimAttempt(w)) /\ WF_vars(ClaimRefused(w))
       /\ WF_vars(\E o \in Outcomes : CallProvider(w, o))
       /\ WF_vars(FinishAttempt(w)) /\ WF_vars(FinishRejected(w))

FairSpec == Spec /\ Fairness

-----------------------------------------------------------------------------
(* Safety                                                                  *)

(* A paper is running exactly while its newest attempt is, the lease names *)
(* that attempt, and the attempt belongs to the paper's current round: the *)
(* lease_token check of finish_* and the running row that                  *)
(* expire_stale_attempts insists on are about the same call.               *)
LeaseMatchesRunningAttempt ==
  \A i \in Items :
    /\ item[i].status = "running" =>
         /\ item[i].lease \in DOMAIN attempts[i]
         /\ item[i].lease = Len(attempts[i])
         /\ attempts[i][item[i].lease].status = "running"
         /\ attempts[i][item[i].lease].round = item[i].version
         /\ \A k \in DOMAIN attempts[i] :
              k # item[i].lease => attempts[i][k].status # "running"
    /\ item[i].status # "running" =>
         /\ item[i].lease = 0
         /\ \A k \in DOMAIN attempts[i] : attempts[i][k].status # "running"

(* A call whose outcome nobody knows is the last one of its round: no      *)
(* redelivery, retry, expiry or late worker makes the program call (and    *)
(* pay) again until the teacher asks for a new round.                      *)
NoCallAfterUnknownOutcome ==
  \A i \in Items : \A k, l \in DOMAIN attempts[i] :
    k < l /\ attempts[i][k].call = "ambiguous"
      => attempts[i][k].round < attempts[i][l].round

(* However messages are duplicated, one round makes a bounded number of    *)
(* provider calls: the retries of safe errors, one correction for each     *)
(* worker that may hold a preparation, and the call that ends the round.   *)
CallBudget ==
  \A i \in Items : \A k \in DOMAIN attempts[i] :
    attempts[i][k].seq <= MaxProviderRetries + Cardinality(Workers) + 1

(* A round asks the model to correct its output at most once.              *)
OneCorrectionPerRound ==
  \A i \in Items : \A v \in 1..MaxRounds :
    Cardinality(CorrectionSources(i, v)) <= 1

(* attempt_kind tells the truth about the history: the first call of all,  *)
(* the first call of a later round, the call right after a rejected        *)
(* output, or a repetition.                                                *)
KindMatchesHistory ==
  \A i \in Items : \A k \in DOMAIN attempts[i] :
    LET a == attempts[i][k] IN
    a.kind = IF k = 1 THEN "initial"
             ELSE IF attempts[i][k - 1].round < a.round THEN "manual_retry"
             ELSE IF attempts[i][k - 1].code = "correction_required"
             THEN "correction" ELSE "automatic_retry"

(* A provider answer that any attempt row reports can be read back: it was *)
(* stored before the row was finished.                                     *)
AnswersAreAudited ==
  \A i \in Items : \A k \in DOMAIN attempts[i] :
    attempts[i][k].call = "response_received" => <<i, k>> \in stored

(* The batch status and its papers agree: an active batch still has work,  *)
(* a settled one has none (nothing would dispatch it), and it is completed *)
(* exactly when the teacher confirmed every paper.                         *)
BatchAgreesWithPapers ==
  \A j \in Jobs :
    LET s == job[j].status IN
    /\ s = "absent" <=> \A i \in ItemsOf(j) : item[i].status = "absent"
    /\ s \in {"queued", "running", "paused"} =>
         \E i \in ItemsOf(j) : Active(item, i)
    /\ s \in {"needs_review", "completed", "failed"} =>
         \A i \in ItemsOf(j) : ~Active(item, i)
    /\ s = "completed" <=> \A i \in ItemsOf(j) : item[i].status = "completed"

(* The provider never sees more calls at once than the most generous batch *)
(* snapshot allows, whatever number of workers claims at the same time.    *)
ConcurrencyLimit ==
  Cardinality(RunningAttempts) <= Max({Limit[j] : j \in Jobs})

(* What acceptance step 6.4 expects of a cancelled batch: its papers are   *)
(* cancelled, still running, or settled, and none is back in the queue.    *)
CancelledBatchDrains ==
  \A i \in Items :
    job[JobOf[i]].status = "cancelled" => item[i].status # "queued"

(* What the guard trigger on provider_configs is for ("provider            *)
(* configuration has active grading jobs"): an active batch still matches  *)
(* the configuration it was created with.                                  *)
ActiveBatchKeepsProvider ==
  \A j \in Jobs :
    job[j].status \in {"queued", "running", "paused"} => job[j].configOk

-----------------------------------------------------------------------------
(* Action properties                                                       *)

(* A finished attempt is history: a worker that answers after its lease    *)
(* expired, or after the paper was re-graded, changes nothing of it.       *)
FinishedAttemptsImmutable ==
  [][\A i \in Items :
       /\ Len(attempts'[i]) >= Len(attempts[i])
       /\ \A k \in DOMAIN attempts[i] :
            attempts[i][k].status # "running"
              => attempts'[i][k] = attempts[i][k]]_vars

(* Cancelling is final and stops new calls: a cancelled batch stays        *)
(* cancelled and none of its papers is claimed again.                      *)
CancelledBatchStaysQuiet ==
  [][\A i \in Items :
       job[JobOf[i]].status = "cancelled" =>
         /\ job'[JobOf[i]].status = "cancelled"
         /\ Len(attempts'[i]) = Len(attempts[i])]_vars

-----------------------------------------------------------------------------
(* Liveness                                                                *)

BatchOpen(i) == job[JobOf[i]].status \in {"queued", "running"}

(* Whatever messages are lost or duplicated and whichever workers die, a   *)
(* queued or running paper settles, unless the teacher pauses or cancels   *)
(* its batch or its rubric or provider version is replaced.                *)
EveryPaperSettles ==
  \A i \in Items :
    (Active(item, i) /\ BatchOpen(i) /\ InputsValid(i))
      ~> (~Active(item, i) \/ ~BatchOpen(i) \/ ~InputsValid(i))

(* The same without the exception for replaced versions: no paper of an    *)
(* open batch is left behind, as the development plan asks.                *)
NoPaperLeftBehind ==
  \A i \in Items :
    (Active(item, i) /\ BatchOpen(i)) ~> (~Active(item, i) \/ ~BatchOpen(i))
=============================================================================
