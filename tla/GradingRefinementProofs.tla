---------------------- MODULE GradingRefinementProofs ----------------------
(***************************************************************************)
(* The pipeline implements PaperLifecycle for any batches, papers and      *)
(* workers.  Every transaction of the pipeline is one step of the life     *)
(* cycle for the papers it touches, or none; what it takes beyond the      *)
(* invariant of GradingPipelineProofs is that a paper that waits or is     *)
(* being called has no grade in its current round.                         *)
(***************************************************************************)
EXTENDS GradingRefinement, GradingPipelineProofs

(* A paper that may still be called has no grade of its current round.     *)
NoGradeInQueue ==
  \A i \in Items :
    item[i].status \in {"queued", "running"} =>
      \A k \in DOMAIN attempts[i] :
        attempts[i][k].status = "succeeded"
          => attempts[i][k].round < item[i].version

RefinementInv == PipelineInv /\ NoGradeInQueue

-----------------------------------------------------------------------------
(* A step keeps NoGradeInQueue, paper by paper.                            *)
LEMMA NoGradeInQueueStep ==
  ASSUME RefinementInv, Next, NEW i \in Items,
         item'[i].status \in {"queued", "running"},
         NEW k \in DOMAIN attempts'[i], attempts'[i][k].status = "succeeded"
  PROVE  attempts'[i][k].round < item'[i].version
<1> DEFINE s == attempts[i]
           t == attempts'[i]
<1>0. /\ TypeOK /\ LeaseMatchesRunningAttempt /\ HistoryOrdered
      /\ BornTogether /\ NoGradeInQueue
  BY DEF RefinementInv, PipelineInv
<1>1. /\ s \in Seq(Attempt) /\ Len(s) \in Nat /\ DOMAIN s = 1..Len(s)
      /\ item[i].version \in Nat
      /\ \A l \in DOMAIN s : s[l].round \in Nat
  BY <1>0, PaperTypes
<1>2. \A l \in DOMAIN s : s[l].round <= item[i].version
  BY <1>0 DEF HistoryOrdered
<1>3. PaperStep(i)
  BY <1>0, PaperStepOfNext
<1>4. CASE PaperKept(i)
  BY <1>0, <1>4 DEF PaperKept, NoGradeInQueue
<1>5. CASE PaperOpened(i)
  BY <1>0, <1>5 DEF PaperOpened, BornTogether
<1>6. CASE PaperEnded(i)
  BY <1>6 DEF PaperEnded
<1>7. CASE PaperRegraded(i)
  BY <1>1, <1>2, <1>7 DEF PaperRegraded
<1>8. CASE PaperClaimed(i)
  <2>1. PICK a \in Attempt : t = Append(s, a) /\ a.status = "running"
    BY <1>8 DEF PaperClaimed
  <2>2. k \in DOMAIN s /\ t[k] = s[k]
    BY <1>1, <2>1, AppendProperties
  <2> QED BY <1>0, <1>8, <2>2 DEF PaperClaimed, NoGradeInQueue
<1>9. CASE PaperReturned(i)
  <2>1. PICK b \in Attempt :
          /\ t = [s EXCEPT ![Len(s)] = b]
          /\ b.status = "succeeded" => item'[i].status = "needs_review"
    BY <1>9 DEF PaperReturned
  <2>2. k \in DOMAIN s /\ t[k] = s[k]
    BY <1>1, <2>1
  <2> QED BY <1>0, <1>9, <2>2 DEF PaperReturned, NoGradeInQueue
<1> QED BY <1>3, <1>4, <1>5, <1>6, <1>7, <1>8, <1>9 DEF PaperStep

(* The pipeline's invariant, and no grade of the current round for a paper *)
(* in the queue: finish_success alone writes a grade, and it takes the     *)
(* paper out of the queue in the same transaction.                         *)
THEOREM RefinementInvariant == Spec => []RefinementInv
<1>1. Init => RefinementInv
  BY InitInv DEF Init, RefinementInv, NoGradeInQueue
<1>2. RefinementInv /\ [Next]_vars => RefinementInv'
  <2>1. ASSUME RefinementInv, Next PROVE RefinementInv'
    BY <2>1, StepInv, NoGradeInQueueStep DEF RefinementInv, NoGradeInQueue
  <2>2. ASSUME RefinementInv, UNCHANGED vars PROVE RefinementInv'
    BY <2>2, StepInv DEF RefinementInv, NoGradeInQueue, vars
  <2> QED BY <2>1, <2>2
<1> QED BY <1>1, <1>2, PTL DEF Spec

-----------------------------------------------------------------------------
(* What the steps of one paper are in the life cycle                       *)

DoubtOfRound(i) ==
  \E k \in InRound(i, item[i].version) : attempts[i][k].call = "ambiguous"

(* Rows that do not change, and a new queue entry's, keep the paper's      *)
(* place and doubt.                                                        *)
LEMMA KeptPhase ==
  ASSUME NEW i \in Items, PaperKept(i)
  PROVE  /\ PhaseOf(i)' = PhaseOf(i)
         /\ DoubtOfRound(i)' = DoubtOfRound(i)
         /\ item'[i].version = item[i].version
BY DEF PaperKept, PhaseOf, HasGrade, DoubtOfRound, InRound

LEMMA OpenedPhase ==
  ASSUME NEW i \in Items, PaperOpened(i)
  PROVE  /\ PhaseOf(i) = "outside" /\ PhaseOf(i)' = "waiting"
         /\ DoubtOfRound(i)' = DoubtOfRound(i)
         /\ item'[i].version = item[i].version
BY DEF PaperOpened, PhaseOf, DoubtOfRound, InRound

(* A cancelled paper was waiting, a confirmed one has a grade.             *)
LEMMA EndedPhase ==
  ASSUME NEW i \in Items, PaperEnded(i)
  PROVE  /\ \/ /\ item'[i].status = "cancelled"
               /\ PhaseOf(i) = "waiting" /\ PhaseOf(i)' = "withdrawn"
            \/ /\ item'[i].status = "completed"
               /\ PhaseOf(i) = "graded" /\ PhaseOf(i)' = "final"
         /\ DoubtOfRound(i)' = DoubtOfRound(i)
         /\ item'[i].version = item[i].version
<1>1. Reviewable(i) => HasGrade(i) /\ item[i].status = "needs_review"
  BY DEF Reviewable, HasGrade, InRound
<1> QED BY <1>1 DEF PaperEnded, PhaseOf, DoubtOfRound, InRound

(* A new round starts without a doubt: no attempt belongs to it yet.       *)
LEMMA RegradedPhase ==
  ASSUME TypeOK, HistoryOrdered, NEW i \in Items, PaperRegraded(i)
  PROVE  /\ PhaseOf(i) \in {"graded", "ungraded"} /\ PhaseOf(i)' = "waiting"
         /\ ~DoubtOfRound(i)'
         /\ item'[i].version = item[i].version + 1
<1>1. PhaseOf(i) \in {"graded", "ungraded"} /\ PhaseOf(i)' = "waiting"
  BY DEF PaperRegraded, PhaseOf
<1>2. \A k \in DOMAIN attempts[i] : attempts[i][k].round # item[i].version + 1
  BY PaperTypes DEF HistoryOrdered
<1>3. ~DoubtOfRound(i)'
  BY <1>2 DEF PaperRegraded, DoubtOfRound, InRound
<1> QED BY <1>1, <1>3 DEF PaperRegraded

(* A call starts without a doubt and leaves none.                          *)
LEMMA ClaimedPhase ==
  ASSUME TypeOK, NoDoubtInQueue, NEW i \in Items, PaperClaimed(i)
  PROVE  /\ PhaseOf(i) = "waiting" /\ PhaseOf(i)' = "calling"
         /\ ~DoubtOfRound(i) /\ ~DoubtOfRound(i)'
         /\ item'[i].version = item[i].version
<1> DEFINE s == attempts[i]
           t == attempts'[i]
<1>1. PhaseOf(i) = "waiting" /\ PhaseOf(i)' = "calling"
  BY DEF PaperClaimed, PhaseOf
<1>2. /\ s \in Seq(Attempt) /\ item[i].version \in Nat
      /\ Len(s) \in Nat /\ DOMAIN s = 1..Len(s)
      /\ \A k \in DOMAIN s : s[k].round \in Nat
  BY PaperTypes
<1>3. \A k \in DOMAIN s :
        s[k].call = "ambiguous" => s[k].round # item[i].version
  BY <1>2 DEF PaperClaimed, NoDoubtInQueue
<1>4. ~DoubtOfRound(i)
  BY <1>3 DEF DoubtOfRound, InRound
<1>5. PICK a \in Attempt : t = Append(s, a) /\ a.call = "started"
  BY DEF PaperClaimed
<1>6. \A k \in DOMAIN t : t[k] = a \/ (k \in DOMAIN s /\ t[k] = s[k])
  BY <1>2, <1>5, AppendProperties
<1>7. ~DoubtOfRound(i)'
  BY <1>3, <1>5, <1>6 DEF PaperClaimed, DoubtOfRound, InRound
<1> QED BY <1>1, <1>4, <1>7 DEF PaperClaimed

(* A call ends with a grade, without one, or in the queue again; a doubt   *)
(* is left exactly when the closed attempt is in doubt, and then the round *)
(* ends without a grade.                                                   *)
LEMMA ReturnedPhase ==
  ASSUME PipelineInv, NoGradeInQueue, NEW i \in Items, PaperReturned(i)
  PROVE  /\ PhaseOf(i) = "calling"
         /\ PhaseOf(i)' \in {"graded", "ungraded", "waiting"}
         /\ ~DoubtOfRound(i)
         /\ DoubtOfRound(i)' => PhaseOf(i)' = "ungraded"
         /\ DoubtOfRound(i)' <=>
              attempts'[i][Len(attempts[i])].call = "ambiguous"
         /\ item'[i].version = item[i].version
<1> DEFINE s == attempts[i]
           t == attempts'[i]
           n == Len(s)
           v == item[i].version
<1>0. TypeOK /\ LeaseMatchesRunningAttempt /\ NoDoubtInQueue
  BY DEF PipelineInv
<1>1. /\ s \in Seq(Attempt) /\ v \in Nat /\ n \in Nat /\ DOMAIN s = 1..n
      /\ \A k \in DOMAIN s : s[k].round \in Nat
  BY <1>0, PaperTypes
<1>2. PICK b \in Attempt :
        /\ t = [s EXCEPT ![n] = b] /\ b.round = s[n].round
        /\ item'[i].status = "queued" => b.call # "ambiguous"
        /\ b.status = "succeeded" =>
             item'[i].status = "needs_review" /\ b.call # "ambiguous"
  BY DEF PaperReturned
<1>3. /\ item[i].status = "running" /\ item'[i].version = v
      /\ item'[i].status \in {"queued", "needs_review", "failed"}
  BY DEF PaperReturned
<1>4. n \in DOMAIN s /\ s[n].round = v
  BY <1>0, <1>3 DEF LeaseMatchesRunningAttempt
<1>5. /\ DOMAIN t = DOMAIN s /\ t[n] = b
      /\ \A k \in DOMAIN s : k # n => t[k] = s[k]
  BY <1>1, <1>2, <1>4
<1>6. \A k \in DOMAIN s : s[k].round = v =>
        s[k].call # "ambiguous" /\ s[k].status # "succeeded"
  BY <1>0, <1>1, <1>3 DEF NoDoubtInQueue, NoGradeInQueue
<1>7. ~DoubtOfRound(i)
  BY <1>6 DEF DoubtOfRound, InRound
<1>8. DoubtOfRound(i)' <=> b.call = "ambiguous"
  BY <1>2, <1>3, <1>4, <1>5, <1>6 DEF DoubtOfRound, InRound
<1>9. HasGrade(i)' <=> b.status = "succeeded"
  BY <1>2, <1>3, <1>4, <1>5, <1>6 DEF HasGrade, InRound
<1>10. PhaseOf(i) = "calling"
  BY <1>3 DEF PhaseOf
<1>11. PhaseOf(i)' = IF item'[i].status = "queued" THEN "waiting"
                     ELSE IF item'[i].status = "needs_review"
                             /\ b.status = "succeeded"
                     THEN "graded" ELSE "ungraded"
  BY <1>3, <1>9 DEF PhaseOf
<1> QED BY <1>2, <1>3, <1>5, <1>7, <1>8, <1>10, <1>11

-----------------------------------------------------------------------------
(* What the actions are in the life cycle                                  *)

(* A step that keeps every paper is no step of the life cycle.             *)
LEMMA KeptStep ==
  ASSUME \A i \in Items : PaperKept(i)
  PROVE  UNCHANGED Lifecycle!lifecycleVars
<1>1. phaseBar' = phaseBar
  BY KeptPhase DEF phaseBar
<1>2. roundBar' = roundBar
  BY KeptPhase DEF roundBar
<1>3. inDoubtBar' = inDoubtBar
  BY KeptPhase DEF inDoubtBar, DoubtOfRound
<1> QED BY <1>1, <1>2, <1>3 DEF Lifecycle!lifecycleVars

(* A step that moves the papers S from one phase to another and leaves     *)
(* rounds and doubts alone is a Move.                                      *)
LEMMA MoveStep ==
  ASSUME NEW S \in SUBSET Items, S # {}, NEW from, NEW to,
         \A i \in Items \ S : PaperKept(i),
         \A i \in S : /\ PhaseOf(i) = from /\ PhaseOf(i)' = to
                      /\ DoubtOfRound(i)' = DoubtOfRound(i)
                      /\ item'[i].version = item[i].version
  PROVE  Lifecycle!Move(S, from, to)
<1>1. \A i \in S : phaseBar[i] = from
  BY DEF phaseBar
<1>2. phaseBar' = [i \in Items |-> IF i \in S THEN to ELSE phaseBar[i]]
  BY KeptPhase DEF phaseBar
<1>3. roundBar' = roundBar
  BY KeptPhase DEF roundBar
<1>4. inDoubtBar' = inDoubtBar
  BY KeptPhase DEF inDoubtBar, DoubtOfRound
<1> QED BY <1>1, <1>2, <1>3, <1>4 DEF Lifecycle!Move

(* A batch is created: its papers are submitted.                           *)
LEMMA CreateIsSubmit ==
  ASSUME RefinementInv, Next, NEW j \in Jobs, CreateJob(j)
  PROVE  [Lifecycle!LifecycleNext]_(Lifecycle!lifecycleVars)
<1>0. /\ TypeOK /\ LeaseMatchesRunningAttempt /\ HistoryOrdered
      /\ BornTogether
  BY DEF RefinementInv, PipelineInv
<1>1. \A i \in Items \ ItemsOf(j) : PaperKept(i)
  BY DEF CreateJob, ItemsOf, PaperKept
<1>2. CASE ItemsOf(j) = {}
  BY <1>1, <1>2, KeptStep
<1>3. CASE ItemsOf(j) # {}
  <2>1. ASSUME NEW i \in ItemsOf(j) PROVE PaperOpened(i)
    <3>1. i \in Items /\ JobOf[i] = j
      BY DEF ItemsOf
    <3>2. item[i].status = "absent"
      BY <1>0, <3>1 DEF CreateJob, BornTogether
    <3>3. item[i] \in Item /\ item'[i] = [item[i] EXCEPT !.status = "queued"]
      BY <1>0, <3>1, PaperTypes DEF CreateJob
    <3>4. item'[i].status = "queued"
      BY <3>3 DEF Item
    <3>5. PaperStep(i)
      BY <1>0, <3>1, PaperStepOfNext
    <3> QED BY <3>2, <3>4, <3>5 DEF PaperStep, PaperKept, PaperEnded,
            PaperRegraded, PaperClaimed, PaperReturned
  <2>2. ItemsOf(j) \in SUBSET Items
    BY DEF ItemsOf
  <2>3. Lifecycle!Move(ItemsOf(j), "outside", "waiting")
    BY <1>1, <1>3, <2>1, <2>2, OpenedPhase, MoveStep
  <2> QED BY <2>2, <2>3 DEF Lifecycle!LifecycleNext, Lifecycle!Submit
<1> QED BY <1>2, <1>3

(* A batch is cancelled: its waiting papers are withdrawn.                 *)
LEMMA CancelIsWithdraw ==
  ASSUME RefinementInv, Next, NEW j \in Jobs, CancelJob(j)
  PROVE  [Lifecycle!LifecycleNext]_(Lifecycle!lifecycleVars)
<1> DEFINE S == {i \in Items : JobOf[i] = j /\ item[i].status = "queued"}
<1>0. /\ TypeOK /\ LeaseMatchesRunningAttempt /\ HistoryOrdered
      /\ BornTogether
  BY DEF RefinementInv, PipelineInv
<1>1. \A i \in Items \ S : PaperKept(i)
  BY DEF CancelJob, PaperKept
<1>2. CASE S = {}
  BY <1>1, <1>2, KeptStep
<1>3. CASE S # {}
  <2>1. ASSUME NEW i \in S
        PROVE  PaperEnded(i) /\ item'[i].status = "cancelled"
    <3>1. item[i] \in Item /\ item'[i] = [item[i] EXCEPT !.status = "cancelled"]
      BY <1>0, PaperTypes DEF CancelJob
    <3>2. item'[i].status = "cancelled" /\ item[i].status = "queued"
      BY <3>1 DEF Item
    <3>3. PaperStep(i)
      BY <1>0, PaperStepOfNext
    <3> QED BY <3>2, <3>3 DEF PaperStep, PaperKept, PaperOpened,
            PaperRegraded, PaperClaimed, PaperReturned
  <2>2. \A i \in S : /\ PhaseOf(i) = "waiting" /\ PhaseOf(i)' = "withdrawn"
                     /\ DoubtOfRound(i)' = DoubtOfRound(i)
                     /\ item'[i].version = item[i].version
    BY <2>1, EndedPhase
  <2>3. S \in SUBSET Items
    OBVIOUS
  <2> HIDE DEF S
  <2>4. Lifecycle!Move(S, "waiting", "withdrawn")
    BY <1>1, <1>3, <2>2, <2>3, MoveStep
  <2> QED BY <2>3, <2>4 DEF Lifecycle!LifecycleNext, Lifecycle!Withdraw
<1> QED BY <1>2, <1>3

(* A confirmation makes the grades of all its papers final.                *)
LEMMA ConfirmIsConfirm ==
  ASSUME RefinementInv, Next, NEW S \in (SUBSET Items) \ {{}}, ConfirmItems(S)
  PROVE  [Lifecycle!LifecycleNext]_(Lifecycle!lifecycleVars)
<1>0. /\ TypeOK /\ LeaseMatchesRunningAttempt /\ HistoryOrdered
      /\ BornTogether
  BY DEF RefinementInv, PipelineInv
<1>1. \A i \in Items \ S : PaperKept(i)
  BY DEF ConfirmItems, PaperKept
<1>2. ASSUME NEW i \in S
      PROVE  PaperEnded(i) /\ item'[i].status = "completed"
  <2>1. i \in Items
    OBVIOUS
  <2>2. item[i] \in Item /\ item'[i] = [item[i] EXCEPT !.status = "completed"]
    BY <1>0, <2>1, PaperTypes DEF ConfirmItems
  <2>3. item'[i].status = "completed" /\ item[i].status = "needs_review"
    BY <2>2 DEF Item, ConfirmItems, Reviewable
  <2>4. PaperStep(i)
    BY <1>0, <2>1, PaperStepOfNext
  <2> QED BY <2>3, <2>4 DEF PaperStep, PaperKept, PaperOpened,
          PaperRegraded, PaperClaimed, PaperReturned
<1>3. \A i \in S : /\ PhaseOf(i) = "graded" /\ PhaseOf(i)' = "final"
                   /\ DoubtOfRound(i)' = DoubtOfRound(i)
                   /\ item'[i].version = item[i].version
  BY <1>2, EndedPhase
<1>4. S \in SUBSET Items /\ S # {}
  OBVIOUS
<1>5. Lifecycle!Move(S, "graded", "final")
  BY <1>1, <1>3, <1>4, MoveStep
<1> QED BY <1>4, <1>5 DEF Lifecycle!LifecycleNext, Lifecycle!Confirm

(* A manual re-grading opens the paper's next round.                       *)
LEMMA RetryIsRegrade ==
  ASSUME RefinementInv, Next, NEW i \in Items, RetryItem(i)
  PROVE  [Lifecycle!LifecycleNext]_(Lifecycle!lifecycleVars)
<1>0. /\ TypeOK /\ LeaseMatchesRunningAttempt /\ HistoryOrdered
      /\ BornTogether
  BY DEF RefinementInv, PipelineInv
<1>1. \A x \in Items : x # i => PaperKept(x)
  BY <1>0 DEF RetryItem, PaperKept, TypeOK
<1>2. PaperRegraded(i)
  <2>1. /\ item[i].status \in {"needs_review", "failed"}
        /\ item'[i].status = "queued"
    BY <1>0 DEF RetryItem, TypeOK
  <2>2. PaperStep(i)
    BY <1>0, PaperStepOfNext
  <2> QED BY <2>1, <2>2 DEF PaperStep, PaperKept, PaperOpened, PaperEnded,
          PaperClaimed, PaperReturned
<1>3. /\ PhaseOf(i) \in {"graded", "ungraded"} /\ PhaseOf(i)' = "waiting"
      /\ ~DoubtOfRound(i)' /\ item'[i].version = item[i].version + 1
  BY <1>0, <1>2, RegradedPhase
<1>4. phaseBar[i] \in {"graded", "ungraded"}
  BY <1>3 DEF phaseBar
<1>5. phaseBar' = [phaseBar EXCEPT ![i] = "waiting"]
  BY <1>1, <1>3, KeptPhase DEF phaseBar
<1>6. roundBar' = [roundBar EXCEPT ![i] = @ + 1]
  BY <1>1, <1>3, KeptPhase DEF roundBar
<1>7. inDoubtBar' = [inDoubtBar EXCEPT ![i] = FALSE]
  BY <1>1, <1>3, KeptPhase DEF inDoubtBar, DoubtOfRound
<1>8. Lifecycle!Regrade(i)
  BY <1>4, <1>5, <1>6, <1>7 DEF Lifecycle!Regrade
<1> QED BY <1>8 DEF Lifecycle!LifecycleNext

(* A claim starts the call of a paper that waits without a doubt.          *)
LEMMA ClaimIsCall ==
  ASSUME RefinementInv, Next, NEW w \in Workers, ClaimAttempt(w)
  PROVE  [Lifecycle!LifecycleNext]_(Lifecycle!lifecycleVars)
<1>0. /\ TypeOK /\ LeaseMatchesRunningAttempt /\ HistoryOrdered
      /\ BornTogether /\ NoDoubtInQueue
  BY DEF RefinementInv, PipelineInv
<1>1. PICK i \in Items : i = worker[w].item
  BY <1>0, WorkerTypes DEF ClaimAttempt
<1>2. \A x \in Items : x # i => PaperKept(x)
  BY <1>0, <1>1 DEF ClaimAttempt, PaperKept, TypeOK
<1>3. PaperClaimed(i)
  <2>1. item[i].status = "queued"
    BY <1>1 DEF ClaimAttempt, Claimable, Dispatchable
  <2>2. PICK n : item' = [item EXCEPT ![i].status = "running", ![i].lease = n]
    BY <1>1 DEF ClaimAttempt
  <2>3. item'[i].status = "running"
    BY <1>0, <2>2 DEF TypeOK, Item
  <2>4. PaperStep(i)
    BY <1>0, PaperStepOfNext
  <2> QED BY <2>1, <2>3, <2>4 DEF PaperStep, PaperKept, PaperOpened,
          PaperEnded, PaperRegraded, PaperReturned
<1>4. /\ PhaseOf(i) = "waiting" /\ PhaseOf(i)' = "calling"
      /\ ~DoubtOfRound(i) /\ ~DoubtOfRound(i)'
      /\ item'[i].version = item[i].version
  BY <1>0, <1>3, ClaimedPhase
<1>5. {i} \in SUBSET Items /\ {i} # {}
  OBVIOUS
<1>6. Lifecycle!Move({i}, "waiting", "calling")
  <2>1. DoubtOfRound(i)' = DoubtOfRound(i)
    BY <1>4 DEF DoubtOfRound
  <2>2. \A x \in Items \ {i} : PaperKept(x)
    BY <1>2
  <2>3. \A x \in {i} : /\ PhaseOf(x) = "waiting" /\ PhaseOf(x)' = "calling"
                       /\ DoubtOfRound(x)' = DoubtOfRound(x)
                       /\ item'[x].version = item[x].version
    BY <1>4, <2>1
  <2> QED BY <1>5, <2>2, <2>3, MoveStep
<1>7. ~inDoubtBar[i]
  BY <1>4 DEF inDoubtBar, DoubtOfRound
<1> QED BY <1>6, <1>7 DEF Lifecycle!LifecycleNext, Lifecycle!Call

(* A call that finishes under its lease returns the paper.                 *)
LEMMA FinishIsReturn ==
  ASSUME RefinementInv, Next, NEW w \in Workers, FinishAttempt(w)
  PROVE  [Lifecycle!LifecycleNext]_(Lifecycle!lifecycleVars)
<1>0. /\ TypeOK /\ LeaseMatchesRunningAttempt /\ HistoryOrdered
      /\ BornTogether /\ NoGradeInQueue /\ PipelineInv
  BY DEF RefinementInv, PipelineInv
<1>1. PICK i \in Items : i = worker[w].item
  BY <1>0, WorkerTypes DEF FinishAttempt
<1>2. \A x \in Items : x # i => PaperKept(x)
  BY <1>0, <1>1 DEF FinishAttempt, PaperKept, TypeOK
<1>3. PaperReturned(i)
  <2>1. item[i].status = "running"
    BY <1>1 DEF FinishAttempt, HoldsLease
  <2>2. item'[i].status # "running"
    <3>1. PICK n : n = worker[w].number
      OBVIOUS
    <3>2. PICK o \in Outcomes : o = worker[w].outcome
      BY <1>0, WorkerTypes DEF FinishAttempt
    <3>3. n \in DOMAIN attempts[i]
      BY <1>0, <1>1, <3>1 DEF FinishAttempt, HoldsLease,
         LeaseMatchesRunningAttempt
    <3>4. PICK a \in Attempt : a = attempts[i][n]
      BY <1>0, <3>3, PaperTypes
    <3>5. item'[i] = FinishedItem(item[i], o, a)
      BY <1>0, <1>1, <3>1, <3>2, <3>4 DEF FinishAttempt, TypeOK
    <3>6. FinishedItem(item[i], o, a).status
            \in {"queued", "needs_review", "failed"}
      BY <1>0, PaperTypes, FinishedRows
    <3> QED BY <3>5, <3>6
  <2>3. PaperStep(i)
    BY <1>0, PaperStepOfNext
  <2> QED BY <2>1, <2>2, <2>3 DEF PaperStep, PaperKept, PaperOpened,
          PaperEnded, PaperRegraded, PaperClaimed, Reviewable
<1>4. /\ PhaseOf(i) = "calling"
      /\ PhaseOf(i)' \in {"graded", "ungraded", "waiting"}
      /\ DoubtOfRound(i)' => PhaseOf(i)' = "ungraded"
      /\ item'[i].version = item[i].version
  BY <1>0, <1>3, ReturnedPhase
<1>5. PICK to \in {"graded", "ungraded", "waiting"} : to = PhaseOf(i)'
  BY <1>4
<1>6. PICK doubt \in BOOLEAN : doubt <=> DoubtOfRound(i)'
  OBVIOUS
<1>7. phaseBar[i] = "calling"
  BY <1>4 DEF phaseBar
<1>8. phaseBar' = [phaseBar EXCEPT ![i] = to]
  BY <1>2, <1>5, KeptPhase DEF phaseBar
<1>9. roundBar' = roundBar
  BY <1>2, <1>4, KeptPhase DEF roundBar
<1>10. inDoubtBar' = [inDoubtBar EXCEPT ![i] = doubt]
  BY <1>2, <1>6, KeptPhase DEF inDoubtBar, DoubtOfRound
<1>11. Lifecycle!Return(i)
  BY <1>4, <1>5, <1>6, <1>7, <1>8, <1>9, <1>10 DEF Lifecycle!Return
<1> QED BY <1>11 DEF Lifecycle!LifecycleNext

(* The expiry task ends the calls of all papers whose lease ran out, in    *)
(* one step and in doubt.                                                  *)
LEMMA ExpiryIsExpire ==
  ASSUME RefinementInv, Next,
         NEW S \in (SUBSET Items) \ {{}}, ExpireStaleAttempts(S)
  PROVE  [Lifecycle!LifecycleNext]_(Lifecycle!lifecycleVars)
<1>0. /\ TypeOK /\ LeaseMatchesRunningAttempt /\ HistoryOrdered
      /\ BornTogether /\ NoGradeInQueue /\ PipelineInv
  BY DEF RefinementInv, PipelineInv
<1>1. \A i \in Items \ S : PaperKept(i)
  BY DEF ExpireStaleAttempts, PaperKept
<1>2. ASSUME NEW i \in S
      PROVE  /\ PhaseOf(i) = "calling" /\ PhaseOf(i)' = "ungraded"
             /\ DoubtOfRound(i)' /\ item'[i].version = item[i].version
  <2>1. i \in Items /\ item[i].status = "running"
    BY DEF ExpireStaleAttempts
  <2>2. item'[i] = [item[i] EXCEPT !.status = "needs_review", !.lease = 0]
    BY <2>1 DEF ExpireStaleAttempts
  <2>3. item'[i].status = "needs_review"
    BY <1>0, <2>1, <2>2, PaperTypes DEF Item
  <2>4. PaperStep(i)
    BY <1>0, <2>1, PaperStepOfNext
  <2>5. PaperReturned(i)
    BY <2>1, <2>3, <2>4 DEF PaperStep, PaperKept, PaperOpened, PaperEnded,
       PaperRegraded, PaperClaimed, Reviewable
  <2>6. PICK n : n = RunningAttempt(i)
    OBVIOUS
  <2>7. n \in DOMAIN attempts[i] /\ attempts[i][n].status = "running"
    BY <2>1, <2>6, RunningAttemptExists DEF ExpireStaleAttempts
  <2>8. n = Len(attempts[i])
    BY <1>0, <2>1, <2>7, LeaseIsLast
  <2>9. PICK a \in Attempt : a = attempts[i][n]
    BY <1>0, <2>1, <2>7, PaperTypes
  <2>10. PICK b : b = [a EXCEPT !.status = "failed", !.call = "ambiguous",
                                !.code = "other"]
    OBVIOUS
  <2>11. attempts'[i] = [attempts[i] EXCEPT ![n] = b]
    BY <2>1, <2>6, <2>9, <2>10 DEF ExpireStaleAttempts
  <2>12. b.call = "ambiguous"
    BY <2>10 DEF Attempt
  <2>13. attempts'[i][Len(attempts[i])].call = "ambiguous"
    BY <2>7, <2>8, <2>11, <2>12
  <2> QED BY <1>0, <2>1, <2>5, <2>13, ReturnedPhase
<1>3. \A i \in S : phaseBar[i] = "calling"
  BY <1>2 DEF phaseBar
<1>4. phaseBar' = [i \in Items |-> IF i \in S THEN "ungraded" ELSE phaseBar[i]]
  BY <1>1, <1>2, KeptPhase DEF phaseBar
<1>5. roundBar' = roundBar
  BY <1>1, <1>2, KeptPhase DEF roundBar
<1>6. inDoubtBar' = [i \in Items |-> i \in S \/ inDoubtBar[i]]
  BY <1>1, <1>2, KeptPhase DEF inDoubtBar, DoubtOfRound
<1>7. S \in SUBSET Items /\ S # {}
  OBVIOUS
<1>8. Lifecycle!Expire(S)
  BY <1>3, <1>4, <1>5, <1>6, <1>7 DEF Lifecycle!Expire
<1> QED BY <1>7, <1>8 DEF Lifecycle!LifecycleNext

-----------------------------------------------------------------------------
(* Every step of the pipeline is a step of the life cycle or none.         *)
LEMMA StepRefines ==
  ASSUME RefinementInv, Next
  PROVE  [Lifecycle!LifecycleNext]_(Lifecycle!lifecycleVars)
<1>0. TypeOK
  BY DEF RefinementInv, PipelineInv
<1>1. ASSUME item' = item, attempts' = attempts
      PROVE  UNCHANGED Lifecycle!lifecycleVars
  BY <1>1, KeptStep DEF PaperKept
<1>2. CASE TeacherStep
  <2>1. ASSUME NEW j \in Jobs,
               RepeatCreateJob(j) \/ PauseJob(j) \/ ResumeJob(j)
        PROVE  item' = item /\ attempts' = attempts
    BY <2>1 DEF RepeatCreateJob, PauseJob, ResumeJob
  <2> QED BY <1>1, <1>2, <2>1, CreateIsSubmit, CancelIsWithdraw,
          RetryIsRegrade, ConfirmIsConfirm DEF TeacherStep
<1>3. ASSUME NEW w \in Workers, WorkerStep(w)
      PROVE  [Lifecycle!LifecycleNext]_(Lifecycle!lifecycleVars)
  <2>1. ASSUME NEW x \in Items, NEW v \in 1..MaxRounds, PrepareItem(w, x, v)
        PROVE  item' = item /\ attempts' = attempts
    BY <2>1 DEF PrepareItem
  <2>2. ASSUME NEW o \in Outcomes, CallProvider(w, o)
        PROVE  item' = item /\ attempts' = attempts
    BY <2>2 DEF CallProvider
  <2>3. ASSUME ClaimRefused(w) \/ FinishRejected(w) \/ WorkerLost(w)
        PROVE  item' = item /\ attempts' = attempts
    BY <2>3 DEF ClaimRefused, FinishRejected, WorkerLost
  <2> QED BY <1>1, <1>3, <2>1, <2>2, <2>3, ClaimIsCall, FinishIsReturn
          DEF WorkerStep
<1>4. CASE MaintenanceStep
  <2>1. ASSUME NEW i \in Items, RetryDelayEnds(i)
        PROVE  UNCHANGED Lifecycle!lifecycleVars
    <3>1. ASSUME NEW x \in Items PROVE PaperKept(x)
      <4>1. attempts'[x] = attempts[x]
        BY <2>1 DEF RetryDelayEnds
      <4>2. \/ item'[x] = item[x]
            \/ item'[x] = [item[x] EXCEPT !.ready = TRUE]
        BY <1>0, <2>1 DEF RetryDelayEnds, TypeOK
      <4>3. item[x] \in Item
        BY <1>0 DEF TypeOK
      <4> QED BY <4>1, <4>2, <4>3 DEF PaperKept, Item
    <3> QED BY <3>1, KeptStep
  <2>2. ASSUME NEW m \in messages, LoseMessage(m)
        PROVE  item' = item /\ attempts' = attempts
    BY <2>2 DEF LoseMessage
  <2>3. DispatchReadyItems => item' = item /\ attempts' = attempts
    BY DEF DispatchReadyItems
  <2> QED BY <1>1, <1>4, <2>1, <2>2, <2>3, ExpiryIsExpire DEF MaintenanceStep
<1>5. CASE ConfigurationStep
  <2>1. item' = item /\ attempts' = attempts
    BY <1>5 DEF ConfigurationStep, BeginProviderUpdate,
       CommitProviderUpdate, EnableProvider, DisableProvider, ConfirmRubric
  <2> QED BY <1>1, <2>1
<1> QED BY <1>2, <1>3, <1>4, <1>5 DEF Next

(* For any batches, papers and workers, the pipeline implements the life   *)
(* cycle of PaperLifecycle: papers are called only from the queue and      *)
(* never in doubt, only a grade of the current round is confirmed, and a   *)
(* withdrawn or final paper stays so, whatever messages are repeated and   *)
(* whichever leases run out together.                                      *)
THEOREM PipelineImplementsLifecycle == Spec => ImplementsLifecycle
<1>1. Init => Lifecycle!LifecycleInit
  <2> SUFFICES ASSUME Init PROVE Lifecycle!LifecycleInit
    OBVIOUS
  <2>1. \A i \in Items : /\ item[i].status = "absent"
                         /\ item[i].version = 1 /\ attempts[i] = <<>>
    BY DEF Init
  <2>2. phaseBar = [i \in Items |-> "outside"]
    BY <2>1 DEF phaseBar, PhaseOf
  <2>3. roundBar = [i \in Items |-> 1]
    BY <2>1 DEF roundBar
  <2>4. inDoubtBar = [i \in Items |-> FALSE]
    BY <2>1 DEF inDoubtBar, InRound
  <2> QED BY <2>2, <2>3, <2>4 DEF Lifecycle!LifecycleInit
<1>2. RefinementInv /\ [Next]_vars
        => [Lifecycle!LifecycleNext]_(Lifecycle!lifecycleVars)
  <2>1. ASSUME RefinementInv, UNCHANGED vars
        PROVE  UNCHANGED Lifecycle!lifecycleVars
    BY <2>1, KeptStep DEF vars, PaperKept
  <2> QED BY <2>1, StepRefines
<1> QED BY <1>1, <1>2, RefinementInvariant, PTL
        DEF Spec, ImplementsLifecycle, Lifecycle!LifecycleSpec
=============================================================================
