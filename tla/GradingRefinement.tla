------------------------- MODULE GradingRefinement -------------------------
(***************************************************************************)
(* The pipeline implements PaperLifecycle: the mapping from the rows of    *)
(* grading_job_items and grading_attempts to each paper's phase.           *)
(***************************************************************************)
EXTENDS GradingPipeline

HasGrade(i) ==
  \E k \in InRound(i, item[i].version) : attempts[i][k].status = "succeeded"

PhaseOf(i) ==
  CASE item[i].status = "absent" -> "outside"
    [] item[i].status = "queued" -> "waiting"
    [] item[i].status = "running" -> "calling"
    [] item[i].status = "needs_review" ->
         IF HasGrade(i) THEN "graded" ELSE "ungraded"
    [] item[i].status = "failed" -> "ungraded"
    [] item[i].status = "cancelled" -> "withdrawn"
    [] item[i].status = "completed" -> "final"

phaseBar == [i \in Items |-> PhaseOf(i)]
roundBar == [i \in Items |-> item[i].version]
inDoubtBar == [i \in Items |->
  \E k \in InRound(i, item[i].version) : attempts[i][k].call = "ambiguous"]

Lifecycle == INSTANCE PaperLifecycle
  WITH Papers <- Items, phase <- phaseBar, round <- roundBar,
       inDoubt <- inDoubtBar

(* Every behaviour of batches, messages, leases, workers and maintenance   *)
(* tasks is a behaviour of the per-paper life cycle: calls only from the   *)
(* queue and never in doubt, only a grade of the current round is          *)
(* confirmed, and what is withdrawn or final stays so.                     *)
ImplementsLifecycle == Lifecycle!LifecycleSpec
=============================================================================
