--------------------------- MODULE PaperLifecycle ---------------------------
(***************************************************************************)
(* What batch grading promises for each paper, without batches, messages,  *)
(* leases or workers: where the paper is, the scoring round it is in, and  *)
(* whether a call of this round ended without anyone knowing its outcome.  *)
(* A paper in doubt is never sent to the provider again in that round.     *)
(***************************************************************************)
EXTENDS Integers

CONSTANT Papers

VARIABLES phase, round, inDoubt

lifecycleVars == <<phase, round, inDoubt>>

Phases == { "outside",    \* not in any batch
            "waiting",    \* queued for a provider call
            "calling",    \* a provider call is under way
            "graded",     \* a grade of this round awaits the teacher
            "ungraded",   \* the round ended without a grade
            "withdrawn",  \* the batch was cancelled before a call
            "final" }     \* the teacher confirmed the grade

LifecycleInit ==
  /\ phase = [p \in Papers |-> "outside"]
  /\ round = [p \in Papers |-> 1]
  /\ inDoubt = [p \in Papers |-> FALSE]

(* All papers of S, which are in phase `from`, move to phase `to`.         *)
Move(S, from, to) ==
  /\ S # {} /\ \A p \in S : phase[p] = from
  /\ phase' = [p \in Papers |-> IF p \in S THEN to ELSE phase[p]]
  /\ UNCHANGED <<round, inDoubt>>

Submit(S) == Move(S, "outside", "waiting")
Withdraw(S) == Move(S, "waiting", "withdrawn")
Confirm(S) == Move(S, "graded", "final")

Call(p) == ~inDoubt[p] /\ Move({p}, "waiting", "calling")

(* A call ends with a grade, without one, or with another try; only a call *)
(* that ends the round may leave a doubt.                                  *)
Return(p) ==
  /\ phase[p] = "calling"
  /\ \E to \in {"graded", "ungraded", "waiting"}, doubt \in BOOLEAN :
       /\ doubt => to = "ungraded"
       /\ phase' = [phase EXCEPT ![p] = to]
       /\ inDoubt' = [inDoubt EXCEPT ![p] = doubt]
  /\ UNCHANGED round

(* The leases of several calls may run out together: their outcomes stay   *)
(* unknown and the rounds end without a grade.                             *)
Expire(S) ==
  /\ S # {} /\ \A p \in S : phase[p] = "calling"
  /\ phase' = [p \in Papers |-> IF p \in S THEN "ungraded" ELSE phase[p]]
  /\ inDoubt' = [p \in Papers |-> p \in S \/ inDoubt[p]]
  /\ UNCHANGED round

Regrade(p) ==
  /\ phase[p] \in {"graded", "ungraded"}
  /\ phase' = [phase EXCEPT ![p] = "waiting"]
  /\ round' = [round EXCEPT ![p] = @ + 1]
  /\ inDoubt' = [inDoubt EXCEPT ![p] = FALSE]

LifecycleNext ==
  \/ \E S \in SUBSET Papers :
       Submit(S) \/ Withdraw(S) \/ Confirm(S) \/ Expire(S)
  \/ \E p \in Papers : Call(p) \/ Return(p) \/ Regrade(p)

LifecycleSpec == LifecycleInit /\ [][LifecycleNext]_lifecycleVars
=============================================================================
