----------------------------- MODULE GradeRules -----------------------------
(***************************************************************************)
(* What a grade may look like and what it is worth: the checks of the      *)
(* backend (grading/validator.py, reviews/service.py), its totals          *)
(* (grading/totals.py), and the same checks written a second time in SQL   *)
(* (validate_teacher_review_payload).  Texts are left out; a quote is      *)
(* identified with the block it is taken from.  A decimal is its value, in *)
(* units of the smallest one, and the form it is written in: plain,        *)
(* padded with zeros, with an exponent, and so on.  The forms matter       *)
(* because the backend compares values and the database texts.             *)
(***************************************************************************)
EXTENDS Integers, Sequences, SequencesExt

(* What the rules look at in a rubric and in a grade: reason says whether  *)
(* the reason of a change is given.                                        *)
GradedRubrics == [dimensions : Seq([id : STRING, max : Nat]),
                  deductions : Seq([id : STRING, points : Nat]),
                  step : Nat \ {0}]
Criteria == [id : STRING, score : Int, form : STRING]
GradeShapes == [criteria : Seq(Criteria),
                deductions : Seq([id : STRING, applied : BOOLEAN]),
                evidence : Seq([target : STRING, block : STRING]),
                reason : BOOLEAN]

Ids(seq) == [n \in DOMAIN seq |-> seq[n].id]
SumOf(seq, Value(_)) == SumFunction([n \in DOMAIN seq |-> Value(seq[n])])

-----------------------------------------------------------------------------
(* Totals                                                                  *)

Subtotal(grade) == SumOf(grade.criteria, LAMBDA c : c.score)

AppliedIds(grade) ==
  {grade.deductions[n].id : n \in {m \in DOMAIN grade.deductions :
                                     grade.deductions[m].applied}}

DeductionTotal(grade, rubric) ==
  SumOf(rubric.deductions,
        LAMBDA d : IF d.id \in AppliedIds(grade) THEN d.points ELSE 0)

(* Mutant: the deductions are subtracted without the floor at zero.        *)
TotalBelowZero(subtotal, deductions) == subtotal - deductions

Total(subtotal, deductions) ==
  IF subtotal > deductions THEN subtotal - deductions ELSE 0

calculate_grade_totals(grade, rubric) ==
  LET sub == Subtotal(grade)
      ded == DeductionTotal(grade, rubric) IN
  [subtotal |-> sub, deductions |-> ded, total |-> Total(sub, ded)]

-----------------------------------------------------------------------------
(* The checks of the backend                                               *)

(* Bounds of the code: quotes of one target, and of a whole request.       *)
MaxQuotes == 100
MaxEvidence == 10000

(* The shape of a request.                                                 *)
ReviewDraftInput(grade) ==
  /\ Len(grade.criteria) \in 1..100 /\ Len(grade.deductions) \in 0..100
  /\ Len(grade.evidence) <= MaxEvidence
  /\ IsInjective(Ids(grade.criteria)) /\ IsInjective(Ids(grade.deductions))

require_exact_ids(actual, expected) == IsInjective(actual) /\ actual = expected

ScoreFits(score, dimension, rubric) ==
  score \in 0..dimension.max /\ score % rubric.step = 0

(* Evidence of one target, in the order it was given.                      *)
EvidenceFor(grade, target) ==
  SelectSeq(grade.evidence, LAMBDA e : e.target = target)

(* A dimension needs evidence, a deduction may have some.                  *)
GradeResult(grade) ==
  /\ \A n \in DOMAIN grade.criteria :
       Len(EvidenceFor(grade, grade.criteria[n].id)) \in 1..MaxQuotes
  /\ \A n \in DOMAIN grade.deductions :
       Len(EvidenceFor(grade, grade.deductions[n].id)) <= MaxQuotes

validate_evidence(grade, blocks) ==
  \A n \in DOMAIN grade.evidence :
    /\ grade.evidence[n].block \in blocks
    /\ \A m \in DOMAIN grade.evidence :
         m # n => grade.evidence[m] # grade.evidence[n]

validate_grade_response(grade, rubric, blocks) ==
  /\ GradeResult(grade)
  /\ require_exact_ids(Ids(grade.criteria), Ids(rubric.dimensions))
  /\ \A n \in DOMAIN grade.criteria :
       ScoreFits(grade.criteria[n].score, rubric.dimensions[n], rubric)
  /\ require_exact_ids(Ids(grade.deductions), Ids(rubric.deductions))
  /\ validate_evidence(grade, blocks)

Targets(grade) == Range(Ids(grade.criteria)) \cup Range(Ids(grade.deductions))

(* Canonical JSON writes every decimal plainly.                            *)
canonical(criteria) == [n \in DOMAIN criteria |-> [criteria[n] EXCEPT !.form = "plain"]]

(* The grade differs from the one the model suggested.  The backend        *)
(* compares canonical decimals and the evidence of each target; the order  *)
(* between targets is lost.                                                *)
Changed(grade, suggestion) ==
  \/ canonical(grade.criteria) # canonical(suggestion.criteria)
  \/ grade.deductions # suggestion.deductions
  \/ \E t \in Targets(grade) :
       EvidenceFor(grade, t) # EvidenceFor(suggestion, t)

validate_payload(grade, suggestion, rubric, blocks) ==
  /\ \A n \in DOMAIN grade.evidence : grade.evidence[n].target \in Targets(grade)
  /\ validate_grade_response(grade, rubric, blocks)
  /\ Changed(grade, suggestion) => grade.reason

-----------------------------------------------------------------------------
(* The checks of the database                                              *)

(* The suggestion's evidence as SQL flattens it: by target, dimensions     *)
(* first.                                                                  *)
Flattened(grade) ==
  LET order == Ids(grade.criteria) \o Ids(grade.deductions) IN
  FlattenSeq([n \in DOMAIN order |-> EvidenceFor(grade, order[n])])

SameIds(seq, expected) ==
  Len(seq) = Len(expected) /\ \A n \in DOMAIN seq : seq[n].id = expected[n].id

(* The pattern of a stored score allows zeros after the point, up to four  *)
(* places, but no exponent and no sign.                                    *)
MatchesPattern(form) == form \notin {"exponent", "signed", "too many places"}

AppliedInOrder(grade, rubric) ==
  SumFunction([n \in DOMAIN grade.deductions |->
    IF grade.deductions[n].applied THEN rubric.deductions[n].points ELSE 0])

validate_teacher_review_payload(grade, totals, suggestion, rubric) ==
  /\ SameIds(grade.criteria, rubric.dimensions)
  /\ \A n \in DOMAIN grade.criteria :
       /\ MatchesPattern(grade.criteria[n].form)
       /\ grade.criteria[n].score >= 0
       /\ grade.criteria[n].score <= rubric.dimensions[n].max
       /\ grade.criteria[n].score % rubric.step = 0
  /\ SameIds(grade.deductions, rubric.deductions)
  /\ \A n \in DOMAIN grade.evidence : grade.evidence[n].target \in Targets(grade)
  /\ totals.subtotal = SumFunction([n \in DOMAIN grade.criteria |->
                                     grade.criteria[n].score])
  /\ totals.deductions = AppliedInOrder(grade, rubric)
  /\ totals.total = Max({0, totals.subtotal - totals.deductions})
  /\ \/ grade.reason
     \/ /\ grade.criteria = suggestion.criteria
        /\ grade.deductions = suggestion.deductions
        /\ grade.evidence = Flattened(suggestion)
=============================================================================
