--------------------------- MODULE MCTeacherReview ---------------------------
(* Small instances of TeacherReview for TLC.                               *)
EXTENDS TeacherReview

(* Two dimensions worth 4 in steps of 2, and a deduction that exceeds      *)
(* either score.                                                           *)
MCRubric == [dimensions |-> <<[id |-> "d1", max |-> 2], [id |-> "d2", max |-> 2]>>,
             deductions |-> <<[id |-> "x", points |-> 3]>>,
             step |-> 2]
MCBlocks == {"b1"}

Cites(targets) == [n \in DOMAIN targets |-> [target |-> targets[n], block |-> "b1"]]
Scored(id, score, form) == [id |-> id, score |-> score, form |-> form]
Written(a, b, form, applied, targets, reason) ==
  [criteria |-> <<Scored("d1", a, "plain"), Scored("d2", b, form)>>,
   deductions |-> <<[id |-> "x", applied |-> applied]>>,
   evidence |-> Cites(targets), reason |-> reason]

Grade(a, b, applied, targets, reason) ==
  Written(a, b, "plain", applied, targets, reason)

(* The suggestion as it is, with its evidence in another order and with a  *)
(* score written otherwise, with and without a reason; grades that change  *)
(* it with and without a reason; one score too high, one dimension without *)
(* evidence.                                                               *)
MCContent(name) ==
  CASE name = "suggested" -> Grade(2, 2, FALSE, <<"d1", "d2">>, FALSE)
    [] name = "reordered" -> Grade(2, 2, FALSE, <<"d2", "d1">>, FALSE)
    [] name = "padded"    -> Written(2, 2, "padded", FALSE, <<"d1", "d2">>, FALSE)
    [] name = "rounded"   -> Written(2, 2, "padded", FALSE, <<"d2", "d1">>, TRUE)
    [] name = "exponent"  -> Written(2, 2, "exponent", FALSE, <<"d1", "d2">>, TRUE)
    [] name = "changed"   -> Grade(2, 0, TRUE, <<"d1", "d2">>, TRUE)
    [] name = "silent"    -> Grade(2, 0, FALSE, <<"d1", "d2">>, FALSE)
    [] name = "too high"  -> Grade(2, 4, FALSE, <<"d1", "d2">>, TRUE)
    [] name = "unproved"  -> Grade(2, 2, FALSE, <<"d1">>, TRUE)

ReviewSymmetry == Permutations(Tabs) \cup Permutations(Items)
=============================================================================
