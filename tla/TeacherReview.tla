---------------------------- MODULE TeacherReview ----------------------------
(***************************************************************************)
(* The review of one graded batch: drafts with revisions, the confirmation *)
(* of one paper or of many, re-gradings and cancellation in between, and   *)
(* the snapshots exports freeze.  A browser tab is one request of the      *)
(* teacher: what it read in one transaction and sends or uses in the next. *)
(* How a paper is graded is GradingPipeline's subject; here it just ends.  *)
(***************************************************************************)
EXTENDS GradeRules, FiniteSets, TLC

CONSTANTS
  Items,        \* the papers of the batch
  Tabs,         \* concurrent requests of the teacher
  Keys,         \* idempotency keys of export requests
  Rubric,       \* the rubric version of the batch
  Blocks,       \* text blocks of the papers
  Suggestions,  \* names of the grades the model may suggest
  Grades,       \* names of the grades a request may contain
  Entered,      \* bound: the ones the teacher sends
  Content(_),   \* the grade a name stands for
  MaxRounds,    \* bound: manual re-gradings
  MaxRevision   \* bound: saved revisions of a paper's reviews

NoGrade == "no grade"
NoReview == [status |-> "absent", revision |-> 0, grade |-> NoGrade, score |-> 0]

ASSUME ReviewAssumption ==
  /\ IsFiniteSet(Items) /\ Items # {}
  /\ MaxRounds \in Nat \ {0} /\ MaxRevision \in Nat
  /\ Entered \subseteq Grades
  /\ NoGrade \notin Suggestions \cup Grades
  /\ Rubric \in GradedRubrics
  /\ \A g \in Suggestions \cup Grades : Content(g) \in GradeShapes
  /\ \A g \in Suggestions :
       ~Content(g).reason /\ validate_grade_response(Content(g), Rubric, Blocks)

Rounds == 1..MaxRounds

VARIABLES
  batch,       \* grading_jobs.status
  item,        \* grading_job_items: status and dispatch_version
  suggestion,  \* the succeeded attempt of each paper's current round
  review,      \* teacher_reviews, by paper and the round of its attempt
  tab,         \* what each request holds between its transactions
  export       \* exports with their frozen items

reviewVars == <<batch, item, suggestion, review, tab, export>>

-----------------------------------------------------------------------------
(* State                                                                   *)

(* grading: the pipeline has the paper (queued or running).                *)
ItemStatuses == {"grading", "needs_review", "completed", "failed", "cancelled"}
Review == [status : {"draft", "confirmed"}, revision : 1..MaxRevision,
           grade : Grades, score : Nat]
Sources == {"teacher_confirmed", "teacher_draft", "ai_suggestion"}

Idle == [pc |-> "idle"]
Misled == [pc |-> "misled"]
Request == [pc : {"sending"}, item : Items, round : Rounds,
            grade : Grades]

(* Every variable keeps its type.                                          *)
ReviewTypeOK ==
  /\ batch \in {"running", "needs_review", "completed", "failed", "cancelled"}
  /\ item \in [Items -> [status : ItemStatuses, round : Rounds]]
  /\ suggestion \in [Items -> Suggestions \cup {NoGrade}]
  /\ \A i \in Items, r \in Rounds :
       review[i][r] = NoReview \/ review[i][r] \in Review
  /\ \A t \in Tabs :
       \/ tab[t] \in {Idle, Misled} \cup Request
       \/ /\ tab[t].pc = "naming"
          /\ \A i \in DOMAIN tab[t].named : tab[t].named[i].round \in Rounds
  /\ \A k \in Keys :
       \/ export[k] = Idle
       \/ /\ export[k].type \in {"draft", "final"}
          /\ \A i \in Items : export[k].rows[i].source \in Sources

ReviewInit ==
  /\ batch = "running"
  /\ item = [i \in Items |-> [status |-> "grading", round |-> 1]]
  /\ suggestion = [i \in Items |-> NoGrade]
  /\ review = [i \in Items |-> [r \in Rounds |-> NoReview]]
  /\ tab = [t \in Tabs |-> Idle]
  /\ export = [k \in Keys |-> Idle]

(* The review of the current round's attempt.                              *)
Current(i) == review[i][item[i].round]

Free(t) == tab[t] \in {Idle, Misled}

-----------------------------------------------------------------------------
(* The pipeline                                                            *)

(* _reconcile_job, after a paper left the pipeline.                        *)
Reconciled(items) ==
  IF batch = "cancelled" \/ \E i \in Items : items[i].status = "grading"
    THEN batch
  ELSE IF \E i \in Items : items[i].status \in {"needs_review", "completed"}
    THEN "needs_review"
  ELSE IF \E i \in Items : items[i].status = "failed" THEN "failed"
  ELSE "cancelled"

(* A round ends with a grade, without a valid one, or with an error.       *)
EndRound(i, status, g) ==
  /\ item[i].status = "grading"
  /\ item' = [item EXCEPT ![i].status = status]
  /\ suggestion' = [suggestion EXCEPT ![i] = g]
  /\ batch' = Reconciled(item')
  /\ UNCHANGED <<review, tab, export>>

(* control_grading_job 'cancel': queued papers are cancelled, running ones *)
(* end by themselves.                                                      *)
CancelJob(queued) ==
  /\ batch = "running"
  /\ \A i \in queued : item[i].status = "grading"
  /\ batch' = "cancelled"
  /\ item' = [i \in Items |-> IF i \in queued
                              THEN [item[i] EXCEPT !.status = "cancelled"]
                              ELSE item[i]]
  /\ UNCHANGED <<suggestion, review, tab, export>>

(* Mutant: a paper with a confirmed review can be graded again.            *)
RetryConfirmed(i) ==
  /\ item[i].status \in {"needs_review", "completed", "failed"}
  /\ item[i].round < MaxRounds
  /\ item' = [item EXCEPT ![i] = [status |-> "grading", round |-> @.round + 1]]
  /\ suggestion' = [suggestion EXCEPT ![i] = NoGrade]
  /\ batch' = "running"
  /\ UNCHANGED <<review, tab, export>>

NeverConfirmed(i) == \A r \in Rounds : review[i][r].status # "confirmed"

(* control_grading_job 'retry'.  ReviewService.regrade reads first, which  *)
(* only refuses more.  The transition trigger keeps a cancelled batch.     *)
RetryItem(i) ==
  /\ item[i].status \in {"needs_review", "failed"} /\ NeverConfirmed(i)
  /\ batch # "cancelled"
  /\ item[i].round < MaxRounds
  /\ item' = [item EXCEPT ![i] = [status |-> "grading", round |-> @.round + 1]]
  /\ suggestion' = [suggestion EXCEPT ![i] = NoGrade]
  /\ batch' = "running"
  /\ UNCHANGED <<review, tab, export>>

-----------------------------------------------------------------------------
(* Reading: ReviewService loads the paper and checks the request against   *)
(* what it read, in a transaction of its own.                              *)

(* The repository finds a target only where the current round succeeded.   *)
HasTarget(i) == suggestion[i] # NoGrade

Loadable(i) == item[i].status \in {"needs_review", "completed"} /\ HasTarget(i)

(* Which grades pass over which suggestion, in the backend and in the      *)
(* database, and the score that is stored with a grade.                    *)
Pairs(Passes(_, _)) ==
  UNION {{<<g, s>> : g \in {h \in Grades : Passes(h, s)}} : s \in Suggestions}
Acceptable == Pairs(LAMBDA g, s :
  validate_payload(Content(g), Content(s), Rubric, Blocks))
Storable == Pairs(LAMBDA g, s :
  validate_teacher_review_payload(
    Content(g), calculate_grade_totals(Content(g), Rubric), Content(s), Rubric))
Score == [g \in Grades |-> calculate_grade_totals(Content(g), Rubric).total]

ServiceAccepts(i, g) == <<g, suggestion[i]>> \in Acceptable
DatabaseAccepts(i, g) == <<g, suggestion[i]>> \in Storable

(* save_draft and confirm check a payload, which names the attempt it      *)
(* belongs to, in the same way.  A completed paper is refused by the       *)
(* first, and by the second unless it was confirmed with this grade.       *)
SendGrade(t, i, g) ==
  /\ Free(t) /\ ReviewDraftInput(Content(g))
  /\ Loadable(i) /\ ServiceAccepts(i, g)
  /\ item[i].status = "completed"
       => Current(i).status = "confirmed" /\ Current(i).grade = g
  /\ tab' = [tab EXCEPT ![t] = [pc |-> "sending", item |-> i,
                                round |-> item[i].round, grade |-> g]]
  /\ UNCHANGED <<batch, item, suggestion, review, export>>

(* The papers a request has read drafts of.                                *)
ReadSoFar(t) == IF tab[t].pc = "naming" THEN DOMAIN tab[t].named ELSE {}

(* confirm_batch loads the papers the teacher named one after the other,   *)
(* each in a transaction of its own, and refuses unless the draft and its  *)
(* revision are the named ones.                                            *)
ReadDraft(t, i) ==
  LET S == ReadSoFar(t) IN
  /\ tab[t].pc # "sending" /\ i \notin S
  /\ Loadable(i) /\ Current(i) # NoReview
  /\ tab' = [tab EXCEPT ![t] =
       [pc |-> "naming",
        named |-> [j \in S \cup {i} |->
                     IF j = i THEN [round |-> item[i].round,
                                    revision |-> Current(i).revision]
                              ELSE tab[t].named[j]],
        sent |-> [j \in S \cup {i} |->
                    IF j = i THEN Current(i).grade ELSE tab[t].sent[j]]]]
  /\ UNCHANGED <<batch, item, suggestion, review, export>>

-----------------------------------------------------------------------------
(* Writing                                                                 *)

Revisions(i) == {review[i][r].revision : r \in Rounds}

(* A draft's revision advances by one; a new review follows all reviews of *)
(* the paper.                                                              *)
NextRevision(i) ==
  IF Current(i) # NoReview THEN Current(i).revision + 1
                           ELSE Max(Revisions(i)) + 1

(* Mutant: a paper that was completed meanwhile can be saved.              *)
SavableWhenCompleted(i, round, g) ==
  /\ item[i].status \in {"needs_review", "completed"}
  /\ round = item[i].round /\ HasTarget(i) /\ DatabaseAccepts(i, g)
  /\ NextRevision(i) <= MaxRevision

(* Mutant: the attempt need not belong to the current round.               *)
SavableAnyRound(i, round, g) ==
  /\ item[i].status = "needs_review"
  /\ Current(i).status # "confirmed"
  /\ NextRevision(i) <= MaxRevision

(* What save_teacher_review_draft checks; it returns NULL or raises        *)
(* otherwise.                                                              *)
Savable(i, round, g) ==
  /\ item[i].status = "needs_review"
  /\ round = item[i].round /\ HasTarget(i)
  /\ DatabaseAccepts(i, g)
  /\ Current(i).status # "confirmed"
  /\ NextRevision(i) <= MaxRevision

(* Mutant: saving again leaves the stored score as it was.                 *)
SavedKeepsScore(i, round, g, status) ==
  [review EXCEPT ![i][round] =
     [status |-> status, revision |-> NextRevision(i), grade |-> g,
      score |-> IF Current(i) = NoReview THEN Score[g] ELSE Current(i).score]]

(* The reviews after the save; the last save wins, no revision is          *)
(* compared.                                                               *)
Saved(i, round, g, status) ==
  [review EXCEPT ![i][round] =
     [status |-> status, revision |-> NextRevision(i), grade |-> g,
      score |-> Score[g]]]

SaveDraft(t) ==
  LET c == tab[t] IN
  /\ c.pc = "sending" /\ Savable(c.item, c.round, c.grade)
  /\ review' = Saved(c.item, c.round, c.grade, "draft")
  /\ tab' = [tab EXCEPT ![t] = Idle]
  /\ UNCHANGED <<batch, item, suggestion, export>>

(* The papers of S are completed and the batch follows, with the trigger   *)
(* that keeps a batch with unfinished papers running.                      *)
CompletePapers(S) ==
  /\ item' = [i \in Items |-> IF i \in S
                              THEN [item[i] EXCEPT !.status = "completed"]
                              ELSE item[i]]
  /\ batch' = IF \A i \in Items : item'[i].status = "completed" THEN "completed"
              ELSE IF \E i \in Items : item'[i].status = "grading" THEN "running"
              ELSE "needs_review"

(* A successful confirmation is answered with the confirmed grades; all    *)
(* that is kept of the answer is whether it shows other ones than were     *)
(* sent.                                                                   *)
Answered(sent, got) == IF sent = got THEN Idle ELSE Misled

(* save_and_confirm, one transaction: the payload is saved as a draft and  *)
(* that draft confirmed.                                                   *)
SaveAndConfirm(t) ==
  LET c == tab[t] IN
  /\ c.pc = "sending"
  /\ Savable(c.item, c.round, c.grade) /\ batch # "cancelled"
  /\ review' = Saved(c.item, c.round, c.grade, "confirmed")
  /\ CompletePapers({c.item})
  /\ tab' = [tab EXCEPT ![t] = Answered(c.item :> c.grade, c.item :> c.grade)]
  /\ UNCHANGED <<suggestion, export>>

(* save_and_confirm finds the paper completed: it answers with the review  *)
(* it finds, without looking at the payload.                               *)
ConfirmAgain(t) ==
  LET c == tab[t] IN
  /\ c.pc = "sending"
  /\ item[c.item].status = "completed" /\ Current(c.item) # NoReview
  /\ tab' = [tab EXCEPT ![t] = Answered(c.item :> c.grade,
                                    c.item :> Current(c.item).grade)]
  /\ UNCHANGED <<batch, item, suggestion, review, export>>

(* Mutant: the revision is not compared.                                   *)
NamedRound(named) == \A i \in DOMAIN named : named[i].round = item[i].round

(* The named reviews are still those of the current round and revision.    *)
NamedCurrent(named) ==
  \A i \in DOMAIN named :
    named[i].round = item[i].round /\ named[i].revision = Current(i).revision

(* What confirm_teacher_reviews checks of each review; it raises otherwise. *)
Confirmable(i) ==
  /\ item[i].status = "needs_review" /\ Current(i).status = "draft"
  /\ HasTarget(i) /\ DatabaseAccepts(i, Current(i).grade)

Confirmed(S) ==
  [i \in Items |-> IF i \in S
                   THEN [review[i] EXCEPT ![item[i].round].status = "confirmed"]
                   ELSE review[i]]

(* confirm_batch: all named reviews are drafts and are confirmed together. *)
ConfirmReviews(t) ==
  LET S == DOMAIN tab[t].named IN
  /\ tab[t].pc = "naming" /\ NamedCurrent(tab[t].named)
  /\ \A i \in S : Confirmable(i)
  /\ batch # "cancelled"
  /\ review' = Confirmed(S)
  /\ CompletePapers(S)
  /\ tab' = [tab EXCEPT ![t] = Answered(tab[t].sent,
                                    [i \in S |-> Current(i).grade])]
  /\ UNCHANGED <<suggestion, export>>

(* All named reviews are confirmed already: the same answer again.         *)
ConfirmReviewsAgain(t) ==
  LET S == DOMAIN tab[t].named IN
  /\ tab[t].pc = "naming" /\ NamedCurrent(tab[t].named)
  /\ \A i \in S : Current(i).status = "confirmed"
  /\ tab' = [tab EXCEPT ![t] = Answered(tab[t].sent,
                                    [i \in S |-> Current(i).grade])]
  /\ UNCHANGED <<batch, item, suggestion, review, export>>

(* A conflict, a validation error of the database, or a lost connection:   *)
(* nothing is written.                                                     *)
RequestFails(t) ==
  /\ ~Free(t)
  /\ tab' = [tab EXCEPT ![t] = Idle]
  /\ UNCHANGED <<batch, item, suggestion, review, export>>

-----------------------------------------------------------------------------
(* Exports                                                                 *)

(* Mutant: a final export takes drafts of completed batches as they are.   *)
SourceOfAnything(i) ==
  IF Current(i) # NoReview THEN "teacher_confirmed" ELSE "ai_suggestion"

SourceOf(i) ==
  CASE Current(i).status = "confirmed" -> "teacher_confirmed"
    [] Current(i).status = "draft" -> "teacher_draft"
    [] OTHER -> "ai_suggestion"

(* The frozen grade is kept for confirmed rows; what another row shows     *)
(* binds nobody.                                                           *)
FrozenGrade(i) ==
  IF SourceOf(i) = "teacher_confirmed" THEN Current(i).grade ELSE NoGrade

(* A final export needs a completed batch, a draft one a graded batch.     *)
ReadyToExport(type) ==
  /\ \/ batch = "completed"
     \/ type = "draft" /\ batch = "needs_review"
  /\ \A i \in Items : item[i].status \in {"needs_review", "completed"}

(* create_export with a new key freezes every paper; with a known key it   *)
(* returns the row it finds.                                               *)
CreateExport(k, type) ==
  /\ export[k] = Idle /\ ReadyToExport(type)
  /\ \A i \in Items :
       /\ HasTarget(i)
       /\ (type = "final" \/ item[i].status = "completed")
            => SourceOf(i) = "teacher_confirmed"
       /\ type = "final" => item[i].status = "completed"
  /\ export' = [export EXCEPT ![k] =
       [type |-> type,
        rows |-> [i \in Items |-> [source |-> SourceOf(i),
                                   grade |-> FrozenGrade(i)]]]]
  /\ UNCHANGED <<batch, item, suggestion, review, tab>>

-----------------------------------------------------------------------------
TabStep(t) ==
  \/ \E i \in Items, g \in Entered : SendGrade(t, i, g)
  \/ \E i \in Items : ReadDraft(t, i)
  \/ SaveDraft(t) \/ SaveAndConfirm(t) \/ ConfirmAgain(t)
  \/ ConfirmReviews(t) \/ ConfirmReviewsAgain(t) \/ RequestFails(t)

ReviewNext ==
  \/ \E i \in Items : \/ \E g \in Suggestions : EndRound(i, "needs_review", g)
                      \/ EndRound(i, "needs_review", NoGrade)
                      \/ EndRound(i, "failed", NoGrade)
                      \/ RetryItem(i)
  \/ \E S \in SUBSET Items : CancelJob(S)
  \/ \E t \in Tabs : TabStep(t)
  \/ \E k \in Keys, type \in {"draft", "final"} : CreateExport(k, type)

ReviewSpec == ReviewInit /\ [][ReviewNext]_reviewVars

-----------------------------------------------------------------------------
(* Properties                                                              *)

(* A paper is completed exactly when the review of its current round is    *)
(* confirmed, and no review of an earlier round ever is: no re-grading     *)
(* slips between reading a draft and confirming it.                        *)
CompletedMeansConfirmed ==
  \A i \in Items, r \in Rounds :
    review[i][r].status = "confirmed"
      <=> item[i].status = "completed" /\ r = item[i].round

(* A confirmed grade is final: no save, re-grading, confirmation or        *)
(* cancellation that was already under way changes the paper or its review. *)
ConfirmedIsFinal ==
  [][\A i \in Items : item[i].status = "completed"
       => item'[i] = item[i] /\ review'[i] = review[i]]_reviewVars

(* A paper is completed only by a request of the teacher, with the grade   *)
(* the request showed or contained, and a request completes all the papers *)
(* it names or none, although drafts are saved, papers graded again and    *)
(* other requests served in between.                                       *)
ConfirmedAsRequested ==
  [][\A i \in Items : item[i].status # "completed" /\ item'[i].status = "completed"
       => \E t \in Tabs :
            LET c == tab[t]
                confirmed == review'[i][item[i].round].grade IN
            \/ c.pc = "sending" /\ c.item = i /\ c.grade = confirmed
            \/ /\ c.pc = "naming" /\ i \in DOMAIN c.named
               /\ c.sent[i] = confirmed
               /\ \A j \in DOMAIN c.named : item'[j].status = "completed"]_reviewVars

TotalScore == SumFunction([n \in DOMAIN Rubric.dimensions |-> Rubric.dimensions[n].max])

(* paper_grading_protect_job_item, where queued and running are one.       *)
ItemTriggerAccepts(old, new) ==
  \/ old = new
  \/ /\ old.status = "grading" /\ new.round = old.round
     /\ new.status \in {"needs_review", "completed", "failed", "cancelled"}
  \/ /\ old.status = "needs_review" /\ new.status = "completed"
     /\ new.round = old.round
  \/ /\ old.status \in {"needs_review", "failed"} /\ new.status = "grading"
     /\ new.round = old.round + 1

(* paper_grading_protect_review_history, for one UPDATE.                   *)
ReviewTriggerAccepts(old, new) ==
  \/ old = new \/ old = NoReview
  \/ /\ old.status = "draft"
     /\ IF new.status = "draft" THEN new.revision = old.revision + 1
                                ELSE new.revision = old.revision

(* The constraints and unique indexes of teacher_reviews.                  *)
ReviewRowsAllowed(rows) ==
  \A i \in Items, r \in Rounds : rows[i][r] # NoReview =>
    /\ rows[i][r].revision > 0 /\ rows[i][r].score \in 0..TotalScore
    /\ \A q \in Rounds \ {r} :
         /\ rows[i][q].revision # rows[i][r].revision
         /\ ~(rows[i][q].status = "confirmed" /\ rows[i][r].status = "confirmed")

(* The triggers that guard the history of papers and reviews, and the      *)
(* constraints of their tables, accept every change the functions make, so *)
(* no request dies on them; saving and confirming in one transaction are   *)
(* two updates.                                                            *)
TriggersAccept ==
  [][/\ \A i \in Items : ItemTriggerAccepts(item[i], item'[i])
     /\ review' # review =>
          /\ ReviewRowsAllowed(review')
          /\ \A i \in Items, r \in Rounds :
               LET old == review[i][r]
                   new == review'[i][r]
                   saved == [new EXCEPT !.status = "draft"] IN
               \/ ReviewTriggerAccepts(old, new)
               \/ ReviewTriggerAccepts(old, saved) /\ ReviewTriggerAccepts(saved, new)
    ]_reviewVars

(* A row an export labels teacher_confirmed shows the grade that stays, in *)
(* every later state; a final export has only such rows.                   *)
ExportedGradesAreFinal ==
  \A k \in Keys : export[k] # Idle => \A i \in Items :
    /\ export[k].type = "final" => export[k].rows[i].source = "teacher_confirmed"
    /\ export[k].rows[i].source = "teacher_confirmed"
         => /\ item[i].status = "completed"
            /\ export[k].rows[i].grade = Current(i).grade

(* Reference: the worth of a grade, from the rubric alone.                 *)
Worth(g) ==
  LET points == {n \in DOMAIN Rubric.deductions : \E m \in DOMAIN g.deductions :
                   /\ g.deductions[m].id = Rubric.deductions[n].id
                   /\ g.deductions[m].applied}
      lost == SumFunctionOnSet([n \in DOMAIN Rubric.deductions |->
                                  Rubric.deductions[n].points], points)
      won == SumFunction([n \in DOMAIN g.criteria |-> g.criteria[n].score])
  IN Max({0, won - lost})
WorthOf == [g \in Grades |-> Worth(Content(g))]

(* The stored score of every review is what its grade is worth, between    *)
(* nothing and the rubric's total.                                         *)
ScoresAreRight ==
  \A i \in Items, r \in Rounds : review[i][r] # NoReview =>
    /\ review[i][r].score = WorthOf[review[i][r].grade]
    /\ review[i][r].score <= TotalScore

(* Every score is written as the database expects it, and a grade without  *)
(* a change reason is written letter for letter like the suggestion: the   *)
(* same forms of its scores, its evidence in the order of the rubric.      *)
WrittenLike(grade, suggested) ==
  /\ \A n \in DOMAIN grade.criteria : MatchesPattern(grade.criteria[n].form)
  /\ \/ grade.reason
     \/ /\ grade.evidence = Flattened(grade)
        /\ \A n \in DOMAIN grade.criteria :
             grade.criteria[n].form = suggested.criteria[n].form

WrittenLikeTheirs == Pairs(LAMBDA g, s : WrittenLike(Content(g), Content(s)))

(* Of the grades the backend accepts the database refuses exactly those    *)
(* that are written otherwise: with an exponent, a sign or a fifth place,  *)
(* or, without a change reason, with other zeros or another order of the   *)
(* evidence than the suggestion.  On ids, ranges, steps, totals and        *)
(* changed values the two validators agree.                                *)
ValidatorsAgree ==
  \A i \in Items : Loadable(i) =>
    \A g \in Grades : ServiceAccepts(i, g) =>
      (DatabaseAccepts(i, g) <=> <<g, suggestion[i]>> \in WrittenLikeTheirs)

(* A single confirmation that is answered with success confirmed the grade *)
(* that was sent (confirm refuses a paper that was confirmed with another  *)
(* version).                                                               *)
ConfirmAnswersWhatWasSent ==
  \A t \in Tabs : tab[t] # Misled
=============================================================================
