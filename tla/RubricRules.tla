----------------------------- MODULE RubricRules -----------------------------
(***************************************************************************)
(* What a structured rubric may look like: the contract of the backend     *)
(* (domain/rubric.py), the same contract in SQL (valid_structured_rubric), *)
(* and what is taken from a provider's answers (rubrics/generation.py,     *)
(* providers/connection.py).  Scores are whole numbers, texts are left out *)
(* and names are equal when they are equal after normalisation.            *)
(***************************************************************************)
EXTENDS Integers, Sequences, FiniteSets, SequencesExt

(* The fields of a rubric, of its dimensions, bands and deductions, and of *)
(* the form it is made for.                                                *)
BandShapes == [min : Int, max : Int]
DimensionShapes == [id : STRING, name : STRING, max : Int, bands : Seq(BandShapes)]
DeductionShapes == [id : STRING, name : STRING, points : Int]
RubricShapes == [total : Int, step : Int, dimensions : Seq(DimensionShapes),
                 deductions : Seq(DeductionShapes)]
FormShapes == [total : Int, step : Int]

Column(seq, Field(_)) == [n \in DOMAIN seq |-> Field(seq[n])]
Unique(seq, Field(_)) == IsInjective(Column(seq, Field))
Maxima(rubric) == Column(rubric.dimensions, LAMBDA d : d.max)

(* The scores of a form: total and step of an assignment or a new draft.   *)
validate_score_range(form) ==
  /\ form.total > 0 /\ form.step > 0
  /\ form.step <= form.total /\ form.total % form.step = 0

(* Mutant: bands may share their boundary.                                 *)
NextBandOverlaps(bands, n, step) == IF n = 1 THEN 0 ELSE bands[n - 1].max

(* The first band starts at 0, every other one a step above the last.      *)
NextBand(bands, n, step) == IF n = 1 THEN 0 ELSE bands[n - 1].max + step

-----------------------------------------------------------------------------
(* The contract of the backend                                             *)

(* Every score the contract compares with the step.                        *)
Scores(rubric) ==
  {rubric.total}
  \cup {rubric.dimensions[d].max : d \in DOMAIN rubric.dimensions}
  \cup (UNION {UNION {{b.min, b.max} : b \in ToSet(rubric.dimensions[d].bands)}
                  : d \in DOMAIN rubric.dimensions})
  \cup {rubric.deductions[d].points : d \in DOMAIN rubric.deductions}

(* The bands cover the dimension without gap or overlap.                   *)
Continuous(dimension, step) ==
  LET bands == dimension.bands IN
  /\ \A n \in DOMAIN bands : /\ bands[n].min = NextBand(bands, n, step)
                             /\ bands[n].min <= bands[n].max
                             /\ bands[n].max <= dimension.max
  /\ Last(bands).max = dimension.max

(* StructuredRubric and the models it is made of.                          *)
StructuredRubric(rubric) ==
  /\ rubric.total > 0 /\ rubric.step > 0 /\ rubric.dimensions # <<>>
  /\ \A d \in ToSet(rubric.dimensions) : d.max > 0 /\ d.bands # <<>>
  /\ \A d \in ToSet(rubric.deductions) : d.points > 0
  /\ Unique(rubric.dimensions, LAMBDA d : d.id)
  /\ Unique(rubric.dimensions, LAMBDA d : d.name)
  /\ Unique(rubric.deductions, LAMBDA d : d.id)
  /\ Unique(rubric.deductions, LAMBDA d : d.name)
  /\ SumFunction(Maxima(rubric)) = rubric.total
  /\ rubric.step <= rubric.total
  /\ \A s \in Scores(rubric) : s >= 0 /\ s % rubric.step = 0
  /\ \A d \in ToSet(rubric.deductions) : d.points <= rubric.total
  /\ \A d \in ToSet(rubric.dimensions) : Continuous(d, rubric.step)

(* A rubric made for a form has its total and its step.                    *)
MadeFor(rubric, form) == rubric.total = form.total /\ rubric.step = form.step

-----------------------------------------------------------------------------
(* The contract of the database                                            *)

BandAllowed(bands, n, dimension, step) ==
  /\ 0 <= bands[n].min /\ bands[n].min <= bands[n].max
  /\ bands[n].max <= dimension.max
  /\ bands[n].min % step = 0 /\ bands[n].max % step = 0
  /\ bands[n].min = NextBand(bands, n, step)

(* The loop over the dimensions: each with the ones before it.             *)
DimensionAllowed(dims, n, step) ==
  /\ dims[n].bands # <<>> /\ dims[n].max > 0 /\ dims[n].max % step = 0
  /\ \A m \in 1..(n - 1) : dims[m].id # dims[n].id /\ dims[m].name # dims[n].name
  /\ \A b \in DOMAIN dims[n].bands : BandAllowed(dims[n].bands, b, dims[n], step)
  /\ Last(dims[n].bands).max = dims[n].max

(* The deductions may repeat here.                                         *)
valid_structured_rubric(rubric, form) ==
  /\ MadeFor(rubric, form) /\ validate_score_range(form)
  /\ rubric.dimensions # <<>>
  /\ \A n \in DOMAIN rubric.dimensions :
       DimensionAllowed(rubric.dimensions, n, form.step)
  /\ SumFunction(Maxima(rubric)) = form.total
  /\ \A d \in ToSet(rubric.deductions) :
       /\ 0 < d.points /\ d.points <= form.total /\ d.points % form.step = 0

-----------------------------------------------------------------------------
(* What a rubric is for                                                    *)

(* Every score a dimension can get lies in exactly one of its bands, and   *)
(* the best scores add up to the form's total.                             *)
Gradable(rubric, form) ==
  /\ \A d \in ToSet(rubric.dimensions) :
       \A s \in {q \in 0..d.max : q % form.step = 0} :
         Cardinality({n \in DOMAIN d.bands :
                        s \in d.bands[n].min..d.bands[n].max}) = 1
  /\ SumFunction(Maxima(rubric)) = form.total

-----------------------------------------------------------------------------
(* Answers of providers                                                    *)

(* The counts of a completion must add up where they are given.            *)
validate_usage(usage) ==
  usage.given =>
    /\ usage.prompt >= 0 /\ usage.completion >= 0
    /\ usage.total = usage.prompt + usage.completion
    /\ usage.cached => /\ usage.hit >= 0 /\ usage.miss >= 0
                       /\ usage.hit + usage.miss = usage.prompt

(* An answer with another HTTP status than 200 is an error.                *)
raise_for_status(answer) == answer.status # 200

(* Whether a completion with this rubric is accepted for a form.           *)
extract_structured_rubric(answer, rubric, model, form) ==
  /\ ~raise_for_status(answer)
  /\ answer.model = model /\ validate_usage(answer.usage)
  /\ answer.finish = "stop"
  /\ StructuredRubric(rubric) /\ MadeFor(rubric, form)

(* A model list passes the connection test of a configuration whose        *)
(* default model it names.                                                 *)
connection_test(answer, model) ==
  ~raise_for_status(answer) /\ model \in answer.models
=============================================================================
