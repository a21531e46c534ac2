--------------------------- MODULE RubricDeskProofs ---------------------------
(***************************************************************************)
(* Proofs about the rules of a rubric and about RubricDesk, for any        *)
(* requests, providers, answers, rubrics and forms.                        *)
(***************************************************************************)
EXTENDS RubricDesk, FiniteSetTheorems, WellFoundedInduction, TLAPS

-----------------------------------------------------------------------------
(* Numbers                                                                 *)

(* A set of numbers has a smallest.                                        *)
LEMMA SmallestNumber ==
  ASSUME NEW T \in SUBSET Nat, T # {}
  PROVE  \E n \in T : \A m \in T : n <= m
<1>1. PICK n \in T : \A m \in T : ~(<<m, n>> \in OpToRel(<, Nat))
  BY NatLessThanWellFounded, WFMin
<1>2. \A m \in T : ~(m < n)
  BY <1>1 DEF OpToRel
<1> QED BY <1>2

(* Division with remainder.                                                *)
LEMMA Division ==
  ASSUME NEW a \in Nat, NEW b \in Nat, b > 0
  PROVE  a = b * (a \div b) + (a % b) /\ (a \div b) \in Nat
OBVIOUS

(* Of two multiples of a step the larger is a step above the other.        *)
LEMMA StepApart ==
  ASSUME NEW s \in Nat, NEW t \in Nat, NEW k \in Nat, k > 0,
         s % k = 0, t % k = 0, s > t
  PROVE  s >= t + k
<1>1. s = k * (s \div k) /\ s \div k \in Nat
  BY Division
<1>2. t = k * (t \div k) /\ t \div k \in Nat
  BY Division
<1>3. PICK q \in Nat : s = k * q
  BY <1>1
<1>4. PICK r \in Nat : t = k * r
  BY <1>2
<1>5. q > r
  BY <1>3, <1>4
<1>6. k * (q - (r + 1)) >= 0
  BY <1>5
<1>7. k * q = k * r + k + k * (q - (r + 1))
  OBVIOUS
<1> QED BY <1>3, <1>4, <1>6, <1>7

-----------------------------------------------------------------------------
(* The rules of a rubric                                                   *)

(* Members of a sequence.                                                  *)
LEMMA Members ==
  ASSUME NEW S, NEW seq \in Seq(S)
  PROVE  /\ Len(seq) \in Nat /\ DOMAIN seq = 1..Len(seq)
         /\ \A n \in DOMAIN seq : seq[n] \in S
OBVIOUS

(* Types of the bands of a dimension.                                      *)
LEMMA BandTypes ==
  ASSUME NEW dim \in DimensionShapes
  PROVE  /\ dim.max \in Int /\ dim.bands \in Seq(BandShapes)
         /\ Len(dim.bands) \in Nat /\ DOMAIN dim.bands = 1..Len(dim.bands)
         /\ \A k \in DOMAIN dim.bands : dim.bands[k].min \in Int /\ dim.bands[k].max \in Int
<1>1. dim.max \in Int /\ dim.bands \in Seq(BandShapes)
  BY DEF DimensionShapes
<1>2. PICK bands : bands = dim.bands
  OBVIOUS
<1>3. /\ Len(bands) \in Nat /\ DOMAIN bands = 1..Len(bands)
      /\ \A n \in DOMAIN bands : bands[n] \in BandShapes
  BY <1>1, <1>2, Members
<1>4. \A b \in BandShapes : b.min \in Int /\ b.max \in Int
  BY DEF BandShapes
<1> QED BY <1>1, <1>2, <1>3, <1>4

(* Bands the database accepts rise: each begins above all before it.       *)
LEMMA BandsRise ==
  ASSUME NEW dim \in DimensionShapes, NEW step \in Int, step > 0,
         \A n \in DOMAIN dim.bands : BandAllowed(dim.bands, n, dim, step),
         NEW m \in DOMAIN dim.bands, NEW n \in DOMAIN dim.bands, m < n
  PROVE  dim.bands[m].max < dim.bands[n].min
<1> DEFINE bands == dim.bands
           Bad == {k \in DOMAIN bands : m < k /\ ~(bands[m].max < bands[k].min)}
<1>0. /\ bands \in Seq(BandShapes) /\ DOMAIN bands = 1..Len(bands) /\ Len(bands) \in Nat
      /\ \A k \in DOMAIN bands : bands[k].min \in Int /\ bands[k].max \in Int
  BY BandTypes
<1>1. \A k \in DOMAIN bands :
        /\ bands[k].min <= bands[k].max
        /\ k # 1 => bands[k].min = bands[k - 1].max + step
  BY DEF BandAllowed, NextBand
<1> HIDE DEF bands
<1> SUFFICES ASSUME Bad # {} PROVE FALSE
  BY DEF bands
<1>2. PICK k \in Bad : \A j \in Bad : k <= j
  <2>1. Bad \in SUBSET Nat
    BY <1>0
  <2> HIDE DEF Bad
  <2> QED BY <2>1, SmallestNumber
<1>3. /\ k \in DOMAIN bands /\ k \in Int /\ m \in Int /\ m >= 1 /\ m < k /\ k # 1
      /\ m \in DOMAIN bands
  BY <1>0 DEF bands
<1>4. k - 1 \in DOMAIN bands /\ m <= k - 1
  BY <1>0, <1>3
<1>5. bands[m].max <= bands[k - 1].max
  <2>1. CASE m = k - 1
    BY <1>0, <1>3, <2>1
  <2>2. CASE m < k - 1
    <3>1. bands[m].max < bands[k - 1].min
      BY <1>2, <1>3, <1>4, <2>2
    <3> QED BY <1>0, <1>1, <1>3, <1>4, <3>1
  <2> QED BY <1>3, <1>4, <2>1, <2>2
<1>6. bands[m].max < bands[k].min
  BY <1>0, <1>1, <1>3, <1>4, <1>5
<1> QED BY <1>6

(* So every score of the dimension lies in exactly one of them.            *)
LEMMA OneBand ==
  ASSUME NEW dim \in DimensionShapes, NEW step \in Int, step > 0,
         dim.bands # <<>>, Last(dim.bands).max = dim.max,
         \A n \in DOMAIN dim.bands : BandAllowed(dim.bands, n, dim, step),
         NEW s \in 0..dim.max, s % step = 0
  PROVE  Cardinality({n \in DOMAIN dim.bands :
                        s \in dim.bands[n].min..dim.bands[n].max}) = 1
<1> DEFINE bands == dim.bands
           Reach == {n \in DOMAIN bands : s <= bands[n].max}
           Hit == {n \in DOMAIN bands : s \in bands[n].min..bands[n].max}
<1>0. /\ bands \in Seq(BandShapes) /\ DOMAIN bands = 1..Len(bands) /\ Len(bands) \in Nat
      /\ \A k \in DOMAIN bands : bands[k].min \in Int /\ bands[k].max \in Int
      /\ dim.max \in Int /\ s \in Int /\ s >= 0 /\ s <= dim.max
  BY BandTypes
<1>1. \A k \in DOMAIN bands :
        /\ 0 <= bands[k].min /\ bands[k].min <= bands[k].max
        /\ bands[k].max % step = 0
        /\ bands[k].min = IF k = 1 THEN 0 ELSE bands[k - 1].max + step
  BY DEF BandAllowed, NextBand
<1>2. \A m, n \in DOMAIN bands : m < n => bands[m].max < bands[n].min
  BY BandsRise
<1>3. Len(bands) \in Reach
  <2>1. Len(bands) # 0
    BY <1>0
  <2>2. bands[Len(bands)].max = dim.max
    BY DEF Last
  <2> QED BY <1>0, <2>1, <2>2
<1> HIDE DEF bands
<1>4. PICK n \in Reach : \A m \in Reach : n <= m
  <2>1. Reach \in SUBSET Nat /\ Reach # {}
    BY <1>0, <1>3
  <2> HIDE DEF Reach
  <2> QED BY <2>1, SmallestNumber
<1>5. n \in DOMAIN bands /\ n \in Int /\ n >= 1 /\ s <= bands[n].max
  BY <1>0, <1>4
<1>6. bands[n].min <= s
  <2>1. CASE n = 1
    BY <1>0, <1>1, <1>5, <2>1
  <2>2. CASE n # 1
    <3>1. n - 1 \in DOMAIN bands /\ n - 1 \notin Reach
      BY <1>0, <1>4, <1>5, <2>2
    <3>2. bands[n - 1].max < s
      BY <1>0, <3>1
    <3>3. s \in Nat /\ bands[n - 1].max \in Nat /\ step \in Nat
      BY <1>0, <1>1, <3>1
    <3>4. s >= bands[n - 1].max + step
      BY <1>1, <3>1, <3>2, <3>3, StepApart
    <3>5. bands[n].min = bands[n - 1].max + step
      BY <1>1, <1>5, <2>2
    <3> QED BY <3>3, <3>4, <3>5
  <2> QED BY <2>1, <2>2
<1>7. n \in Hit
  BY <1>0, <1>5, <1>6
<1>8. \A m \in Hit : m = n
  <2> SUFFICES ASSUME NEW m \in Hit, m # n PROVE FALSE
    OBVIOUS
  <2>1. m \in DOMAIN bands /\ m \in Int /\ bands[m].min <= s /\ s <= bands[m].max
    BY <1>0
  <2>2. CASE m < n
    BY <1>0, <1>2, <1>5, <1>6, <2>1, <2>2
  <2>3. CASE n < m
    BY <1>0, <1>2, <1>5, <1>6, <2>1, <2>3
  <2> QED BY <1>5, <2>1, <2>2, <2>3
<1>9. Hit = {n}
  BY <1>7, <1>8
<1>10. Cardinality(Hit) = 1
  <2> HIDE DEF Hit
  <2> QED BY <1>9, FS_Singleton
<1> QED BY <1>10 DEF bands

(* Every rubric the database stores can be graded by.                      *)
THEOREM StorableIsGradable ==
  ASSUME NEW rubric \in RubricShapes, NEW form \in FormShapes,
         valid_structured_rubric(rubric, form)
  PROVE  Gradable(rubric, form)
<1>1. form.step \in Int /\ form.step > 0
  BY DEF valid_structured_rubric, validate_score_range, FormShapes
<1>2. rubric.dimensions \in Seq(DimensionShapes)
  BY DEF RubricShapes
<1>3. ASSUME NEW d \in ToSet(rubric.dimensions), NEW s \in 0..d.max, s % form.step = 0
      PROVE  Cardinality({n \in DOMAIN d.bands : s \in d.bands[n].min..d.bands[n].max}) = 1
  <2>1. PICK n \in DOMAIN rubric.dimensions : d = rubric.dimensions[n]
    BY DEF ToSet
  <2>2. d \in DimensionShapes
    BY <1>2, <2>1
  <2>3. DimensionAllowed(rubric.dimensions, n, form.step)
    BY DEF valid_structured_rubric
  <2>4. /\ d.bands # <<>> /\ Last(d.bands).max = d.max
        /\ \A b \in DOMAIN d.bands : BandAllowed(d.bands, b, d, form.step)
    BY <2>1, <2>3 DEF DimensionAllowed
  <2> QED BY <1>1, <1>3, <2>2, <2>4, OneBand
<1>4. SumFunction(Maxima(rubric)) = form.total
  BY DEF valid_structured_rubric
<1> QED BY <1>3, <1>4 DEF Gradable

(* The contract of the backend is at least that of the database.           *)
THEOREM AcceptedIsStorable ==
  ASSUME NEW rubric \in RubricShapes, NEW form \in FormShapes,
         validate_score_range(form), StructuredRubric(rubric), MadeFor(rubric, form)
  PROVE  valid_structured_rubric(rubric, form)
<1> DEFINE dims == rubric.dimensions
           step == form.step
<1>1. /\ rubric.total = form.total /\ rubric.step = step /\ step \in Int /\ step > 0
      /\ form.total \in Int /\ dims \in Seq(DimensionShapes)
      /\ rubric.deductions \in Seq(DeductionShapes)
  BY DEF MadeFor, validate_score_range, FormShapes, RubricShapes
<1>2. \A s \in Scores(rubric) : s >= 0 /\ s % step = 0
  BY <1>1 DEF StructuredRubric
<1> DEFINE Ends(k) == UNION {{c.min, c.max} : c \in ToSet(dims[k].bands)}
           Points == {rubric.deductions[k].points : k \in DOMAIN rubric.deductions}
           AllEnds == UNION {Ends(k) : k \in DOMAIN dims}
           Most == {dims[k].max : k \in DOMAIN dims}
<1>0. Most \subseteq Scores(rubric) /\ AllEnds \subseteq Scores(rubric)
      /\ Points \subseteq Scores(rubric)
  <2>1. Scores(rubric) = {rubric.total} \cup Most \cup AllEnds \cup Points
    BY Zenon DEF Scores
  <2> HIDE DEF Most, AllEnds, Points
  <2> QED BY <2>1
<1>3. ASSUME NEW n \in DOMAIN dims PROVE DimensionAllowed(dims, n, step)
  <2> DEFINE d == dims[n]
  <2>1. d \in ToSet(dims) /\ d \in DimensionShapes
    BY <1>1 DEF ToSet
  <2>2. d.max > 0 /\ d.bands # <<>> /\ Continuous(d, step)
    BY <1>1, <2>1 DEF StructuredRubric
  <2>3. d.max % step = 0
    BY <1>2 DEF Scores
  <2>4. \A m \in 1..(n - 1) : dims[m].id # d.id /\ dims[m].name # d.name
    <3> SUFFICES ASSUME NEW m \in 1..(n - 1)
                 PROVE  dims[m].id # d.id /\ dims[m].name # d.name
      OBVIOUS
    <3>1. m \in DOMAIN dims /\ m # n
      BY <1>1
    <3>2. /\ Unique(dims, LAMBDA x : x.id) /\ Unique(dims, LAMBDA x : x.name)
      BY DEF StructuredRubric
    <3> QED BY <3>1, <3>2 DEF Unique, Column, IsInjective
  <2>5. ASSUME NEW b \in DOMAIN d.bands PROVE BandAllowed(d.bands, b, d, step)
    <3>1. d.bands[b].min \in Scores(rubric) /\ d.bands[b].max \in Scores(rubric)
      <4>1. d.bands[b] \in ToSet(d.bands)
        BY DEF ToSet
      <4>2. d.bands[b].min \in Ends(n) /\ d.bands[b].max \in Ends(n)
        BY <4>1
      <4> HIDE DEF Ends
      <4>3. d.bands[b].min \in AllEnds /\ d.bands[b].max \in AllEnds
        BY <4>2
      <4> HIDE DEF AllEnds
      <4> QED BY <1>0, <4>3
    <3>2. /\ d.bands[b].min = NextBand(d.bands, b, step)
          /\ d.bands[b].min <= d.bands[b].max /\ d.bands[b].max <= d.max
      BY <2>2 DEF Continuous
    <3>3. 0 <= d.bands[b].min
      <4>1. d.bands[b].min \in Int
        BY <2>1, BandTypes
      <4> QED BY <1>2, <3>1, <4>1
    <3> QED BY <1>2, <3>1, <3>2, <3>3 DEF BandAllowed
  <2>6. Last(d.bands).max = d.max
    BY <2>2 DEF Continuous
  <2> QED BY <2>2, <2>3, <2>4, <2>5, <2>6 DEF DimensionAllowed
<1>4. ASSUME NEW d \in ToSet(rubric.deductions)
      PROVE  0 < d.points /\ d.points <= form.total /\ d.points % step = 0
  <2>1. PICK n \in DOMAIN rubric.deductions : d = rubric.deductions[n]
    BY DEF ToSet
  <2>2. d.points \in Int
    <3>1. rubric.deductions[n] \in DeductionShapes
      BY <1>1
    <3> QED BY <2>1, <3>1 DEF DeductionShapes
  <2>3. d.points \in Scores(rubric)
    <3>1. d.points \in Points
      BY <2>1
    <3> HIDE DEF Points
    <3> QED BY <1>0, <3>1
  <2> QED BY <1>1, <1>2, <2>2, <2>3 DEF StructuredRubric
<1> QED BY <1>1, <1>3, <1>4 DEF valid_structured_rubric, StructuredRubric

(* What the backend accepts for a form of the assignment is stored, and    *)
(* what is stored can be graded by.                                        *)
LEMMA StoredForForms ==
  ASSUME NEW form \in Forms
  PROVE  /\ AcceptableFor[form] \subseteq StorableFor[form]
         /\ StorableFor[form] \subseteq Rubrics
         /\ \A r \in StorableFor[form] : Gradable(Content(r), form)
<1>1. form \in FormShapes /\ validate_score_range(form)
  BY DeskAssumption
<1>2. \A r \in Rubrics : Content(r) \in RubricShapes
  BY DeskAssumption
<1>3. /\ AcceptableFor[form] = {r \in Rubrics : /\ StructuredRubric(Content(r))
                                               /\ MadeFor(Content(r), form)}
      /\ StorableFor[form] = {r \in Rubrics : valid_structured_rubric(Content(r), form)}
  BY DEF AcceptableFor, Acceptable, StorableFor, Storable
<1>4. ASSUME NEW r \in Rubrics, StructuredRubric(Content(r)), MadeFor(Content(r), form)
      PROVE  valid_structured_rubric(Content(r), form)
  BY <1>1, <1>2, <1>4, AcceptedIsStorable
<1>5. ASSUME NEW r \in Rubrics, valid_structured_rubric(Content(r), form)
      PROVE  Gradable(Content(r), form)
  BY <1>1, <1>2, <1>5, StorableIsGradable
<1> QED BY <1>3, <1>4, <1>5

-----------------------------------------------------------------------------
(* The provider and the requests that read it                              *)

(* Only a tested provider is enabled, and what was tested is its           *)
(* connection.                                                             *)
ProviderInv ==
  /\ provider \in [status : {"draft", "enabled", "disabled"},
                   config : 1..MaxConfig, tested : 0..MaxConfig,
                   connection : {provider.connection}]
  /\ DOMAIN provider.connection = SettingFields
  /\ provider.connection.default \in ModelNames
  /\ provider.connection.default \in provider.connection.allowed
  /\ provider.status = "enabled" => Tested
  /\ Tested => provider.connection \in answered
  /\ \A c \in answered : DOMAIN c = SettingFields

(* What a request read is still so as long as the version of the           *)
(* configuration is the one it read.                                       *)
Fresh(c) ==
  /\ c.config \in 1..provider.config
  /\ DOMAIN c.connection = SettingFields /\ c.connection.default \in ModelNames
  /\ c.pc = "updating" =>
       /\ c.connection.default \in c.connection.allowed
       /\ c.config = provider.config =>
            \A f \in SettingFields \ c.patch : c.connection[f] = provider.connection[f]
  /\ c.pc \in {"testing", "generating"} =>
       (c.config = provider.config => c.connection = provider.connection)

Holding(c) ==
  /\ c = Free \/ c.pc \in {"testing", "updating", "generating", "editing", "confirming"}
  /\ c.pc \in {"testing", "updating", "generating"} => Fresh(c)
  /\ c.pc \in {"generating", "editing", "confirming"} => c.version \in DOMAIN versions

RequestInv ==
  /\ desk = [d \in Desks |-> desk[d]]
  /\ \A d \in Desks : Holding(desk[d])

(* A step that leaves the provider.                                        *)
LEMMA ProviderStays ==
  ASSUME ProviderInv, UNCHANGED <<provider, answered>>
  PROVE  ProviderInv'
BY DEF ProviderInv, Tested

(* A request that begins or ends while the provider stays.                 *)
LEMMA RequestGoes ==
  ASSUME RequestInv, UNCHANGED provider, DOMAIN versions \subseteq DOMAIN versions',
         NEW d \in Desks, NEW c, desk' = [desk EXCEPT ![d] = c],
         c = Free \/ Holding(c)
  PROVE  RequestInv'
<1>1. /\ desk'[d] = c /\ \A e \in Desks \ {d} : desk'[e] = desk[e]
      /\ desk' = [e \in Desks |-> desk'[e]]
  BY DEF RequestInv
<1>2. \A b : Holding(b) => Holding(b)'
  BY DEF Holding, Fresh
<1>3. Holding(Free)
  BY DEF Holding, Free
<1> QED BY <1>1, <1>2, <1>3 DEF RequestInv

(* Requests stay as they are while versions are added or changed.          *)
LEMMA RequestsStay ==
  ASSUME RequestInv, UNCHANGED <<provider, desk>>, DOMAIN versions \subseteq DOMAIN versions'
  PROVE  RequestInv'
BY DEF RequestInv, Holding, Fresh

(* Beginning an update, a test or a generation.                            *)
LEMMA ReadsHold ==
  ASSUME ProviderInv, RequestInv, NEW d \in Desks,
         \/ \E patch \in Patches : ReadForUpdate(d, patch)
         \/ ReadForTest(d)
         \/ \E v \in DOMAIN versions : \/ ReadForGeneration(d, v) \/ ReadForConfirm(d, v)
                                        \/ \E r \in Rubrics : ReadForEdit(d, v, r)
  PROVE  /\ RequestInv' /\ desk'[d] # Free
         /\ \A e \in Desks \ {d} : desk'[e] = desk[e]
         /\ UNCHANGED <<provider, assignment, versions, answered>>
<1>0. Free.pc = "free" /\ provider.config \in 1..provider.config
  BY DEF Free, ProviderInv
<1>1. ASSUME NEW c, Holding(c), c # Free, desk' = [desk EXCEPT ![d] = c],
             UNCHANGED <<provider, assignment, versions, answered>>
      PROVE  /\ RequestInv' /\ desk'[d] # Free
             /\ \A e \in Desks \ {d} : desk'[e] = desk[e]
             /\ UNCHANGED <<provider, assignment, versions, answered>>
  <2>1. RequestInv'
    BY <1>1, RequestGoes
  <2> QED BY <1>1, <2>1 DEF RequestInv
<1>2. ASSUME NEW patch \in Patches, ReadForUpdate(d, patch)
      PROVE  \E c : /\ Holding(c) /\ c # Free /\ desk' = [desk EXCEPT ![d] = c]
                    /\ UNCHANGED <<provider, assignment, versions, answered>>
  <2>1. PICK n : n = Merged(provider.connection, patch)
    OBVIOUS
  <2>2. PICK c : c = [pc |-> "updating", config |-> provider.config,
                      patch |-> DOMAIN patch, connection |-> n,
                      limits |-> MergedLimits(patch)]
    OBVIOUS
  <2>3. /\ DOMAIN n = SettingFields /\ n.default \in ModelNames
        /\ \A f \in SettingFields \ DOMAIN patch : n[f] = provider.connection[f]
    <3>1. /\ DOMAIN n = SettingFields
          /\ \A f \in SettingFields : n[f] = IF f \in DOMAIN patch THEN patch[f]
                                             ELSE provider.connection[f]
      BY <2>1 DEF Merged
    <3>2. "default" \in SettingFields
      BY DEF SettingFields
    <3> QED BY <3>1, <3>2, SettingsAssumption DEF ProviderInv
  <2>4. n.default \in n.allowed
    BY <1>2, <2>1 DEF ReadForUpdate, validate_settings
  <2>5. Holding(c)
    BY <1>0, <2>2, <2>3, <2>4 DEF Holding, Fresh
  <2>6. c # Free
    BY <1>0, <2>2
  <2> QED BY <1>2, <2>1, <2>2, <2>5, <2>6 DEF ReadForUpdate
<1>3. ASSUME ReadForTest(d)
      PROVE  \E c : /\ Holding(c) /\ c # Free /\ desk' = [desk EXCEPT ![d] = c]
                    /\ UNCHANGED <<provider, assignment, versions, answered>>
  <2>1. PICK c : c = [pc |-> "testing", config |-> provider.config,
                      connection |-> provider.connection]
    OBVIOUS
  <2>2. Holding(c) /\ c # Free
    BY <1>0, <2>1 DEF Holding, Fresh, ProviderInv
  <2> QED BY <1>3, <2>1, <2>2 DEF ReadForTest
<1>4. ASSUME NEW v \in DOMAIN versions, ReadForGeneration(d, v)
      PROVE  \E c : /\ Holding(c) /\ c # Free /\ desk' = [desk EXCEPT ![d] = c]
                    /\ UNCHANGED <<provider, assignment, versions, answered>>
  <2>1. PICK c : c = [pc |-> "generating", version |-> v, config |-> provider.config,
                      connection |-> provider.connection]
    OBVIOUS
  <2>2. Holding(c) /\ c # Free
    BY <1>0, <2>1 DEF Holding, Fresh, ProviderInv
  <2> QED BY <1>4, <2>1, <2>2 DEF ReadForGeneration
<1>5. ASSUME NEW v \in DOMAIN versions, ReadForConfirm(d, v)
      PROVE  \E c : /\ Holding(c) /\ c # Free /\ desk' = [desk EXCEPT ![d] = c]
                    /\ UNCHANGED <<provider, assignment, versions, answered>>
  <2>1. PICK c : c = [pc |-> "confirming", version |-> v, model |-> versions[v].model]
    OBVIOUS
  <2>2. Holding(c) /\ c # Free
    BY <1>0, <2>1 DEF Holding
  <2> QED BY <1>5, <2>1, <2>2 DEF ReadForConfirm
<1>6. ASSUME NEW v \in DOMAIN versions, NEW r \in Rubrics, ReadForEdit(d, v, r)
      PROVE  \E c : /\ Holding(c) /\ c # Free /\ desk' = [desk EXCEPT ![d] = c]
                    /\ UNCHANGED <<provider, assignment, versions, answered>>
  <2>1. PICK c : c = [pc |-> "editing", version |-> v, rubric |-> r]
    OBVIOUS
  <2>2. Holding(c) /\ c # Free
    BY <1>0, <2>1 DEF Holding
  <2> QED BY <1>6, <2>1, <2>2 DEF ReadForEdit
<1>7. \E c : /\ Holding(c) /\ c # Free /\ desk' = [desk EXCEPT ![d] = c]
             /\ UNCHANGED <<provider, assignment, versions, answered>>
  BY <1>2, <1>3, <1>4, <1>5, <1>6
<1> QED BY <1>1, <1>7

(* Updating, testing, enabling and disabling the provider.                 *)
LEMMA ProviderSteps ==
  ASSUME ProviderInv, RequestInv,
         \/ EnableProvider \/ DisableProvider
         \/ \E d \in Desks : UpdateProvider(d) \/ \E a \in ModelLists : MarkTested(d, a)
  PROVE  /\ ProviderInv' /\ RequestInv' /\ UNCHANGED <<assignment, versions>>
<1>0. /\ provider.config \in 1..MaxConfig /\ provider.tested \in 0..MaxConfig
      /\ MaxConfig \in Nat /\ Free.pc = "free"
  BY DeskAssumption DEF ProviderInv, Free
<1>1. ASSUME NEW st \in {"enabled", "disabled"}, st = "enabled" => Tested,
             provider' = [provider EXCEPT !.status = st],
             UNCHANGED <<assignment, versions, desk, answered>>
      PROVE  /\ ProviderInv' /\ RequestInv' /\ UNCHANGED <<assignment, versions>>
  <2>1. /\ provider'.status = st /\ provider'.config = provider.config
        /\ provider'.tested = provider.tested
        /\ provider'.connection = provider.connection
        /\ provider' \in [status : {"draft", "enabled", "disabled"},
                          config : 1..MaxConfig, tested : 0..MaxConfig,
                          connection : {provider.connection}]
    BY <1>1 DEF ProviderInv
  <2>2. ProviderInv'
    BY <1>1, <2>1 DEF ProviderInv, Tested
  <2>3. RequestInv'
    BY <1>1, <2>1 DEF RequestInv, Holding, Fresh
  <2> QED BY <1>1, <2>2, <2>3
<1>2. CASE EnableProvider \/ DisableProvider
  BY <1>1, <1>2 DEF EnableProvider, DisableProvider
<1>3. ASSUME NEW d \in Desks, NEW a \in ModelLists, MarkTested(d, a)
      PROVE  /\ ProviderInv' /\ RequestInv' /\ UNCHANGED <<assignment, versions>>
  <2>1. /\ desk[d].pc = "testing" /\ desk[d].config = provider.config
        /\ provider' = [provider EXCEPT !.tested = provider.config]
        /\ answered' = {desk[d].connection} /\ desk' = [desk EXCEPT ![d] = Free]
        /\ UNCHANGED <<assignment, versions>>
    BY <1>3 DEF MarkTested
  <2>2. desk[d].connection = provider.connection
    BY <2>1 DEF RequestInv, Holding, Fresh
  <2>3. /\ provider'.status = provider.status /\ provider'.config = provider.config
        /\ provider'.tested = provider.config
        /\ provider'.connection = provider.connection
        /\ provider' \in [status : {"draft", "enabled", "disabled"},
                          config : 1..MaxConfig, tested : 0..MaxConfig,
                          connection : {provider.connection}]
    BY <1>0, <2>1 DEF ProviderInv
  <2>4. ProviderInv'
    BY <2>1, <2>2, <2>3 DEF ProviderInv, Tested
  <2>5. \A b : Holding(b) => Holding(b)'
    BY <2>1, <2>3 DEF Holding, Fresh
  <2>6. Holding(Free)
    BY DEF Holding, Free
  <2>7. RequestInv'
    BY <2>1, <2>5, <2>6 DEF RequestInv
  <2> QED BY <2>1, <2>4, <2>7
<1>4. ASSUME NEW d \in Desks, UpdateProvider(d)
      PROVE  /\ ProviderInv' /\ RequestInv' /\ UNCHANGED <<assignment, versions>>
  <2>1. /\ desk[d].pc = "updating" /\ desk[d].config = provider.config
        /\ provider' = Invalidated(provider, desk[d].connection)
        /\ provider'.config <= MaxConfig
        /\ answered' = IF provider'.tested = 0 THEN {} ELSE answered
        /\ desk' = [desk EXCEPT ![d] = Free]
        /\ UNCHANGED <<assignment, versions>>
    BY <1>4 DEF UpdateProvider, UnchangedSinceRead
  <2>2. /\ DOMAIN desk[d].connection = SettingFields
        /\ desk[d].connection.default \in ModelNames
        /\ desk[d].connection.default \in desk[d].connection.allowed
    BY <2>1 DEF RequestInv, Holding, Fresh
  <2>3. CASE desk[d].connection = provider.connection
    <3>1. provider' = provider
      BY <2>1, <2>3 DEF Invalidated
    <3>2. ProviderInv'
      BY <1>0, <2>1, <3>1 DEF ProviderInv, Tested
    <3>3. RequestInv'
      BY <2>1, <3>1, RequestGoes
    <3> QED BY <2>1, <3>2, <3>3
  <2>4. CASE desk[d].connection # provider.connection
    <3>1. provider' = [status |-> "draft", config |-> provider.config + 1, tested |-> 0,
                       connection |-> desk[d].connection]
      BY <2>1, <2>4 DEF Invalidated
    <3>2. /\ provider'.status = "draft" /\ provider'.config = provider.config + 1
          /\ provider'.tested = 0 /\ provider'.connection = desk[d].connection
          /\ provider'.config \in 1..MaxConfig
      BY <1>0, <2>1, <3>1
    <3>3. provider' \in [status : {"draft", "enabled", "disabled"},
                        config : 1..MaxConfig, tested : 0..MaxConfig,
                        connection : {provider'.connection}]
      BY <1>0, <3>1, <3>2
    <3>4. ProviderInv'
      BY <1>0, <2>1, <2>2, <3>2, <3>3 DEF ProviderInv, Tested
    <3>5. \A b : Holding(b) => Holding(b)'
      <4> SUFFICES ASSUME NEW b, Holding(b) PROVE Holding(b)'
        OBVIOUS
      <4>1. CASE b.pc \in {"testing", "updating", "generating"}
        <5>1. Fresh(b)
          BY <4>1 DEF Holding
        <5>2. b.config \in 1..provider'.config /\ b.config # provider'.config
          BY <1>0, <3>2, <5>1 DEF Fresh
        <5>3. Fresh(b)'
          BY <5>1, <5>2 DEF Fresh
        <5> QED BY <2>1, <5>3 DEF Holding
      <4>2. CASE b.pc \notin {"testing", "updating", "generating"}
        BY <2>1, <4>2 DEF Holding
      <4> QED BY <4>1, <4>2
    <3>6. Holding(Free)
      BY DEF Holding, Free
    <3>7. RequestInv'
      BY <2>1, <3>5, <3>6 DEF RequestInv
    <3> QED BY <2>1, <3>4, <3>7
  <2> QED BY <2>3, <2>4
<1> QED BY <1>2, <1>3, <1>4

-----------------------------------------------------------------------------
(* The versions of the rubric                                              *)

(* The second part of OneRubricInForce, of any rows.                       *)
Ordered(rows) ==
  \A v, w \in DOMAIN rows : v < w =>
    <<rows[v].status, rows[w].status>> \in
      {"superseded"} \X {"superseded", "confirmed", "draft"} \cup {<<"confirmed", "draft">>}

(* Rows as they are between two transactions.                              *)
RowsInv(rows) ==
  /\ rows \in Seq(Version) /\ Len(rows) \in 1..MaxVersions
  /\ Ordered(rows) /\ RubricRowsAllowed(rows)

VersionsInv ==
  /\ RowsInv(versions)
  /\ assignment \in {"draft", "ready", "archived"}
  /\ assignment = "ready" => In("confirmed", versions) # {}

DeskInv == ProviderInv /\ RequestInv /\ VersionsInv

(* What a step does to the assignment and its versions: nothing but a      *)
(* change of the assignment, a write of a draft, a new draft or a          *)
(* confirmation.                                                           *)
Kept ==
  /\ UNCHANGED versions
  /\ assignment' \in {"draft", "ready", "archived"}
  /\ assignment' = "ready" => In("confirmed", versions) # {}
Saved(v, row) ==
  /\ versions[v].status = "draft" /\ row \in Version
  /\ row.status = "draft" /\ row.form = versions[v].form
  /\ row.model # None /\ row.rubric \in StorableFor[row.form]
  /\ versions' = [versions EXCEPT ![v] = row] /\ UNCHANGED assignment
Added(form) ==
  /\ Drafts = {} /\ Len(versions) < MaxVersions
  /\ versions' = Append(versions, NewDraft(form)) /\ UNCHANGED assignment
Superseded == WithStatus(versions, In("confirmed", versions), "superseded")
Replaced(v) == WithStatus(Superseded, {v}, "confirmed")
Confirmed(v) ==
  /\ versions[v].status = "draft" /\ versions[v].rubric # None
  /\ versions' = Replaced(v) /\ assignment' = "ready"

(* The fields of a version.                                                *)
LEMMA VersionFields ==
  ASSUME NEW row \in Version
  PROVE  /\ row.status \in {"draft", "confirmed", "superseded"} /\ row.form \in Forms
         /\ row.model \in ModelNames \cup {None} /\ row.rubric \in Rubrics \cup {None}
BY DEF Version

(* WithStatus changes the status of the rows in S and nothing else.        *)
LEMMA StatusWritten ==
  ASSUME NEW rows \in Seq(Version), NEW S,
         NEW st \in {"draft", "confirmed", "superseded"}
  PROVE  /\ WithStatus(rows, S, st) \in Seq(Version)
         /\ Len(WithStatus(rows, S, st)) = Len(rows)
         /\ DOMAIN WithStatus(rows, S, st) = DOMAIN rows
         /\ \A v \in DOMAIN rows :
              /\ v \in S => /\ WithStatus(rows, S, st)[v] = [rows[v] EXCEPT !.status = st]
                            /\ WithStatus(rows, S, st)[v].status = st
              /\ v \notin S => WithStatus(rows, S, st)[v] = rows[v]
              /\ WithStatus(rows, S, st)[v].form = rows[v].form
              /\ WithStatus(rows, S, st)[v].model = rows[v].model
              /\ WithStatus(rows, S, st)[v].rubric = rows[v].rubric
<1>0. Len(rows) \in Nat /\ DOMAIN rows = 1..Len(rows) /\ \A v \in DOMAIN rows : rows[v] \in Version
  OBVIOUS
<1>1. \A row \in Version :
        /\ [row EXCEPT !.status = st] \in Version
        /\ [row EXCEPT !.status = st].status = st
        /\ [row EXCEPT !.status = st].form = row.form
        /\ [row EXCEPT !.status = st].model = row.model
        /\ [row EXCEPT !.status = st].rubric = row.rubric
  BY DEF Version
<1>2. PICK new : new = WithStatus(rows, S, st)
  OBVIOUS
<1>3. /\ DOMAIN new = DOMAIN rows
      /\ \A v \in DOMAIN rows :
           new[v] = IF v \in S THEN [rows[v] EXCEPT !.status = st] ELSE rows[v]
      /\ new = [v \in DOMAIN rows |-> new[v]]
  BY <1>2 DEF WithStatus
<1>4. new \in Seq(Version) /\ Len(new) = Len(rows)
  <2>1. \A v \in 1..Len(rows) : new[v] \in Version
    BY <1>0, <1>1, <1>3
  <2>2. new = [v \in 1..Len(rows) |-> new[v]]
    BY <1>0, <1>3
  <2> QED BY <1>0, <2>1, <2>2
<1> QED BY <1>0, <1>1, <1>2, <1>3, <1>4

(* Numbers of the members of ordered rows.                                 *)
LEMMA RowTypes ==
  ASSUME NEW rows, RowsInv(rows)
  PROVE  /\ Len(rows) \in Nat /\ DOMAIN rows = 1..Len(rows) /\ DOMAIN rows \subseteq Int
         /\ \A v \in DOMAIN rows :
              /\ rows[v] \in Version
              /\ rows[v].status \in {"draft", "confirmed", "superseded"}
              /\ rows[v].form \in Forms /\ rows[v].rubric \in Rubrics \cup {None}
BY VersionFields DEF RowsInv

(* At most one draft and at most one confirmed version.                    *)
LEMMA OneOfEachKept ==
  ASSUME NEW rows, RowsInv(rows)
  PROVE  OneOfEach(rows)
<1>1. ASSUME NEW st \in {"draft", "confirmed"} PROVE Cardinality(In(st, rows)) <= 1
  <2>1. \A v, w \in In(st, rows) : v = w
    <3> SUFFICES ASSUME NEW v \in In(st, rows), NEW w \in In(st, rows), v < w PROVE FALSE
      BY RowTypes DEF In
    <3>1. v \in DOMAIN rows /\ w \in DOMAIN rows /\ rows[v].status = st /\ rows[w].status = st
      BY DEF In
    <3> QED BY <1>1, <3>1 DEF RowsInv, Ordered
  <2>2. CASE In(st, rows) = {}
    BY <2>2, FS_EmptySet
  <2>3. CASE In(st, rows) # {}
    <3>1. PICK v : In(st, rows) = {v}
      BY <2>1, <2>3
    <3> QED BY <3>1, FS_Singleton
  <2> QED BY <2>2, <2>3
<1> QED BY <1>1 DEF OneOfEach

(* The newest version is the only draft.                                   *)
LEMMA DraftIsLast ==
  ASSUME VersionsInv, NEW v \in DOMAIN versions, versions[v].status = "draft"
  PROVE  \A w \in DOMAIN versions : w # v => w < v /\ versions[w].status # "draft"
<1> SUFFICES ASSUME NEW w \in DOMAIN versions, w # v
             PROVE  w < v /\ versions[w].status # "draft"
  OBVIOUS
<1>1. v \in Int /\ w \in Int
  BY RowTypes DEF VersionsInv
<1>2. ~(v < w)
  BY DEF VersionsInv, RowsInv, Ordered
<1>3. w < v
  BY <1>1, <1>2
<1> QED BY <1>3 DEF VersionsInv, RowsInv, Ordered

(* What a confirmation does, flush by flush.                               *)
LEMMA ConfirmationRows ==
  ASSUME VersionsInv, NEW v \in DOMAIN versions, versions[v].status = "draft",
         versions[v].rubric # None
  PROVE  /\ RowsInv(Superseded) /\ DOMAIN Superseded = DOMAIN versions
         /\ RowsInv(Replaced(v)) /\ DOMAIN Replaced(v) = DOMAIN versions
         /\ In("confirmed", Replaced(v)) = {v}
         /\ \A w \in DOMAIN versions \ {v} :
              /\ Replaced(v)[w] = Superseded[w] /\ Superseded[w].status = "superseded"
              /\ Superseded[w] = [versions[w] EXCEPT !.status = "superseded"]
              /\ versions[w].status = "superseded" => Superseded[w] = versions[w]
         /\ Superseded[v] = versions[v]
         /\ Replaced(v)[v] = [versions[v] EXCEPT !.status = "confirmed"]
<1> DEFINE old == Superseded
           new == Replaced(v)
           C == In("confirmed", versions)
<1>0. /\ versions \in Seq(Version) /\ DOMAIN versions \subseteq Int
      /\ Len(versions) \in 1..MaxVersions
      /\ \A w \in DOMAIN versions : /\ versions[w] \in Version
                                    /\ versions[w].status \in {"draft", "confirmed", "superseded"}
      /\ RubricRowsAllowed(versions)
  BY RowTypes DEF VersionsInv, RowsInv
<1>1. \A w \in DOMAIN versions : w # v => w < v /\ versions[w].status # "draft"
  BY DraftIsLast
<1>2. /\ old \in Seq(Version) /\ Len(old) = Len(versions) /\ DOMAIN old = DOMAIN versions
      /\ \A w \in DOMAIN versions :
           /\ w \in C => /\ old[w] = [versions[w] EXCEPT !.status = "superseded"]
                         /\ old[w].status = "superseded"
           /\ w \notin C => old[w] = versions[w]
           /\ old[w].form = versions[w].form /\ old[w].model = versions[w].model
           /\ old[w].rubric = versions[w].rubric
  <2> HIDE DEF C
  <2>1. PICK T : T = WithStatus(versions, C, "superseded")
    OBVIOUS
  <2>2. old = T
    BY <2>1 DEF Superseded, C
  <2> HIDE DEF old
  <2> QED BY <1>0, <2>1, <2>2, StatusWritten
<1>3. /\ new \in Seq(Version) /\ Len(new) = Len(old) /\ DOMAIN new = DOMAIN old
      /\ \A w \in DOMAIN old :
           /\ w \in {v} => /\ new[w] = [old[w] EXCEPT !.status = "confirmed"]
                           /\ new[w].status = "confirmed"
           /\ w \notin {v} => new[w] = old[w]
           /\ new[w].form = old[w].form /\ new[w].model = old[w].model
           /\ new[w].rubric = old[w].rubric
  <2>1. PICK T : T = WithStatus(Superseded, {v}, "confirmed")
    OBVIOUS
  <2>2. new = T
    BY <2>1 DEF Replaced
  <2> HIDE DEF new
  <2> QED BY <1>2, <2>1, <2>2, StatusWritten
<1>4. \A w \in DOMAIN versions : w \in C <=> versions[w].status = "confirmed"
  BY DEF In
<1> HIDE DEF old, new, C
<1>5. old[v] = versions[v] /\ v \notin C
  BY <1>2, <1>4
<1>6. ASSUME NEW w \in DOMAIN versions \ {v}
      PROVE  /\ new[w] = old[w] /\ old[w].status = "superseded"
             /\ old[w] = [versions[w] EXCEPT !.status = "superseded"]
             /\ versions[w].status = "superseded" => old[w] = versions[w]
  <2>1. new[w] = old[w]
    BY <1>2, <1>3
  <2>2. CASE w \in C
    BY <1>2, <1>4, <2>1, <2>2
  <2>3. CASE w \notin C
    <3>1. versions[w].status = "superseded" /\ old[w] = versions[w]
      BY <1>0, <1>1, <1>2, <1>4, <2>3
    <3>2. versions[w] = [versions[w] EXCEPT !.status = "superseded"]
      BY <1>0, <3>1 DEF Version
    <3> QED BY <2>1, <3>1, <3>2
  <2> QED BY <2>2, <2>3
<1>7. Ordered(old) /\ Ordered(new)
  <2>1. \A w, x \in DOMAIN versions : w < x => w # v
    BY <1>0, <1>1
  <2>2. old[v].status = "draft" /\ new[v].status = "confirmed"
    BY <1>2, <1>3, <1>5
  <2>3. \A w, x \in DOMAIN versions : w < x =>
          /\ old[w].status = "superseded" /\ new[w].status = "superseded"
          /\ old[x].status \in {"superseded", "draft"}
          /\ new[x].status \in {"superseded", "confirmed"}
    <3> SUFFICES ASSUME NEW w \in DOMAIN versions, NEW x \in DOMAIN versions, w < x
                 PROVE  /\ old[w].status = "superseded" /\ new[w].status = "superseded"
                        /\ old[x].status \in {"superseded", "draft"}
                        /\ new[x].status \in {"superseded", "confirmed"}
      OBVIOUS
    <3>1. w # v
      BY <2>1
    <3>2. old[w].status = "superseded" /\ new[w].status = "superseded"
      BY <1>6, <3>1
    <3>3. CASE x = v
      BY <2>2, <3>2, <3>3
    <3>4. CASE x # v
      BY <1>6, <3>2, <3>4
    <3> QED BY <3>3, <3>4
  <2> QED BY <1>2, <1>3, <2>3 DEF Ordered
<1>8. RubricRowsAllowed(old) /\ RubricRowsAllowed(new)
  <2>1. \A w \in DOMAIN versions : old[w].status # "draft" => versions[w].status # "draft"
    BY <1>5, <1>6, <1>1
  <2>2. RubricRowsAllowed(old)
    BY <1>0, <1>2, <2>1 DEF RubricRowsAllowed
  <2>3. \A w \in DOMAIN old : new[w].status # "draft" => old[w].status # "draft" \/ w = v
    BY <1>3
  <2>4. old[v].rubric # None
    BY <1>5
  <2> QED BY <1>3, <2>2, <2>3, <2>4 DEF RubricRowsAllowed
<1>9. In("confirmed", new) = {v}
  <2>1. \A w \in DOMAIN new : new[w].status = "confirmed" <=> w = v
    <3> SUFFICES ASSUME NEW w \in DOMAIN new PROVE new[w].status = "confirmed" <=> w = v
      OBVIOUS
    <3>1. CASE w = v
      BY <1>2, <1>3, <3>1
    <3>2. CASE w # v
      <4>1. w \in DOMAIN versions \ {v}
        BY <1>2, <1>3, <3>2
      <4>2. new[w].status = "superseded"
        BY <1>6, <4>1
      <4> QED BY <3>2, <4>2
    <3> QED BY <3>1, <3>2
  <2> QED BY <1>2, <1>3, <2>1 DEF In
<1>10. RowsInv(old) /\ RowsInv(new)
  BY <1>0, <1>2, <1>3, <1>7, <1>8 DEF RowsInv
<1>11. new[v] = [versions[v] EXCEPT !.status = "confirmed"]
  BY <1>2, <1>3, <1>5
<1> QED BY <1>2, <1>3, <1>5, <1>6, <1>9, <1>10, <1>11 DEF old, new

(* A draft is written.                                                     *)
LEMMA SavedRows ==
  ASSUME VersionsInv, NEW v \in DOMAIN versions, NEW row, Saved(v, row)
  PROVE  /\ RowsInv(versions') /\ DOMAIN versions' = DOMAIN versions
         /\ \A w \in DOMAIN versions : versions'[w].status = versions[w].status
         /\ \A w \in DOMAIN versions \ {v} : versions'[w] = versions[w]
         /\ In("confirmed", versions') = In("confirmed", versions)
<1>1. /\ versions \in Seq(Version) /\ Len(versions) \in 1..MaxVersions
      /\ row \in Version /\ row.status = "draft" /\ versions[v].status = "draft"
      /\ versions' = [versions EXCEPT ![v] = row]
      /\ row.model # None /\ row.rubric \in StorableFor[row.form]
  BY DEF VersionsInv, RowsInv, Saved
<1>2. /\ versions' \in Seq(Version) /\ Len(versions') = Len(versions)
      /\ DOMAIN versions' = DOMAIN versions /\ versions'[v] = row
      /\ \A w \in DOMAIN versions \ {v} : versions'[w] = versions[w]
  BY <1>1
<1>3. \A w \in DOMAIN versions : versions'[w].status = versions[w].status
  BY <1>1, <1>2
<1>4. Ordered(versions')
  BY <1>2, <1>3 DEF VersionsInv, RowsInv, Ordered
<1>5. RubricRowsAllowed(versions')
  <2>1. RubricRowsAllowed(versions)
    BY DEF VersionsInv, RowsInv
  <2> QED BY <1>1, <1>2, <2>1 DEF RubricRowsAllowed
<1> QED BY <1>1, <1>2, <1>3, <1>4, <1>5 DEF RowsInv, In

(* A draft is added.                                                       *)
LEMMA AddedRows ==
  ASSUME VersionsInv, NEW form \in Forms, Added(form)
  PROVE  /\ RowsInv(versions') /\ DOMAIN versions \subseteq DOMAIN versions'
         /\ \A w \in DOMAIN versions : versions'[w] = versions[w]
         /\ In("confirmed", versions') = In("confirmed", versions)
<1>1. PICK n : n = NewDraft(form)
  OBVIOUS
<1>2. n \in Version /\ n.status = "draft" /\ n.rubric = None
  <2>1. n = [status |-> "draft", form |-> form, model |-> None, rubric |-> None]
    BY <1>1 DEF NewDraft
  <2> QED BY <2>1 DEF Version
<1>3. /\ versions \in Seq(Version) /\ Len(versions) \in 1..MaxVersions
      /\ Len(versions) < MaxVersions /\ versions' = Append(versions, n)
      /\ MaxVersions \in Nat
      /\ \A w \in DOMAIN versions : versions[w].status # "draft"
  BY <1>1, DeskAssumption DEF VersionsInv, RowsInv, Added, Drafts, In
<1>4. /\ versions' \in Seq(Version) /\ Len(versions') = Len(versions) + 1
      /\ DOMAIN versions = 1..Len(versions) /\ DOMAIN versions' = 1..(Len(versions) + 1)
      /\ \A w \in DOMAIN versions : versions'[w] = versions[w]
      /\ versions'[Len(versions) + 1] = n /\ Len(versions) \in Nat
  BY <1>2, <1>3
<1>5. Ordered(versions')
  <2> SUFFICES ASSUME NEW v \in DOMAIN versions', NEW w \in DOMAIN versions', v < w
               PROVE  <<versions'[v].status, versions'[w].status>> \in
                        {"superseded"} \X {"superseded", "confirmed", "draft"}
                        \cup {<<"confirmed", "draft">>}
    BY DEF Ordered
  <2>1. v \in DOMAIN versions /\ versions'[v] = versions[v]
    BY <1>4
  <2>2. CASE w \in DOMAIN versions
    BY <1>4, <2>1, <2>2 DEF VersionsInv, RowsInv, Ordered
  <2>3. CASE w \notin DOMAIN versions
    <3>1. versions'[w] = n
      BY <1>4, <2>3
    <3>2. versions[v].status \in {"confirmed", "superseded"}
      BY <1>3, <2>1, RowTypes DEF VersionsInv
    <3> QED BY <1>2, <2>1, <3>1, <3>2
  <2> QED BY <2>2, <2>3
<1>6. RubricRowsAllowed(versions')
  <2>1. RubricRowsAllowed(versions)
    BY DEF VersionsInv, RowsInv
  <2> QED BY <1>2, <1>4, <2>1 DEF RubricRowsAllowed
<1>7. In("confirmed", versions') = In("confirmed", versions)
  BY <1>2, <1>4 DEF In
<1> QED BY <1>3, <1>4, <1>5, <1>6, <1>7 DEF RowsInv

(* Every step changes the versions in one of the four ways.                *)
LEMMA VersionSteps ==
  ASSUME DeskInv, [DeskNext]_deskVars
  PROVE  \/ Kept
         \/ \E v \in DOMAIN versions : \E row : Saved(v, row)
         \/ \E form \in Forms : Added(form)
         \/ \E v \in DOMAIN versions : Confirmed(v)
<1>0. /\ assignment \in {"draft", "ready", "archived"}
      /\ assignment = "ready" => In("confirmed", versions) # {}
      /\ \A v \in DOMAIN versions : versions[v] \in Version /\ versions[v].form \in Forms
  BY RowTypes DEF DeskInv, VersionsInv
<1>1. CASE UNCHANGED <<assignment, versions>>
  BY <1>0, <1>1 DEF Kept
<1>2. CASE Archive \/ Restore
  BY <1>2 DEF Archive, Restore, Kept
<1>3. ASSUME NEW form \in Forms, CreateRubricDraft(form) PROVE Added(form)
  BY <1>3 DEF CreateRubricDraft, Added
<1>4. ASSUME NEW d \in Desks, NEW a \in Completions, SaveGenerated(d, a)
      PROVE  \E v \in DOMAIN versions : \E row : Saved(v, row)
  <2>1. PICK v : v = desk[d].version
    OBVIOUS
  <2>2. PICK model : model = desk[d].connection.default
    OBVIOUS
  <2>3. /\ desk[d].pc = "generating" /\ a.rubric \in StorableFor[versions[v].form]
        /\ versions[v].status = "draft" /\ UNCHANGED assignment
        /\ versions' = [versions EXCEPT ![v].model = model, ![v].rubric = a.rubric]
    BY <1>4, <2>1, <2>2 DEF SaveGenerated, Writable
  <2>4. v \in DOMAIN versions /\ model \in ModelNames /\ model # None
    BY <2>1, <2>2, <2>3 DEF DeskInv, RequestInv, Holding, Fresh, ModelNames
  <2>5. a.rubric \in Rubrics
    BY DeskAssumption
  <2>6. PICK row : row = [versions[v] EXCEPT !.model = model, !.rubric = a.rubric]
    OBVIOUS
  <2>7. /\ row \in Version /\ row.status = "draft" /\ row.form = versions[v].form
        /\ row.model = model /\ row.rubric = a.rubric
    BY <1>0, <2>3, <2>4, <2>5, <2>6 DEF Version
  <2>8. versions' = [versions EXCEPT ![v] = row]
    <3>1. versions \in Seq(Version)
      BY DEF DeskInv, VersionsInv, RowsInv
    <3> QED BY <2>3, <2>4, <2>6, <3>1
  <2> QED BY <2>3, <2>4, <2>7, <2>8 DEF Saved
<1>5. ASSUME NEW d \in Desks, SaveEdited(d)
      PROVE  \E v \in DOMAIN versions : \E row : Saved(v, row)
  <2>1. PICK v : v = desk[d].version
    OBVIOUS
  <2>2. PICK r : r = desk[d].rubric
    OBVIOUS
  <2>3. /\ desk[d].pc = "editing" /\ r \in StorableFor[versions[v].form]
        /\ versions[v].status = "draft" /\ versions[v].model # None
        /\ versions' = [versions EXCEPT ![v].rubric = r] /\ UNCHANGED assignment
    BY <1>5, <2>1, <2>2 DEF SaveEdited, Writable
  <2>4. v \in DOMAIN versions
    BY <2>1, <2>3 DEF DeskInv, RequestInv, Holding
  <2>5. r \in Rubrics
    BY <1>0, <2>3, <2>4, StoredForForms
  <2>6. PICK row : row = [versions[v] EXCEPT !.rubric = r]
    OBVIOUS
  <2>7. /\ row \in Version /\ row.status = "draft" /\ row.form = versions[v].form
        /\ row.model = versions[v].model /\ row.rubric = r
    BY <1>0, <2>3, <2>4, <2>5, <2>6 DEF Version
  <2>8. versions' = [versions EXCEPT ![v] = row]
    BY <2>3, <2>6
  <2> QED BY <2>3, <2>4, <2>7, <2>8 DEF Saved
<1>6. ASSUME NEW d \in Desks, ConfirmRubric(d)
      PROVE  \E v \in DOMAIN versions : Confirmed(v)
  <2>1. PICK v : v = desk[d].version
    OBVIOUS
  <2>2. /\ desk[d].pc = "confirming" /\ versions[v].status = "draft"
        /\ versions[v].rubric # None
        /\ assignment' = Last(ConfirmSteps(v))[1] /\ versions' = Last(ConfirmSteps(v))[2]
    BY <1>6, <2>1 DEF ConfirmRubric, Writable
  <2>3. v \in DOMAIN versions
    BY <2>1, <2>2 DEF DeskInv, RequestInv, Holding
  <2>4. Last(ConfirmSteps(v)) = <<"ready", Replaced(v)>>
    BY DEF Last, ConfirmSteps, Replaced, Superseded
  <2> QED BY <2>2, <2>3, <2>4 DEF Confirmed
<1>7. UNCHANGED <<assignment, versions>> \/ Archive \/ Restore
      \/ (\E form \in Forms : CreateRubricDraft(form))
      \/ \E d \in Desks : \/ \E a \in Completions : SaveGenerated(d, a)
                          \/ SaveEdited(d) \/ ConfirmRubric(d)
  BY DEF DeskNext, DeskStep, deskVars, ReadForUpdate, UpdateProvider, ReadForTest,
         MarkTested, ReadForGeneration, ReadForConfirm, ReadForEdit, RequestFails,
         EnableProvider, DisableProvider
<1> QED BY <1>1, <1>2, <1>3, <1>4, <1>5, <1>6, <1>7

(* So the versions stay in order.                                          *)
LEMMA VersionsStay ==
  ASSUME DeskInv, [DeskNext]_deskVars
  PROVE  VersionsInv' /\ DOMAIN versions \subseteq DOMAIN versions'
<1>0. VersionsInv
  BY DEF DeskInv
<1>1. CASE Kept
  <2>1. In("confirmed", versions') = In("confirmed", versions)
    BY <1>1 DEF Kept
  <2> QED BY <1>0, <1>1, <2>1 DEF Kept, VersionsInv, RowsInv, Ordered, RubricRowsAllowed
<1>2. ASSUME NEW v \in DOMAIN versions, NEW row, Saved(v, row)
      PROVE  VersionsInv' /\ DOMAIN versions \subseteq DOMAIN versions'
  <2>1. /\ RowsInv(versions') /\ DOMAIN versions' = DOMAIN versions
        /\ In("confirmed", versions') = In("confirmed", versions)
    BY <1>0, <1>2, SavedRows
  <2>2. UNCHANGED assignment
    BY <1>2 DEF Saved
  <2> QED BY <1>0, <2>1, <2>2 DEF VersionsInv
<1>3. ASSUME NEW form \in Forms, Added(form)
      PROVE  VersionsInv' /\ DOMAIN versions \subseteq DOMAIN versions'
  <2>1. /\ RowsInv(versions') /\ DOMAIN versions \subseteq DOMAIN versions'
        /\ In("confirmed", versions') = In("confirmed", versions)
    BY <1>0, <1>3, AddedRows
  <2>2. UNCHANGED assignment
    BY <1>3 DEF Added
  <2> QED BY <1>0, <2>1, <2>2 DEF VersionsInv
<1>4. ASSUME NEW v \in DOMAIN versions, Confirmed(v)
      PROVE  VersionsInv' /\ DOMAIN versions \subseteq DOMAIN versions'
  <2>1. /\ versions[v].status = "draft" /\ versions[v].rubric # None
        /\ versions' = Replaced(v) /\ assignment' = "ready"
    BY <1>4 DEF Confirmed
  <2>2. /\ RowsInv(Replaced(v)) /\ DOMAIN Replaced(v) = DOMAIN versions
        /\ In("confirmed", Replaced(v)) = {v}
    BY <1>0, <2>1, ConfirmationRows
  <2>3. RowsInv(versions') /\ In("confirmed", versions') = {v}
    BY <2>1, <2>2
  <2> QED BY <2>1, <2>2, <2>3 DEF VersionsInv
<1> QED BY <1>1, <1>2, <1>3, <1>4, VersionSteps

(* The provider, the requests and the versions together.                   *)
LEMMA DeskInvHolds == DeskSpec => []DeskInv
<1>1. DeskInit => DeskInv
  <2> SUFFICES ASSUME DeskInit PROVE DeskInv
    OBVIOUS
  <2>1. PICK c \in Created : NewProvider(c)
    BY DEF DeskInit
  <2>2. PICK form \in Forms : NewAssignment(form)
    BY DEF DeskInit
  <2>3. ProviderInv
    <3>1. /\ provider = [status |-> "draft", config |-> 1, tested |-> 0, connection |-> c]
          /\ c.default \in c.allowed /\ answered = {}
      BY <2>1 DEF NewProvider, validate_settings, DeskInit
    <3>2. DOMAIN c = SettingFields /\ c.default \in ModelNames
      BY SettingsAssumption
    <3>3. 1 \in 1..MaxConfig /\ 0 \in 0..MaxConfig
      BY DeskAssumption
    <3>4. /\ provider.connection = c /\ provider.status = "draft"
          /\ provider.tested = 0 /\ provider.config = 1
      BY <3>1
    <3>5. provider \in [status : {"draft", "enabled", "disabled"},
                        config : 1..MaxConfig, tested : 0..MaxConfig,
                        connection : {provider.connection}]
      BY <3>1, <3>3, <3>4
    <3> QED BY <3>1, <3>2, <3>4, <3>5 DEF ProviderInv, Tested
  <2>4. RequestInv
    BY DEF DeskInit, RequestInv, Holding, Free
  <2>5. VersionsInv
    <3>1. PICK n : n = NewDraft(form)
      OBVIOUS
    <3>2. n \in Version /\ n.status = "draft" /\ n.rubric = None
      <4>1. n = [status |-> "draft", form |-> form, model |-> None, rubric |-> None]
        BY <3>1 DEF NewDraft
      <4> QED BY <4>1 DEF Version
    <3>3. assignment = "draft" /\ versions = <<n>>
      BY <2>2, <3>1 DEF NewAssignment
    <3>4. /\ versions \in Seq(Version) /\ Len(versions) = 1 /\ DOMAIN versions = {1}
          /\ versions[1] = n
      BY <3>2, <3>3
    <3>5. 1 \in 1..MaxVersions
      BY DeskAssumption
    <3>6. Ordered(versions)
      BY <3>4 DEF Ordered
    <3>7. RubricRowsAllowed(versions)
      BY <3>2, <3>4 DEF RubricRowsAllowed
    <3> QED BY <3>3, <3>4, <3>5, <3>6, <3>7 DEF VersionsInv, RowsInv
  <2> QED BY <2>3, <2>4, <2>5 DEF DeskInv
<1>2. DeskInv /\ [DeskNext]_deskVars => DeskInv'
  <2> SUFFICES ASSUME DeskInv, [DeskNext]_deskVars PROVE ProviderInv' /\ RequestInv'
    BY VersionsStay DEF DeskInv
  <2>0. ProviderInv /\ RequestInv /\ DOMAIN versions \subseteq DOMAIN versions'
    BY VersionsStay DEF DeskInv
  <2>1. CASE UNCHANGED <<provider, desk, answered>>
    BY <2>0, <2>1, ProviderStays, RequestsStay
  <2>2. ASSUME NEW d \in Desks, UNCHANGED <<provider, answered>>,
               desk' = [desk EXCEPT ![d] = Free]
        PROVE  ProviderInv' /\ RequestInv'
    <3>1. ProviderInv'
      BY <2>0, <2>2, ProviderStays
    <3>2. RequestInv'
      BY <2>0, <2>2, RequestGoes
    <3> QED BY <3>1, <3>2
  <2>3. ASSUME NEW d \in Desks,
               \/ \E patch \in Patches : ReadForUpdate(d, patch)
               \/ ReadForTest(d)
               \/ \E v \in DOMAIN versions : \/ ReadForGeneration(d, v) \/ ReadForConfirm(d, v)
                                              \/ \E r \in Rubrics : ReadForEdit(d, v, r)
        PROVE  ProviderInv' /\ RequestInv'
    <3>1. RequestInv' /\ UNCHANGED <<provider, answered>>
      BY <2>0, <2>3, ReadsHold
    <3> QED BY <2>0, <3>1, ProviderStays
  <2>4. CASE \/ EnableProvider \/ DisableProvider
             \/ \E d \in Desks : UpdateProvider(d) \/ \E a \in ModelLists : MarkTested(d, a)
    BY <2>0, <2>4, ProviderSteps
  <2>5. ASSUME NEW d \in Desks,
               \/ \E a \in Completions : SaveGenerated(d, a)
               \/ SaveEdited(d) \/ ConfirmRubric(d) \/ RequestFails(d)
        PROVE  ProviderInv' /\ RequestInv'
    <3>1. UNCHANGED <<provider, answered>> /\ desk' = [desk EXCEPT ![d] = Free]
      BY <2>5 DEF SaveGenerated, SaveEdited, ConfirmRubric, RequestFails
    <3> QED BY <2>2, <3>1
  <2>6. CASE Archive \/ Restore \/ \E form \in Forms : CreateRubricDraft(form)
    BY <2>1, <2>6 DEF Archive, Restore, CreateRubricDraft
  <2>7. CASE UNCHANGED deskVars
    BY <2>1, <2>7 DEF deskVars
  <2>8. ASSUME NEW d \in Desks, DeskStep(d) PROVE ProviderInv' /\ RequestInv'
    BY <2>3, <2>4, <2>5, <2>8 DEF DeskStep
  <2> QED BY <2>4, <2>6, <2>7, <2>8 DEF DeskNext
<1> QED BY <1>1, <1>2, PTL DEF DeskSpec

-----------------------------------------------------------------------------
(* What the desk guarantees                                                *)

(* Every variable keeps its type.                                          *)
THEOREM DeskTypesHold == DeskSpec => []DeskTypeOK
<1>1. DeskInv => DeskTypeOK
  <2> SUFFICES ASSUME DeskInv PROVE DeskTypeOK
    OBVIOUS
  <2>1. /\ provider.config \in 1..MaxConfig /\ Free.pc = "free"
        /\ MaxConfig \in Nat /\ MaxVersions \in Nat
    BY DeskAssumption DEF DeskInv, ProviderInv, Free
  <2>2. /\ Len(versions) \in 1..MaxVersions /\ DOMAIN versions \subseteq 1..MaxVersions
        /\ \A v \in DOMAIN versions : versions[v] \in Version
    BY <2>1, RowTypes DEF DeskInv, VersionsInv, RowsInv
  <2>3. ASSUME NEW d \in Desks
        PROVE  \/ desk[d] = Free
               \/ /\ desk[d].pc \in {"testing", "updating", "generating"}
                  /\ desk[d].config \in 1..MaxConfig
                  /\ DOMAIN desk[d].connection = SettingFields
               \/ desk[d].pc \in {"editing", "confirming"} /\ desk[d].version \in 1..MaxVersions
    BY <2>1, <2>2 DEF DeskInv, RequestInv, Holding, Fresh
  <2> QED BY <2>2, <2>3 DEF DeskInv, ProviderInv, VersionsInv, DeskTypeOK
<1> QED BY <1>1, DeskInvHolds, PTL

(* An enabled provider was tested with the connection it has.              *)
THEOREM EnabledWasTested == DeskSpec => []EnabledAsTested
<1>1. DeskInv => EnabledAsTested
  BY DEF DeskInv, ProviderInv, EnabledAsTested
<1> QED BY <1>1, DeskInvHolds, PTL

(* A ready assignment has a confirmed rubric and never two, with at most   *)
(* one draft beside it, which is newer.                                    *)
THEOREM OneInForce == DeskSpec => []OneRubricInForce
<1>1. DeskInv => OneRubricInForce
  BY DEF DeskInv, VersionsInv, RowsInv, Ordered, OneRubricInForce
<1> QED BY <1>1, DeskInvHolds, PTL

(* Every rubric a version stores can be graded by.                         *)
THEOREM StoredIsGradable == DeskSpec => []StoredRubricsAreGradable
<1>1. DeskInv => StoredRubricsAreGradable
  <2> SUFFICES ASSUME DeskInv, NEW v \in DOMAIN versions, versions[v].rubric # None
               PROVE  Gradable(Content(versions[v].rubric), versions[v].form)
    BY DEF StoredRubricsAreGradable
  <2>1. versions[v].rubric \in StorableFor[versions[v].form]
    BY DEF DeskInv, VersionsInv, RowsInv, RubricRowsAllowed
  <2>2. versions[v].form \in Forms
    BY RowTypes DEF DeskInv, VersionsInv
  <2> QED BY <2>1, <2>2, StoredForForms
<1> QED BY <1>1, DeskInvHolds, PTL

(* A version that was confirmed keeps its content, whatever generation,    *)
(* edit or confirmation was under way.                                     *)
THEOREM ConfirmedStays == DeskSpec => ConfirmedRubricIsFinal
<1>1. ASSUME DeskInv, [DeskNext]_deskVars,
             NEW w \in DOMAIN versions, versions[w].status # "draft"
      PROVE  /\ versions'[w].status # "draft"
             /\ [versions'[w] EXCEPT !.status = versions[w].status] = versions[w]
  <2>0. VersionsInv /\ versions[w] \in Version
    BY <1>1, RowTypes DEF DeskInv, VersionsInv
  <2>1. ASSUME versions'[w] = versions[w]
        PROVE  /\ versions'[w].status # "draft"
               /\ [versions'[w] EXCEPT !.status = versions[w].status] = versions[w]
    BY <1>1, <2>0, <2>1 DEF Version
  <2>2. CASE Kept
    BY <2>1, <2>2 DEF Kept
  <2>3. ASSUME NEW v \in DOMAIN versions, NEW row, Saved(v, row)
        PROVE  versions'[w] = versions[w]
    <3>1. w # v
      BY <1>1, <2>3 DEF Saved
    <3> QED BY <2>0, <2>3, <3>1, SavedRows
  <2>4. ASSUME NEW form \in Forms, Added(form) PROVE versions'[w] = versions[w]
    BY <2>0, <2>4, AddedRows
  <2>5. ASSUME NEW v \in DOMAIN versions, Confirmed(v)
        PROVE  /\ versions'[w].status # "draft"
               /\ [versions'[w] EXCEPT !.status = versions[w].status] = versions[w]
    <3>1. /\ w # v /\ versions' = Replaced(v) /\ versions[v].status = "draft"
          /\ versions[v].rubric # None
      BY <1>1, <2>5 DEF Confirmed
    <3>2. w \in DOMAIN versions \ {v}
      BY <3>1
    <3>3. Replaced(v)[w] = [versions[w] EXCEPT !.status = "superseded"]
      BY <2>0, <3>1, <3>2, ConfirmationRows
    <3> QED BY <2>0, <3>1, <3>3 DEF Version
  <2> QED BY <1>1, <2>1, <2>2, <2>3, <2>4, <2>5, VersionSteps
<1>2. DeskInv /\ [DeskNext]_deskVars =>
        [\A v \in DOMAIN versions : versions[v].status # "draft" =>
           /\ versions'[v].status # "draft"
           /\ [versions'[v] EXCEPT !.status = versions[v].status] = versions[v]]_deskVars
  BY <1>1
<1> QED BY <1>2, DeskInvHolds, PTL DEF DeskSpec, ConfirmedRubricIsFinal

(* A request that holds a read and has nothing afterwards was answered:    *)
(* no other step ends it.                                                  *)
LEMMA WhoEnds ==
  ASSUME DeskInv, [DeskNext]_deskVars, NEW d \in Desks, desk[d] # Free, desk'[d] = Free
  PROVE  \/ UpdateProvider(d) \/ \E a \in ModelLists : MarkTested(d, a)
         \/ \E a \in Completions : SaveGenerated(d, a)
         \/ SaveEdited(d) \/ ConfirmRubric(d) \/ RequestFails(d)
<1>0. desk = [e \in Desks |-> desk[e]]
  BY DEF DeskInv, RequestInv
<1>1. desk' # desk
  BY <1>0
<1>2. PICK e \in Desks : DeskStep(e) \/ UpdateProvider(e)
  BY <1>1 DEF DeskNext, deskVars, EnableProvider, DisableProvider, Archive, Restore,
              CreateRubricDraft
<1>3. ASSUME \/ \E patch \in Patches : ReadForUpdate(e, patch)
             \/ ReadForTest(e)
             \/ \E v \in DOMAIN versions : \/ ReadForGeneration(e, v) \/ ReadForConfirm(e, v)
                                            \/ \E r \in Rubrics : ReadForEdit(e, v, r)
      PROVE  FALSE
  <2>1. desk'[e] # Free /\ \A f \in Desks \ {e} : desk'[f] = desk[f]
    BY <1>3, ReadsHold DEF DeskInv
  <2> QED BY <2>1
<1>4. \/ UpdateProvider(e) \/ \E a \in ModelLists : MarkTested(e, a)
      \/ \E a \in Completions : SaveGenerated(e, a)
      \/ SaveEdited(e) \/ ConfirmRubric(e) \/ RequestFails(e)
  BY <1>2, <1>3 DEF DeskStep
<1>5. desk' = [desk EXCEPT ![e] = Free]
  BY <1>4 DEF UpdateProvider, MarkTested, SaveGenerated, SaveEdited, ConfirmRubric,
              RequestFails
<1>6. e = d
  BY <1>0, <1>5
<1> QED BY <1>4, <1>6

(* Nothing is written from a read that is no longer true: an update keeps  *)
(* the fields it was not sent, and a generated rubric is stored only while *)
(* the provider is enabled with the connection that made it.               *)
THEOREM StaleReadsRefused == DeskSpec => StaleReadsAreNotWritten
<1>1. ASSUME DeskInv, [DeskNext]_deskVars, NEW d \in Desks, desk'[d] = Free
      PROVE  /\ desk[d].pc = "updating" /\ provider' # provider =>
                  \A f \in SettingFields \ desk[d].patch :
                    provider'.connection[f] = provider.connection[f]
             /\ desk[d].pc = "generating" /\ versions' # versions =>
                  provider.status = "enabled" /\ provider.connection = desk[d].connection
  <2>0. Free.pc = "free" /\ Holding(desk[d])
    BY <1>1 DEF Free, DeskInv, RequestInv
  <2>1. ASSUME desk[d].pc = "updating", provider' # provider,
               NEW f \in SettingFields \ desk[d].patch
        PROVE  provider'.connection[f] = provider.connection[f]
    <3>1. \/ UpdateProvider(d) \/ \E a \in ModelLists : MarkTested(d, a)
          \/ \E a \in Completions : SaveGenerated(d, a)
          \/ SaveEdited(d) \/ ConfirmRubric(d) \/ RequestFails(d)
      BY <1>1, <2>0, <2>1, WhoEnds
    <3>2. UpdateProvider(d)
      BY <2>1, <3>1 DEF MarkTested, SaveGenerated, SaveEdited, ConfirmRubric, RequestFails
    <3>3. /\ provider.config = desk[d].config
          /\ provider' = Invalidated(provider, desk[d].connection)
      BY <3>2 DEF UpdateProvider, UnchangedSinceRead
    <3>4. desk[d].connection[f] = provider.connection[f]
      BY <2>0, <2>1, <3>3 DEF Holding, Fresh
    <3>5. provider'.connection = desk[d].connection
      BY <2>1, <3>3 DEF Invalidated
    <3> QED BY <3>4, <3>5
  <2>2. ASSUME desk[d].pc = "generating", versions' # versions
        PROVE  provider.status = "enabled" /\ provider.connection = desk[d].connection
    <3>1. \/ UpdateProvider(d) \/ \E a \in ModelLists : MarkTested(d, a)
          \/ \E a \in Completions : SaveGenerated(d, a)
          \/ SaveEdited(d) \/ ConfirmRubric(d) \/ RequestFails(d)
      BY <1>1, <2>0, <2>2, WhoEnds
    <3>2. \E a \in Completions : SaveGenerated(d, a)
      BY <2>2, <3>1 DEF UpdateProvider, MarkTested, SaveEdited, ConfirmRubric, RequestFails
    <3>3. provider.status = "enabled" /\ provider.config = desk[d].config
      BY <3>2 DEF SaveGenerated, SameProvider, Usable
    <3> QED BY <2>0, <2>2, <3>3 DEF Holding, Fresh
  <2> QED BY <2>1, <2>2
<1>2. DeskInv /\ [DeskNext]_deskVars =>
        [\A d \in Desks : desk'[d] = Free =>
           /\ desk[d].pc = "updating" /\ provider' # provider =>
                \A f \in SettingFields \ desk[d].patch :
                  provider'.connection[f] = provider.connection[f]
           /\ desk[d].pc = "generating" /\ versions' # versions =>
                provider.status = "enabled" /\ provider.connection = desk[d].connection
        ]_deskVars
  BY <1>1
<1> QED BY <1>2, DeskInvHolds, PTL DEF DeskSpec, StaleReadsAreNotWritten

(* The history trigger lets a row pass that is the same or stays a draft.  *)
LEMMA HistoryKept ==
  ASSUME NEW old, NEW new, NEW st,
         old.status \in {"draft", "confirmed", "superseded"},
         new = old \/ (old.status = "draft" /\ new.status \in {"draft", "confirmed"})
  PROVE  HistoryTriggerAccepts(old, new, st)
BY DEF HistoryTriggerAccepts

(* Each flush of a confirmation passes.                                    *)
LEMMA FlushesPass ==
  ASSUME VersionsInv, NEW v \in DOMAIN versions, versions[v].status = "draft",
         versions[v].rubric # None, NEW n \in 1..(Len(ConfirmSteps(v)) - 1)
  PROVE  FlushAccepted(ConfirmSteps(v)[n], ConfirmSteps(v)[n + 1])
<1> DEFINE old == Superseded
           new == Replaced(v)
<1>1. ConfirmSteps(v) = << <<assignment, versions>>, <<"draft", versions>>, <<"draft", old>>,
                           <<"draft", new>>, <<"ready", new>> >>
  BY DEF ConfirmSteps, Superseded, Replaced
<1>2. /\ RowsInv(old) /\ DOMAIN old = DOMAIN versions
      /\ RowsInv(new) /\ DOMAIN new = DOMAIN versions /\ In("confirmed", new) = {v}
      /\ \A w \in DOMAIN versions \ {v} :
           /\ new[w] = old[w] /\ old[w].status = "superseded"
           /\ old[w] = [versions[w] EXCEPT !.status = "superseded"]
           /\ versions[w].status = "superseded" => old[w] = versions[w]
      /\ old[v] = versions[v]
      /\ new[v] = [versions[v] EXCEPT !.status = "confirmed"]
  BY ConfirmationRows
<1> HIDE DEF old, new
<1>3. RowsInv(versions)
  BY DEF VersionsInv
<1>4. /\ OneOfEach(versions) /\ OneOfEach(old) /\ OneOfEach(new)
      /\ RubricRowsAllowed(versions) /\ RubricRowsAllowed(old) /\ RubricRowsAllowed(new)
  BY <1>2, <1>3, OneOfEachKept DEF RowsInv
<1>5. \A w \in DOMAIN versions : /\ versions[w] \in Version
                                 /\ versions[w].status \in {"draft", "confirmed", "superseded"}
                                 /\ old[w].status \in {"draft", "confirmed", "superseded"}
                                 /\ new[w].status \in {"draft", "confirmed", "superseded"}
  BY <1>2, <1>3, RowTypes
<1>6. \A w \in DOMAIN versions : versions[w].status = "draft" => w = v
  BY DraftIsLast
<1>7. CASE n = 1
  <2>1. \A w \in DOMAIN versions : HistoryTriggerAccepts(versions[w], versions[w], assignment)
    BY <1>5, HistoryKept
  <2>2. FlushAccepted(<<assignment, versions>>, <<"draft", versions>>)
    BY <1>4, <2>1 DEF FlushAccepted, ReadyTriggerAccepts
  <2> QED BY <1>1, <1>7, <2>2
<1>8. CASE n = 2
  <2>1. ASSUME NEW w \in DOMAIN versions
        PROVE  HistoryTriggerAccepts(versions[w], old[w], "draft")
    <3>1. CASE w = v
      BY <1>2, <1>5, <3>1, HistoryKept
    <3>2. CASE w # v
      <4>1. w \in DOMAIN versions \ {v} /\ versions[w].status \in {"confirmed", "superseded"}
        BY <1>5, <1>6, <3>2
      <4>2. /\ old[w] = [versions[w] EXCEPT !.status = "superseded"]
            /\ versions[w].status = "superseded" => old[w] = versions[w]
        BY <1>2, <4>1
      <4> QED BY <4>1, <4>2 DEF HistoryTriggerAccepts
    <3> QED BY <3>1, <3>2
  <2>2. FlushAccepted(<<"draft", versions>>, <<"draft", old>>)
    BY <1>4, <2>1 DEF FlushAccepted, ReadyTriggerAccepts
  <2> QED BY <1>1, <1>8, <2>2
<1>9. CASE n = 3
  <2>1. ASSUME NEW w \in DOMAIN versions
        PROVE  HistoryTriggerAccepts(old[w], new[w], "draft")
    <3>1. CASE w = v
      <4>1. new[v].status = "confirmed"
        BY <1>2, <1>5 DEF Version
      <4> QED BY <1>2, <3>1, <4>1, HistoryKept
    <3>2. CASE w # v
      BY <1>2, <1>5, <3>2, HistoryKept
    <3> QED BY <3>1, <3>2
  <2>2. FlushAccepted(<<"draft", old>>, <<"draft", new>>)
    BY <1>2, <1>4, <2>1 DEF FlushAccepted, ReadyTriggerAccepts
  <2> QED BY <1>1, <1>9, <2>2
<1>10. CASE n = 4
  <2>1. \A w \in DOMAIN versions : HistoryTriggerAccepts(new[w], new[w], "draft")
    BY <1>5, HistoryKept
  <2>2. FlushAccepted(<<"draft", new>>, <<"ready", new>>)
    BY <1>2, <1>4, <2>1 DEF FlushAccepted, ReadyTriggerAccepts
  <2> QED BY <1>1, <1>10, <2>2
<1>11. n \in 1..4
  BY <1>1
<1> QED BY <1>7, <1>8, <1>9, <1>10, <1>11

(* No trigger, constraint or index refuses what the backend writes: not    *)
(* in the middle of a confirmation, nor a rubric its contract accepts.     *)
THEOREM DatabaseAccepts == DeskSpec => DatabaseAcceptsChanges
<1> DEFINE Flushes ==
      IF In("confirmed", versions') \subseteq In("confirmed", versions)
      THEN FlushAccepted(<<assignment, versions>>, <<assignment', versions'>>)
      ELSE \A v \in In("confirmed", versions') :
             LET steps == ConfirmSteps(v) IN
             \A n \in 1..(Len(steps) - 1) : FlushAccepted(steps[n], steps[n + 1])
<1>1. ASSUME DeskInv, DeskInv', [DeskNext]_deskVars PROVE Flushes
  <2>0. VersionsInv /\ RowsInv(versions) /\ RowsInv(versions')
    BY <1>1 DEF DeskInv, VersionsInv
  <2>1. OneOfEach(versions') /\ RubricRowsAllowed(versions')
    BY <2>0, OneOfEachKept DEF RowsInv
  <2>2. \A w \in DOMAIN versions : versions[w].status \in {"draft", "confirmed", "superseded"}
    BY <2>0, RowTypes
  <2>3. ReadyTriggerAccepts(assignment, assignment', versions')
    BY <1>1 DEF DeskInv, VersionsInv, ReadyTriggerAccepts
  <2>4. ASSUME In("confirmed", versions') \subseteq In("confirmed", versions),
               NEW v \in DOMAIN versions,
               versions[v].status = "draft" => versions'[v].status \in {"draft", "confirmed"},
               \A w \in DOMAIN versions \ {v} : versions'[w] = versions[w],
               versions[v].status # "draft" => versions'[v] = versions[v]
        PROVE  Flushes
    <3>1. \A w \in DOMAIN versions :
            HistoryTriggerAccepts(versions[w], versions'[w], assignment)
      BY <2>2, <2>4, HistoryKept
    <3>2. FlushAccepted(<<assignment, versions>>, <<assignment', versions'>>)
      BY <2>1, <2>3, <3>1 DEF FlushAccepted
    <3> QED BY <2>4, <3>2
  <2>5. PICK one : one \in DOMAIN versions
    <3>1. 1 \in DOMAIN versions
      BY <2>0 DEF RowsInv
    <3> QED BY <3>1
  <2>6. CASE Kept
    <3>1. versions' = versions
      BY <2>6 DEF Kept
    <3>2. In("confirmed", versions') = In("confirmed", versions)
      BY <3>1
    <3> QED BY <2>4, <2>5, <3>1, <3>2
  <2>7. ASSUME NEW v \in DOMAIN versions, NEW row, Saved(v, row) PROVE Flushes
    <3>1. /\ \A w \in DOMAIN versions : versions'[w].status = versions[w].status
          /\ \A w \in DOMAIN versions \ {v} : versions'[w] = versions[w]
          /\ In("confirmed", versions') = In("confirmed", versions)
      BY <2>0, <2>7, SavedRows
    <3>2. versions[v].status = "draft"
      BY <2>7 DEF Saved
    <3> QED BY <2>4, <3>1, <3>2
  <2>8. ASSUME NEW form \in Forms, Added(form) PROVE Flushes
    <3>1. /\ \A w \in DOMAIN versions : versions'[w] = versions[w]
          /\ In("confirmed", versions') = In("confirmed", versions)
      BY <2>0, <2>8, AddedRows
    <3> QED BY <2>4, <2>5, <3>1
  <2>9. ASSUME NEW v \in DOMAIN versions, Confirmed(v) PROVE Flushes
    <3>1. versions[v].status = "draft" /\ versions[v].rubric # None /\ versions' = Replaced(v)
      BY <2>9 DEF Confirmed
    <3>2. In("confirmed", Replaced(v)) = {v}
      BY <2>0, <3>1, ConfirmationRows
    <3>3. In("confirmed", versions') = {v}
      BY <3>1, <3>2
    <3>4. v \notin In("confirmed", versions)
      BY <3>1 DEF In
    <3>5. \A n \in 1..(Len(ConfirmSteps(v)) - 1) :
            FlushAccepted(ConfirmSteps(v)[n], ConfirmSteps(v)[n + 1])
      BY <2>0, <3>1, FlushesPass
    <3> QED BY <3>3, <3>4, <3>5
  <2> HIDE DEF Flushes
  <2> QED BY <1>1, <2>6, <2>7, <2>8, <2>9, VersionSteps
<1>2. DeskInv' => ProviderRowAllowed(provider')
  BY DEF DeskInv, ProviderInv, ProviderRowAllowed, Tested
<1>3. \A form \in Forms : AcceptableFor[form] \subseteq StorableFor[form]
  BY StoredForForms
<1>4. DeskInv /\ DeskInv' /\ [DeskNext]_deskVars =>
        [/\ ProviderRowAllowed(provider')
         /\ \A form \in Forms : AcceptableFor[form] \subseteq StorableFor[form]
         /\ Flushes]_deskVars
  BY <1>1, <1>2, <1>3
<1> QED BY <1>4, DeskInvHolds, PTL DEF DeskSpec, DatabaseAcceptsChanges
=============================================================================
