-------------------------- MODULE TeacherReviewProofs --------------------------
(***************************************************************************)
(* Proofs about the rules of a grade and about TeacherReview, for any      *)
(* papers, requests, rounds, rubric, suggestions and grades.               *)
(***************************************************************************)
EXTENDS TeacherReview, FiniteSetTheorems, WellFoundedInduction, TLAPS

-----------------------------------------------------------------------------
(* Sums                                                                    *)

(* A set of numbers has a smallest.                                        *)
LEMMA SmallestNumber ==
  ASSUME NEW T \in SUBSET Nat, T # {}
  PROVE  \E n \in T : \A m \in T : n <= m
<1>1. PICK n \in T : \A m \in T : ~(<<m, n>> \in OpToRel(<, Nat))
  BY NatLessThanWellFounded, WFMin
<1>2. \A m \in T : ~(m < n)
  BY <1>1 DEF OpToRel
<1> QED BY <1>2

(* A set of subsets of a finite set has a member with no smaller one.      *)
LEMMA SmallestExists ==
  ASSUME NEW S, IsFiniteSet(S), NEW Bad, Bad \subseteq SUBSET S, Bad # {}
  PROVE  \E T \in Bad : \A U \in Bad : U \subseteq T => U = T
<1>1. IsWellFoundedOn(StrictSubsetOrdering(S), FiniteSubsetsOf(S))
  BY FS_StrictSubsetOrderingWellFounded
<1>2. Bad \subseteq FiniteSubsetsOf(S)
  BY FS_Subset DEF FiniteSubsetsOf
<1>3. PICK T \in Bad : \A U \in Bad : ~(<<U, T>> \in StrictSubsetOrdering(S))
  BY <1>1, <1>2, WFMin
<1> QED BY <1>3 DEF StrictSubsetOrdering

(* The index a sum takes first, and the table a sum over S is read from.   *)
First(s) == CHOOSE x \in s : TRUE
Entry(f, g, s) == IF s = {} THEN 0 ELSE f[First(s)] + g[s \ {First(s)}]
Table(f, S, g) == g = [s \in SUBSET S |-> Entry(f, g, s)]
TableOf(f, S) == CHOOSE g : Table(f, S, g)

(* A sum is the last entry of its table.                                   *)
LEMMA SumIsRead == \A f, S : SumFunctionOnSet(f, S) = TableOf(f, S)[S]
BY DEF SumFunctionOnSet, FoldFunctionOnSet, MapThenFoldSet, TableOf, Table, Entry, First

(* First chooses a member.                                                 *)
LEMMA FirstIsMember == \A s : s # {} => First(s) \in s
BY DEF First

(* Tables agree on the sets they share.                                    *)
LEMMA TablesAgree ==
  ASSUME NEW f, NEW S, IsFiniteSet(S), NEW U, U \subseteq S,
         NEW g, NEW h, Table(f, S, g), Table(f, U, h)
  PROVE  \A s \in SUBSET U : g[s] = h[s]
<1> DEFINE Bad == {s \in SUBSET U : g[s] # h[s]}
<1> SUFFICES ASSUME Bad # {} PROVE FALSE
  OBVIOUS
<1>1. IsFiniteSet(U)
  BY FS_Subset
<1>2. PICK T \in Bad : \A V \in Bad : V \subseteq T => V = T
  <2>1. Bad \subseteq SUBSET U
    OBVIOUS
  <2> HIDE DEF Bad
  <2> QED BY <1>1, <2>1, SmallestExists
<1>3. g[T] = Entry(f, g, T) /\ h[T] = Entry(f, h, T)
  BY DEF Table
<1>4. T # {}
  BY <1>3 DEF Entry
<1>5. First(T) \in T
  BY <1>4, FirstIsMember
<1>6. g[T \ {First(T)}] = h[T \ {First(T)}]
  BY <1>2, <1>5
<1> QED BY <1>3, <1>4, <1>6 DEF Entry

(* Every finite set has its table.                                         *)
LEMMA TableExists ==
  ASSUME NEW f, NEW S, IsFiniteSet(S)
  PROVE  Table(f, S, TableOf(f, S))
<1> DEFINE Bad == {s \in SUBSET S : ~Table(f, s, TableOf(f, s))}
<1> SUFFICES ASSUME Bad # {} PROVE FALSE
  OBVIOUS
<1>1. PICK T \in Bad : \A V \in Bad : V \subseteq T => V = T
  <2>1. Bad \subseteq SUBSET S
    OBVIOUS
  <2> HIDE DEF Bad
  <2> QED BY <2>1, SmallestExists
<1>2. \A s \in SUBSET T : s # T => Table(f, s, TableOf(f, s))
  BY <1>1
<1> DEFINE Top(s) == TableOf(f, s)[s]
           G == [s \in SUBSET T |->
                   IF s = {} THEN 0 ELSE f[First(s)] + Top(s \ {First(s)})]
<1>3. \A s \in SUBSET T : s # {} => /\ First(s) \in s /\ s \ {First(s)} \in SUBSET T
                                   /\ s \ {First(s)} # T /\ s \ {First(s)} # s
  <2> SUFFICES ASSUME NEW s \in SUBSET T, s # {}
               PROVE  /\ First(s) \in s /\ s \ {First(s)} \in SUBSET T
                      /\ s \ {First(s)} # T /\ s \ {First(s)} # s
    OBVIOUS
  <2>1. First(s) \in s
    BY FirstIsMember
  <2> QED BY <2>1
<1>4. \A s \in SUBSET T : s # T => G[s] = Top(s)
  <2> SUFFICES ASSUME NEW s \in SUBSET T, s # T PROVE G[s] = Top(s)
    OBVIOUS
  <2>1. Table(f, s, TableOf(f, s))
    BY <1>2
  <2>2. Top(s) = Entry(f, TableOf(f, s), s)
    BY <2>1 DEF Table
  <2>3. CASE s = {}
    BY <2>2, <2>3 DEF Entry
  <2>4. CASE s # {}
    <3> DEFINE r == s \ {First(s)}
    <3>1. r \in SUBSET T /\ r # T /\ r \subseteq s
      BY <1>3, <2>4
    <3>2. Table(f, r, TableOf(f, r))
      BY <1>2, <3>1
    <3>3. IsFiniteSet(s)
      BY FS_Subset
    <3> HIDE DEF r
    <3>4. TableOf(f, s)[r] = TableOf(f, r)[r]
      BY <2>1, <3>1, <3>2, <3>3, TablesAgree
    <3> QED BY <2>2, <2>4, <3>4 DEF Entry, r
  <2> QED BY <2>3, <2>4
<1>5. \A s \in SUBSET T : G[s] = Entry(f, G, s)
  <2> SUFFICES ASSUME NEW s \in SUBSET T PROVE G[s] = Entry(f, G, s)
    OBVIOUS
  <2>1. CASE s = {}
    BY <2>1 DEF Entry
  <2>2. CASE s # {}
    <3>1. G[s \ {First(s)}] = Top(s \ {First(s)})
      BY <1>3, <1>4, <2>2
    <3>2. G[s] = f[First(s)] + Top(s \ {First(s)})
      BY <2>2
    <3> HIDE DEF G
    <3> QED BY <2>2, <3>1, <3>2 DEF Entry
  <2> QED BY <2>1, <2>2
<1>6. G = [s \in SUBSET T |-> G[s]]
  OBVIOUS
<1>7. Table(f, T, G)
  <2> HIDE DEF G
  <2> QED BY <1>5, <1>6 DEF Table
<1>8. Table(f, T, TableOf(f, T))
  <2> HIDE DEF G
  <2> QED BY <1>7 DEF TableOf
<1> QED BY <1>8

(* The sum over a finite set, from the sum without its first member.       *)
LEMMA SumFirst ==
  ASSUME NEW f, NEW S, IsFiniteSet(S)
  PROVE  /\ S = {} => SumFunctionOnSet(f, S) = 0
         /\ S # {} => /\ First(S) \in S
                      /\ SumFunctionOnSet(f, S)
                           = f[First(S)] + SumFunctionOnSet(f, S \ {First(S)})
<1>1. Table(f, S, TableOf(f, S)) /\ SumFunctionOnSet(f, S) = TableOf(f, S)[S]
  BY TableExists, SumIsRead
<1>2. SumFunctionOnSet(f, S) = Entry(f, TableOf(f, S), S)
  BY <1>1 DEF Table
<1>3. CASE S = {}
  BY <1>2, <1>3 DEF Entry
<1>4. CASE S # {}
  <2> DEFINE r == S \ {First(S)}
  <2>1. IsFiniteSet(r) /\ r \subseteq S
    BY FS_Subset
  <2> HIDE DEF r
  <2>2. Table(f, r, TableOf(f, r)) /\ SumFunctionOnSet(f, r) = TableOf(f, r)[r]
    BY <2>1, TableExists, SumIsRead
  <2>3. TableOf(f, S)[r] = TableOf(f, r)[r]
    BY <1>1, <2>1, <2>2, TablesAgree
  <2>4. First(S) \in S
    BY <1>4, FirstIsMember
  <2> QED BY <1>2, <1>4, <2>2, <2>3, <2>4 DEF Entry, r
<1> QED BY <1>3, <1>4

(* Sums over equal entries are equal, sums over larger entries larger.     *)
LEMMA SumsCompare ==
  ASSUME NEW D, IsFiniteSet(D), NEW f, NEW g,
         \A n \in D : f[n] \in Int /\ g[n] \in Int
  PROVE  \A S \in SUBSET D :
           /\ SumFunctionOnSet(f, S) \in Int
           /\ (\A n \in D : f[n] = g[n]) => SumFunctionOnSet(f, S) = SumFunctionOnSet(g, S)
           /\ (\A n \in D : f[n] <= g[n]) => SumFunctionOnSet(f, S) <= SumFunctionOnSet(g, S)
<1> DEFINE F(S) == SumFunctionOnSet(f, S)
           G(S) == SumFunctionOnSet(g, S)
           Good(S) == /\ F(S) \in Int /\ G(S) \in Int
                      /\ (\A n \in D : f[n] = g[n]) => F(S) = G(S)
                      /\ (\A n \in D : f[n] <= g[n]) => F(S) <= G(S)
           Bad == {S \in SUBSET D : ~Good(S)}
<1> SUFFICES ASSUME Bad # {} PROVE FALSE
  OBVIOUS
<1>1. PICK T \in Bad : \A V \in Bad : V \subseteq T => V = T
  <2>1. Bad \subseteq SUBSET D
    OBVIOUS
  <2> HIDE DEF Bad
  <2> QED BY <2>1, SmallestExists
<1>2. IsFiniteSet(T) /\ T \subseteq D
  BY FS_Subset
<1>3. /\ T = {} => F(T) = 0 /\ G(T) = 0
      /\ T # {} => /\ First(T) \in T
                   /\ F(T) = f[First(T)] + F(T \ {First(T)})
                   /\ G(T) = g[First(T)] + G(T \ {First(T)})
  BY <1>2, SumFirst
<1>4. ~Good(T)
  OBVIOUS
<1>5. T # {} => Good(T \ {First(T)})
  BY <1>1, <1>3
<1> HIDE DEF F, G, Bad
<1>6. CASE T = {}
  BY <1>3, <1>4, <1>6
<1>7. CASE T # {}
  <2>1. First(T) \in D /\ f[First(T)] \in Int /\ g[First(T)] \in Int
    BY <1>2, <1>3, <1>7
  <2> QED BY <1>3, <1>4, <1>5, <1>7, <2>1
<1> QED BY <1>6, <1>7

(* Any member may be taken out of a sum.                                   *)
LEMMA SumWithout ==
  ASSUME NEW D, IsFiniteSet(D), NEW f, \A n \in D : f[n] \in Int,
         NEW part \in SUBSET D, NEW k \in part
  PROVE  SumFunctionOnSet(f, part) = f[k] + SumFunctionOnSet(f, part \ {k})
<1> DEFINE F(S) == SumFunctionOnSet(f, S)
           Bad == {S \in SUBSET D : \E x \in S : F(S) # f[x] + F(S \ {x})}
<1> SUFFICES ASSUME Bad # {} PROVE FALSE
  OBVIOUS
<1>1. PICK T \in Bad : \A V \in Bad : V \subseteq T => V = T
  <2>1. Bad \subseteq SUBSET D
    OBVIOUS
  <2> HIDE DEF Bad
  <2> QED BY <2>1, SmallestExists
<1>2. PICK x \in T : F(T) # f[x] + F(T \ {x})
  BY <1>1
<1>3. IsFiniteSet(T) /\ T \subseteq D
  BY FS_Subset
<1> DEFINE y == First(T)
<1>4. y \in T /\ F(T) = f[y] + F(T \ {y})
  BY <1>2, <1>3, SumFirst
<1>0. \A S \in SUBSET D : F(S) \in Int
  BY SumsCompare
<1> HIDE DEF y, F
<1>5. x # y
  BY <1>2, <1>4
<1>6. T \ {y} \notin Bad /\ T \ {x} \notin Bad
  BY <1>1, <1>2, <1>4
<1>7. /\ F(T \ {y}) = f[x] + F((T \ {y}) \ {x})
      /\ F(T \ {x}) = f[y] + F((T \ {x}) \ {y})
  BY <1>2, <1>3, <1>4, <1>5, <1>6
<1>8. F((T \ {x}) \ {y}) = F((T \ {y}) \ {x})
  <2>1. (T \ {x}) \ {y} = (T \ {y}) \ {x}
    OBVIOUS
  <2> QED BY <2>1
<1>9. f[x] \in Int /\ f[y] \in Int /\ F((T \ {y}) \ {x}) \in Int
  BY <1>0, <1>2, <1>3, <1>4
<1> HIDE DEF Bad
<1> QED BY <1>2, <1>4, <1>7, <1>8, <1>9

(* Entries that are left out count as zero.                                *)
LEMMA SumPart ==
  ASSUME NEW D, IsFiniteSet(D), NEW f, NEW g, NEW P \in SUBSET D,
         \A n \in D : f[n] \in Int /\ g[n] = IF n \in P THEN f[n] ELSE 0
  PROVE  SumFunctionOnSet(g, D) = SumFunctionOnSet(f, P)
<1> DEFINE F(S) == SumFunctionOnSet(f, S)
           G(S) == SumFunctionOnSet(g, S)
           Bad == {S \in SUBSET D : G(S) # F(S \cap P)}
<1>0. D \cap P = P
  OBVIOUS
<1> SUFFICES ASSUME Bad # {} PROVE FALSE
  BY <1>0
<1>1. PICK T \in Bad : \A V \in Bad : V \subseteq T => V = T
  <2>1. Bad \subseteq SUBSET D
    OBVIOUS
  <2> HIDE DEF Bad
  <2> QED BY <2>1, SmallestExists
<1>2. IsFiniteSet(T) /\ IsFiniteSet(T \cap P) /\ T \subseteq D /\ T \cap P \in SUBSET D
  BY FS_Subset
<1>3. (\A n \in D : f[n] \in Int) /\ (\A n \in D : g[n] \in Int)
  OBVIOUS
<1>4. \A S \in SUBSET D : F(S) \in Int /\ G(S) \in Int
  BY <1>3, SumsCompare
<1>5. ASSUME NEW S \in SUBSET D, NEW x \in S
      PROVE  F(S) = f[x] + F(S \ {x}) /\ G(S) = g[x] + G(S \ {x})
  <2>1. F(S) = f[x] + F(S \ {x})
    BY ONLY <1>3, IsFiniteSet(D), S \in SUBSET D, x \in S, SumWithout
  <2>2. G(S) = g[x] + G(S \ {x})
    BY ONLY <1>3, IsFiniteSet(D), S \in SUBSET D, x \in S, SumWithout
  <2> QED BY <2>1, <2>2
<1>6. F({}) = 0 /\ G({}) = 0
  BY FS_EmptySet, SumFirst
<1>7. G(T) # F(T \cap P)
  OBVIOUS
<1> HIDE DEF F, G
<1>8. T # {}
  <2> SUFFICES ASSUME T = {} PROVE FALSE
    OBVIOUS
  <2>1. T \cap P = {}
    OBVIOUS
  <2> HIDE DEF Bad
  <2> QED BY <1>6, <1>7, <2>1
<1>9. PICK x \in T : TRUE
  BY <1>8
<1>10. T \ {x} \notin Bad /\ T \ {x} \in SUBSET D
  BY <1>1, <1>2, <1>9
<1>11. G(T \ {x}) = F((T \ {x}) \cap P)
  BY <1>10
<1>12. CASE x \in P
  <2>1. (T \ {x}) \cap P = (T \cap P) \ {x} /\ x \in T \cap P
    BY <1>9, <1>12
  <2>2. F(T \cap P) = f[x] + F((T \cap P) \ {x}) /\ G(T) = f[x] + G(T \ {x})
    BY <1>2, <1>5, <1>9, <1>12, <2>1
  <2>3. F((T \ {x}) \cap P) = F((T \cap P) \ {x})
    BY <2>1
  <2> QED BY <1>7, <1>11, <2>2, <2>3
<1>13. CASE x \notin P
  <2>1. (T \ {x}) \cap P = T \cap P
    BY <1>13
  <2>2. G(T) = 0 + G(T \ {x}) /\ G(T \ {x}) \in Int
    BY <1>2, <1>4, <1>5, <1>9, <1>10, <1>13
  <2>3. F((T \ {x}) \cap P) = F(T \cap P)
    BY <2>1
  <2> QED BY <1>7, <1>11, <2>2, <2>3
<1> QED BY <1>12, <1>13

-----------------------------------------------------------------------------
(* The worth of a grade                                                    *)

(* The larger of a number and zero.                                        *)
LEMMA MaxWithZero ==
  ASSUME NEW x \in Int
  PROVE  Max({0, x}) = IF x > 0 THEN x ELSE 0
<1> DEFINE m == IF x > 0 THEN x ELSE 0
<1>1. m \in {0, x} /\ \A y \in {0, x} : m >= y
  OBVIOUS
<1>2. \A z \in {0, x} : (\A y \in {0, x} : z >= y) => z = m
  OBVIOUS
<1> HIDE DEF m
<1>3. Max({0, x}) = m
  BY <1>1, <1>2 DEF Max
<1> QED BY <1>3 DEF m

(* Members of a sequence.                                                  *)
LEMMA Members ==
  ASSUME NEW S, NEW seq \in Seq(S)
  PROVE  /\ Len(seq) \in Nat /\ DOMAIN seq = 1..Len(seq)
         /\ \A n \in DOMAIN seq : seq[n] \in S
OBVIOUS

(* The numbers a total is made of.                                         *)
Won(g) == [n \in DOMAIN g.criteria |-> g.criteria[n].score]
Best == [n \in DOMAIN Rubric.dimensions |-> Rubric.dimensions[n].max]
Points == [n \in DOMAIN Rubric.deductions |-> Rubric.deductions[n].points]
Charged(g) == [n \in DOMAIN Rubric.deductions |->
                 IF Rubric.deductions[n].id \in AppliedIds(g)
                   THEN Rubric.deductions[n].points ELSE 0]
Hit(g) == {n \in DOMAIN Rubric.deductions : Rubric.deductions[n].id \in AppliedIds(g)}

(* Their types.                                                            *)
LEMMA PartTypes ==
  ASSUME NEW g \in GradeShapes
  PROVE  /\ IsFiniteSet(DOMAIN g.criteria) /\ IsFiniteSet(DOMAIN Rubric.dimensions)
         /\ IsFiniteSet(DOMAIN Rubric.deductions)
         /\ \A n \in DOMAIN g.criteria : g.criteria[n].score \in Int /\ Won(g)[n] \in Int
         /\ \A n \in DOMAIN Rubric.dimensions : Best[n] \in Nat
         /\ \A n \in DOMAIN Rubric.deductions :
              Points[n] \in Nat /\ Rubric.deductions[n].points \in Nat /\ Charged(g)[n] \in Nat
<1>1. /\ g.criteria \in Seq(Criteria)
      /\ Rubric.dimensions \in Seq([id : STRING, max : Nat])
      /\ Rubric.deductions \in Seq([id : STRING, points : Nat])
  BY ReviewAssumption DEF GradeShapes, GradedRubrics
<1>2. PICK c, d, e : c = g.criteria /\ d = Rubric.dimensions /\ e = Rubric.deductions
  OBVIOUS
<1>3. /\ DOMAIN c = 1..Len(c) /\ Len(c) \in Nat /\ DOMAIN d = 1..Len(d) /\ Len(d) \in Nat
      /\ DOMAIN e = 1..Len(e) /\ Len(e) \in Nat
  BY <1>1, <1>2
<1>4. IsFiniteSet(DOMAIN c) /\ IsFiniteSet(DOMAIN d) /\ IsFiniteSet(DOMAIN e)
  BY <1>3, FS_Interval
<1>5. /\ \A n \in DOMAIN c : c[n].score \in Int
      /\ \A n \in DOMAIN d : d[n].max \in Nat
      /\ \A n \in DOMAIN e : e[n].points \in Nat
  <2>1. \A n \in DOMAIN c : c[n] \in Criteria
    BY <1>1, <1>2, Members
  <2>2. \A n \in DOMAIN d : d[n] \in [id : STRING, max : Nat]
    BY <1>1, <1>2, Members
  <2>3. \A n \in DOMAIN e : e[n] \in [id : STRING, points : Nat]
    BY <1>1, <1>2, Members
  <2> QED BY <2>1, <2>2, <2>3 DEF Criteria
<1> QED BY <1>2, <1>4, <1>5 DEF Won, Best, Points, Charged

(* Totals as sums of those numbers.                                        *)
LEMMA TotalsOf ==
  ASSUME NEW g \in GradeShapes
  PROVE  /\ Subtotal(g) = SumFunctionOnSet(Won(g), DOMAIN g.criteria)
         /\ DeductionTotal(g, Rubric) = SumFunctionOnSet(Charged(g), DOMAIN Rubric.deductions)
         /\ DeductionTotal(g, Rubric) = SumFunctionOnSet(Points, Hit(g))
         /\ TotalScore = SumFunctionOnSet(Best, DOMAIN Rubric.dimensions)
         /\ Subtotal(g) \in Int /\ DeductionTotal(g, Rubric) \in Int /\ TotalScore \in Int
         /\ calculate_grade_totals(g, Rubric).subtotal = Subtotal(g)
         /\ calculate_grade_totals(g, Rubric).deductions = DeductionTotal(g, Rubric)
         /\ calculate_grade_totals(g, Rubric).total
              = Max({0, Subtotal(g) - DeductionTotal(g, Rubric)})
<1>1. Subtotal(g) = SumFunctionOnSet(Won(g), DOMAIN g.criteria)
  BY DEF Subtotal, SumOf, SumFunction, Won
<1>2. DeductionTotal(g, Rubric) = SumFunctionOnSet(Charged(g), DOMAIN Rubric.deductions)
  BY DEF DeductionTotal, SumOf, SumFunction, Charged
<1>3. TotalScore = SumFunctionOnSet(Best, DOMAIN Rubric.dimensions)
  BY DEF TotalScore, SumFunction, Best
<1>4. Subtotal(g) \in Int /\ DeductionTotal(g, Rubric) \in Int /\ TotalScore \in Int
  <2>1. \A n \in DOMAIN g.criteria : Won(g)[n] \in Int /\ Won(g)[n] \in Int
    BY PartTypes
  <2>2. \A n \in DOMAIN Rubric.deductions : Charged(g)[n] \in Int /\ Charged(g)[n] \in Int
    BY PartTypes
  <2>3. \A n \in DOMAIN Rubric.dimensions : Best[n] \in Int /\ Best[n] \in Int
    BY PartTypes
  <2>4. /\ IsFiniteSet(DOMAIN g.criteria) /\ IsFiniteSet(DOMAIN Rubric.dimensions)
        /\ IsFiniteSet(DOMAIN Rubric.deductions)
    BY PartTypes
  <2>5. Subtotal(g) \in Int
    BY <1>1, <2>1, <2>4, SumsCompare
  <2>6. DeductionTotal(g, Rubric) \in Int
    BY <1>2, <2>2, <2>4, SumsCompare
  <2>7. TotalScore \in Int
    BY <1>3, <2>3, <2>4, SumsCompare
  <2> QED BY <2>5, <2>6, <2>7
<1>5. DeductionTotal(g, Rubric) = SumFunctionOnSet(Points, Hit(g))
  <2> DEFINE D == DOMAIN Rubric.deductions
  <2>1. IsFiniteSet(D) /\ Hit(g) \in SUBSET D
    BY PartTypes DEF Hit
  <2>2. \A n \in D : /\ Points[n] \in Int
                     /\ Charged(g)[n] = IF n \in Hit(g) THEN Points[n] ELSE 0
    <3>1. \A n \in D : Points[n] \in Int
      BY PartTypes
    <3> QED BY <3>1 DEF Charged, Points, Hit
  <2>3. SumFunctionOnSet(Charged(g), D) = SumFunctionOnSet(Points, Hit(g))
    BY <2>1, <2>2, SumPart
  <2> QED BY <1>2, <2>3
<1>6. /\ calculate_grade_totals(g, Rubric).subtotal = Subtotal(g)
      /\ calculate_grade_totals(g, Rubric).deductions = DeductionTotal(g, Rubric)
      /\ calculate_grade_totals(g, Rubric).total
           = Total(Subtotal(g), DeductionTotal(g, Rubric))
  BY DEF calculate_grade_totals
<1>7. Total(Subtotal(g), DeductionTotal(g, Rubric))
        = Max({0, Subtotal(g) - DeductionTotal(g, Rubric)})
  <2>1. PICK a, b \in Int : a = Subtotal(g) /\ b = DeductionTotal(g, Rubric)
    BY <1>4
  <2>2. Max({0, a - b}) = IF a - b > 0 THEN a - b ELSE 0
    BY MaxWithZero
  <2>3. Total(a, b) = IF a - b > 0 THEN a - b ELSE 0
    BY DEF Total
  <2> QED BY <2>1, <2>2, <2>3
<1> QED BY <1>1, <1>2, <1>3, <1>4, <1>5, <1>6, <1>7

(* What calculate_grade_totals computes is the worth of the grade: the     *)
(* scores without each applied deduction of the rubric once, and not less  *)
(* than nothing.                                                           *)
THEOREM TotalIsWorth ==
  ASSUME NEW g \in GradeShapes
  PROVE  calculate_grade_totals(g, Rubric).total = Worth(g)
<1> DEFINE lost == {n \in DOMAIN Rubric.deductions : \E m \in DOMAIN g.deductions :
                      /\ g.deductions[m].id = Rubric.deductions[n].id
                      /\ g.deductions[m].applied}
<1>1. lost = Hit(g)
  BY DEF Hit, AppliedIds
<1>2. Worth(g) = Max({0, SumFunctionOnSet(Won(g), DOMAIN g.criteria)
                           - SumFunctionOnSet(Points, lost)})
  BY DEF Worth, Points, Won, SumFunction
<1> HIDE DEF lost
<1>3. SumFunctionOnSet(Points, lost) = SumFunctionOnSet(Points, Hit(g))
  BY <1>1
<1> QED BY <1>2, <1>3, TotalsOf

(* The score the database stores lies between nothing and the total of the *)
(* rubric.                                                                 *)
THEOREM StoredScoreInRange ==
  ASSUME NEW g \in GradeShapes, NEW s,
         validate_teacher_review_payload(g, calculate_grade_totals(g, Rubric), s, Rubric)
  PROVE  calculate_grade_totals(g, Rubric).total \in 0..TotalScore
<1>1. /\ SameIds(g.criteria, Rubric.dimensions)
      /\ \A n \in DOMAIN g.criteria : /\ g.criteria[n].score >= 0
                                      /\ g.criteria[n].score <= Rubric.dimensions[n].max
  BY DEF validate_teacher_review_payload
<1>2. DOMAIN g.criteria = DOMAIN Rubric.dimensions
  <2>1. /\ g.criteria \in Seq(Criteria)
        /\ Rubric.dimensions \in Seq([id : STRING, max : Nat])
    BY ReviewAssumption DEF GradeShapes, GradedRubrics
  <2> QED BY <1>1, <2>1 DEF SameIds
<1> DEFINE D == DOMAIN Rubric.dimensions
<1>3. \A n \in D : Won(g)[n] \in Int /\ Best[n] \in Int /\ Won(g)[n] <= Best[n]
  <2> SUFFICES ASSUME NEW n \in D
               PROVE  Won(g)[n] \in Int /\ Best[n] \in Int /\ Won(g)[n] <= Best[n]
    OBVIOUS
  <2>1. Won(g)[n] \in Int /\ Best[n] \in Nat
    BY <1>2, PartTypes
  <2>2. Won(g)[n] = g.criteria[n].score /\ Best[n] = Rubric.dimensions[n].max
    BY <1>2 DEF Won, Best
  <2>3. g.criteria[n].score <= Rubric.dimensions[n].max
    BY <1>1, <1>2
  <2> QED BY <2>1, <2>2, <2>3
<1>4. SumFunctionOnSet(Won(g), D) <= SumFunctionOnSet(Best, D)
  <2>1. IsFiniteSet(D)
    BY PartTypes
  <2> QED BY <1>3, <2>1, SumsCompare
<1>5. Subtotal(g) <= TotalScore
  BY <1>2, <1>4, TotalsOf
<1>6. 0 <= TotalScore
  <2> DEFINE zero == [n \in D |-> 0]
  <2>1. \A n \in D : zero[n] \in Int /\ Best[n] \in Int /\ zero[n] <= Best[n]
    BY PartTypes
  <2>2. IsFiniteSet(D) /\ IsFiniteSet({}) /\ {} \in SUBSET D
    BY PartTypes, FS_EmptySet
  <2>3. SumFunctionOnSet(zero, D) <= SumFunctionOnSet(Best, D)
    BY <2>1, <2>2, SumsCompare
  <2>4. SumFunctionOnSet(zero, D) = SumFunctionOnSet(zero, {})
    <3>1. \A n \in D : zero[n] \in Int /\ zero[n] = IF n \in {} THEN zero[n] ELSE 0
      OBVIOUS
    <3> HIDE DEF zero
    <3> QED BY <2>2, <3>1, SumPart
  <2>5. SumFunctionOnSet(zero, {}) = 0
    BY <2>2, SumFirst
  <2> QED BY <2>3, <2>4, <2>5, TotalsOf
<1>7. 0 <= DeductionTotal(g, Rubric)
  <2> DEFINE E == DOMAIN Rubric.deductions
             none == [n \in E |-> 0]
  <2>1. \A n \in E : none[n] \in Int /\ Charged(g)[n] \in Int /\ none[n] <= Charged(g)[n]
    BY PartTypes
  <2>2. IsFiniteSet(E) /\ IsFiniteSet({}) /\ {} \in SUBSET E
    BY PartTypes, FS_EmptySet
  <2>3. SumFunctionOnSet(none, E) <= SumFunctionOnSet(Charged(g), E)
    BY <2>1, <2>2, SumsCompare
  <2>4. SumFunctionOnSet(none, E) = SumFunctionOnSet(none, {})
    <3>1. \A n \in E : none[n] \in Int /\ none[n] = IF n \in {} THEN none[n] ELSE 0
      OBVIOUS
    <3> HIDE DEF none
    <3> QED BY <2>2, <3>1, SumPart
  <2>5. SumFunctionOnSet(none, {}) = 0
    BY <2>2, SumFirst
  <2> QED BY <2>3, <2>4, <2>5, TotalsOf
<1>8. PICK a, b, c \in Int :
        a = Subtotal(g) /\ b = DeductionTotal(g, Rubric) /\ c = TotalScore
  BY TotalsOf
<1>9. Max({0, a - b}) = IF a - b > 0 THEN a - b ELSE 0
  BY MaxWithZero
<1>10. calculate_grade_totals(g, Rubric).total = Max({0, a - b})
  BY <1>8, TotalsOf
<1> QED BY <1>5, <1>6, <1>7, <1>8, <1>9, <1>10

-----------------------------------------------------------------------------
(* The two validators                                                      *)

(* A sequence with the ids of another one has its length and its members'  *)
(* ids.                                                                    *)
LEMMA IdsAgree ==
  ASSUME NEW S, NEW T, NEW a \in Seq(S), NEW b \in Seq(T), Ids(a) = Ids(b)
  PROVE  DOMAIN a = DOMAIN b /\ SameIds(a, b) /\ \A n \in DOMAIN a : a[n].id = b[n].id
<1>1. DOMAIN a = DOMAIN b
  <2>1. DOMAIN Ids(a) = DOMAIN a /\ DOMAIN Ids(b) = DOMAIN b
    BY DEF Ids
  <2> QED BY <2>1
<1>2. Len(a) = Len(b)
  BY <1>1
<1>3. \A n \in DOMAIN a : a[n].id = b[n].id
  <2>1. \A n \in DOMAIN a : Ids(a)[n] = a[n].id /\ Ids(b)[n] = b[n].id
    BY <1>1 DEF Ids
  <2> QED BY <2>1
<1> QED BY <1>1, <1>2, <1>3 DEF SameIds

(* Equal canonical forms: the same ids and the same values, written in any *)
(* form; and with the same forms too, the same criteria.                   *)
LEMMA CanonicalAgree ==
  ASSUME NEW g \in GradeShapes, NEW s \in GradeShapes,
         canonical(g.criteria) = canonical(s.criteria)
  PROVE  /\ Ids(g.criteria) = Ids(s.criteria)
         /\ DOMAIN g.criteria = DOMAIN s.criteria
         /\ (\A n \in DOMAIN g.criteria : g.criteria[n].form = s.criteria[n].form)
              <=> g.criteria = s.criteria
<1>1. PICK a, b : a = g.criteria /\ b = s.criteria
  OBVIOUS
<1>2. a \in Seq(Criteria) /\ b \in Seq(Criteria) /\ canonical(a) = canonical(b)
  BY <1>1 DEF GradeShapes
<1>3. DOMAIN a = DOMAIN b
  <2>1. DOMAIN canonical(a) = DOMAIN a /\ DOMAIN canonical(b) = DOMAIN b
    BY DEF canonical
  <2> QED BY <1>2, <2>1
<1>4. ASSUME NEW n \in DOMAIN a
      PROVE  /\ a[n].id = b[n].id
             /\ a[n].form = b[n].form => a[n] = b[n]
  <2>1. a[n] \in Criteria /\ b[n] \in Criteria
    BY <1>2, <1>3, Members
  <2>2. [a[n] EXCEPT !.form = "plain"] = [b[n] EXCEPT !.form = "plain"]
    <3>1. /\ canonical(a)[n] = [a[n] EXCEPT !.form = "plain"]
          /\ canonical(b)[n] = [b[n] EXCEPT !.form = "plain"]
      BY <1>3 DEF canonical
    <3> QED BY <1>2, <3>1
  <2>3. PICK x, y : x = a[n] /\ y = b[n]
    OBVIOUS
  <2>4. /\ x = [id |-> x.id, score |-> x.score, form |-> x.form]
        /\ y = [id |-> y.id, score |-> y.score, form |-> y.form]
    BY <2>1, <2>3 DEF Criteria
  <2>5. x.id = y.id /\ x.score = y.score
    BY <2>2, <2>3, <2>4
  <2> QED BY <2>3, <2>4, <2>5
<1>5. Ids(a) = Ids(b)
  <2>1. \A n \in DOMAIN a : a[n].id = b[n].id
    BY <1>4
  <2> QED BY <1>3, <2>1 DEF Ids
<1>6. (\A n \in DOMAIN a : a[n].form = b[n].form) <=> a = b
  <2>1. ASSUME \A n \in DOMAIN a : a[n].form = b[n].form PROVE a = b
    <3>1. Len(a) = Len(b) /\ \A n \in 1..Len(a) : a[n] = b[n]
      BY <1>2, <1>3, <1>4, <2>1
    <3> QED BY <1>2, <3>1
  <2> QED BY <2>1
<1> QED BY <1>1, <1>3, <1>5, <1>6

(* Evidence that is the same for every target is the same when flattened.  *)
LEMMA FlattenedAgree ==
  ASSUME NEW g \in GradeShapes, NEW s \in GradeShapes, ~Changed(g, s)
  PROVE  Flattened(g) = Flattened(s)
<1>1. /\ Ids(g.criteria) = Ids(s.criteria) /\ g.deductions = s.deductions
      /\ \A t \in Targets(g) : EvidenceFor(g, t) = EvidenceFor(s, t)
  BY CanonicalAgree DEF Changed
<1>2. PICK a : a = Ids(g.criteria)
  OBVIOUS
<1>3. PICK b : b = Ids(g.deductions)
  OBVIOUS
<1>4. PICK S, T : a \in Seq(S) /\ b \in Seq(T)
  <2>1. g.criteria \in Seq(Criteria)
    BY DEF GradeShapes
  <2>2. g.deductions \in Seq([id : STRING, applied : BOOLEAN])
    BY DEF GradeShapes
  <2>3. ASSUME NEW U, NEW seq \in Seq(U) PROVE \E V : Ids(seq) \in Seq(V)
    <3>1. PICK V : V = {seq[n].id : n \in DOMAIN seq}
      OBVIOUS
    <3>2. /\ Len(seq) \in Nat /\ DOMAIN seq = 1..Len(seq)
          /\ \A n \in DOMAIN seq : seq[n].id \in V
      BY <3>1
    <3>3. Ids(seq) \in [1..Len(seq) -> V]
      BY <3>2 DEF Ids
    <3>4. Ids(seq) \in Seq(V)
      BY <3>2, <3>3
    <3> QED BY <3>4
  <2>4. (\E V : a \in Seq(V)) /\ (\E V : b \in Seq(V))
    BY <1>2, <1>3, <2>1, <2>2, <2>3
  <2> QED BY <2>4
<1>5. PICK order : order = a \o b
  OBVIOUS
<1>6. \A n \in DOMAIN order : order[n] \in Targets(g)
  <2>1. Targets(g) = Range(a) \cup Range(b)
    BY <1>2, <1>3 DEF Targets
  <2>2. \A n \in DOMAIN order : order[n] \in Range(a) \cup Range(b)
    <3> SUFFICES ASSUME NEW n \in DOMAIN order PROVE order[n] \in Range(a) \cup Range(b)
      OBVIOUS
    <3>1. /\ Len(a) \in Nat /\ Len(b) \in Nat /\ DOMAIN a = 1..Len(a)
          /\ DOMAIN b = 1..Len(b) /\ DOMAIN order = 1..(Len(a) + Len(b))
      BY <1>4, <1>5
    <3>2. CASE n <= Len(a)
      <4>1. n \in DOMAIN a /\ order[n] = a[n]
        BY <1>4, <1>5, <3>1, <3>2
      <4> QED BY <4>1 DEF Range
    <3>3. CASE n > Len(a)
      <4>1. n - Len(a) \in DOMAIN b /\ order[n] = b[n - Len(a)]
        BY <1>4, <1>5, <3>1, <3>3
      <4> QED BY <4>1 DEF Range
    <3> QED BY <3>1, <3>2, <3>3
  <2> QED BY <2>1, <2>2
<1>7. /\ Flattened(g) = FlattenSeq([n \in DOMAIN order |-> EvidenceFor(g, order[n])])
      /\ Flattened(s) = FlattenSeq([n \in DOMAIN order |-> EvidenceFor(s, order[n])])
  <2>1. order = Ids(g.criteria) \o Ids(g.deductions)
    BY <1>2, <1>3, <1>5
  <2>2. order = Ids(s.criteria) \o Ids(s.deductions)
    <3>1. Ids(s.criteria) = a /\ Ids(s.deductions) = b
      BY <1>1, <1>2, <1>3
    <3> QED BY <1>5, <3>1
  <2>3. Flattened(g) = FlattenSeq([n \in DOMAIN order |-> EvidenceFor(g, order[n])])
    BY <2>1 DEF Flattened
  <2>4. Flattened(s) = FlattenSeq([n \in DOMAIN order |-> EvidenceFor(s, order[n])])
    BY <2>2 DEF Flattened
  <2> QED BY <2>3, <2>4
<1>8. [n \in DOMAIN order |-> EvidenceFor(g, order[n])]
        = [n \in DOMAIN order |-> EvidenceFor(s, order[n])]
  <2>1. \A n \in DOMAIN order : EvidenceFor(g, order[n]) = EvidenceFor(s, order[n])
    BY <1>1, <1>6
  <2> QED BY <2>1
<1> QED BY <1>7, <1>8

(* A deduction is applied in the rubric's order when its id is.            *)
LEMMA DeductionsAgree ==
  ASSUME NEW g \in GradeShapes,
         require_exact_ids(Ids(g.deductions), Ids(Rubric.deductions))
  PROVE  DeductionTotal(g, Rubric) = AppliedInOrder(g, Rubric)
<1> DEFINE a == g.deductions
           b == Rubric.deductions
           D == DOMAIN b
           InOrder == [n \in D |-> IF a[n].applied THEN b[n].points ELSE 0]
<1>1. /\ a \in Seq([id : STRING, applied : BOOLEAN])
      /\ b \in Seq([id : STRING, points : Nat])
      /\ Ids(a) = Ids(b) /\ IsInjective(Ids(a))
  BY ReviewAssumption DEF GradeShapes, GradedRubrics, require_exact_ids
<1>2. DOMAIN a = D /\ \A n \in D : a[n].id = b[n].id
  <2> HIDE DEF a, b
  <2> QED BY <1>1, IdsAgree
<1>3. \A m, n \in D : a[m].id = a[n].id => m = n
  <2>1. DOMAIN Ids(a) = D /\ \A n \in D : Ids(a)[n] = a[n].id
    BY <1>2 DEF Ids
  <2> QED BY <1>1, <2>1 DEF IsInjective
<1>4. ASSUME NEW n \in D PROVE b[n].id \in AppliedIds(g) <=> a[n].applied
  <2>1. b[n].id \in AppliedIds(g) <=> \E m \in DOMAIN a : a[m].applied /\ a[m].id = b[n].id
    BY DEF AppliedIds
  <2> HIDE DEF a, b
  <2> QED BY <1>2, <1>3, <2>1
<1>5. Charged(g) = InOrder
  BY <1>4 DEF Charged
<1>6. AppliedInOrder(g, Rubric) = SumFunctionOnSet(InOrder, D)
  BY <1>2 DEF AppliedInOrder, SumFunction
<1> QED BY <1>5, <1>6, TotalsOf

(* Of what the backend's check accepts the database's accepts exactly what *)
(* is written as it expects: no exponent, sign or fifth place, and without *)
(* a change reason the forms of the suggestion's scores and the rubric's   *)
(* order of evidence.                                                      *)
THEOREM AcceptedPassesDatabase ==
  ASSUME NEW g \in GradeShapes, NEW s \in GradeShapes,
         validate_payload(g, s, Rubric, Blocks)
  PROVE  validate_teacher_review_payload(g, calculate_grade_totals(g, Rubric), s, Rubric)
           <=> WrittenLike(g, s)
<1>1. /\ \A n \in DOMAIN g.evidence : g.evidence[n].target \in Targets(g)
      /\ validate_grade_response(g, Rubric, Blocks)
      /\ Changed(g, s) => g.reason
  BY DEF validate_payload
<1>2. /\ require_exact_ids(Ids(g.criteria), Ids(Rubric.dimensions))
      /\ require_exact_ids(Ids(g.deductions), Ids(Rubric.deductions))
      /\ \A n \in DOMAIN g.criteria :
           ScoreFits(g.criteria[n].score, Rubric.dimensions[n], Rubric)
  BY <1>1 DEF validate_grade_response
<1>3. /\ g.criteria \in Seq(Criteria)
      /\ g.deductions \in Seq([id : STRING, applied : BOOLEAN])
      /\ Rubric.dimensions \in Seq([id : STRING, max : Nat])
      /\ Rubric.deductions \in Seq([id : STRING, points : Nat])
  BY ReviewAssumption DEF GradeShapes, GradedRubrics
<1>4. SameIds(g.criteria, Rubric.dimensions)
  <2>1. Ids(g.criteria) = Ids(Rubric.dimensions)
    BY <1>2 DEF require_exact_ids
  <2> QED BY <1>3, <2>1, IdsAgree
<1>5. SameIds(g.deductions, Rubric.deductions)
  <2>1. Ids(g.deductions) = Ids(Rubric.deductions)
    BY <1>2 DEF require_exact_ids
  <2> QED BY <1>3, <2>1, IdsAgree
<1>6. \A n \in DOMAIN g.criteria :
        /\ g.criteria[n].score >= 0
        /\ g.criteria[n].score <= Rubric.dimensions[n].max
        /\ g.criteria[n].score % Rubric.step = 0
  BY <1>2, PartTypes DEF ScoreFits
<1> DEFINE totals == calculate_grade_totals(g, Rubric)
<1>7. /\ totals.subtotal = SumFunction([n \in DOMAIN g.criteria |-> g.criteria[n].score])
      /\ totals.deductions = AppliedInOrder(g, Rubric)
      /\ totals.total = Max({0, totals.subtotal - totals.deductions})
  <2>1. Subtotal(g) = SumFunction([n \in DOMAIN g.criteria |-> g.criteria[n].score])
    BY DEF Subtotal, SumOf
  <2>2. DeductionTotal(g, Rubric) = AppliedInOrder(g, Rubric)
    BY <1>2, DeductionsAgree
  <2> HIDE DEF totals
  <2>3. /\ totals.subtotal = Subtotal(g) /\ totals.deductions = DeductionTotal(g, Rubric)
        /\ totals.total = Max({0, Subtotal(g) - DeductionTotal(g, Rubric)})
    BY TotalsOf DEF totals
  <2> QED BY <2>1, <2>2, <2>3
<1> DEFINE Plain == \A n \in DOMAIN g.criteria : MatchesPattern(g.criteria[n].form)
           Same == /\ g.criteria = s.criteria /\ g.deductions = s.deductions
                   /\ g.evidence = Flattened(s)
<1>8. (g.reason \/ Same) <=>
        \/ g.reason
        \/ /\ g.evidence = Flattened(g)
           /\ \A n \in DOMAIN g.criteria : g.criteria[n].form = s.criteria[n].form
  <2>1. CASE g.reason
    BY <2>1
  <2>2. CASE ~g.reason
    <3>1. ~Changed(g, s)
      BY <1>1, <2>2
    <3>2. Flattened(g) = Flattened(s)
      BY <3>1, FlattenedAgree
    <3>3. canonical(g.criteria) = canonical(s.criteria) /\ g.deductions = s.deductions
      BY <3>1 DEF Changed
    <3>4. (\A n \in DOMAIN g.criteria : g.criteria[n].form = s.criteria[n].form)
            <=> g.criteria = s.criteria
      BY <3>3, CanonicalAgree
    <3> QED BY <2>2, <3>2, <3>3, <3>4
  <2> QED BY <2>1, <2>2
<1> HIDE DEF totals, Plain, Same
<1>9. validate_teacher_review_payload(g, totals, s, Rubric) <=> Plain /\ (g.reason \/ Same)
  <2>1. validate_teacher_review_payload(g, totals, s, Rubric)
          => Plain /\ (g.reason \/ Same)
    BY DEF validate_teacher_review_payload, Plain, Same
  <2>2. Plain /\ (g.reason \/ Same)
          => validate_teacher_review_payload(g, totals, s, Rubric)
    BY <1>1, <1>4, <1>5, <1>6, <1>7 DEF validate_teacher_review_payload, Plain, Same
  <2> QED BY <2>1, <2>2
<1>10. WrittenLike(g, s) <=>
         Plain /\ (\/ g.reason
                   \/ /\ g.evidence = Flattened(g)
                      /\ \A n \in DOMAIN g.criteria : g.criteria[n].form = s.criteria[n].form)
  BY DEF WrittenLike, Plain
<1> QED BY <1>8, <1>9, <1>10 DEF totals

-----------------------------------------------------------------------------
(* One paper and its reviews                                               *)

(* Grades the database has accepted over some suggestion.                  *)
Worthy == {g \in Grades : \E s \in Suggestions : <<g, s>> \in Storable}

ItemRows == [status : ItemStatuses, round : Rounds]

(* A row of teacher_reviews.                                               *)
RowInv(x) ==
  \/ x = NoReview
  \/ x \in [status : {"draft", "confirmed"}, revision : 1..MaxRevision,
            grade : Worthy, score : {Score[x.grade]}]

(* The rows of one paper: none for rounds to come, revisions rise from     *)
(* round to round, and the paper is completed when the review of its round *)
(* is confirmed.                                                           *)
PaperInv(it, rows) ==
  /\ it \in ItemRows
  /\ rows = [r \in Rounds |-> rows[r]]
  /\ \A r \in Rounds : RowInv(rows[r])
  /\ \A r \in Rounds : r > it.round => rows[r] = NoReview
  /\ \A q, r \in Rounds : q < r /\ rows[r] # NoReview => rows[q].revision < rows[r].revision
  /\ \A r \in Rounds : rows[r].status = "confirmed"
                         <=> it.status = "completed" /\ r = it.round

(* NextRevision, of the rows of a paper.                                   *)
NextOf(it, rows) ==
  IF rows[it.round] # NoReview THEN rows[it.round].revision + 1
  ELSE Max({rows[r].revision : r \in Rounds}) + 1

(* The rows after a save and after a confirmation of the draft.            *)
RowsSaved(it, rows, g, st) ==
  [rows EXCEPT ![it.round] = [status |-> st, revision |-> NextOf(it, rows), grade |-> g,
                              score |-> Score[g]]]
RowsSettled(it, rows) == [rows EXCEPT ![it.round].status = "confirmed"]

(* What a step may do to a paper and its rows.                             *)
Untouched(it, rows, it2, rows2) == it2 = it /\ rows2 = rows
Ended(it, rows, it2, rows2) ==
  /\ it.status = "grading" /\ rows2 = rows
  /\ it2 \in ItemRows /\ it2.round = it.round
  /\ it2.status \in {"needs_review", "failed", "cancelled"}
Regraded(it, rows, it2, rows2) ==
  /\ it.status \in {"needs_review", "failed"} /\ rows2 = rows
  /\ it2 \in ItemRows /\ it2.status = "grading" /\ it2.round = it.round + 1
Stored(it, rows, it2, rows2) ==
  /\ it.status = "needs_review" /\ NextOf(it, rows) <= MaxRevision
  /\ it2 \in ItemRows /\ it2.round = it.round
  /\ \E g \in Worthy : \E st \in {"draft", "confirmed"} :
       /\ it2.status = IF st = "draft" THEN "needs_review" ELSE "completed"
       /\ rows2 = RowsSaved(it, rows, g, st)
Settled(it, rows, it2, rows2) ==
  /\ it.status = "needs_review" /\ rows[it.round].status = "draft"
  /\ it2 \in ItemRows /\ it2.round = it.round /\ it2.status = "completed"
  /\ rows2 = RowsSettled(it, rows)
PaperStep(it, rows, it2, rows2) ==
  \/ Untouched(it, rows, it2, rows2) \/ Ended(it, rows, it2, rows2)
  \/ Regraded(it, rows, it2, rows2) \/ Stored(it, rows, it2, rows2)
  \/ Settled(it, rows, it2, rows2)

(* Fields of a row.                                                        *)
LEMMA RowFields ==
  /\ NoReview.status = "absent" /\ NoReview.revision = 0
  /\ \A x : RowInv(x) /\ x # NoReview =>
       /\ x.status \in {"draft", "confirmed"} /\ x.revision \in 1..MaxRevision
       /\ x.grade \in Worthy /\ x.score = Score[x.grade]
       /\ x \in [status : {"draft", "confirmed"}, revision : 1..MaxRevision,
                 grade : Worthy, score : {Score[x.grade]}]
  /\ \A x : RowInv(x) => /\ x.revision \in 0..MaxRevision
                         /\ x.revision = 0 => x = NoReview
                         /\ x.status \in {"absent", "draft", "confirmed"}
                         /\ x.status # "absent" => x # NoReview
<1>0. MaxRevision \in Nat
  BY ReviewAssumption
<1>1. NoReview.status = "absent" /\ NoReview.revision = 0
  BY DEF NoReview
<1> QED BY <1>0, <1>1 DEF RowInv

(* The largest of a set of revisions.                                      *)
LEMMA LargestExists ==
  ASSUME NEW T \in SUBSET Nat, T # {}, NEW b \in Nat, \A y \in T : y <= b
  PROVE  Max(T) \in T /\ \A y \in T : Max(T) >= y
<1> DEFINE Above == {n \in Nat : \A y \in T : n >= y}
<1>1. b \in Above
  OBVIOUS
<1>2. PICK n \in Above : \A m \in Above : n <= m
  <2>1. Above \in SUBSET Nat /\ Above # {}
    BY <1>1
  <2> HIDE DEF Above
  <2> QED BY <2>1, SmallestNumber
<1>3. n \in T
  <2> SUFFICES ASSUME n \notin T PROVE FALSE
    OBVIOUS
  <2>1. \A y \in T : y < n
    OBVIOUS
  <2>2. n > 0
    <3>1. PICK y \in T : TRUE
      OBVIOUS
    <3>2. y \in Nat /\ y < n
      BY <2>1
    <3> QED BY <3>2
  <2>3. n - 1 \in Above
    BY <2>1, <2>2
  <2> QED BY <1>2, <2>3
<1>4. \E x \in T : \A y \in T : x >= y
  BY <1>2, <1>3
<1> QED BY <1>4 DEF Max

(* The next revision is above all there are.                               *)
LEMMA NextIsAbove ==
  ASSUME NEW it, NEW rows, PaperInv(it, rows)
  PROVE  /\ NextOf(it, rows) \in Nat /\ NextOf(it, rows) >= 1
         /\ \A r \in Rounds : rows[r].revision < NextOf(it, rows)
<1>0. /\ it.round \in Rounds /\ Rounds \subseteq Int /\ MaxRevision \in Nat
      /\ \A r \in Rounds : rows[r].revision \in 0..MaxRevision
  BY ReviewAssumption, RowFields DEF PaperInv, ItemRows, Rounds
<1>1. CASE rows[it.round] # NoReview
  <2>1. NextOf(it, rows) = rows[it.round].revision + 1
    BY <1>1 DEF NextOf
  <2>2. \A r \in Rounds : rows[r].revision <= rows[it.round].revision
    <3> SUFFICES ASSUME NEW r \in Rounds PROVE rows[r].revision <= rows[it.round].revision
      OBVIOUS
    <3>1. CASE r < it.round
      BY <1>0, <1>1, <3>1 DEF PaperInv
    <3>2. CASE r > it.round
      <4>1. rows[r] = NoReview
        BY <3>2 DEF PaperInv
      <4> QED BY <1>0, <4>1, RowFields
    <3>3. CASE r = it.round
      BY <1>0, <3>3
    <3>4. r \in Int /\ it.round \in Int
      BY <1>0
    <3> QED BY <3>1, <3>2, <3>3, <3>4
  <2>3. rows[it.round].revision \in Nat
    BY <1>0
  <2>4. \A r \in Rounds : rows[r].revision < rows[it.round].revision + 1
    <3> SUFFICES ASSUME NEW r \in Rounds
                 PROVE  rows[r].revision < rows[it.round].revision + 1
      OBVIOUS
    <3>1. rows[r].revision \in Int /\ rows[r].revision <= rows[it.round].revision
      BY <1>0, <2>2
    <3> QED BY <2>3, <3>1
  <2> QED BY <2>1, <2>3, <2>4
<1>2. CASE rows[it.round] = NoReview
  <2> DEFINE T == {rows[r].revision : r \in Rounds}
  <2>1. T \in SUBSET Nat /\ T # {} /\ \A y \in T : y <= MaxRevision
    <3>1. \A y \in T : y \in 0..MaxRevision
      BY <1>0
    <3>2. rows[it.round].revision \in T
      BY <1>0
    <3> HIDE DEF T
    <3> QED BY <1>0, <3>1, <3>2
  <2>2. NextOf(it, rows) = Max(T) + 1
    BY <1>2 DEF NextOf
  <2>3. \A r \in Rounds : rows[r].revision \in T
    OBVIOUS
  <2> HIDE DEF T
  <2>4. Max(T) \in T /\ \A y \in T : Max(T) >= y
    BY <1>0, <2>1, LargestExists
  <2>5. Max(T) \in Nat
    BY <2>1, <2>4
  <2> QED BY <1>0, <2>2, <2>3, <2>4, <2>5
<1> QED BY <1>1, <1>2

(* The rows after a save.                                                  *)
LEMMA StoredRow ==
  ASSUME NEW it, NEW rows, PaperInv(it, rows), NextOf(it, rows) <= MaxRevision,
         NEW g \in Worthy, NEW st \in {"draft", "confirmed"}, NEW rows2,
         rows2 = RowsSaved(it, rows, g, st)
  PROVE  /\ rows2 = [r \in Rounds |-> rows2[r]]
         /\ \A r \in Rounds \ {it.round} : rows2[r] = rows[r]
         /\ rows2[it.round].status = st /\ rows2[it.round].grade = g
         /\ rows2[it.round].revision = NextOf(it, rows)
         /\ rows2[it.round] # NoReview /\ RowInv(rows2[it.round])
<1>0. it.round \in Rounds /\ rows = [r \in Rounds |-> rows[r]] /\ MaxRevision \in Nat
  BY ReviewAssumption DEF PaperInv, ItemRows
<1>1. PICK x : x = [status |-> st, revision |-> NextOf(it, rows), grade |-> g,
                    score |-> Score[g]]
  OBVIOUS
<1>2. /\ rows2[it.round] = x /\ \A r \in Rounds \ {it.round} : rows2[r] = rows[r]
      /\ rows2 = [r \in Rounds |-> rows2[r]]
  BY <1>0, <1>1 DEF RowsSaved
<1>3. /\ x.status = st /\ x.revision = NextOf(it, rows) /\ x.grade = g
      /\ x.score = Score[x.grade] /\ x.revision \in 1..MaxRevision
  BY <1>0, <1>1, NextIsAbove
<1>4. x \in [status : {"draft", "confirmed"}, revision : 1..MaxRevision,
             grade : Worthy, score : {Score[x.grade]}]
  BY <1>1, <1>3
<1>5. x # NoReview
  BY <1>3, RowFields
<1> QED BY <1>2, <1>3, <1>4, <1>5 DEF RowInv

(* The rows after a confirmation of the draft.                             *)
LEMMA SettledRow ==
  ASSUME NEW it, NEW rows, PaperInv(it, rows), rows[it.round].status = "draft", NEW rows2,
         rows2 = RowsSettled(it, rows)
  PROVE  /\ rows2 = [r \in Rounds |-> rows2[r]]
         /\ \A r \in Rounds \ {it.round} : rows2[r] = rows[r]
         /\ rows2[it.round].status = "confirmed"
         /\ rows2[it.round].grade = rows[it.round].grade
         /\ rows2[it.round].revision = rows[it.round].revision
         /\ rows2[it.round] # NoReview /\ RowInv(rows2[it.round])
<1>0. it.round \in Rounds /\ rows = [r \in Rounds |-> rows[r]] /\ MaxRevision \in Nat
  BY ReviewAssumption DEF PaperInv, ItemRows
<1>1. PICK old : old = rows[it.round]
  OBVIOUS
<1>2. RowInv(old) /\ old.status = "draft"
  BY <1>0, <1>1 DEF PaperInv
<1>3. old # NoReview
  BY <1>2, RowFields
<1>4. /\ old \in [status : {"draft", "confirmed"}, revision : 1..MaxRevision,
                  grade : Worthy, score : {Score[old.grade]}]
      /\ old.score = Score[old.grade]
  BY <1>2, <1>3, RowFields
<1>5. PICK x : x = [old EXCEPT !.status = "confirmed"]
  OBVIOUS
<1>6. /\ x.status = "confirmed" /\ x.grade = old.grade /\ x.revision = old.revision
      /\ x \in [status : {"draft", "confirmed"}, revision : 1..MaxRevision,
                grade : Worthy, score : {Score[old.grade]}]
  BY <1>4, <1>5
<1>7. x # NoReview
  BY <1>6, RowFields
<1>8. RowInv(x)
  BY <1>6 DEF RowInv
<1>9. /\ rows2[it.round] = x /\ \A r \in Rounds \ {it.round} : rows2[r] = rows[r]
      /\ rows2 = [r \in Rounds |-> rows2[r]]
  BY <1>0, <1>1, <1>5 DEF RowsSettled
<1> QED BY <1>1, <1>6, <1>7, <1>8, <1>9

(* Rows in which only the current one was written.                         *)
LEMMA WrittenRow ==
  ASSUME NEW it, NEW rows, PaperInv(it, rows), it.status = "needs_review",
         NEW it2 \in ItemRows, it2.round = it.round, NEW rows2,
         rows2 = [r \in Rounds |-> rows2[r]],
         \A r \in Rounds \ {it.round} : rows2[r] = rows[r],
         RowInv(rows2[it.round]),
         \A q \in Rounds : q < it.round => rows[q].revision < rows2[it.round].revision,
         rows2[it.round].status = "confirmed" <=> it2.status = "completed"
  PROVE  PaperInv(it2, rows2)
<1>0. it.round \in Rounds /\ it.round \in Int /\ Rounds \subseteq Int
  BY DEF PaperInv, ItemRows, Rounds
<1>1. \A r \in Rounds : RowInv(rows2[r])
  BY DEF PaperInv
<1>2. \A r \in Rounds : r > it2.round => rows2[r] = NoReview
  BY <1>0 DEF PaperInv
<1>3. ASSUME NEW q \in Rounds, NEW r \in Rounds, q < r, rows2[r] # NoReview
      PROVE  rows2[q].revision < rows2[r].revision
  <2>1. r <= it.round /\ q # it.round
    BY <1>0, <1>2, <1>3
  <2>2. rows2[q] = rows[q]
    BY <2>1
  <2>3. CASE r = it.round
    BY <1>3, <2>2, <2>3
  <2>4. CASE r # it.round
    <3>1. rows2[r] = rows[r]
      BY <2>4
    <3> QED BY <1>3, <2>2, <3>1 DEF PaperInv
  <2> QED BY <2>3, <2>4
<1>4. ASSUME NEW r \in Rounds
      PROVE  rows2[r].status = "confirmed" <=> it2.status = "completed" /\ r = it2.round
  <2>1. CASE r = it.round
    BY <2>1
  <2>2. CASE r # it.round
    <3>1. rows2[r] = rows[r] /\ rows[r].status # "confirmed"
      BY <2>2 DEF PaperInv
    <3> QED BY <2>2, <3>1
  <2> QED BY <2>1, <2>2
<1> QED BY <1>1, <1>2, <1>3, <1>4 DEF PaperInv

(* Every step of a paper keeps its rows in order.                          *)
LEMMA PaperKept ==
  ASSUME NEW it, NEW rows, NEW it2, NEW rows2, PaperInv(it, rows),
         PaperStep(it, rows, it2, rows2)
  PROVE  PaperInv(it2, rows2)
<1>0. it.round \in Rounds /\ it.round \in Int /\ Rounds \subseteq Int
  BY DEF PaperInv, ItemRows, Rounds
<1>1. CASE Untouched(it, rows, it2, rows2)
  BY <1>1 DEF Untouched
<1>2. CASE Ended(it, rows, it2, rows2)
  BY <1>2 DEF Ended, PaperInv
<1>3. CASE Regraded(it, rows, it2, rows2)
  <2>1. \A r \in Rounds : r > it2.round => rows2[r] = NoReview
    BY <1>0, <1>3 DEF Regraded, PaperInv
  <2> QED BY <1>3, <2>1 DEF Regraded, PaperInv
<1>4. CASE Stored(it, rows, it2, rows2)
  <2>1. PICK g \in Worthy, st \in {"draft", "confirmed"} :
          /\ it2.status = IF st = "draft" THEN "needs_review" ELSE "completed"
          /\ rows2 = RowsSaved(it, rows, g, st)
    BY <1>4 DEF Stored
  <2>2. /\ it.status = "needs_review" /\ NextOf(it, rows) <= MaxRevision
        /\ it2 \in ItemRows /\ it2.round = it.round
    BY <1>4 DEF Stored
  <2>3. /\ rows2 = [r \in Rounds |-> rows2[r]]
        /\ \A r \in Rounds \ {it.round} : rows2[r] = rows[r]
        /\ rows2[it.round].status = st /\ RowInv(rows2[it.round])
        /\ rows2[it.round].revision = NextOf(it, rows)
    BY <2>1, <2>2, StoredRow
  <2>4. \A q \in Rounds : q < it.round => rows[q].revision < rows2[it.round].revision
    BY <2>3, NextIsAbove
  <2>5. rows2[it.round].status = "confirmed" <=> it2.status = "completed"
    BY <2>1, <2>3
  <2> QED BY <2>2, <2>3, <2>4, <2>5, WrittenRow
<1>5. CASE Settled(it, rows, it2, rows2)
  <2>1. /\ it.status = "needs_review" /\ rows[it.round].status = "draft"
        /\ it2 \in ItemRows /\ it2.round = it.round /\ it2.status = "completed"
        /\ rows2 = RowsSettled(it, rows)
    BY <1>5 DEF Settled
  <2>2. /\ rows2 = [r \in Rounds |-> rows2[r]]
        /\ \A r \in Rounds \ {it.round} : rows2[r] = rows[r]
        /\ rows2[it.round].status = "confirmed" /\ RowInv(rows2[it.round])
        /\ rows2[it.round].revision = rows[it.round].revision
    BY <2>1, SettledRow
  <2>3. rows[it.round] # NoReview
    BY <2>1, RowFields
  <2>4. \A q \in Rounds : q < it.round => rows[q].revision < rows2[it.round].revision
    BY <1>0, <2>2, <2>3 DEF PaperInv
  <2>5. rows2[it.round].status = "confirmed" <=> it2.status = "completed"
    BY <2>1, <2>2
  <2> QED BY <2>1, <2>2, <2>4, <2>5, WrittenRow
<1> QED BY <1>1, <1>2, <1>3, <1>4, <1>5 DEF PaperStep

(* What a request remembers of a paper: a round that is over, or a         *)
(* revision and, while it is the newest, the grade of it.                  *)
Remembered(n, g, it, rows) ==
  /\ n.round \in Rounds /\ n.revision \in Nat
  /\ \/ n.round < it.round
     \/ /\ n.round = it.round /\ rows[it.round] # NoReview
        /\ n.revision <= rows[it.round].revision
        /\ n.revision = rows[it.round].revision => g = rows[it.round].grade

(* No step makes it wrong.                                                 *)
LEMMA MemoryHolds ==
  ASSUME NEW it, NEW rows, NEW it2, NEW rows2, PaperInv(it, rows),
         PaperStep(it, rows, it2, rows2), NEW n, NEW g, Remembered(n, g, it, rows)
  PROVE  Remembered(n, g, it2, rows2)
<1>0. it.round \in Rounds /\ it.round \in Int /\ Rounds \subseteq Int
  BY DEF PaperInv, ItemRows, Rounds
<1>1. CASE Untouched(it, rows, it2, rows2) \/ Ended(it, rows, it2, rows2)
  BY <1>1 DEF Untouched, Ended, Remembered
<1>2. CASE Regraded(it, rows, it2, rows2)
  <2>0. it2.round = it.round + 1
    BY <1>2 DEF Regraded
  <2>1. n.round \in Int /\ (n.round < it.round \/ n.round = it.round)
    BY <1>0 DEF Remembered
  <2>2. n.round < it2.round
    BY <1>0, <2>0, <2>1
  <2> QED BY <2>2 DEF Remembered
<1>3. CASE Stored(it, rows, it2, rows2)
  <2>1. PICK h \in Worthy, st \in {"draft", "confirmed"} :
          rows2 = RowsSaved(it, rows, h, st)
    BY <1>3 DEF Stored
  <2>2. NextOf(it, rows) <= MaxRevision /\ it2.round = it.round
    BY <1>3 DEF Stored
  <2>3. /\ rows2[it.round] # NoReview
        /\ rows2[it.round].revision = NextOf(it, rows)
    BY <2>1, <2>2, StoredRow
  <2>4. rows[it.round].revision < NextOf(it, rows) /\ NextOf(it, rows) \in Nat
    BY <1>0, NextIsAbove
  <2>5. rows[it.round].revision \in Int
    BY <1>0, RowFields, ReviewAssumption DEF PaperInv
  <2>6. CASE n.round < it.round
    BY <2>2, <2>6 DEF Remembered
  <2>7. CASE n.round = it.round
    <3>1. n.revision <= rows[it.round].revision /\ n.revision \in Int
      BY <1>0, <2>7 DEF Remembered
    <3>2. n.revision < rows2[it.round].revision
      BY <2>3, <2>4, <2>5, <3>1
    <3>3. rows2[it.round].revision \in Int
      BY <2>3, <2>4
    <3> QED BY <2>2, <2>3, <2>7, <3>1, <3>2, <3>3 DEF Remembered
  <2> QED BY <2>6, <2>7 DEF Remembered
<1>4. CASE Settled(it, rows, it2, rows2)
  <2>1. /\ rows[it.round].status = "draft" /\ it2.round = it.round
        /\ rows2 = RowsSettled(it, rows)
    BY <1>4 DEF Settled
  <2>2. /\ rows2[it.round].grade = rows[it.round].grade
        /\ rows2[it.round].revision = rows[it.round].revision
        /\ rows2[it.round] # NoReview
    BY <2>1, SettledRow
  <2> QED BY <2>1, <2>2 DEF Remembered
<1> QED BY <1>1, <1>2, <1>3, <1>4 DEF PaperStep

(* The triggers let every step pass.                                       *)
LEMMA StepPasses ==
  ASSUME NEW it, NEW rows, NEW it2, NEW rows2, PaperInv(it, rows),
         PaperStep(it, rows, it2, rows2)
  PROVE  /\ ItemTriggerAccepts(it, it2)
         /\ \A r \in Rounds :
              LET saved == [rows2[r] EXCEPT !.status = "draft"] IN
              \/ ReviewTriggerAccepts(rows[r], rows2[r])
              \/ ReviewTriggerAccepts(rows[r], saved) /\ ReviewTriggerAccepts(saved, rows2[r])
<1>0. it.round \in Rounds /\ it.status \in ItemStatuses
  BY DEF PaperInv, ItemRows
<1>1. CASE Untouched(it, rows, it2, rows2)
  BY <1>1 DEF Untouched, ItemTriggerAccepts, ReviewTriggerAccepts
<1>2. CASE Ended(it, rows, it2, rows2)
  BY <1>2 DEF Ended, ItemTriggerAccepts, ReviewTriggerAccepts
<1>3. CASE Regraded(it, rows, it2, rows2)
  BY <1>3 DEF Regraded, ItemTriggerAccepts, ReviewTriggerAccepts
<1>4. CASE Stored(it, rows, it2, rows2)
  <2>1. PICK g \in Worthy, st \in {"draft", "confirmed"} :
          /\ it2.status = IF st = "draft" THEN "needs_review" ELSE "completed"
          /\ rows2 = RowsSaved(it, rows, g, st)
    BY <1>4 DEF Stored
  <2>2. /\ it.status = "needs_review" /\ NextOf(it, rows) <= MaxRevision
        /\ it2 \in ItemRows /\ it2.round = it.round /\ it \in ItemRows
    BY <1>4 DEF Stored, PaperInv
  <2>3. /\ \A r \in Rounds \ {it.round} : rows2[r] = rows[r]
        /\ rows2[it.round].status = st /\ rows2[it.round].revision = NextOf(it, rows)
        /\ rows2[it.round] # NoReview /\ RowInv(rows2[it.round])
    BY <2>1, <2>2, StoredRow
  <2>4. ItemTriggerAccepts(it, it2)
    <3>1. CASE st = "draft"
      <4>1. it2 = it
        BY <2>1, <2>2, <3>1 DEF ItemRows
      <4> QED BY <4>1 DEF ItemTriggerAccepts
    <3>2. CASE st = "confirmed"
      BY <2>1, <2>2, <3>2 DEF ItemTriggerAccepts
    <3> QED BY <3>1, <3>2
  <2>5. PICK old, new : old = rows[it.round] /\ new = rows2[it.round]
    OBVIOUS
  <2>6. PICK saved : saved = [new EXCEPT !.status = "draft"]
    OBVIOUS
  <2>7. saved.status = "draft" /\ saved.revision = new.revision
    BY <2>3, <2>5, <2>6, RowFields
  <2>8. old = NoReview \/ (old.status = "draft" /\ new.revision = old.revision + 1)
    <3>1. RowInv(old) /\ old.status # "confirmed"
      BY <1>0, <2>2, <2>5 DEF PaperInv
    <3>2. old # NoReview => old.status = "draft"
      BY <3>1, RowFields
    <3>3. old # NoReview => NextOf(it, rows) = old.revision + 1
      BY <2>5 DEF NextOf
    <3> QED BY <2>3, <2>5, <3>2, <3>3
  <2>9. ReviewTriggerAccepts(old, saved)
    BY <2>7, <2>8 DEF ReviewTriggerAccepts
  <2>10. ReviewTriggerAccepts(saved, new) \/ ReviewTriggerAccepts(old, new)
    <3>1. CASE st = "draft"
      BY <2>3, <2>5, <2>8, <3>1 DEF ReviewTriggerAccepts
    <3>2. CASE st = "confirmed"
      BY <2>3, <2>5, <2>7, <3>2 DEF ReviewTriggerAccepts
    <3> QED BY <3>1, <3>2
  <2>11. \A r \in Rounds \ {it.round} : ReviewTriggerAccepts(rows[r], rows2[r])
    BY <2>3 DEF ReviewTriggerAccepts
  <2> QED BY <2>4, <2>5, <2>6, <2>9, <2>10, <2>11
<1>5. CASE Settled(it, rows, it2, rows2)
  <2>1. /\ it.status = "needs_review" /\ rows[it.round].status = "draft"
        /\ it2 \in ItemRows /\ it2.round = it.round /\ it2.status = "completed"
        /\ rows2 = RowsSettled(it, rows)
    BY <1>5 DEF Settled
  <2>2. /\ \A r \in Rounds \ {it.round} : rows2[r] = rows[r]
        /\ rows2[it.round].status = "confirmed"
        /\ rows2[it.round].revision = rows[it.round].revision
    BY <2>1, SettledRow
  <2>3. ItemTriggerAccepts(it, it2)
    BY <2>1 DEF ItemTriggerAccepts
  <2>4. \A r \in Rounds : ReviewTriggerAccepts(rows[r], rows2[r])
    BY <2>1, <2>2 DEF ReviewTriggerAccepts
  <2> QED BY <2>3, <2>4
<1> QED BY <1>1, <1>2, <1>3, <1>4, <1>5 DEF PaperStep

-----------------------------------------------------------------------------
(* All papers, requests and exports                                        *)

PapersInv ==
  /\ item = [i \in Items |-> item[i]] /\ review = [i \in Items |-> review[i]]
  /\ suggestion \in [Items -> Suggestions \cup {NoGrade}]
  /\ \A i \in Items : PaperInv(item[i], review[i])

(* What a request holds is true, or it is refused when it is used.         *)
Naming(c) ==
  /\ c.pc = "naming" /\ DOMAIN c.named \subseteq Items
  /\ \A i \in DOMAIN c.named : Remembered(c.named[i], c.sent[i], item[i], review[i])
TabsInv ==
  /\ tab = [t \in Tabs |-> tab[t]]
  /\ \A t \in Tabs : tab[t] \in {Idle, Misled} \cup Request \/ Naming(tab[t])

ExportsTyped ==
  \A k \in Keys : \/ export[k] = Idle
                  \/ /\ export[k].type \in {"draft", "final"}
                     /\ \A i \in Items : export[k].rows[i].source \in Sources

ReviewInv ==
  /\ PapersInv /\ TabsInv
  /\ batch \in {"running", "needs_review", "completed", "failed", "cancelled"}
  /\ export = [k \in Keys |-> export[k]] /\ ExportsTyped /\ ExportedGradesAreFinal

(* The checks of the backend and of the database, by name.                 *)
PassesBackend(g, s) == validate_payload(Content(g), Content(s), Rubric, Blocks)
PassesDatabase(g, s) ==
  validate_teacher_review_payload(
    Content(g), calculate_grade_totals(Content(g), Rubric), Content(s), Rubric)

(* What the two validators accept, as it is looked up.                     *)
LEMMA PairsMean ==
  ASSUME NEW g, NEW s
  PROVE  /\ <<g, s>> \in Acceptable <=>
              g \in Grades /\ s \in Suggestions /\ PassesBackend(g, s)
         /\ <<g, s>> \in Storable <=>
              g \in Grades /\ s \in Suggestions /\ PassesDatabase(g, s)
         /\ <<g, s>> \in WrittenLikeTheirs <=>
              g \in Grades /\ s \in Suggestions /\ WrittenLike(Content(g), Content(s))
<1>1. Acceptable = UNION {{<<h, t>> : h \in {k \in Grades : PassesBackend(k, t)}} : t \in Suggestions}
  BY DEF Acceptable, Pairs, PassesBackend
<1>2. ASSUME <<g, s>> \in Acceptable PROVE g \in Grades /\ s \in Suggestions /\ PassesBackend(g, s)
  <2>1. PICK t \in Suggestions : <<g, s>> \in {<<h, t>> : h \in {k \in Grades : PassesBackend(k, t)}}
    BY <1>1, <1>2
  <2>2. PICK h \in {k \in Grades : PassesBackend(k, t)} : <<g, s>> = <<h, t>>
    BY <2>1
  <2> QED BY <2>2
<1>3. ASSUME g \in Grades, s \in Suggestions, PassesBackend(g, s) PROVE <<g, s>> \in Acceptable
  <2>1. <<g, s>> \in {<<h, s>> : h \in {k \in Grades : PassesBackend(k, s)}}
    BY <1>3
  <2> QED BY <1>1, <1>3, <2>1
<1>4. Storable = UNION {{<<h, t>> : h \in {k \in Grades : PassesDatabase(k, t)}} : t \in Suggestions}
  BY DEF Storable, Pairs, PassesDatabase
<1>5. ASSUME <<g, s>> \in Storable PROVE g \in Grades /\ s \in Suggestions /\ PassesDatabase(g, s)
  <2>1. PICK t \in Suggestions : <<g, s>> \in {<<h, t>> : h \in {k \in Grades : PassesDatabase(k, t)}}
    BY <1>4, <1>5
  <2>2. PICK h \in {k \in Grades : PassesDatabase(k, t)} : <<g, s>> = <<h, t>>
    BY <2>1
  <2> QED BY <2>2
<1>6. ASSUME g \in Grades, s \in Suggestions, PassesDatabase(g, s) PROVE <<g, s>> \in Storable
  <2>1. <<g, s>> \in {<<h, s>> : h \in {k \in Grades : PassesDatabase(k, s)}}
    BY <1>6
  <2> QED BY <1>4, <1>6, <2>1
<1> DEFINE Alike(k, t) == WrittenLike(Content(k), Content(t))
<1>7. WrittenLikeTheirs = UNION {{<<h, t>> : h \in {k \in Grades : Alike(k, t)}} : t \in Suggestions}
  BY DEF WrittenLikeTheirs, Pairs
<1> HIDE DEF Alike
<1>8. ASSUME <<g, s>> \in WrittenLikeTheirs PROVE g \in Grades /\ s \in Suggestions /\ Alike(g, s)
  <2>1. PICK t \in Suggestions : <<g, s>> \in {<<h, t>> : h \in {k \in Grades : Alike(k, t)}}
    BY <1>7, <1>8
  <2>2. PICK h \in {k \in Grades : Alike(k, t)} : <<g, s>> = <<h, t>>
    BY <2>1
  <2> QED BY <2>2
<1>9. ASSUME g \in Grades, s \in Suggestions, Alike(g, s) PROVE <<g, s>> \in WrittenLikeTheirs
  <2>1. <<g, s>> \in {<<h, s>> : h \in {k \in Grades : Alike(k, s)}}
    BY <1>9
  <2> QED BY <1>7, <1>9, <2>1
<1> QED BY <1>2, <1>3, <1>5, <1>6, <1>8, <1>9 DEF Alike

(* A step on all papers.                                                   *)
PapersStep ==
  /\ item' = [i \in Items |-> item'[i]] /\ review' = [i \in Items |-> review'[i]]
  /\ suggestion' \in [Items -> Suggestions \cup {NoGrade}]
  /\ \A i \in Items : PaperStep(item[i], review[i], item'[i], review'[i])

(* The item rows that CompletePapers leaves.                               *)
LEMMA CompletedRows ==
  ASSUME PapersInv, NEW S \in SUBSET Items, CompletePapers(S)
  PROVE  /\ item' = [i \in Items |-> item'[i]]
         /\ \A i \in S : /\ item'[i] \in ItemRows /\ item'[i].status = "completed"
                         /\ item'[i].round = item[i].round
         /\ \A i \in Items \ S : item'[i] = item[i]
         /\ batch' \in {"running", "needs_review", "completed", "failed", "cancelled"}
<1>1. \A i \in Items : item[i] \in [status : ItemStatuses, round : Rounds]
  BY DEF PapersInv, PaperInv, ItemRows
<1>2. item' = [i \in Items |-> IF i \in S THEN [item[i] EXCEPT !.status = "completed"]
                               ELSE item[i]]
  BY DEF CompletePapers
<1>3. \A i \in S : item'[i] = [item[i] EXCEPT !.status = "completed"]
  BY <1>2
<1>4. "completed" \in ItemStatuses
  BY DEF ItemStatuses
<1>5. \A i \in S : /\ item'[i] \in ItemRows /\ item'[i].status = "completed"
                   /\ item'[i].round = item[i].round
  BY <1>1, <1>3, <1>4 DEF ItemRows
<1>6. batch' \in {"running", "needs_review", "completed", "failed", "cancelled"}
  BY DEF CompletePapers
<1> QED BY <1>2, <1>5, <1>6

(* A saved review.                                                         *)
LEMMA SavedPaper ==
  ASSUME PapersInv, NEW i \in Items, NEW round, NEW g, Savable(i, round, g),
         NEW st \in {"draft", "confirmed"}, review' = Saved(i, round, g, st)
  PROVE  /\ review' = [j \in Items |-> review'[j]]
         /\ \A j \in Items \ {i} : review'[j] = review[j]
         /\ round = item[i].round /\ item[i].status = "needs_review" /\ g \in Worthy
         /\ NextOf(item[i], review[i]) <= MaxRevision
         /\ review'[i] = RowsSaved(item[i], review[i], g, st)
         /\ review'[i][item[i].round].grade = g
<1>1. /\ round = item[i].round /\ item[i].status = "needs_review"
      /\ suggestion[i] # NoGrade /\ <<g, suggestion[i]>> \in Storable
      /\ NextRevision(i) <= MaxRevision
  BY DEF Savable, HasTarget, DatabaseAccepts
<1>2. NextRevision(i) = NextOf(item[i], review[i])
  BY DEF NextRevision, NextOf, Current, Revisions
<1>3. g \in Worthy
  <2>1. suggestion[i] \in Suggestions /\ g \in Grades
    BY <1>1, PairsMean
  <2> QED BY <1>1, <2>1 DEF Worthy
<1>4. PICK x : x = [status |-> st, revision |-> NextRevision(i), grade |-> g,
                    score |-> Score[g]]
  OBVIOUS
<1>5. review' = [review EXCEPT ![i][round] = x]
  BY <1>4 DEF Saved
<1>6. /\ review = [j \in Items |-> review[j]] /\ item[i].round \in Rounds
      /\ review[i] = [r \in Rounds |-> review[i][r]]
  BY DEF PapersInv, PaperInv, ItemRows
<1>7. /\ review' = [j \in Items |-> review'[j]]
      /\ \A j \in Items \ {i} : review'[j] = review[j]
      /\ review'[i] = [review[i] EXCEPT ![round] = x]
  BY <1>5, <1>6
<1>8. review'[i] = RowsSaved(item[i], review[i], g, st)
  BY <1>1, <1>2, <1>4, <1>7 DEF RowsSaved
<1>9. review'[i][item[i].round].grade = g
  <2>1. review'[i][item[i].round] = x
    BY <1>1, <1>6, <1>7
  <2> QED BY <1>4, <2>1
<1> QED BY <1>1, <1>2, <1>3, <1>7, <1>8, <1>9

(* Confirmed reviews.                                                      *)
LEMMA ConfirmedPapers ==
  ASSUME PapersInv, NEW S \in SUBSET Items, \A i \in S : Confirmable(i),
         review' = Confirmed(S), CompletePapers(S)
  PROVE  /\ review' = [i \in Items |-> review'[i]]
         /\ \A i \in Items \ S : review'[i] = review[i]
         /\ \A i \in S : /\ Settled(item[i], review[i], item'[i], review'[i])
                         /\ review'[i][item[i].round].grade = Current(i).grade
<1>1. \A i \in S : item[i].status = "needs_review" /\ review[i][item[i].round].status = "draft"
  BY DEF Confirmable, Current
<1>2. /\ review' = [i \in Items |-> review'[i]]
      /\ \A i \in Items \ S : review'[i] = review[i]
      /\ \A i \in S : review'[i] = RowsSettled(item[i], review[i])
  BY DEF Confirmed, RowsSettled
<1>3. \A i \in S : /\ item'[i] \in ItemRows /\ item'[i].status = "completed"
                   /\ item'[i].round = item[i].round
  BY CompletedRows
<1>4. \A i \in S : Settled(item[i], review[i], item'[i], review'[i])
  BY <1>1, <1>2, <1>3 DEF Settled
<1>5. ASSUME NEW i \in S PROVE review'[i][item[i].round].grade = Current(i).grade
  <2>1. PaperInv(item[i], review[i])
    BY DEF PapersInv
  <2>2. review[i][item[i].round].status = "draft" /\ review'[i] = RowsSettled(item[i], review[i])
    BY <1>1, <1>2
  <2>3. review'[i][item[i].round].grade = review[i][item[i].round].grade
    BY <2>1, <2>2, SettledRow
  <2> QED BY <2>3 DEF Current
<1> QED BY <1>2, <1>4, <1>5

(* Every action is a step on all papers.                                   *)
LEMMA ActionsStep ==
  ASSUME PapersInv, TabsInv, [ReviewNext]_reviewVars
  PROVE  PapersStep
<1>0. /\ item = [i \in Items |-> item[i]] /\ review = [i \in Items |-> review[i]]
      /\ suggestion \in [Items -> Suggestions \cup {NoGrade}]
      /\ \A i \in Items : /\ item[i] \in [status : ItemStatuses, round : Rounds]
                          /\ item[i].round \in Rounds
  BY DEF PapersInv, PaperInv, ItemRows
<1>1. CASE UNCHANGED <<item, suggestion, review>>
  BY <1>0, <1>1 DEF PapersStep, PaperStep, Untouched
<1>2. ASSUME NEW i \in Items, NEW st \in {"needs_review", "failed"},
             NEW g \in Suggestions \cup {NoGrade}, EndRound(i, st, g)
      PROVE  PapersStep
  <2>1. /\ item[i].status = "grading" /\ item' = [item EXCEPT ![i].status = st]
        /\ suggestion' = [suggestion EXCEPT ![i] = g] /\ UNCHANGED review
    BY <1>2 DEF EndRound
  <2>2. /\ item'[i] = [item[i] EXCEPT !.status = st]
        /\ item' = [j \in Items |-> item'[j]]
        /\ \A j \in Items \ {i} : item'[j] = item[j]
    BY <1>0, <2>1
  <2>3. st \in ItemStatuses
    BY DEF ItemStatuses
  <2>4. item'[i] \in ItemRows /\ item'[i].status = st /\ item'[i].round = item[i].round
    BY <1>0, <2>2, <2>3 DEF ItemRows
  <2>5. Ended(item[i], review[i], item'[i], review'[i])
    BY <1>2, <2>1, <2>4 DEF Ended
  <2>6. \A j \in Items \ {i} : Untouched(item[j], review[j], item'[j], review'[j])
    BY <2>1, <2>2 DEF Untouched
  <2>7. suggestion' \in [Items -> Suggestions \cup {NoGrade}]
    BY <1>0, <2>1
  <2> QED BY <1>0, <2>1, <2>2, <2>5, <2>6, <2>7 DEF PapersStep, PaperStep
<1>3. ASSUME NEW S \in SUBSET Items, CancelJob(S) PROVE PapersStep
  <2>1. /\ \A i \in S : item[i].status = "grading"
        /\ item' = [i \in Items |-> IF i \in S THEN [item[i] EXCEPT !.status = "cancelled"]
                                    ELSE item[i]]
        /\ UNCHANGED <<suggestion, review>>
    BY <1>3 DEF CancelJob
  <2>2. /\ \A i \in S : item'[i] = [item[i] EXCEPT !.status = "cancelled"]
        /\ item' = [i \in Items |-> item'[i]]
        /\ \A i \in Items \ S : item'[i] = item[i]
    BY <2>1
  <2>3. "cancelled" \in ItemStatuses
    BY DEF ItemStatuses
  <2>4. \A i \in S : /\ item'[i] \in ItemRows /\ item'[i].status = "cancelled"
                     /\ item'[i].round = item[i].round
    BY <1>0, <2>2, <2>3 DEF ItemRows
  <2>5. \A i \in S : Ended(item[i], review[i], item'[i], review'[i])
    BY <2>1, <2>4 DEF Ended
  <2>6. \A i \in Items \ S : Untouched(item[i], review[i], item'[i], review'[i])
    BY <2>1, <2>2 DEF Untouched
  <2> QED BY <1>0, <2>1, <2>2, <2>5, <2>6 DEF PapersStep, PaperStep
<1>4. ASSUME NEW i \in Items, RetryItem(i) PROVE PapersStep
  <2>1. /\ item[i].status \in {"needs_review", "failed"} /\ item[i].round < MaxRounds
        /\ item' = [item EXCEPT ![i] = [status |-> "grading", round |-> item[i].round + 1]]
        /\ suggestion' = [suggestion EXCEPT ![i] = NoGrade] /\ UNCHANGED review
    BY <1>4 DEF RetryItem
  <2>2. PICK x : x = [status |-> "grading", round |-> item[i].round + 1]
    OBVIOUS
  <2>3. item[i].round + 1 \in Rounds
    BY <1>0, <2>1, ReviewAssumption DEF Rounds
  <2>4. x \in ItemRows /\ x.status = "grading" /\ x.round = item[i].round + 1
    BY <2>2, <2>3 DEF ItemRows, ItemStatuses
  <2>5. /\ item'[i] = x /\ item' = [j \in Items |-> item'[j]]
        /\ \A j \in Items \ {i} : item'[j] = item[j]
    BY <1>0, <2>1, <2>2
  <2>6. Regraded(item[i], review[i], item'[i], review'[i])
    BY <2>1, <2>4, <2>5 DEF Regraded
  <2>7. \A j \in Items \ {i} : Untouched(item[j], review[j], item'[j], review'[j])
    BY <2>1, <2>5 DEF Untouched
  <2>8. suggestion' \in [Items -> Suggestions \cup {NoGrade}]
    BY <1>0, <2>1
  <2> QED BY <1>0, <2>1, <2>5, <2>6, <2>7, <2>8 DEF PapersStep, PaperStep
<1>5. ASSUME NEW t \in Tabs, SaveDraft(t) \/ SaveAndConfirm(t) PROVE PapersStep
  <2>1. PICK i, round, g : i = tab[t].item /\ round = tab[t].round /\ g = tab[t].grade
    OBVIOUS
  <2>2. i \in Items
    <3>1. tab[t].pc = "sending"
      BY <1>5 DEF SaveDraft, SaveAndConfirm
    <3>2. tab[t] \in Request
      BY <3>1 DEF TabsInv, Naming, Idle, Misled
    <3> QED BY <2>1, <3>2 DEF Request
  <2>3. PICK st \in {"draft", "confirmed"} :
          /\ Savable(i, round, g) /\ review' = Saved(i, round, g, st)
          /\ IF st = "draft" THEN UNCHANGED item ELSE CompletePapers({i})
          /\ UNCHANGED suggestion
    BY <1>5, <2>1 DEF SaveDraft, SaveAndConfirm
  <2>4. /\ review' = [j \in Items |-> review'[j]]
        /\ \A j \in Items \ {i} : review'[j] = review[j]
        /\ item[i].status = "needs_review" /\ g \in Worthy
        /\ NextOf(item[i], review[i]) <= MaxRevision
        /\ review'[i] = RowsSaved(item[i], review[i], g, st)
    BY <2>2, <2>3, SavedPaper
  <2>5. /\ item' = [j \in Items |-> item'[j]]
        /\ \A j \in Items \ {i} : item'[j] = item[j]
        /\ item'[i] \in ItemRows /\ item'[i].round = item[i].round
        /\ item'[i].status = IF st = "draft" THEN "needs_review" ELSE "completed"
    <3>1. CASE st = "draft"
      BY <1>0, <2>2, <2>3, <2>4, <3>1 DEF ItemRows
    <3>2. CASE st = "confirmed"
      <4>1. CompletePapers({i}) /\ {i} \in SUBSET Items
        BY <2>2, <2>3, <3>2
      <4>2. /\ item' = [j \in Items |-> item'[j]]
            /\ \A j \in {i} : /\ item'[j] \in ItemRows /\ item'[j].status = "completed"
                              /\ item'[j].round = item[j].round
            /\ \A j \in Items \ {i} : item'[j] = item[j]
        BY <4>1, CompletedRows
      <4> QED BY <3>2, <4>2
    <3> QED BY <3>1, <3>2
  <2>6. Stored(item[i], review[i], item'[i], review'[i])
    BY <2>4, <2>5 DEF Stored
  <2>7. \A j \in Items \ {i} : Untouched(item[j], review[j], item'[j], review'[j])
    BY <2>4, <2>5 DEF Untouched
  <2> QED BY <1>0, <2>3, <2>4, <2>5, <2>6, <2>7 DEF PapersStep, PaperStep
<1>6. ASSUME NEW t \in Tabs, ConfirmReviews(t) PROVE PapersStep
  <2>1. PICK S : S = DOMAIN tab[t].named
    OBVIOUS
  <2>2. /\ tab[t].pc = "naming" /\ \A i \in S : Confirmable(i)
        /\ review' = Confirmed(S) /\ CompletePapers(S) /\ UNCHANGED suggestion
    BY <1>6, <2>1 DEF ConfirmReviews
  <2>3. S \in SUBSET Items
    BY <2>1, <2>2 DEF TabsInv, Naming, Idle, Misled, Request
  <2>4. /\ review' = [i \in Items |-> review'[i]]
        /\ \A i \in Items \ S : review'[i] = review[i]
        /\ \A i \in S : Settled(item[i], review[i], item'[i], review'[i])
    BY <2>2, <2>3, ConfirmedPapers
  <2>5. item' = [i \in Items |-> item'[i]] /\ \A i \in Items \ S : item'[i] = item[i]
    BY <2>2, <2>3, CompletedRows
  <2>6. \A i \in Items \ S : Untouched(item[i], review[i], item'[i], review'[i])
    BY <2>4, <2>5 DEF Untouched
  <2> QED BY <1>0, <2>2, <2>4, <2>5, <2>6 DEF PapersStep, PaperStep
<1>7. CASE UNCHANGED reviewVars
  BY <1>1, <1>7 DEF reviewVars
<1>8. ASSUME NEW t \in Tabs, TabStep(t) PROVE PapersStep
  BY <1>1, <1>5, <1>6, <1>8 DEF TabStep, SendGrade, ReadDraft, ConfirmAgain,
                                ConfirmReviewsAgain, RequestFails
<1>9. CASE \E k \in Keys, type \in {"draft", "final"} : CreateExport(k, type)
  BY <1>1, <1>9 DEF CreateExport
<1> QED BY <1>2, <1>3, <1>4, <1>7, <1>8, <1>9 DEF ReviewNext

(* The papers stay in order, and what is completed stays as it is.         *)
LEMMA PapersStay ==
  ASSUME PapersInv, PapersStep
  PROVE  /\ PapersInv'
         /\ \A i \in Items : item[i].status = "completed"
              => item'[i] = item[i] /\ review'[i] = review[i]
<1>1. ASSUME NEW i \in Items PROVE PaperInv(item'[i], review'[i])
  BY PaperKept DEF PapersInv, PapersStep
<1>2. ASSUME NEW i \in Items, item[i].status = "completed"
      PROVE  item'[i] = item[i] /\ review'[i] = review[i]
  <2>1. PaperStep(item[i], review[i], item'[i], review'[i])
    BY DEF PapersStep
  <2> QED BY <1>2, <2>1 DEF PaperStep, Untouched, Ended, Regraded, Stored, Settled
<1>3. \A i \in Items : PaperInv(item[i], review[i])'
  BY <1>1 DEF PaperInv, RowInv
<1> QED BY <1>2, <1>3 DEF PapersInv, PapersStep

(* What a request holds after a step: the same, an answer, or what it has  *)
(* just read.                                                              *)
HeldAfter(t) ==
  \/ tab'[t] = tab[t]
  \/ tab'[t] \in {Idle, Misled} \cup Request
  \/ /\ tab'[t].pc = "naming" /\ DOMAIN tab'[t].named \subseteq Items
     /\ \A i \in DOMAIN tab'[t].named :
          /\ Remembered(tab'[t].named[i], tab'[t].sent[i], item[i], review[i])
          /\ item'[i] = item[i] /\ review'[i] = review[i]

(* Every step leaves the requests so.                                      *)
LEMMA TabsHeld ==
  ASSUME PapersInv, TabsInv, [ReviewNext]_reviewVars
  PROVE  tab' = [t \in Tabs |-> tab'[t]] /\ \A t \in Tabs : HeldAfter(t)
<1>0. tab = [t \in Tabs |-> tab[t]]
  BY DEF TabsInv
<1>1. CASE UNCHANGED tab
  BY <1>0, <1>1 DEF HeldAfter
<1>2. ASSUME NEW t \in Tabs, NEW x, tab' = [tab EXCEPT ![t] = x], HeldAfter(t)
      PROVE  tab' = [u \in Tabs |-> tab'[u]] /\ \A u \in Tabs : HeldAfter(u)
  <2>1. tab' = [u \in Tabs |-> tab'[u]] /\ \A u \in Tabs \ {t} : tab'[u] = tab[u]
    BY <1>0, <1>2
  <2> QED BY <1>2, <2>1 DEF HeldAfter
<1>3. ASSUME NEW t \in Tabs, NEW x, x \in {Idle, Misled} \cup Request,
             tab' = [tab EXCEPT ![t] = x]
      PROVE  tab' = [u \in Tabs |-> tab'[u]] /\ \A u \in Tabs : HeldAfter(u)
  <2>1. HeldAfter(t)
    BY <1>0, <1>3 DEF HeldAfter
  <2> QED BY <1>2, <1>3, <2>1
<1>4. ASSUME NEW t \in Tabs, NEW i \in Items, NEW g \in Entered, SendGrade(t, i, g)
      PROVE  tab' = [u \in Tabs |-> tab'[u]] /\ \A u \in Tabs : HeldAfter(u)
  <2>1. PICK x : x = [pc |-> "sending", item |-> i, round |-> item[i].round, grade |-> g]
    OBVIOUS
  <2>2. tab' = [tab EXCEPT ![t] = x]
    BY <1>4, <2>1 DEF SendGrade
  <2>3. item[i].round \in Rounds /\ g \in Grades
    BY ReviewAssumption DEF PapersInv, PaperInv, ItemRows
  <2>4. x \in Request
    BY <2>1, <2>3 DEF Request
  <2> QED BY <1>3, <2>2, <2>4
<1>5. ASSUME NEW t \in Tabs, NEW i \in Items, ReadDraft(t, i)
      PROVE  tab' = [u \in Tabs |-> tab'[u]] /\ \A u \in Tabs : HeldAfter(u)
  <2>1. PICK S, named, sent :
          /\ S = ReadSoFar(t)
          /\ named = [j \in S \cup {i} |->
                       IF j = i THEN [round |-> item[i].round, revision |-> Current(i).revision]
                                ELSE tab[t].named[j]]
          /\ sent = [j \in S \cup {i} |-> IF j = i THEN Current(i).grade ELSE tab[t].sent[j]]
    OBVIOUS
  <2>2. PICK x : x = [pc |-> "naming", named |-> named, sent |-> sent]
    OBVIOUS
  <2>3. /\ tab' = [tab EXCEPT ![t] = x] /\ UNCHANGED <<item, review>>
        /\ review[i][item[i].round] # NoReview
    BY <1>5, <2>1, <2>2 DEF ReadDraft, Current
  <2>4. /\ x.pc = "naming" /\ x.named = named /\ x.sent = sent
        /\ DOMAIN x.named = S \cup {i}
    BY <2>1, <2>2
  <2>5. S \subseteq Items /\ \A j \in S : Remembered(tab[t].named[j], tab[t].sent[j], item[j], review[j])
    <3>1. CASE tab[t].pc = "naming"
      <4>1. tab[t] \notin {Idle, Misled} \cup Request
        BY <3>1 DEF Idle, Misled, Request
      <4>2. Naming(tab[t])
        BY <4>1 DEF TabsInv
      <4>3. S = DOMAIN tab[t].named
        BY <2>1, <3>1 DEF ReadSoFar
      <4> QED BY <4>2, <4>3 DEF Naming
    <3>2. CASE tab[t].pc # "naming"
      BY <2>1, <3>2 DEF ReadSoFar
    <3> QED BY <3>1, <3>2
  <2>6. Remembered(named[i], sent[i], item[i], review[i])
    <3>1. /\ named[i] = [round |-> item[i].round, revision |-> review[i][item[i].round].revision]
          /\ sent[i] = review[i][item[i].round].grade
      BY <2>1 DEF Current
    <3>2. item[i].round \in Rounds /\ RowInv(review[i][item[i].round])
      BY DEF PapersInv, PaperInv, ItemRows
    <3>3. review[i][item[i].round].revision \in 0..MaxRevision
      BY <3>2, RowFields
    <3>4. review[i][item[i].round].revision \in Nat
      BY <3>3, ReviewAssumption
    <3> QED BY <2>3, <3>1, <3>2, <3>4 DEF Remembered
  <2>7. ASSUME NEW j \in S \cup {i} PROVE Remembered(named[j], sent[j], item[j], review[j])
    <3>1. CASE j = i
      BY <2>6, <3>1
    <3>2. CASE j # i
      <4>1. named[j] = tab[t].named[j] /\ sent[j] = tab[t].sent[j] /\ j \in S
        BY <2>1, <3>2
      <4> QED BY <2>5, <4>1
    <3> QED BY <3>1, <3>2
  <2>8. tab'[t] = x
    BY <1>0, <2>3
  <2>9. HeldAfter(t)
    BY <2>3, <2>4, <2>5, <2>7, <2>8 DEF HeldAfter
  <2> QED BY <1>2, <2>3, <2>9
<1>6. \A a, b : Answered(a, b) \in {Idle, Misled}
  BY DEF Answered
<1>7. ASSUME NEW t \in Tabs, SaveDraft(t) \/ SaveAndConfirm(t) \/ ConfirmAgain(t)
               \/ ConfirmReviews(t) \/ ConfirmReviewsAgain(t) \/ RequestFails(t)
      PROVE  tab' = [u \in Tabs |-> tab'[u]] /\ \A u \in Tabs : HeldAfter(u)
  <2>1. PICK x \in {Idle, Misled} : tab' = [tab EXCEPT ![t] = x]
    BY <1>6, <1>7 DEF SaveDraft, SaveAndConfirm, ConfirmAgain, ConfirmReviews,
                      ConfirmReviewsAgain, RequestFails
  <2> QED BY <1>3, <2>1
<1>8. ASSUME NEW t \in Tabs, TabStep(t)
      PROVE  tab' = [u \in Tabs |-> tab'[u]] /\ \A u \in Tabs : HeldAfter(u)
  BY <1>4, <1>5, <1>7, <1>8 DEF TabStep
<1>9. CASE UNCHANGED reviewVars
  BY <1>1, <1>9 DEF reviewVars
<1>10. CASE \E i \in Items : \/ \E g \in Suggestions : EndRound(i, "needs_review", g)
                             \/ EndRound(i, "needs_review", NoGrade)
                             \/ EndRound(i, "failed", NoGrade)
                             \/ RetryItem(i)
  BY <1>1, <1>10 DEF EndRound, RetryItem
<1>11. CASE \E S \in SUBSET Items : CancelJob(S)
  BY <1>1, <1>11 DEF CancelJob
<1>12. CASE \E k \in Keys, type \in {"draft", "final"} : CreateExport(k, type)
  BY <1>1, <1>12 DEF CreateExport
<1> QED BY <1>8, <1>9, <1>10, <1>11, <1>12 DEF ReviewNext

(* What the requests hold stays true.                                      *)
LEMMA TabsStay ==
  ASSUME PapersInv, TabsInv, PapersStep, [ReviewNext]_reviewVars
  PROVE  TabsInv'
<1>1. tab' = [t \in Tabs |-> tab'[t]] /\ \A t \in Tabs : HeldAfter(t)
  BY TabsHeld
<1>2. ASSUME NEW t \in Tabs
      PROVE  \/ tab'[t] \in {Idle, Misled} \cup Request
             \/ /\ tab'[t].pc = "naming" /\ DOMAIN tab'[t].named \subseteq Items
                /\ \A i \in DOMAIN tab'[t].named :
                     Remembered(tab'[t].named[i], tab'[t].sent[i], item'[i], review'[i])
  <2>1. HeldAfter(t)
    BY <1>1
  <2>2. CASE tab'[t] = tab[t] /\ Naming(tab[t])
    <3>1. PICK c : c = tab[t]
      OBVIOUS
    <3>2. /\ c.pc = "naming" /\ DOMAIN c.named \subseteq Items /\ tab'[t] = c
          /\ \A i \in DOMAIN c.named : Remembered(c.named[i], c.sent[i], item[i], review[i])
      BY <2>2, <3>1 DEF Naming
    <3>3. ASSUME NEW i \in DOMAIN c.named
          PROVE  Remembered(c.named[i], c.sent[i], item'[i], review'[i])
      <4>1. PaperInv(item[i], review[i]) /\ PaperStep(item[i], review[i], item'[i], review'[i])
        BY <3>2 DEF PapersInv, PapersStep
      <4>2. Remembered(c.named[i], c.sent[i], item[i], review[i])
        BY <3>2
      <4> QED BY <4>1, <4>2, MemoryHolds
    <3> QED BY <3>2, <3>3
  <2>3. CASE tab'[t] = tab[t] /\ tab[t] \in {Idle, Misled} \cup Request
    BY <2>3
  <2>4. tab[t] \in {Idle, Misled} \cup Request \/ Naming(tab[t])
    BY DEF TabsInv
  <2>5. CASE tab'[t] # tab[t]
    BY <2>1, <2>5 DEF HeldAfter
  <2> QED BY <2>2, <2>3, <2>4, <2>5
<1> QED BY <1>1, <1>2 DEF TabsInv, Naming, Remembered

(* Exports keep their shape and what they call confirmed.                  *)
LEMMA ExportsStay ==
  ASSUME ReviewInv, PapersStep, [ReviewNext]_reviewVars
  PROVE  /\ export' = [k \in Keys |-> export'[k]]
         /\ ExportsTyped' /\ ExportedGradesAreFinal'
<1>0. /\ export = [k \in Keys |-> export[k]] /\ ExportsTyped /\ ExportedGradesAreFinal
      /\ PapersInv
  BY DEF ReviewInv
<1>1. \A i \in Items : item[i].status = "completed"
        => item'[i] = item[i] /\ review'[i] = review[i]
  BY <1>0, PapersStay
<1>2. ASSUME NEW k \in Keys, export'[k] = export[k], export[k] # Idle, NEW i \in Items
      PROVE  /\ export'[k].type \in {"draft", "final"}
             /\ export'[k].rows[i].source \in Sources
             /\ export'[k].type = "final" => export'[k].rows[i].source = "teacher_confirmed"
             /\ export'[k].rows[i].source = "teacher_confirmed"
                  => /\ item'[i].status = "completed"
                     /\ export'[k].rows[i].grade = review'[i][item'[i].round].grade
  <2>1. /\ export[k].type \in {"draft", "final"}
        /\ export[k].rows[i].source \in Sources
    BY <1>0, <1>2 DEF ExportsTyped
  <2>2. /\ export[k].type = "final" => export[k].rows[i].source = "teacher_confirmed"
        /\ export[k].rows[i].source = "teacher_confirmed"
             => /\ item[i].status = "completed"
                /\ export[k].rows[i].grade = review[i][item[i].round].grade
    BY <1>0, <1>2 DEF ExportedGradesAreFinal, Current
  <2> QED BY <1>1, <1>2, <2>1, <2>2
<1>3. ASSUME NEW k \in Keys, NEW type \in {"draft", "final"}, CreateExport(k, type)
      PROVE  /\ export' = [j \in Keys |-> export'[j]]
             /\ \A j \in Keys \ {k} : export'[j] = export[j]
             /\ \A i \in Items :
                  /\ export'[k].type \in {"draft", "final"}
                  /\ export'[k].rows[i].source \in Sources
                  /\ export'[k].type = "final" => export'[k].rows[i].source = "teacher_confirmed"
                  /\ export'[k].rows[i].source = "teacher_confirmed"
                       => /\ item'[i].status = "completed"
                          /\ export'[k].rows[i].grade = review'[i][item'[i].round].grade
             /\ export'[k].type \in {"draft", "final"}
  <2>1. PICK rows : rows = [i \in Items |-> [source |-> SourceOf(i), grade |-> FrozenGrade(i)]]
    OBVIOUS
  <2>2. PICK x : x = [type |-> type, rows |-> rows]
    OBVIOUS
  <2>3. /\ export' = [export EXCEPT ![k] = x] /\ UNCHANGED <<item, review>>
        /\ \A i \in Items : type = "final" => SourceOf(i) = "teacher_confirmed"
    BY <1>3, <2>1, <2>2 DEF CreateExport
  <2>4. /\ export' = [j \in Keys |-> export'[j]] /\ export'[k] = x
        /\ \A j \in Keys \ {k} : export'[j] = export[j]
    BY <1>0, <2>3
  <2>5. x.type = type /\ x.rows = rows
    BY <2>2
  <2>6. ASSUME NEW i \in Items
        PROVE  /\ rows[i].source \in Sources
               /\ type = "final" => rows[i].source = "teacher_confirmed"
               /\ rows[i].source = "teacher_confirmed"
                    => /\ item'[i].status = "completed"
                       /\ rows[i].grade = review'[i][item'[i].round].grade
    <3>1. rows[i].source = SourceOf(i) /\ rows[i].grade = FrozenGrade(i)
      BY <2>1
    <3>2. SourceOf(i) = IF Current(i).status = "confirmed" THEN "teacher_confirmed"
                        ELSE IF Current(i).status = "draft" THEN "teacher_draft"
                        ELSE "ai_suggestion"
      BY DEF SourceOf
    <3>3. SourceOf(i) = "teacher_confirmed" => Current(i).status = "confirmed"
      BY <3>2
    <3>4. SourceOf(i) = "teacher_confirmed" => FrozenGrade(i) = Current(i).grade
      BY DEF FrozenGrade
    <3>5. Current(i).status = "confirmed" => item[i].status = "completed"
      BY <1>0 DEF PapersInv, PaperInv, ItemRows, Current
    <3>6. Current(i) = review[i][item[i].round] /\ item' = item /\ review' = review
      BY <2>3 DEF Current
    <3>7. SourceOf(i) \in Sources
      BY <3>2 DEF Sources
    <3> QED BY <2>3, <3>1, <3>3, <3>4, <3>5, <3>6, <3>7
  <2> QED BY <2>4, <2>5, <2>6
<1>4. CASE UNCHANGED export
  <2>1. \A k \in Keys : export'[k] = export[k]
    BY <1>4
  <2>2. export' = [k \in Keys |-> export'[k]]
    BY <1>0, <1>4
  <2>3. ExportsTyped'
    BY <1>0, <1>4 DEF ExportsTyped
  <2>4. ExportedGradesAreFinal'
    BY <1>2, <1>4 DEF ExportedGradesAreFinal, Current
  <2> QED BY <2>2, <2>3, <2>4
<1>5. CASE \E k \in Keys, type \in {"draft", "final"} : CreateExport(k, type)
  <2>1. PICK k \in Keys, type \in {"draft", "final"} : CreateExport(k, type)
    BY <1>5
  <2>2. ExportsTyped'
    <3> SUFFICES ASSUME NEW j \in Keys, export'[j] # Idle
                 PROVE  /\ export'[j].type \in {"draft", "final"}
                        /\ \A i \in Items : export'[j].rows[i].source \in Sources
      BY DEF ExportsTyped
    <3>1. CASE j = k
      BY <1>3, <2>1, <3>1
    <3>2. CASE j # k
      <4>1. export'[j] = export[j]
        BY <1>3, <2>1, <3>2
      <4> QED BY <1>0, <4>1 DEF ExportsTyped
    <3> QED BY <3>1, <3>2
  <2>3. ASSUME NEW j \in Keys, export'[j] # Idle, NEW i \in Items
        PROVE  /\ export'[j].type = "final" => export'[j].rows[i].source = "teacher_confirmed"
               /\ export'[j].rows[i].source = "teacher_confirmed"
                    => /\ item'[i].status = "completed"
                       /\ export'[j].rows[i].grade = review'[i][item'[i].round].grade
    <3>1. CASE j = k
      BY <1>3, <2>1, <3>1
    <3>2. CASE j # k
      <4>1. export'[j] = export[j]
        BY <1>3, <2>1, <3>2
      <4> QED BY <1>2, <2>3, <4>1
    <3> QED BY <3>1, <3>2
  <2>4. ExportedGradesAreFinal'
    BY <2>3 DEF ExportedGradesAreFinal, Current
  <2>5. export' = [j \in Keys |-> export'[j]]
    BY <1>3, <2>1
  <2> QED BY <2>2, <2>4, <2>5
<1>6. CASE UNCHANGED reviewVars
  BY <1>4, <1>6 DEF reviewVars
<1>7. CASE \E i \in Items : \/ \E g \in Suggestions : EndRound(i, "needs_review", g)
                            \/ EndRound(i, "needs_review", NoGrade)
                            \/ EndRound(i, "failed", NoGrade)
                            \/ RetryItem(i)
  BY <1>4, <1>7 DEF EndRound, RetryItem
<1>8. CASE \E S \in SUBSET Items : CancelJob(S)
  BY <1>4, <1>8 DEF CancelJob
<1>9. CASE \E t \in Tabs : TabStep(t)
  BY <1>4, <1>9 DEF TabStep, SendGrade, ReadDraft, SaveDraft, SaveAndConfirm, ConfirmAgain,
                    ConfirmReviews, ConfirmReviewsAgain, RequestFails
<1> QED BY <1>5, <1>6, <1>7, <1>8, <1>9 DEF ReviewNext

(* The batch keeps a status of its own.                                    *)
LEMMA BatchStays ==
  ASSUME ReviewInv, [ReviewNext]_reviewVars
  PROVE  batch' \in {"running", "needs_review", "completed", "failed", "cancelled"}
<1>0. batch \in {"running", "needs_review", "completed", "failed", "cancelled"}
  BY DEF ReviewInv
<1>1. CASE UNCHANGED batch
  BY <1>0, <1>1
<1>2. \A items : Reconciled(items) \in {"running", "needs_review", "completed", "failed", "cancelled"}
  BY <1>0 DEF Reconciled
<1>3. CASE \E i \in Items : \/ \E g \in Suggestions : EndRound(i, "needs_review", g)
                            \/ EndRound(i, "needs_review", NoGrade)
                            \/ EndRound(i, "failed", NoGrade)
                            \/ RetryItem(i)
  BY <1>2, <1>3 DEF EndRound, RetryItem
<1>4. CASE \E S \in SUBSET Items : CancelJob(S)
  BY <1>4 DEF CancelJob
<1>5. CASE \E t \in Tabs : TabStep(t)
  BY <1>1, <1>5 DEF TabStep, SendGrade, ReadDraft, SaveDraft, SaveAndConfirm, ConfirmAgain,
                    ConfirmReviews, ConfirmReviewsAgain, RequestFails, CompletePapers
<1>6. CASE \E k \in Keys, type \in {"draft", "final"} : CreateExport(k, type)
  BY <1>1, <1>6 DEF CreateExport
<1>7. CASE UNCHANGED reviewVars
  BY <1>1, <1>7 DEF reviewVars
<1> QED BY <1>3, <1>4, <1>5, <1>6, <1>7 DEF ReviewNext

-----------------------------------------------------------------------------
(* The invariant and what follows from it                                  *)

(* It holds at first and every step keeps it.                              *)
LEMMA ReviewInvHolds == ReviewSpec => []ReviewInv
<1>1. ReviewInit => ReviewInv
  <2> SUFFICES ASSUME ReviewInit PROVE ReviewInv
    OBVIOUS
  <2>0. 1 \in Rounds /\ Rounds \subseteq Int
    BY ReviewAssumption DEF Rounds
  <2>1. /\ batch = "running" /\ item = [i \in Items |-> [status |-> "grading", round |-> 1]]
        /\ suggestion = [i \in Items |-> NoGrade]
        /\ review = [i \in Items |-> [r \in Rounds |-> NoReview]]
        /\ tab = [t \in Tabs |-> Idle] /\ export = [k \in Keys |-> Idle]
    BY DEF ReviewInit
  <2>2. ASSUME NEW i \in Items PROVE PaperInv(item[i], review[i])
    <3>1. item[i] = [status |-> "grading", round |-> 1]
      BY <2>1
    <3>2. item[i] \in ItemRows /\ item[i].status = "grading"
      BY <2>0, <3>1 DEF ItemRows, ItemStatuses
    <3>3. review[i] = [r \in Rounds |-> NoReview]
      BY <2>1
    <3>4. \A r \in Rounds : review[i][r] = NoReview
      BY <3>3
    <3>5. \A r \in Rounds : review[i][r].status # "confirmed"
      BY <3>4, RowFields
    <3>6. review[i] = [r \in Rounds |-> review[i][r]]
      BY <3>3
    <3> QED BY <3>2, <3>4, <3>5, <3>6 DEF PaperInv, RowInv
  <2>3. PapersInv
    BY <2>1, <2>2 DEF PapersInv
  <2>4. TabsInv
    BY <2>1 DEF TabsInv
  <2>5. export = [k \in Keys |-> export[k]] /\ \A k \in Keys : export[k] = Idle
    BY <2>1
  <2> QED BY <2>1, <2>3, <2>4, <2>5 DEF ReviewInv, ExportsTyped, ExportedGradesAreFinal
<1>2. ReviewInv /\ [ReviewNext]_reviewVars => ReviewInv'
  <2> SUFFICES ASSUME ReviewInv, [ReviewNext]_reviewVars PROVE ReviewInv'
    OBVIOUS
  <2>1. PapersInv /\ TabsInv
    BY DEF ReviewInv
  <2>2. PapersStep
    BY <2>1, ActionsStep
  <2>3. PapersInv' /\ TabsInv'
    BY <2>1, <2>2, PapersStay, TabsStay
  <2>4. export' = [k \in Keys |-> export'[k]] /\ ExportsTyped' /\ ExportedGradesAreFinal'
    BY <2>2, ExportsStay
  <2> QED BY <2>3, <2>4, BatchStays DEF ReviewInv
<1> QED BY <1>1, <1>2, PTL DEF ReviewSpec

(* A stored review is a grade the database's check accepted over some      *)
(* suggestion, so its score is in range and is the worth of the grade.     *)
LEMMA RowScore ==
  ASSUME NEW x, RowInv(x), x # NoReview
  PROVE  /\ x.grade \in Grades /\ x.score \in 0..TotalScore
         /\ x.score = WorthOf[x.grade]
<1>1. x.grade \in Worthy /\ x.score = Score[x.grade]
  BY RowFields
<1>2. PICK g : g = x.grade
  OBVIOUS
<1>3. PICK s \in Suggestions : g \in Grades /\ <<g, s>> \in Storable
  BY <1>1, <1>2 DEF Worthy
<1>4. PassesDatabase(g, s) /\ Content(g) \in GradeShapes
  BY <1>3, PairsMean, ReviewAssumption
<1>5. x.score = calculate_grade_totals(Content(g), Rubric).total
  BY <1>1, <1>2, <1>3 DEF Score
<1>6. calculate_grade_totals(Content(g), Rubric).total \in 0..TotalScore
  BY <1>4, StoredScoreInRange DEF PassesDatabase
<1>7. calculate_grade_totals(Content(g), Rubric).total = Worth(Content(g))
  BY <1>4, TotalIsWorth
<1>8. WorthOf[g] = Worth(Content(g))
  BY <1>3 DEF WorthOf
<1> QED BY <1>2, <1>3, <1>5, <1>6, <1>7, <1>8

(* The variables of the review keep their types.                           *)
THEOREM ReviewTypesHold == ReviewSpec => []ReviewTypeOK
<1>1. ReviewInv => ReviewTypeOK
  <2> SUFFICES ASSUME ReviewInv PROVE ReviewTypeOK
    OBVIOUS
  <2>1. /\ PapersInv /\ TabsInv /\ ExportsTyped
        /\ batch \in {"running", "needs_review", "completed", "failed", "cancelled"}
    BY DEF ReviewInv
  <2>2. item \in [Items -> [status : ItemStatuses, round : Rounds]]
    BY <2>1 DEF PapersInv, PaperInv, ItemRows
  <2>3. ASSUME NEW i \in Items, NEW r \in Rounds
        PROVE  review[i][r] = NoReview \/ review[i][r] \in Review
    <3>1. PICK x : x = review[i][r]
      OBVIOUS
    <3>2. RowInv(x)
      BY <2>1, <3>1 DEF PapersInv, PaperInv
    <3>3. ASSUME x # NoReview PROVE x \in Review
      <4>1. x.grade \in Grades /\ x.score \in 0..TotalScore
        BY <3>2, <3>3, RowScore
      <4>2. x \in [status : {"draft", "confirmed"}, revision : 1..MaxRevision,
                   grade : Worthy, score : {Score[x.grade]}]
        BY <3>2, <3>3, RowFields
      <4>3. x.score \in Nat
        BY <4>1
      <4> QED BY <4>1, <4>2, <4>3 DEF Review
    <3> QED BY <3>1, <3>3
  <2>4. ASSUME NEW t \in Tabs
        PROVE  \/ tab[t] \in {Idle, Misled} \cup Request
               \/ /\ tab[t].pc = "naming"
                  /\ \A i \in DOMAIN tab[t].named : tab[t].named[i].round \in Rounds
    BY <2>1 DEF TabsInv, Naming, Remembered
  <2> QED BY <2>1, <2>2, <2>3, <2>4 DEF ReviewTypeOK, ExportsTyped, PapersInv
<1> QED BY <1>1, ReviewInvHolds, PTL

(* A paper is completed exactly when the review of its current round is    *)
(* confirmed, and no other review of it ever is.                           *)
THEOREM CompletedIsConfirmed == ReviewSpec => []CompletedMeansConfirmed
<1>1. ReviewInv => CompletedMeansConfirmed
  BY DEF ReviewInv, PapersInv, PaperInv, CompletedMeansConfirmed
<1> QED BY <1>1, ReviewInvHolds, PTL

(* What exports call confirmed stays the confirmed grade.                  *)
THEOREM ExportsStayTrue == ReviewSpec => []ExportedGradesAreFinal
<1>1. ReviewInv => ExportedGradesAreFinal
  BY DEF ReviewInv
<1> QED BY <1>1, ReviewInvHolds, PTL

(* Every stored score is what the grade is worth, within the rubric's      *)
(* total.                                                                  *)
THEOREM StoredScoresAreRight == ReviewSpec => []ScoresAreRight
<1>1. ReviewInv => ScoresAreRight
  <2> SUFFICES ASSUME ReviewInv, NEW i \in Items, NEW r \in Rounds, review[i][r] # NoReview
               PROVE  /\ review[i][r].score = WorthOf[review[i][r].grade]
                      /\ review[i][r].score <= TotalScore
    BY DEF ScoresAreRight
  <2>1. RowInv(review[i][r])
    BY DEF ReviewInv, PapersInv, PaperInv
  <2>2. /\ review[i][r].score \in 0..TotalScore
        /\ review[i][r].score = WorthOf[review[i][r].grade]
    BY <2>1, RowScore
  <2> QED BY <2>2
<1> QED BY <1>1, ReviewInvHolds, PTL

(* In every state and over every stored suggestion, of the grades the      *)
(* backend accepts the database refuses exactly those written otherwise    *)
(* than it expects.                                                        *)
THEOREM ValidatorsDoAgree == ReviewSpec => []ValidatorsAgree
<1>1. ReviewInv => ValidatorsAgree
  <2> SUFFICES ASSUME ReviewInv, NEW i \in Items, NEW g \in Grades, ServiceAccepts(i, g)
               PROVE  DatabaseAccepts(i, g) <=> <<g, suggestion[i]>> \in WrittenLikeTheirs
    BY DEF ValidatorsAgree
  <2>1. PICK s : s = suggestion[i]
    OBVIOUS
  <2>2. <<g, s>> \in Acceptable
    BY <2>1 DEF ServiceAccepts
  <2>3. g \in Grades /\ s \in Suggestions /\ PassesBackend(g, s)
    BY <2>2, PairsMean
  <2>4. Content(g) \in GradeShapes /\ Content(s) \in GradeShapes
    BY <2>3, ReviewAssumption
  <2>5. PassesDatabase(g, s) <=> WrittenLike(Content(g), Content(s))
    BY <2>3, <2>4, AcceptedPassesDatabase DEF PassesBackend, PassesDatabase
  <2>6. <<g, s>> \in Storable <=> PassesDatabase(g, s)
    BY <2>3, PairsMean
  <2>7. <<g, s>> \in WrittenLikeTheirs <=> WrittenLike(Content(g), Content(s))
    BY <2>3, PairsMean
  <2> QED BY <2>1, <2>5, <2>6, <2>7 DEF DatabaseAccepts
<1> QED BY <1>1, ReviewInvHolds, PTL

(* No step changes a completed paper or a review of it.                    *)
THEOREM ConfirmedStaysFinal == ReviewSpec => ConfirmedIsFinal
<1>1. ReviewInv /\ [ReviewNext]_reviewVars
        => [\A i \in Items : item[i].status = "completed"
              => item'[i] = item[i] /\ review'[i] = review[i]]_reviewVars
  <2> SUFFICES ASSUME ReviewInv, [ReviewNext]_reviewVars
               PROVE  \A i \in Items : item[i].status = "completed"
                        => item'[i] = item[i] /\ review'[i] = review[i]
    OBVIOUS
  <2>1. PapersInv /\ TabsInv
    BY DEF ReviewInv
  <2>2. PapersStep
    BY <2>1, ActionsStep
  <2> QED BY <2>1, <2>2, PapersStay
<1> QED BY <1>1, ReviewInvHolds, PTL DEF ReviewSpec, ConfirmedIsFinal

(* The rows of all papers satisfy the constraints of teacher_reviews.      *)
LEMMA RowsAllowed ==
  ASSUME NEW items, NEW rows, \A i \in Items : PaperInv(items[i], rows[i])
  PROVE  ReviewRowsAllowed(rows)
<1> SUFFICES ASSUME NEW i \in Items, NEW r \in Rounds, rows[i][r] # NoReview
             PROVE  /\ rows[i][r].revision > 0 /\ rows[i][r].score \in 0..TotalScore
                    /\ \A q \in Rounds \ {r} :
                         /\ rows[i][q].revision # rows[i][r].revision
                         /\ ~(rows[i][q].status = "confirmed"
                                /\ rows[i][r].status = "confirmed")
  BY DEF ReviewRowsAllowed
<1>1. PICK it, paper : it = items[i] /\ paper = rows[i]
  OBVIOUS
<1>2. PaperInv(it, paper) /\ paper[r] # NoReview
  BY <1>1
<1>3. RowInv(paper[r]) /\ Rounds \subseteq Int
  BY <1>2 DEF PaperInv, Rounds
<1>4. paper[r].revision \in 1..MaxRevision /\ paper[r].score \in 0..TotalScore
  BY <1>2, <1>3, RowFields, RowScore
<1>5. ASSUME NEW q \in Rounds \ {r} PROVE paper[q].revision # paper[r].revision
  <2>0. paper[q].revision \in 0..MaxRevision
    BY <1>2, RowFields DEF PaperInv
  <2>1. q \in Int /\ r \in Int /\ q # r
    BY <1>3
  <2>2. CASE q < r
    <3>1. paper[q].revision < paper[r].revision
      BY <1>2, <2>2 DEF PaperInv
    <3> QED BY <1>4, <2>0, <3>1
  <2>3. CASE r < q /\ paper[q] # NoReview
    <3>1. paper[r].revision < paper[q].revision
      BY <1>2, <2>3 DEF PaperInv
    <3> QED BY <1>4, <2>0, <3>1
  <2>4. CASE paper[q] = NoReview
    <3>1. paper[q].revision = 0
      BY <2>4, RowFields
    <3> QED BY <1>4, <3>1
  <2> QED BY <2>1, <2>2, <2>3, <2>4
<1>6. \A q \in Rounds \ {r} : ~(paper[q].status = "confirmed" /\ paper[r].status = "confirmed")
  BY <1>2 DEF PaperInv
<1> QED BY <1>1, <1>4, <1>5, <1>6

(* The triggers and constraints of the history accept every change.        *)
THEOREM HistoryTriggersAccept == ReviewSpec => TriggersAccept
<1>1. ASSUME ReviewInv, [ReviewNext]_reviewVars
      PROVE  /\ \A i \in Items : ItemTriggerAccepts(item[i], item'[i])
             /\ ReviewRowsAllowed(review')
             /\ \A i \in Items, r \in Rounds :
                  LET old == review[i][r]
                      new == review'[i][r]
                      saved == [new EXCEPT !.status = "draft"] IN
                  \/ ReviewTriggerAccepts(old, new)
                  \/ ReviewTriggerAccepts(old, saved) /\ ReviewTriggerAccepts(saved, new)
  <2>1. PapersInv /\ TabsInv
    BY <1>1 DEF ReviewInv
  <2>2. PapersStep
    BY <1>1, <2>1, ActionsStep
  <2>3. ASSUME NEW i \in Items
        PROVE  /\ PaperInv(item[i], review[i]) /\ PaperInv(item'[i], review'[i])
               /\ PaperStep(item[i], review[i], item'[i], review'[i])
    <3>1. PaperInv(item[i], review[i]) /\ PaperStep(item[i], review[i], item'[i], review'[i])
      BY <2>1, <2>2 DEF PapersInv, PapersStep
    <3> QED BY <3>1, PaperKept
  <2>4. ReviewRowsAllowed(review')
    BY <2>3, RowsAllowed
  <2>5. ASSUME NEW i \in Items
        PROVE  /\ ItemTriggerAccepts(item[i], item'[i])
               /\ \A r \in Rounds :
                    LET saved == [review'[i][r] EXCEPT !.status = "draft"] IN
                    \/ ReviewTriggerAccepts(review[i][r], review'[i][r])
                    \/ /\ ReviewTriggerAccepts(review[i][r], saved)
                       /\ ReviewTriggerAccepts(saved, review'[i][r])
    BY <2>3, StepPasses
  <2> QED BY <2>4, <2>5
<1>2. ReviewInv /\ [ReviewNext]_reviewVars
        => [/\ \A i \in Items : ItemTriggerAccepts(item[i], item'[i])
            /\ review' # review =>
                 /\ ReviewRowsAllowed(review')
                 /\ \A i \in Items, r \in Rounds :
                      LET old == review[i][r]
                          new == review'[i][r]
                          saved == [new EXCEPT !.status = "draft"] IN
                      \/ ReviewTriggerAccepts(old, new)
                      \/ ReviewTriggerAccepts(old, saved) /\ ReviewTriggerAccepts(saved, new)
           ]_reviewVars
  BY <1>1
<1> QED BY <1>2, ReviewInvHolds, PTL DEF ReviewSpec, TriggersAccept

(* A paper is completed only with the grade a request of the teacher       *)
(* contained or showed, together with all papers the request names.        *)
THEOREM RequestsHonoured == ReviewSpec => ConfirmedAsRequested
<1> DEFINE Asked(i) ==
      \E t \in Tabs :
        LET c == tab[t]
            confirmed == review'[i][item[i].round].grade IN
        \/ c.pc = "sending" /\ c.item = i /\ c.grade = confirmed
        \/ /\ c.pc = "naming" /\ i \in DOMAIN c.named
           /\ c.sent[i] = confirmed
           /\ \A j \in DOMAIN c.named : item'[j].status = "completed"
<1>1. ASSUME ReviewInv, [ReviewNext]_reviewVars, NEW i \in Items,
             item[i].status # "completed", item'[i].status = "completed"
      PROVE  Asked(i)
  <2>0. /\ PapersInv /\ TabsInv
        /\ item = [j \in Items |-> item[j]]
        /\ \A j \in Items : item[j] \in [status : ItemStatuses, round : Rounds]
    BY <1>1 DEF ReviewInv, PapersInv, PaperInv, ItemRows
  <2>1. CASE UNCHANGED item
    BY <1>1, <2>1
  <2>2. ASSUME NEW j \in Items, NEW st \in {"needs_review", "failed"}, NEW g, EndRound(j, st, g)
        PROVE  FALSE
    <3>1. item' = [item EXCEPT ![j].status = st]
      BY <2>2 DEF EndRound
    <3>2. CASE i = j
      <4>1. item'[i] = [item[i] EXCEPT !.status = st]
        BY <2>0, <3>1, <3>2
      <4>2. item'[i].status = st
        BY <2>0, <4>1
      <4> QED BY <1>1, <4>2
    <3>3. CASE i # j
      BY <1>1, <2>0, <3>1, <3>3
    <3> QED BY <3>2, <3>3
  <2>3. ASSUME NEW j \in Items, RetryItem(j) PROVE FALSE
    <3>1. PICK x : x = [status |-> "grading", round |-> item[j].round + 1]
      OBVIOUS
    <3>2. item' = [item EXCEPT ![j] = x] /\ x.status = "grading"
      BY <2>3, <3>1 DEF RetryItem
    <3> QED BY <1>1, <2>0, <3>2
  <2>4. ASSUME NEW S \in SUBSET Items, CancelJob(S) PROVE FALSE
    <3>1. item' = [j \in Items |-> IF j \in S THEN [item[j] EXCEPT !.status = "cancelled"]
                                   ELSE item[j]]
      BY <2>4 DEF CancelJob
    <3>2. CASE i \in S
      <4>1. item'[i] = [item[i] EXCEPT !.status = "cancelled"]
        BY <3>1, <3>2
      <4>2. item'[i].status = "cancelled"
        BY <2>0, <4>1
      <4> QED BY <1>1, <4>2
    <3>3. CASE i \notin S
      BY <1>1, <3>1, <3>3
    <3> QED BY <3>2, <3>3
  <2>5. ASSUME NEW t \in Tabs, SaveAndConfirm(t) PROVE Asked(i)
    <3>1. PICK c : c = tab[t]
      OBVIOUS
    <3>2. /\ c.pc = "sending" /\ Savable(c.item, c.round, c.grade)
          /\ review' = Saved(c.item, c.round, c.grade, "confirmed")
          /\ CompletePapers({c.item})
      BY <2>5, <3>1 DEF SaveAndConfirm
    <3>3. c.item \in Items
      <4>1. c \in Request
        BY <2>0, <3>1, <3>2 DEF TabsInv, Naming, Idle, Misled
      <4> QED BY <4>1 DEF Request
    <3>4. {c.item} \in SUBSET Items
      BY <3>3
    <3>5. \A j \in Items \ {c.item} : item'[j] = item[j]
      BY <2>0, <3>2, <3>4, CompletedRows
    <3>6. c.item = i
      BY <1>1, <3>5
    <3>7. review'[c.item][item[c.item].round].grade = c.grade
      <4>1. PICK j, round, g : j = c.item /\ round = c.round /\ g = c.grade
        OBVIOUS
      <4>2. /\ j \in Items /\ Savable(j, round, g)
            /\ review' = Saved(j, round, g, "confirmed")
        BY <3>2, <3>3, <4>1
      <4>3. review'[j][item[j].round].grade = g
        BY <2>0, <4>2, SavedPaper
      <4> QED BY <4>1, <4>3
    <3> QED BY <3>1, <3>2, <3>6, <3>7
  <2>6. ASSUME NEW t \in Tabs, ConfirmReviews(t) PROVE Asked(i)
    <3>1. PICK c, S : c = tab[t] /\ S = DOMAIN c.named
      OBVIOUS
    <3>2. /\ c.pc = "naming" /\ NamedCurrent(c.named) /\ \A j \in S : Confirmable(j)
          /\ review' = Confirmed(S) /\ CompletePapers(S)
      BY <2>6, <3>1 DEF ConfirmReviews
    <3>3. Naming(c) /\ S \in SUBSET Items
      <4>1. c \in {Idle, Misled} \cup Request \/ Naming(c)
        BY <2>0, <3>1 DEF TabsInv
      <4>2. c \notin {Idle, Misled} \cup Request
        BY <3>2 DEF Idle, Misled, Request
      <4> QED BY <3>1, <4>1, <4>2 DEF Naming
    <3>4. /\ \A j \in S : item'[j].status = "completed"
          /\ \A j \in Items \ S : item'[j] = item[j]
      BY <2>0, <3>2, <3>3, CompletedRows
    <3>5. i \in S
      BY <1>1, <3>4
    <3>6. review'[i][item[i].round].grade = Current(i).grade
      BY <2>0, <3>2, <3>3, <3>5, ConfirmedPapers
    <3>7. c.sent[i] = Current(i).grade
      <4>1. Remembered(c.named[i], c.sent[i], item[i], review[i])
        BY <3>1, <3>3, <3>5 DEF Naming
      <4>2. c.named[i].round = item[i].round /\ c.named[i].revision = review[i][item[i].round].revision
        BY <3>1, <3>2, <3>5 DEF NamedCurrent, Current
      <4>3. item[i].round \in Int
        BY <2>0 DEF Rounds
      <4> QED BY <4>1, <4>2, <4>3 DEF Remembered, Current
    <3> QED BY <3>1, <3>2, <3>4, <3>5, <3>6, <3>7
  <2>7. CASE \E t \in Tabs : TabStep(t)
    <3>1. PICK t \in Tabs : TabStep(t)
      BY <2>7
    <3> HIDE DEF Asked
    <3>2. CASE SaveAndConfirm(t) \/ ConfirmReviews(t)
      BY <2>5, <2>6, <3>2
    <3>3. CASE ~(SaveAndConfirm(t) \/ ConfirmReviews(t))
      <4>1. UNCHANGED item
        BY <3>1, <3>3 DEF TabStep, SendGrade, ReadDraft, SaveDraft, ConfirmAgain,
                          ConfirmReviewsAgain, RequestFails
      <4> QED BY <1>1, <4>1
    <3> QED BY <3>2, <3>3
  <2>8. CASE \E k \in Keys, type \in {"draft", "final"} : CreateExport(k, type)
    BY <2>1, <2>8 DEF CreateExport
  <2>9. CASE UNCHANGED reviewVars
    BY <2>1, <2>9 DEF reviewVars
  <2> HIDE DEF Asked
  <2> QED BY <1>1, <2>2, <2>3, <2>4, <2>7, <2>8, <2>9 DEF ReviewNext
<1>2. ReviewInv /\ [ReviewNext]_reviewVars
        => [\A i \in Items : item[i].status # "completed" /\ item'[i].status = "completed"
              => Asked(i)]_reviewVars
  <2> HIDE DEF Asked
  <2> QED BY <1>1
<1>3. [][\A i \in Items : item[i].status # "completed" /\ item'[i].status = "completed"
          => Asked(i)]_reviewVars <=> ConfirmedAsRequested
  BY DEF ConfirmedAsRequested
<1> HIDE DEF Asked
<1> QED BY <1>2, <1>3, ReviewInvHolds, PTL DEF ReviewSpec
=============================================================================
