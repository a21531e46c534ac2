------------------------- MODULE RetentionSweepProofs -------------------------
(***************************************************************************)
(* Proofs about RetentionSweep and the quota it composes, for any keys,    *)
(* sizes, limit, writers and sweeps.                                       *)
(***************************************************************************)
EXTENDS RetentionSweep, FiniteSetTheorems, WellFoundedInduction, TLAPS

-----------------------------------------------------------------------------
(* Sums of sizes                                                           *)

(* A set of subsets of a finite set has a member with no smaller one.      *)
LEMMA SmallestExists ==
  ASSUME NEW S, IsFiniteSet(S), NEW Bad, Bad \subseteq SUBSET S, Bad # {}
  PROVE  \E T \in Bad : \A U \in Bad : U \subseteq T => U = T
<1>1. IsWellFoundedOn(StrictSubsetOrdering(S), FiniteSubsetsOf(S))
  BY FS_StrictSubsetOrderingWellFounded
<1>2. Bad \subseteq FiniteSubsetsOf(S)
  BY FS_Subset DEF FiniteSubsetsOf
<1>3. PICK T \in Bad : \A U \in Bad : ~(<<U, T>> \in StrictSubsetOrdering(S))
  BY <1>1, <1>2, WFMin
<1> QED BY <1>3 DEF StrictSubsetOrdering

(* The member a sum takes first, and the table a sum over S is read from.  *)
First(s) == CHOOSE x \in s : TRUE
Entry(g, s) == IF s = {} THEN 0 ELSE Size[First(s)] + g[s \ {First(s)}]
Table(S, g) == g = [s \in SUBSET S |-> Entry(g, s)]
TableOf(S) == CHOOSE g : Table(S, g)

(* A sum is the last entry of its table.                                   *)
LEMMA BytesIsRead == \A S : Bytes(S) = TableOf(S)[S]
BY DEF Bytes, MapThenSumSet, MapThenFoldSet, TableOf, Table, Entry, First

(* First chooses a member.                                                 *)
LEMMA FirstIsMember == \A s : s # {} => First(s) \in s
BY DEF First

(* Tables agree on the sets they share.                                    *)
LEMMA TablesAgree ==
  ASSUME NEW S, IsFiniteSet(S), NEW U, U \subseteq S,
         NEW g, NEW h, Table(S, g), Table(U, h)
  PROVE  \A s \in SUBSET U : g[s] = h[s]
<1> DEFINE Bad == {s \in SUBSET U : g[s] # h[s]}
<1> SUFFICES ASSUME Bad # {} PROVE FALSE
  OBVIOUS
<1>1. IsFiniteSet(U)
  BY FS_Subset
<1>2. PICK T \in Bad : \A V \in Bad : V \subseteq T => V = T
  <2>1. Bad \subseteq SUBSET U
    OBVIOUS
  <2> HIDE DEF Bad
  <2> QED BY <1>1, <2>1, SmallestExists
<1>3. g[T] = Entry(g, T) /\ h[T] = Entry(h, T)
  BY DEF Table
<1>4. T # {}
  BY <1>3 DEF Entry
<1>5. First(T) \in T
  BY <1>4, FirstIsMember
<1>6. g[T \ {First(T)}] = h[T \ {First(T)}]
  BY <1>2, <1>5
<1> QED BY <1>3, <1>4, <1>6 DEF Entry

(* Every finite set has its table.                                         *)
LEMMA TableExists ==
  ASSUME NEW S, IsFiniteSet(S)
  PROVE  Table(S, TableOf(S))
<1> DEFINE Bad == {s \in SUBSET S : ~Table(s, TableOf(s))}
<1> SUFFICES ASSUME Bad # {} PROVE FALSE
  OBVIOUS
<1>1. PICK T \in Bad : \A V \in Bad : V \subseteq T => V = T
  <2>1. Bad \subseteq SUBSET S
    OBVIOUS
  <2> HIDE DEF Bad
  <2> QED BY <2>1, SmallestExists
<1>2. \A s \in SUBSET T : s # T => Table(s, TableOf(s))
  BY <1>1
<1> DEFINE Last(s) == TableOf(s)[s]
           G == [s \in SUBSET T |->
                   IF s = {} THEN 0 ELSE Size[First(s)] + Last(s \ {First(s)})]
<1>3. \A s \in SUBSET T : s # {} => /\ First(s) \in s /\ s \ {First(s)} \in SUBSET T
                                   /\ s \ {First(s)} # T /\ s \ {First(s)} # s
  <2> SUFFICES ASSUME NEW s \in SUBSET T, s # {}
               PROVE  /\ First(s) \in s /\ s \ {First(s)} \in SUBSET T
                      /\ s \ {First(s)} # T /\ s \ {First(s)} # s
    OBVIOUS
  <2>1. First(s) \in s
    BY FirstIsMember
  <2> QED BY <2>1
<1>4. \A s \in SUBSET T : s # T => G[s] = Last(s)
  <2> SUFFICES ASSUME NEW s \in SUBSET T, s # T PROVE G[s] = Last(s)
    OBVIOUS
  <2>1. Table(s, TableOf(s))
    BY <1>2
  <2>2. Last(s) = Entry(TableOf(s), s)
    BY <2>1 DEF Table
  <2>3. CASE s = {}
    BY <2>2, <2>3 DEF Entry
  <2>4. CASE s # {}
    <3> DEFINE r == s \ {First(s)}
    <3>1. r \in SUBSET T /\ r # T /\ r \subseteq s
      BY <1>3, <2>4
    <3>2. Table(r, TableOf(r))
      BY <1>2, <3>1
    <3>3. IsFiniteSet(s)
      BY FS_Subset
    <3> HIDE DEF r
    <3>4. TableOf(s)[r] = TableOf(r)[r]
      BY <2>1, <3>1, <3>2, <3>3, TablesAgree
    <3> QED BY <2>2, <2>4, <3>4 DEF Entry, r
  <2> QED BY <2>3, <2>4
<1>5. \A s \in SUBSET T : G[s] = Entry(G, s)
  <2> SUFFICES ASSUME NEW s \in SUBSET T PROVE G[s] = Entry(G, s)
    OBVIOUS
  <2>1. CASE s = {}
    BY <2>1 DEF Entry
  <2>2. CASE s # {}
    <3>1. G[s \ {First(s)}] = Last(s \ {First(s)})
      BY <1>3, <1>4, <2>2
    <3>2. G[s] = Size[First(s)] + Last(s \ {First(s)})
      BY <2>2
    <3> HIDE DEF G
    <3> QED BY <2>2, <3>1, <3>2 DEF Entry
  <2> QED BY <2>1, <2>2
<1>6. G = [s \in SUBSET T |-> G[s]]
  OBVIOUS
<1>7. Table(T, G)
  <2> HIDE DEF G
  <2> QED BY <1>5, <1>6 DEF Table
<1>8. Table(T, TableOf(T))
  <2> HIDE DEF G
  <2> QED BY <1>7 DEF TableOf
<1> QED BY <1>8

(* The sum over a finite set, from the sum without its first member.       *)
LEMMA BytesFirst ==
  ASSUME NEW S, IsFiniteSet(S)
  PROVE  /\ S = {} => Bytes(S) = 0
         /\ S # {} => First(S) \in S /\ Bytes(S) = Size[First(S)] + Bytes(S \ {First(S)})
<1>1. Table(S, TableOf(S)) /\ Bytes(S) = TableOf(S)[S]
  BY TableExists, BytesIsRead
<1>2. Bytes(S) = Entry(TableOf(S), S)
  BY <1>1 DEF Table
<1>3. CASE S = {}
  BY <1>2, <1>3 DEF Entry
<1>4. CASE S # {}
  <2> DEFINE r == S \ {First(S)}
  <2>1. IsFiniteSet(r) /\ r \subseteq S
    BY FS_Subset
  <2> HIDE DEF r
  <2>2. Table(r, TableOf(r)) /\ Bytes(r) = TableOf(r)[r]
    BY <2>1, TableExists, BytesIsRead
  <2>3. TableOf(S)[r] = TableOf(r)[r]
    BY <1>1, <2>1, <2>2, TablesAgree
  <2>4. First(S) \in S
    BY <1>4, FirstIsMember
  <2> QED BY <1>2, <1>4, <2>2, <2>3, <2>4 DEF Entry, r
<1> QED BY <1>3, <1>4

(* Sums of sizes of keys are numbers.                                      *)
LEMMA BytesAreNumbers ==
  ASSUME NEW S \in SUBSET Keys
  PROVE  IsFiniteSet(S) /\ Bytes(S) \in Nat
<1>0. ASSUME NEW T \in SUBSET Keys PROVE IsFiniteSet(T)
  BY FS_Subset, QuotaAssumption
<1> DEFINE Bad == {T \in SUBSET Keys : Bytes(T) \notin Nat}
<1> SUFFICES ASSUME Bad # {} PROVE FALSE
  BY <1>0
<1>1. PICK T \in Bad : \A V \in Bad : V \subseteq T => V = T
  <2>1. Bad \subseteq SUBSET Keys
    OBVIOUS
  <2> HIDE DEF Bad
  <2> QED BY <2>1, QuotaAssumption, SmallestExists
<1>2. IsFiniteSet(T)
  BY <1>0
<1>3. First(T) \in T /\ Bytes(T) = Size[First(T)] + Bytes(T \ {First(T)})
  <2>1. T # {}
    <3>1. Bytes(T) \notin Nat
      OBVIOUS
    <3>2. T = {} => Bytes(T) = 0
      BY <1>2, BytesFirst
    <3> HIDE DEF Bad
    <3> QED BY <3>1, <3>2
  <2> QED BY <1>2, <2>1, BytesFirst
<1>4. Bytes(T \ {First(T)}) \in Nat
  BY <1>1, <1>3
<1> QED BY <1>3, <1>4, QuotaAssumption

(* Any member may be taken out of a sum.                                   *)
LEMMA BytesWithout ==
  ASSUME NEW S \in SUBSET Keys, NEW k \in S
  PROVE  Bytes(S) = Size[k] + Bytes(S \ {k})
<1> DEFINE Bad == {T \in SUBSET Keys : \E x \in T : Bytes(T) # Size[x] + Bytes(T \ {x})}
<1> SUFFICES ASSUME Bad # {} PROVE FALSE
  OBVIOUS
<1>1. PICK T \in Bad : \A V \in Bad : V \subseteq T => V = T
  <2>1. Bad \subseteq SUBSET Keys
    OBVIOUS
  <2> HIDE DEF Bad
  <2> QED BY <2>1, QuotaAssumption, SmallestExists
<1>2. PICK x \in T : Bytes(T) # Size[x] + Bytes(T \ {x})
  BY <1>1
<1>3. IsFiniteSet(T)
  BY BytesAreNumbers
<1> DEFINE y == First(T)
<1>4. y \in T /\ Bytes(T) = Size[y] + Bytes(T \ {y})
  BY <1>2, <1>3, BytesFirst
<1> HIDE DEF y
<1>5. x # y
  BY <1>2, <1>4
<1>6. T \ {y} \notin Bad /\ T \ {x} \notin Bad
  BY <1>1, <1>2, <1>4
<1>7. /\ Bytes(T \ {y}) = Size[x] + Bytes((T \ {y}) \ {x})
      /\ Bytes(T \ {x}) = Size[y] + Bytes((T \ {x}) \ {y})
  BY <1>2, <1>4, <1>5, <1>6
<1>8. (T \ {x}) \ {y} = (T \ {y}) \ {x}
  OBVIOUS
<1>9. Size[x] \in Nat /\ Size[y] \in Nat /\ Bytes((T \ {y}) \ {x}) \in Nat
  BY <1>2, <1>4, BytesAreNumbers, QuotaAssumption
<1> QED BY <1>2, <1>4, <1>7, <1>8, <1>9

(* A larger set has a larger sum.                                          *)
LEMMA BytesGrow ==
  ASSUME NEW S \in SUBSET Keys, NEW U \in SUBSET S
  PROVE  Bytes(U) <= Bytes(S)
<1> DEFINE Bad == {T \in SUBSET Keys : \E V \in SUBSET T : ~(Bytes(V) <= Bytes(T))}
<1> SUFFICES ASSUME Bad # {} PROVE FALSE
  OBVIOUS
<1>1. PICK T \in Bad : \A V \in Bad : V \subseteq T => V = T
  <2>1. Bad \subseteq SUBSET Keys
    OBVIOUS
  <2> HIDE DEF Bad
  <2> QED BY <2>1, QuotaAssumption, SmallestExists
<1>2. PICK V \in SUBSET T : ~(Bytes(V) <= Bytes(T))
  BY <1>1
<1>3. Bytes(T) \in Nat /\ Bytes(V) \in Nat
  BY BytesAreNumbers
<1>4. PICK x \in T : x \notin V
  BY <1>2, <1>3
<1>5. Bytes(V) <= Bytes(T \ {x})
  BY <1>1, <1>4
<1>6. Bytes(T) = Size[x] + Bytes(T \ {x})
  BY BytesWithout
<1>7. Size[x] \in Nat /\ Bytes(T \ {x}) \in Nat
  BY BytesAreNumbers, QuotaAssumption
<1> QED BY <1>2, <1>3, <1>5, <1>6, <1>7

(* The sum of a union is at most the sum of the sums.                      *)
LEMMA BytesOfUnion ==
  ASSUME NEW S \in SUBSET Keys, NEW U \in SUBSET Keys
  PROVE  Bytes(S \cup U) <= Bytes(S) + Bytes(U)
<1> DEFINE Bad == {T \in SUBSET Keys : ~(Bytes(T \cup U) <= Bytes(T) + Bytes(U))}
<1> SUFFICES ASSUME Bad # {} PROVE FALSE
  OBVIOUS
<1>1. PICK T \in Bad : \A V \in Bad : V \subseteq T => V = T
  <2>1. Bad \subseteq SUBSET Keys
    OBVIOUS
  <2> HIDE DEF Bad
  <2> QED BY <2>1, QuotaAssumption, SmallestExists
<1>2. /\ Bytes(T) \in Nat /\ Bytes(U) \in Nat /\ Bytes(T \cup U) \in Nat
      /\ ~(Bytes(T \cup U) <= Bytes(T) + Bytes(U))
  <2>1. T \cup U \in SUBSET Keys
    OBVIOUS
  <2> QED BY <2>1, BytesAreNumbers
<1>3. T # {}
  <2> SUFFICES ASSUME T = {} PROVE FALSE
    OBVIOUS
  <2>1. Bytes(T \cup U) = Bytes(U)
    <3>1. T \cup U = U
      OBVIOUS
    <3> QED BY <3>1
  <2> HIDE DEF Bad
  <2> QED BY <1>2, <2>1
<1>4. PICK x \in T : TRUE
  BY <1>3
<1> DEFINE R == T \ {x}
<1>5. R \in SUBSET Keys /\ R \cup U \in SUBSET Keys /\ R \notin Bad
  BY <1>1, <1>4
<1>6. /\ Bytes(R \cup U) <= Bytes(R) + Bytes(U)
      /\ Bytes(T) = Size[x] + Bytes(R)
  BY <1>5, BytesWithout
<1>7. Size[x] \in Nat /\ Bytes(R) \in Nat /\ Bytes(R \cup U) \in Nat
  BY <1>5, BytesAreNumbers, QuotaAssumption
<1>8. CASE x \in U
  <2>1. T \cup U = R \cup U
    BY <1>8
  <2>2. Bytes(T \cup U) = Bytes(R \cup U)
    BY <2>1
  <2> HIDE DEF R, Bad
  <2> QED BY <1>2, <1>6, <1>7, <2>2
<1>9. CASE x \notin U
  <2>1. x \in T \cup U /\ (T \cup U) \ {x} = R \cup U /\ T \cup U \in SUBSET Keys
    BY <1>9
  <2> HIDE DEF R
  <2>2. Bytes(T \cup U) = Size[x] + Bytes(R \cup U)
    BY <2>1, BytesWithout
  <2> QED BY <1>2, <1>6, <1>7, <2>2
<1> QED BY <1>8, <1>9

-----------------------------------------------------------------------------
(* The quota                                                               *)

(* Keys that ever had a reservation; none is released.                     *)
Reserved == {k \in Keys : reservation[k] # "none"}

(* Everything that is stored, may land or is being written has a           *)
(* reservation, and everything that ever had one fits below the limit      *)
(* without what the last reservation overlooked.                           *)
QuotaInv ==
  /\ QuotaTypeOK
  /\ stored \subseteq Reserved /\ late \subseteq Reserved
  /\ \A w \in Writers : writer[w] \in Placed => writer[w].key \in Reserved
  /\ Bytes(Reserved \ slipped) < HardLimit

(* Places and keys of writers, by type.                                    *)
LEMMA WriterTypes ==
  ASSUME QuotaTypeOK, NEW w \in Writers
  PROVE  /\ Free.pc = "free" /\ Free \notin Placed
         /\ writer[w].pc \in {"writing", "committing", "doubting"}
              => writer[w] # Free /\ writer[w] \in Placed
         /\ writer[w].pc = "reserving" => writer[w] # Free /\ writer[w] \in Deciding
         /\ writer[w] # Free => writer[w].key \in Keys
<1>1. Free.pc = "free"
  BY DEF Free
<1>2. writer[w] \in {Free} \cup Deciding \cup Placed
  BY DEF QuotaTypeOK
<1> QED BY <1>1, <1>2 DEF Deciding, Placed

(* A reservation is accepted only with everything else that was reserved   *)
(* and that it does not overlook.                                          *)
LEMMA ReserveFits ==
  ASSUME QuotaInv, NEW k \in Keys, NEW used \in SUBSET Keys, Projected(used, k) < HardLimit
  PROVE  Bytes((Reserved \cup {k}) \ Overlooked(used, k)) < HardLimit
<1>1. stored \subseteq Keys /\ reservation \in [Keys -> ReservationStates]
  BY DEF QuotaInv, QuotaTypeOK
<1> DEFINE A == used \ {k}
           B == ReservedFor(k)
           Kept == (Reserved \cup {k}) \ Overlooked(used, k)
<1>2. A \in SUBSET Keys /\ B \in SUBSET Keys /\ {k} \in SUBSET Keys
  BY <1>1 DEF ReservedFor
<1>3. \A r \in Kept \ {k} : r \in A \cup B
  <2> SUFFICES ASSUME NEW r \in Kept \ {k}, r \notin used PROVE r \in B
    OBVIOUS
  <2>1. r \in Keys /\ reservation[r] \in {"reserved", "expired", "committed", "uncertain"}
    BY <1>1 DEF Reserved, ReservationStates
  <2>2. Lapsed[r] \in {"reserved", "committed", "uncertain"}
    BY <2>1 DEF Lapsed
  <2>3. CASE r \in stored
    BY <2>3 DEF Overlooked
  <2>4. CASE r \notin stored
    BY <2>1, <2>2, <2>4 DEF ReservedFor
  <2> QED BY <2>3, <2>4
<1>4. Bytes({k}) = Size[k]
  <2>1. Bytes({k}) = Size[k] + Bytes({k} \ {k})
    BY <1>2, BytesWithout
  <2>2. Bytes({k} \ {k}) = 0
    <3>1. {k} \ {k} = {} /\ IsFiniteSet({})
      BY FS_EmptySet
    <3>2. Bytes({}) = 0
      BY <3>1, BytesFirst
    <3> QED BY <3>1, <3>2
  <2> QED BY <2>1, <2>2, QuotaAssumption
<1>5. Projected(used, k) = Bytes(A) + Bytes(B) + Bytes({k})
  BY <1>4 DEF Projected
<1>9. Kept \in SUBSET ((A \cup B) \cup {k})
  BY <1>3
<1> HIDE DEF A, B, Kept
<1>6. A \cup B \in SUBSET Keys /\ (A \cup B) \cup {k} \in SUBSET Keys
  BY <1>2
<1>7. Bytes(A \cup B) <= Bytes(A) + Bytes(B)
  BY <1>2, BytesOfUnion
<1>8. Bytes((A \cup B) \cup {k}) <= Bytes(A \cup B) + Bytes({k})
  BY <1>2, <1>6, BytesOfUnion
<1>10. Bytes(Kept) <= Bytes((A \cup B) \cup {k})
  BY <1>6, <1>9, BytesGrow
<1>11. /\ Bytes(A) \in Nat /\ Bytes(B) \in Nat /\ Bytes({k}) \in Nat
       /\ Bytes(A \cup B) \in Nat /\ Bytes((A \cup B) \cup {k}) \in Nat
       /\ Bytes(Kept) \in Nat
  BY <1>2, <1>6, <1>9, BytesAreNumbers
<1>12. Bytes(Kept) < HardLimit
  BY <1>5, <1>7, <1>8, <1>10, <1>11, QuotaAssumption
<1> QED BY <1>12 DEF Kept

(* A step after which the same keys are reserved.                          *)
LEMMA SameReserved ==
  ASSUME QuotaInv, QuotaTypeOK',
         \A k \in Keys : reservation'[k] = "none" <=> reservation[k] = "none",
         stored' \subseteq Reserved, late' \subseteq Reserved,
         slipped' = slipped,
         \A w \in Writers : writer'[w] \in Placed => writer'[w].key \in Reserved
  PROVE  QuotaInv'
<1>1. Reserved' = Reserved
  BY DEF Reserved
<1>2. (Reserved \ slipped)' = Reserved \ slipped
  BY <1>1
<1>3. Bytes(Reserved \ slipped)' < HardLimit
  BY <1>2 DEF QuotaInv
<1>4. \A w \in Writers : writer'[w] \in Placed' => writer'[w].key \in Reserved'
  BY <1>1 DEF Placed
<1> QED BY <1>1, <1>3, <1>4 DEF QuotaInv

(* Every step of a writer, of the store or of a lease keeps the quota.     *)
LEMMA QuotaKept ==
  ASSUME QuotaInv, WriteStep
  PROVE  QuotaInv'
<1>0. /\ QuotaTypeOK /\ stored \subseteq Reserved /\ late \subseteq Reserved
      /\ \A w \in Writers : writer[w] \in Placed => writer[w].key \in Reserved
      /\ Reserved \subseteq Keys
  BY DEF QuotaInv, Reserved
<1>1. /\ stored \subseteq Keys /\ late \subseteq Keys /\ slipped \subseteq Keys
      /\ reservation \in [Keys -> ReservationStates]
      /\ writer \in [Writers -> {Free} \cup Deciding \cup Placed]
      /\ Free \notin Placed
  BY <1>0 DEF QuotaTypeOK, Free, Placed
<1>2. /\ Lapsed \in [Keys -> ReservationStates]
      /\ \A k \in Keys : Lapsed[k] = "none" <=> reservation[k] = "none"
  BY <1>1 DEF Lapsed, ReservationStates
<1>3. ASSUME NEW w \in Writers, NEW k \in Keys, reserve_storage_growth(w, k)
      PROVE  QuotaInv'
  <2>0. stored' = stored /\ late' = late /\ slipped' = slipped
    BY <1>3 DEF reserve_storage_growth
  <2>1. PICK c, d : /\ c = [pc |-> "writing", key |-> k]
                    /\ d = [pc |-> "reserving", key |-> k, used |-> stored]
    OBVIOUS
  <2>2. c.key = k /\ c \in Placed /\ d \in Deciding /\ d \notin Placed
    BY <1>1, <2>1 DEF Placed, Deciding
  <2>3. CASE /\ reservation[k] \in {"reserved", "committed"} /\ reservation' = reservation
             /\ writer' = [writer EXCEPT ![w] = c]
    <3>1. QuotaTypeOK'
      BY <1>1, <2>0, <2>2, <2>3 DEF QuotaTypeOK, Deciding, Placed
    <3>2. k \in Reserved
      BY <2>3 DEF Reserved
    <3>3. \A v \in Writers : writer'[v] \in Placed => writer'[v].key \in Reserved
      BY <1>0, <1>1, <2>2, <2>3, <3>2
    <3> QED BY <1>0, <2>0, <2>3, <3>1, <3>3, SameReserved
  <2>4. CASE reservation' = reservation /\ writer' = [writer EXCEPT ![w] = d]
    <3>1. QuotaTypeOK'
      BY <1>1, <2>0, <2>2, <2>4 DEF QuotaTypeOK, Deciding, Placed
    <3>2. \A v \in Writers : writer'[v] \in Placed => writer'[v].key \in Reserved
      BY <1>0, <1>1, <2>2, <2>4
    <3> QED BY <1>0, <2>0, <2>4, <3>1, <3>2, SameReserved
  <2>5. CASE /\ reservation[k] = "expired" /\ writer' = writer
             /\ reservation' = [reservation EXCEPT ![k] = "uncertain"]
    <3>1. /\ reservation' \in [Keys -> ReservationStates]
          /\ \A r \in Keys : reservation'[r] = "none" <=> reservation[r] = "none"
      BY <1>1, <2>5 DEF ReservationStates
    <3>2. QuotaTypeOK'
      BY <1>1, <2>0, <2>5, <3>1 DEF QuotaTypeOK, Deciding, Placed
    <3> QED BY <1>0, <2>0, <2>5, <3>1, <3>2, SameReserved
  <2> QED BY <1>3, <2>1, <2>3, <2>4, <2>5 DEF reserve_storage_growth
<1>8. ASSUME NEW w \in Writers, DecideGrowth(w) PROVE QuotaInv'
  <2>1. PICK k, used : k = writer[w].key /\ used = writer[w].used
    OBVIOUS
  <2>2. k \in Keys /\ used \in SUBSET Keys
    <3>1. writer[w] \in Deciding
      BY <1>0, <1>8, WriterTypes DEF DecideGrowth
    <3> QED BY <2>1, <3>1 DEF Deciding
  <2>3. stored' = stored /\ late' = late
    BY <1>8 DEF DecideGrowth
  <2>4. PICK c : c = [pc |-> "writing", key |-> k]
    OBVIOUS
  <2>5. c.key = k /\ c \in Placed
    BY <2>2, <2>4 DEF Placed
  <2>6. CASE /\ Projected(used, k) < HardLimit /\ reservation' = [Lapsed EXCEPT ![k] = "reserved"]
             /\ writer' = [writer EXCEPT ![w] = c] /\ slipped' = Overlooked(used, k)
    <3>1. reservation' \in [Keys -> ReservationStates]
      BY <1>2, <2>6 DEF ReservationStates
    <3>2. QuotaTypeOK'
      BY <1>1, <2>3, <2>5, <2>6, <3>1 DEF QuotaTypeOK, Overlooked, Deciding, Placed
    <3>3. Reserved' = Reserved \cup {k}
      <4>1. \A r \in Keys : reservation'[r] = IF r = k THEN "reserved" ELSE Lapsed[r]
        BY <1>2, <2>6
      <4> QED BY <1>2, <2>2, <4>1 DEF Reserved
    <3>4. Bytes(Reserved \ slipped)' < HardLimit
      <4>1. (Reserved \ slipped)' = (Reserved \cup {k}) \ Overlooked(used, k)
        BY <2>6, <3>3
      <4>2. Bytes((Reserved \cup {k}) \ Overlooked(used, k)) < HardLimit
        BY <2>2, <2>6, ReserveFits
      <4> QED BY <4>1, <4>2
    <3>5. \A v \in Writers : writer'[v] \in Placed' => writer'[v].key \in Reserved'
      BY <1>0, <1>1, <2>5, <2>6, <3>3 DEF Placed
    <3> QED BY <1>0, <2>3, <3>2, <3>3, <3>4, <3>5 DEF QuotaInv
  <2>7. CASE /\ reservation' = Lapsed /\ writer' = [writer EXCEPT ![w] = Free]
             /\ slipped' = slipped
    <3>1. QuotaTypeOK'
      BY <1>1, <1>2, <2>3, <2>7 DEF QuotaTypeOK, Deciding, Placed
    <3>2. \A v \in Writers : writer'[v] \in Placed => writer'[v].key \in Reserved
      BY <1>0, <1>1, <2>7
    <3> QED BY <1>0, <1>2, <2>3, <2>7, <3>1, <3>2, SameReserved
  <2> QED BY <1>8, <2>1, <2>4, <2>6, <2>7 DEF DecideGrowth
<1>4. ASSUME NEW w \in Writers, Write(w) PROVE QuotaInv'
  <2>1. /\ writer[w] \in Placed /\ writer[w].key \in Reserved /\ reservation' = reservation
        /\ slipped' = slipped
    BY <1>0, <1>4, WriterTypes DEF Write
  <2>2. PICK b \in {"committing", "doubting"} : writer' = [writer EXCEPT ![w].pc = b]
    BY <1>4 DEF Write
  <2>3. PICK c : c = [writer[w] EXCEPT !.pc = b]
    OBVIOUS
  <2>4. /\ c \in Placed
        /\ c.key = writer[w].key /\ writer' = [writer EXCEPT ![w] = c]
    BY <2>1, <2>2, <2>3 DEF Placed
  <2>5. \A v \in Writers : writer'[v] \in Placed => writer'[v].key \in Reserved
    BY <1>0, <1>1, <2>1, <2>4
  <2>6. stored' \subseteq Reserved /\ late' \subseteq Reserved
    BY <1>0, <1>4, <2>1 DEF Write
  <2>7. QuotaTypeOK'
    BY <1>0, <1>1, <2>1, <2>4, <2>6 DEF QuotaTypeOK, Deciding, Placed
  <2> QED BY <2>1, <2>5, <2>6, <2>7, SameReserved
<1>5. ASSUME NEW w \in Writers, finalize_storage_growth(w) PROVE QuotaInv'
  <2> DEFINE k == writer[w].key
  <2>1. writer[w] \in Placed /\ k \in Reserved /\ k \in Keys
    BY <1>0, <1>5, WriterTypes DEF finalize_storage_growth
  <2> HIDE DEF k
  <2>2. \E n \in {"committed", "uncertain"} : reservation' = [reservation EXCEPT ![k] = n]
    BY <1>1, <1>5, <2>1 DEF finalize_storage_growth, k
  <2>3. /\ reservation' \in [Keys -> ReservationStates]
        /\ \A r \in Keys : reservation'[r] = "none" <=> reservation[r] = "none"
    BY <1>1, <2>1, <2>2 DEF ReservationStates, Reserved
  <2>4. /\ writer' = [writer EXCEPT ![w] = Free] /\ stored' = stored /\ late' = late
        /\ slipped' = slipped
    BY <1>5 DEF finalize_storage_growth
  <2>5. \A v \in Writers : writer'[v] \in Placed => writer'[v].key \in Reserved
    BY <1>0, <1>1, <2>4
  <2>6. QuotaTypeOK'
    BY <1>1, <2>3, <2>4 DEF QuotaTypeOK, Deciding, Placed
  <2> QED BY <1>0, <2>3, <2>4, <2>5, <2>6, SameReserved
<1>6. ASSUME NEW w \in Writers, WriterStops(w) PROVE QuotaInv'
  <2>1. /\ writer[w] # Free /\ writer' = [writer EXCEPT ![w] = Free]
        /\ stored' = stored /\ reservation' = reservation /\ slipped' = slipped
        /\ \/ late' = late
           \/ writer[w].pc = "writing" /\ late' = late \cup {writer[w].key}
    BY <1>6 DEF WriterStops
  <2>2. late' \subseteq Reserved
    BY <1>0, <2>1, WriterTypes
  <2>3. \A v \in Writers : writer'[v] \in Placed => writer'[v].key \in Reserved
    BY <1>0, <1>1, <2>1
  <2>4. QuotaTypeOK'
    BY <1>0, <1>1, <2>1, <2>2 DEF QuotaTypeOK, Deciding, Placed
  <2> QED BY <1>0, <2>1, <2>2, <2>3, <2>4, SameReserved
<1>7. ASSUME NEW k \in Keys, LeaseExpires(k) \/ Land(k) \/ CompensatingDelete(k)
      PROVE  QuotaInv'
  <2>1. /\ reservation' \in [Keys -> ReservationStates] /\ writer' = writer
        /\ slipped' = slipped
        /\ \A r \in Keys : reservation'[r] = "none" <=> reservation[r] = "none"
    BY <1>1, <1>7 DEF LeaseExpires, Land, CompensatingDelete, ReservationStates
  <2>2. stored' \subseteq Reserved /\ late' \subseteq Reserved
    BY <1>0, <1>7 DEF LeaseExpires, Land, CompensatingDelete
  <2>3. QuotaTypeOK'
    BY <1>0, <1>1, <2>1, <2>2 DEF QuotaTypeOK, Deciding, Placed
  <2> QED BY <1>0, <2>1, <2>2, <2>3, SameReserved
<1> QED BY <1>3, <1>8, <1>4, <1>5, <1>6, <1>7 DEF WriteStep, Active

-----------------------------------------------------------------------------
(* Sweeps                                                                  *)

Rows == [status : RetentionStates, by : Sweeps \cup {None}]
Runs == [pc : {"claimed", "deleting", "completing", "failing"}, key : Retained]

(* Nobody writes a key, and no write of it is still to land.               *)
Quiet(k) == k \notin late /\ \A w \in Writers : writer[w] # Free => writer[w].key # k

(* A listed key is quiet, so that what a run deleted stays deleted until   *)
(* it, or another run that took over its claim, records it.                *)
SweepInv ==
  /\ TypeOK /\ QuotaInv
  /\ \A k \in Retained : retention[k].status # None => Quiet(k)
  /\ \A s \in Sweeps : sweep[s] # Free => retention[sweep[s].key].status # None
  /\ \A s \in Sweeps : sweep[s].pc = "completing" => sweep[s].key \notin stored
  /\ CompletedIsGone

(* Types of one row and of one run.                                        *)
LEMMA SweepTypes ==
  ASSUME TypeOK
  PROVE  /\ retention \in [Retained -> Rows]
         /\ sweep \in [Sweeps -> {Free} \cup Runs]
         /\ \A s \in Sweeps :
              /\ sweep[s] # Free => sweep[s] \in Runs /\ sweep[s].key \in Retained
              /\ sweep[s] = Free => sweep[s].pc = "free"
              /\ sweep[s].pc \in {"claimed", "deleting", "completing", "failing"}
                   => sweep[s] # Free
<1>1. retention \in [Retained -> Rows] /\ sweep \in [Sweeps -> {Free} \cup Runs]
  BY DEF TypeOK, Rows, Runs
<1>2. Free.pc = "free"
  BY DEF Free
<1> QED BY <1>1, <1>2 DEF Runs

(* No writer, and no write that lands late, brings back a listed key.      *)
LEMMA ListedStaysQuiet ==
  ASSUME SweepInv, WriteStep, NEW k \in Retained, retention[k].status # None
  PROVE  Quiet(k)' /\ (k \notin stored => k \notin stored')
<1>0. /\ Quiet(k) /\ QuotaTypeOK /\ k \notin Active
  BY DEF SweepInv, QuotaInv, Active
<1>1. writer \in [Writers -> {Free} \cup Deciding \cup Placed]
  BY <1>0 DEF QuotaTypeOK
<1>2. ASSUME NEW w \in Writers, NEW n \in Active, reserve_storage_growth(w, n)
      PROVE  Quiet(k)' /\ (k \notin stored => k \notin stored')
  <2>1. PICK c, d : /\ c = [pc |-> "writing", key |-> n]
                    /\ d = [pc |-> "reserving", key |-> n, used |-> stored]
    OBVIOUS
  <2>2. c.key # k /\ d.key # k
    BY <1>0, <2>1
  <2>3. \/ writer' = writer \/ writer' = [writer EXCEPT ![w] = c]
        \/ writer' = [writer EXCEPT ![w] = d]
    BY <1>2, <2>1 DEF reserve_storage_growth
  <2>4. stored' = stored /\ late' = late
    BY <1>2 DEF reserve_storage_growth
  <2> QED BY <1>0, <1>1, <2>2, <2>3, <2>4 DEF Quiet
<1>3. ASSUME NEW w \in Writers, Write(w)
      PROVE  Quiet(k)' /\ (k \notin stored => k \notin stored')
  <2>1. /\ writer[w] # Free /\ writer[w].key # k
        /\ writer[w] \in Placed
    BY <1>0, <1>3, WriterTypes DEF Write, Quiet
  <2>2. PICK b \in {"committing", "doubting"} : writer' = [writer EXCEPT ![w].pc = b]
    BY <1>3 DEF Write
  <2>3. PICK c : c = [writer[w] EXCEPT !.pc = b]
    OBVIOUS
  <2>4. c.key = writer[w].key /\ writer' = [writer EXCEPT ![w] = c]
    BY <2>1, <2>2, <2>3 DEF Placed
  <2>5. stored' \subseteq stored \cup {writer[w].key} /\ late' \subseteq late \cup {writer[w].key}
    BY <1>3 DEF Write
  <2> QED BY <1>0, <1>1, <2>1, <2>4, <2>5 DEF Quiet
<1>4. ASSUME NEW w \in Writers, finalize_storage_growth(w) \/ WriterStops(w)
      PROVE  Quiet(k)' /\ (k \notin stored => k \notin stored')
  <2>1. writer[w] # Free
    BY <1>0, <1>4, WriterTypes DEF finalize_storage_growth, WriterStops
  <2>2. /\ writer' = [writer EXCEPT ![w] = Free] /\ stored' = stored
        /\ late' \subseteq late \cup {writer[w].key}
    BY <1>4 DEF finalize_storage_growth, WriterStops
  <2> QED BY <1>0, <1>1, <2>1, <2>2 DEF Quiet
<1>5. ASSUME NEW n \in Keys, LeaseExpires(n) \/ Land(n) \/ CompensatingDelete(n)
      PROVE  Quiet(k)' /\ (k \notin stored => k \notin stored')
  BY <1>0, <1>5 DEF LeaseExpires, Land, CompensatingDelete, Quiet
<1>6. ASSUME NEW w \in Writers, DecideGrowth(w)
      PROVE  Quiet(k)' /\ (k \notin stored => k \notin stored')
  <2>1. writer[w] # Free /\ writer[w].key # k
    BY <1>0, <1>6, WriterTypes DEF DecideGrowth, Quiet
  <2>2. PICK c : c = [pc |-> "writing", key |-> writer[w].key]
    OBVIOUS
  <2>3. c.key # k /\ stored' = stored /\ late' = late
    BY <1>6, <2>1, <2>2 DEF DecideGrowth
  <2>4. writer' = [writer EXCEPT ![w] = c] \/ writer' = [writer EXCEPT ![w] = Free]
    BY <1>6, <2>2 DEF DecideGrowth
  <2> QED BY <1>0, <1>1, <2>3, <2>4 DEF Quiet
<1> QED BY <1>2, <1>3, <1>4, <1>5, <1>6 DEF WriteStep, Active

(* A step of the quota keeps SweepInv.                                     *)
LEMMA WritesKeepSweeps ==
  ASSUME SweepInv, WriteStep, UNCHANGED retentionVars
  PROVE  SweepInv'
<1>1. QuotaInv'
  BY QuotaKept DEF SweepInv
<1>2. TypeOK'
  BY <1>1 DEF SweepInv, QuotaInv, TypeOK, retentionVars
<1>3. \A k \in Retained : retention[k].status # None =>
        Quiet(k)' /\ (k \notin stored => k \notin stored')
  BY ListedStaysQuiet
<1>4. None # "completed"
  BY DEF None
<1>5. ASSUME NEW s \in Sweeps, sweep[s].pc = "completing"
      PROVE  sweep[s].key \notin stored'
  <2>0. TypeOK
    BY DEF SweepInv
  <2>1. sweep[s] # Free /\ sweep[s].key \in Retained
    BY <1>5, <2>0, SweepTypes
  <2> QED BY <1>3, <1>5, <2>1 DEF SweepInv
<1>6. sweep' = sweep /\ retention' = retention
  BY DEF retentionVars
<1>7. CompletedIsGone'
  BY <1>3, <1>4, <1>6 DEF SweepInv, CompletedIsGone
<1>8. \A k \in Retained : retention'[k].status # None => Quiet(k)'
  BY <1>3, <1>6
<1> QED BY <1>1, <1>2, <1>5, <1>6, <1>7, <1>8 DEF SweepInv

(* A step of operators, time or a run: it only takes objects away, lists   *)
(* quiet keys alone, and unlists none.                                     *)
LEMMA SweepsKeep ==
  ASSUME SweepInv,
         UNCHANGED <<late, reservation, writer, slipped>>, stored' \subseteq stored,
         retention' \in [Retained -> Rows],
         sweep' \in [Sweeps -> {Free} \cup Runs],
         held' \subseteq Retained, detached' \subseteq Retained, faults' \in 0..MaxFaults,
         \A k \in Retained :
           /\ retention'[k].by # None <=> retention'[k].status \in {"running", "lapsed"}
           /\ retention[k].status # None => retention'[k].status # None
           /\ retention[k].status = None /\ retention'[k].status # None => Quiet(k)
           /\ retention'[k].status = "completed" => k \notin stored',
         \A s \in Sweeps :
           /\ sweep'[s] # Free => retention'[sweep'[s].key].status # None
           /\ sweep'[s].pc = "completing" => sweep'[s].key \notin stored'
  PROVE  SweepInv'
<1>1. QuotaTypeOK'
  BY DEF SweepInv, QuotaInv, QuotaTypeOK, Deciding, Placed
<1>2. QuotaInv'
  BY <1>1, SameReserved DEF SweepInv, QuotaInv
<1>3. TypeOK'
  BY <1>1 DEF TypeOK, Rows, Runs
<1>4. \A k \in Retained : retention'[k].status # None => Quiet(k)'
  BY DEF SweepInv, Quiet
<1> QED BY <1>2, <1>3, <1>4 DEF SweepInv, CompletedIsGone

(* Closing a claim, listing included.                                      *)
LEMMA Closed ==
  ASSUME TypeOK, NEW k \in Retained,
         NEW st \in {"candidate", "invalidated", "completed", "waiting", "failed"},
         Close(k, st)
  PROVE  /\ retention' \in [Retained -> Rows]
         /\ retention'[k].status = st /\ st # None
         /\ \A j \in Retained \ {k} : retention'[j] = retention[j]
         /\ \A j \in Retained :
              retention'[j].by # None <=> retention'[j].status \in {"running", "lapsed"}
<1>1. retention \in [Retained -> Rows]
  BY SweepTypes
<1>2. PICK r : r = NoClaim(st)
  OBVIOUS
<1>3. r.status = st /\ r.by = None /\ st # None /\ r \in Rows
  BY <1>2 DEF NoClaim, Rows, RetentionStates, Open, None
<1>4. retention' = [retention EXCEPT ![k] = r]
  BY <1>2 DEF Close
<1>5. \A j \in Retained :
        retention[j].by # None <=> retention[j].status \in {"running", "lapsed"}
  BY DEF TypeOK
<1> QED BY <1>1, <1>3, <1>4, <1>5

(* Where a run goes.                                                       *)
LEMMA RunGoes ==
  ASSUME TypeOK, NEW s \in Sweeps, sweep[s] # Free
  PROVE  /\ SweepEnds(s) => /\ sweep' \in [Sweeps -> {Free} \cup Runs]
                            /\ sweep'[s] = Free /\ sweep'[s].pc = "free"
                            /\ \A r \in Sweeps \ {s} : sweep'[r] = sweep[r]
         /\ \A pc \in {"claimed", "deleting", "completing", "failing"} : SweepGoes(s, pc) =>
              /\ sweep' \in [Sweeps -> {Free} \cup Runs]
              /\ sweep'[s].pc = pc /\ sweep'[s].key = sweep[s].key
              /\ \A r \in Sweeps \ {s} : sweep'[r] = sweep[r]
<1>1. sweep \in [Sweeps -> {Free} \cup Runs] /\ sweep[s] \in Runs
  BY SweepTypes
<1>2. ASSUME SweepEnds(s)
      PROVE  /\ sweep' \in [Sweeps -> {Free} \cup Runs]
             /\ sweep'[s] = Free /\ sweep'[s].pc = "free"
             /\ \A r \in Sweeps \ {s} : sweep'[r] = sweep[r]
  <2>1. Free.pc = "free"
    BY DEF Free
  <2> QED BY <1>1, <1>2, <2>1 DEF SweepEnds
<1>3. ASSUME NEW pc \in {"claimed", "deleting", "completing", "failing"}, SweepGoes(s, pc)
      PROVE  /\ sweep' \in [Sweeps -> {Free} \cup Runs]
             /\ sweep'[s].pc = pc /\ sweep'[s].key = sweep[s].key
             /\ \A r \in Sweeps \ {s} : sweep'[r] = sweep[r]
  <2>1. PICK c : c = [sweep[s] EXCEPT !.pc = pc]
    OBVIOUS
  <2>2. c \in Runs /\ c.pc = pc /\ c.key = sweep[s].key
    BY <1>1, <2>1 DEF Runs
  <2>3. sweep' = [sweep EXCEPT ![s] = c]
    BY <1>3, <2>1 DEF SweepGoes
  <2> QED BY <1>1, <2>2, <2>3
<1> QED BY <1>2, <1>3

(* What SweepsKeep needs of the rows and runs a step leaves alone.         *)
LEMMA SweepFacts ==
  ASSUME SweepInv
  PROVE  /\ TypeOK /\ retention \in [Retained -> Rows]
         /\ sweep \in [Sweeps -> {Free} \cup Runs]
         /\ held \subseteq Retained /\ detached \subseteq Retained
         /\ faults \in 0..MaxFaults
         /\ Fault => faults' \in 0..MaxFaults
         /\ \A k \in Retained :
              /\ retention[k].by # None <=> retention[k].status \in {"running", "lapsed"}
              /\ retention[k].status = "completed" => k \notin stored
         /\ \A s \in Sweeps :
              /\ sweep[s] # Free => sweep[s].key \in Retained
              /\ sweep[s] # Free => retention[sweep[s].key].status # None
              /\ sweep[s].pc \in {"claimed", "deleting", "completing", "failing"}
                   => sweep[s] # Free
              /\ sweep[s].pc = "completing" => sweep[s].key \notin stored
<1>1. TypeOK
  BY DEF SweepInv
<1>2. Fault => faults' \in 0..MaxFaults
  BY <1>1, RetentionAssumption DEF TypeOK, Fault
<1>3. /\ held \subseteq Retained /\ detached \subseteq Retained
      /\ faults \in 0..MaxFaults
      /\ \A k \in Retained :
           retention[k].by # None <=> retention[k].status \in {"running", "lapsed"}
  BY <1>1 DEF TypeOK
<1>4. /\ \A k \in Retained : retention[k].status = "completed" => k \notin stored
      /\ \A s \in Sweeps : sweep[s] # Free => retention[sweep[s].key].status # None
      /\ \A s \in Sweeps : sweep[s].pc = "completing" => sweep[s].key \notin stored
  BY DEF SweepInv, CompletedIsGone
<1> QED BY <1>1, <1>2, <1>3, <1>4, SweepTypes

(* Steps of operators and of time.                                         *)
LEMMA OperatorsKeepSweeps ==
  ASSUME SweepInv, NEW k \in Retained, UNCHANGED quotaVars,
         Register(k) \/ Hold(k) \/ Lift(k) \/ ClaimExpires(k) \/ RetryDue(k)
  PROVE  SweepInv'
<1>0. UNCHANGED <<stored, late, reservation, writer, slipped>> /\ sweep' = sweep
  BY DEF quotaVars, Register, Hold, Lift, ClaimExpires, RetryDue
<1>1. CASE Hold(k) \/ Lift(k)
  <2>1. retention' = retention /\ detached' = detached /\ faults' = faults
    BY <1>1 DEF Hold, Lift
  <2>2. held' \subseteq Retained
    BY <1>1, SweepFacts DEF Hold, Lift
  <2> QED BY <1>0, <2>1, <2>2, SweepFacts, SweepsKeep
<1>2. CASE Register(k)
  <2>1. /\ Close(k, "candidate") /\ Quiet(k) /\ held' = held /\ faults' = faults
        /\ detached' \subseteq Retained /\ retention[k].status = None
    BY <1>2, SweepFacts DEF Register, Quiet
  <2>2. /\ retention' \in [Retained -> Rows]
        /\ retention'[k].status = "candidate" /\ "candidate" # None
        /\ \A j \in Retained \ {k} : retention'[j] = retention[j]
        /\ \A j \in Retained :
             retention'[j].by # None <=> retention'[j].status \in {"running", "lapsed"}
    BY <2>1, SweepFacts, Closed
  <2> QED BY <1>0, <2>1, <2>2, SweepFacts, SweepsKeep
<1>3. CASE RetryDue(k)
  <2>1. /\ Close(k, "failed") /\ held' = held /\ faults' = faults
        /\ detached' = detached
    BY <1>3 DEF RetryDue
  <2>2. /\ retention' \in [Retained -> Rows]
        /\ retention'[k].status = "failed" /\ "failed" # None
        /\ \A j \in Retained \ {k} : retention'[j] = retention[j]
        /\ \A j \in Retained :
             retention'[j].by # None <=> retention'[j].status \in {"running", "lapsed"}
    BY <2>1, SweepFacts, Closed
  <2>3. retention[k].status # None
    BY <1>3 DEF RetryDue, None
  <2> QED BY <1>0, <2>1, <2>2, <2>3, SweepFacts, SweepsKeep
<1>4. CASE ClaimExpires(k)
  <2>1. PICK r : r = [retention[k] EXCEPT !.status = "lapsed"]
    OBVIOUS
  <2>2. /\ retention' = [retention EXCEPT ![k] = r] /\ held' = held
        /\ detached' = detached /\ retention[k].status = "running"
    BY <1>4, <2>1, SweepFacts DEF ClaimExpires
  <2>3. /\ r \in Rows /\ r.status = "lapsed" /\ r.by = retention[k].by /\ r.by # None
        /\ "lapsed" # None
    <3>1. retention[k] \in Rows
      BY SweepFacts
    <3>2. retention[k].by # None
      BY <2>2, SweepFacts
    <3> QED BY <2>1, <3>1, <3>2 DEF Rows, RetentionStates, Open, None
  <2>4. faults' \in 0..MaxFaults
    BY <1>4, SweepFacts DEF ClaimExpires
  <2>5. /\ retention' \in [Retained -> Rows] /\ retention'[k] = r
        /\ \A j \in Retained \ {k} : retention'[j] = retention[j]
    BY <2>2, <2>3, SweepFacts
  <2>6. retention[k].status # None
    BY <2>2 DEF None
  <2> QED BY <1>0, <2>2, <2>3, <2>4, <2>5, <2>6, SweepFacts, SweepsKeep
<1> QED BY <1>1, <1>2, <1>3, <1>4

(* A run claims an object.                                                 *)
LEMMA ClaimsKeepSweeps ==
  ASSUME SweepInv, NEW s \in Sweeps, NEW k \in Retained, claim_next(s, k),
         UNCHANGED quotaVars
  PROVE  SweepInv'
<1>0. UNCHANGED <<stored, late, reservation, writer, slipped, held, detached, faults>>
  BY DEF quotaVars, claim_next
<1>1. PICK r : r = [status |-> "running", by |-> s]
  OBVIOUS
<1>2. PICK c : c = [pc |-> "claimed", key |-> k]
  OBVIOUS
<1>3. r \in Rows /\ r.status = "running" /\ r.by # None /\ r.status # None
  BY <1>1, SweepsAssumption DEF Rows, RetentionStates, Open, None
<1>4. c \in Runs /\ c.pc = "claimed" /\ c.key = k
  BY <1>2 DEF Runs
<1>5. /\ retention' = [retention EXCEPT ![k] = r] /\ sweep' = [sweep EXCEPT ![s] = c]
      /\ retention[k].status # None
  BY <1>1, <1>2 DEF claim_next, Claimable, None
<1>6. /\ retention' \in [Retained -> Rows] /\ retention'[k] = r
      /\ \A j \in Retained \ {k} : retention'[j] = retention[j]
      /\ sweep' \in [Sweeps -> {Free} \cup Runs] /\ sweep'[s] = c
      /\ \A q \in Sweeps \ {s} : sweep'[q] = sweep[q]
  BY <1>3, <1>4, <1>5, SweepFacts
<1> QED BY <1>0, <1>3, <1>4, <1>5, <1>6, SweepFacts, SweepsKeep

(* A run that ends, its claim left as it is or closed.                     *)
LEMMA EndKeepsSweeps ==
  ASSUME SweepInv, NEW s \in Sweeps, sweep[s] # Free, SweepEnds(s),
         UNCHANGED <<late, reservation, writer, slipped, held, detached>>,
         stored' \subseteq stored, faults' = faults \/ Fault,
         \/ retention' = retention
         \/ \E st \in {"invalidated", "completed", "waiting"} :
              /\ Close(sweep[s].key, st)
              /\ st = "completed" => sweep[s].key \notin stored'
  PROVE  SweepInv'
<1> DEFINE k == sweep[s].key
<1>1. /\ sweep' \in [Sweeps -> {Free} \cup Runs]
      /\ sweep'[s] = Free /\ sweep'[s].pc = "free"
      /\ \A r \in Sweeps \ {s} : sweep'[r] = sweep[r]
  BY SweepFacts, RunGoes
<1>2. k \in Retained /\ retention[k].status # None
  BY SweepFacts
<1>3. faults' \in 0..MaxFaults
  BY SweepFacts
<1> HIDE DEF k
<1>4. CASE retention' = retention
  BY <1>1, <1>3, <1>4, SweepFacts, SweepsKeep
<1>5. ASSUME NEW st \in {"invalidated", "completed", "waiting"}, Close(k, st),
             st = "completed" => k \notin stored'
      PROVE  SweepInv'
  <2>1. /\ retention' \in [Retained -> Rows]
        /\ retention'[k].status = st /\ st # None
        /\ \A j \in Retained \ {k} : retention'[j] = retention[j]
        /\ \A j \in Retained :
             retention'[j].by # None <=> retention'[j].status \in {"running", "lapsed"}
    BY <1>2, <1>5, SweepFacts, Closed
  <2>2. \A q \in Sweeps : sweep'[q] # Free => retention'[sweep'[q].key].status # None
    BY <1>1, <2>1, SweepFacts
  <2>3. \A q \in Sweeps : sweep'[q].pc = "completing" => sweep'[q].key \notin stored'
    BY <1>1, SweepFacts
  <2>4. \A j \in Retained :
          /\ retention[j].status # None => retention'[j].status # None
          /\ retention[j].status = None /\ retention'[j].status # None => Quiet(j)
          /\ retention'[j].status = "completed" => j \notin stored'
    BY <1>2, <1>5, <2>1, SweepFacts
  <2>5. held' \subseteq Retained /\ detached' \subseteq Retained
    BY SweepFacts
  <2> QED BY <1>1, <1>3, <2>1, <2>2, <2>3, <2>4, <2>5, SweepsKeep
<1> QED BY <1>4, <1>5 DEF k

(* A run that goes on, having deleted its object or not.                   *)
LEMMA GoOnKeepsSweeps ==
  ASSUME SweepInv, NEW s \in Sweeps, sweep[s] # Free,
         NEW pc \in {"deleting", "completing", "failing"}, SweepGoes(s, pc),
         UNCHANGED <<late, reservation, writer, slipped, held, detached, retention>>,
         stored' \subseteq stored, faults' = faults \/ Fault,
         pc = "completing" => sweep[s].key \notin stored'
  PROVE  SweepInv'
<1>1. /\ sweep' \in [Sweeps -> {Free} \cup Runs]
      /\ sweep'[s].pc = pc /\ sweep'[s].key = sweep[s].key
      /\ \A r \in Sweeps \ {s} : sweep'[r] = sweep[r]
  BY SweepFacts, RunGoes
<1>2. faults' \in 0..MaxFaults
  BY SweepFacts
<1>3. \A q \in Sweeps :
        /\ sweep'[q] # Free => retention'[sweep'[q].key].status # None
        /\ sweep'[q].pc = "completing" => sweep'[q].key \notin stored'
  BY <1>1, SweepFacts
<1> QED BY <1>1, <1>2, <1>3, SweepFacts, SweepsKeep

(* Every step of a run keeps SweepInv.                                     *)
LEMMA RunsKeepSweeps ==
  ASSUME SweepInv, NEW s \in Sweeps,
         SweepStep(s) \/ (SweepDies(s) /\ UNCHANGED quotaVars)
  PROVE  SweepInv'
<1> DEFINE k == sweep[s].key
<1>0. sweep[s] # Free
  BY SweepFacts DEF SweepStep, SweepDies, revalidate_claim, Delete, complete_claim, fail_claim
<1>1. CASE Delete(s)
  <2>1. UNCHANGED <<late, reservation, writer, slipped, held, detached, retention>>
    BY <1>1 DEF Delete
  <2>2. CASE stored' = stored \ {k} /\ SweepGoes(s, "completing") /\ UNCHANGED faults
    <3>1. stored' \subseteq stored /\ k \notin stored'
      BY <2>2
    <3> QED BY <1>0, <2>1, <2>2, <3>1, GoOnKeepsSweeps
  <2>3. CASE /\ Fault /\ stored' \in {stored, stored \ {k}} /\ SweepGoes(s, "failing")
    <3>1. stored' \subseteq stored
      BY <2>3
    <3> QED BY <1>0, <2>1, <2>3, <3>1, GoOnKeepsSweeps
  <2>4. CASE /\ Fault /\ stored' \in {stored, stored \ {k}} /\ SweepEnds(s)
    <3>1. stored' \subseteq stored
      BY <2>4
    <3> QED BY <1>0, <2>1, <2>4, <3>1, EndKeepsSweeps
  <2> QED BY <1>1, <2>2, <2>3, <2>4 DEF Delete
<1>2. CASE revalidate_claim(s) /\ UNCHANGED quotaVars
  <2>1. UNCHANGED <<stored, late, reservation, writer, slipped, held, detached, faults>>
    BY <1>2 DEF revalidate_claim, quotaVars
  <2>2. CASE SweepEnds(s) /\ (retention' = retention \/ Close(k, "invalidated"))
    BY <1>0, <2>1, <2>2, EndKeepsSweeps
  <2>3. CASE SweepGoes(s, "deleting") /\ retention' = retention
    BY <1>0, <2>1, <2>3, GoOnKeepsSweeps
  <2> QED BY <1>2, <2>2, <2>3 DEF revalidate_claim
<1>3. CASE complete_claim(s) /\ UNCHANGED quotaVars
  <2>1. /\ UNCHANGED <<stored, late, reservation, writer, slipped, held, detached>>
        /\ SweepEnds(s) /\ (faults' = faults \/ Fault)
        /\ retention' = retention \/ Close(k, "completed")
    BY <1>3 DEF complete_claim, quotaVars
  <2>2. k \notin stored
    BY <1>3, SweepFacts DEF complete_claim
  <2> QED BY <1>0, <2>1, <2>2, EndKeepsSweeps
<1>4. CASE fail_claim(s) /\ UNCHANGED quotaVars
  <2>1. /\ UNCHANGED <<stored, late, reservation, writer, slipped, held, detached>>
        /\ SweepEnds(s) /\ (faults' = faults \/ Fault)
        /\ retention' = retention \/ Close(k, "waiting")
    BY <1>4 DEF fail_claim, quotaVars
  <2> QED BY <1>0, <2>1, EndKeepsSweeps
<1>5. CASE SweepDies(s) /\ UNCHANGED quotaVars
  <2>1. /\ UNCHANGED <<stored, late, reservation, writer, slipped, held, detached, retention>>
        /\ SweepEnds(s) /\ Fault
    BY <1>5 DEF SweepDies, quotaVars
  <2> QED BY <1>0, <2>1, EndKeepsSweeps
<1> QED BY <1>1, <1>2, <1>3, <1>4, <1>5 DEF SweepStep

(* SweepInv is an invariant.                                               *)
LEMMA SweepInvHolds == Spec => []SweepInv
<1>1. Init => SweepInv
  <2> SUFFICES ASSUME Init PROVE SweepInv
    OBVIOUS
  <2>1. /\ NoClaim(None).status = None /\ NoClaim(None).by = None
        /\ NoClaim(None) \in Rows /\ Free.pc = "free"
        /\ None \notin {"running", "lapsed", "completed"}
    BY DEF NoClaim, Rows, RetentionStates, None, Free
  <2>2. QuotaTypeOK
    BY DEF Init, QuotaInit, QuotaTypeOK, ReservationStates
  <2>3. TypeOK
    BY <2>1, <2>2, RetentionAssumption DEF Init, TypeOK, Rows
  <2>4. Reserved = {}
    BY DEF Init, QuotaInit, Reserved
  <2>5. Bytes(Reserved \ slipped) < HardLimit
    <3>1. Bytes({}) = 0
      BY FS_EmptySet, BytesFirst
    <3>2. Reserved \ slipped = {}
      BY <2>4
    <3>3. Bytes(Reserved \ slipped) = 0
      BY <3>1, <3>2
    <3> QED BY <3>3, QuotaAssumption
  <2>7. \A w \in Writers : writer[w] \notin Placed
    BY DEF Init, QuotaInit, Free, Placed
  <2>6. QuotaInv
    BY <2>2, <2>5, <2>7 DEF Init, QuotaInit, QuotaInv
  <2> QED BY <2>1, <2>3, <2>6 DEF Init, SweepInv, CompletedIsGone
<1>2. ASSUME SweepInv, [Next]_vars PROVE SweepInv'
  <2>1. CASE WriteStep /\ UNCHANGED retentionVars
    BY <1>2, <2>1, WritesKeepSweeps
  <2>2. ASSUME NEW k \in Retained,
               \/ (Register(k) \/ Hold(k) \/ Lift(k)) /\ UNCHANGED quotaVars
               \/ TimeStep(k)
        PROVE  SweepInv'
    BY <1>2, <2>2, OperatorsKeepSweeps DEF TimeStep
  <2>3. ASSUME NEW s \in Sweeps, Starts(s) PROVE SweepInv'
    BY <1>2, <2>3, ClaimsKeepSweeps DEF Starts
  <2>4. ASSUME NEW s \in Sweeps,
               SweepStep(s) \/ (SweepDies(s) /\ UNCHANGED quotaVars)
        PROVE  SweepInv'
    BY <1>2, <2>4, RunsKeepSweeps
  <2>5. CASE UNCHANGED vars
    <3>1. UNCHANGED <<stored, late, reservation, writer, slipped, retention, held, detached,
                      sweep, faults>>
      BY <2>5 DEF vars, quotaVars, retentionVars
    <3>2. \A k \in Retained : retention[k].status # None => Quiet(k)
      BY <1>2 DEF SweepInv
    <3> QED BY <1>2, <3>1, SweepFacts, SweepsKeep
  <2> QED BY <1>2, <2>1, <2>2, <2>3, <2>4, <2>5 DEF Next
<1> QED BY <1>1, <1>2, PTL DEF Spec

(* Quota and retention state stay within their types.                      *)
THEOREM SweepTypesHold == Spec => []TypeOK
<1>1. SweepInv => TypeOK
  BY DEF SweepInv
<1> QED BY <1>1, SweepInvHolds, PTL

(* For any objects, sizes and limit, any number of concurrent writes and   *)
(* runs, expired leases, lost answers and late writes: without what the    *)
(* last reservation overlooked between its statements, what is stored, on  *)
(* its way or may still land stays below the hard limit.                   *)
THEOREM QuotaIsKept == Spec => []OnlyOverlookedExceed
<1>1. SweepInv => OnlyOverlookedExceed
  <2> SUFFICES ASSUME SweepInv PROVE OnlyOverlookedExceed
    OBVIOUS
  <2>1. QuotaInv /\ QuotaTypeOK
    BY DEF SweepInv, QuotaInv
  <2>2. \A w \in Writers : writer[w].pc = "writing" => writer[w].key \in Reserved
    BY <2>1, WriterTypes DEF QuotaInv
  <2> DEFINE U == InPlay \ slipped
             R == Reserved \ slipped
  <2>3. U \in SUBSET R /\ R \in SUBSET Keys
    BY <2>1, <2>2 DEF QuotaInv, InPlay, Writing, Reserved
  <2>4. Bytes(R) < HardLimit
    BY <2>1 DEF QuotaInv
  <2> HIDE DEF U, R
  <2>5. U \in SUBSET Keys
    BY <2>3
  <2>6. Bytes(U) <= Bytes(R)
    BY <2>3, BytesGrow
  <2>7. Bytes(U) \in Nat /\ Bytes(R) \in Nat
    BY <2>3, <2>5, BytesAreNumbers
  <2>8. Bytes(U) < HardLimit
    BY <2>4, <2>6, <2>7, QuotaAssumption
  <2> QED BY <2>8 DEF OnlyOverlookedExceed, U
<1> QED BY <1>1, SweepInvHolds, PTL

(* For any number of runs that overrun each other's lease, die and lose    *)
(* answers: what is recorded as deleted is gone and does not come back.    *)
THEOREM DeletedIsGone == Spec => []CompletedIsGone
<1>1. SweepInv => CompletedIsGone
  BY DEF SweepInv
<1> QED BY <1>1, SweepInvHolds, PTL
=============================================================================
