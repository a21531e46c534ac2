----------------------------- MODULE StorageQuota -----------------------------
(***************************************************************************)
(* Writing private objects under the storage quota.  A writer reserves the *)
(* bytes of an object in a short transaction, writes it with no            *)
(* transaction open, and then commits the reservation or, when it cannot   *)
(* know what the store did, marks it uncertain.  A write that was given up *)
(* may still land.  The content of a key never changes, so neither does    *)
(* its size, and a key has one reservation.                                *)
(***************************************************************************)
EXTENDS Integers, FiniteSets, FiniteSetsExt

CONSTANTS
  Keys,        \* objects of the private bucket
  Size,        \* their bytes
  HardLimit,   \* ceil(capacity * hard_limit_ratio)
  Writers      \* writes under way together

ASSUME QuotaAssumption ==
  /\ IsFiniteSet(Keys) /\ IsFiniteSet(Writers)
  /\ Size \in [Keys -> Nat] /\ HardLimit \in Nat \ {0}

VARIABLES
  stored,       \* objects of the bucket
  late,         \* writes the store may still carry out for nobody
  reservation,  \* quota_reservations: the row of each key
  writer,       \* where each write is
  slipped       \* history: what the last admitted reservation overlooked

quotaVars == <<stored, late, reservation, writer, slipped>>

-----------------------------------------------------------------------------
Free == [pc |-> "free"]

(* A reservation whose lease ran out is "expired" until the next           *)
(* reservation makes it uncertain.  Nothing releases one.                  *)
ReservationStates == {"none", "reserved", "expired", "committed", "uncertain"}

QuotaInit ==
  /\ stored = {} /\ late = {}
  /\ reservation = [k \in Keys |-> "none"]
  /\ writer = [w \in Writers |-> Free]
  /\ slipped = {}

Bytes(S) == MapThenSumSet(LAMBDA k : Size[k], S)
Writing == {writer[w].key : w \in {v \in Writers : writer[v].pc = "writing"}}

-----------------------------------------------------------------------------
(* Reserving: one transaction under an advisory lock, but at READ          *)
(* COMMITTED, where every statement has a snapshot of its own.  The bucket *)
(* and finalize_storage_growth do not ask for the lock.                    *)

Reserving == {w \in Writers : writer[w].pc = "reserving"}

(* A live or committed reservation of the same content is answered as it   *)
(* is.  Otherwise the objects of the bucket are read; a bucket whose usage *)
(* cannot be read refuses the write.                                       *)
reserve_storage_growth(w, k) ==
  /\ writer[w] = Free /\ Reserving = {}
  /\ \/ /\ reservation[k] \in {"reserved", "committed"}
        /\ writer' = [writer EXCEPT ![w] = [pc |-> "writing", key |-> k]]
        /\ UNCHANGED reservation
     \/ /\ reservation[k] \notin {"reserved", "committed"}
        /\ writer' = [writer EXCEPT ![w] =
                        [pc |-> "reserving", key |-> k, used |-> stored]]
        /\ UNCHANGED reservation
     \/ /\ reservation[k] = "expired"
        /\ reservation' = [reservation EXCEPT ![k] = "uncertain"]
        /\ UNCHANGED writer
  /\ UNCHANGED <<stored, late, slipped>>

Lapsed == [k \in Keys |-> IF reservation[k] = "expired" THEN "uncertain" ELSE reservation[k]]

(* Mutant: an uncertain reservation is taken for a write that failed.      *)
ReservedWithoutUncertain(k) ==
  {r \in Keys \ {k} : \/ Lapsed[r] = "reserved"
                      \/ Lapsed[r] = "committed" /\ r \notin stored}

(* Bytes that are not in the bucket but may come to be: live reservations, *)
(* and settled ones whose object is not there now.                         *)
ReservedFor(k) ==
  {r \in Keys \ {k} : \/ Lapsed[r] = "reserved"
                      \/ Lapsed[r] \in {"committed", "uncertain"} /\ r \notin stored}

Projected(used, k) == Bytes(used \ {k}) + Bytes(ReservedFor(k)) + Size[k]

(* Objects that came after the usage was read and were settled before the  *)
(* reservations were: neither sum has them.                                *)
Overlooked(used, k) == stored \ (used \cup ReservedFor(k) \cup {k})

(* The later statements of the same transaction: expired leases become     *)
(* uncertain, the reservations are summed up, and the bytes must stay      *)
(* below the limit with everything else.                                   *)
DecideGrowth(w) ==
  /\ writer[w].pc = "reserving"
  /\ LET k == writer[w].key
         used == writer[w].used
     IN \/ /\ Projected(used, k) < HardLimit
           /\ writer' = [writer EXCEPT ![w] = [pc |-> "writing", key |-> k]]
           /\ reservation' = [Lapsed EXCEPT ![k] = "reserved"]
           /\ slipped' = Overlooked(used, k)
        \/ /\ Projected(used, k) >= HardLimit
           /\ writer' = [writer EXCEPT ![w] = Free]
           /\ reservation' = Lapsed
           /\ UNCHANGED slipped
  /\ UNCHANGED <<stored, late>>

(* Leases are compared with the time their reader's transaction began: one *)
(* that runs out during a reservation runs out after it.                   *)
LeaseExpires(k) ==
  /\ reservation[k] = "reserved" /\ Reserving = {}
  /\ reservation' = [reservation EXCEPT ![k] = "expired"]
  /\ UNCHANGED <<stored, late, writer, slipped>>

-----------------------------------------------------------------------------
(* Writing                                                                 *)

(* The store's answer: written, or an error behind which the object is     *)
(* there, still to come or not there.                                      *)
Write(w) ==
  /\ writer[w].pc = "writing"
  /\ LET k == writer[w].key
     IN \/ /\ stored' = stored \cup {k} /\ UNCHANGED late
           /\ writer' = [writer EXCEPT ![w].pc = "committing"]
        \/ /\ \/ stored' = stored \cup {k} /\ UNCHANGED late
              \/ late' = late \cup {k} /\ UNCHANGED stored
              \/ UNCHANGED <<stored, late>>
           /\ writer' = [writer EXCEPT ![w].pc = "doubting"]
  /\ UNCHANGED <<reservation, slipped>>

Land(k) ==
  /\ k \in late
  /\ late' = late \ {k} /\ stored' = stored \cup {k}
  /\ UNCHANGED <<reservation, writer, slipped>>

(* A settled reservation is never unsettled: a second writer of the same   *)
(* content that fails finds it committed, and only reports a conflict.  A  *)
(* row whose expired lease a reservation has just ended is locked by it.   *)
finalize_storage_growth(w) ==
  /\ writer[w].pc \in {"committing", "doubting"}
  /\ reservation[writer[w].key] = "expired"
       => \A v \in Reserving : writer[v].key # writer[w].key
  /\ LET k == writer[w].key
     IN reservation' = [reservation EXCEPT ![k] =
          IF @ = "committed" \/ writer[w].pc = "committing" THEN "committed" ELSE "uncertain"]
  /\ writer' = [writer EXCEPT ![w] = Free]
  /\ UNCHANGED <<stored, late, slipped>>

(* The process dies, or the database does not answer; a reservation that   *)
(* was not decided is rolled back.                                         *)
WriterStops(w) ==
  /\ writer[w] # Free
  /\ writer' = [writer EXCEPT ![w] = Free]
  /\ \/ UNCHANGED late
     \/ writer[w].pc = "writing" /\ late' = late \cup {writer[w].key}
  /\ UNCHANGED <<stored, reservation, slipped>>

(* Uploads and exports delete an object they wrote and did not refer to.   *)
CompensatingDelete(k) ==
  /\ k \in stored
  /\ stored' = stored \ {k}
  /\ UNCHANGED <<late, reservation, writer, slipped>>

-----------------------------------------------------------------------------
Deciding == [pc : {"reserving"}, key : Keys, used : SUBSET Keys]
Placed == [pc : {"writing", "committing", "doubting"}, key : Keys]

QuotaTypeOK ==
  /\ stored \subseteq Keys /\ late \subseteq Keys /\ slipped \subseteq Keys
  /\ reservation \in [Keys -> ReservationStates]
  /\ writer \in [Writers -> {Free} \cup Deciding \cup Placed]

(* What is in the bucket, on its way there, or may still land there after  *)
(* its writer gave up.                                                     *)
InPlay == stored \cup late \cup Writing

(* Concurrent writes do not pass the hard limit together.  They can: an    *)
(* object that lands and is settled between the two statements of another  *)
(* reservation is in neither of its sums.                                  *)
BytesWithinLimit == Bytes(InPlay) < HardLimit

(* Nothing else takes the bucket past its limit: without the objects that  *)
(* the last reservation overlooked in that way, all that is or may come to *)
(* be in the bucket stays below it, whatever leases expire, writes land    *)
(* late, writers stop and objects are deleted; the next reservation that   *)
(* is admitted has counted them.                                           *)
OnlyOverlookedExceed == Bytes(InPlay \ slipped) < HardLimit
=============================================================================
