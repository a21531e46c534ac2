---------------------------- MODULE RetentionSweep ----------------------------
(***************************************************************************)
(* Deleting private objects at the end of their retention.  A sweep claims *)
(* one due object with a lease, revalidates the claim in a second          *)
(* transaction, deletes the object with no transaction open and closes the *)
(* claim in a third; a claim whose lease ran out may be taken by another   *)
(* sweep.  Candidates, holds and policies are written by operators.        *)
(***************************************************************************)
EXTENDS StorageQuota

CONSTANTS
  Retained,   \* keys that become candidates
  Sweeps,     \* runs of the retention task under way together
  MaxFaults   \* bound: errors, deaths and overrun leases of sweeps

ASSUME RetentionAssumption ==
  Retained \subseteq Keys /\ IsFiniteSet(Sweeps) /\ MaxFaults \in Nat

VARIABLES
  retention,  \* retention_objects: status and claim of each retained key
  held,       \* keys on hold, not yet due, or of a category switched off
  detached,   \* candidates no record refers to
  sweep,      \* where each run is
  faults      \* faults so far

retentionVars == <<retention, held, detached, sweep, faults>>
vars == <<quotaVars, retentionVars>>

-----------------------------------------------------------------------------
None == "none"

(* A claim names the run that made it.                                     *)
ASSUME SweepsAssumption == None \notin Sweeps

(* "lapsed" is running with an expired lease, "waiting" is failed with the *)
(* next attempt still to come.                                             *)
Open == {"candidate", "running", "lapsed", "waiting", "failed"}
RetentionStates == {None, "completed", "invalidated"} \cup Open
NoClaim(status) == [status |-> status, by |-> None]

Init ==
  /\ QuotaInit
  /\ retention = [k \in Retained |-> NoClaim(None)]
  /\ held = {} /\ detached = {}
  /\ sweep = [s \in Sweeps |-> Free]
  /\ faults = 0

SweepEnds(s) == sweep' = [sweep EXCEPT ![s] = Free]
SweepGoes(s, pc) == sweep' = [sweep EXCEPT ![s].pc = pc]

Close(k, status) == retention' = [retention EXCEPT ![k] = NoClaim(status)]
Fault == faults < MaxFaults /\ faults' = faults + 1

(* Every transaction of a run asks for its own token and a live lease.     *)
Holds(s, k) == retention[k] = [status |-> "running", by |-> s]

-----------------------------------------------------------------------------
(* Operators                                                               *)

(* Nothing in the repository lists candidates.  The operators' rule is     *)
(* that an object is listed once processing it has ended, so no write of   *)
(* it is under way or may still land; revalidate_retention_object does not  *)
(* enforce it for papers that failed.                                      *)
Register(k) ==
  /\ retention[k].status = None /\ k \in stored
  /\ k \notin late /\ \A w \in Writers : writer[w] # Free => writer[w].key # k
  /\ Close(k, "candidate")
  /\ detached' \in {detached, detached \cup {k}}
  /\ UNCHANGED <<held, sweep, faults>>

Hold(k) ==
  /\ retention[k].status \in Open /\ k \notin held
  /\ held' = held \cup {k}
  /\ UNCHANGED <<retention, detached, sweep, faults>>

Lift(k) ==
  /\ k \in held
  /\ held' = held \ {k}
  /\ UNCHANGED <<retention, detached, sweep, faults>>

-----------------------------------------------------------------------------
(* Time                                                                    *)

(* A lease overrun by its own run is one of the faults.                    *)
ClaimExpires(k) ==
  /\ retention[k].status = "running"
  /\ retention' = [retention EXCEPT ![k].status = "lapsed"]
  /\ IF sweep[retention[k].by] # Free /\ sweep[retention[k].by].key = k
     THEN Fault ELSE UNCHANGED faults
  /\ UNCHANGED <<held, detached, sweep>>

RetryDue(k) ==
  /\ retention[k].status = "waiting"
  /\ Close(k, "failed")
  /\ UNCHANGED <<held, detached, sweep, faults>>

-----------------------------------------------------------------------------
(* A run                                                                   *)

(* Mutant: a claim is for ever, also when the run that made it is gone.    *)
ClaimableNew(k) == retention[k].status \in {"candidate", "failed"} /\ k \notin held

Claimable(k) == retention[k].status \in {"candidate", "failed", "lapsed"} /\ k \notin held

claim_next(s, k) ==
  /\ sweep[s] = Free
  /\ Claimable(k)
  /\ retention' = [retention EXCEPT ![k] = [status |-> "running", by |-> s]]
  /\ sweep' = [sweep EXCEPT ![s] = [pc |-> "claimed", key |-> k]]
  /\ UNCHANGED <<held, detached, faults>>

StillDue(k) == k \notin held /\ k \notin detached

revalidate_claim(s) ==
  /\ sweep[s].pc = "claimed"
  /\ LET k == sweep[s].key
     IN \/ ~Holds(s, k) /\ SweepEnds(s) /\ UNCHANGED retention
        \/ Holds(s, k) /\ ~StillDue(k) /\ Close(k, "invalidated") /\ SweepEnds(s)
        \/ Holds(s, k) /\ StillDue(k) /\ SweepGoes(s, "deleting") /\ UNCHANGED retention
  /\ UNCHANGED <<held, detached, faults>>

(* Mutant: the claim is closed before the answer of the store is known.    *)
DeleteUnanswered(s) ==
  /\ sweep[s].pc = "deleting"
  /\ stored' \in {stored, stored \ {sweep[s].key}}
  /\ SweepGoes(s, "completing")
  /\ UNCHANGED <<retention, held, detached, faults, late, reservation, writer, slipped>>

(* A timeout is recorded, another error is not; behind either the object   *)
(* may be gone.                                                            *)
Delete(s) ==
  /\ sweep[s].pc = "deleting"
  /\ LET k == sweep[s].key
     IN \/ stored' = stored \ {k} /\ SweepGoes(s, "completing") /\ UNCHANGED faults
        \/ /\ Fault
           /\ stored' \in {stored, stored \ {k}}
           /\ SweepGoes(s, "failing") \/ SweepEnds(s)
  /\ UNCHANGED <<retention, held, detached, late, reservation, writer, slipped>>

complete_claim(s) ==
  /\ sweep[s].pc = "completing"
  /\ LET k == sweep[s].key
     IN \/ /\ IF Holds(s, k) THEN Close(k, "completed") ELSE UNCHANGED retention
           /\ UNCHANGED faults
        \/ Fault /\ UNCHANGED retention
  /\ SweepEnds(s)
  /\ UNCHANGED <<held, detached>>

fail_claim(s) ==
  /\ sweep[s].pc = "failing"
  /\ LET k == sweep[s].key
     IN \/ /\ IF Holds(s, k) THEN Close(k, "waiting") ELSE UNCHANGED retention
           /\ UNCHANGED faults
        \/ Fault /\ UNCHANGED retention
  /\ SweepEnds(s)
  /\ UNCHANGED <<held, detached>>

SweepDies(s) ==
  /\ sweep[s] # Free
  /\ Fault
  /\ SweepEnds(s)
  /\ UNCHANGED <<retention, held, detached>>

-----------------------------------------------------------------------------
Starts(s) == \E k \in Retained : claim_next(s, k) /\ UNCHANGED quotaVars

SweepStep(s) ==
  \/ (revalidate_claim(s) \/ complete_claim(s) \/ fail_claim(s)) /\ UNCHANGED quotaVars
  \/ Delete(s)

TimeStep(k) == (ClaimExpires(k) \/ RetryDue(k)) /\ UNCHANGED quotaVars

(* By the same rule keys that are candidates are written no more.          *)
Active == {k \in Keys : k \in Retained => retention[k].status = None}

WriteStep ==
  \/ \E w \in Writers :
       \/ \E k \in Active : reserve_storage_growth(w, k)
       \/ DecideGrowth(w) \/ Write(w) \/ finalize_storage_growth(w) \/ WriterStops(w)
  \/ \E k \in Keys : LeaseExpires(k) \/ Land(k)
  \/ \E k \in Active : CompensatingDelete(k)

Next ==
  \/ WriteStep /\ UNCHANGED retentionVars
  \/ \E k \in Retained : Register(k) /\ UNCHANGED quotaVars
  \/ \E k \in Retained : (Hold(k) \/ Lift(k)) /\ UNCHANGED quotaVars
  \/ \E k \in Retained : TimeStep(k)
  \/ \E s \in Sweeps : Starts(s) \/ SweepStep(s)
  \/ \E s \in Sweeps : SweepDies(s) /\ UNCHANGED quotaVars

(* The steps of a run that has claimed an object end, by their time limits *)
(* at the latest; leases and pauses run out.                               *)
Spec ==
  /\ Init /\ [][Next]_vars
  /\ \A s \in Sweeps : WF_vars(SweepStep(s))
  /\ \A k \in Retained : WF_vars(TimeStep(k))

-----------------------------------------------------------------------------
(* Properties                                                              *)

(* Types of the quota and retention state; a running object names a sweep, *)
(* no other does.                                                          *)
TypeOK ==
  /\ QuotaTypeOK
  /\ retention \in [Retained -> [status : RetentionStates, by : Sweeps \cup {None}]]
  /\ \A k \in Retained : retention[k].by # None <=> retention[k].status \in {"running", "lapsed"}
  /\ held \subseteq Retained /\ detached \subseteq Retained
  /\ sweep \in [Sweeps -> {Free} \cup
                  [pc : {"claimed", "deleting", "completing", "failing"}, key : Retained]]
  /\ faults \in 0..MaxFaults

(* What is recorded as deleted is gone, whichever of several runs that     *)
(* overran each other's lease deleted it and whichever closed the claim.   *)
CompletedIsGone == \A k \in Retained : retention[k].status = "completed" => k \notin stored

(* Deleting is off unless a caller asks for it, and nothing calls run_once *)
(* by itself: the assumption on whoever does.                              *)
RunsKeepStarting == \A s \in Sweeps : WF_vars(Starts(s))

(* As long as runs keep being started, a candidate does not stay open:     *)
(* lost answers, runs that die or overrun their lease and claims nobody    *)
(* closes delay it, but unless it is put on hold it is completed or found  *)
(* invalid in the end.                                                     *)
RetentionEnds ==
  RunsKeepStarting =>
    \A k \in Retained :
      retention[k].status \in Open ~>
        (retention[k].status \in {"completed", "invalidated"} \/ k \in held)
=============================================================================
