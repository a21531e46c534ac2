-------------------------- MODULE ExportTasksProofs --------------------------
(***************************************************************************)
(* Proofs about ExportTasks for any number of exports and processes and    *)
(* any of the faults.  The argument: a workbook a process has stored stays *)
(* in storage until the export has failed, because a process removes it    *)
(* only after its fail_export was accepted, and a failed row never         *)
(* changes; and a row changes its status only under a lease that has not   *)
(* expired, or by being given up.                                          *)
(***************************************************************************)
EXTENDS ExportTasks, TLAPS

-----------------------------------------------------------------------------
(* The inductive invariant                                                 *)

(* An export nobody has taken was never claimed; only a running one has a  *)
(* lease that can expire.                                                  *)
RowsConsistent ==
  \A e \in Exports :
    /\ row[e].status \in {"absent", "queued"} => row[e].claims = 0
    /\ row[e].expired => row[e].status = "running"

(* What a process has stored is there, unless the export failed meanwhile. *)
StoredIsThere ==
  \A p \in Processes :
    process[p].pc = "stored" /\ row[process[p].export].status # "failed"
      => process[p].export \in file

(* Who removes a workbook has failed its export.                           *)
RemoversFailed ==
  \A p \in Processes :
    process[p].pc = "removing" => row[process[p].export].status = "failed"

ExportInv ==
  /\ ExportTypeOK /\ RowsConsistent /\ StoredIsThere /\ RemoversFailed
  /\ CompletedHasWorkbook

-----------------------------------------------------------------------------
(* What a step does to one export and to one process                       *)

RowKept(e) == row'[e] = row[e]

RowQueued(e) ==
  row[e].status = "absent" /\ row'[e] = [row[e] EXCEPT !.status = "queued"]

RowClaimed(e) ==
  /\ Claimable(e)
  /\ row'[e] = [status |-> "running", token |-> row[e].claims + 1,
                expired |-> FALSE, claims |-> row[e].claims + 1]

RowExpired(e) ==
  /\ row[e].status = "running" /\ ~row[e].expired
  /\ row'[e] = [row[e] EXCEPT !.expired = TRUE]

RowCompleted(e) ==
  /\ row[e].status = "running" /\ ~row[e].expired /\ e \in file
  /\ row'[e] = SettledRow(row[e], "completed")

RowFailed(e) ==
  /\ row[e].status = "running"
  /\ row[e].expired => row[e].claims >= MaxClaims
  /\ row'[e] = SettledRow(row[e], "failed")

RowStep(e) ==
  RowKept(e) \/ RowQueued(e) \/ RowClaimed(e) \/ RowExpired(e)
    \/ RowCompleted(e) \/ RowFailed(e)

(* A process keeps its task, or gets to one whose claims hold.             *)
TaskStep(p) ==
  \/ process'[p] = process[p]
  \/ process'[p].pc \notin {"stored", "removing"}
  \/ process'[p].pc = "stored" /\ process'[p].export \in file'
  \/ /\ process'[p].pc = "removing"
     /\ row'[process'[p].export].status = "failed"

(* What the types say of a busy process.                                   *)
LEMMA TaskTypes ==
  ASSUME ExportTypeOK, NEW p \in Processes,
         process[p] # Waiting \/ process[p].pc # "idle"
  PROVE  /\ process[p] \in Task
         /\ process[p].export \in Exports
         /\ process[p].soft \in 0..MaxSoftTimeouts
<1>1. process[p] \in {Waiting} \cup Task
  BY DEF ExportTypeOK
<1>2. Waiting.pc = "idle"
  BY DEF Waiting
<1>3. process[p] \in Task
  BY <1>1, <1>2
<1>4. \A c \in Task : c.export \in Exports /\ c.soft \in 0..MaxSoftTimeouts
  BY DEF Task
<1> QED BY <1>3, <1>4

(* Settling writes a row.                                                  *)
LEMMA SettledRowType ==
  ASSUME NEW r \in Row, NEW s \in Settled
  PROVE  /\ SettledRow(r, s) \in Row /\ SettledRow(r, s).status = s
         /\ SettledRow(r, s).expired = FALSE
         /\ SettledRow(r, s).claims = r.claims
<1>1. PICK z \in 0..MaxClaims : z = 0
  BY ExportAssumption
<1>2. SettledRow(r, s) = [r EXCEPT !.status = s, !.token = z, !.expired = FALSE]
  BY <1>1 DEF SettledRow
<1>3. s \in {"absent", "queued", "running", "completed", "failed"}
  BY DEF Settled
<1> HIDE DEF SettledRow
<1>4. SettledRow(r, s) \in Row
  BY <1>2, <1>3 DEF Row
<1>5. /\ SettledRow(r, s).status = s /\ SettledRow(r, s).claims = r.claims
      /\ SettledRow(r, s).expired = FALSE
  BY <1>2 DEF Row
<1> QED BY <1>4, <1>5

(* No step removes the workbook of an export that has not failed.          *)
LEMMA FilesStay ==
  ASSUME ExportTypeOK, RemoversFailed, ExportNext
  PROVE  /\ \A e \in file : row[e].status # "failed" => e \in file'
         /\ file' \subseteq Exports
<1> DEFINE Stay == /\ \A e \in file : row[e].status # "failed" => e \in file'
                   /\ file' \subseteq Exports
<1>1. file \subseteq Exports
  BY DEF ExportTypeOK
<1>2. ASSUME NEW p \in Processes, ProcessStep(p) PROVE Stay
  <2>1. CASE file' = file
    BY <1>1, <2>1
  <2>2. CASE StoreWorkbook(p)
    <3>1. process[p].export \in Exports
      BY <2>2, TaskTypes DEF StoreWorkbook
    <3> QED BY <1>1, <2>2, <3>1 DEF StoreWorkbook
  <2>3. CASE StoreFails(p)
    <3>1. process[p].export \in Exports
      BY <2>3, TaskTypes DEF StoreFails
    <3> QED BY <1>1, <2>3, <3>1 DEF StoreFails
  <2>4. CASE RemoveWorkbook(p)
    <3>1. row[process[p].export].status = "failed"
      BY <2>4 DEF RemoveWorkbook, RemoversFailed
    <3> QED BY <1>1, <2>4, <3>1 DEF RemoveWorkbook
  <2>5. ASSUME NEW e \in Exports, NEW n \in 0..MaxSoftTimeouts,
               \/ ClaimExport(p, e, n) \/ DeclareLost(p, e, n)
               \/ DropMessage(p, e, n)
        PROVE  file' = file
    BY <2>5 DEF ClaimExport, DeclareLost, DropMessage
  <2>6. \/ BuildFails(p) \/ QuotaRefused(p) \/ CompleteExport(p)
        \/ CompleteRefused(p) \/ FailExport(p) \/ RetryTask(p)
        \/ SoftTimeout(p) \/ Redeliver(p)
        => file' = file
    BY DEF BuildFails, QuotaRefused, CompleteExport, CompleteRefused,
       FailExport, RetryTask, SoftTimeout, Redeliver
  <2> QED BY <1>2, <2>1, <2>2, <2>3, <2>4, <2>5, <2>6 DEF ProcessStep
<1>3. ASSUME NEW e \in Exports,
             CreateExport(e) \/ RepeatCreateExport(e) \/ LeaseExpires(e)
      PROVE  file' = file
  BY <1>3 DEF CreateExport, RepeatCreateExport, LeaseExpires
<1>4. ASSUME NEW m \in messages, LoseMessage(m) PROVE file' = file
  BY <1>4 DEF LoseMessage
<1> QED BY <1>1, <1>2, <1>3, <1>4 DEF ExportNext

(* Every step is one of the row steps for every export.                    *)
LEMMA RowStepOfNext ==
  ASSUME ExportTypeOK, StoredIsThere, ExportNext, NEW e \in Exports
  PROVE  RowStep(e)
<1>0. row \in [Exports -> Row]
  BY DEF ExportTypeOK
<1>1. ASSUME row' = row PROVE RowStep(e)
  BY <1>1 DEF RowStep, RowKept
<1>2. ASSUME NEW x \in Exports, CreateExport(x) PROVE RowStep(e)
  <2>1. row' = [row EXCEPT ![x].status = "queued"] /\ row[x].status = "absent"
    BY <1>2 DEF CreateExport
  <2> QED BY <1>0, <2>1 DEF RowStep, RowKept, RowQueued
<1>3. ASSUME NEW x \in Exports, LeaseExpires(x) PROVE RowStep(e)
  <2>1. /\ row' = [row EXCEPT ![x].expired = TRUE]
        /\ row[x].status = "running" /\ ~row[x].expired
    BY <1>3 DEF LeaseExpires
  <2> QED BY <1>0, <2>1 DEF RowStep, RowKept, RowExpired
<1>4. ASSUME NEW p \in Processes, ProcessStep(p) PROVE RowStep(e)
  <2>1. ASSUME NEW x \in Exports, NEW n \in 0..MaxSoftTimeouts,
               ClaimExport(p, x, n)
        PROVE  RowStep(e)
    <3>1. PICK r : r = [status |-> "running", token |-> row[x].claims + 1,
                        expired |-> FALSE, claims |-> row[x].claims + 1]
      OBVIOUS
    <3>2. row' = [row EXCEPT ![x] = r] /\ Claimable(x)
      BY <2>1, <3>1 DEF ClaimExport
    <3>3. x = e => row'[e] = r
      BY <1>0, <3>2
    <3>4. x # e => row'[e] = row[e]
      BY <1>0, <3>2
    <3> QED BY <3>1, <3>2, <3>3, <3>4 DEF RowStep, RowKept, RowClaimed
  <2>2. ASSUME NEW x \in Exports, NEW n \in 0..MaxSoftTimeouts,
               DeclareLost(p, x, n)
        PROVE  RowStep(e)
    <3>1. /\ row' = [row EXCEPT ![x] = SettledRow(row[x], "failed")]
          /\ row[x].status = "running" /\ row[x].claims >= MaxClaims
      BY <2>2 DEF DeclareLost
    <3> QED BY <1>0, <3>1 DEF RowStep, RowKept, RowFailed
  <2>3. CASE CompleteExport(p)
    <3>1. PICK x \in Exports : x = process[p].export
      BY <2>3, TaskTypes DEF CompleteExport
    <3>2. /\ row' = [row EXCEPT ![x] = SettledRow(row[x], "completed")]
          /\ row[x].status = "running" /\ ~row[x].expired
      BY <2>3, <3>1 DEF CompleteExport, HoldsLease
    <3>3. x \in file
      BY <2>3, <3>1, <3>2 DEF CompleteExport, StoredIsThere
    <3> QED BY <1>0, <3>2, <3>3 DEF RowStep, RowKept, RowCompleted
  <2>4. CASE FailExport(p)
    <3>1. PICK x \in Exports : x = process[p].export
      BY <2>4, TaskTypes DEF FailExport
    <3>2. CASE HoldsLease(process[p])
      <4>1. /\ row' = [row EXCEPT ![x] = SettledRow(row[x], "failed")]
            /\ row[x].status = "running" /\ ~row[x].expired
        BY <2>4, <3>1, <3>2 DEF FailExport, HoldsLease
      <4> QED BY <1>0, <4>1 DEF RowStep, RowKept, RowFailed
    <3>3. CASE ~HoldsLease(process[p])
      BY <1>1, <2>4, <3>3 DEF FailExport
    <3> QED BY <3>2, <3>3
  <2>5. ASSUME NEW x \in Exports, NEW n \in 0..MaxSoftTimeouts,
               DropMessage(p, x, n)
        PROVE  row' = row
    BY <2>5 DEF DropMessage
  <2>6. \/ BuildFails(p) \/ QuotaRefused(p) \/ StoreWorkbook(p)
        \/ StoreFails(p) \/ CompleteRefused(p) \/ RemoveWorkbook(p)
        \/ RetryTask(p) \/ SoftTimeout(p) \/ Redeliver(p)
        => row' = row
    BY DEF BuildFails, QuotaRefused, StoreWorkbook, StoreFails, CompleteRefused,
       RemoveWorkbook, RetryTask, SoftTimeout, Redeliver
  <2> QED BY <1>1, <1>4, <2>1, <2>2, <2>3, <2>4, <2>5, <2>6 DEF ProcessStep
<1>5. ASSUME NEW x \in Exports, RepeatCreateExport(x) PROVE row' = row
  BY <1>5 DEF RepeatCreateExport
<1>6. ASSUME NEW m \in messages, LoseMessage(m) PROVE row' = row
  BY <1>6 DEF LoseMessage
<1> QED BY <1>1, <1>2, <1>3, <1>4, <1>5, <1>6 DEF ExportNext

(* A row step keeps the row's type and consistency.                        *)
LEMMA RowStepKeeps ==
  ASSUME ExportTypeOK, RowsConsistent, NEW e \in Exports, RowStep(e)
  PROVE  /\ row'[e] \in Row
         /\ row'[e].status \in {"absent", "queued"} => row'[e].claims = 0
         /\ row'[e].expired => row'[e].status = "running"
<1>0. /\ row[e] \in Row
      /\ row[e].status \in {"absent", "queued"} => row[e].claims = 0
      /\ row[e].expired => row[e].status = "running"
  BY DEF ExportTypeOK, RowsConsistent
<1>1. CASE RowKept(e)
  BY <1>0, <1>1 DEF RowKept
<1>2. CASE RowQueued(e)
  BY <1>0, <1>2 DEF RowQueued, Row
<1>3. CASE RowClaimed(e)
  <2>1. row[e].claims \in 0..MaxClaims /\ MaxClaims \in Nat \ {0}
    BY <1>0, ExportAssumption DEF Row
  <2>2. row[e].claims < MaxClaims
    BY <1>0, <1>3, <2>1 DEF RowClaimed, Claimable
  <2>3. PICK n \in 0..MaxClaims : n = row[e].claims + 1
    BY <2>1, <2>2
  <2>4. row'[e] = [status |-> "running", token |-> n, expired |-> FALSE,
                   claims |-> n]
    BY <1>3, <2>3 DEF RowClaimed
  <2> QED BY <2>4 DEF Row
<1>4. CASE RowExpired(e)
  <2>1. row'[e] \in Row
    BY <1>0, <1>4 DEF RowExpired, Row
  <2>2. row'[e].status = "running"
    BY <1>0, <1>4 DEF RowExpired, Row
  <2> QED BY <2>1, <2>2
<1>5. CASE RowCompleted(e) \/ RowFailed(e)
  <2>1. PICK s \in Settled : row'[e] = SettledRow(row[e], s)
    BY <1>5 DEF RowCompleted, RowFailed, Settled
  <2>2. row[e] \in Row
    BY <1>0
  <2>3. /\ SettledRow(row[e], s) \in Row /\ SettledRow(row[e], s).status = s
        /\ SettledRow(row[e], s).expired = FALSE
    BY <2>2, SettledRowType
  <2> HIDE DEF SettledRow
  <2>4. row'[e] \in Row /\ row'[e].status = s /\ row'[e].expired = FALSE
    BY <2>1, <2>3
  <2> QED BY <2>4 DEF Settled
<1> QED BY <1>1, <1>2, <1>3, <1>4, <1>5 DEF RowStep

(* A failed export stays failed.                                           *)
LEMMA FailedStays ==
  ASSUME NEW e \in Exports, RowStep(e), row[e].status = "failed"
  PROVE  row'[e].status = "failed"
BY DEF RowStep, RowKept, RowQueued, RowClaimed, Claimable, RowExpired,
   RowCompleted, RowFailed

(* The table keeps its rows, the queue its messages and every process a    *)
(* task or none, to which it comes by one of its steps.                    *)
LEMMA ShapesKept ==
  ASSUME ExportTypeOK, RowsConsistent, ExportNext
  PROVE  /\ DOMAIN row' = Exports /\ row' = [e \in Exports |-> row'[e]]
         /\ messages' \subseteq Exports \X (0..MaxSoftTimeouts)
         /\ process' \in [Processes -> {Waiting} \cup Task]
         /\ \A q \in Processes : TaskStep(q)
<1> DEFINE Shapes ==
      /\ DOMAIN row' = Exports /\ row' = [e \in Exports |-> row'[e]]
      /\ messages' \subseteq Exports \X (0..MaxSoftTimeouts)
      /\ process' \in [Processes -> {Waiting} \cup Task]
      /\ \A q \in Processes : TaskStep(q)
<1>0. /\ row \in [Exports -> Row]
      /\ messages \subseteq Exports \X (0..MaxSoftTimeouts)
      /\ process \in [Processes -> {Waiting} \cup Task]
      /\ Waiting.pc = "idle"
      /\ MaxSoftTimeouts \in Nat
  BY ExportAssumption DEF ExportTypeOK, Waiting
<1>1. ASSUME NEW x \in Exports,
             CreateExport(x) \/ RepeatCreateExport(x) \/ LeaseExpires(x)
      PROVE  Shapes
  <2>1. 0 \in 0..MaxSoftTimeouts
    BY <1>0
  <2>2. process' = process
    BY <1>1 DEF CreateExport, RepeatCreateExport, LeaseExpires
  <2>3. messages' \subseteq messages \cup {<<x, 0>>}
    BY <1>1 DEF CreateExport, RepeatCreateExport, LeaseExpires
  <2>4. DOMAIN row' = Exports /\ row' = [e \in Exports |-> row'[e]]
    BY <1>0, <1>1 DEF CreateExport, RepeatCreateExport, LeaseExpires
  <2> QED BY <1>0, <2>1, <2>2, <2>3, <2>4 DEF TaskStep
<1>2. ASSUME NEW m \in messages, LoseMessage(m) PROVE Shapes
  BY <1>0, <1>2 DEF LoseMessage, TaskStep
<1>3. ASSUME NEW p \in Processes, NEW x \in Exports,
             NEW n \in 0..MaxSoftTimeouts, ClaimExport(p, x, n)
      PROVE  Shapes
  <2>1. row[x].claims \in 0..MaxClaims /\ MaxClaims \in Nat \ {0}
    BY <1>0, ExportAssumption DEF Row
  <2>2. row[x].claims < MaxClaims
    BY <1>3, <2>1 DEF ClaimExport, Claimable, RowsConsistent
  <2>3. PICK k \in 1..MaxClaims : k = row[x].claims + 1
    BY <2>1, <2>2
  <2>4. PICK pc \in {"failing", "building"} :
          pc = IF n >= MaxSoftTimeouts THEN "failing" ELSE "building"
    OBVIOUS
  <2>5. PICK c : c = [pc |-> pc, export |-> x, token |-> k, soft |-> n,
                      created |-> FALSE]
    OBVIOUS
  <2>6. c \in Task /\ c.pc \notin {"stored", "removing"}
    BY <2>5 DEF Task
  <2>7. process' = [process EXCEPT ![p] = c]
    BY <1>3, <2>3, <2>4, <2>5 DEF ClaimExport
  <2>8. process' \in [Processes -> {Waiting} \cup Task]
    BY <1>0, <2>6, <2>7
  <2>9. \A q \in Processes : TaskStep(q)
    BY <1>0, <2>6, <2>7 DEF TaskStep
  <2>10. PICK r : row' = [row EXCEPT ![x] = r]
    BY <1>3 DEF ClaimExport
  <2>11. messages' \subseteq messages
    BY <1>3 DEF ClaimExport
  <2> QED BY <1>0, <2>8, <2>9, <2>10, <2>11
<1>4. ASSUME NEW p \in Processes, NEW x \in Exports,
             NEW n \in 0..MaxSoftTimeouts,
             DeclareLost(p, x, n) \/ DropMessage(p, x, n)
      PROVE  Shapes
  <2>1. process' = process /\ messages' \subseteq messages
    BY <1>4 DEF DeclareLost, DropMessage
  <2>2. row' = row \/ \E r : row' = [row EXCEPT ![x] = r]
    BY <1>4 DEF DeclareLost, DropMessage
  <2> QED BY <1>0, <2>1, <2>2 DEF TaskStep
<1>5. ASSUME NEW p \in Processes, BuildFails(p) \/ StoreFails(p) PROVE Shapes
  <2>1. process[p] \in Task
    BY <1>5, TaskTypes DEF BuildFails, StoreFails
  <2>2. PICK c : c = [process[p] EXCEPT !.pc = "failing"]
    OBVIOUS
  <2>3. c \in Task /\ c.pc \notin {"stored", "removing"}
    BY <2>1, <2>2 DEF Task
  <2>4. process' = [process EXCEPT ![p] = c] /\ row' = row /\ messages' = messages
    BY <1>0, <1>5, <2>2 DEF BuildFails, StoreFails
  <2>5. process' \in [Processes -> {Waiting} \cup Task]
    BY <1>0, <2>3, <2>4
  <2>6. \A q \in Processes : TaskStep(q)
    BY <1>0, <2>3, <2>4 DEF TaskStep
  <2> QED BY <1>0, <2>4, <2>5, <2>6
<1>6. ASSUME NEW p \in Processes, StoreWorkbook(p) PROVE Shapes
  <2>1. process[p] \in Task
    BY <1>6, TaskTypes DEF StoreWorkbook
  <2>2. PICK b \in BOOLEAN : b = (process[p].export \notin file)
    OBVIOUS
  <2>3. PICK c : c = [process[p] EXCEPT !.pc = "stored", !.created = b]
    OBVIOUS
  <2>4. c \in Task /\ c.pc = "stored" /\ c.export = process[p].export
    BY <2>1, <2>3 DEF Task
  <2>5. process' = [process EXCEPT ![p] = c] /\ row' = row /\ messages' = messages
    BY <1>0, <1>6, <2>2, <2>3 DEF StoreWorkbook
  <2>6. process[p].export \in file'
    BY <1>6 DEF StoreWorkbook
  <2>7. process' \in [Processes -> {Waiting} \cup Task]
    BY <1>0, <2>4, <2>5
  <2>8. \A q \in Processes : TaskStep(q)
    BY <1>0, <2>4, <2>5, <2>6 DEF TaskStep
  <2> QED BY <1>0, <2>5, <2>7, <2>8
<1>7. ASSUME NEW p \in Processes,
             QuotaRefused(p) \/ CompleteExport(p) \/ RemoveWorkbook(p)
      PROVE  Shapes
  <2>1. process' = [process EXCEPT ![p] = Waiting] /\ messages' = messages
    BY <1>7 DEF QuotaRefused, CompleteExport, RemoveWorkbook
  <2>2. row' = row \/ \E x, r : row' = [row EXCEPT ![x] = r]
    BY <1>7 DEF QuotaRefused, CompleteExport, RemoveWorkbook
  <2>3. process' \in [Processes -> {Waiting} \cup Task]
    BY <1>0, <2>1
  <2>4. \A q \in Processes : TaskStep(q)
    BY <1>0, <2>1 DEF TaskStep
  <2> QED BY <1>0, <2>1, <2>2, <2>3, <2>4
<1>9. ASSUME NEW p \in Processes, CompleteRefused(p) PROVE Shapes
  <2>1. process[p] \in Task
    BY <1>9, TaskTypes DEF CompleteRefused
  <2>2. PICK c : c = [process[p] EXCEPT !.pc = "refused"]
    OBVIOUS
  <2>3. c \in Task /\ c.pc \notin {"stored", "removing"}
    BY <2>1, <2>2 DEF Task
  <2>4. process' = [process EXCEPT ![p] = c] /\ row' = row /\ messages' = messages
    BY <1>0, <1>9, <2>2 DEF CompleteRefused
  <2>5. process' \in [Processes -> {Waiting} \cup Task]
    BY <1>0, <2>3, <2>4
  <2>6. \A q \in Processes : TaskStep(q)
    BY <1>0, <2>3, <2>4 DEF TaskStep
  <2> QED BY <1>0, <2>4, <2>5, <2>6
<1>10. ASSUME NEW p \in Processes, FailExport(p) PROVE Shapes
  <2>1. process[p] \in Task /\ process[p].export \in Exports
    BY <1>10, TaskTypes DEF FailExport
  <2>2. PICK x \in Exports : x = process[p].export
    BY <2>1
  <2>3. messages' = messages /\ (row' = row \/ \E r : row' = [row EXCEPT ![x] = r])
    BY <1>10, <2>2 DEF FailExport
  <2>4. CASE Removes(process[p])
    <3>1. PICK c : c = [process[p] EXCEPT !.pc = "removing"]
      OBVIOUS
    <3>2. c \in Task /\ c.pc = "removing" /\ c.export = x
      BY <2>1, <2>2, <3>1 DEF Task
    <3>3. process' = [process EXCEPT ![p] = c]
      BY <1>10, <2>4, <3>1 DEF FailExport
    <3>4. row' = [row EXCEPT ![x] = SettledRow(row[x], "failed")]
      BY <1>10, <2>2, <2>4 DEF FailExport, Removes
    <3>5. SettledRow(row[x], "failed").status = "failed"
      <4>1. "failed" \in Settled /\ row[x] \in Row
        BY <1>0 DEF Settled
      <4> QED BY <4>1, SettledRowType
    <3>6. row'[x].status = "failed"
      BY <1>0, <3>4, <3>5
    <3>7. process' \in [Processes -> {Waiting} \cup Task]
      BY <1>0, <3>2, <3>3
    <3>8. \A q \in Processes : TaskStep(q)
      BY <1>0, <3>2, <3>3, <3>6 DEF TaskStep
    <3> QED BY <1>0, <2>3, <3>7, <3>8
  <2>5. CASE ~Removes(process[p])
    <3>1. process' = [process EXCEPT ![p] = Waiting]
      BY <1>10, <2>5 DEF FailExport
    <3>2. process' \in [Processes -> {Waiting} \cup Task]
      BY <1>0, <3>1
    <3>3. \A q \in Processes : TaskStep(q)
      BY <1>0, <3>1 DEF TaskStep
    <3> QED BY <1>0, <2>3, <3>2, <3>3
  <2> QED BY <2>4, <2>5
<1>8. ASSUME NEW p \in Processes,
             RetryTask(p) \/ SoftTimeout(p) \/ Redeliver(p)
      PROVE  Shapes
  <2>1. process[p].export \in Exports /\ process[p].soft \in 0..MaxSoftTimeouts
    BY <1>8, TaskTypes DEF RetryTask, SoftTimeout, Redeliver, Busy
  <2>2. PICK n : n = process[p].soft
    OBVIOUS
  <2>3. \/ messages' = messages \cup {<<process[p].export, n>>}
        \/ n < MaxSoftTimeouts
             /\ messages' = messages \cup {<<process[p].export, n + 1>>}
    BY <1>8, <2>2 DEF RetryTask, SoftTimeout, Redeliver
  <2>4. n < MaxSoftTimeouts => n + 1 \in 0..MaxSoftTimeouts
    BY <1>0, <2>1, <2>2
  <2>5. messages' \subseteq Exports \X (0..MaxSoftTimeouts)
    BY <1>0, <2>1, <2>2, <2>3, <2>4
  <2>6. /\ process' = [process EXCEPT ![p] = Waiting] \/ process' = process
        /\ row' = row
    BY <1>8 DEF RetryTask, SoftTimeout, Redeliver
  <2>7. process' \in [Processes -> {Waiting} \cup Task]
    BY <1>0, <2>6
  <2>8. \A q \in Processes : TaskStep(q)
    BY <1>0, <2>6 DEF TaskStep
  <2> QED BY <1>0, <2>5, <2>6, <2>7, <2>8
<1> QED BY <1>1, <1>2, <1>3, <1>4, <1>5, <1>6, <1>7, <1>8, <1>9, <1>10
        DEF ExportNext, ProcessStep

-----------------------------------------------------------------------------
(* The theorems                                                            *)

(* The invariant holds initially and every step keeps it.                  *)
LEMMA ExportInitInv == ExportInit => ExportInv
<1> SUFFICES ASSUME ExportInit PROVE ExportInv
  OBVIOUS
<1>1. \A e \in Exports :
        /\ row[e] \in Row /\ row[e].status = "absent" /\ row[e].claims = 0
        /\ row[e].expired = FALSE
  BY ExportAssumption DEF ExportInit, Row
<1>2. row \in [Exports -> Row]
  BY <1>1 DEF ExportInit
<1>3. \A p \in Processes :
        process[p] = Waiting /\ process[p].pc \notin {"stored", "removing"}
  BY DEF ExportInit, Waiting
<1>4. process \in [Processes -> {Waiting} \cup Task]
  BY DEF ExportInit
<1> QED BY <1>1, <1>2, <1>3, <1>4 DEF ExportInit, ExportInv, ExportTypeOK,
        RowsConsistent, StoredIsThere, RemoversFailed, CompletedHasWorkbook

LEMMA ExportStepInv == ExportInv /\ [ExportNext]_exportVars => ExportInv'
<1> SUFFICES ASSUME ExportInv, [ExportNext]_exportVars PROVE ExportInv'
  OBVIOUS
<1>1. CASE UNCHANGED exportVars
  BY <1>1 DEF exportVars, ExportInv, ExportTypeOK, RowsConsistent,
     StoredIsThere, RemoversFailed, CompletedHasWorkbook
<1>2. CASE ExportNext
  <2>0. /\ ExportTypeOK /\ RowsConsistent /\ StoredIsThere
        /\ RemoversFailed /\ CompletedHasWorkbook
    BY DEF ExportInv
  <2>1. \A e \in Exports : RowStep(e)
    BY <1>2, <2>0, RowStepOfNext
  <2>2. /\ \A e \in file : row[e].status # "failed" => e \in file'
        /\ file' \subseteq Exports
    BY <1>2, <2>0, FilesStay
  <2>3. /\ row' = [e \in Exports |-> row'[e]]
        /\ messages' \subseteq Exports \X (0..MaxSoftTimeouts)
        /\ process' \in [Processes -> {Waiting} \cup Task]
        /\ \A p \in Processes : TaskStep(p)
    BY <1>2, <2>0, ShapesKept
  <2>4. RowsConsistent' /\ \A e \in Exports : row'[e] \in Row
    BY <2>0, <2>1, RowStepKeeps DEF RowsConsistent
  <2>5. row' \in [Exports -> Row]
    BY <2>3, <2>4
  <2>6. ASSUME NEW e \in Exports, row'[e].status = "completed"
        PROVE  e \in file'
    <3>0. row[e] \in Row
      BY <2>0 DEF ExportTypeOK
    <3>1. CASE RowKept(e)
      BY <2>0, <2>2, <2>6, <3>1 DEF RowKept, CompletedHasWorkbook
    <3>2. CASE RowCompleted(e)
      BY <2>2, <3>2 DEF RowCompleted
    <3>3. CASE RowQueued(e) \/ RowClaimed(e) \/ RowExpired(e)
      BY <2>6, <3>0, <3>3 DEF RowQueued, RowClaimed, RowExpired, Row
    <3>4. CASE RowFailed(e)
      <4>1. "failed" \in Settled
        BY DEF Settled
      <4> QED BY <2>6, <3>0, <3>4, <4>1, SettledRowType DEF RowFailed
    <3> QED BY <2>1, <3>1, <3>2, <3>3, <3>4 DEF RowStep
  <2>7. faults' \subseteq Faults
    BY <1>2, <2>0 DEF ExportNext, ExportTypeOK
  <2>8. ASSUME NEW p \in Processes, process'[p].pc \in {"stored", "removing"}
        PROVE  /\ process'[p].pc = "stored"
                    /\ row'[process'[p].export].status # "failed"
                    => process'[p].export \in file'
               /\ process'[p].pc = "removing"
                    => row'[process'[p].export].status = "failed"
    <3>1. PICK c : c = process[p]
      OBVIOUS
    <3>2. CASE process'[p] = c
      <4>1. c.export \in Exports
        BY <2>0, <2>8, <3>1, <3>2, TaskTypes
      <4>2. row[c.export].status = "failed" => row'[c.export].status = "failed"
        BY <2>1, <4>1, FailedStays
      <4>3. /\ c.pc = "stored" /\ row[c.export].status # "failed" => c.export \in file
            /\ c.pc = "removing" => row[c.export].status = "failed"
        BY <2>0, <3>1 DEF StoredIsThere, RemoversFailed
      <4> QED BY <2>2, <3>2, <4>2, <4>3
    <3>3. CASE process'[p] # c
      BY <2>3, <2>8, <3>1, <3>3 DEF TaskStep
    <3> QED BY <3>2, <3>3
  <2>9. StoredIsThere' /\ RemoversFailed'
    BY <2>8 DEF StoredIsThere, RemoversFailed
  <2> QED BY <2>2, <2>3, <2>4, <2>5, <2>6, <2>7, <2>9
          DEF ExportInv, ExportTypeOK, CompletedHasWorkbook
<1> QED BY <1>1, <1>2

(* Every behaviour of exports, messages and processes keeps ExportInv.     *)
THEOREM ExportInvariant == ExportSpec => []ExportInv
<1>1. ExportInit => ExportInv
  BY ExportInitInv
<1>2. ExportInv /\ [ExportNext]_exportVars => ExportInv'
  BY ExportStepInv
<1> QED BY <1>1, <1>2, PTL DEF ExportSpec

(* Rows, messages and tasks keep their types; claim_export never claims an *)
(* export more than MaxClaims times.                                       *)
THEOREM ExportTypes == ExportSpec => []ExportTypeOK
<1>1. ExportInv => ExportTypeOK
  BY DEF ExportInv
<1> QED BY <1>1, ExportInvariant, PTL

(* For any number of processes and any faults, a completed export has its  *)
(* workbook: the cleanup after a refused completion removes nothing that   *)
(* another process has completed with.                                     *)
THEOREM DownloadsWork == ExportSpec => []CompletedHasWorkbook
<1>1. ExportInv => CompletedHasWorkbook
  BY DEF ExportInv
<1> QED BY <1>1, ExportInvariant, PTL

(* For any number of processes and duplicate messages, a settled export is *)
(* never touched again.                                                    *)
THEOREM SettledForGood == ExportSpec => SettledOnce
<1>1. ExportInv /\ [ExportNext]_exportVars =>
        [\A e \in Exports : row[e].status \in Settled
                              => row'[e] = row[e]]_exportVars
  <2> SUFFICES ASSUME ExportInv, ExportNext, NEW e \in Exports,
                      row[e].status \in Settled
               PROVE  row'[e] = row[e]
    OBVIOUS
  <2>1. RowStep(e)
    BY RowStepOfNext DEF ExportInv
  <2> QED BY <2>1 DEF RowStep, RowKept, RowQueued, RowClaimed, Claimable,
          RowExpired, RowCompleted, RowFailed, Settled
<1> QED BY <1>1, ExportInvariant, PTL DEF ExportSpec, SettledOnce

(* For any number of processes, one whose lease has expired neither        *)
(* completes nor fails the export: only giving up after MaxClaims claims   *)
(* settles it then.                                                        *)
THEOREM LeaseDecides == ExportSpec => LateProcessDecidesNothing
<1>1. ExportInv /\ [ExportNext]_exportVars =>
        [\A e \in Exports :
           row[e].expired /\ row'[e].status \in Settled
             => row[e].claims = MaxClaims /\ row'[e].status = "failed"]_exportVars
  <2> SUFFICES ASSUME ExportInv, ExportNext, NEW e \in Exports,
                      row[e].expired, row'[e].status \in Settled
               PROVE  row[e].claims = MaxClaims /\ row'[e].status = "failed"
    OBVIOUS
  <2>0. /\ ExportTypeOK /\ row[e] \in Row /\ row[e].status = "running"
        /\ row[e].claims \in 0..MaxClaims /\ MaxClaims \in Nat
    BY ExportAssumption DEF ExportInv, ExportTypeOK, RowsConsistent, Row
  <2>1. RowStep(e)
    BY RowStepOfNext DEF ExportInv
  <2>2. RowFailed(e)
    BY <2>0, <2>1 DEF RowStep, RowKept, RowQueued, RowClaimed,
       RowExpired, RowCompleted, Settled
  <2>3. row[e].claims = MaxClaims
    BY <2>0, <2>2 DEF RowFailed
  <2>4. "failed" \in Settled
    BY DEF Settled
  <2>5. row[e] \in Row
    BY <2>0
  <2>6. SettledRow(row[e], "failed").status = "failed"
    BY <2>4, <2>5, SettledRowType
  <2>7. row'[e] = SettledRow(row[e], "failed")
    BY <2>2 DEF RowFailed
  <2>8. row'[e].status = "failed"
    BY <2>6, <2>7
  <2> QED BY <2>3, <2>8
<1> QED BY <1>1, ExportInvariant, PTL DEF ExportSpec, LateProcessDecidesNothing
=============================================================================
