----------------------------- MODULE ExportTasks -----------------------------
(***************************************************************************)
(* Exports: rows of the exports table with their lease, the               *)
(* generate_export messages, the export worker processes and the workbook *)
(* objects.  One action is one database transaction, one storage request,  *)
(* or one thing that happens to a task.  What an export contains is frozen *)
(* when it is created and every process builds the same bytes from it, so  *)
(* a workbook is only present or absent here.                              *)
(***************************************************************************)
EXTENDS Integers, FiniteSets

CONSTANTS
  Exports,          \* accepted export requests
  Processes,        \* export worker processes
  MaxClaims,        \* claims after which an expired export is given up
  MaxSoftTimeouts,  \* soft timeouts after which a task only fails its export
  Faults            \* which disturbances may happen

(* quota_refused: the storage quota blocks or cannot be read;              *)
(* message_lost: the broker, or a task killed at its hard limit, loses a   *)
(* message; lease_overrun: a process outlives its 600 second lease although *)
(* its hard limit is 570 seconds (a suspended machine).                    *)
AllFaults == {"quota_refused", "message_lost", "lease_overrun"}

ASSUME ExportAssumption ==
  /\ MaxClaims \in Nat \ {0}
  /\ MaxSoftTimeouts \in Nat
  /\ Faults \subseteq AllFaults

VARIABLES
  row,       \* exports: status, claim_token, lease, audited claims
  file,      \* exports whose workbook object is in storage
  messages,  \* generate_export messages: <<export, soft_timeout_count>>
  process,   \* the task each process runs
  faults     \* the disturbances of this behaviour, fixed from the start

exportVars == <<row, file, messages, process, faults>>

-----------------------------------------------------------------------------
(* State                                                                   *)

(* token: the claim that wrote claim_token, 0 for NULL; expired: whether   *)
(* lease_expires_at has passed; claims: 'export.claimed' rows in the audit *)
(* log.                                                                    *)
Row == [status : {"absent", "queued", "running", "completed", "failed"},
        token : 0..MaxClaims, expired : BOOLEAN, claims : 0..MaxClaims]

Settled == {"completed", "failed"}

Waiting == [pc |-> "idle"]
Task == [pc : {"building", "stored", "refused", "removing", "failing"},
         export : Exports, token : 1..MaxClaims, soft : 0..MaxSoftTimeouts,
         created : BOOLEAN]

(* Every variable keeps its type; a row is never claimed more than         *)
(* MaxClaims times.                                                        *)
ExportTypeOK ==
  /\ row \in [Exports -> Row]
  /\ file \subseteq Exports
  /\ messages \subseteq Exports \X (0..MaxSoftTimeouts)
  /\ process \in [Processes -> {Waiting} \cup Task]
  /\ faults \subseteq Faults

ExportInit ==
  /\ row = [e \in Exports |-> [status |-> "absent", token |-> 0,
                               expired |-> FALSE, claims |-> 0]]
  /\ file = {}
  /\ messages = {}
  /\ process = [p \in Processes |-> Waiting]
  /\ faults \in SUBSET Faults

Busy(p) == process[p] # Waiting

-----------------------------------------------------------------------------
(* The teacher                                                             *)

(* ExportService.create with a new key: the row is committed, then sent.   *)
CreateExport(e) ==
  /\ row[e].status = "absent"
  /\ row' = [row EXCEPT ![e].status = "queued"]
  /\ messages' = messages \cup {<<e, 0>>}
  /\ UNCHANGED <<file, process>>

(* The same key again: the row is returned, and sent while it is queued.   *)
RepeatCreateExport(e) ==
  /\ row[e].status = "queued"
  /\ messages' = messages \cup {<<e, 0>>}
  /\ UNCHANGED <<row, file, process>>

-----------------------------------------------------------------------------
(* Claiming.  A message that finds a valid lease is sent again with a      *)
(* delay, which changes nothing here.                                      *)

(* Mutant: any expired or unsettled row can be claimed, and a failed one.  *)
ClaimableAgain(e) ==
  \/ row[e].status \in {"queued", "failed"} /\ row[e].claims < MaxClaims
  \/ row[e].status = "running" /\ row[e].expired /\ row[e].claims < MaxClaims

Claimable(e) ==
  \/ row[e].status = "queued"
  \/ row[e].status = "running" /\ row[e].expired /\ row[e].claims < MaxClaims

(* Mutant: claims are counted after the decision, one too late.            *)
ClaimExportUncounted(p, e, n) ==
  /\ ~Busy(p) /\ <<e, n>> \in messages
  /\ \/ row[e].status = "queued"
     \/ row[e].status = "running" /\ row[e].expired /\ row[e].claims <= MaxClaims
  /\ row' = [row EXCEPT ![e] =
       [status |-> "running", token |-> row[e].claims + 1,
        expired |-> FALSE, claims |-> row[e].claims + 1]]
  /\ messages' = messages \ {<<e, n>>}
  /\ process' = [process EXCEPT ![p] =
       [pc |-> IF n >= MaxSoftTimeouts THEN "failing" ELSE "building",
        export |-> e, token |-> row[e].claims + 1, soft |-> n,
        created |-> FALSE]]
  /\ UNCHANGED file

(* claim_export succeeds.  After too many soft timeouts the task claims    *)
(* only to fail the export (fail_timed_out).                               *)
ClaimExport(p, e, n) ==
  /\ ~Busy(p) /\ <<e, n>> \in messages
  /\ Claimable(e)
  /\ row' = [row EXCEPT ![e] =
       [status |-> "running", token |-> row[e].claims + 1,
        expired |-> FALSE, claims |-> row[e].claims + 1]]
  /\ messages' = messages \ {<<e, n>>}
  /\ process' = [process EXCEPT ![p] =
       [pc |-> IF n >= MaxSoftTimeouts THEN "failing" ELSE "building",
        export |-> e, token |-> row[e].claims + 1, soft |-> n,
        created |-> FALSE]]
  /\ UNCHANGED file

(* The row after it was settled with this status: no token, no lease.      *)
SettledRow(r, status) ==
  [r EXCEPT !.status = status, !.token = 0, !.expired = FALSE]

(* claim_export gives up: export_worker_lost.                              *)
DeclareLost(p, e, n) ==
  /\ ~Busy(p) /\ <<e, n>> \in messages
  /\ row[e].status = "running" /\ row[e].expired
  /\ row[e].claims >= MaxClaims
  /\ row' = [row EXCEPT ![e] = SettledRow(row[e], "failed")]
  /\ messages' = messages \ {<<e, n>>}
  /\ UNCHANGED <<file, process>>

(* The export is settled: the message is dropped.                          *)
DropMessage(p, e, n) ==
  /\ ~Busy(p) /\ <<e, n>> \in messages
  /\ row[e].status \in Settled
  /\ messages' = messages \ {<<e, n>>}
  /\ UNCHANGED <<row, file, process>>

-----------------------------------------------------------------------------
(* ExportRunner.run                                                        *)

BuildFails(p) ==
  /\ process[p].pc = "building"
  /\ process' = [process EXCEPT ![p].pc = "failing"]
  /\ UNCHANGED <<row, file, messages>>

(* The reservation raises QuotaExceededError or QuotaUnavailableError,     *)
(* which nothing handles: the task fails and its message is acknowledged.  *)
QuotaRefused(p) ==
  /\ "quota_refused" \in faults
  /\ process[p].pc = "building"
  /\ process' = [process EXCEPT ![p] = Waiting]
  /\ UNCHANGED <<row, file, messages>>

(* put_file_once: creates the object, or finds the same bytes there.       *)
StoreWorkbook(p) ==
  LET e == process[p].export IN
  /\ process[p].pc = "building"
  /\ file' = file \cup {e}
  /\ process' = [process EXCEPT ![p].pc = "stored",
                                ![p].created = e \notin file]
  /\ UNCHANGED <<row, messages>>

(* SupabaseStorageError; after a timeout the object may be there or not.   *)
StoreFails(p) ==
  /\ process[p].pc = "building"
  /\ file' \in {file, file \cup {process[p].export}}
  /\ process' = [process EXCEPT ![p].pc = "failing"]
  /\ UNCHANGED <<row, messages>>

(* Mutant: the expiry of the lease is not compared.                        *)
HoldsLeaseForever(c) ==
  row[c.export].status = "running" /\ row[c.export].token = c.token

(* The WHERE clause of complete_export and fail_export.                    *)
HoldsLease(c) ==
  /\ row[c.export].status = "running"
  /\ row[c.export].token = c.token
  /\ ~row[c.export].expired

CompleteExport(p) ==
  LET c == process[p] IN
  /\ c.pc = "stored" /\ HoldsLease(c)
  /\ row' = [row EXCEPT ![c.export] = SettledRow(row[c.export], "completed")]
  /\ process' = [process EXCEPT ![p] = Waiting]
  /\ UNCHANGED <<file, messages>>

(* complete_export answers NULL: the lease is lost, or the name, the size  *)
(* or the hash of the workbook is not one the database accepts.            *)
CompleteRefused(p) ==
  /\ process[p].pc = "stored"
  /\ process' = [process EXCEPT ![p].pc = "refused"]
  /\ UNCHANGED <<row, file, messages>>

(* Mutant: whoever created the object removes it.                          *)
RemovesOwn(c) == c.pc = "refused" /\ c.created

(* The workbook is removed only after a refused completion, by the process *)
(* that created it, and only if its fail_export was accepted.              *)
Removes(c) == c.pc = "refused" /\ c.created /\ HoldsLease(c)

(* fail_export; a process that lost its lease changes nothing.             *)
FailExport(p) ==
  LET c == process[p] IN
  /\ c.pc \in {"failing", "refused"}
  /\ row' = IF HoldsLease(c)
            THEN [row EXCEPT ![c.export] = SettledRow(row[c.export], "failed")]
            ELSE row
  /\ process' = [process EXCEPT ![p] =
                   IF Removes(c) THEN [c EXCEPT !.pc = "removing"] ELSE Waiting]
  /\ UNCHANGED <<file, messages>>

(* delete_if_sha256; an error of the storage ends the task, and may hide   *)
(* that the object is gone.                                                *)
RemoveWorkbook(p) ==
  /\ process[p].pc = "removing"
  /\ file' \in {file, file \ {process[p].export}}
  /\ process' = [process EXCEPT ![p] = Waiting]
  /\ UNCHANGED <<row, messages>>

-----------------------------------------------------------------------------
(* What happens to tasks, messages and leases                              *)

(* A database error is retried, and a lost process rejects its message:    *)
(* either way the message is in the queue again.                           *)
RetryTask(p) ==
  /\ Busy(p)
  /\ messages' = messages \cup {<<process[p].export, process[p].soft>>}
  /\ process' = [process EXCEPT ![p] = Waiting]
  /\ UNCHANGED <<row, file>>

(* Mutant: a soft timeout ends the task without sending it again.          *)
SoftTimeoutForgets(p) ==
  /\ Busy(p)
  /\ process' = [process EXCEPT ![p] = Waiting]
  /\ UNCHANGED <<row, file, messages>>

(* SoftTimeLimitExceeded: sent again with the count raised; only reaching  *)
(* MaxSoftTimeouts matters, so the count stops there.                      *)
SoftTimeout(p) ==
  LET n == process[p].soft IN
  /\ Busy(p)
  /\ messages' = messages \cup
       {<<process[p].export, IF n < MaxSoftTimeouts THEN n + 1 ELSE n>>}
  /\ process' = [process EXCEPT ![p] = Waiting]
  /\ UNCHANGED <<row, file>>

(* The visibility timeout of Redis passes while the task still runs.       *)
Redeliver(p) ==
  /\ Busy(p)
  /\ messages' = messages \cup {<<process[p].export, process[p].soft>>}
  /\ UNCHANGED <<row, file, process>>

LoseMessage(m) ==
  /\ "message_lost" \in faults
  /\ m \in messages
  /\ messages' = messages \ {m}
  /\ UNCHANGED <<row, file, process>>

(* lease_expires_at passes.                                                *)
LeaseExpires(e) ==
  /\ row[e].status = "running" /\ ~row[e].expired
  /\ \/ "lease_overrun" \in faults
     \/ \A p \in Processes : Busy(p) => process[p].export # e
                                        \/ process[p].token # row[e].token
  /\ row' = [row EXCEPT ![e].expired = TRUE]
  /\ UNCHANGED <<file, messages, process>>

-----------------------------------------------------------------------------
ProcessStep(p) ==
  \/ \E e \in Exports, n \in 0..MaxSoftTimeouts :
       ClaimExport(p, e, n) \/ DeclareLost(p, e, n) \/ DropMessage(p, e, n)
  \/ BuildFails(p) \/ QuotaRefused(p) \/ StoreWorkbook(p) \/ StoreFails(p)
  \/ CompleteExport(p) \/ CompleteRefused(p) \/ FailExport(p) \/ RemoveWorkbook(p)
  \/ RetryTask(p) \/ SoftTimeout(p) \/ Redeliver(p)

ExportNext ==
  /\ \/ \E e \in Exports : CreateExport(e) \/ RepeatCreateExport(e)
                           \/ LeaseExpires(e)
     \/ \E p \in Processes : ProcessStep(p)
     \/ \E m \in messages : LoseMessage(m)
  /\ UNCHANGED faults

ExportSpec == ExportInit /\ [][ExportNext]_exportVars

(* Time passes, processes work on what they hold and take what is in the   *)
(* queue; a message may be put back any number of times, so taking it is   *)
(* strongly fair.                                                          *)
ExportFairness ==
  /\ \A e \in Exports :
       /\ WF_exportVars(LeaseExpires(e) /\ UNCHANGED faults)
       /\ \A n \in 0..MaxSoftTimeouts :
            SF_exportVars(/\ \E p \in Processes : ClaimExport(p, e, n)
                                                  \/ DeclareLost(p, e, n)
                          /\ UNCHANGED faults)
  /\ \A p \in Processes :
       WF_exportVars(/\ \/ BuildFails(p) \/ StoreWorkbook(p) \/ StoreFails(p)
                        \/ CompleteExport(p) \/ CompleteRefused(p)
                        \/ FailExport(p) \/ RemoveWorkbook(p)
                     /\ UNCHANGED faults)

FairExportSpec == ExportSpec /\ ExportFairness

-----------------------------------------------------------------------------
(* Properties                                                              *)

(* A completed export can be downloaded: its workbook is in storage,       *)
(* although a process that lost its lease may still store, abandon or fail *)
(* the same export (the cleanup rule of ExportRunner.run).                 *)
CompletedHasWorkbook ==
  \A e \in Exports : row[e].status = "completed" => e \in file

(* An export is settled once: neither a duplicate message nor a process    *)
(* that answers late re-opens it or changes how it ended.                  *)
SettledOnce ==
  [][\A e \in Exports : row[e].status \in Settled => row'[e] = row[e]]_exportVars

(* Once its lease has expired, a process decides nothing any more: the     *)
(* export is claimed again, or given up as lost after MaxClaims claims.    *)
LateProcessDecidesNothing ==
  [][\A e \in Exports :
       row[e].expired /\ row'[e].status \in Settled
         => row[e].claims = MaxClaims /\ row'[e].status = "failed"]_exportVars

(* No export stays queued or running for ever: however often its task      *)
(* times out, is retried, redelivered or lost with its process, it is      *)
(* completed or failed.                                                    *)
ExportAlwaysSettles ==
  \A e \in Exports :
    row[e].status \in {"queued", "running"} ~> row[e].status \in Settled

(* So it is unless a message is lost, the quota refuses the workbook or a  *)
(* process outlives its lease: nothing scans for exports left behind.      *)
ExportSettles == faults = {} => ExportAlwaysSettles
=============================================================================
