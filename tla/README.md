# Verification of the paper-grading service

TLA+ models of the batch grading service in `backend/app` (FastAPI, Celery,
PostgreSQL) and of the functions and triggers its migrations install, with TLC
configurations and TLAPS proofs. `PROJECT.json` maps every definition to the
source lines it models and lists the hazards the properties are about.

## 1. Inventory

The service lets a teacher create an assignment with a rubric, upload papers,
grade them in batches with a model provider, review the grades and export them.
An administrator manages accounts and providers.

| Component | State it keeps | Operations | Hard part |
|---|---|---|---|
| Batch grading jobs (`workers/repository.py`, `workers/service.py`, migrations 0012, 0015, 0016) | `grading_jobs`, `grading_job_items`, `grading_attempts` | create, pause, resume, cancel, retry a paper, dispatch, expire, reconcile | batch status is derived from papers that workers change concurrently |
| Grading worker (`workers/tasks.py`) | in memory: preparation, claim, answer | prepare, claim, call, store the answer, finish | crash at every point, lease lost while the call runs, paid calls that must not be repeated |
| Celery dispatch (`workers/celery_app.py`, `dispatcher.py`, `supervisor.py`) | messages in Redis | deliver, redeliver, lose; scan every 30 s | at-least-once delivery, a refused claim acknowledges its message |
| Provider configuration (`providers/config.py`, triggers) | `provider_configs` with `config_version` and test results | create, update, test, enable, disable | the row changes while a test or a generation waits for the provider; a guard against active batches that takes no lock |
| Provider adapters (`providers/base.py`, adapters) | none | one call | which failures may have been billed |
| Output validation (`grading/`, validator of 0015) | none | prompts, validation, totals | one correction per round; two implementations, Python and PL/pgSQL, that must agree |
| Assignments and rubrics (`rubrics/`, triggers) | `assignments`, `rubric_versions` | archive, draft, generate, edit, confirm | a confirmation is four updates under triggers and unique indexes; a new version while batches of the old one run |
| Submissions and parsing (`submissions/`, `parsing/`) | `submissions`, two objects per paper | upload, parse, cancel, fail, upload again | row and objects in two stores without a common transaction; clean-up after a failure against another upload of the same file |
| Teacher reviews (`reviews/`, 0015, 0016) | `teacher_reviews` revisions | draft, confirm one or many, re-grade | revisions against re-gradings, all or nothing |
| Exports (`export/`, 0017) | `exports` with a lease, frozen `export_items` | create, claim, complete, fail | lost message, soft timeout, worker loss |
| Object storage and quota (`storage/`, `monitoring/`, 0018) | `quota_reservations`, the bucket | reserve growth, write, commit or doubt, delete by compensation | writes that land after their time limit, concurrent growth at the limit |
| Retention and backup (`maintenance/`, 0018) | `retention_objects` with a lease | claim, look again, delete, close | deletion in two stores, runs that overrun each other's lease, holds set meanwhile |
| Authentication and roles (`auth/`) | `profiles`, users of the Auth service | bootstrap, invite, activate, disable, enable | profile and Auth user change without a common transaction |
| HTTP API, frontend, deployment | none of the above | route, show | none modelled |

Interactions: the API commits to PostgreSQL and then sends Celery messages; the
worker, the maintenance tasks and the API meet only in the database, through row
locks and an advisory lock per provider; the provider row and the rubric version
are re-read by every preparation; confirming a review moves papers and batches;
row level security ties every row of an upload to an active teacher; every write
of an object passes the quota first.

What makes each part correct:

- batch and papers agree; a cancelled batch makes no call; every paper settles;
- one call at a time per paper, bounded calls per round, none after a doubt;
- the provider limit holds across batches;
- a finished attempt is history; every answer reported can be read back;
- a teacher confirms exactly the grade that was looked at, once, and exports
  label as confirmed only what stays;
- an enabled provider is the tested one; a confirmed rubric never changes and can
  be graded by; what the backend accepts the database accepts;
- a paper that is ready has its source and a text that says where it is from, and
  no paper is left half way;
- a teacher whose account is open can sign in; there is one administrator for good;
- bytes stay below the limit whatever lands late; what is recorded as deleted is
  gone; every candidate is settled;
- exports end in a settled state after any crash.

## 2. Plan

Done:

1. `GradingPipeline`: jobs, papers, attempts, messages, workers, maintenance and
   the configuration changes workers depend on.
2. `PaperLifecycle`, `GradingRefinement`: the abstract promise and the mapping.
3. `MCGradingPipeline` and its configurations.
4. `GradingPipelineProofs`: the inductive invariant and the theorems.
5. `ExportTasks`, `ExportTasksProofs`: lease, retries, timeouts, lost messages,
   the workbook object.
6. `GradeRules`, `TeacherReview`: totals and both validators; drafts, revisions,
   confirmation, re-grading between them, the snapshot an export freezes.
7. `RubricRules`, `RubricDesk`: the rules of a rubric in both implementations;
   test-then-enable, generation, edits and confirmation.
8. `DocumentRules`, `Accounts`, `PaperUploads`: staging and both parsers; account
   operations; uploads, composed with the accounts.
9. `StorageQuota`, `RetentionSweep`: growth at the limit; deletion, composed with
   the writers of the same bucket.
10. `GradingRefinementProofs`, `GradingBatchProofs`, `PaperUploadsProofs`,
   `RetentionSweepProofs`, `RubricDeskProofs`, `TeacherReviewProofs`: the refinement
   of step 2 and every safety property of the runs, as theorems.

Left: what the parsers compute for every file; then the administrator's changes
of `max_concurrency` while older batches run, and the dispatcher's scan limit with
stuck papers.

## 3. The models

Every module has one action for each database transaction and for each step of a
process between two transactions. A transaction is atomic where row locks make it
so; where the code reads without a lock and writes later, the read and the write
are two actions and the request carries what it read.

### Grading: `GradingPipeline`

| Variable | Code |
|---|---|
| `job` | row of `grading_jobs`: `status`; `rubricOk`, `configOk` say whether its rubric version is still confirmed and its provider snapshot still current |
| `item` | row of `grading_job_items`: `status`, `version` (`dispatch_version`), `retries` (`retry_count`), `ready` (`available_at` has passed), `lease` (the attempt whose claim wrote `lease_token`, 0 for NULL) |
| `attempts` | rows of `grading_attempts` in the order of `attempt_number` |
| `messages` | `grade_item` messages: paper and `dispatch_version` |
| `worker` | what a worker holds between its transactions |
| `stored` | provider responses in object storage |
| `provider` | the provider row; `updating` while an UPDATE is uncommitted |

| Actions | Code |
|---|---|
| `CreateJob`, `RepeatCreateJob` | `create_or_get_job`, first and later use of an idempotency key |
| `PauseJob`, `ResumeJob`, `CancelJob`, `RetryItem` | `control_grading_job` |
| `ConfirmItems` | `confirm_teacher_reviews` and the trigger of 0016 |
| `PrepareItem`, `ClaimAttempt`, `ClaimRefused`, `CallProvider`, `FinishAttempt`, `FinishRejected`, `WorkerLost` | `GradingAttemptRunner.run` and the repository calls it makes |
| `DispatchReadyItems`, `ExpireStaleAttempts` | the two periodic tasks |
| `RetryDelayEnds`, `LoseMessage` | time and the broker (external) |
| `BeginProviderUpdate`, `CommitProviderUpdate`, `EnableProvider`, `DisableProvider`, `ConfirmRubric` | configuration changes |

Abstractions. Prompts, grades and answers are reduced to the eight ways a call
can end (`AllOutcomes`); `claim_attempt` and the other transactions are atomic
because of their row locks and the advisory lock on the provider, while the
UPDATE of a provider takes two steps because its guard reads `grading_jobs`
without a lock. `LoseMessage` also stands for a message the API never sent.
`WorkerLost` covers a killed process and any exception the task does not handle.
Time appears only as "the delay has passed" and "the lease has run out"; a lease
may run out at any moment, which covers slow workers. Every batch has a paper
(`BatchAssumption`): a request for a batch without papers is refused by its schema.

`PaperLifecycle` says what this promises for one paper (waiting, calling, graded,
ungraded, withdrawn, final; never called in doubt). `Expire` takes several papers
at once, because `expire_stale_attempts` ends all attempts whose lease has run out
in one transaction. `GradingRefinement` maps rows to phases.

### Exports: `ExportTasks`

| Variable | Code |
|---|---|
| `row` | row of `exports`: `status`, `token` (which claim wrote `claim_token`), `expired` (`lease_expires_at` has passed), `claims` (`export.claimed` rows of the audit log) |
| `file` | exports whose object `exports/<id>/workbook.xlsx` exists |
| `messages` | `generate_export` messages: export and `soft_timeout_count` |
| `process` | what a task holds between its claim and its end |
| `faults` | the disturbances of the behaviour, chosen at its start |

| Actions | Code |
|---|---|
| `CreateExport`, `RepeatCreateExport` | `ExportService.create`, first and later use of a key |
| `ClaimExport`, `DeclareLost`, `DropMessage` | `ExportRunner._claim`, `claim_export` |
| `BuildFails`, `StoreWorkbook`, `StoreFails`, `QuotaRefused`, `CompleteExport`, `CompleteRefused`, `FailExport`, `RemoveWorkbook` | `ExportRunner.run` and the calls it makes |
| `RetryTask`, `SoftTimeout` | `generate_export` and `task_reject_on_worker_lost` |
| `Redeliver`, `LoseMessage`, `LeaseExpires` | broker and time (external) |

The content of a workbook is frozen with the row, so every process builds the
same bytes and the object is just there or not. `complete_export` also answers NULL for
a name, size or hash it does not accept; the runner builds only names and sizes it
accepts (`export/xlsx.py:281-290`), so `CompleteRefused` without a lost lease
allows more than the code does, and is what makes the removal of a workbook
reachable. A workbook is removed only after its export failed for good, so a
removal that lands late hurts nobody. A claim that meets a valid lease
sends its message again with a delay, which changes no variable. The faults are
refused quota reservations, lost messages, and processes that outlive their lease
although their hard limit is shorter.

### Reviews: `GradeRules`, `TeacherReview`

`GradeRules` holds the totals (`calculate_grade_totals`), the checks of a grade
against rubric and evidence (`validate_grade_response`, `validate_payload`) and
their second implementation, the function `validate_teacher_review_payload` of
0015. A grade is a record of criteria, deductions and evidence; texts are absent.
A decimal is its value, a whole number of smallest units, and the form it is
written in: the backend turns decimals into canonical ones before it compares
(`_canonical_value`), while SQL matches a pattern and compares JSON text.
`GradedRubrics` and `GradeShapes` say what the fields are (any string for an
identifier or a form); nothing else is assumed of a grade.

| Variable | Code |
|---|---|
| `batch`, `item` | status of the job; status and `dispatch_version` of its papers |
| `suggestion` | the succeeded attempt of each paper's current round |
| `review` | `teacher_reviews`, by paper and the round of its attempt |
| `tab` | what a request holds between its read and its write |
| `export` | exports with the rows `create_export` froze |

| Actions | Code |
|---|---|
| `SendGrade`, `ReadDraft` | the service's read and validation before it writes, of one payload or of the drafts a batch confirmation names, one paper and transaction after the other |
| `SaveDraft`, `SaveAndConfirm`, `ConfirmAgain` | `save_draft`, `save_and_confirm`, its answer for a completed paper |
| `ConfirmReviews`, `ConfirmReviewsAgain` | `confirm_teacher_reviews` for a set of papers, and its repetition |
| `RequestFails` | a request refused or cut off between read and write |
| `EndRound`, `RetryItem`, `CancelJob` | what grading does to papers meanwhile |
| `CreateExport` | `create_export`: its checks and the frozen items |

A tab is one request; `save_draft` and `confirm` make the same checks before
they write, so both start with `SendGrade`. The statuses queued and running are
one ("grading"), pausing is left out because no review operation reads it, and a
suggestion is kept for the current round only. `Entered` are the grades teachers
send; `Grades` also has some the validators must refuse and some on which they
differ.

On what they differ, `ValidatorsAgree` says exactly (`WrittenLike`). A score like
`2E+0`, `-0` or `2.00000` passes the backend, whose limits on digits ignore zeros
at the end, and is refused by the pattern of the database. A grade without a
change reason that repeats the suggestion as `2.0` for `2`, or with its evidence
in another order, is unchanged to the backend and changed to the database, which
then asks for the reason the backend did not.

### Rubrics and providers: `RubricRules`, `RubricDesk`

`RubricRules` holds the contract of a rubric (`StructuredRubric`, `MadeFor`), the
constraint function `valid_structured_rubric` of the database, and what a
provider's answer must be for a generation or a connection test. `RubricShapes`
and `FormShapes` give the fields their types, and `SettingsAssumption` says that a
provider row is created with all its fields and that models have names.

| Variable | Code |
|---|---|
| `provider` | the `provider_configs` row: status, connection, `config_version`, tested version |
| `limits` | its fields that decide no call: name, `max_concurrency`, `monthly_budget` |
| `assignment`, `versions` | the assignment's status and its `rubric_versions` |
| `desk` | what a request holds between its read and its write |
| `answered` | history: the connection the recorded test was made with |

| Actions | Code |
|---|---|
| `ReadForUpdate`, `UpdateProvider` | `update` of the provider service and the invalidation trigger |
| `ReadForTest`, `MarkTested`, `EnableProvider`, `DisableProvider` | connection test around its network call; the two switches |
| `CreateRubricDraft`, `ReadForGeneration`, `SaveGenerated`, `ReadForEdit`, `SaveEdited`, `ReadForConfirm`, `ConfirmRubric` | `RubricService` and its repository |
| `Archive`, `Restore` | the assignment's status |
| `RequestFails` | a refused answer, a changed row, a lost connection |

A desk is one request. The read steps carry the service's early checks, the write
steps the repository's checks under row locks. `ConfirmSteps` lists the flushes
of a confirmation in their order, because triggers and unique indexes see each of
them. An update writes the whole row it merged, but only the connection moves
`config_version`, so `limits` is not protected by it. The guard against active
batches is in `GradingPipeline`.

### Papers: `Accounts`, `DocumentRules`, `PaperUploads`

`Accounts` has the profile and the Auth user of each person: `Bootstrap`,
`promote_invited_to_admin`, `InviteTeacher`, `SignIn`, `CompleteInvite`, and
disabling and enabling as the two steps they are in two systems, either of which
may fail (`RequestFails`) or stay without an answer (`Unanswered`), in which case
Auth may carry it out at any later time (`LateCall`). Any number of requests may
be under way; `overlapped` remembers the teachers whose latest ones overlapped,
an unanswered call counting until it was carried out or dropped.

`DocumentRules` holds staging (`detect_media_type`, `stage_upload_file`) and the
parsers (`parse_docx`, `parse_pdf`) with their limits. A text is a sequence of
character kinds (visible, space, control), because `normalize_text` and the
limits tell only these apart; the codes of refusals are one `FALSE`. What a parser
may return is a set, because `parse_docx` tells cells apart by `id()` of objects
that stand for them only while something holds them: within a row they are told
apart, but a cell of a later row may get the address of one that was read and be
passed over, and a cell that spans rows may be met under a new address and read
again (`CellsRead`). The check for other structures of the body (`docx.py:208`)
never fails, because `iter_inner_content` yields only paragraphs and tables, and
notes are in parts nobody opens: both are simply not read. `paragraph.text` is the
library's.

| Variable | Code |
|---|---|
| `assignment` | whether the assignment accepts uploads |
| `papers` | the row of each paper, its file, whether its source is stored, and the text that is |
| `upload` | where each request is |
| `deleting` | papers whose text a delete that was not answered may still remove |
| `abandoned` | history: unfinished papers whose upload ended without a word |
| `released` | history: papers that could be taken over before a clean-up |

| Actions | Code |
|---|---|
| `Reserve`, `Reset` | staging, `reserve_submission`, the duplicate answer; the transition of a failed row back to uploaded |
| `StoreSource`, `BeginParsing`, `Parse`, `WriteText`, `Finish` | `upload_submission` from the source object to ready |
| `mark_failed`, `delete_after_failure` | the two parts of the failure path in the code's order |
| `Cancel`, `Crash` | a cancelled request at each await; the end of the process |
| `DeleteLands` | the storage carries out a delete nobody waits for (external) |
| `ConfirmRubric` | the assignment becomes ready |

Every write of a row needs an active owner (row level security); a teacher
disabled in the middle leaves the row as it is. A request cancelled while it
reserves or resets its row leaves it unfinished, although `_mark_cancelled`
(`submissions/service.py:177`) says that a cancellation never does: its handler
begins only after these two steps. In the model that is a `Crash`. Deletes may land
late; a put that timed out may have been made or not, but is not made later.
`FilesAssumption` keeps "no file" apart from the files.

### Storage: `StorageQuota`, `RetentionSweep`

| Variable | Code |
|---|---|
| `stored`, `late` | the bucket; writes it may still carry out although nobody waits for them |
| `reservation` | `quota_reservations` by key |
| `writer` | where each write is; while it reserves, the usage it has read |
| `slipped` | history: the objects the last admitted reservation overlooked |
| `retention` | `retention_objects`: status and claim |
| `held`, `detached` | keys on hold or not due; candidates no record refers to |
| `sweep` | where each run of the sweep is |
| `faults` | faults of sweeps so far, up to `MaxFaults` |

| Actions | Code |
|---|---|
| `reserve_storage_growth`, `DecideGrowth`, `Write`, `finalize_storage_growth`, `WriterStops`, `CompensatingDelete` | the quota functions of 0018 and `SupabaseObjectStorage` around them |
| `Land`, `LeaseExpires`, `ClaimExpires`, `RetryDue` | the store and time (external) |
| `claim_next`, `revalidate_claim`, `Delete`, `complete_claim`, `fail_claim`, `SweepDies` | `run_once` and its repository |
| `Register`, `Hold`, `Lift` | operators' statements on `retention_objects` (external: no code in the repository runs them) |

The quota is switched on. A key has one content, so it has one reservation row.
A reservation is one transaction under an advisory lock, but at READ COMMITTED:
it reads the bucket in one statement (0018, lines 684-698) and sums the reservations
in a later one (722-738), and neither the store's writes nor
`finalize_storage_growth` ask for the lock. So it is two actions, and whatever
lands and is settled between them is in neither sum (`Overlooked`).

Candidates are registered once no write of them is under way or may land, and are
written no more: `Register` and `Active` are the operators' rule that an object may
be cleaned up only after its processing has ended
(`docs/STAGE13_ACCEPTANCE.md:17`). `revalidate_retention_object` does not enforce
it: the paper of a candidate may have failed and be uploaded again.

Leases and pauses are flags that may flip at any time. A run that a hold reaches
between its second look and its deletion deletes the object: the code does not
fence this, and no property says otherwise. `SweepsAssumption` keeps "nobody" apart
from the runs.

## 4. Runs

| Run | Instance | What it shows |
|---|---|---|
| `late_workers` | 2 workers, 1 paper, 2 rounds | late answers and expiries never disturb leases, repeat a call in doubt or rewrite history; the pipeline implements `PaperLifecycle` |
| `single_worker` | 1 worker, all outcomes, 2 rounds | one correction per round, truthful attempt kinds, stored answers, at most `MaxProviderRetries + 2` calls in a round |
| `two_batches` | 2 batches of 1 paper, 2 workers, limit 1 | the provider limit holds across batches; a cancelled batch is quiet |
| `progress` | 1 worker, 2 papers, fairness | every paper settles despite losses; batch status and papers agree; `PaperLifecycle` is implemented with two papers too |
| `rubric_replaced` | 1 worker, fairness | violation, see findings |
| `exports` | 1 export, 3 processes, all faults, fairness | a completed export has its workbook, ends once, late processes decide nothing; without faults every export settles |
| `reviews` | 2 papers, 2 requests, 2 rounds, 1 export | what is confirmed was asked for, stays, is worth its score and is what exports show; the triggers agree with the backend, and the two validators but for how decimals and evidence are written |
| `review_race` | 1 paper, 2 requests | violation, see findings |
| `rubrics` | 2 requests, 3 configuration and 3 rubric versions | an enabled provider is the tested one, nothing is written from a stale read, a confirmed rubric is final and gradable, no flush is refused |
| `uploads` | 2 people, 1 account request at a time, 2 uploads of 1 paper, 11 files, late deletes, fairness | an unfinished paper has an owner and settles, a ready one has its objects and a text whose blocks are what their locators point at, accounts and sign-in agree |
| `lost_text` | the same | violation, see findings |
| `storage` | 2 keys, 2 writers, 2 sweeps, 1 fault, fairness | bytes stay below the limit but for what the last reservation overlooked, deleted is gone, candidates are settled |

The type invariant of `ExportTasks` is part of its run; those of the other modules
(`TypeOK` of `GradingPipeline`, `PaperUploads` and `RetentionSweep`, `ReviewTypeOK`,
`DeskTypeOK`) are conjuncts of the inductive invariants of section 5 and proved.
The inductive invariants themselves were model-checked on the instances above
before they were proved.

### Bounds

Grading: two workers are the least that race for one paper, and a third adds no
new kind of step because a paper has one lease; two rounds are the least in which
an answer of an old round meets a new one; two papers are the least in which a
batch is partly settled. `MaxRounds` cuts manual re-gradings off in the guard of
`RetryItem`. `DispatchLimit` is the code's 500, never reached.
`MaxProviderRetries` is the code's 2 where retries matter and less elsewhere. Two
outcomes that lead to the same rows are not both given to the larger runs;
`single_worker` has all eight. `CallBudget` is reached. Symmetry is on workers
only, and not used in liveness runs.

Exports share no state, so one is enough; three processes allow one that holds the
lease, one that lost it and one that will take it. `MaxClaims` is the code's 3,
`MaxSoftTimeouts` its 2.

Reviews: the batch confirmation needs two papers to be partly stale, and two
requests to race. The rubric has two dimensions (maximum 2, step 2) and a
deduction of 3, so that a total can fall below zero. `MaxRevision` is 2, which
lets every draft be saved over once or be followed by one of the next round.

Rubrics: three configurations let an update pass between the read and the write of
another and be followed by a test; three versions have one superseded, one
confirmed and one draft. Of the six rubrics two are valid and four each break one
rule (bands that overlap, worth too much, another total, a deduction named twice).

Uploads: papers share only the accounts, so one is enough, and two uploads are
the least in which one takes over what the other failed. The files stand at and
one past each limit, with blank pieces, cells merged within a row and across rows,
notes and content the parsers refuse; the limits themselves are scaled down
together. One account request at a time keeps the accounts small beside the
uploads; `Accounts.cfg` checks the same properties of the accounts alone with three
requests at once, the least in which two overlap while a call of a third is late.

Storage: below the limit of 3 there is room for the object of size 1 or for the one
of size 2 but not for both, so every overlap of two writes meets the limit; a third
key that fits beside another adds no new order of steps, and the theorem has any
number. One retained key and two sweeps, because sweeps meet only on a key.
`MaxFaults` bounds the lost answers, deaths and overrun leases of sweeps to one;
the first run can fail anywhere and the second must then finish.

### Fairness

Celery beat runs the scan and the expiry task every 30 seconds (weak fairness); a
provider call has a timeout, and finishing follows it (weak); preparing and
claiming are strongly fair because a message may be lost or a worker may die any
number of times, but not for ever at the same step. Nothing is assumed of
teachers or administrators. `EveryPaperSettles` exempts papers whose batch is
paused or cancelled or whose inputs were replaced. That preparing is strongly fair
also assumes that a paper's inputs can be read in the end: a paper whose text is
gone (`lost_text`) is never prepared.

For exports, time passes and a running task takes its next step or ends at its
limit (weak); a message in the queue is tried again and again, although it may be
refused in between, so claiming and giving up are strongly fair. `ExportSettles`
is about behaviours whose `faults` are none: no scan looks for queued exports
whose message was lost, a refused reservation is a finding, and a lease of 600
seconds outlives a hard limit of 570.

Uploads: every await of a request has a time limit, so its next step is taken
(weak); no request is assumed to arrive. `UploadsSettle` exempts the papers in
`abandoned`: nothing in the code picks them up again, and a second upload is
answered as a duplicate.

Retention: a run that has claimed an object takes its next step, and leases and
pauses end (weak). Nothing in the repository starts runs by itself, so
`RetentionEnds` carries the assumption `RunsKeepStarting` on whoever does.

`uploads`, `reviews` and `exports` may stop: all requests may have been answered.
These are the configurations without deadlock check.

### Findings

- `rubric_replaced`: confirming a new rubric version leaves unfinished papers of
  existing batches unpreparable for ever.
- `review_race`: of two requests that confirm one paper with different grades the
  later is answered with success although the other grade was confirmed
  (`reviews/repository.py:591`); the service refuses this only when the paper was
  completed before its earlier read.
- `lost_text`: the clean-up of an upload deletes the text of a paper that is ready
  (`submissions/service.py:281`): when only the answer to the last transaction was
  lost, or when another upload took over a row that was marked failed before its
  text was deleted.

Seven more are reproduced by configurations of their own, each with one property
that TLC finds violated:

- `CancelWhileRunning.cfg` (`MCGradingPipeline`, `CancelledBatchDrains`): a
  retryable error after a cancellation puts the paper back into the queue of a
  cancelled batch, where nothing will ever take it out;
  `docs/STAGE10_ACCEPTANCE.md:688` expects such a paper to end in `needs_review`
  or `failed`.
- `StalePreparation.cfg` (`MCGradingPipeline`, `OneCorrectionPerRound`): with two
  workers a preparation made before a rejected output leads to a second initial
  call and a second correction, against `docs/STAGE10_ACCEPTANCE.md:842`. The
  deployed supervisor runs one grading process, for which the property holds.
- `ProviderUpdateRace.cfg` (`MCGradingPipeline`, `ActiveBatchKeepsProvider`): a
  manual retry between the guard trigger (0012, line 524: "provider configuration
  has active grading jobs") and the commit of a provider update leaves an active
  batch whose configuration is gone.
- `ExportQuota.cfg` (`MCExportTasks`, `ExportAlwaysSettles`): a storage reservation
  that is blocked or unavailable raises an error that neither the runner nor the
  task handles; the export stays running for ever, against `CONTEXT.md:12` and
  `docs/STAGE12_ACCEPTANCE.md:352`.
- `QuotaRace.cfg` (`MCRetentionSweep`, `BytesWithinLimit`): an object lands and its
  reservation is committed between the statement of another reservation that reads
  the bucket and the one that sums the reservations; neither sum has it, and both
  objects are admitted although together they pass the limit, against
  `docs/STAGE13_ACCEPTANCE.md:226` ("两个并发 Storage 写入不能同时越过硬限制").
- `SilentLoss.cfg` (`MCPaperUploads`, `NothingIsLost`): a file whose cells were
  passed over because of a used-again address, or that has notes or other elements
  in its body, becomes ready without that text, against
  `docs/STAGE7_ACCEPTANCE.md:18` ("不会静默丢文").
- `SettingsLost.cfg` (`MCRubricDesk`, `UpdatesKeepTheRest`): two updates of a
  provider that both read the same row both succeed when neither changes the
  connection, and the later one writes back the name, concurrency or budget the
  earlier one had set; `providers/config.py:508` means to refuse this with
  "更新期间供应商配置已变化".

Known limits the models make visible and no document denies: the last save of a
draft wins, for reviews as for rubrics; the committed reservation of a deleted
object keeps counting, so deleting never makes room; a disable and an enable of
one teacher that overlap can leave an active profile with a banned user, until a
request that has the account to itself.

## 5. Proofs

Every safety property of the passing runs is a theorem, for every value of the
constants that the named assumptions allow, except `ReadyTextIsFaithful`, which is
about what folds over the content of files compute. Two theorems have a hypothesis
of their own, which is the condition under which the code has the property:
`OneCorrection` and `KindsAreTrue` one worker process (`StalePreparation.cfg` is
the counterexample with two).

The argument has the same shape everywhere. None of the properties is inductive
alone; an invariant of one row (or paper, key, request) is found, every action is
shown to be one of a few kinds of step for that row, and each kind preserves the
invariant.

### Grading

`GradingPipelineProofs` (assumptions `PipelineAssumption`, `FiniteAssumption`):
`TypeCorrect`, `LeaseIsExclusive`, `NoRepeatInDoubt`, `HistoryImmutable`,
`CancelIsFinal`. `PipelineInv` adds to the types `HistoryOrdered` (rounds do not
decrease, call numbers grow within a round; this is also why the maximum
`claim_attempt` computes exists), `NoDoubtInQueue` (a paper that may be called has
no doubtful call in its current round; this is what makes the next claim safe) and
`BornTogether` (a paper has no history before its batch). `PaperStepOfNext` shows
that every action is, for each paper, one of six kinds of step (kept, opened,
ended, regraded, claimed, returned).

`GradingRefinementProofs`: `PipelineImplementsLifecycle`, step by step from these
kinds. It takes one more fact, `NoGradeInQueue`: a paper that waits or is being
called has no grade of its current round, or it would look graded to the teacher
while a call runs. The proof is what showed that a single expiry task can end the
calls of several papers at once.

`GradingBatchProofs` (with `BatchAssumption`): `BatchStatusAgrees` is inductive
over the batches (`BatchOf`); `AnswersCanBeRead` needs that a worker which holds an
answer has stored it (`AnswersStored`); `CallsAtOnceBounded` counts the running
attempts before and after a claim; `CallsOfARoundBounded` bounds the call number of
a round by the retries and by the workers still holding a preparation made before
the correction was asked for (`BudgetOf`, `Stale`): each of those can spend one
more call, and spends its preparation with it. `OneCorrection` and `KindsAreTrue`
rest on `SoloInv`: with one worker a preparation is never older than the history
it will be written to (`FreshOf`).

### Exports

`ExportTasksProofs` (assumption `ExportAssumption`): `ExportTypes`,
`DownloadsWork`, `SettledForGood` and `LeaseDecides`. The invariant `ExportInv`
adds to the types `RowsConsistent` (an unclaimed row has no claims, only a running
row has an expired lease), `StoredIsThere` (a process about to complete has its
workbook in storage unless the export failed) and `RemoversFailed` (who is about to
remove a workbook has failed its export). The last two meet in the removal: it can
take the workbook from under a late process, but only of an export that has failed
and therefore will not be completed any more.

### Reviews

`TeacherReviewProofs` (assumption `ReviewAssumption`). About the rules, for any
grade, suggestion and rubric: `TotalIsWorth` (the total counts each applied
deduction of the rubric once and never falls below zero), `StoredScoreInRange` and
`AcceptedPassesDatabase` (of what the Python validator accepts the PL/pgSQL one
accepts exactly what satisfies `WrittenLike`).
About the review: `ReviewTypesHold`, `CompletedIsConfirmed`, `ExportsStayTrue`,
`StoredScoresAreRight`, `ValidatorsDoAgree`, `ConfirmedStaysFinal`,
`HistoryTriggersAccept`, `RequestsHonoured`. `PaperInv` says of one paper and its
rows: no row for a round to come, revisions rise from round to round, every row
was accepted by the database over some suggestion and has the score of its grade,
and the row of the current round alone is confirmed when the paper is completed.
`Remembered` is what makes a batch confirmation safe: what a request read is of an
earlier round or revision, or still shows the grade that is stored, and no step
makes this false because a revision is never used twice in a round.

### Rubrics and providers

`RubricDeskProofs` (assumptions `DeskAssumption`, `SettingsAssumption`). About the
rules, for any rubric and form: `StorableIsGradable` (the bands the database
accepts give every reachable score exactly one band) and `AcceptedIsStorable` (the
backend's contract is at least the database's). About the desk: `DeskTypesHold`,
`EnabledWasTested`, `OneInForce`, `StoredIsGradable`, `ConfirmedStays`,
`StaleReadsRefused`, `DatabaseAccepts`. `DeskInv` relates what a request read to
the row it will write: with the same `config_version` the connection is the same,
but for the fields an update is about to set (`Fresh`); versions are ordered
superseded, confirmed, draft (`Ordered`), which is why each flush of a
confirmation passes the unique indexes.

### Papers and accounts

`PaperUploadsProofs` (assumptions `AccountsAssumption`, `UploadsAssumption`,
`FilesAssumption`): `AdministratorIsFinal`, `OpenMeansNotBanned`,
`UploadTypesHold`, `NoOrphanedRow`, `ReadyHasObjects`, `ReadyWasParsed`.
`BanInv` says of a teacher whose latest requests did not overlap that there is at
most one request about them, an unanswered one included; that is why a profile
about to open is not banned again. `ReadyWasParsed` (`ReadyTextWasParsed`) assumes
nothing of the parsers: the text of a ready paper is one of the results the parser
may have for the file staged for that paper, although several uploads share its
row. What these results are worth is checked by `uploads`. `UploadInv` says which place of a request holds a row in which status (`Holder`,
`Owned`), that a row not yet released has one busy request (`Lone`), that the
source precedes parsing and the text precedes ready (`Sourced`, `Texted`), that a
delete which may land late belongs to a row no request will finish before it is
released (`Late`), and that only what the parser made of the row's file is written
(`Parsed`).

### Storage

`RetentionSweepProofs` (assumptions `QuotaAssumption`, `RetentionAssumption`,
`SweepsAssumption`): `SweepTypesHold`, `QuotaIsKept`, `DeletedIsGone`. `QuotaInv`:
whatever is stored, being written or may land late has a reservation, and the
reservations stay below the limit without those the last admitted one overlooked;
the next one that is admitted has them in one of its sums, which is why `slipped`
remembers only the last. `SweepInv` adds that a key known to retention
has no writer and no late write (`Quiet`), so that a deletion that was seen to be
done stays done.

### Folds

Totals, bands and sizes are folds, and induction over data is out of the prover's
reach. Where a theorem needs what a fold computes, it is derived from a smallest
counterexample instead: a set of subsets of a finite set has a minimal member
(`SmallestExists`) and a set of numbers a least one (`SmallestNumber`), both from
the library's facts on finite sets and well-founded orders, and the sum of a
smallest set that differs contradicts the sum without its first element.

### Only model-checked

Liveness (`EveryPaperSettles`, `ExportSettles`, `UploadsSettle`, `RetentionEnds`),
which is out of the prover's reach. What `DocumentRules` computes: its parsers are
nested folds over sequences, compared with reference definitions on the files of
`uploads`. The properties of the configurations that expect a violation.

## 6. Not modelled

Process supervision (signals, child restarts), HTTP routing and schemas, token
verification and encryption of keys, the frontend, the backup script and the
deployment scripts have no concurrent state of their own here. The byte formats
behind the parsers, the wire formats and URL policy of the adapters and the
layout of workbooks are I/O and formatting. Lists, previews and download links
are reads. Alerts and the read-only check of the database size change nothing
the other parts depend on. The administrator's later change of `max_concurrency`
and a scan that reaches its limit are in the plan.
