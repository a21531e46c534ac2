------------------------------ MODULE RubricDesk ------------------------------
(***************************************************************************)
(* An assignment with its rubric versions and the provider that structures *)
(* them: the administrator changes, tests, enables and disables the        *)
(* provider while teachers generate, edit and confirm rubrics with it.  A  *)
(* desk is one request: what it read in one transaction and uses, after a  *)
(* call of the provider or not, in the next.                               *)
(***************************************************************************)
EXTENDS RubricRules, TLC

CONSTANTS
  Desks,         \* concurrent requests of administrator and teacher
  Created,       \* settings a provider row may be created with
  Patches,       \* fields the administrator may send to change some of them
  ModelLists,    \* answers of the model list interface
  Completions,   \* answers to a generation; they name the rubric they contain
  Rubrics,       \* names of structured rubrics
  Content(_),    \* the rubric a name stands for
  Forms,         \* total and step teachers ask for
  MaxConfig,     \* bound: versions of the provider configuration
  MaxVersions    \* bound: rubric versions of the assignment

None == "none"

ASSUME DeskAssumption ==
  /\ IsFiniteSet(Desks)
  /\ MaxConfig \in Nat \ {0} /\ MaxVersions \in Nat \ {0}
  /\ None \notin Rubrics
  /\ \A f \in Forms : f \in FormShapes /\ validate_score_range(f)
  /\ \A r \in Rubrics : Content(r) \in RubricShapes
  /\ \A a \in Completions : a.rubric \in Rubrics

VARIABLES
  provider,    \* the provider_configs row, as far as it decides the calls
  limits,      \* its name, max_concurrency and monthly_budget
  assignment,  \* assignments.status
  versions,    \* rubric_versions of the assignment, by version
  desk,        \* what each request holds between its transactions
  answered     \* history: the settings the recorded test was made with, if any

deskVars == <<provider, limits, assignment, versions, desk, answered>>

-----------------------------------------------------------------------------
(* State                                                                   *)

(* The part of a provider row that decides which calls are made: the       *)
(* endpoint (type, URL, key, timeout), the allowed models, the default     *)
(* model and the models with a capability profile.                         *)
SettingFields == {"endpoint", "allowed", "default", "profiles"}

(* A row is created with all of them, and models have names.               *)
ModelNames == STRING \ {None}
ASSUME SettingsAssumption ==
  /\ \A c \in Created : DOMAIN c = SettingFields /\ c.default \in ModelNames
  /\ \A p \in Patches : "default" \in DOMAIN p => p.default \in ModelNames

(* Default model and profiles are among the allowed models.                *)
validate_settings(c) == c.default \in c.allowed /\ c.profiles \subseteq c.allowed

(* An update takes the fields it is sent and keeps the others as read; the *)
(* fields that decide no call are one here.                                *)
Merged(row, patch) ==
  [f \in SettingFields |-> IF f \in DOMAIN patch THEN patch[f] ELSE row[f]]
MergedLimits(patch) == IF "limits" \in DOMAIN patch THEN patch.limits ELSE limits

Free == [pc |-> "free"]
Version == [status : {"draft", "confirmed", "superseded"}, form : Forms,
            model : ModelNames \cup {None}, rubric : Rubrics \cup {None}]
NewDraft(form) == [status |-> "draft", form |-> form, model |-> None, rubric |-> None]

(* Every variable keeps its type; limits are whatever they are changed to. *)
DeskTypeOK ==
  /\ provider \in [status : {"draft", "enabled", "disabled"},
                   config : 1..MaxConfig, tested : 0..MaxConfig,
                   connection : {provider.connection}]
  /\ DOMAIN provider.connection = SettingFields
  /\ assignment \in {"draft", "ready", "archived"}
  /\ Len(versions) \in 1..MaxVersions
  /\ \A v \in DOMAIN versions : versions[v] \in Version
  /\ \A c \in answered : DOMAIN c = SettingFields
  /\ \A d \in Desks :
       \/ desk[d] = Free
       \/ /\ desk[d].pc \in {"testing", "updating", "generating"}
          /\ desk[d].config \in 1..MaxConfig
          /\ DOMAIN desk[d].connection = SettingFields
       \/ desk[d].pc \in {"editing", "confirming"} /\ desk[d].version \in 1..MaxVersions

(* ProviderConfigService.create.                                           *)
NewProvider(c) ==
  /\ validate_settings(c)
  /\ provider = [status |-> "draft", config |-> 1, tested |-> 0, connection |-> c]

(* create_assignment, with its first draft.                                *)
NewAssignment(form) == assignment = "draft" /\ versions = <<NewDraft(form)>>

DeskInit ==
  /\ \E c \in Created : NewProvider(c)
  /\ \E form \in Forms : NewAssignment(form)
  /\ limits = "as created"
  /\ desk = [d \in Desks |-> Free]
  /\ answered = {}

(* Versions of the assignment in a status.                                 *)
In(status, rows) == {v \in DOMAIN rows : rows[v].status = status}
Drafts == In("draft", versions)

-----------------------------------------------------------------------------
(* The administrator                                                       *)

(* paper_grading_invalidate_provider_test: a changed connection is a new   *)
(* version, untested and not enabled.                                      *)
Invalidated(row, connection) ==
  IF connection = row.connection THEN row
  ELSE [status |-> "draft", config |-> row.config + 1, tested |-> 0,
        connection |-> connection]

(* update reads the row and fills in what the administrator did not send.  *)
(* While batches are active a change also fails, as in GradingPipeline;    *)
(* here there are none.                                                    *)
ReadForUpdate(d, patch) ==
  /\ desk[d] = Free /\ validate_settings(Merged(provider.connection, patch))
  /\ desk' = [desk EXCEPT ![d] = [pc |-> "updating", config |-> provider.config,
                                  patch |-> DOMAIN patch,
                                  connection |-> Merged(provider.connection, patch),
                                  limits |-> MergedLimits(patch)]]
  /\ UNCHANGED <<provider, assignment, versions, answered>>

(* Mutant: the version that was read is not compared.                      *)
UnchangedAnyVersion(d) == TRUE

(* The WHERE clause of update: only the connection moves the version.      *)
UnchangedSinceRead(d) == provider.config = desk[d].config

UpdateProvider(d) ==
  /\ desk[d].pc = "updating" /\ UnchangedSinceRead(d)
  /\ Invalidated(provider, desk[d].connection).config <= MaxConfig
  /\ provider' = Invalidated(provider, desk[d].connection)
  /\ limits' = desk[d].limits
  /\ answered' = IF provider'.tested = 0 THEN {} ELSE answered
  /\ desk' = [desk EXCEPT ![d] = Free]
  /\ UNCHANGED <<assignment, versions>>

(* test_connection reads the row and calls the provider with it.           *)
ReadForTest(d) ==
  /\ desk[d] = Free
  /\ desk' = [desk EXCEPT ![d] = [pc |-> "testing", config |-> provider.config,
                                  connection |-> provider.connection]]
  /\ UNCHANGED <<provider, assignment, versions, answered>>

(* Mutant: the result is recorded for whatever version there is by then.   *)
MarkTestedAnyVersion(d, answer) ==
  /\ desk[d].pc = "testing"
  /\ connection_test(answer, desk[d].connection.default)
  /\ provider' = [provider EXCEPT !.tested = provider.config]
  /\ answered' = {desk[d].connection}
  /\ desk' = [desk EXCEPT ![d] = Free]
  /\ UNCHANGED <<assignment, versions>>

(* The call succeeded; mark_tested finds the version it was made with.     *)
MarkTested(d, answer) ==
  /\ desk[d].pc = "testing"
  /\ connection_test(answer, desk[d].connection.default)
  /\ provider.config = desk[d].config
  /\ provider' = [provider EXCEPT !.tested = provider.config]
  /\ answered' = {desk[d].connection}
  /\ desk' = [desk EXCEPT ![d] = Free]
  /\ UNCHANGED <<assignment, versions>>

Tested == provider.tested = provider.config

EnableProvider ==
  /\ Tested /\ provider.connection.default \in provider.connection.profiles
  /\ provider' = [provider EXCEPT !.status = "enabled"]
  /\ UNCHANGED <<assignment, versions, desk, answered>>

DisableProvider ==
  /\ provider.status = "enabled"
  /\ provider' = [provider EXCEPT !.status = "disabled"]
  /\ UNCHANGED <<assignment, versions, desk, answered>>

(* What generation and confirmation ask of the provider.                   *)
Usable == provider.status = "enabled" /\ Tested

-----------------------------------------------------------------------------
(* The assignment                                                          *)

(* update_assignment_status 'archive' and 'restore'; the service's earlier *)
(* read only refuses more.                                                 *)
Archive ==
  /\ assignment # "archived"
  /\ assignment' = "archived"
  /\ UNCHANGED <<provider, versions, desk, answered>>

(* Mutant: a restored assignment is always ready.                          *)
RestoreReady ==
  /\ assignment = "archived"
  /\ assignment' = "ready"
  /\ UNCHANGED <<provider, versions, desk, answered>>

Restore ==
  /\ assignment = "archived"
  /\ assignment' = IF In("confirmed", versions) # {} THEN "ready" ELSE "draft"
  /\ UNCHANGED <<provider, versions, desk, answered>>

(* create_rubric_draft, under a lock of the assignment.                    *)
CreateRubricDraft(form) ==
  /\ assignment # "archived" /\ Drafts = {}
  /\ Len(versions) < MaxVersions
  /\ versions' = Append(versions, NewDraft(form))
  /\ UNCHANGED <<provider, assignment, desk, answered>>

-----------------------------------------------------------------------------
(* Generating, editing and confirming a rubric                             *)

(* Mutant: the version need not be a draft any more.                       *)
WritableAnyStatus(v) == assignment # "archived"

(* The row is still a draft of an assignment in use, under row locks.      *)
Writable(v) == assignment # "archived" /\ versions[v].status = "draft"

(* structure_rubric reads the assignment, the version and the provider,    *)
(* and calls the provider.                                                 *)
ReadForGeneration(d, v) ==
  /\ desk[d] = Free /\ Writable(v) /\ Usable
  /\ desk' = [desk EXCEPT ![d] = [pc |-> "generating", version |-> v,
                                  config |-> provider.config,
                                  connection |-> provider.connection]]
  /\ UNCHANGED <<provider, assignment, versions, answered>>

(* What the backend accepts as rubric of a form, and what the database     *)
(* stores.                                                                 *)
Acceptable(form) ==
  {r \in Rubrics : StructuredRubric(Content(r)) /\ MadeFor(Content(r), form)}
AcceptableFor == [form \in Forms |-> Acceptable(form)]
Storable(form) == {r \in Rubrics : valid_structured_rubric(Content(r), form)}
StorableFor == [form \in Forms |-> Storable(form)]

(* save_generated_rubric finds the provider as it was read.                *)
SameProvider(d) ==
  /\ Usable /\ provider.config = desk[d].config
  /\ provider.connection.default = desk[d].connection.default

(* The answer replaces what the draft contains.                            *)
SaveGenerated(d, answer) ==
  LET v == desk[d].version
      model == desk[d].connection.default IN
  /\ desk[d].pc = "generating"
  /\ extract_structured_rubric(answer, Content(answer.rubric), model, versions[v].form)
  /\ answer.rubric \in StorableFor[versions[v].form]
  /\ SameProvider(d) /\ Writable(v)
  /\ versions' = [versions EXCEPT ![v].model = model, ![v].rubric = answer.rubric]
  /\ desk' = [desk EXCEPT ![d] = Free]
  /\ UNCHANGED <<provider, assignment, answered>>

(* update_structured_rubric reads the version and compares the form.       *)
ReadForEdit(d, v, r) ==
  /\ desk[d] = Free /\ Writable(v) /\ versions[v].model # None
  /\ r \in AcceptableFor[versions[v].form]
  /\ desk' = [desk EXCEPT ![d] = [pc |-> "editing", version |-> v, rubric |-> r]]
  /\ UNCHANGED <<provider, assignment, versions, answered>>

SaveEdited(d) ==
  LET v == desk[d].version IN
  /\ desk[d].pc = "editing" /\ Writable(v) /\ versions[v].model # None
  /\ desk[d].rubric \in StorableFor[versions[v].form]
  /\ versions' = [versions EXCEPT ![v].rubric = desk[d].rubric]
  /\ desk' = [desk EXCEPT ![d] = Free]
  /\ UNCHANGED <<provider, assignment, answered>>

(* confirm_rubric reads the version; what is confirmed already needs no    *)
(* second step.                                                            *)
ReadForConfirm(d, v) ==
  /\ desk[d] = Free /\ Writable(v) /\ versions[v].rubric # None
  /\ desk' = [desk EXCEPT ![d] = [pc |-> "confirming", version |-> v,
                                  model |-> versions[v].model]]
  /\ UNCHANGED <<provider, assignment, versions, answered>>

(* The versions with another status in S.                                  *)
WithStatus(rows, S, status) ==
  [v \in DOMAIN rows |-> IF v \in S THEN [rows[v] EXCEPT !.status = status] ELSE rows[v]]

(* Mutant: the new version is confirmed before the old one is superseded.  *)
ConfirmStepsSwapped(v) ==
  LET new == WithStatus(versions, {v}, "confirmed")
      both == WithStatus(new, In("confirmed", versions), "superseded") IN
  << <<assignment, versions>>, <<"draft", versions>>, <<"draft", new>>,
     <<"draft", both>>, <<"ready", both>> >>

(* The states of assignment and versions between the flushes of the        *)
(* confirming transaction.                                                 *)
ConfirmSteps(v) ==
  LET old == WithStatus(versions, In("confirmed", versions), "superseded")
      both == WithStatus(old, {v}, "confirmed") IN
  << <<assignment, versions>>, <<"draft", versions>>, <<"draft", old>>,
     <<"draft", both>>, <<"ready", both>> >>

(* confirm_rubric: the provider still offers the model; nothing compares   *)
(* the content with what the teacher saw.                                  *)
ConfirmRubric(d) ==
  LET v == desk[d].version IN
  /\ desk[d].pc = "confirming" /\ Writable(v)
  /\ Usable /\ provider.connection.default = desk[d].model
  /\ versions[v].model = desk[d].model /\ versions[v].rubric # None
  /\ assignment' = Last(ConfirmSteps(v))[1]
  /\ versions' = Last(ConfirmSteps(v))[2]
  /\ desk' = [desk EXCEPT ![d] = Free]
  /\ UNCHANGED <<provider, answered>>

(* The provider's answer is refused or does not come, a row has changed    *)
(* meanwhile, or the connection is lost: nothing is written.               *)
RequestFails(d) ==
  /\ desk[d] # Free
  /\ desk' = [desk EXCEPT ![d] = Free]
  /\ UNCHANGED <<provider, assignment, versions, answered>>

-----------------------------------------------------------------------------
DeskStep(d) ==
  \/ \E patch \in Patches : ReadForUpdate(d, patch)
  \/ ReadForTest(d)
  \/ \E a \in ModelLists : MarkTested(d, a)
  \/ \E v \in DOMAIN versions : \/ ReadForGeneration(d, v)
                                \/ ReadForConfirm(d, v)
                                \/ \E r \in Rubrics : ReadForEdit(d, v, r)
  \/ \E a \in Completions : SaveGenerated(d, a)
  \/ SaveEdited(d) \/ ConfirmRubric(d) \/ RequestFails(d)

DeskNext ==
  \/ \E d \in Desks : UpdateProvider(d)
  \/ /\ \/ \E d \in Desks : DeskStep(d)
        \/ EnableProvider \/ DisableProvider
        \/ Archive \/ Restore \/ \E form \in Forms : CreateRubricDraft(form)
     /\ UNCHANGED limits

DeskSpec == DeskInit /\ [][DeskNext]_deskVars

-----------------------------------------------------------------------------
(* Properties                                                              *)

(* An assignment is ready only with a confirmed rubric; there is never a   *)
(* second confirmed version nor a second draft, the confirmed version is   *)
(* newer than every superseded and older than the draft.                   *)
OneRubricInForce ==
  /\ assignment = "ready" => In("confirmed", versions) # {}
  /\ \A v, w \in DOMAIN versions : v < w =>
       <<versions[v].status, versions[w].status>> \in
         {"superseded"} \X {"superseded", "confirmed", "draft"}
         \cup {<<"confirmed", "draft">>}

(* A confirmed rubric is final: no generation, edit or confirmation that   *)
(* was under way changes what papers are graded by.                        *)
ConfirmedRubricIsFinal ==
  [][\A v \in DOMAIN versions : versions[v].status # "draft" =>
       /\ versions'[v].status # "draft"
       /\ [versions'[v] EXCEPT !.status = versions[v].status] = versions[v]]_deskVars

(* An enabled provider was tested successfully with the very connection it *)
(* has now, although it may be changed while a test is under way.          *)
EnabledAsTested ==
  provider.status = "enabled" => provider.connection \in answered

(* What a request read before it waited is never written when it has       *)
(* changed meanwhile: an accepted update keeps every field of the          *)
(* connection that was not sent with it, and a generated rubric is stored  *)
(* only while the provider is enabled with the connection that made it.    *)
StaleReadsAreNotWritten ==
  [][\A d \in Desks : desk'[d] = Free =>
       /\ desk[d].pc = "updating" /\ provider' # provider =>
            \A f \in SettingFields \ desk[d].patch :
              provider'.connection[f] = provider.connection[f]
       /\ desk[d].pc = "generating" /\ versions' # versions =>
            provider.status = "enabled" /\ provider.connection = desk[d].connection
    ]_deskVars

(* "The provider configuration changed during the update" is what an       *)
(* administrator is told whose update would write back something another   *)
(* one changed since it was read: of the whole row, an accepted update     *)
(* keeps every field that was not sent with it.                            *)
UpdatesKeepTheRest ==
  [][\A d \in Desks : desk[d].pc = "updating" /\ desk'[d] = Free =>
       /\ "limits" \notin desk[d].patch => limits' = limits
       /\ provider' # provider => \A f \in SettingFields \ desk[d].patch :
            provider'.connection[f] = provider.connection[f]
    ]_deskVars

(* Every stored rubric can be graded by: each score of each dimension lies *)
(* in exactly one band and the best ones add up to the teacher's total.    *)
StoredRubricsAreGradable ==
  \A v \in DOMAIN versions : versions[v].rubric # None =>
    Gradable(Content(versions[v].rubric), versions[v].form)

(* paper_grading_protect_rubric_history, for one UPDATE.                   *)
HistoryTriggerAccepts(old, new, status) ==
  CASE old.status = "superseded" -> new = old
    [] old.status = "confirmed" ->
         \/ new = old
         \/ new = [old EXCEPT !.status = "superseded"] /\ status # "ready"
    [] OTHER -> new.status \in {"draft", "confirmed"}

(* The partial unique indexes of rubric_versions and its constraints.      *)
OneOfEach(rows) ==
  Cardinality(In("draft", rows)) <= 1 /\ Cardinality(In("confirmed", rows)) <= 1
RubricRowsAllowed(rows) ==
  \A v \in DOMAIN rows :
    /\ rows[v].status # "draft" => rows[v].rubric # None
    /\ rows[v].rubric # None => /\ rows[v].model # None
                                /\ rows[v].rubric \in StorableFor[rows[v].form]

(* paper_grading_require_confirmed_rubric_for_ready_assignment.            *)
ReadyTriggerAccepts(old, new, rows) ==
  new = "ready" /\ old # "ready" => In("confirmed", rows) # {}

(* What triggers, constraints and indexes allow of one flush.              *)
FlushAccepted(before, after) ==
  /\ ReadyTriggerAccepts(before[1], after[1], after[2])
  /\ OneOfEach(after[2]) /\ RubricRowsAllowed(after[2])
  /\ \A v \in DOMAIN before[2] :
       HistoryTriggerAccepts(before[2][v], after[2][v], before[1])

(* The constraints of provider_configs.                                    *)
ProviderRowAllowed(row) ==
  /\ row.status = "enabled" => row.tested = row.config
  /\ row.connection.default \in row.connection.allowed

(* No change the backend makes dies on a trigger, a constraint or an index *)
(* of the database: not a flush in the middle of a confirmation, nor a     *)
(* rubric the backend's contract accepts.                                  *)
DatabaseAcceptsChanges ==
  [][/\ ProviderRowAllowed(provider')
     /\ \A form \in Forms : AcceptableFor[form] \subseteq StorableFor[form]
     /\ IF In("confirmed", versions') \subseteq In("confirmed", versions)
        THEN FlushAccepted(<<assignment, versions>>, <<assignment', versions'>>)
        ELSE \A v \in In("confirmed", versions') :
               LET steps == ConfirmSteps(v) IN
               \A n \in 1..(Len(steps) - 1) : FlushAccepted(steps[n], steps[n + 1])
    ]_deskVars
=============================================================================
