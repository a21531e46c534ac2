----------------------------- MODULE PaperUploads -----------------------------
(***************************************************************************)
(* Uploading papers to one assignment.  A row of submissions is reserved   *)
(* in a transaction, the file is stored, parsed and its text stored with   *)
(* no transaction open, and the row is moved along between these steps.    *)
(* Each upload runs in a request of its own: it may be cancelled at any    *)
(* await, its process may die, its teacher may be disabled under it, and   *)
(* the same file may be sent again by another request.                     *)
(***************************************************************************)
EXTENDS Accounts, DocumentRules

CONSTANTS
  Papers,    \* contents: a hash names one row of the assignment
  Files,     \* what may be sent
  Uploads,   \* requests under way together
  Owner      \* the teacher of the assignment

ASSUME UploadsAssumption == Owner \in Users /\ IsFiniteSet(Uploads)

VARIABLES
  assignment,  \* assignments.status
  papers,      \* the row of each paper, and whether its two objects exist
  upload,      \* where each request is
  deleting,    \* papers whose text a delete that was not answered may remove
  abandoned,   \* history: unfinished papers whose upload ended without a word
  released     \* history: papers that could be taken over before a clean-up

uploadVars == <<assignment, papers, upload, deleting, abandoned, released>>
vars == <<accountVars, uploadVars>>

-----------------------------------------------------------------------------
(* State                                                                   *)

Unfinished == {"uploaded", "parsing"}
NoFile == [header |-> "none"]

(* A file that is sent is a file.                                          *)
ASSUME FilesAssumption == NoFile \notin Files

(* What a parser may answer for each file: documents, a refusal, or either.*)
Answers == [f \in Files |-> parse_document(f)]
Texts == [f \in Files |-> {d \in Answers[f] : d.ok}]
NoText == [ok |-> FALSE]

NoPaper == [status |-> "none", file |-> NoFile, source |-> FALSE, text |-> NoText]
Free == [pc |-> "free"]

(* Places where an upload still means to move its row.                     *)
Owning == {"storing", "starting", "parsing", "writing", "finishing", "failing",
           "failing text", "cleaning, cancelled", "cancelling"}
UploadPlaces == Owning \cup {"resetting", "cleaning"}

UploadsInit ==
  /\ assignment = "draft"
  /\ papers = [p \in Papers |-> NoPaper]
  /\ upload = [u \in Uploads |-> Free]
  /\ deleting = {}
  /\ abandoned = {}
  /\ released = {}

Init == AccountsInit /\ UploadsInit

Becomes(u, pc) == upload' = [upload EXCEPT ![u].pc = pc]
Ends(u) == upload' = [upload EXCEPT ![u] = Free]
Set(p, status) == papers' = [papers EXCEPT ![p].status = status]
StoresSource(p) == papers' = [papers EXCEPT ![p].source = TRUE]
StoresText(p) == \E d \in Texts[papers[p].file] : papers' = [papers EXCEPT ![p].text = d]
Deletes(p) == papers' = [papers EXCEPT ![p].text = NoText]
Abandon(p) == abandoned' = abandoned \cup {p}
Paper(u) == upload[u].paper

(* transition_submission under row level security: an active owner, and a  *)
(* row in a state the step may leave.                                      *)
Allowed(p, from) == ActiveTeacher(Owner) /\ papers[p].status \in from

(* A refusal because the teacher is no longer active leaves the row.       *)
AbandonIfClosed(p) ==
  IF ActiveTeacher(Owner) THEN UNCHANGED abandoned ELSE Abandon(p)

-----------------------------------------------------------------------------
(* Reservation                                                             *)

(* Confirming a rubric needs the provider an administrator enabled.        *)
ConfirmRubric ==
  /\ assignment = "draft" /\ ActiveTeacher(Owner) /\ get_admin # {}
  /\ assignment' = "ready"
  /\ UNCHANGED <<papers, upload, deleting, abandoned, released>>

(* The file is staged, then a row is inserted or, for a failed one, found; *)
(* any other row of the same content is answered as a duplicate.           *)
Reserve(u, p) ==
  /\ upload[u] = Free
  /\ ActiveTeacher(Owner) /\ assignment = "ready"
  /\ \/ /\ papers[p].status = "none"
        /\ \E f \in Files :
             /\ stage_upload_file(f)
             /\ papers' = [papers EXCEPT ![p] = [NoPaper EXCEPT !.status = "uploaded",
                                                                !.file = f]]
        /\ upload' = [upload EXCEPT ![u] = [pc |-> "storing", paper |-> p]]
     \/ /\ papers[p].status = "failed"
        /\ upload' = [upload EXCEPT ![u] = [pc |-> "resetting", paper |-> p]]
        /\ UNCHANGED papers
  /\ UNCHANGED <<assignment, deleting, abandoned, released>>

(* Of two requests that found the failed row, one resets it.               *)
Reset(u) ==
  /\ upload[u].pc = "resetting"
  /\ IF Allowed(Paper(u), {"failed"})
     THEN /\ Set(Paper(u), "uploaded")
          /\ Becomes(u, "storing")
          /\ abandoned' = abandoned \ {Paper(u)}
     ELSE Ends(u) /\ UNCHANGED <<papers, abandoned>>
  /\ UNCHANGED <<assignment, deleting, released>>

-----------------------------------------------------------------------------
(* Storing and parsing                                                     *)

(* Mutant: an error of the storage is logged and parsing begins.           *)
StoreSourceGoesOn(u) ==
  /\ upload[u].pc = "storing"
  /\ UNCHANGED papers \/ StoresSource(Paper(u))
  /\ Becomes(u, "starting")
  /\ UNCHANGED <<assignment, deleting, abandoned, released>>

(* An error of the storage or of its quota marks the row; an error nobody  *)
(* expected ends the request.  Either may hide that the object is stored.  *)
StoreSource(u) ==
  /\ upload[u].pc = "storing"
  /\ \/ StoresSource(Paper(u)) /\ Becomes(u, "starting") /\ UNCHANGED abandoned
     \/ /\ UNCHANGED papers \/ StoresSource(Paper(u))
        /\ \/ Becomes(u, "failing") /\ UNCHANGED abandoned
           \/ Ends(u) /\ Abandon(Paper(u))
  /\ UNCHANGED <<assignment, deleting, released>>

BeginParsing(u) ==
  /\ upload[u].pc = "starting"
  /\ IF Allowed(Paper(u), {"uploaded"})
     THEN \/ Set(Paper(u), "parsing") /\ Becomes(u, "parsing") /\ UNCHANGED abandoned
          \/ /\ UNCHANGED papers \/ Set(Paper(u), "parsing")
             /\ Ends(u) /\ Abandon(Paper(u))
     ELSE UNCHANGED papers /\ Ends(u) /\ AbandonIfClosed(Paper(u))
  /\ UNCHANGED <<assignment, deleting, released>>

(* Mutant: a file the parser refuses ends the request, the row unmarked.   *)
ParseUnmarked(u) ==
  /\ upload[u].pc = "parsing"
  /\ \/ Texts[papers[Paper(u)].file] # {} /\ Becomes(u, "writing")
     \/ Refused \in Answers[papers[Paper(u)].file] /\ Ends(u)
  /\ UNCHANGED <<assignment, papers, deleting, abandoned, released>>

(* The parser makes a document of the staged file, or refuses it; which    *)
(* document shows when the text is stored.                                 *)
Parse(u) ==
  /\ upload[u].pc = "parsing"
  /\ \/ /\ Texts[papers[Paper(u)].file] # {}
        /\ Becomes(u, "writing") /\ UNCHANGED abandoned
     \/ /\ Refused \in Answers[papers[Paper(u)].file]
        /\ Becomes(u, "failing") /\ UNCHANGED abandoned
     \/ Ends(u) /\ Abandon(Paper(u))
  /\ UNCHANGED <<assignment, papers, deleting, released>>

WriteText(u) ==
  /\ upload[u].pc = "writing"
  /\ \/ StoresText(Paper(u)) /\ Becomes(u, "finishing") /\ UNCHANGED abandoned
     \/ /\ UNCHANGED papers \/ StoresText(Paper(u))
        /\ \/ Becomes(u, "failing text") /\ UNCHANGED abandoned
           \/ Becomes(u, "cleaning") /\ Abandon(Paper(u))
  /\ UNCHANGED <<assignment, deleting, released>>

(* Whatever goes wrong once the text may be stored, its object is cleaned  *)
(* up: also when the row became ready and only the answer was lost.        *)
Finish(u) ==
  /\ upload[u].pc = "finishing"
  /\ \/ /\ Allowed(Paper(u), {"parsing"})
        /\ \/ Set(Paper(u), "ready") /\ Ends(u) /\ UNCHANGED <<abandoned, released>>
           \/ /\ Set(Paper(u), "ready")
              /\ Becomes(u, "cleaning") \/ Becomes(u, "cleaning, cancelled")
              /\ released' = released \cup {Paper(u)}
              /\ UNCHANGED abandoned
           \/ UNCHANGED <<papers, released>> /\ Becomes(u, "cleaning") /\ Abandon(Paper(u))
     \/ /\ ~Allowed(Paper(u), {"parsing"})
        /\ UNCHANGED <<papers, released>> /\ Becomes(u, "cleaning")
        /\ AbandonIfClosed(Paper(u))
  /\ UNCHANGED <<assignment, deleting>>

-----------------------------------------------------------------------------
(* Failing                                                                 *)

AfterMark == [pc \in {"failing", "failing text", "cancelling"} |->
                IF pc = "failing text" THEN "cleaning" ELSE "free"]
Goto(u, pc) == IF pc = "free" THEN Ends(u) ELSE Becomes(u, pc)

(* Other requests may take the paper from here on.                         *)
Release(u, then) ==
  released' = IF \/ then # "free"
                 \/ \E v \in Uploads \ {u} : upload[v] # Free /\ Paper(v) = Paper(u)
                 \/ Paper(u) \in deleting
              THEN released \cup {Paper(u)} ELSE released

mark_failed(u) ==
  /\ upload[u].pc \in DOMAIN AfterMark
  /\ LET then == AfterMark[upload[u].pc]
     IN /\ Goto(u, then)
        /\ IF Allowed(Paper(u), Unfinished)
           THEN \/ Set(Paper(u), "failed") /\ Release(u, then) /\ UNCHANGED abandoned
                \/ UNCHANGED <<papers, released>> /\ Abandon(Paper(u))
           ELSE UNCHANGED <<papers, released>> /\ AbandonIfClosed(Paper(u))
  /\ UNCHANGED <<assignment, deleting>>

(* The delete of a clean-up: carried out, refused, or sent and not         *)
(* answered, to be carried out at any later time or never.                 *)
Cleans(p) ==
  \/ Deletes(p) /\ UNCHANGED deleting
  \/ UNCHANGED <<papers, deleting>>
  \/ deleting' = deleting \cup {p} /\ UNCHANGED papers

(* The clean-up deletes the text, or does not and says so in a note.       *)
delete_after_failure(u) ==
  /\ upload[u].pc \in {"cleaning", "cleaning, cancelled"}
  /\ Cleans(Paper(u))
  /\ Goto(u, IF upload[u].pc = "cleaning" THEN "free" ELSE "cancelling")
  /\ UNCHANGED <<assignment, abandoned, released>>

(* Mutant: a cancellation is cleaned up after but not written to the row.  *)
CancelledUnmarked == [pc \in Owning \cup {"cleaning"} |-> "cleaning"]

(* A cancellation is delivered at the await the request is in.  A write of *)
(* the text is waited for; a mark under way may have been made.            *)
Cancelled == [pc \in Owning \cup {"cleaning"} |->
                IF pc \in {"writing", "finishing", "failing text"}
                THEN "cleaning, cancelled" ELSE "cancelling"]
Cancel(u) ==
  /\ upload[u].pc \in DOMAIN Cancelled \ {"cancelling"}
  /\ Becomes(u, Cancelled[upload[u].pc])
  /\ \/ UNCHANGED <<papers, deleting, released>>
     \/ /\ upload[u].pc = "writing"
        /\ StoresText(Paper(u)) /\ UNCHANGED <<deleting, released>>
     \/ /\ upload[u].pc \in {"failing", "failing text"}
        /\ Allowed(Paper(u), Unfinished)
        /\ Set(Paper(u), "failed") /\ Release(u, "cancelling") /\ UNCHANGED deleting
     \/ /\ upload[u].pc \in {"cleaning", "cleaning, cancelled"}
        /\ Cleans(Paper(u)) /\ UNCHANGED released
  /\ UNCHANGED <<assignment, abandoned>>

(* The process ends, or the request is cancelled where nothing answers it: *)
(* while it reserves or resets, and while it marks a cancelled row.        *)
Crash(u) ==
  /\ upload[u] # Free
  /\ Ends(u)
  /\ IF upload[u].pc \in Owning /\ papers[Paper(u)].status \in Unfinished
     THEN Abandon(Paper(u)) ELSE UNCHANGED abandoned
  /\ \/ UNCHANGED <<papers, deleting>>
     \/ upload[u].pc \in {"cleaning", "cleaning, cancelled"} /\ Cleans(Paper(u))
  /\ UNCHANGED <<assignment, released>>

(* The storage carries out a delete nobody waits for any more.             *)
DeleteLands(p) ==
  /\ p \in deleting
  /\ Deletes(p)
  /\ deleting' = deleting \ {p}
  /\ UNCHANGED <<assignment, upload, abandoned, released>>

-----------------------------------------------------------------------------
UploadStep(u) ==
  \/ Reset(u) \/ StoreSource(u) \/ BeginParsing(u) \/ Parse(u) \/ WriteText(u)
  \/ Finish(u) \/ mark_failed(u) \/ delete_after_failure(u)

UploadsNext ==
  \/ ConfirmRubric
  \/ \E p \in Papers : DeleteLands(p)
  \/ \E u \in Uploads :
       \/ \E p \in Papers : Reserve(u, p)
       \/ UploadStep(u) \/ Cancel(u) \/ Crash(u)

Next ==
  \/ AccountsNext /\ UNCHANGED uploadVars
  \/ UploadsNext /\ UNCHANGED accountVars

(* Every await of an upload ends: database, storage and thread answer, or  *)
(* their time limits do.                                                   *)
Spec == Init /\ [][Next]_vars /\ \A u \in Uploads : WF_vars(UploadStep(u) /\ UNCHANGED accountVars)

-----------------------------------------------------------------------------
(* Properties                                                              *)

(* Types of the account and upload state, and the constraint of the        *)
(* database on rows: a paper that exists has a file staging accepted.      *)
TypeOK ==
  /\ AccountsTypeOK
  /\ assignment \in {"draft", "ready"}
  /\ papers \in [Papers -> [status : {"none", "uploaded", "parsing", "ready", "failed"},
                            file : Files \cup {NoFile}, source : BOOLEAN,
                            text : {NoText} \cup UNION {Texts[f] : f \in Files}]]
  /\ \A p \in Papers :
       /\ papers[p].status = "none" <=> papers[p].file = NoFile
       /\ papers[p].status # "none" => stage_upload_file(papers[p].file)
  /\ upload \in [Uploads -> {Free} \cup [pc : UploadPlaces, paper : Papers]]
  /\ deleting \subseteq Papers /\ abandoned \subseteq Papers /\ released \subseteq Papers

(* A row in uploaded or parsing, which a second upload of the file would   *)
(* only be told is a duplicate, has a request that is about to move it,    *)
(* unless its process died, the database refused a teacher disabled        *)
(* meanwhile or did not answer, or an error nobody expected ended it.      *)
UnfinishedIsOwned ==
  \A p \in Papers :
    papers[p].status \in Unfinished /\ p \notin abandoned =>
      \E u \in Uploads : upload[u].pc \in Owning /\ Paper(u) = p

(* And such a row gets to ready or failed, whatever other uploads of the   *)
(* same file, cancellations and clean-ups do in between.                   *)
UploadsSettle ==
  \A p \in Papers :
    papers[p].status \in Unfinished ~>
      (papers[p].status \in {"ready", "failed"} \/ p \in abandoned)

(* A ready paper has the objects its row names: always its source, and     *)
(* its text unless an upload marked it failed before its own clean-up or   *)
(* while another upload of it or a delete of its text was under way, or    *)
(* the answer to its last transaction was lost.                            *)
ReadyKeepsObjects ==
  \A p \in Papers : papers[p].status = "ready" =>
    papers[p].source /\ (papers[p].text # NoText \/ p \in released)

(* A ready paper has its text: what a grading worker will read is there.   *)
(* The clean-up is documented to delete only what no row refers to.        *)
ReadyHasText == \A p \in Papers : papers[p].status = "ready" => papers[p].text # NoText

(* Whichever upload of a paper stored the text it keeps, it is one the     *)
(* parser made of the file that was staged for that paper, and no file the *)
(* parser always refuses becomes ready.                                    *)
ReadyTextWasParsed ==
  \A p \in Papers : papers[p].status = "ready" =>
    /\ stage_upload_file(papers[p].file) /\ Texts[papers[p].file] # {}
    /\ papers[p].text \in {NoText} \cup Texts[papers[p].file]

(* What a grading worker reads satisfies the contract it validates, up to  *)
(* and at every limit; every block is what its locator points at, and no   *)
(* place is named twice.  Of a PDF, and of a Word file of paragraphs and   *)
(* tables of one row, cells merged or not, no visible character is missing *)
(* and none is read twice.                                                 *)
ReadyTextIsFaithful ==
  \A p \in Papers :
    papers[p].status = "ready" /\ papers[p].text # NoText =>
      LET f == papers[p].file
          d == papers[p].text
      IN /\ ParsedDocument(f, d)
         /\ \A b \in ToSet(d.blocks) : TextAt(f, b.at) = b.text
         /\ IsInjective([i \in DOMAIN d.blocks |-> d.blocks[i].at])
         /\ Plain(f) => d.count = CharactersOf(f)

(* A file whose text cannot be read in full is refused: headers, footers,  *)
(* text boxes, revisions, content controls and nested tables are, and no   *)
(* text is lost in silence.                                                *)
NothingIsLost ==
  \A p \in Papers :
    papers[p].status = "ready" /\ papers[p].text # NoText =>
      papers[p].text.count >= CharactersOf(papers[p].file)
=============================================================================
