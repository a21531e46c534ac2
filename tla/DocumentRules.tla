---------------------------- MODULE DocumentRules ----------------------------
(***************************************************************************)
(* What the upload does with one file before anything is graded: staging   *)
(* (name, size, real format, claims), the archive checks of a DOCX, and    *)
(* the two strict parsers that turn paragraphs, table cells and PDF lines  *)
(* into numbered blocks with a locator.  A text is a sequence of character *)
(* classes, one per character after composition; a refusal is FALSE,       *)
(* whatever its error code.                                                *)
(***************************************************************************)
EXTENDS Integers, SequencesExt

CONSTANTS   \* ParseLimits
  MaxFileBytes, MaxPages, MaxCharacters, MaxBlocks,
  MaxEntries, MaxUncompressed, MaxRatio

ASSUME LimitsAssumption ==
  \A n \in {MaxFileBytes, MaxPages, MaxCharacters, MaxBlocks,
            MaxEntries, MaxUncompressed, MaxRatio} : n \in Nat \ {0}

SumOf(f(_), s) == FoldLeft(LAMBDA sum, e : sum + f(e), 0, s)

-----------------------------------------------------------------------------
(* Staging                                                                 *)

normalize_text(text) ==
  LET kept == SelectSeq(text, LAMBDA c : c # "nul")
      ink == {i \in DOMAIN kept : kept[i] # "space"}
  IN IF ink = {} THEN <<>> ELSE SubSeq(kept, Min(ink), Max(ink))

(* The format follows from the leading bytes and, for an archive, from the *)
(* entries it must have; an encrypted Word file is neither.                *)
DocxRequired == {"types", "rels", "document"}
EntryNames(f) == {f.entries[i].name : i \in DOMAIN f.entries}
detect_media_type(f) ==
  IF f.header = "pdf" THEN "pdf"
  ELSE IF f.header = "zip" /\ DocxRequired \subseteq EntryNames(f) THEN "docx"
  ELSE "unsupported"

validate_media_claims(f, type) == f.suffix = type /\ f.claim \in {"none", "octets", type}

stage_upload_file(f) ==
  LET type == detect_media_type(f)
  IN /\ f.suffix # "invalid"
     /\ f.bytes \in 1..MaxFileBytes
     /\ type \in {"pdf", "docx"}
     /\ validate_media_claims(f, type)

-----------------------------------------------------------------------------
(* Blocks                                                                  *)

NoBlocks == [ok |-> TRUE, count |-> 0, blocks |-> <<>>]
Refused == [ok |-> FALSE, count |-> 0, blocks |-> <<>>]

(* Blank pieces leave no block; a block takes the next number.             *)
append_block(acc, piece) ==
  LET text == normalize_text(piece.text)
  IN IF ~acc.ok \/ text = <<>> THEN acc
     ELSE IF \/ acc.count + Len(text) > MaxCharacters
             \/ Len(acc.blocks) >= MaxBlocks
          THEN Refused
          ELSE [ok |-> TRUE, count |-> acc.count + Len(text),
                blocks |-> Append(acc.blocks, [id |-> Len(acc.blocks) + 1,
                                               text |-> text, at |-> piece.at])]

-----------------------------------------------------------------------------
(* DOCX                                                                    *)

validate_archive(f) ==
  /\ Len(f.entries) <= MaxEntries
  /\ Cardinality(EntryNames(f)) = Len(f.entries)
  /\ DocxRequired \subseteq EntryNames(f)
  /\ SumOf(LAMBDA e : e.size, f.entries) <= MaxUncompressed
  /\ \A i \in DOMAIN f.entries :
       LET e == f.entries[i]
       IN ~e.unsafe /\ e.size <= MaxRatio * (IF e.packed = 0 THEN 1 ELSE e.packed)
  /\ f.intact

(* The n-th paragraph of the body, counting paragraphs only.               *)
Number(body, i) ==
  Cardinality({j \in 1..i : body[j].kind = body[i].kind})

(* Mutant: a merged cell is read at every place it stands at.              *)
EveryPlace(row, k) == k \in DOMAIN row

(* A cell merged within its row stands at several places of it and is read *)
(* at the first.                                                           *)
FirstPlace(row, k) == \A j \in 1..k - 1 : row[j] # row[k]

(* Cells are told apart by the addresses of the objects that stand for     *)
(* them.  The objects of one row exist together; of earlier rows only      *)
(* those of the last cell and of the last cell read are left, and the      *)
(* memory of the others is used again.  So a new cell may have an address  *)
(* that was seen, and is passed over, and a cell that reaches down from an *)
(* earlier row may have a new one, and is read again.                      *)
PlacesRead(row, read) ==
  SelectSeq([k \in DOMAIN row |-> k], LAMBDA k : FirstPlace(row, k) /\ row[k] \in read)
StillHeld(rows, read, r) ==
  IF r = 1 THEN {}
  ELSE LET before == FlattenSeq([q \in 1..r - 1 |->
                       [k \in DOMAIN PlacesRead(rows[q], read[q]) |->
                          rows[q][PlacesRead(rows[q], read[q])[k]]]])
       IN {Last(rows[r - 1]), Last(before)}
CellsRead(rows) ==
  {read \in [DOMAIN rows -> SUBSET UNION {ToSet(rows[r]) : r \in DOMAIN rows}] :
     \A r \in DOMAIN rows :
       LET held == StillHeld(rows, read, r)
           met == ToSet(rows[r]) \ held
           freed == MapThenSumSet(LAMBDA q : Cardinality(read[q]), 1..r - 1)
                      - Cardinality(held)
       IN /\ read[r] \subseteq met
          /\ Cardinality(met \ read[r]) <= freed}

TablePieces(table, n, read) ==
  FlattenSeq([r \in DOMAIN table.rows |->
    LET row == table.rows[r]
        places == PlacesRead(row, read[r])
    IN FlattenSeq([i \in DOMAIN places |->
         LET texts == table.cells[row[places[i]]].paragraphs
         IN [p \in DOMAIN texts |->
               [text |-> texts[p], at |-> <<"table", n, r, places[i], p>>]]])])

(* Text boxes, revisions and content controls, and text in headers and     *)
(* footers, are refused.                                                   *)
Unsupported(f) ==
  \/ f.boxes
  \/ \E i \in DOMAIN f.stories : normalize_text(f.stories[i]) # <<>>

Document(pieces) ==
  LET acc == FoldLeft(append_block, NoBlocks, pieces)
  IN IF acc.blocks = <<>> THEN Refused ELSE acc

(* The results parsing a file may have.  Only paragraphs and tables of the *)
(* body are met: other elements of it, and the notes, are left out.        *)
Tables(body) == {i \in DOMAIN body : body[i].kind = "table"}
parse_docx(f) ==
  LET body == f.body
      readings == {reading \in [Tables(body) ->
                                  UNION {CellsRead(body[i].rows) : i \in Tables(body)}] :
                     \A i \in Tables(body) : reading[i] \in CellsRead(body[i].rows)}
      pieces(i, reading) ==
        CASE body[i].kind = "paragraph" ->
               <<[text |-> body[i].text, at |-> <<"paragraph", Number(body, i)>>]>>
          [] body[i].kind = "table" -> TablePieces(body[i], Number(body, i), reading[i])
          [] OTHER -> <<>>
      nested(reading) ==
        \E i \in Tables(body) : \E r \in DOMAIN reading[i] :
          \E c \in reading[i][r] : body[i].cells[c].nested
  IN IF ~validate_archive(f) \/ Unsupported(f) THEN {Refused}
     ELSE {IF nested(reading) THEN Refused
           ELSE Document(FlattenSeq([i \in DOMAIN body |-> pieces(i, reading)])) :
             reading \in readings}

-----------------------------------------------------------------------------
(* PDF                                                                     *)

(* Lines of a page that leave a block are numbered within the page.        *)
PagePieces(pages, n) ==
  LET lines == pages[n].lines
      inked(k) == Cardinality({j \in 1..k : normalize_text(lines[j]) # <<>>})
  IN [k \in DOMAIN lines |-> [text |-> lines[k], at |-> <<"page", n, inked(k)>>]]

(* A page without text that shows something was scanned or is unreadable.  *)
Unreadable(page) ==
  page.drawn /\ \A k \in DOMAIN page.lines : normalize_text(page.lines[k]) = <<>>

parse_pdf(f) ==
  IF \/ f.encrypted \/ f.active
     \/ Len(f.pages) \notin 1..MaxPages
     \/ \E n \in DOMAIN f.pages : Unreadable(f.pages[n])
  THEN Refused
  ELSE Document(FlattenSeq([n \in DOMAIN f.pages |-> PagePieces(f.pages, n)]))

(* The results the parser of the detected format may have for a file.      *)
parse_document(f) ==
  IF detect_media_type(f) = "docx" THEN parse_docx(f) ELSE {parse_pdf(f)}

-----------------------------------------------------------------------------
(* What the stored text promises                                           *)

(* The contract the text object is validated against before it is written  *)
(* and again by every worker that reads it.                                *)
ParsedDocument(f, d) ==
  /\ Len(d.blocks) \in 1..MaxBlocks
  /\ \A i \in DOMAIN d.blocks : d.blocks[i].id = i /\ Len(d.blocks[i].text) > 0
  /\ d.count \in 1..MaxCharacters
  /\ d.count = SumOf(LAMBDA b : Len(b.text), d.blocks)
  /\ detect_media_type(f) = "pdf" => Len(f.pages) \in 1..MaxPages

(* The text a teacher finds where a locator points, read off the file.     *)
TextAt(f, at) ==
  LET item(kind) == CHOOSE i \in DOMAIN f.body :
                      f.body[i].kind = kind /\ Number(f.body, i) = at[2]
  IN CASE at[1] = "paragraph" -> normalize_text(f.body[item("paragraph")].text)
       [] at[1] = "table" ->
            LET table == f.body[item("table")]
            IN normalize_text(table.cells[table.rows[at[3]][at[4]]].paragraphs[at[5]])
       [] at[1] = "page" ->
            LET inked == SelectSeq(f.pages[at[2]].lines,
                                   LAMBDA line : normalize_text(line) # <<>>)
            IN normalize_text(inked[at[3]])

(* The visible characters of the file, each cell counted once, notes and   *)
(* other elements of the body included.                                    *)
Characters(texts) == SumOf(LAMBDA t : Len(normalize_text(t)), texts)
CharactersOf(f) ==
  IF detect_media_type(f) = "pdf"
  THEN SumOf(LAMBDA page : Characters(page.lines), f.pages)
  ELSE Characters(f.notes)
       + SumOf(LAMBDA item :
                 IF item.kind = "table"
                 THEN MapThenSumSet(LAMBDA c : Characters(item.cells[c].paragraphs),
                                    DOMAIN item.cells)
                 ELSE Len(normalize_text(item.text)),
               f.body)

(* Files of which every visible character can be read: Word files of       *)
(* paragraphs and tables of one row, without notes.                        *)
Plain(f) ==
  detect_media_type(f) = "docx" =>
    /\ Characters(f.notes) = 0
    /\ \A i \in DOMAIN f.body :
         \/ f.body[i].kind = "paragraph"
         \/ f.body[i].kind = "table" /\ Len(f.body[i].rows) = 1
=============================================================================
