---------------------------- MODULE MCPaperUploads ----------------------------
(***************************************************************************)
(* Instances of PaperUploads: two people, one paper that may be any of a   *)
(* set of files at and around the limits of staging and parsing.           *)
(***************************************************************************)
EXTENDS PaperUploads

Word(n) == [i \in 1..n |-> "char"]
Blank == <<"space", "nul">>
Padded == <<"space", "char", "nul", "space", "char", "space">>

Entry(name, size, packed) == [name |-> name, size |-> size, packed |-> packed, unsafe |-> FALSE]
Archive == <<Entry("types", 1, 1), Entry("rels", 1, 0), Entry("document", 4, 2)>>
Paragraph(text) == [kind |-> "paragraph", text |-> text]
Cell(texts) == [nested |-> FALSE, paragraphs |-> texts]
(* One row, the first cell over two columns.                               *)
Row == [kind |-> "table", rows |-> <<<<1, 1, 2>>>>,
        cells |-> <<Cell(<<Blank, Word(1)>>), Cell(<<Padded>>)>>]
(* Two rows, the first cell over both: read again, the text is too long,   *)
(* and the last cell may be passed over.                                   *)
Rows2 == [kind |-> "table", rows |-> <<<<1, 2>>, <<1, 3>>>>,
          cells |-> <<Cell(<<Word(2)>>), Cell(<<Blank>>), Cell(<<Word(3)>>)>>]

Docx == [header |-> "zip", suffix |-> "docx", claim |-> "docx", bytes |-> 4,
         entries |-> Archive, intact |-> TRUE, boxes |-> FALSE, stories |-> <<Blank>>,
         notes |-> <<>>,
         body |-> <<Paragraph(Blank), Paragraph(Word(1)), Row>>]
Page(lines, drawn) == [lines |-> lines, drawn |-> drawn]
Pdf == [header |-> "pdf", suffix |-> "pdf", claim |-> "octets", bytes |-> 1,
        encrypted |-> FALSE, active |-> FALSE,
        pages |-> <<Page(<<Blank, Padded, Word(1)>>, TRUE),
                    Page(<<Word(1), Word(1)>>, FALSE)>>]

MCFiles == {
  (* at the limits of characters, blocks and pages                         *)
  Pdf,
  Docx,
  (* text that is never met beside a table of two rows                     *)
  [Docx EXCEPT !.notes = <<Word(1)>>,
               !.body = <<Rows2, [kind |-> "other", text |-> Word(1)]>>],
  (* a block or a page too many, content that is refused, an archive that  *)
  (* inflates                                                              *)
  [Docx EXCEPT !.body = [i \in 1..5 |-> Paragraph(Word(1))]],
  [Pdf EXCEPT !.pages = <<Page(<<Word(1)>>, FALSE), Page(<<>>, FALSE), Page(<<>>, FALSE)>>],
  [Docx EXCEPT !.stories = <<Word(1)>>],
  [Docx EXCEPT !.body[3].cells[2].nested = TRUE],
  [Pdf EXCEPT !.pages = <<Page(<<Word(1)>>, FALSE), Page(<<Blank>>, TRUE)>>],
  [Docx EXCEPT !.entries[3].size = 5],
  (* refused at staging                                                    *)
  [Docx EXCEPT !.bytes = 5],
  [Pdf EXCEPT !.suffix = "docx"]}
=============================================================================
