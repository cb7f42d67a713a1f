------------------------------- MODULE Parsing -------------------------------
(***************************************************************************)
(* What the parsers make of a document (data_sources/parser.py and          *)
(* ocr_parser.py), as functions of what their libraries read in it.  Text   *)
(* is counted in units of 200 characters, the part of it a chunk id sees: a *)
(* paragraph is a sequence of units, blank if empty, and a piece, whatever  *)
(* a parser chunks in one call, is a sequence of paragraphs.                *)
(***************************************************************************)
EXTENDS Naturals, Sequences, SequencesExt

Limit == 5   \* 1000 characters

Blank(piece) == \A i \in DOMAIN piece : piece[i] = <<>>

\* Paragraphs are put together while they are shorter than the limit.
AddParagraph(acc, para) ==
    IF para = <<>> THEN acc
    ELSE IF Len(FlattenSeq(acc.text)) + Len(para) < Limit
    THEN [acc EXCEPT !.text = Append(@, para)]
    ELSE [out |-> IF acc.text = <<>> THEN acc.out ELSE Append(acc.out, acc.text),
          text |-> <<para>>]

ChunkDropsTheRest(piece) ==              \* a mutant: what is left over is forgotten
    FoldLeft(AddParagraph, [out |-> <<>>, text |-> <<>>], piece).out

\* BaseParser.chunk
Chunk(piece) ==
    LET acc == FoldLeft(AddParagraph, [out |-> <<>>, text |-> <<>>], piece)
    IN IF acc.text = <<>> THEN acc.out ELSE Append(acc.out, acc.text)

\* _make_chunk_id: the index of the chunk within its piece, and how it begins.
ChunkId(i, text) == <<i - 1, Head(Head(text))>>

Chunks(pieces) == FlattenSeq([p \in DOMAIN pieces |->
    LET texts == Chunk(pieces[p]) IN
    [i \in DOMAIN texts |-> [id |-> ChunkId(i, texts[i]), text |-> texts[i]]]])

\* A document: what kind, whether its library is there and opens it (a pdf must not
\* be encrypted, a json file must be json), and its pages, items, blocks or sheets.
Readable(doc) == SelectSeq(doc.pieces, LAMBDA p : ~Blank(p))
Result(warned, pieces) == [warned |-> warned, chunks |-> Chunks(pieces)]

ParseText(doc) == Result(Readable(doc) = <<>>, doc.pieces)
ParseJson(doc) == Result(FALSE, doc.pieces)
\* Pages and sheets are skipped with a warning each, blocks of a docx without; an
\* image without text has a warning.
ParsePages(doc) ==
    Result(\/ Readable(doc) # doc.pieces \/ Readable(doc) = <<>>, Readable(doc))
ParseSheets(doc) == Result(Readable(doc) # doc.pieces, Readable(doc))
ParseBlocks(doc) == Result(Readable(doc) = <<>>, Readable(doc))

ParseDocument(doc) ==
    CASE ~doc.opens -> Result(TRUE, <<>>)
      [] doc.kind = "text" -> ParseText(doc)
      [] doc.kind = "json" -> ParseJson(doc)
      [] doc.kind \in {"pdf", "image"} -> ParsePages(doc)
      [] doc.kind = "xlsx" -> ParseSheets(doc)
      [] doc.kind = "docx" -> ParseBlocks(doc)

\* _do_parse, behind parse_document: a pdf without text is read again by OCR, the
\* result of which, scanned, counts if there is text in it.
ParseWithOcr(doc, scanned) ==
    LET first == ParseDocument(doc) IN
    IF doc.kind = "pdf" /\ first.chunks = <<>> /\ scanned.opens /\ Readable(scanned) # <<>>
    THEN Result(TRUE, Readable(scanned))
    ELSE first

\* save_chunks: chunks with one id have one file, and the last one of them is in it.
Stored(chunks) ==
    {chunks[i] : i \in {k \in DOMAIN chunks :
                         \A j \in DOMAIN chunks : j > k => chunks[j].id # chunks[k].id}}

-----------------------------------------------------------------------------
(* Dataset profiles: a column is a sequence of cells, "blank", "number" or  *)
(* "word".                                                                  *)

Count(column, cell) == Len(SelectSeq(column, LAMBDA c : c = cell))

\* profile_csv: numeric if all of it is.
ProfileCsvColumn(column) ==
    [dtype |-> IF Count(column, "number") > 0 /\ Count(column, "word") = 0
               THEN "numeric" ELSE "categorical",
     counted |-> Count(column, "number") + Count(column, "word"),
     missing |-> Count(column, "blank")]

\* XlsxParser.profile: numeric if any of it is, and the words are left out.
ProfileXlsxColumn(column) ==
    [dtype |-> IF Count(column, "number") > 0 THEN "numeric" ELSE "categorical",
     counted |-> IF Count(column, "number") > 0
                 THEN Count(column, "number") ELSE Count(column, "word"),
     missing |-> Count(column, "blank")]
=============================================================================
