----------------------------- MODULE SourceParsers -----------------------------
(***************************************************************************)
(* What the parser of each format makes of a source: ordered blocks with   *)
(* their page and the path of headings they stand under.                   *)
(*                                                                         *)
(* A source is what the format's library finds, a sequence of elements:    *)
(*   tag     heading, paragraph, item, code, table, image, or a word of a  *)
(*           page with its place x, y; ink is a word that only OCR reads;  *)
(*           hidden is what the parser does not look for: scripts and text *)
(*           outside every block of an HTML page, grouped shapes, charts   *)
(*           and notes of a slide, text boxes of a DOCX document           *)
(*   level   of a heading                                                  *)
(*   lines   its text or rows, what is blank left out; of an image, that   *)
(*           the package holds it                                          *)
(*   page    page or slide                                                 *)
(*   inside  the elements around it                                        *)
(* A block remembers the elements it is made from.                         *)
(***************************************************************************)
EXTENDS Lists

CONSTANTS
    MaxPages, MaxSheets, MaxRows, MaxCells,   \* limits of the PDF and XLSX parsers
    ColumnGap                                 \* white space that divides two columns

Less(a, b)       == IF a < b THEN a ELSE b
Elements(source) == [i \in DOMAIN source |-> i]
Filled(e)        == e.lines # <<>>

-----------------------------------------------------------------------------
(* Blocks in the order of the elements, below the headings read so far.      *)

Nothing == [path |-> <<>>, blocks |-> <<>>]

\* One of some kinds is around an element.
Within(source, e, tags) == \E a \in source[e].inside : source[a].tag \in tags

\* The elements whose text is read as part of an element around them.
Nested(source, e) ==
    SelectSeq(Elements(source), LAMBDA n : /\ e \in source[n].inside
                                          /\ source[n].tag \notin {"image", "hidden"}
                                          /\ ~Within(source, n, {"hidden"}))

\* The text of an element is its own and that of the elements in it.
Put(done, kind, source, e) ==
    LET text == FoldLeft(LAMBDA all, n : all \o source[n].lines, source[e].lines, Nested(source, e))
    IN  [done EXCEPT !.blocks = Append(@, [kind |-> kind, page |-> source[e].page,
                                           lines |-> text, path |-> done.path,
                                           from |-> <<e>> \o Nested(source, e)])]

\* Mutant: a heading stays above the next one of its level.
UnderSibling(path, level, e) == Append(SubSeq(path, 1, Less(level, Len(path))), e)

\* A heading ends those of its level and below.
Under(path, level, e) == Append(SubSeq(path, 1, Less(level - 1, Len(path))), e)

Head_(done, source, e) ==
    Put([done EXCEPT !.path = Under(@, source[e].level, e)], "heading", source, e)

Read(source, take(_, _)) == FoldLeft(take, Nothing, Elements(source)).blocks

TextBlocks(source) ==
    Read(source, LAMBDA done, e : IF Filled(source[e]) THEN Put(done, "text", source, e) ELSE done)

\* A list item is a block of the text that opens it, if at most one piece of code
\* comes first; that text is a block of its own after it.
MarkdownBlocks(source) ==
    LET opens(e, n) == /\ n \in DOMAIN source /\ e \in source[n].inside
                       /\ source[n].tag \in {"paragraph", "heading"} /\ Filled(source[n])
                       /\ n = e + 1 \/ (n = e + 2 /\ source[e + 1].tag = "code")
        listed(done, e, n) ==
            [done EXCEPT !.blocks = Append(@, [kind |-> "list", page |-> source[e].page,
                lines |-> source[n].lines, path |-> done.path, from |-> <<e, n>>])]
        take(done, e) ==
            IF source[e].tag = "item"
            THEN LET first == {n \in {e + 1, e + 2} : opens(e, n)}
                 IN  IF first = {} THEN done ELSE listed(done, e, CHOOSE n \in first : TRUE)
            ELSE IF ~Filled(source[e]) THEN done
            ELSE IF source[e].tag = "heading" THEN Head_(done, source, e)
            ELSE IF source[e].tag = "paragraph" THEN Put(done, "text", source, e)
            ELSE IF source[e].tag \in {"code", "table"} THEN Put(done, source[e].tag, source, e)
            ELSE done
    IN  Read(source, take)

\* Scripts and templates are removed with what is in them.  Headings, tables and
\* images are blocks wherever they stand, other text only outside items and tables;
\* what stands around an element has its text too.
HtmlBlocks(source) ==
    LET tag(e) == source[e].tag
        take(done, e) ==
            IF tag(e) = "hidden" \/ Within(source, e, {"hidden"}) THEN done
            ELSE IF tag(e) = "image" THEN Put(done, "image", source, e)
            ELSE IF ~Filled(source[e]) /\ Nested(source, e) = <<>> THEN done
            ELSE IF tag(e) = "heading" THEN Head_(done, source, e)
            ELSE IF tag(e) = "table" THEN Put(done, "table", source, e)
            ELSE IF Within(source, e, {"item", "table"}) THEN done
            ELSE IF tag(e) = "item" THEN Put(done, "list", source, e)
            ELSE IF tag(e) = "code" THEN Put(done, "code", source, e)
            ELSE Put(done, "text", source, e)
    IN  Read(source, take)

\* Paragraph styles make headings; an image without its part is only warned of.
DocxBlocks(source) ==
    LET take(done, e) ==
            IF ~Filled(source[e]) \/ source[e].tag = "hidden" THEN done
            ELSE IF source[e].tag = "heading" THEN Head_(done, source, e)
            ELSE IF source[e].tag \in {"table", "image"} THEN Put(done, source[e].tag, source, e)
            ELSE Put(done, "text", source, e)
    IN  Read(source, take)

\* Every slide begins without a heading; its title is one.
PptxBlocks(source) ==
    LET opens(e) == e = 1 \/ source[e].page # source[e - 1].page
        take(before, e) ==
            LET done == IF opens(e) THEN [before EXCEPT !.path = <<>>] ELSE before
            IN  IF source[e].tag = "image" THEN Put(done, "image", source, e)
                ELSE IF ~Filled(source[e]) \/ source[e].tag = "hidden" THEN done
                ELSE IF source[e].tag = "heading" THEN Head_(done, source, e)
                ELSE IF source[e].tag = "table" THEN Put(done, "table", source, e)
                ELSE Put(done, "text", source, e)
    IN  Read(source, take)

\* Every sheet with a filled row is a table below the sheet's title.
XlsxBlocks(source) ==
    Read(source, LAMBDA done, e :
        IF Filled(source[e]) THEN Put([done EXCEPT !.path = <<e>>], "table", source, e) ELSE done)

XlsxRefused(source) ==
    \/ Len(source) > MaxSheets
    \/ \E e \in DOMAIN source : Len(source[e].lines) > MaxRows
    \/ FoldLeft(LAMBDA sum, e : sum + Len(e.lines), 0, source) > MaxCells

-----------------------------------------------------------------------------
(* Pages of words at places.                                                 *)

On(source, page, tags) == {e \in DOMAIN source : source[e].page = page /\ source[e].tag \in tags}

\* The words of one row, from left to right, are a line.
LinesOf(source, words) ==
    LET rows == SetToSortSeq({source[e].y : e \in words}, LAMBDA a, b : a < b)
        row(y) == SetToSortSeq({e \in words : source[e].y = y},
                               LAMBDA a, b : source[a].x < source[b].x)
        line(y) == [kind |-> "text", page |-> source[Head(row(y))].page,
                    lines |-> <<source[Head(row(y))].lines[1]>>, path |-> <<>>, from |-> row(y)]
    IN  [i \in DOMAIN rows |-> line(rows[i])]

\* The widest gap no word stands in divides a page, if it is wide enough; the
\* rightmost of several.
ColumnsOf(source, words) ==
    LET places == {source[e].x : e \in words}
        next(x) == CHOOSE z \in places : z > x /\ \A w \in places : w > x => z <= w
        gap(x) == IF \E z \in places : z > x THEN next(x) - x - 1 ELSE 0
        widest == CHOOSE x \in places : \A z \in places :
                     gap(x) > gap(z) \/ (gap(x) = gap(z) /\ x >= z)
        left == {e \in words : source[e].x <= widest}
    IN  IF words = {} THEN <<>>
        ELSE IF gap(widest) < ColumnGap THEN <<words>> ELSE <<left, words \ left>>

\* A page's lines, column by column, of all its words, and its tables, whose words
\* are among those; then all of them sorted by their upper left corners.  A page
\* without any is read by OCR.
PdfPage(source, page) ==
    LET words == On(source, page, {"word"})
        tables == SetToSortSeq({e \in On(source, page, {"table"}) : Filled(source[e])},
                               LAMBDA a, b : a < b)
        table(e) == [kind |-> "table", page |-> page, lines |-> source[e].lines, path |-> <<>>,
                     from |-> <<e>> \o Nested(source, e)]
        columns == ColumnsOf(source, words)
        native == FoldLeft(LAMBDA all, column : all \o LinesOf(source, column), <<>>, columns)
                  \o [i \in DOMAIN tables |-> table(tables[i])]
        items == IF native # <<>> THEN native ELSE LinesOf(source, On(source, page, {"ink"}))
        corner(i) == source[Head(items[i].from)]
        before(i, j) == \/ corner(i).y < corner(j).y
                        \/ corner(i).y = corner(j).y /\ corner(i).x < corner(j).x
                        \/ corner(i).y = corner(j).y /\ corner(i).x = corner(j).x /\ i < j
        order == SetToSortSeq(DOMAIN items, before)
    IN  [i \in DOMAIN order |-> items[order[i]]]

PagesOf(source) == SetToSortSeq({source[e].page : e \in DOMAIN source}, LAMBDA a, b : a < b)

PdfBlocks(source) ==
    FoldLeft(LAMBDA all, page : all \o PdfPage(source, page), <<>>, PagesOf(source))

\* The image itself is a block before the lines OCR finds in it.
ImageBlocks(source) ==
    << [kind |-> "image", page |-> 1, lines |-> <<"plain">>, path |-> <<>>, from |-> <<>>] >>
        \o LinesOf(source, DOMAIN source)

-----------------------------------------------------------------------------
BlocksOf(format, source) ==
    CASE format = "text"     -> TextBlocks(source)
      [] format = "markdown" -> MarkdownBlocks(source)
      [] format = "html"     -> HtmlBlocks(source)
      [] format = "docx"     -> DocxBlocks(source)
      [] format = "pptx"     -> PptxBlocks(source)
      [] format = "xlsx"     -> XlsxBlocks(source)
      [] format = "pdf"      -> PdfBlocks(source)
      [] format = "image"    -> ImageBlocks(source)

\* What a parser refuses of a source it can open.
Refused(format, source) ==
    CASE format = "xlsx"  -> XlsxRefused(source)
      [] format = "pdf"   -> Len(PagesOf(source)) > MaxPages
      [] format = "image" -> source = <<>>
      [] OTHER -> FALSE

-----------------------------------------------------------------------------
(* The reference: what a format's blocks have to show of a source.           *)

\* The elements with text that the parser looks for.
Visible(format, source) ==
    LET text(e) == Filled(source[e]) /\ source[e].tag # "hidden"
        hidden(e) == Within(source, e, {"hidden"})
        printed(e) == On(source, source[e].page, {"word", "table"}) # {}
    IN  {e \in DOMAIN source :
            text(e) /\ ~hidden(e) /\ (source[e].tag = "ink" /\ format = "pdf" => ~printed(e))}

\* The elements that more than one block may show: what opens an item of Markdown,
\* the words of a PDF table, and what stands in an element of HTML when both are, or
\* are in, blocks of their own.
Repeated(format, source) ==
    LET own(e) == source[e].tag \in {"heading", "table"} \/ ~Within(source, e, {"item", "table"})
    IN  {e \in DOMAIN source :
            CASE format = "markdown" -> Within(source, e, {"item"})
              [] format = "pdf"      -> Within(source, e, {"table"})
              [] format = "html"     -> \E a \in source[e].inside, b \in source[e].inside \cup {e} :
                                            a # b /\ own(a) /\ own(b)
              [] OTHER -> FALSE}

\* The headings an element stands under: no heading of their level or above has
\* come since, on its slide.
Chain(format, source, e) ==
    LET heads == {h \in Visible(format, source) :
                    /\ h <= e /\ source[h].tag = "heading"
                    /\ format = "pptx" => source[h].page = source[e].page}
    IN  {h \in heads : \A g \in heads : g > h => source[g].level > source[h].level}

\* No heading lies more than one level below the one it stands under.
Unskipped(format, source) ==
    \A h \in Visible(format, source) : source[h].tag = "heading" =>
        source[h].level = Cardinality(Chain(format, source, h))
=============================================================================
