----------------------------- MODULE MCKnowledge ------------------------------
(***************************************************************************)
(* Instances of the read-only pipelines for TLC: a behaviour answers a     *)
(* question, makes the chunks of a source or derives something from them,  *)
(* the others rest.  Of the two documents asked about one has two versions,*)
(* of one and of two chunks.                                               *)
(***************************************************************************)
EXTENDS KnowledgeQuery, DocumentContent, AdvancedKnowledge

CONSTANTS d1, d2, v1, v2, w1
VARIABLE subject

MCDocumentOf == (v1 :> d1) @@ (v2 :> d1) @@ (w1 :> d2)
MCVersionOf  == <<v1, v2, v2, w1>>
MCLength     == <<2, 2, 2, 2>>

Parser(id, media, priority, format, strategy) ==
    [id |-> id, media |-> media, priority |-> priority, format |-> format, strategy |-> strategy]
MCParsers == { Parser("text", {"plain"}, 1, "text", "general"),
               Parser("markdown", {"plain", "markup"}, 2, "markdown", "manual"),
               Parser("html", {"page"}, 1, "html", "manual"),
               Parser("word", {"letter"}, 1, "docx", "manual"),
               Parser("slides", {"talk"}, 1, "pptx", "manual"),
               Parser("workbook", {"sheet"}, 1, "xlsx", "table"),
               Parser("layout", {"print"}, 1, "pdf", "paper"),
               Parser("ocr", {"scan"}, 1, "image", "picture"),
               Parser("vision", {"scan"}, 1, "image", "picture") }

Element(tag, level, lines, page) ==
    [tag |-> tag, level |-> level, lines |-> lines, page |-> page, inside |-> {}, x |-> 0, y |-> 0]
Placed(tag, x, y, page) ==
    [Element(tag, 0, <<"plain">>, page) EXCEPT !.x = x, !.y = y]
In(e, around) == [e EXCEPT !.inside = around]
Source(format, elements) == [format |-> format, elements |-> elements]

Heading(level) == Element("heading", level, <<"plain">>, 1)
Paragraph == Element("paragraph", 0, <<"plain", "article">>, 1)
Questions == Element("paragraph", 0, <<"question", "plain", "answer", "question", "answer">>, 1)
Item      == Element("item", 0, <<"plain">>, 1)
Bullet    == Element("item", 0, <<>>, 1)
Code      == Element("code", 0, <<"plain">>, 1)
Script    == Element("hidden", 0, <<"plain">>, 1)
Blank     == Element("paragraph", 0, <<>>, 1)
Rows      == Element("table", 0, <<"plain", "answer", "plain">>, 1)
Picture   == Element("image", 0, <<"plain">>, 1)
OnSlide(e, page) == [e EXCEPT !.page = page]

MCSources ==
    {Source("text", s) : s \in SeqOf({Paragraph, Questions, Blank}, 2)}
    \cup {Source("markdown", s) :
            s \in SeqOf({Heading(1), Heading(2), Paragraph, Questions, Code, Rows}, 3)}
    \cup {Source("markdown", <<Heading(1), Heading(2), Paragraph, h, Bullet, In(p, {5})>>) :
            h \in {Heading(1), Heading(2), Heading(3)}, p \in {Heading(2), Paragraph, Code, Blank}}
    \cup {Source("markdown", <<Bullet, In(a, {1}), In(b, {1}), Paragraph>>) :
            a \in {Code, Bullet, Paragraph}, b \in {Heading(1), Paragraph, Rows}}
    \cup {Source("html", <<a, b, In(c, {2}), In(e, around), Paragraph>>) :
            a \in {Heading(1), Item}, b \in {Item, Rows, Script, Paragraph},
            c \in {Paragraph, Item, Heading(2), Rows, Script}, e \in {Paragraph, Picture, Heading(2)},
            around \in {{2}, {2, 3}}}
    \cup {Source("html", <<a, b, c, Paragraph>>) :
            a, b \in {Heading(1), Heading(2), Script}, c \in {Item, Picture, Blank}}
    \cup {Source("docx", s) : s \in SeqOf({Heading(1), Heading(2), Paragraph, Rows, Picture, Blank}, 2)}
    \cup {Source("pptx", <<a, b, OnSlide(c, 2), OnSlide(d, 2)>>) :
            a, b, c, d \in {Heading(1), Paragraph, Picture, Script}}
    \cup {Source("xlsx", s) : s \in SeqOf({Rows, Element("table", 0, <<"plain">>, 1),
                                           Element("table", 0, <<>>, 1)}, 3)}
    \cup {Source("pdf", <<Placed("word", 0, 0, 1), Placed("word", x, y, p), Placed(t, u, 1, p)>>) :
            x \in {1, 3}, y \in {0, 1}, u \in {0, 2, 4}, t \in {"word", "ink"}, p \in {1, 2}}
    \cup {Source("pdf", <<Placed("word", 0, y, 1), Placed("table", u, 0, 1),
                          In(Placed("word", u, 0, 1), {2}), In(Placed("word", u + 1, 1, 1), {2})>>) :
            y \in {0, 1, 2}, u \in {1, 3}}
    \cup {Source("image", s) : s \in {<<>>, <<Placed("ink", 0, 0, 1)>>,
                          <<Placed("ink", 3, 1, 1), Placed("ink", 0, 1, 1), Placed("ink", 0, 0, 1)>>}}

Chunk(version, ours, parent, entities, tokens) ==
    [version |-> version, ours |-> ours, parent |-> parent, entities |-> entities, tokens |-> tokens]
Child == Chunk(v1, TRUE, 1, <<>>, 1)
MCInputs == {<<Chunk(v1, TRUE, Absent, <<"x", "y">>, 2)>> \o s :
               s \in SeqOf({Child, Chunk(v1, TRUE, Absent, <<"y", "z", "x">>, 2)}, 2)
                     \cup {<<Chunk(v2, TRUE, Absent, <<"z", "y", "x", "w">>, 1)>>,
                           <<Chunk(v1, FALSE, Absent, <<"z">>, 1)>>,
                           <<Child, Child, Child, Child>>, <<Child, Child, Child, Child, Child>>}}
Point(at, value) == [at |-> at, value |-> value]
MCSeries == SeqOf({Point(1, 5), Point(2, Absent), Point(4, 6)}, 3)

Candidate(chunk, score, version, fits) ==
    [chunk |-> chunk, score |-> score, version |-> version, fits |-> fits]
MCBases == {<<>>, <<Candidate(1, 4, v1, TRUE)>>, <<Candidate(1, 4, v1, TRUE), Candidate(2, 2, v1, TRUE)>>}
Manifest(schema, complete, fits, versions) ==
    [schema |-> schema, complete |-> complete, fits |-> fits, versions |-> versions]
Good == Manifest(1, TRUE, TRUE, {v1})
Offer(manifest, candidates) == [manifest |-> manifest, candidates |-> candidates]
MCOffers ==
    {<<Offer(m, <<Candidate(3, 5, v1, TRUE)>>)>> :
        m \in {Absent, Good, Manifest(2, TRUE, TRUE, {v1}), Manifest(1, FALSE, TRUE, {v1}),
               Manifest(1, TRUE, FALSE, {v1}), Manifest(1, TRUE, TRUE, {v1, v2})}}
    \cup {<<Offer(Good, o), Offer(Good, p)>> :
            o, p \in {Absent} \cup {<<Candidate(k, n, v, f)>> :
                                 k \in {1, 3}, n \in {3, 5}, v \in {v1, v2}, f \in BOOLEAN}}

KnowledgeInit ==
    /\ Init /\ ContentInit /\ AdvancedInit
    /\ subject \in {"question", "content", "derived"}
    /\ subject # "content" =>
          request = [parser |-> NoParser, media |-> "plain", strategy |-> "auto", limit |-> 1]
    /\ subject # "question" => current[d1] = v1
    /\ subject = "content" => (request.parser # NoParser => request.strategy = "auto")
KnowledgeNext == \/ subject = "question" /\ Next /\ UNCHANGED <<subject, contentVars, advancedVars>>
                 \/ subject = "content" /\ ContentNext /\ UNCHANGED <<subject, vars, advancedVars>>
                 \/ /\ subject = "derived" /\ made.kind \in {"nothing", "graph"}
                    /\ AdvancedNext /\ UNCHANGED <<subject, vars, contentVars>>
KnowledgeSpec == KnowledgeInit /\ [][KnowledgeNext]_<<subject, vars, contentVars, advancedVars>>

\* The shape of the pipelines' state.
KnowledgeTypeOK == TypeOK /\ ContentTypeOK /\ AdvancedTypeOK
=============================================================================
