--------------------------- MODULE DocumentContent ---------------------------
(***************************************************************************)
(* From a stored source to its chunks: the parser registry picks a parser  *)
(* and runs it (SourceParsers), the chunker registry picks a strategy, the *)
(* strategy groups the parsed blocks, a sliding window cuts each group.    *)
(*                                                                         *)
(* A line of a block is its mark, what the strategies look for at the      *)
(* start of it, and counts as one token, as a label does; a place <<b, l>> *)
(* is line l of block b, the content of a group is a sequence of places.   *)
(***************************************************************************)
EXTENDS SourceParsers

CONSTANTS
    Parsers,    \* records: id, the media it takes, priority, its format and strategy
    Overrides,  \* parser ids that requests name and no parser has
    Sources,    \* records: format, and the elements the format's library finds
    Strategies, \* registered chunkers
    Media,      \* media types, each with an extension of the object's key
    Limits,     \* max_tokens of requests
    Overlap,    \* chunk_overlap_tokens
    NoParser

VARIABLES
    request, \* what is asked for: a parser's id or NoParser, media, strategy, limit
    phase,
    parser,  \* the parser it is routed to
    source,  \* the elements of the source
    blocks,  \* the blocks it found
    groups,  \* what the strategy makes of them
    group,   \* the group that is cut
    start,   \* the window's first token, from 0
    chunks,  \* chunks so far: group, first token, token past the last
    error

contentVars == <<request, phase, parser, source, blocks, groups, group, start, chunks, error>>

ContentInit ==
    /\ request \in [parser : {p.id : p \in Parsers} \cup Overrides \cup {NoParser}, media : Media,
                    strategy : Strategies \cup {"auto", "unknown"}, limit : Limits]
    /\ phase = "route" /\ parser = NoParser /\ source = <<>> /\ blocks = <<>>
    /\ groups = <<>> /\ group = 1 /\ start = 0 /\ chunks = <<>> /\ error = "none"

Fail(code) == phase' = "failed" /\ error' = code

-----------------------------------------------------------------------------
(* ParserRegistry.                                                           *)

Takes(p, media) == media \in p.media

\* Without an explicit parser the candidate of highest priority, if it is one.
Choose(media) ==
    LET candidates == {p \in Parsers : Takes(p, media)}
        best == {p \in candidates : \A q \in candidates : q.priority <= p.priority}
    IN  IF best = {} THEN "unsupported"
        ELSE IF Cardinality(best) > 1 THEN "ambiguous"
        ELSE (CHOOSE p \in best : TRUE).id

\* An explicit parser has to be registered and to take the media too.
Resolve ==
    /\ phase = "route"
    /\ LET r == request
           explicit == {p \in Parsers : p.id = r.parser}
           found == IF r.parser = NoParser THEN Choose(r.media)
                    ELSE IF explicit = {} THEN "unregistered"
                    ELSE IF \E p \in explicit : Takes(p, r.media) THEN r.parser
                    ELSE "incompatible"
       IN  IF found \in {"unsupported", "ambiguous", "unregistered", "incompatible"}
           THEN Fail(found) /\ parser' = parser
           ELSE phase' = "parse" /\ error' = error /\ parser' = found
    /\ UNCHANGED <<request, source, blocks, groups, group, start, chunks>>

TheParser == CHOOSE p \in Parsers : p.id = parser

\* The source is read and parsed: it may be empty, too large, not the version's,
\* damaged, past a limit, take too long or hold no block; a document is not made
\* of that.
Parse ==
    /\ phase = "parse"
    /\ \/ \E s \in Sources :
             LET found == BlocksOf(s.format, s.elements)
             IN  /\ s.format = TheParser.format
                 /\ source' = s.elements
                 /\ IF Refused(s.format, s.elements) THEN Fail("limit") /\ blocks' = blocks
                    ELSE IF found = <<>> THEN Fail("no_content") /\ blocks' = blocks
                    ELSE phase' = "choose" /\ error' = error /\ blocks' = found
       \/ /\ \E code \in {"empty", "too_large", "mismatch", "damaged", "timeout"} : Fail(code)
          /\ UNCHANGED <<source, blocks>>
    /\ UNCHANGED <<request, parser, groups, group, start, chunks>>

-----------------------------------------------------------------------------
(* The strategies.  Each is a sequence of groups, a group's content a        *)
(* sequence of places; LABEL is a token the strategy adds.                   *)

Label == <<0, 0>>
Blocks == DOMAIN blocks
Places(b) == [l \in DOMAIN blocks[b].lines |-> <<b, l>>]
Mark(b, l) == blocks[b].lines[l]
Kind(b) == blocks[b].kind

Numbers(n) == [i \in 1..n |-> i]
Content(members) == FlattenSeq([i \in DOMAIN members |-> Places(members[i])])

\* Groups grow until an element opens a new one; an isolated one stands alone.
Added(done, e, opening, lone) ==
    IF e \in lone
    THEN [full |-> done.full \o (IF done.open = <<>> THEN <<>> ELSE <<done.open>>) \o << <<e>> >>,
          open |-> <<>>]
    ELSE IF e \in opening /\ done.open # <<>>
    THEN [full |-> Append(done.full, done.open), open |-> <<e>>]
    ELSE [full |-> done.full, open |-> Append(done.open, e)]

Grouped(elements, opening, lone) ==
    LET upTo[n \in 0..Len(elements)] ==
            IF n = 0 THEN [full |-> <<>>, open |-> <<>>]
            ELSE Added(upTo[n - 1], elements[n], opening, lone)
        all == upTo[Len(elements)]
    IN  IF all.open = <<>> THEN all.full ELSE Append(all.full, all.open)

Sections(lone) ==
    LET parts == Grouped(Numbers(Len(blocks)), {b \in Blocks : Kind(b) = "heading"}, lone)
    IN  [i \in DOMAIN parts |-> Content(parts[i])]

Articles(b) == {p \in ToSet(Places(b)) : Mark(p[1], p[2]) = "article"}

\* Mutant: the lines before a block's first article are dropped.
LawsFromArticle ==
    FlattenSeq([b \in Blocks |->
                  LET parts == Grouped(Places(b), Articles(b), {})
                  IN  Keep(parts, {i \in DOMAIN parts : parts[i][1] \in Articles(b)})])

\* A new group at every article of a block.
Laws == FlattenSeq([b \in Blocks |-> Grouped(Places(b), Articles(b), {})])

\* A table's header goes with each of its rows; other blocks stand alone.
Table ==
    FlattenSeq([b \in Blocks |->
            IF Kind(b) = "table" /\ Len(blocks[b].lines) > 1
            THEN [r \in 1..(Len(blocks[b].lines) - 1) |-> << <<b, 1>>, <<b, r + 1>> >>]
            ELSE <<Places(b)>>])

\* Pairs of a question, up to the first answer after it, and what follows until
\* the next question; what is outside a pair is left out.  So a question opens a
\* pair when an answer stands between it and every question before it.  A table's
\* rows are pairs if they have both cells, its header is left out if it has rows.
Pairs(b) ==
    LET last == Len(blocks[b].lines)
        marked(mark) == {l \in 1..last : Mark(b, l) = mark}
        opens == {q \in marked("question") : \A p \in marked("question") :
                    p < q => \E a \in marked("answer") : p < a /\ a < q}
        heads == Keep(Numbers(last), opens)
        end(i) == IF i = Len(heads) THEN last ELSE heads[i + 1] - 1
        parts == [i \in DOMAIN heads |-> <<Label>> \o SubSeq(Places(b), heads[i], end(i))]
    IN  Keep(parts, {i \in DOMAIN heads : \E a \in marked("answer") : a > heads[i]})

QuestionsAnswers ==
    FlattenSeq([b \in Blocks |->
            LET lines == Places(b)
                rows == IF Len(lines) > 1 THEN Tail(lines) ELSE lines
                full == Keep(rows, {i \in DOMAIN rows : Mark(b, rows[i][2]) = "answer"})
            IN  IF Kind(b) = "table" THEN [i \in DOMAIN full |-> <<Label, full[i]>>]
                ELSE IF Pairs(b) = <<>> THEN <<lines>> ELSE Pairs(b)])

\* A page with images is one group, its images first; the blocks of another
\* page stand alone.  Pages come in the order of their first blocks.
Pictures ==
    LET first == {b \in Blocks : \A a \in Blocks : a < b => blocks[a].page # blocks[b].page}
        pages == Keep([b \in Blocks |-> blocks[b].page], first)
        on(page) == {b \in Blocks : blocks[b].page = page}
        shown(page) == Keep(Numbers(Len(blocks)), {b \in on(page) : Kind(b) = "image"})
        told(page) == Keep(Numbers(Len(blocks)), {b \in on(page) : Kind(b) # "image"})
    IN  FlattenSeq([i \in DOMAIN pages |->
                LET images == shown(pages[i])
                    text == told(pages[i])
                IN  IF images = <<>> THEN [t \in DOMAIN text |-> Places(text[t])]
                    ELSE <<Content(images \o text)>>])

GroupsOf(strategy) ==
    CASE strategy \in {"paper", "manual"} -> Sections({b \in Blocks : Kind(b) \in {"table", "image"}})
      [] strategy \in {"book", "resume"}  -> Sections({})
      [] strategy = "laws"    -> Laws
      [] strategy = "qa"      -> QuestionsAnswers
      [] strategy = "table"   -> Table
      [] strategy = "picture" -> Pictures
      [] strategy = "general" -> [b \in Blocks |-> Places(b)]

\* What _groups has a branch for; a registry holds no other strategy.
Named == {"paper", "manual", "book", "resume", "laws", "qa", "table", "picture", "general"}

TheStrategy == IF request.strategy # "auto" THEN request.strategy
               ELSE TheParser.strategy

\* ChunkerRegistry: the strategy has to be registered; groups without content
\* are left out.
ChooseStrategy ==
    /\ phase = "choose"
    /\ IF TheStrategy \notin Strategies
       THEN Fail("unknown_strategy") /\ groups' = groups
       ELSE /\ LET all == GroupsOf(TheStrategy)
               IN  groups' = Keep(all, {g \in DOMAIN all : all[g] # <<>>})
            /\ phase' = "cut" /\ error' = error
    /\ UNCHANGED <<request, parser, source, blocks, group, start, chunks>>

-----------------------------------------------------------------------------
(* The window.                                                               *)

\* The next window begins an overlap before this one's end, and at least one
\* token after its beginning.
NextStart(end) == end - (IF Overlap < request.limit THEN Overlap ELSE request.limit - 1)

Cut ==
    /\ phase = "cut" /\ group <= Len(groups)
    /\ LET size == Len(groups[group])
           end == IF start + request.limit < size THEN start + request.limit ELSE size
       IN  /\ chunks' = Append(chunks, [group |-> group, from |-> start, to |-> end])
           /\ IF end = size THEN group' = group + 1 /\ start' = 0
              ELSE group' = group /\ start' = NextStart(end)
    /\ UNCHANGED <<request, phase, parser, source, blocks, groups, error>>

Finish ==
    /\ phase = "cut" /\ group > Len(groups)
    /\ phase' = "done"
    /\ UNCHANGED <<request, parser, source, blocks, groups, group, start, chunks, error>>

ContentNext == Resolve \/ Parse \/ ChooseStrategy \/ Cut \/ Finish

ContentSpec == ContentInit /\ [][ContentNext]_contentVars

-----------------------------------------------------------------------------
(* What is assumed of the constants: a window holds a token and overlaps by  *)
(* none or more, and a parser makes a list of blocks, each a list of lines.  *)

ContentGiven ==
    /\ Limits \subseteq Nat \ {0} /\ Overlap \in Nat
    /\ Strategies \subseteq Named
    /\ \A s \in Sources :
          LET found == BlocksOf(s.format, s.elements)
          IN  /\ found \in Seq(ToSet(found))
              /\ \A b \in DOMAIN found : found[b].lines \in Seq(ToSet(found[b].lines))

ASSUME ContentAssumption == ContentGiven

-----------------------------------------------------------------------------
(* Properties.                                                               *)

\* The shape of the state.
ContentTypeOK ==
    /\ phase \in {"route", "parse", "choose", "cut", "done", "failed"}
    /\ parser \in {p.id : p \in Parsers} \cup {NoParser}
    /\ phase = "choose" => \E s \in Sources : source = s.elements
    /\ group \in 1..(Len(groups) + 1)
    /\ start \in Nat
    /\ group <= Len(groups) => start < Len(groups[group])

\* The blocks are what the parser looks for in a source, in its order where the
\* format has one: every such text is in a block, and but for the elements that
\* are Repeated in one only; and a block stands under exactly the headings around
\* it, as long as no level is skipped.
BlocksShowSource ==
    phase = "choose" =>
        LET format == TheParser.format
            at(b) == {e \in ToSet(blocks[b].from) : Filled(source[e])}
            first(b) == Head(blocks[b].from)
        IN  /\ UNION {at(b) : b \in Blocks} = Visible(format, source)
            /\ \A b, c \in Blocks : b < c =>
                  /\ at(b) \cap at(c) \subseteq Repeated(format, source)
                  /\ format \notin {"pdf", "image"} => first(b) <= first(c)
            /\ format \in {"markdown", "html", "docx", "pptx"} /\ Unskipped(format, source) =>
                  \A b \in Blocks :
                      /\ ToSet(blocks[b].path) = Chain(format, source, first(b))
                      /\ \A i, j \in DOMAIN blocks[b].path :
                            i < j => blocks[b].path[i] < blocks[b].path[j]

\* The chunks are the source: no chunk is longer than the limit, each brings
\* something the one before it did not have, what lies between them is in one
\* of them, and every line is in a chunk, unless the questions and answers leave
\* it out.
Of(g) == {i \in DOMAIN chunks : chunks[i].group = g}

ChunksCoverSource ==
    phase = "done" =>
        /\ \A i \in DOMAIN chunks : chunks[i].to - chunks[i].from \in 1..request.limit
        /\ \A g \in DOMAIN groups :
              UNION {(chunks[i].from + 1)..chunks[i].to : i \in Of(g)} = DOMAIN groups[g]
        /\ \A i, j \in DOMAIN chunks :
              i < j /\ chunks[i].group = chunks[j].group =>
                  chunks[i].from < chunks[j].from /\ chunks[i].to < chunks[j].to
        /\ TheStrategy # "qa" =>
              UNION {ToSet(groups[g]) : g \in DOMAIN groups} =
                  UNION {ToSet(Places(b)) : b \in Blocks}
=============================================================================
