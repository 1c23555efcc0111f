--------------------------- MODULE AdvancedKnowledge ---------------------------
(***************************************************************************)
(* What is derived from the chunks of a version and how it joins the       *)
(* retrieval: the RAPTOR tree, the graph and its builds, the windows of a  *)
(* time series, the context around a hit, and the candidates merged into   *)
(* those of the base retriever.                                            *)
(*                                                                         *)
(* A chunk has its version, whether it is of the knowledge base asked for, *)
(* the entities found in it, its parent or Absent, and its tokens; it is     *)
(* known by its place in the sequence of chunks.                           *)
(***************************************************************************)
EXTENDS Lists

CONSTANTS
    Inputs,      \* sequences of chunks
    MaxLevels,   \* of a tree
    MaxChunks, MaxEntities, MaxEdges, PerChunk,   \* AdvancedResourceBudget
    MaxTokens,   \* of an expanded context
    Series,      \* sequences of points: at, value or Absent
    Window,      \* seconds of a window
    Bases,       \* results of the base retriever, sequences of candidates
    Offers,      \* what the providers have for a base: manifest, candidates or Absent
    Active,      \* versions the retriever was told of
    TopMerged,
    Builders,    \* callers of a graph build
    Absent

\* What the callers hand in is lists; a base result is in the order of its scores
\* and has no chunk twice.
ASSUME AdvancedAssumption ==
    /\ {MaxLevels, Window, MaxTokens} \subseteq Nat \ {0} /\ {TopMerged, PerChunk} \subseteq Nat
    /\ \A s \in Inputs :
          /\ s \in Seq(ToSet(s))
          /\ \A i \in DOMAIN s : s[i].tokens \in Nat /\ s[i].entities \in Seq(ToSet(s[i].entities))
    /\ \A s \in Series : s \in Seq(ToSet(s)) /\ \A i \in DOMAIN s : s[i].at \in Nat
    /\ \A b \in Bases :
          /\ b \in Seq(ToSet(b)) /\ \A i \in DOMAIN b : b[i].score \in Int
          /\ \A i, j \in DOMAIN b : i < j => b[i].chunk # b[j].chunk /\ b[i].score >= b[j].score
    /\ \A s \in Offers :
          /\ s \in Seq(ToSet(s))
          /\ \A o \in DOMAIN s : s[o].candidates # Absent =>
                LET c == s[o].candidates
                IN  c \in Seq(ToSet(c)) /\ \A i \in DOMAIN c : c[i].score \in Int

VARIABLES
    made,   \* the last thing derived: kind, what it is made from and what it is
    row,    \* the build's row, or Absent
    copies  \* the build as each caller has it

advancedVars == <<made, row, copies>>

Underived == [kind |-> "nothing"]
Pending == [status |-> "pending", requested |-> FALSE]

AdvancedInit == made = Underived /\ row = Absent /\ copies = [b \in Builders |-> Pending]

Scope(chunk) == <<chunk.version, chunk.ours>>
OneScope(chunks) == \A i, j \in DOMAIN chunks : Scope(chunks[i]) = Scope(chunks[j])

-----------------------------------------------------------------------------
(* RAPTOR.                                                                   *)

\* Mutant: the odd node at the end of a level is dropped.
PairsOnly(level) ==
    [i \in 1..(Len(level) \div 2) |->
        [leaves |-> level[2 * i - 1].leaves \o level[2 * i].leaves]]

\* Two neighbours have a parent, the last node alone has one too.
Parents(level) ==
    [i \in 1..((Len(level) + 1) \div 2) |->
        [leaves |-> level[2 * i - 1].leaves \o
                    (IF 2 * i \in DOMAIN level THEN level[2 * i].leaves ELSE <<>>)]]

\* Levels are added until there is one root or no level left.
Tree(chunks) ==
    LET tree[l \in 0..(MaxLevels - 1)] ==
            IF l = 0 THEN << [i \in DOMAIN chunks |-> [leaves |-> <<i>>]] >>
            ELSE IF Len(Last(tree[l - 1])) = 1 THEN tree[l - 1]
            ELSE Append(tree[l - 1], Parents(Last(tree[l - 1])))
    IN  tree[MaxLevels - 1]

BuildTree ==
    /\ \E chunks \in Inputs :
          /\ chunks # <<>> /\ OneScope(chunks)
          /\ made' = [kind |-> "tree", from |-> chunks, levels |-> Tree(chunks)]
    /\ UNCHANGED <<row, copies>>

-----------------------------------------------------------------------------
(* GraphRAG.                                                                 *)

Entities(chunk) == [i \in 1..(IF Len(chunk.entities) < PerChunk THEN Len(chunk.entities)
                                                               ELSE PerChunk) |-> chunk.entities[i]]
Neighbours(chunk) == LET e == Entities(chunk) IN {{e[i], e[i + 1]} : i \in 1..(Len(e) - 1)}

\* Who mentions an entity, and who names two of them next to each other.
Graph(chunks) ==
    LET names == UNION {ToSet(Entities(chunks[i])) : i \in DOMAIN chunks}
        edges == UNION {Neighbours(chunks[i]) : i \in DOMAIN chunks}
    IN  [entities |-> [n \in names |-> {i \in DOMAIN chunks : n \in ToSet(Entities(chunks[i]))}],
         edges |-> [e \in edges |-> {i \in DOMAIN chunks : e \in Neighbours(chunks[i])}],
         communities |-> [n \in UNION edges |-> UNION {e \in edges : n \in e}]]

TooLarge(graph) ==
    Cardinality(DOMAIN graph.entities) > MaxEntities \/ Cardinality(DOMAIN graph.edges) > MaxEdges

ReadBuild(b) ==
    /\ row # Absent /\ copies' = [copies EXCEPT ![b] = row]
    /\ UNCHANGED <<made, row>>

\* A build that has succeeded under its key is not made again.  The caller's copy
\* is what the row is overwritten with, whatever it says by then.
BuildGraph(b) ==
    /\ (row # Absent => row.status # "succeeded")
    /\ \E chunks \in Inputs :
          LET graph == Graph(chunks)
              saves(status) == row' = [copies[b] EXCEPT !.status = status]
          IN  IF Len(chunks) > MaxChunks THEN saves("failed") /\ made' = made
              ELSE IF copies[b].requested THEN saves("cancelled") /\ made' = made
              ELSE IF \E i \in DOMAIN chunks : ~chunks[i].ours THEN saves("running") /\ made' = made
              ELSE IF TooLarge(graph) THEN saves("failed") /\ made' = made
              ELSE /\ saves("succeeded")
                   /\ made' = [kind |-> "graph", from |-> chunks, graph |-> graph]
    /\ UNCHANGED copies

Cancel ==
    /\ row # Absent
    /\ row' = [status |-> "cancelled", requested |-> TRUE]
    /\ UNCHANGED <<made, copies>>

-----------------------------------------------------------------------------
(* The context around a hit: its neighbours, its parent, and every chunk     *)
(* with the same parent, which is every chunk if it has none, as far as the  *)
(* tokens last.                                                              *)

Around(chunks, hit) ==
    {i \in DOMAIN chunks :
        /\ Scope(chunks[i]) = Scope(chunks[hit])
        /\ \/ i \in {hit - 1, hit, hit + 1} \/ i = chunks[hit].parent
           \/ chunks[i].parent = chunks[hit].parent}

Expanded(chunks, hit) ==
    LET upTo[i \in 0..Len(chunks)] ==
            IF i = 0 THEN [used |-> 0, taken |-> <<>>]
            ELSE LET done == upTo[i - 1]
                     used == done.used + chunks[i].tokens
                 IN  IF i \in Around(chunks, hit) /\ used <= MaxTokens
                     THEN [used |-> used, taken |-> Append(done.taken, i)] ELSE done
    IN  upTo[Len(chunks)]

Expand ==
    /\ \E chunks \in Inputs : \E hit \in DOMAIN chunks :
          made' = [kind |-> "context", from |-> chunks, hit |-> hit,
                   context |-> Expanded(chunks, hit)]
    /\ UNCHANGED <<row, copies>>

-----------------------------------------------------------------------------
(* Windows of a series, from its earliest point on; empty ones are left out. *)

Windows(points) ==
    LET anchor == CHOOSE t \in {points[i].at : i \in DOMAIN points} :
                     \A i \in DOMAIN points : t <= points[i].at
        index(i) == (points[i].at - anchor) \div Window
        bucket(w) == {i \in DOMAIN points : index(i) = w}
        present(w) == {i \in bucket(w) : points[i].value # Absent}
        used == Ascending({index(i) : i \in DOMAIN points})
    IN  [w \in DOMAIN used |->
            [start |-> anchor + used[w] * Window, count |-> Cardinality(present(used[w])),
             missing |-> Cardinality(bucket(used[w]) \ present(used[w]))]]

MakeWindows ==
    /\ \E points \in Series :
          /\ points # <<>>
          /\ made' = [kind |-> "windows", from |-> points, windows |-> Windows(points)]
    /\ UNCHANGED <<row, copies>>

-----------------------------------------------------------------------------
(* AdvancedRetriever.                                                        *)

\* check_manifest, fail closed.
Usable(manifest) ==
    /\ manifest # Absent /\ manifest.schema = 1 /\ manifest.complete
    /\ manifest.fits                       \* the capability and the knowledge base
    /\ manifest.versions \subseteq Active

\* The better of two scores for a chunk, at the place of the first.
Join(list, c) ==
    IF \E i \in DOMAIN list : list[i].chunk = c.chunk
    THEN [i \in DOMAIN list |-> IF list[i].chunk = c.chunk /\ c.score > list[i].score
                                THEN c ELSE list[i]]
    ELSE Append(list, c)

Admitted(offer) ==
    IF Usable(offer.manifest) /\ offer.candidates # Absent
    THEN LET c == offer.candidates
         IN  Keep(c, {i \in DOMAIN c : c[i].fits /\ c[i].version \in Active})
    ELSE <<>>

AllAdmitted(offers) == FlattenSeq([o \in DOMAIN offers |-> Admitted(offers[o])])

\* The dictionary of candidates, and the best of it.
Merged(base, offers) ==
    LET more == AllAdmitted(offers)
        upTo[k \in 0..Len(more)] == IF k = 0 THEN base ELSE Join(upTo[k - 1], more[k])
        all == upTo[Len(more)]
        order == Ordered(DOMAIN all, [i \in DOMAIN all |-> all[i].score])
    IN  [i \in 1..(IF Len(all) < TopMerged THEN Len(all) ELSE TopMerged) |-> all[order[i]]]

Retrieve ==
    /\ \E base \in Bases, offers \in Offers :
          made' = [kind |-> "merged", from |-> base, offers |-> offers,
                   result |-> Merged(base, offers)]
    /\ UNCHANGED <<row, copies>>

AdvancedNext == \/ BuildTree \/ Expand \/ MakeWindows \/ Retrieve \/ Cancel
        \/ \E b \in Builders : ReadBuild(b) \/ BuildGraph(b)

AdvancedSpec == AdvancedInit /\ [][AdvancedNext]_advancedVars

-----------------------------------------------------------------------------
(* Properties.                                                               *)

Builds == [status : {"pending", "running", "cancelled", "failed", "succeeded"}, requested : BOOLEAN]

\* The shape of the state; a build whose cancellation its caller saw has no graph.
AdvancedTypeOK ==
    /\ made.kind \in {"nothing", "tree", "graph", "context", "windows", "merged"}
    /\ row \in Builds \cup {Absent} /\ copies \in [Builders -> Builds]
    /\ row # Absent => (row.requested => row.status \in {"cancelled", "failed"})

\* Every level of a tree holds every leaf once, in order, and is smaller than
\* the one below; it ends in one root or at the limit.
TreeKeepsLeaves(t) ==
    /\ \A l \in DOMAIN t.levels :
          FlattenSeq([n \in DOMAIN t.levels[l] |-> t.levels[l][n].leaves])
              = [i \in DOMAIN t.from |-> i]
    /\ \A l \in 1..(Len(t.levels) - 1) : Len(t.levels[l + 1]) < Len(t.levels[l])
    /\ Len(t.levels) = MaxLevels \/ Len(Last(t.levels)) = 1

\* A relation comes from chunks that mention both its ends, and those who are
\* in a community are in each other's.
GraphIsGrounded(g) ==
    /\ \A e \in DOMAIN g.graph.edges : \A n \in e :
          g.graph.edges[e] \subseteq g.graph.entities[n] /\ g.graph.edges[e] # {}
    /\ \A n, o \in DOMAIN g.graph.communities :
          n \in g.graph.communities[o] <=> o \in g.graph.communities[n]

\* Every point is in a window, a window counts the points in it and has one, and
\* windows follow each other.
WindowsHoldPoints(w) ==
    LET in(v) == {i \in DOMAIN w.from : w.windows[v].start <= w.from[i].at
                                        /\ w.from[i].at < w.windows[v].start + Window}
    IN  /\ \A i \in DOMAIN w.from : \E v \in DOMAIN w.windows : i \in in(v)
        /\ \A v \in DOMAIN w.windows :
              /\ in(v) # {}
              /\ w.windows[v].count = Cardinality({i \in in(v) : w.from[i].value # Absent})
              /\ w.windows[v].missing = Cardinality({i \in in(v) : w.from[i].value = Absent})
        /\ \A v \in 1..(Len(w.windows) - 1) :
              w.windows[v].start + Window <= w.windows[v + 1].start

\* The tokens of some of the chunks.
TokensOf(chunks, some) ==
    LET upTo[i \in 0..Len(chunks)] ==
            IF i = 0 THEN 0 ELSE upTo[i - 1] + (IF i \in some THEN chunks[i].tokens ELSE 0)
    IN  upTo[Len(chunks)]

\* A context is of one version and within its tokens, and the hit is in it unless
\* what stands before it takes up the tokens.
ContextHasHit(x) ==
    LET taken == ToSet(x.context.taken)
    IN  /\ \A i \in taken : Scope(x.from[i]) = Scope(x.from[x.hit])
        /\ TokensOf(x.from, taken) <= MaxTokens
        /\ \/ x.hit \in taken
           \/ TokensOf(x.from, {i \in taken : i < x.hit}) + x.from[x.hit].tokens > MaxTokens

\* The result is the best of what the base and the admitted offers have for each
\* chunk; without an admitted offer it is the base's.
MergeIsBest(m) ==
    LET all == ToSet(m.from) \cup UNION {ToSet(Admitted(m.offers[o])) : o \in DOMAIN m.offers}
        best == {c \in all : \A d \in all : d.chunk = c.chunk => d.score <= c.score}
    IN  /\ ToSet(m.result) \subseteq best
        /\ \A i, j \in DOMAIN m.result : i < j =>
              m.result[i].chunk # m.result[j].chunk /\ m.result[i].score >= m.result[j].score
        /\ \A c \in best : \/ \E i \in DOMAIN m.result : m.result[i].chunk = c.chunk
                           \/ /\ Len(m.result) = TopMerged
                              /\ \A i \in DOMAIN m.result : m.result[i].score >= c.score
        /\ (\A o \in DOMAIN m.offers : Admitted(m.offers[o]) = <<>>) =>
              m.result = SubSeq(m.from, 1, Len(m.result))

\* What is derived holds its sources: nothing is lost of what it is made from,
\* and nothing is in it that was not.
DerivedKeepsSources ==
    CASE made.kind = "tree"    -> TreeKeepsLeaves(made)
      [] made.kind = "graph"   -> GraphIsGrounded(made)
      [] made.kind = "windows" -> WindowsHoldPoints(made)
      [] made.kind = "context" -> ContextHasHit(made)
      [] made.kind = "merged"  -> MergeIsBest(made)
      [] OTHER -> TRUE
=============================================================================
