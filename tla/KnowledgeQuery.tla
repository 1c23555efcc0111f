---------------------------- MODULE KnowledgeQuery ----------------------------
(***************************************************************************)
(* One question to the knowledge base: the permission-first retrieval      *)
(* (variants of the query, two search channels, fusion, reranking,         *)
(* selection, a finite list of fallback attempts, the check of what was    *)
(* found against the database) and the fixed RAG answer built on it.       *)
(*                                                                         *)
(* Documents are published, deleted and re-authorized while the question   *)
(* is answered, and the search index follows the database with a delay:    *)
(* each search and each row read sees the stores as they are at that step. *)
(* Chunk identifiers are numbers, for they break ties between scores.      *)
(* Fusion scores are the code's fractions multiplied by Scale.             *)
(***************************************************************************)
EXTENDS Lists

CONSTANTS
    Documents, Versions, Chunks,
    DocumentOf, VersionOf,      \* of every version, and of every chunk
    Length,                     \* characters of a chunk's marker in the prompt
    None,                       \* the document is deleted
    TopK, TopN,                 \* of the query
    CandidateTopK, FinalTopK, RerankCount, PerDocumentLimit, Multiplier,
    Threshold, ThresholdFloor, MaxFallback,
    RrfK, Scale,
    MaxVariants, MaxContext,
    Scores, RerankScores,       \* bound on what the channels and the reranker answer
    MaxChanges                  \* bound on the changes of documents and index

ASSUME QueryAssumption ==
    /\ Chunks \subseteq Nat /\ IsFiniteSet(Chunks)
    /\ DocumentOf \in [Versions -> Documents]
    /\ VersionOf \in [Chunks -> Versions]
    /\ Length \in [Chunks -> Nat]
    /\ None \notin Versions
    /\ Scores \subseteq Nat \ {0}
    /\ FinalTopK <= RerankCount /\ RerankCount <= CandidateTopK
    /\ ThresholdFloor <= Threshold /\ TopN <= TopK
    /\ MaxFallback \in 0..4
    /\ {TopK, TopN, CandidateTopK, FinalTopK, RerankCount, PerDocumentLimit, Multiplier, RrfK,
        MaxVariants} \subseteq Nat \ {0}
    /\ {Threshold, ThresholdFloor, Scale, MaxChanges} \subseteq Nat
    /\ RerankScores \subseteq Int

\* Scale is large enough to tell the fractions of any two ranks apart.
ASSUME ScaleAssumption ==
    \A n \in 1..Cardinality(Chunks) :
        /\ Scale \div (RrfK + n) > 0
        /\ \A m \in 1..n - 1 : Scale \div (RrfK + m) > Scale \div (RrfK + n)

VARIABLES
    current,  \* documents: current_version_id of an active one, or None
    readable, \* documents: the caller may read them
    indexed,  \* versions whose records the hard filters of a search let through
    changes,  \* how often the above have changed
    pc,
    variants, \* how many query texts are searched
    attempt, channel, variant,
    merged,   \* the channel's best score of each chunk; 0 is none
    found,    \* the ranking each channel has answered
    errors,   \* channels that failed in this attempt
    ranked,   \* candidates: fused, or selected
    answer,   \* candidates returned, one after the other as they are checked
    cited,    \* candidates in the prompt
    outcome,  \* what the call concludes with
    trace,    \* the status of the trace recorded and returned
    broken,   \* history: a search of this call has failed
    lately    \* history: versions that were current since the check began

stores  == <<current, readable, indexed, changes>>
loop    == <<attempt, channel, variant, merged, found, errors>>
history == <<broken, lately>>
vars    == <<stores, pc, variants, loop, ranked, answer, cited, outcome, trace, history>>

Channels == {"full_text", "vector"}
NoHits   == [c \in Chunks |-> 0]
NoLists  == [ch \in Channels |-> <<>>]

Init ==
    /\ \E choice \in [Documents -> Versions] :
          /\ \A d \in Documents : DocumentOf[choice[d]] = d
          /\ current = choice /\ indexed = {choice[d] : d \in Documents}
    /\ readable = Documents /\ changes = 0
    /\ pc = "authorize" /\ variants = 1
    /\ attempt = 0 /\ channel = 1 /\ variant = 1
    /\ merged = NoHits /\ found = NoLists /\ errors = {}
    /\ ranked = <<>> /\ answer = <<>> /\ cited = <<>>
    /\ outcome = "none" /\ trace = "none" /\ broken = FALSE /\ lately = {}

Smaller(a, b) == IF a < b THEN a ELSE b
Best(a, b)    == IF a > b THEN a ELSE b

-----------------------------------------------------------------------------
(* The stores change under the question.                                     *)

Change == changes < MaxChanges /\ changes' = changes + 1
Mine   == <<pc, variants, loop, ranked, answer, cited, outcome, trace, broken>>

\* A version is published, or the document is deleted or restored.
SwitchVersion(d) ==
    /\ Change
    /\ \E v \in {w \in Versions : DocumentOf[w] = d} \cup {None} :
          /\ current' = [current EXCEPT ![d] = v]
          /\ lately' = IF pc = "check" THEN lately \cup {v} ELSE lately
    /\ UNCHANGED <<readable, indexed, Mine>>

\* The index catches up, or runs ahead of a publication.
SyncIndex(d) ==
    /\ Change
    /\ \E v \in {w \in Versions : DocumentOf[w] = d} \cup {None} :
          indexed' = {w \in indexed : DocumentOf[w] # d} \cup ({v} \ {None})
    /\ UNCHANGED <<current, readable, Mine, lately>>

Revoke(d) ==
    /\ Change
    /\ readable' = readable \ {d}
    /\ UNCHANGED <<current, indexed, Mine, lately>>

-----------------------------------------------------------------------------
(* Before the search.                                                        *)

\* KnowledgeQueryService: every knowledge base exists and may be read.
Authorize ==
    /\ pc = "authorize"
    /\ \/ pc' = "transform" /\ outcome' = outcome
       \/ pc' = "raised" /\ outcome' = "denied"
    /\ UNCHANGED <<stores, variants, loop, ranked, answer, cited, trace, history>>

\* Mutant: the limit on variants is not applied to what the providers add.
VariantsUncut(texts) ==
    Cardinality({"canonical"} \cup ToSet(texts))

\* The canonical text is always a variant, and the first; rewrite, translation
\* and keyword providers add to it what they answer, a provider that fails
\* nothing; texts that are equal count once and the rest is cut off.
Variants(texts) ==
    Smaller(Cardinality({"canonical"} \cup ToSet(texts)), MaxVariants)

Transform ==
    /\ pc = "transform"
    /\ \E texts \in SeqOf({"canonical", "rewritten", "translated", "keyword"}, 3) :
          variants' = Variants(texts)
    /\ pc' = "search"
    /\ UNCHANGED <<stores, loop, ranked, answer, cited, outcome, trace, history>>

-----------------------------------------------------------------------------
(* The attempts.                                                             *)

\* Attempt 0 and the fallback definitions after it: more candidates and a lower
\* threshold, then without the inferred filter, then one channel alone.
ModeOf(a) == CASE a = 3 -> <<"full_text">>
               [] a = 4 -> <<"vector">>
               [] OTHER -> <<"full_text", "vector">>

CandidatesOf(a) == LET k == Smaller(TopK, CandidateTopK)
                   IN  IF a = 0 THEN k ELSE Smaller(10000, k * Multiplier)

ThresholdOf(a) == CASE a = 0 -> Threshold
                    [] a = 1 -> (Threshold + ThresholdFloor) \div 2
                    [] OTHER -> ThresholdFloor

\* The records the hard filters of a search let through, at the time it runs.
SearchableRecords(a) == {c \in Chunks : VersionOf[c] \in indexed}

TheChannel == ModeOf(attempt)[channel]

\* A channel's merged candidates, best first, ties by chunk id, cut to top_k.
RankingOf(score) ==
    LET all == Ordered({c \in Chunks : score[c] > 0}, score)
    IN  SubSeq(all, 1, Smaller(Len(all), CandidatesOf(attempt)))

\* The channel is through: the next one begins, or the attempt is evaluated.
CloseChannel(score) ==
    /\ found' = [found EXCEPT ![TheChannel] = RankingOf(score)]
    /\ merged' = NoHits /\ variant' = 1
    /\ IF channel < Len(ModeOf(attempt))
       THEN channel' = channel + 1 /\ pc' = pc
       ELSE channel' = channel /\ pc' = "fuse"

\* One variant is searched: at most top_k records, the inferred filter leaving
\* out any of them; a chunk several variants find keeps its best score.
SearchVariant ==
    /\ pc = "search"
    /\ \E hits \in [SearchableRecords(attempt) -> Scores \cup {0}] :
         LET hit   == {c \in DOMAIN hits : hits[c] > 0}
             score == [c \in Chunks |-> IF c \in hit THEN Best(hits[c], merged[c]) ELSE merged[c]]
         IN  /\ Cardinality(hit) <= CandidatesOf(attempt)
             /\ IF variant < variants
                THEN /\ merged' = score /\ variant' = variant + 1
                     /\ UNCHANGED <<channel, found, pc>>
                ELSE CloseChannel(score)
    /\ UNCHANGED <<stores, variants, attempt, errors, ranked, answer, cited, outcome, trace,
                   history>>

\* The search or the embedding of a variant fails: so does the channel.
SearchFails ==
    /\ pc = "search"
    /\ errors' = errors \cup {TheChannel}
    /\ CloseChannel(NoHits)
    /\ broken' = TRUE
    /\ UNCHANGED <<stores, variants, attempt, ranked, answer, cited, outcome, trace, lately>>

\* Reciprocal rank fusion.
Rank(list, c) == CHOOSE i \in DOMAIN list : list[i] = c

Share(list, c) == IF c \in ToSet(list) THEN Scale \div (RrfK + Rank(list, c)) ELSE 0

Fusion(text, vector) ==
    LET rrf   == [c \in ToSet(text) \cup ToSet(vector) |-> Share(text, c) + Share(vector, c)]
        order == Ordered(DOMAIN rrf, rrf)
    IN  [i \in DOMAIN order |-> [chunk |-> order[i], score |-> rrf[order[i]]]]

SameDocument(a, b) == DocumentOf[VersionOf[a]] = DocumentOf[VersionOf[b]]

\* Mutant: a candidate over the document's limit uses up a place.
CleanCounting(candidates, threshold, limit, top) ==
    LET step(kept, c) ==
            IF \/ c.score < threshold
               \/ Cardinality({i \in DOMAIN kept : SameDocument(kept[i].chunk, c.chunk)}) >= limit
            THEN kept ELSE Append(kept, c)
    IN  FoldLeft(step, <<>>, SubSeq(candidates, 1, Smaller(top, Len(candidates))))

\* A candidate is taken after those in kept: it reaches the threshold, its document
\* is not yet there as often as its limit, and there are not enough.
Taken(kept, c, threshold, limit, top) ==
    /\ Len(kept) < top
    /\ c.score >= threshold
    /\ Cardinality({i \in DOMAIN kept : SameDocument(kept[i].chunk, c.chunk)}) < limit

\* clean_candidates: one candidate after the other is looked at, once.
Clean(candidates, threshold, limit, top) ==
    LET kept[k \in 0..Len(candidates)] ==
            IF k = 0 THEN <<>>
            ELSE LET c == candidates[k]
                     before == kept[k - 1]
                 IN  IF Taken(before, c, threshold, limit, top) THEN Append(before, c) ELSE before
    IN  kept[Len(candidates)]

Select(candidates) ==
    Clean(candidates, ThresholdOf(attempt), PerDocumentLimit, Smaller(TopN, FinalTopK))

\* Mutant: only an attempt whose channels both failed counts as failed.
ConcludeLastError(selected) ==
    /\ merged' = NoHits /\ found' = NoLists /\ channel' = 1 /\ variant' = 1 /\ errors' = {}
    /\ IF selected # <<>>
       THEN /\ outcome' = "success" /\ pc' = "record" /\ ranked' = selected /\ attempt' = attempt
       ELSE /\ ranked' = <<>>
            /\ IF errors = Channels
               THEN outcome' = "failed" /\ pc' = "record" /\ attempt' = attempt
               ELSE IF attempt = MaxFallback
               THEN outcome' = "no_evidence" /\ pc' = "record" /\ attempt' = attempt
               ELSE outcome' = outcome /\ pc' = "search" /\ attempt' = attempt + 1

\* The attempt's end: evidence is taken though a channel failed; without any,
\* a failed channel ends the call and the next attempt follows otherwise.
Conclude(selected) ==
    /\ merged' = NoHits /\ found' = NoLists /\ channel' = 1 /\ variant' = 1 /\ errors' = {}
    /\ IF selected # <<>>
       THEN /\ outcome' = "success" /\ pc' = "record" /\ ranked' = selected /\ attempt' = attempt
       ELSE /\ ranked' = <<>>
            /\ IF errors # {}
               THEN outcome' = "failed" /\ pc' = "record" /\ attempt' = attempt
               ELSE IF attempt = MaxFallback
               THEN outcome' = "no_evidence" /\ pc' = "record" /\ attempt' = attempt
               ELSE outcome' = outcome /\ pc' = "search" /\ attempt' = attempt + 1

\* The window of the fused candidates goes to the reranker; without candidates,
\* or with every channel failed, there is nothing to rank.
Fuse ==
    /\ pc = "fuse"
    /\ LET fused == Fusion(found["full_text"], found["vector"])
       IN  IF fused = <<>>
           THEN Conclude(<<>>)
           ELSE /\ ranked' = SubSeq(fused, 1, Smaller(Len(fused), RerankCount))
                /\ pc' = "rerank"
                /\ UNCHANGED <<loop, outcome>>
    /\ UNCHANGED <<stores, variants, answer, cited, trace, history>>

\* The reranker orders and scores the same candidates anew.
Rerank ==
    /\ pc = "rerank"
    /\ \E order \in Bijection(DOMAIN ranked, DOMAIN ranked),
          score \in [DOMAIN ranked -> RerankScores] :
          Conclude(Select([i \in DOMAIN ranked |->
                             [chunk |-> ranked[order[i]].chunk, score |-> score[i]]]))
    /\ UNCHANGED <<stores, variants, answer, cited, trace, history>>

\* It fails, takes too long or answers other candidates: the fused order stays.
RerankFails ==
    /\ pc = "rerank"
    /\ Conclude(Select(ranked))
    /\ UNCHANGED <<stores, variants, answer, cited, trace, history>>

\* The trace is stored, or the failure to store it is counted; either way the
\* call goes on, and raises if the retrieval failed.
RecordTrace ==
    /\ pc = "record"
    /\ pc' = CASE outcome = "success" -> "check"
               [] outcome = "failed" -> "raised"
               [] OTHER -> "returned"
    /\ trace' = outcome
    /\ lately' = {current[d] : d \in Documents}
    /\ UNCHANGED <<stores, variants, loop, ranked, answer, cited, outcome, broken>>

-----------------------------------------------------------------------------
(* The check of what was found against the database, and the answer.         *)

\* Mutant: the document's status is looked at, its current version is not.
CheckStatus ==
    /\ pc = "check"
    /\ LET c == Head(ranked).chunk
           v == current[DocumentOf[VersionOf[c]]]
           left == Tail(ranked)
           kept == IF v # None THEN Append(answer, c) ELSE answer
       IN  /\ ranked' = left
           /\ answer' = kept
           /\ IF left # <<>> THEN pc' = pc /\ outcome' = outcome
              ELSE IF kept # <<>> THEN pc' = "context" /\ outcome' = outcome
              ELSE pc' = "returned" /\ outcome' = "no_evidence"
    /\ UNCHANGED <<stores, variants, loop, cited, trace, history>>

\* Each candidate's document is read: one that is not found, or at another version, is
\* left out, a current one the caller may not read ends the call.
CheckCandidate ==
    /\ pc = "check"
    /\ LET c == Head(ranked).chunk
           document == {d \in Documents : d = DocumentOf[VersionOf[c]] /\ current[d] = VersionOf[c]}
           left == Tail(ranked)
           kept == IF document # {} THEN Append(answer, c) ELSE answer
       IN  IF ~(document \subseteq readable)
           THEN pc' = "raised" /\ outcome' = "denied" /\ ranked' = <<>> /\ answer' = <<>>
           ELSE /\ ranked' = left
                /\ answer' = kept
                /\ IF left # <<>> THEN pc' = pc /\ outcome' = outcome
                   ELSE IF kept # <<>> THEN pc' = "context" /\ outcome' = outcome
                   ELSE pc' = "returned" /\ outcome' = "no_evidence"
    /\ UNCHANGED <<stores, variants, loop, cited, trace, history>>

\* FixedRagService: the prompt takes candidates in order until one does not
\* fit, the first one always.
Prompt(list) ==
    LET size(n) == FoldLeft(LAMBDA sum, c : sum + Length[c], 0, SubSeq(list, 1, n))
        fits == {n \in 1..Len(list) : \A m \in 2..n : size(m) <= MaxContext}
    IN  SubSeq(list, 1, CHOOSE n \in fits : \A m \in fits : m <= n)

\* The model is called, within the caller's budget; it may fail.
Generate ==
    /\ pc = "context"
    /\ \/ cited' = Prompt(answer) /\ pc' = "returned" /\ outcome' = "answered"
       \/ cited' = cited /\ pc' = "raised" /\ outcome' = "failed"
    /\ UNCHANGED <<stores, variants, loop, ranked, answer, trace, history>>

-----------------------------------------------------------------------------
Step == \/ Authorize \/ Transform \/ SearchVariant \/ SearchFails \/ Fuse
        \/ Rerank \/ RerankFails \/ RecordTrace \/ CheckCandidate \/ Generate

Next == \/ Step
        \/ \E d \in Documents : SwitchVersion(d) \/ SyncIndex(d) \/ Revoke(d)

Spec == Init /\ [][Next]_vars

-----------------------------------------------------------------------------
(* Properties.                                                               *)

\* The shape of the stores and of the call's state.
TypeOK ==
    /\ current \in [Documents -> Versions \cup {None}]
    /\ readable \subseteq Documents /\ indexed \subseteq Versions
    /\ changes \in 0..MaxChanges
    /\ pc \in {"authorize", "transform", "search", "fuse", "rerank", "record", "check",
               "context", "returned", "raised"}
    /\ variants \in 1..MaxVariants
    /\ attempt \in 0..MaxFallback /\ channel \in 1..2 /\ variant \in 1..variants
    /\ merged \in [Chunks -> Scores \cup {0}]
    /\ \A ch \in Channels : /\ ToSet(found[ch]) \subseteq Chunks
                            /\ Cardinality(ToSet(found[ch])) = Len(found[ch])
    /\ errors \subseteq Channels
    /\ \A i \in DOMAIN ranked : ranked[i].chunk \in Chunks
    /\ ToSet(answer) \subseteq Chunks /\ Cardinality(ToSet(answer)) = Len(answer)
    /\ outcome \in {"none", "success", "no_evidence", "failed", "denied", "answered"}

\* What is returned was current while the results were checked, however far the
\* index lags behind the database: neither an old version nor a document deleted
\* before the check, and two versions of one document only if it was switched
\* in the middle of it.
EvidenceIsCurrent == \A i \in DOMAIN answer : VersionOf[answer[i]] \in lately

\* An outage never passes for a lack of evidence: when the retrieval records
\* that there is none, every search of every attempt has been answered.
EmptyIsHonest == trace = "no_evidence" => ~broken

\* Fusion and selection against their definitions.  A candidate no channel ranks
\* below another, and one ranks above it, comes first; and of candidates scored
\* in any way those are selected which reach the threshold, are among the first
\* of their document to do so and among the first of all that are left.
Above(list, a, b) == \/ a \in ToSet(list) /\ b \notin ToSet(list)
                     \/ /\ {a, b} \subseteq ToSet(list)
                        /\ Rank(list, a) < Rank(list, b)
RankingIsSound ==
    pc = "rerank" =>
        LET place(c) == CHOOSE i \in DOMAIN ranked : ranked[i].chunk = c
            chunks == {ranked[i].chunk : i \in DOMAIN ranked}
            lists == {found[ch] : ch \in Channels}
            top == Smaller(TopN, FinalTopK)
        IN  /\ \A a, b \in chunks :
                  /\ \E list \in lists : Above(list, a, b)
                  /\ \A list \in lists : ~Above(list, b, a)
                  => place(a) < place(b)
            /\ \A score \in [DOMAIN ranked -> RerankScores] :
                  LET passed == {i \in DOMAIN ranked : score[i] >= ThresholdOf(attempt)}
                      spread == {i \in passed : Cardinality({j \in passed :
                                   j < i /\ SameDocument(ranked[j].chunk, ranked[i].chunk)})
                                 < PerDocumentLimit}
                      chosen == {i \in spread : Cardinality({j \in spread : j < i}) < top}
                      rescored == [i \in DOMAIN ranked |->
                                     [chunk |-> ranked[i].chunk, score |-> score[i]]]
                      selected == Select(rescored)
                  IN  ToSet(selected) = {rescored[i] : i \in chosen}

\* Documented: a lack of evidence and a failure are told apart.  They are not
\* when a channel failed and the check leaves out all the other one found: the
\* answer is that there is no evidence, and its trace records a success.
EmptyIsNoFailure == pc = "returned" /\ outcome = "no_evidence" => ~broken
=============================================================================
