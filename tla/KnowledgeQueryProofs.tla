------------------------- MODULE KnowledgeQueryProofs -------------------------
(***************************************************************************)
(* That evidence is current, that an outage is never taken for a lack of    *)
(* evidence and that ranking and selection do what they are defined to,    *)
(* for any documents, channels' answers and number of changes to the       *)
(* stores while a question is answered.                                    *)
(***************************************************************************)
EXTENDS KnowledgeQuery, FiniteSetTheorems, FunctionTheorems, SequenceTheorems, TLAPS

-----------------------------------------------------------------------------
(* An outage is not a lack of evidence.                                      *)

\* A search that failed is among the attempt's errors until the attempt is concluded,
\* and no attempt follows it.
OutageInv ==
    /\ pc \in {"authorize", "transform"} => ~broken /\ errors = {}
    /\ pc \in {"search", "fuse", "rerank"} => ~broken \/ errors # {}
    /\ pc = "record" => ~broken \/ outcome # "no_evidence"
    /\ trace = "no_evidence" => ~broken /\ pc \in {"returned", "check", "context", "raised"}
    /\ pc \in {"authorize", "transform", "search", "fuse", "rerank", "record"} => trace = "none"

\* An attempt's end, with whatever it has selected.
LEMMA ConcludeKeepsOutage ==
    ASSUME OutageInv, pc \in {"fuse", "rerank"}, NEW selected, Conclude(selected),
           trace' = trace, broken' = broken
    PROVE  OutageInv'
  BY DEF OutageInv, Conclude

\* No step forgets an outage before the call has concluded.
LEMMA OutageKept ==
    ASSUME OutageInv, [Next]_vars PROVE OutageInv'
<1>1. CASE Authorize
  BY <1>1 DEF OutageInv, Authorize, stores, loop, history
<1>2. CASE Transform
  BY <1>2 DEF OutageInv, Transform, stores, loop, history
<1>3. CASE SearchVariant
  BY <1>3 DEF OutageInv, SearchVariant, CloseChannel, stores, history
<1>4. CASE SearchFails
  BY <1>4 DEF OutageInv, SearchFails, CloseChannel, stores
<1>5. CASE Fuse
  BY <1>5, ConcludeKeepsOutage DEF OutageInv, Fuse, loop, stores, history
<1>6. CASE Rerank
  BY <1>6, ConcludeKeepsOutage DEF Rerank, history
<1>7. CASE RerankFails
  BY <1>7, ConcludeKeepsOutage DEF RerankFails, history
<1>8. CASE RecordTrace
  BY <1>8 DEF OutageInv, RecordTrace
<1>9. CASE CheckCandidate
  BY <1>9 DEF OutageInv, CheckCandidate, history
<1>10. CASE Generate
  BY <1>10 DEF OutageInv, Generate, history
<1>11. CASE \E d \in Documents : SwitchVersion(d) \/ SyncIndex(d) \/ Revoke(d)
  BY <1>11 DEF OutageInv, SwitchVersion, SyncIndex, Revoke, Mine, loop
<1>12. CASE UNCHANGED vars
  BY <1>12 DEF OutageInv, vars, loop, history
<1> QED
  BY <1>1, <1>2, <1>3, <1>4, <1>5, <1>6, <1>7, <1>8, <1>9, <1>10, <1>11, <1>12 DEF Next, Step

\* A trace that records a lack of evidence is of a call whose every search was answered
\* (PermissionFirstRetriever.retrieve), whatever the channels and the reranker did.
THEOREM EmptyMeansEmpty == Spec => []EmptyIsHonest
<1>1. Init => OutageInv
  BY DEF Init, OutageInv
<1>2. OutageInv /\ [Next]_vars => OutageInv'
  BY OutageKept
<1>3. OutageInv => EmptyIsHonest
  BY DEF OutageInv, EmptyIsHonest
<1> QED
  BY <1>1, <1>2, <1>3, PTL DEF Spec

-----------------------------------------------------------------------------
(* What is returned was current while it was checked.                        *)

\* Nothing is returned before the check; from its beginning every version that is
\* current is noted, and what has passed is one of them.
EvidenceInv ==
    /\ current \in [Documents -> Versions \cup {None}]
    /\ pc \in {"authorize", "transform", "search", "fuse", "rerank", "record"} => answer = <<>>
    /\ pc = "check" => \A d \in Documents : current[d] \in lately
    /\ answer \in Seq({answer[i] : i \in DOMAIN answer})
    /\ EvidenceIsCurrent

\* A step that neither looks at the answer nor begins the check.
LEMMA EvidenceStays ==
    ASSUME EvidenceInv, UNCHANGED <<current, answer, lately>>,
           \/ /\ pc \in {"authorize", "transform", "search", "fuse", "rerank"}
              /\ pc' # "check"
           \/ pc' = pc
           \/ pc' \in {"returned", "raised"}
    PROVE  EvidenceInv'
  BY DEF EvidenceInv, EvidenceIsCurrent

\* A publication or a deletion while results are checked is noted.
LEMMA SwitchKeepsEvidence ==
    ASSUME EvidenceInv, NEW d \in Documents, SwitchVersion(d) PROVE EvidenceInv'
<1>1. PICK v \in Versions \cup {None} :
         /\ current' = [current EXCEPT ![d] = v]
         /\ lately' = IF pc = "check" THEN lately \cup {v} ELSE lately
  BY DEF SwitchVersion
<1>2. pc' = pc /\ answer' = answer /\ lately \subseteq lately'
  BY <1>1 DEF SwitchVersion, Mine
<1>3. \A e \in Documents : current'[e] = current[e] \/ current'[e] = v
  BY <1>1 DEF EvidenceInv
<1>4. current' \in [Documents -> Versions \cup {None}]
  BY <1>1 DEF EvidenceInv
<1>5. pc' = "check" => \A e \in Documents : current'[e] \in lately'
  BY <1>1, <1>2, <1>3 DEF EvidenceInv
<1> QED
  BY <1>2, <1>4, <1>5 DEF EvidenceInv, EvidenceIsCurrent

\* A candidate passes when its version is the current one of a document that is found.
LEMMA CheckKeepsEvidence ==
    ASSUME EvidenceInv, CheckCandidate PROVE EvidenceInv'
<1> DEFINE c == Head(ranked).chunk
           known == {answer[i] : i \in DOMAIN answer}
<1>1. /\ pc = "check" /\ pc' \in {"check", "context", "returned", "raised"}
      /\ UNCHANGED <<current, lately>>
      /\ \/ answer' = <<>> \/ answer' = answer
         \/ /\ answer' = Append(answer, c)
            /\ \E d \in Documents : current[d] = VersionOf[c]
  BY DEF CheckCandidate, stores, history
<1> HIDE DEF c
<1>2. CASE answer' = <<>>
  BY <1>1, <1>2 DEF EvidenceInv, EvidenceIsCurrent
<1>3. CASE answer' = answer
  BY <1>1, <1>3 DEF EvidenceInv, EvidenceIsCurrent
<1>4. CASE answer' = Append(answer, c) /\ \E d \in Documents : current[d] = VersionOf[c]
  <2>1. answer \in Seq(known \cup {c})
    BY DEF EvidenceInv
  <2>2. /\ DOMAIN answer' = 1..Len(answer) + 1 /\ DOMAIN answer = 1..Len(answer)
        /\ Len(answer) \in Nat
        /\ \A i \in DOMAIN answer : answer'[i] = answer[i]
        /\ answer'[Len(answer) + 1] = c
    BY <1>4, <2>1
  <2>3. VersionOf[c] \in lately
    BY <1>1, <1>4 DEF EvidenceInv
  <2>4. EvidenceIsCurrent'
    <3> SUFFICES ASSUME NEW i \in DOMAIN answer' PROVE VersionOf[answer'[i]] \in lately
      BY <1>1 DEF EvidenceIsCurrent
    <3>1. i \in DOMAIN answer \/ i = Len(answer) + 1
      BY <2>2
    <3> QED
      BY <2>2, <2>3, <3>1 DEF EvidenceInv, EvidenceIsCurrent
  <2>5. answer' \in Seq({answer'[i] : i \in DOMAIN answer'})
    BY <2>2, <1>4, <2>1
  <2> QED
    BY <1>1, <2>4, <2>5 DEF EvidenceInv
<1> QED
  BY <1>1, <1>2, <1>3, <1>4

\* Every step keeps it.
LEMMA EvidenceKept ==
    ASSUME EvidenceInv, [Next]_vars PROVE EvidenceInv'
<1>1. CASE Authorize \/ Transform
  BY <1>1, EvidenceStays DEF Authorize, Transform, stores, history
<1>2. CASE SearchVariant \/ SearchFails
  BY <1>2, EvidenceStays DEF SearchVariant, SearchFails, CloseChannel, stores, history
<1>3. CASE Fuse
  BY <1>3, EvidenceStays DEF Fuse, Conclude, stores, history
<1>4. ASSUME NEW selected, pc = "rerank", Conclude(selected),
             UNCHANGED <<stores, answer, history>>
      PROVE  EvidenceInv'
  BY <1>4, EvidenceStays DEF Conclude, stores, history
<1>5. CASE Rerank
  BY <1>4, <1>5 DEF Rerank
<1>6. CASE RerankFails
  BY <1>4, <1>6 DEF RerankFails
<1>7. CASE RecordTrace
  <2>1. /\ pc = "record" /\ lately' = {current[d] : d \in Documents}
        /\ answer' = answer /\ current' = current
        /\ pc' \in {"check", "raised", "returned"}
    BY <1>7 DEF RecordTrace, stores
  <2> QED
    BY <2>1 DEF EvidenceInv, EvidenceIsCurrent
<1>8. CASE CheckCandidate
  BY <1>8, CheckKeepsEvidence
<1>9. CASE Generate
  BY <1>9, EvidenceStays DEF Generate, stores, history
<1>10. ASSUME NEW d \in Documents, SwitchVersion(d) \/ SyncIndex(d) \/ Revoke(d)
       PROVE  EvidenceInv'
  BY <1>10, SwitchKeepsEvidence, EvidenceStays DEF SyncIndex, Revoke, Mine
<1>11. CASE UNCHANGED vars
  BY <1>11, EvidenceStays DEF vars, stores, history
<1> QED
  BY <1>1, <1>2, <1>3, <1>5, <1>6, <1>7, <1>8, <1>9, <1>10, <1>11 DEF Next, Step

\* Whatever is returned was current at some time during the check against the database,
\* however far the index is from it and whatever is published or deleted meanwhile
\* (KnowledgeQueryService.retrieve).
THEOREM EvidenceStaysCurrent == Spec => []EvidenceIsCurrent
<1>1. Init => EvidenceInv
  BY QueryAssumption DEF Init, EvidenceInv, EvidenceIsCurrent
<1>2. EvidenceInv /\ [Next]_vars => EvidenceInv'
  BY EvidenceKept
<1>3. EvidenceInv => EvidenceIsCurrent
  BY DEF EvidenceInv
<1> QED
  BY <1>1, <1>2, <1>3, PTL DEF Spec

-----------------------------------------------------------------------------
(* Counting, by induction on the natural numbers.                            *)

\* The order of the natural numbers, as a set of pairs.
Before == {p \in Nat \X Nat : p[1] < p[2]}

\* A set of natural numbers that is not empty has a least element.
LEMMA LeastNat ==
  ASSUME NEW S \in SUBSET Nat, S # {}
  PROVE  \E n \in S : \A m \in S : n <= m
<1>1. IsWellFoundedOn(Before, Nat)
  BY NatLessThanWellFounded DEF OpToRel, Before
<1>2. PICK n \in S : \A m \in S : ~ (<<m, n>> \in Before)
  BY <1>1, WFMin
<1>3. \A m, o \in Nat : m < o => <<m, o>> \in Before
  BY DEF Before
<1>4. \A m \in S : ~ (m < n)
  BY <1>2, <1>3, Zenon
<1>5. n \in Nat /\ \A m \in S : m \in Nat
  OBVIOUS
<1> QED
  BY <1>4, <1>5

\* Induction: a set of natural numbers with zero and every successor is all of them.
LEMMA NatInd ==
  ASSUME NEW S \in SUBSET Nat, 0 \in S, \A n \in S : n + 1 \in S
  PROVE  S = Nat
<1> SUFFICES ASSUME Nat \ S # {} PROVE FALSE
  OBVIOUS
<1>1. PICK n \in Nat \ S : \A m \in Nat \ S : n <= m
  BY LeastNat
<1>2. n # 0 /\ n - 1 \in Nat
  BY <1>1
<1>3. n - 1 \in S
  BY <1>1, <1>2
<1> QED
  BY <1>1, <1>2, <1>3

\* The elements of a set that are at most k.
UpTo(P, k) == {i \in P : i <= k}
FirstOf(P, limit) == {i \in P : Cardinality({j \in P : j < i}) < limit}

\* From k to k + 1 the elements up to it stay the same, or become one more.
LEMMA UpToGrows ==
  ASSUME NEW P \in SUBSET Nat, IsFiniteSet(P), NEW k \in Nat
  PROVE  /\ IsFiniteSet(UpTo(P, k)) /\ Cardinality(UpTo(P, k)) \in Nat
         /\ {j \in P : j < k + 1} = UpTo(P, k)
         /\ k + 1 \notin P => UpTo(P, k + 1) = UpTo(P, k)
         /\ k + 1 \in P => /\ UpTo(P, k + 1) = UpTo(P, k) \cup {k + 1}
                           /\ Cardinality(UpTo(P, k + 1)) = Cardinality(UpTo(P, k)) + 1
<1>1. UpTo(P, k) \in SUBSET P
  BY DEF UpTo
<1>2. IsFiniteSet(UpTo(P, k)) /\ Cardinality(UpTo(P, k)) \in Nat
  BY <1>1, FS_Subset, FS_CardinalityType
<1>3. /\ {j \in P : j < k + 1} = UpTo(P, k)
      /\ k + 1 \notin P => UpTo(P, k + 1) = UpTo(P, k)
      /\ k + 1 \in P => UpTo(P, k + 1) = UpTo(P, k) \cup {k + 1}
      /\ k + 1 \notin UpTo(P, k)
  <2>1. \A j \in Nat : (j < k + 1 <=> j <= k) /\ (j <= k + 1 <=> j <= k \/ j = k + 1)
    OBVIOUS
  <2>2. ~(k + 1 <= k)
    OBVIOUS
  <2> QED
    BY <2>1, <2>2, Zenon DEF UpTo
<1>4. Cardinality(UpTo(P, k) \cup {k + 1}) = Cardinality(UpTo(P, k)) + 1
  BY <1>2, <1>3, FS_AddElement
<1> QED
  BY <1>2, <1>3, <1>4

\* Of the first so many elements of a set, up to any place, there are as many as there
\* are of the set, at most the limit.
LEMMA FirstOfCounts ==
  ASSUME NEW P \in SUBSET (Nat \ {0}), IsFiniteSet(P), NEW limit \in Nat
  PROVE  \A k \in Nat : Cardinality(UpTo(FirstOf(P, limit), k)) =
                          Smaller(Cardinality(UpTo(P, k)), limit)
<1> DEFINE F == FirstOf(P, limit)
           S == {k \in Nat : Cardinality(UpTo(F, k)) = Smaller(Cardinality(UpTo(P, k)), limit)}
<1>1. F \in SUBSET P /\ IsFiniteSet(F) /\ F \in SUBSET Nat /\ P \in SUBSET Nat
  <2>1. F \in SUBSET P
    BY DEF FirstOf
  <2> QED
    BY <2>1, FS_Subset
<1>2. 0 \in S
  <2>1. UpTo(F, 0) = {} /\ UpTo(P, 0) = {}
    <3> HIDE DEF F
    <3>1. \A j \in Nat \ {0} : ~(j <= 0)
      OBVIOUS
    <3> QED
      BY <1>1, <3>1, Zenon DEF UpTo
  <2> QED
    BY <2>1, FS_EmptySet DEF Smaller
<1>3. ASSUME NEW k \in S PROVE k + 1 \in S
  <2> HIDE DEF F
  <2>1. k \in Nat /\ Cardinality(UpTo(F, k)) = Smaller(Cardinality(UpTo(P, k)), limit)
    OBVIOUS
  <2>2. Cardinality(UpTo(P, k)) \in Nat /\ {j \in P : j < k + 1} = UpTo(P, k)
    BY <1>1, <2>1, UpToGrows
  <2>3. k + 1 \in F <=> k + 1 \in P /\ Cardinality(UpTo(P, k)) < limit
    BY <2>1, <2>2 DEF F, FirstOf
  <2>4. k + 1 \in P => Cardinality(UpTo(P, k + 1)) = Cardinality(UpTo(P, k)) + 1
    BY <1>1, <2>1, UpToGrows
  <2>5. k + 1 \notin P => UpTo(P, k + 1) = UpTo(P, k)
    BY <1>1, <2>1, UpToGrows
  <2>6. k + 1 \in F => Cardinality(UpTo(F, k + 1)) = Cardinality(UpTo(F, k)) + 1
    BY <1>1, <2>1, UpToGrows
  <2>7. k + 1 \notin F => UpTo(F, k + 1) = UpTo(F, k)
    BY <1>1, <2>1, UpToGrows
  <2>8. Cardinality(UpTo(F, k + 1)) = Smaller(Cardinality(UpTo(P, k + 1)), limit)
    BY <2>1, <2>2, <2>3, <2>4, <2>5, <2>6, <2>7 DEF Smaller
  <2> QED
    BY <2>1, <2>8
<1>4. S = Nat
  <2> HIDE DEF S
  <2>1. S \in SUBSET Nat
    BY DEF S
  <2> QED
    BY <1>2, <1>3, <2>1, NatInd
<1> QED
  BY <1>4

-----------------------------------------------------------------------------
(* Chunks in order, and the rankings of the channels.                        *)

\* What of some chunks is ahead of one of them.
AheadOf(S, score, c) == {a \in S : Ahead(score, a, c)}

\* Being ahead is a strict total order (sorted by score, then by identifier).
LEMMA AheadIsOrder ==
    ASSUME NEW S \in SUBSET Nat, NEW score, \A c \in S : score[c] \in Int
    PROVE  /\ \A a \in S : ~Ahead(score, a, a)
           /\ \A a, b \in S : a # b => Ahead(score, a, b) \/ Ahead(score, b, a)
           /\ \A a, b, c \in S : Ahead(score, a, b) /\ Ahead(score, b, c) => Ahead(score, a, c)
<1>1. \A c \in S : c \in Nat
  OBVIOUS
<1>2. \A a \in S : ~Ahead(score, a, a)
  BY <1>1 DEF Ahead
<1>3. \A a, b \in S : a # b => Ahead(score, a, b) \/ Ahead(score, b, a)
  BY <1>1 DEF Ahead
<1>4. \A a, b, c \in S : Ahead(score, a, b) /\ Ahead(score, b, c) => Ahead(score, a, c)
  BY <1>1 DEF Ahead
<1> QED
  BY <1>2, <1>3, <1>4

\* Ordered puts every chunk in one place, each ahead of those after it.
LEMMA OrderedSorts ==
    ASSUME NEW S \in SUBSET Nat, IsFiniteSet(S), NEW score, \A c \in S : score[c] \in Int
    PROVE  /\ Cardinality(S) \in Nat
           /\ Ordered(S, score) \in [1..Cardinality(S) -> S]
           /\ \A i, j \in 1..Cardinality(S) :
                 i < j => Ahead(score, Ordered(S, score)[i], Ordered(S, score)[j])
           /\ \A c \in S : \E i \in 1..Cardinality(S) : Ordered(S, score)[i] = c
<1> DEFINE n == Cardinality(S)
           before(c) == AheadOf(S, score, c)
           r == [c \in S |-> Cardinality(before(c))]
           o == Ordered(S, score)
<1>1. n \in Nat
  BY FS_CardinalityType
<1>2. ASSUME NEW c \in S
      PROVE  /\ IsFiniteSet(before(c)) /\ before(c) \in SUBSET S /\ c \notin before(c)
             /\ r[c] \in Nat /\ r[c] = Cardinality(before(c))
             /\ Cardinality(before(c) \cup {c}) = r[c] + 1
  <2>1. before(c) \in SUBSET S
    BY DEF AheadOf
  <2>2. IsFiniteSet(before(c)) /\ Cardinality(before(c)) \in Nat
    BY <2>1, FS_Subset, FS_CardinalityType
  <2>3. c \notin before(c)
    BY AheadIsOrder DEF AheadOf
  <2>4. Cardinality(before(c) \cup {c}) = Cardinality(before(c)) + 1
    <3> HIDE DEF before
    <3> QED
      BY <2>2, <2>3, FS_AddElement
  <2> QED
    BY <2>1, <2>2, <2>3, <2>4
<1>3. ASSUME NEW c \in S PROVE r[c] \in 0..n - 1
  <2> HIDE DEF before, r
  <2>1. before(c) \cup {c} \in SUBSET S
    BY <1>2
  <2>2. Cardinality(before(c) \cup {c}) <= n
    BY <2>1, FS_Subset
  <2> QED
    BY <1>1, <1>2, <2>2
<1>4. ASSUME NEW a \in S, NEW b \in S, Ahead(score, a, b) PROVE r[a] < r[b]
  <2>1. before(a) \cup {a} \in SUBSET before(b)
    BY <1>4, AheadIsOrder DEF AheadOf
  <2> HIDE DEF before, r
  <2>2. Cardinality(before(a) \cup {a}) <= Cardinality(before(b))
    BY <1>2, <2>1, FS_Subset
  <2>3. r[a] \in Nat /\ Cardinality(before(a) \cup {a}) = r[a] + 1
    BY <1>2
  <2>4. r[b] \in Nat /\ Cardinality(before(b)) = r[b]
    BY <1>2
  <2> QED
    BY <2>2, <2>3, <2>4
<1> HIDE DEF before, n
<1>5. r \in [S -> 0..n - 1]
  BY <1>3
<1> HIDE DEF r
<1>6. \A a, b \in S : r[a] = r[b] => a = b
  <2>1. \A a \in S : r[a] \in Nat
    BY <1>2
  <2>2. \A a, b \in S : Ahead(score, a, b) => r[a] < r[b]
    BY <1>4
  <2>3. \A a, b \in S : Ahead(score, a, b) => r[a] # r[b]
    BY <2>1, <2>2
  <2> QED
    BY <2>3, AheadIsOrder
<1>7. \A k \in 0..n - 1 : \E c \in S : r[c] = k
  <2>1. r \in Injection(S, 0..n - 1)
    BY <1>5, <1>6, Fun_IsInj
  <2>2. IsFiniteSet(0..n - 1) /\ Cardinality(0..n - 1) = n
    BY <1>1, FS_Interval
  <2>3. r \in Surjection(S, 0..n - 1)
    BY <2>1, <2>2, FS_Injection DEF n
  <2> QED
    BY <2>3 DEF Surjection
<1>8. ASSUME NEW i \in 1..n PROVE o[i] \in S /\ r[o[i]] = i - 1
  <2>1. i - 1 \in 0..n - 1
    BY <1>1
  <2>2. \E c \in S : r[c] = i - 1
    BY <1>7, <2>1
  <2>3. o[i] = CHOOSE c \in S : Cardinality(before(c)) = i - 1
    BY DEF Ordered, before, AheadOf, n
  <2>4. \E c \in S : Cardinality(before(c)) = i - 1
    BY <1>2, <2>2
  <2>5. o[i] \in S /\ Cardinality(before(o[i])) = i - 1
    <3> HIDE DEF o
    <3> QED
      BY <2>3, <2>4
  <2> QED
    BY <1>2, <2>5
<1>9. o \in [1..n -> S]
  BY <1>8 DEF Ordered, n
<1> HIDE DEF o
<1>10. ASSUME NEW i \in 1..n, NEW j \in 1..n, i < j PROVE Ahead(score, o[i], o[j])
  <2>1. i \in Int /\ j \in Int
    BY <1>1
  <2>2. ~(r[o[j]] < r[o[i]]) /\ r[o[i]] # r[o[j]]
    BY <1>8, <1>10, <2>1
  <2> QED
    BY <1>4, <1>8, <2>2, AheadIsOrder
<1>11. ASSUME NEW c \in S PROVE \E i \in 1..n : o[i] = c
  <2>1. r[c] \in 0..n - 1
    BY <1>3
  <2>2. r[c] + 1 \in 1..n /\ (r[c] + 1) - 1 = r[c]
    BY <1>1, <2>1
  <2>3. o[r[c] + 1] \in S /\ r[o[r[c] + 1]] = r[c]
    BY <1>8, <2>2
  <2> QED
    BY <1>6, <2>2, <2>3
<1> QED
  BY <1>1, <1>9, <1>10, <1>11 DEF n, o

\* A channel's ranking: chunks one after the other, none twice.
IsRanking(list) ==
    /\ list \in Seq(Chunks)
    /\ \A i, j \in DOMAIN list : list[i] = list[j] => i = j

\* A ranking has a place for each of its chunks, and Rank finds it.
LEMMA RankingFacts ==
    ASSUME NEW list, IsRanking(list)
    PROVE  /\ Len(list) \in Nat /\ DOMAIN list = 1..Len(list)
           /\ ToSet(list) \in SUBSET Chunks
           /\ Cardinality(ToSet(list)) = Len(list)
           /\ Len(list) <= Cardinality(Chunks) /\ Cardinality(Chunks) \in Nat
           /\ \A i \in 1..Len(list) : list[i] \in ToSet(list) /\ Rank(list, list[i]) = i
           /\ \A c \in ToSet(list) : Rank(list, c) \in 1..Len(list) /\ list[Rank(list, c)] = c
<1>1. /\ Len(list) \in Nat /\ DOMAIN list = 1..Len(list)
      /\ list \in [1..Len(list) -> Chunks]
  BY DEF IsRanking
<1>2. ToSet(list) = {list[i] : i \in 1..Len(list)}
  BY <1>1 DEF ToSet
<1>3. \A i \in 1..Len(list) : list[i] \in ToSet(list)
  BY <1>2
<1>4. ToSet(list) \in SUBSET Chunks
  BY <1>1, <1>2
<1>5. \A i, j \in 1..Len(list) : list[i] = list[j] => i = j
  BY <1>1 DEF IsRanking
<1>6. IsFiniteSet(Chunks) /\ Cardinality(Chunks) \in Nat
  BY QueryAssumption, FS_CardinalityType
<1>7. /\ list \in [1..Len(list) -> ToSet(list)]
      /\ \A c \in ToSet(list) : \E i \in 1..Len(list) : list[i] = c
  BY <1>1, <1>2, <1>3
<1>8. list \in Bijection(1..Len(list), ToSet(list))
  BY <1>5, <1>7, Fun_IsBij
<1>9. Cardinality(ToSet(list)) = Len(list)
  BY <1>1, <1>8, FS_CountingElements DEF ExistsBijection
<1>10. Cardinality(ToSet(list)) <= Cardinality(Chunks)
  BY <1>4, <1>6, FS_Subset
<1>11. \A c \in ToSet(list) : Rank(list, c) \in 1..Len(list) /\ list[Rank(list, c)] = c
  BY <1>1, <1>7 DEF Rank
<1>12. \A i \in 1..Len(list) : Rank(list, list[i]) = i
  BY <1>3, <1>5, <1>11
<1> QED
  BY <1>1, <1>3, <1>4, <1>6, <1>9, <1>10, <1>11, <1>12

\* What a rank is worth.
Part(n) == Scale \div (RrfK + n)

\* Parts are positive, and a lower rank is worth more.
LEMMA PartFacts ==
    /\ \A n \in 1..Cardinality(Chunks) : Part(n) \in Nat /\ Part(n) > 0
    /\ \A m, n \in 1..Cardinality(Chunks) : m < n => Part(m) > Part(n)
<1>1. Cardinality(Chunks) \in Nat
  BY QueryAssumption, FS_CardinalityType
<1>2. ASSUME NEW n \in 1..Cardinality(Chunks) PROVE Part(n) \in Int
  <2>1. Scale \in Nat /\ RrfK \in Nat /\ n \in Nat /\ n > 0
    BY <1>1, QueryAssumption
  <2> QED
    BY <2>1 DEF Part
<1>3. \A n \in 1..Cardinality(Chunks) :
         Part(n) > 0 /\ \A m \in 1..n - 1 : Part(m) > Part(n)
  BY ScaleAssumption DEF Part
<1>4. ASSUME NEW m \in 1..Cardinality(Chunks), NEW n \in 1..Cardinality(Chunks), m < n
      PROVE  Part(m) > Part(n)
  <2>1. m \in 1..n - 1
    BY <1>1, <1>4
  <2> QED
    BY <1>3, <2>1
<1> QED
  BY <1>2, <1>3, <1>4

\* A chunk above another has the greater share of a ranking, one that is not below it
\* no smaller share.
LEMMA ShareFacts ==
    ASSUME NEW list, IsRanking(list)
    PROVE  /\ \A c \in Chunks : Share(list, c) \in Nat
           /\ \A a, b \in Chunks : Above(list, a, b) => Share(list, a) > Share(list, b)
           /\ \A a, b \in Chunks : ~Above(list, b, a) => Share(list, a) >= Share(list, b)
<1> DEFINE N == Cardinality(Chunks)
<1>1. /\ N \in Nat /\ Len(list) \in Nat /\ Len(list) <= N
      /\ \A c \in ToSet(list) : Rank(list, c) \in 1..Len(list) /\ list[Rank(list, c)] = c
  BY RankingFacts
<1>2. \A c \in ToSet(list) : Rank(list, c) \in 1..N
  BY <1>1
<1> HIDE DEF N
<1>3. /\ \A c \in ToSet(list) : Share(list, c) = Part(Rank(list, c))
      /\ \A c : c \notin ToSet(list) => Share(list, c) = 0
  BY DEF Share, Part
<1>4. /\ \A c \in ToSet(list) : Share(list, c) \in Nat /\ Share(list, c) > 0
  BY <1>2, <1>3, PartFacts DEF N
<1>5. \A a, b \in ToSet(list) : Rank(list, a) < Rank(list, b) => Share(list, a) > Share(list, b)
  BY <1>2, <1>3, PartFacts DEF N
<1>6. \A c \in Chunks : Share(list, c) \in Nat
  BY <1>3, <1>4
<1>7. ASSUME NEW a \in Chunks, NEW b \in Chunks, Above(list, a, b)
      PROVE  Share(list, a) > Share(list, b)
  BY <1>3, <1>4, <1>5, <1>7 DEF Above
<1>8. ASSUME NEW a \in Chunks, NEW b \in Chunks, ~Above(list, b, a)
      PROVE  Share(list, a) >= Share(list, b)
  <2>1. CASE a \in ToSet(list) /\ b \in ToSet(list)
    <3>1. ~(Rank(list, b) < Rank(list, a))
      BY <1>8, <2>1 DEF Above
    <3>2. Rank(list, a) = Rank(list, b) => Share(list, a) = Share(list, b)
      BY <1>3, <2>1
    <3>3. Rank(list, a) \in Nat /\ Rank(list, b) \in Nat
      BY <1>1, <2>1
    <3>4. Rank(list, a) < Rank(list, b) => Share(list, a) > Share(list, b)
      BY <1>5, <2>1
    <3>5. Share(list, a) \in Nat /\ Share(list, b) \in Nat
      BY <1>6
    <3> QED
      BY <3>1, <3>2, <3>3, <3>4, <3>5
  <2>2. CASE b \notin ToSet(list)
    BY <1>3, <1>6, <2>2
  <2>3. CASE a \notin ToSet(list) /\ b \in ToSet(list)
    BY <1>8, <2>3 DEF Above
  <2> QED
    BY <2>1, <2>2, <2>3
<1> QED
  BY <1>6, <1>7, <1>8

\* Chunks put in order are a ranking of just these chunks.
LEMMA OrderedIsRanking ==
    ASSUME NEW S \in SUBSET Chunks, NEW score, \A c \in S : score[c] \in Int
    PROVE  /\ IsRanking(Ordered(S, score))
           /\ Len(Ordered(S, score)) = Cardinality(S)
           /\ ToSet(Ordered(S, score)) = S
           /\ \A i, j \in 1..Cardinality(S) :
                 i < j => Ahead(score, Ordered(S, score)[i], Ordered(S, score)[j])
<1> DEFINE o == Ordered(S, score)
           n == Cardinality(S)
<1>1. S \in SUBSET Nat /\ IsFiniteSet(S)
  BY QueryAssumption, FS_Subset
<1>2. /\ n \in Nat /\ o \in [1..n -> S]
      /\ \A i, j \in 1..n : i < j => Ahead(score, o[i], o[j])
      /\ \A c \in S : \E i \in 1..n : o[i] = c
  BY <1>1, OrderedSorts
<1> HIDE DEF o, n
<1>3. o \in Seq(Chunks) /\ Len(o) = n /\ DOMAIN o = 1..n
  BY <1>2
<1>4. ToSet(o) = S
  BY <1>2 DEF ToSet
<1>5. \A i, j \in 1..n : o[i] = o[j] => i = j
  <2>1. \A i, j \in 1..n : i < j => o[i] # o[j]
    BY <1>1, <1>2, AheadIsOrder
  <2>2. \A i, j \in 1..n : i = j \/ i < j \/ j < i
    BY <1>2
  <2> QED
    BY <2>1, <2>2, Zenon
<1> QED
  BY <1>2, <1>3, <1>4, <1>5 DEF IsRanking, o, n

\* The first of a ranking.
LEMMA FirstOfRanking ==
    ASSUME NEW list, IsRanking(list), NEW n \in Nat
    PROVE  IsRanking(SubSeq(list, 1, Smaller(Len(list), n)))
<1> DEFINE k == Smaller(Len(list), n)
           cut == SubSeq(list, 1, k)
<1>1. list \in Seq(Chunks) /\ Len(list) \in Nat /\ k \in 0..Len(list)
  BY DEF IsRanking, Smaller
<1> HIDE DEF k
<1>2. cut \in Seq(Chunks) /\ DOMAIN cut = 1..k /\ \A i \in 1..k : cut[i] = list[i]
  BY <1>1
<1>3. 1..k \subseteq DOMAIN list
  BY <1>1
<1> QED
  BY <1>2, <1>3 DEF IsRanking, k

\* The number of candidates is a number.
LEMMA CandidatesOfType ==
    \A a \in 0..4 : CandidatesOf(a) \in Nat
  BY QueryAssumption DEF CandidatesOf, Smaller

\* A channel answers with a ranking (OnlineRetrievalService._collect_channel).
LEMMA RankingOfType ==
    ASSUME attempt \in 0..4, NEW score, \A c \in Chunks : score[c] \in Int
    PROVE  IsRanking(RankingOf(score))
<1>1. IsRanking(Ordered({c \in Chunks : score[c] > 0}, score))
  BY OrderedIsRanking
<1> QED
  BY <1>1, CandidatesOfType, FirstOfRanking DEF RankingOf

\* Candidates: chunks with scores, no chunk twice.
AreCandidates(list) ==
    /\ list \in Seq([chunk : Chunks, score : Int])
    /\ \A i, j \in DOMAIN list : list[i].chunk = list[j].chunk => i = j

\* reciprocal_rank_fusion: every chunk once, and one that no channel ranks below another
\* and one channel ranks above it comes first.
LEMMA FusionSorts ==
    ASSUME NEW text, IsRanking(text), NEW vector, IsRanking(vector)
    PROVE  /\ AreCandidates(Fusion(text, vector))
           /\ \A i, j \in DOMAIN Fusion(text, vector) :
                 LET a == Fusion(text, vector)[i].chunk
                     b == Fusion(text, vector)[j].chunk
                 IN  /\ \E list \in {text, vector} : Above(list, a, b)
                     /\ \A list \in {text, vector} : ~Above(list, b, a)
                     => i < j
<1> DEFINE S == ToSet(text) \cup ToSet(vector)
           rrf == [c \in S |-> Share(text, c) + Share(vector, c)]
           o == Ordered(S, rrf)
           n == Cardinality(S)
           f == Fusion(text, vector)
<1>1. S \in SUBSET Chunks
  BY RankingFacts
<1>2. \A c \in S : rrf[c] \in Int /\ rrf[c] = Share(text, c) + Share(vector, c)
  BY <1>1, ShareFacts
<1>3. DOMAIN rrf = S
  OBVIOUS
<1>4. f = [i \in DOMAIN o |-> [chunk |-> o[i], score |-> rrf[o[i]]]]
  BY <1>3 DEF Fusion
<1> HIDE DEF rrf, S, f
<1>5. /\ IsRanking(o) /\ Len(o) = n /\ ToSet(o) = S
      /\ \A i, j \in 1..n : i < j => Ahead(rrf, o[i], o[j])
  BY <1>1, <1>2, OrderedIsRanking
<1>6. DOMAIN o = 1..n /\ n \in Nat /\ \A i \in 1..n : o[i] \in S
  BY <1>5, RankingFacts
<1> HIDE DEF o, n
<1>7. f = [i \in 1..n |-> [chunk |-> o[i], score |-> rrf[o[i]]]]
  BY <1>4, <1>6
<1>8. \A i \in 1..n : f[i] = [chunk |-> o[i], score |-> rrf[o[i]]]
  BY <1>7
<1>9. \A i \in 1..n : f[i].chunk = o[i] /\ f[i] \in [chunk : Chunks, score : Int]
  <2>1. \A i \in 1..n : o[i] \in Chunks /\ rrf[o[i]] \in Int
    BY <1>1, <1>2, <1>6
  <2>2. ASSUME NEW i \in 1..n, NEW c \in Chunks, c = o[i], NEW s \in Int, s = rrf[o[i]]
        PROVE  f[i].chunk = o[i] /\ f[i] \in [chunk : Chunks, score : Int]
    <3>1. f[i] = [chunk |-> c, score |-> s]
      BY <1>8, <2>2
    <3> QED
      BY <2>2, <3>1
  <2> QED
    BY <2>1, <2>2
<1>10. f \in Seq([chunk : Chunks, score : Int]) /\ DOMAIN f = 1..n
  <2> DEFINE C == [chunk : Chunks, score : Int]
  <2>1. \A i \in 1..n : f[i] \in C
    BY <1>9
  <2> HIDE DEF C
  <2>2. f \in [1..n -> C]
    BY <1>7, <2>1
  <2>3. f \in Seq(C)
    BY <1>6, <2>2
  <2> QED
    BY <2>2, <2>3 DEF C
<1>11. AreCandidates(f)
  <2>1. \A i, j \in 1..n : o[i] = o[j] => i = j
    BY <1>5, <1>6 DEF IsRanking
  <2>2. \A i, j \in 1..n : f[i].chunk = f[j].chunk => i = j
    BY <1>9, <2>1
  <2> QED
    BY <1>10, <2>2 DEF AreCandidates
<1>12. ASSUME NEW i \in 1..n, NEW j \in 1..n,
              \E list \in {text, vector} : Above(list, o[i], o[j]),
              \A list \in {text, vector} : ~Above(list, o[j], o[i])
       PROVE  i < j
  <2>1. o[i] \in Chunks /\ o[j] \in Chunks /\ o[i] \in S /\ o[j] \in S
    BY <1>1, <1>6
  <2>2. /\ Share(text, o[i]) \in Nat /\ Share(text, o[j]) \in Nat
        /\ Share(vector, o[i]) \in Nat /\ Share(vector, o[j]) \in Nat
    BY <2>1, ShareFacts
  <2>3. Share(text, o[i]) >= Share(text, o[j]) /\ Share(vector, o[i]) >= Share(vector, o[j])
    BY <1>12, <2>1, ShareFacts
  <2>4. Share(text, o[i]) > Share(text, o[j]) \/ Share(vector, o[i]) > Share(vector, o[j])
    BY <1>12, <2>1, ShareFacts
  <2>5. rrf[o[i]] > rrf[o[j]]
    BY <1>2, <2>1, <2>2, <2>3, <2>4
  <2>6. rrf[o[i]] \in Int /\ rrf[o[j]] \in Int
    BY <1>2, <2>1
  <2>7. ~Ahead(rrf, o[j], o[i])
    BY <2>5, <2>6 DEF Ahead
  <2>8. ~(j < i)
    BY <1>5, <2>7
  <2>9. i # j
    BY <2>5, <2>6
  <2> QED
    BY <1>6, <2>8, <2>9
<1> QED
  BY <1>9, <1>10, <1>11, <1>12 DEF f

-----------------------------------------------------------------------------
(* Selection: one candidate after the other against its definition.          *)

\* The candidates that reach the threshold; those of the same document as one of
\* them; the first of every document; and how many of a list share a document.
PassedOf(cand, threshold) == {i \in DOMAIN cand : cand[i].score >= threshold}
LikeOf(cand, P, i)        == {j \in P : SameDocument(cand[j].chunk, cand[i].chunk)}
SpreadOf(cand, P, limit)  == {i \in P : Cardinality({j \in LikeOf(cand, P, i) : j < i}) < limit}
CountOf(list, c)          == Cardinality({p \in DOMAIN list : SameDocument(list[p].chunk, c.chunk)})

ChosenOf(cand, threshold, limit, top) ==
    FirstOf(SpreadOf(cand, PassedOf(cand, threshold), limit), top)

\* Of one document, the spread are the first candidates up to the limit.
LEMMA SpreadLike ==
    ASSUME NEW cand, NEW P, NEW limit, NEW i
    PROVE  LikeOf(cand, SpreadOf(cand, P, limit), i) = FirstOf(LikeOf(cand, P, i), limit)
<1>1. \A j : SameDocument(cand[j].chunk, cand[i].chunk) => LikeOf(cand, P, j) = LikeOf(cand, P, i)
  BY DEF LikeOf, SameDocument
<1>2. \A j : j \in LikeOf(cand, SpreadOf(cand, P, limit), i)
               <=> /\ j \in P /\ SameDocument(cand[j].chunk, cand[i].chunk)
                   /\ Cardinality({m \in LikeOf(cand, P, j) : m < j}) < limit
  BY Zenon DEF SpreadOf, LikeOf
<1>3. \A j : j \in FirstOf(LikeOf(cand, P, i), limit)
               <=> /\ j \in P /\ SameDocument(cand[j].chunk, cand[i].chunk)
                   /\ Cardinality({m \in LikeOf(cand, P, i) : m < j}) < limit
  BY Zenon DEF FirstOf, LikeOf
<1>4. \A j : SameDocument(cand[j].chunk, cand[i].chunk) =>
               (Cardinality({m \in LikeOf(cand, P, j) : m < j}) < limit
                  <=> Cardinality({m \in LikeOf(cand, P, i) : m < j}) < limit)
  BY <1>1, Zenon
<1> QED
  BY <1>2, <1>3, <1>4, Zenon

\* Candidates of one document, up to a place.
LEMMA LikeUpTo ==
    ASSUME NEW cand, NEW P, NEW k, NEW i
    PROVE  LikeOf(cand, UpTo(P, k), i) = UpTo(LikeOf(cand, P, i), k)
  BY DEF LikeOf, UpTo

\* The shape of candidates.
LEMMA CandidateFacts ==
    ASSUME NEW cand, AreCandidates(cand)
    PROVE  /\ Len(cand) \in Nat /\ DOMAIN cand = 1..Len(cand)
           /\ \A i \in 1..Len(cand) : /\ cand[i].chunk \in Chunks /\ cand[i].score \in Int
                                      /\ cand[i] \in [chunk : Chunks, score : Int]
<1> DEFINE C == [chunk : Chunks, score : Int]
<1>1. cand \in Seq(C)
  BY DEF AreCandidates
<1>2. /\ Len(cand) \in Nat /\ DOMAIN cand = 1..Len(cand)
      /\ \A i \in 1..Len(cand) : cand[i] \in [chunk : Chunks, score : Int]
  <2> HIDE DEF C
  <2>1. /\ Len(cand) \in Nat /\ DOMAIN cand = 1..Len(cand)
        /\ \A i \in 1..Len(cand) : cand[i] \in C
    BY <1>1
  <2> QED
    BY <2>1 DEF C
<1>3. ASSUME NEW i \in 1..Len(cand)
      PROVE  /\ cand[i].chunk \in Chunks /\ cand[i].score \in Int
             /\ cand[i] \in [chunk : Chunks, score : Int]
  BY <1>2
<1> QED
  BY <1>2, <1>3

\* Sets of places of candidates are finite.
LEMMA PlacesFinite ==
    ASSUME NEW cand, AreCandidates(cand), NEW P \in SUBSET (DOMAIN cand)
    PROVE  P \in SUBSET (Nat \ {0}) /\ IsFiniteSet(P)
<1>1. P \in SUBSET (1..Len(cand)) /\ Len(cand) \in Nat
  BY CandidateFacts
<1>2. IsFiniteSet(1..Len(cand))
  BY <1>1, FS_Interval
<1>3. P \in SUBSET (Nat \ {0})
  BY <1>1
<1> QED
  BY <1>1, <1>2, <1>3, FS_Subset

\* The next candidate is taken just when it is one of the chosen.
LEMMA TakenIsChosen ==
    ASSUME NEW cand, AreCandidates(cand), NEW threshold, NEW limit \in Nat, NEW top \in Nat,
           NEW k \in Nat, k + 1 \in DOMAIN cand, NEW kept,
           Len(kept) = Cardinality(UpTo(ChosenOf(cand, threshold, limit, top), k)),
           CountOf(kept, cand[k + 1]) =
             Cardinality(LikeOf(cand, UpTo(ChosenOf(cand, threshold, limit, top), k), k + 1))
    PROVE  Taken(kept, cand[k + 1], threshold, limit, top)
             <=> k + 1 \in ChosenOf(cand, threshold, limit, top)
<1> DEFINE P == PassedOf(cand, threshold)
           S == SpreadOf(cand, P, limit)
           C == ChosenOf(cand, threshold, limit, top)
           L == LikeOf(cand, P, k + 1)
<1>1. /\ P \in SUBSET (DOMAIN cand) /\ S \in SUBSET P /\ C \in SUBSET S /\ L \in SUBSET P
      /\ C = FirstOf(S, top)
  BY DEF PassedOf, SpreadOf, ChosenOf, FirstOf, LikeOf
<1>2. LikeOf(cand, S, k + 1) = FirstOf(L, limit)
  BY SpreadLike
<1>3. k + 1 \in P <=> cand[k + 1].score >= threshold
  BY DEF PassedOf
<1>4. k + 1 \in S <=> k + 1 \in P /\ Cardinality({j \in L : j < k + 1}) < limit
  BY DEF SpreadOf
<1>5. k + 1 \in C <=> k + 1 \in S /\ Cardinality({j \in S : j < k + 1}) < top
  BY DEF ChosenOf, FirstOf
<1>6. Taken(kept, cand[k + 1], threshold, limit, top)
        <=> /\ Cardinality(UpTo(C, k)) < top
            /\ cand[k + 1].score >= threshold
            /\ Cardinality(LikeOf(cand, UpTo(C, k), k + 1)) < limit
  BY DEF Taken, CountOf
<1> HIDE DEF P, S, C, L
<1>7. /\ S \in SUBSET (Nat \ {0}) /\ IsFiniteSet(S)
      /\ L \in SUBSET (Nat \ {0}) /\ IsFiniteSet(L)
      /\ C \in SUBSET (Nat \ {0}) /\ IsFiniteSet(C)
  <2>1. S \in SUBSET (DOMAIN cand) /\ L \in SUBSET (DOMAIN cand) /\ C \in SUBSET (DOMAIN cand)
    BY <1>1
  <2> QED
    BY <2>1, PlacesFinite
<1>8. S \in SUBSET Nat /\ L \in SUBSET Nat /\ C \in SUBSET Nat
  BY <1>7
<1>9. /\ {j \in S : j < k + 1} = UpTo(S, k) /\ {j \in L : j < k + 1} = UpTo(L, k)
      /\ IsFiniteSet(UpTo(S, k)) /\ Cardinality(UpTo(S, k)) \in Nat
      /\ Cardinality(UpTo(L, k)) \in Nat
  BY <1>7, <1>8, UpToGrows
<1>10. Cardinality(UpTo(C, k)) = Smaller(Cardinality(UpTo(S, k)), top)
  BY <1>1, <1>7, FirstOfCounts
<1>11. Cardinality(UpTo(C, k)) < top <=> Cardinality(UpTo(S, k)) < top
  BY <1>9, <1>10 DEF Smaller
<1>12. Cardinality(UpTo(S, k)) < top =>
         Cardinality(LikeOf(cand, UpTo(C, k), k + 1)) = Smaller(Cardinality(UpTo(L, k)), limit)
  <2> SUFFICES ASSUME Cardinality(UpTo(S, k)) < top
               PROVE  Cardinality(LikeOf(cand, UpTo(C, k), k + 1)) =
                        Smaller(Cardinality(UpTo(L, k)), limit)
    OBVIOUS
  <2>1. UpTo(C, k) \in SUBSET UpTo(S, k)
    BY <1>1 DEF UpTo
  <2>2. Cardinality(UpTo(C, k)) = Cardinality(UpTo(S, k))
    BY <1>9, <1>10 DEF Smaller
  <2>3. UpTo(C, k) = UpTo(S, k)
    BY <1>9, <2>1, <2>2, FS_Subset
  <2>4. LikeOf(cand, UpTo(C, k), k + 1) = UpTo(FirstOf(L, limit), k)
    BY <1>2, <2>3, LikeUpTo
  <2>5. Cardinality(UpTo(FirstOf(L, limit), k)) = Smaller(Cardinality(UpTo(L, k)), limit)
    BY <1>7, FirstOfCounts
  <2> QED
    BY <2>4, <2>5
<1>13. Smaller(Cardinality(UpTo(L, k)), limit) < limit <=> Cardinality(UpTo(L, k)) < limit
  BY <1>9 DEF Smaller
<1> QED
  BY <1>3, <1>4, <1>5, <1>6, <1>9, <1>11, <1>12, <1>13, Zenon DEF C

\* What one candidate does to those kept before it.
CleanStep(cand, threshold, limit, top, before, k) ==
    IF Taken(before, cand[k], threshold, limit, top) THEN Append(before, cand[k]) ELSE before

\* What is kept after each candidate up to the n-th.
IsCleaning(f, cand, threshold, limit, top, n) ==
    f = [k \in 0..n |-> IF k = 0 THEN <<>> ELSE CleanStep(cand, threshold, limit, top, f[k - 1], k)]

\* The recursion of clean_candidates defines a function, for any number of candidates.
LEMMA CleaningExists ==
    ASSUME NEW cand, NEW threshold, NEW limit, NEW top
    PROVE  \A n \in Nat : \E f : IsCleaning(f, cand, threshold, limit, top, n)
<1> DEFINE S == {n \in Nat : \E f : IsCleaning(f, cand, threshold, limit, top, n)}
           step(before, k) == CleanStep(cand, threshold, limit, top, before, k)
<1>1. 0 \in S
  <2> DEFINE f == [k \in 0..0 |-> <<>>]
  <2>1. IsCleaning(f, cand, threshold, limit, top, 0)
    BY DEF IsCleaning
  <2> QED
    BY <2>1
<1>2. ASSUME NEW n \in S PROVE n + 1 \in S
  <2>1. n \in Nat
    OBVIOUS
  <2>2. PICK f : IsCleaning(f, cand, threshold, limit, top, n)
    OBVIOUS
  <2> DEFINE g == [k \in 0..n + 1 |-> IF k = n + 1 THEN step(f[n], n + 1) ELSE f[k]]
  <2>3. f = [k \in 0..n |-> IF k = 0 THEN <<>> ELSE step(f[k - 1], k)]
    BY <2>2 DEF IsCleaning
  <2> HIDE DEF step
  <2>4. \A k \in 0..n : g[k] = f[k]
    BY <2>1
  <2>5. ASSUME NEW k \in 0..n + 1
        PROVE  g[k] = IF k = 0 THEN <<>> ELSE step(g[k - 1], k)
    <3>1. CASE k = n + 1
      <4>1. g[k] = step(f[n], n + 1) /\ k # 0 /\ k - 1 = n /\ n \in 0..n
        BY <2>1, <3>1
      <4> HIDE DEF g
      <4> QED
        BY <2>4, <3>1, <4>1
    <3>2. CASE k # n + 1 /\ k # 0
      <4>1. k \in 0..n /\ k - 1 \in 0..n
        BY <2>1, <3>2
      <4> HIDE DEF g
      <4>2. f[k] = step(f[k - 1], k)
        BY <2>3, <3>2, <4>1
      <4> QED
        BY <2>4, <3>2, <4>1, <4>2
    <3>3. CASE k = 0
      <4>1. k \in 0..n
        BY <2>1, <3>3
      <4> HIDE DEF g
      <4>2. f[k] = <<>>
        BY <2>3, <3>3, <4>1
      <4> QED
        BY <2>4, <3>3, <4>1, <4>2
    <3> QED
      BY <3>1, <3>2, <3>3
  <2>6. g = [k \in 0..n + 1 |-> IF k = 0 THEN <<>> ELSE step(g[k - 1], k)]
    <3> DEFINE h == [k \in 0..n + 1 |-> IF k = 0 THEN <<>> ELSE step(g[k - 1], k)]
    <3>1. g = [k \in 0..n + 1 |-> g[k]]
      OBVIOUS
    <3> HIDE DEF g
    <3> QED
      BY <2>5, <3>1, Zenon
  <2>7. IsCleaning(g, cand, threshold, limit, top, n + 1)
    <3> HIDE DEF g
    <3> QED
      BY <2>6 DEF IsCleaning, step
  <2>8. \E h : IsCleaning(h, cand, threshold, limit, top, n + 1)
    BY <2>7, Zenon
  <2> QED
    BY <2>1, <2>8
<1>3. S = Nat
  <2> HIDE DEF S
  <2>1. S \in SUBSET Nat
    BY DEF S
  <2> QED
    BY <1>1, <1>2, <2>1, NatInd
<1> QED
  BY <1>3

\* Clean is the end of a cleaning.
LEMMA CleanIsLast ==
    ASSUME NEW cand, Len(cand) \in Nat, NEW threshold, NEW limit, NEW top
    PROVE  \E f : /\ f[0] = <<>>
                  /\ \A k \in 0..Len(cand) - 1 :
                        f[k + 1] = CleanStep(cand, threshold, limit, top, f[k], k + 1)
                  /\ Clean(cand, threshold, limit, top) = f[Len(cand)]
<1> DEFINE N == Len(cand)
           f == CHOOSE f : IsCleaning(f, cand, threshold, limit, top, N)
<1>1. IsCleaning(f, cand, threshold, limit, top, N)
  <2>1. \E g : IsCleaning(g, cand, threshold, limit, top, N)
    BY CleaningExists
  <2> HIDE DEF N
  <2> QED
    BY <2>1, Zenon
<1>2. Clean(cand, threshold, limit, top) = f[N]
  BY Zenon DEF Clean, IsCleaning, CleanStep
<1> HIDE DEF f
<1>3. f = [k \in 0..N |->
             IF k = 0 THEN <<>> ELSE CleanStep(cand, threshold, limit, top, f[k - 1], k)]
  BY <1>1 DEF IsCleaning
<1>4. f[0] = <<>>
  BY <1>3
<1>5. ASSUME NEW k \in 0..N - 1
      PROVE  f[k + 1] = CleanStep(cand, threshold, limit, top, f[k], k + 1)
  <2>1. k + 1 \in 0..N /\ k + 1 # 0 /\ (k + 1) - 1 = k
    OBVIOUS
  <2>2. \A j \in 0..N : j # 0 => f[j] = CleanStep(cand, threshold, limit, top, f[j - 1], j)
    BY <1>3
  <2> HIDE DEF N
  <2> QED
    BY <2>1, <2>2
<1> QED
  BY <1>2, <1>4, <1>5

\* One more candidate counts for its own document.
LEMMA AppendCounts ==
    ASSUME NEW list, AreCandidates(list), NEW c, NEW d
    PROVE  /\ CountOf(list, d) \in Nat
           /\ CountOf(Append(list, c), d) =
                IF SameDocument(c.chunk, d.chunk) THEN CountOf(list, d) + 1 ELSE CountOf(list, d)
<1> DEFINE more == Append(list, c)
           P(l) == {p \in DOMAIN l : SameDocument(l[p].chunk, d.chunk)}
           n == Len(list) + 1
<1>1. Len(list) \in Nat /\ DOMAIN list = 1..Len(list) /\ list \in Seq([chunk : Chunks, score : Int])
  BY CandidateFacts DEF AreCandidates
<1>2. /\ DOMAIN more = 1..n /\ n \in Nat /\ more[n] = c
      /\ \A p \in 1..Len(list) : more[p] = list[p]
  <2> DEFINE S == [chunk : Chunks, score : Int] \cup {c}
  <2>1. [chunk : Chunks, score : Int] \subseteq S /\ c \in S
    OBVIOUS
  <2>2. list \in Seq([chunk : Chunks, score : Int])
    BY <1>1
  <2> HIDE DEF S
  <2>3. list \in Seq(S)
    BY <2>1, <2>2, SeqMonotonic
  <2> QED
    BY <1>1, <2>1, <2>3
<1>3. \A p : p \in 1..n <=> p \in 1..Len(list) \/ p = n
  BY <1>1
<1>4. n \notin 1..Len(list)
  BY <1>1
<1> HIDE DEF more, n
<1>5. IsFiniteSet(P(list)) /\ Cardinality(P(list)) \in Nat /\ n \notin P(list)
  BY <1>1, <1>4, PlacesFinite, FS_CardinalityType
<1>6. \A p : p \in P(more) <=> p \in P(list) \/ (p = n /\ SameDocument(c.chunk, d.chunk))
  <2>1. \A p \in 1..Len(list) : p \in P(more) <=> p \in P(list)
    BY <1>1, <1>2, <1>3, Zenon
  <2>2. n \in P(more) <=> SameDocument(c.chunk, d.chunk)
    BY <1>2, <1>3, Zenon
  <2>3. \A p \in P(more) : p \in 1..n
    BY <1>2
  <2>4. \A p \in P(list) : p \in 1..Len(list)
    BY <1>1
  <2> HIDE DEF P
  <2> QED
    BY <1>3, <2>1, <2>2, <2>3, <2>4, Zenon
<1> HIDE DEF P
<1>7. SameDocument(c.chunk, d.chunk) => P(more) = P(list) \cup {n}
  BY <1>6
<1>8. ~SameDocument(c.chunk, d.chunk) => P(more) = P(list)
  BY <1>6
<1>9. CountOf(list, d) = Cardinality(P(list)) /\ CountOf(more, d) = Cardinality(P(more))
  BY DEF CountOf, P
<1>10. Cardinality(P(list) \cup {n}) = Cardinality(P(list)) + 1
  BY <1>5, FS_AddElement
<1> QED
  BY <1>5, <1>7, <1>8, <1>9, <1>10 DEF more

\* What is kept of the candidates up to the k-th are the chosen ones among them.
KeptInv(kept, cand, C, k) ==
    /\ AreCandidates(kept)
    /\ Len(kept) = Cardinality(UpTo(C, k))
    /\ \A i \in DOMAIN cand : CountOf(kept, cand[i]) = Cardinality(LikeOf(cand, UpTo(C, k), i))
    /\ ToSet(kept) = {cand[i] : i \in UpTo(C, k)}

\* A chosen candidate that is appended keeps that.
LEMMA KeptGrows ==
    ASSUME NEW cand, AreCandidates(cand), NEW C \in SUBSET (DOMAIN cand), NEW k \in Nat,
           k + 1 \in C, NEW kept, KeptInv(kept, cand, C, k)
    PROVE  KeptInv(Append(kept, cand[k + 1]), cand, C, k + 1)
<1> DEFINE c == cand[k + 1]
           more == Append(kept, c)
           n == Len(kept) + 1
           X == [chunk : Chunks, score : Int]
           U == UpTo(C, k)
<1>1. /\ AreCandidates(kept) /\ Len(kept) = Cardinality(U)
      /\ \A i \in DOMAIN cand : CountOf(kept, cand[i]) = Cardinality(LikeOf(cand, U, i))
      /\ ToSet(kept) = {cand[i] : i \in U}
  BY DEF KeptInv
<1>2. /\ C \in SUBSET Nat /\ IsFiniteSet(C)
  BY PlacesFinite
<1>3. /\ IsFiniteSet(U) /\ Cardinality(U) \in Nat /\ UpTo(C, k + 1) = U \cup {k + 1}
      /\ Cardinality(UpTo(C, k + 1)) = Cardinality(U) + 1
  BY <1>2, UpToGrows
<1>4. \A i \in U : i \in DOMAIN cand /\ i <= k /\ i # k + 1
  BY <1>2 DEF UpTo
<1>5. c \in X /\ kept \in Seq(X) /\ Len(kept) \in Nat /\ DOMAIN kept = 1..Len(kept)
  BY <1>1, CandidateFacts DEF AreCandidates
<1> HIDE DEF X, c, U
<1>6. /\ more \in Seq(X) /\ DOMAIN more = 1..n /\ more[n] = c /\ Len(more) = n
      /\ \A p \in 1..Len(kept) : more[p] = kept[p]
  BY <1>5
<1> HIDE DEF more
<1>7. \A p : p \in 1..n <=> p \in DOMAIN kept \/ p = n
  BY <1>5
<1>8. ToSet(more) = {cand[i] : i \in UpTo(C, k + 1)}
  <2>1. ToSet(more) = ToSet(kept) \cup {c}
    BY <1>5, <1>6, <1>7 DEF ToSet
  <2> QED
    BY <1>1, <1>3, <2>1 DEF c
<1>9. AreCandidates(more)
  <2>1. \A i, j \in DOMAIN cand : cand[i].chunk = cand[j].chunk => i = j
    BY DEF AreCandidates
  <2>2. \A i \in U : cand[i].chunk # c.chunk
    BY <1>4, <2>1 DEF c
  <2>3. \A p \in DOMAIN kept : kept[p] \in ToSet(kept)
    BY DEF ToSet
  <2>4. \A p \in DOMAIN kept : kept[p].chunk # c.chunk
    BY <1>1, <2>2, <2>3
  <2>5. \A p, q \in DOMAIN kept : kept[p].chunk = kept[q].chunk => p = q
    BY <1>1 DEF AreCandidates
  <2>6. \A p, q \in 1..n : more[p].chunk = more[q].chunk => p = q
    BY <1>5, <1>6, <1>7, <2>4, <2>5, Zenon
  <2> QED
    BY <1>6, <2>6 DEF AreCandidates, X
<1>10. ASSUME NEW i \in DOMAIN cand
       PROVE  CountOf(more, cand[i]) = Cardinality(LikeOf(cand, UpTo(C, k + 1), i))
  <2>1. CountOf(kept, cand[i]) = Cardinality(LikeOf(cand, U, i))
    BY <1>1
  <2>2. /\ CountOf(kept, cand[i]) \in Nat
        /\ CountOf(more, cand[i]) =
             IF SameDocument(c.chunk, cand[i].chunk)
             THEN CountOf(kept, cand[i]) + 1 ELSE CountOf(kept, cand[i])
    BY <1>1, AppendCounts DEF more
  <2>3. LikeOf(cand, UpTo(C, k + 1), i) =
          IF SameDocument(c.chunk, cand[i].chunk)
          THEN LikeOf(cand, U, i) \cup {k + 1} ELSE LikeOf(cand, U, i)
    BY <1>3, Zenon DEF LikeOf, c
  <2>4. LikeOf(cand, U, i) \in SUBSET U /\ k + 1 \notin LikeOf(cand, U, i)
    BY <1>4 DEF LikeOf
  <2>5. IsFiniteSet(LikeOf(cand, U, i))
    BY <1>3, <2>4, FS_Subset
  <2>6. Cardinality(LikeOf(cand, U, i) \cup {k + 1}) = Cardinality(LikeOf(cand, U, i)) + 1
    BY <2>4, <2>5, FS_AddElement
  <2> QED
    BY <2>1, <2>2, <2>3, <2>6
<1>11. Len(more) = Cardinality(UpTo(C, k + 1))
  BY <1>1, <1>3, <1>6
<1> QED
  BY <1>8, <1>9, <1>10, <1>11, Zenon DEF KeptInv, more, c

\* clean_candidates keeps the chosen candidates, all of them and nothing else.
LEMMA CleanChooses ==
    ASSUME NEW cand, AreCandidates(cand), NEW threshold, NEW limit \in Nat, NEW top \in Nat
    PROVE  /\ AreCandidates(Clean(cand, threshold, limit, top))
           /\ ToSet(Clean(cand, threshold, limit, top)) =
                {cand[i] : i \in ChosenOf(cand, threshold, limit, top)}
<1> DEFINE N == Len(cand)
           C == ChosenOf(cand, threshold, limit, top)
<1>1. N \in Nat /\ DOMAIN cand = 1..N
  BY CandidateFacts
<1>2. C \in SUBSET (DOMAIN cand)
  BY DEF ChosenOf, FirstOf, SpreadOf, PassedOf
<1>3. PICK f : /\ f[0] = <<>>
               /\ \A k \in 0..N - 1 :
                     f[k + 1] = CleanStep(cand, threshold, limit, top, f[k], k + 1)
               /\ Clean(cand, threshold, limit, top) = f[N]
  BY <1>1, CleanIsLast
<1> DEFINE S == {k \in Nat : k <= N => KeptInv(f[k], cand, C, k)}
<1>4. C \in SUBSET Nat /\ IsFiniteSet(C) /\ \A i \in C : 1 <= i /\ i <= N
  BY <1>1, <1>2, PlacesFinite
<1>5. 0 \in S
  <2>1. UpTo(C, 0) = {}
    <3>1. \A i \in C : ~(i <= 0)
      BY <1>1, <1>2
    <3> QED
      BY <3>1 DEF UpTo
  <2>2. /\ AreCandidates(<<>>) /\ Len(<<>>) = 0 /\ ToSet(<<>>) = {} /\ DOMAIN <<>> = {}
    BY DEF AreCandidates, ToSet
  <2>3. \A c : CountOf(<<>>, c) = 0
    <3>1. \A c : {p \in DOMAIN <<>> : SameDocument(<<>>[p].chunk, c.chunk)} = {}
      BY <2>2, Zenon
    <3> QED
      BY <3>1, FS_EmptySet DEF CountOf
  <2>4. \A i : LikeOf(cand, {}, i) = {}
    BY DEF LikeOf
  <2>5. Cardinality({}) = 0
    BY FS_EmptySet
  <2>6. KeptInv(<<>>, cand, C, 0)
    BY <2>1, <2>2, <2>3, <2>4, <2>5 DEF KeptInv
  <2> QED
    BY <1>3, <2>6
<1>6. ASSUME NEW k \in S PROVE k + 1 \in S
  <2>1. k \in Nat
    OBVIOUS
  <2>2. CASE k + 1 <= N
    <3>1. k \in 0..N - 1 /\ k + 1 \in DOMAIN cand /\ k <= N
      BY <1>1, <2>1, <2>2
    <3>2. KeptInv(f[k], cand, C, k)
      BY <3>1
    <3>3. f[k + 1] = CleanStep(cand, threshold, limit, top, f[k], k + 1)
      BY <1>3, <3>1
    <3>4. Taken(f[k], cand[k + 1], threshold, limit, top) <=> k + 1 \in C
      BY <2>1, <3>1, <3>2, TakenIsChosen DEF KeptInv
    <3> HIDE DEF C
    <3>5. CASE k + 1 \in C
      <4>1. f[k + 1] = Append(f[k], cand[k + 1])
        BY <3>3, <3>4, <3>5 DEF CleanStep
      <4>2. KeptInv(f[k + 1], cand, C, k + 1)
        BY <1>2, <2>1, <3>2, <3>5, <4>1, KeptGrows
      <4> QED
        BY <2>1, <4>2
    <3>6. CASE k + 1 \notin C
      <4>1. f[k + 1] = f[k]
        BY <3>3, <3>4, <3>6 DEF CleanStep
      <4>2. UpTo(C, k + 1) = UpTo(C, k)
        BY <1>4, <2>1, <3>6, UpToGrows
      <4>3. KeptInv(f[k + 1], cand, C, k + 1)
        BY <3>2, <4>1, <4>2 DEF KeptInv
      <4> QED
        BY <2>1, <4>3
    <3> QED
      BY <3>5, <3>6
  <2>3. CASE ~(k + 1 <= N)
    BY <2>1, <2>3
  <2> QED
    BY <2>2, <2>3
<1>7. S = Nat
  <2> HIDE DEF S
  <2>1. S \in SUBSET Nat
    BY DEF S
  <2> QED
    BY <1>5, <1>6, <2>1, NatInd
<1>8. KeptInv(f[N], cand, C, N)
  BY <1>1, <1>7
<1>9. UpTo(C, N) = C
  BY <1>4, Zenon DEF UpTo
<1> QED
  BY <1>3, <1>8, <1>9, Zenon DEF KeptInv

-----------------------------------------------------------------------------
(* The call's state.                                                         *)

\* The stores, and how often they have changed.
StoresOK ==
    /\ current \in [Documents -> Versions \cup {None}]
    /\ readable \subseteq Documents /\ indexed \subseteq Versions
    /\ changes \in 0..MaxChanges

\* Where the call is, and what it concludes with.
CallOK ==
    /\ pc \in {"authorize", "transform", "search", "fuse", "rerank", "record", "check",
               "context", "returned", "raised"}
    /\ outcome \in {"none", "success", "no_evidence", "failed", "denied", "answered"}

\* The attempt, its channel and its variant; what the channels have answered.
LoopOK ==
    /\ variants \in 1..MaxVariants
    /\ attempt \in 0..MaxFallback /\ channel \in 1..Len(ModeOf(attempt))
    /\ variant \in 1..variants /\ (pc \in {"authorize", "transform"} => variant = 1)
    /\ merged \in [Chunks -> Scores \cup {0}]
    /\ found \in [Channels -> Seq(Chunks)] /\ \A ch \in Channels : IsRanking(found[ch])
    /\ errors \subseteq Channels

\* The candidates: fused and cut, then selected, then moved to the answer one by one.
CandidatesOK ==
    /\ AreCandidates(ranked) /\ IsRanking(answer)
    /\ pc = "rerank" =>
          LET fused == Fusion(found["full_text"], found["vector"])
          IN  ranked = SubSeq(fused, 1, Smaller(Len(fused), RerankCount))
    /\ pc = "record" /\ outcome = "success" => ranked # <<>>
    /\ pc = "check" => /\ ranked # <<>>
                       /\ \A i \in DOMAIN ranked, j \in DOMAIN answer : ranked[i].chunk # answer[j]
    /\ pc \notin {"check", "context", "returned", "raised"} => answer = <<>>

QueryInv == StoresOK /\ CallOK /\ LoopOK /\ CandidatesOK

\* Publications, deletions and revocations keep the stores' shape.
LEMMA StoresStep ==
    ASSUME StoresOK, [Next]_vars PROVE StoresOK'
<1>1. CASE Step
  <2>1. UNCHANGED stores
    BY <1>1 DEF Step, Authorize, Transform, SearchVariant, SearchFails, Fuse, Rerank, RerankFails,
                RecordTrace, CheckCandidate, Generate
  <2> QED
    BY <2>1 DEF StoresOK, stores
<1>2. ASSUME NEW d \in Documents, Change PROVE changes' \in 0..MaxChanges
  BY <1>2, QueryAssumption DEF Change, StoresOK
<1>3. ASSUME NEW d \in Documents, SwitchVersion(d) PROVE StoresOK'
  <2>1. /\ current' \in [Documents -> Versions \cup {None}]
        /\ UNCHANGED <<readable, indexed>>
    BY <1>3 DEF SwitchVersion, StoresOK
  <2> QED
    BY <1>2, <1>3, <2>1 DEF SwitchVersion, StoresOK
<1>4. ASSUME NEW d \in Documents, SyncIndex(d) PROVE StoresOK'
  <2>1. indexed' \subseteq Versions /\ UNCHANGED <<current, readable>>
    BY <1>4 DEF SyncIndex, StoresOK
  <2> QED
    BY <1>2, <1>4, <2>1 DEF SyncIndex, StoresOK
<1>5. ASSUME NEW d \in Documents, Revoke(d) PROVE StoresOK'
  <2>1. readable' \subseteq Documents /\ UNCHANGED <<current, indexed>>
    BY <1>5 DEF Revoke, StoresOK
  <2> QED
    BY <1>2, <1>5, <2>1 DEF Revoke, StoresOK
<1>6. CASE UNCHANGED vars
  BY <1>6 DEF vars, stores, StoresOK
<1> QED
  BY <1>1, <1>3, <1>4, <1>5, <1>6 DEF Next

\* Every step keeps the call's place and outcome.
LEMMA CallStep ==
    ASSUME CallOK, [Next]_vars PROVE CallOK'
<1>1. CASE Authorize
  BY <1>1 DEF Authorize, CallOK
<1>2. CASE Transform
  BY <1>2 DEF Transform, CallOK
<1>3. CASE SearchVariant \/ SearchFails
  BY <1>3 DEF SearchVariant, SearchFails, CloseChannel, CallOK
<1>4. ASSUME NEW selected, Conclude(selected) PROVE CallOK'
  BY <1>4 DEF Conclude, CallOK
<1>5. CASE Fuse
  BY <1>4, <1>5 DEF Fuse, CallOK
<1>6. CASE Rerank \/ RerankFails
  BY <1>4, <1>6 DEF Rerank, RerankFails
<1>7. CASE RecordTrace
  BY <1>7 DEF RecordTrace, CallOK
<1>8. CASE CheckCandidate
  BY <1>8 DEF CheckCandidate, CallOK
<1>9. CASE Generate
  BY <1>9 DEF Generate, CallOK
<1>10. CASE \E d \in Documents : SwitchVersion(d) \/ SyncIndex(d) \/ Revoke(d)
  BY <1>10 DEF SwitchVersion, SyncIndex, Revoke, Mine, CallOK
<1>11. CASE UNCHANGED vars
  BY <1>11 DEF vars, CallOK
<1> QED
  BY <1>1, <1>2, <1>3, <1>5, <1>6, <1>7, <1>8, <1>9, <1>10, <1>11 DEF Next, Step

\* Every attempt searches one or both of the channels.
LEMMA ModeFacts ==
    /\ MaxFallback \in 0..4
    /\ \A a \in 0..4 : /\ Len(ModeOf(a)) \in 1..2
                       /\ \A i \in 1..Len(ModeOf(a)) : ModeOf(a)[i] \in Channels
<1>1. \A a \in 0..4 : \/ ModeOf(a) = <<"full_text">> \/ ModeOf(a) = <<"vector">>
                      \/ ModeOf(a) = <<"full_text", "vector">>
  BY DEF ModeOf
<1>2. \A a \in 0..4 : /\ Len(ModeOf(a)) \in 1..2
                      /\ \A i \in 1..Len(ModeOf(a)) : ModeOf(a)[i] \in Channels
  BY <1>1 DEF Channels
<1> QED
  BY <1>2, QueryAssumption

\* Nothing found is a ranking, and no candidates are candidates.
LEMMA EmptyIsRanking ==
    IsRanking(<<>>) /\ AreCandidates(<<>>) /\ NoLists \in [Channels -> Seq(Chunks)]
  BY DEF IsRanking, AreCandidates, NoLists

\* Some variants: one at least, and not more than allowed.
LEMMA VariantsType ==
    \A texts \in SeqOf({"canonical", "rewritten", "translated", "keyword"}, 3) :
       Variants(texts) \in 1..MaxVariants
<1> DEFINE T == {"canonical", "rewritten", "translated", "keyword"}
<1> SUFFICES ASSUME NEW texts \in SeqOf(T, 3) PROVE Variants(texts) \in 1..MaxVariants
  OBVIOUS
<1>1. IsFiniteSet(T)
  <2>1. IsFiniteSet({"canonical"})
    BY FS_Singleton
  <2>2. IsFiniteSet({"canonical"} \cup {"rewritten"})
    BY <2>1, FS_AddElement
  <2>3. IsFiniteSet(({"canonical"} \cup {"rewritten"}) \cup {"translated"})
    BY <2>2, FS_AddElement
  <2>4. IsFiniteSet((({"canonical"} \cup {"rewritten"}) \cup {"translated"}) \cup {"keyword"})
    BY <2>3, FS_AddElement
  <2>5. T = (({"canonical"} \cup {"rewritten"}) \cup {"translated"}) \cup {"keyword"}
    OBVIOUS
  <2> QED
    BY <2>4, <2>5
<1>2. \E n \in 0..3 : texts \in [1..n -> T]
  BY DEF SeqOf
<1>3. {"canonical"} \cup ToSet(texts) \in SUBSET T
  BY <1>2 DEF ToSet
<1> DEFINE U == {"canonical"} \cup ToSet(texts)
<1>4. U \in SUBSET T /\ U # {}
  BY <1>3
<1> HIDE DEF T, U
<1>5. IsFiniteSet(U)
  BY <1>1, <1>4, FS_Subset
<1>6. Cardinality(U) \in Nat /\ Cardinality(U) # 0
  BY <1>4, <1>5, FS_CardinalityType, FS_EmptySet
<1>7. MaxVariants \in Nat \ {0}
  BY QueryAssumption
<1>8. Smaller(Cardinality(U), MaxVariants) \in 1..MaxVariants
  BY <1>6, <1>7 DEF Smaller
<1> QED
  BY <1>8 DEF Variants, U

\* The loop's counters are numbers, and it is at one of the channels.
LEMMA LoopFacts ==
    ASSUME LoopOK
    PROVE  /\ attempt \in 0..4 /\ channel \in Nat /\ variant \in Nat /\ variants \in Nat
           /\ TheChannel \in Channels
           /\ \A c \in Chunks : merged[c] \in Nat
<1>1. MaxFallback \in 0..4 /\ MaxVariants \in Nat /\ Scores \subseteq Nat
  BY QueryAssumption
<1>2. attempt \in 0..4
  BY <1>1 DEF LoopOK
<1>3. Len(ModeOf(attempt)) \in 1..2 /\ channel \in 1..Len(ModeOf(attempt))
  BY <1>2, ModeFacts DEF LoopOK
<1>4. TheChannel \in Channels
  BY <1>2, <1>3, ModeFacts DEF TheChannel
<1>5. channel \in Nat /\ variants \in Nat
  BY <1>1, <1>3 DEF LoopOK
<1>6. variant \in Nat
  BY <1>5 DEF LoopOK
<1>7. \A c \in Chunks : merged[c] \in Nat
  <2>1. \A x \in Scores \cup {0} : x \in Nat
    BY <1>1
  <2>2. \A c \in Chunks : merged[c] \in Scores \cup {0}
    BY DEF LoopOK
  <2> QED
    BY <2>1, <2>2, Zenon
<1> QED
  BY <1>2, <1>4, <1>5, <1>6, <1>7

\* A channel's end, with whatever it has found.
LEMMA CloseKeepsLoop ==
    ASSUME LoopOK, pc = "search", NEW score, \A c \in Chunks : score[c] \in Int,
           CloseChannel(score), UNCHANGED <<variants, attempt>>, errors' \subseteq Channels
    PROVE  LoopOK'
<1>1. /\ found' = [found EXCEPT ![TheChannel] = RankingOf(score)]
      /\ merged' = NoHits /\ variant' = 1
      /\ \/ channel < Len(ModeOf(attempt)) /\ channel' = channel + 1 /\ pc' = pc
         \/ channel' = channel /\ pc' = "fuse"
  BY DEF CloseChannel
<1>2. attempt \in 0..4 /\ channel \in Nat /\ TheChannel \in Channels /\ variants \in Nat
  BY LoopFacts
<1>3. IsRanking(RankingOf(score))
  BY <1>2, RankingOfType
<1>4. found' \in [Channels -> Seq(Chunks)] /\ \A ch \in Channels : IsRanking(found'[ch])
  <2> DEFINE list == RankingOf(score)
  <2>1. IsRanking(list) /\ list \in Seq(Chunks)
    BY <1>3 DEF IsRanking
  <2> HIDE DEF list
  <2>2. found \in [Channels -> Seq(Chunks)] /\ \A ch \in Channels : IsRanking(found[ch])
    BY DEF LoopOK
  <2>3. found' = [found EXCEPT ![TheChannel] = list]
    BY <1>1 DEF list
  <2>4. found' \in [Channels -> Seq(Chunks)]
    BY <1>2, <2>1, <2>2, <2>3
  <2>5. \A ch \in Channels : found'[ch] = list \/ found'[ch] = found[ch]
    BY <1>2, <2>2, <2>3
  <2> QED
    BY <2>1, <2>2, <2>4, <2>5
<1>5. channel' \in 1..Len(ModeOf(attempt))
  <2>1. Len(ModeOf(attempt)) \in 1..2
    BY <1>2, ModeFacts
  <2> QED
    BY <1>1, <1>2, <2>1 DEF LoopOK
<1>6. merged' \in [Chunks -> Scores \cup {0}]
  BY <1>1 DEF NoHits
<1>7. variant' \in 1..variants' /\ variants' \in 1..MaxVariants /\ attempt' \in 0..MaxFallback
  <2>1. variants \in 1..MaxVariants /\ attempt \in 0..MaxFallback
    BY DEF LoopOK
  <2> QED
    BY <1>1, <1>2, <2>1
<1>8. channel' \in 1..Len(ModeOf(attempt'))
  BY <1>5
<1>9. pc' \notin {"authorize", "transform"}
  BY <1>1
<1> QED
  BY <1>4, <1>6, <1>7, <1>8, <1>9 DEF LoopOK

\* An attempt's end.
LEMMA ConcludeKeepsLoop ==
    ASSUME LoopOK, NEW selected, Conclude(selected), UNCHANGED variants PROVE LoopOK'
<1>1. /\ merged' = NoHits /\ found' = NoLists /\ channel' = 1 /\ variant' = 1 /\ errors' = {}
      /\ \/ attempt' = attempt
         \/ attempt # MaxFallback /\ attempt' = attempt + 1
      /\ pc' \in {"record", "search"}
  BY DEF Conclude
<1>2. attempt' \in 0..MaxFallback
  <2>1. MaxFallback \in Nat /\ attempt \in 0..MaxFallback
    BY QueryAssumption DEF LoopOK
  <2> QED
    BY <1>1, <2>1
<1>3. Len(ModeOf(attempt')) \in 1..2
  <2>1. attempt' \in 0..4
    BY <1>2, ModeFacts
  <2> QED
    BY <2>1, ModeFacts
<1>4. variants' \in 1..MaxVariants /\ 1 \in 1..variants'
  <2>1. variants \in 1..MaxVariants /\ variants \in Nat
    BY LoopFacts DEF LoopOK
  <2> QED
    BY <2>1
<1>5. found' \in [Channels -> Seq(Chunks)] /\ \A ch \in Channels : IsRanking(found'[ch])
  BY <1>1, EmptyIsRanking DEF NoLists
<1>6. merged' \in [Chunks -> Scores \cup {0}]
  BY <1>1 DEF NoHits
<1>7. /\ errors' \subseteq Channels /\ channel' \in 1..Len(ModeOf(attempt'))
      /\ variant' \in 1..variants' /\ variant' = 1
  BY <1>1, <1>3, <1>4
<1> QED
  BY <1>2, <1>4, <1>5, <1>6, <1>7 DEF LoopOK

\* A search that is answered.
LEMMA SearchKeepsLoop ==
    ASSUME LoopOK, SearchVariant PROVE LoopOK'
<1>1. PICK hits \in [SearchableRecords(attempt) -> Scores \cup {0}] :
         LET hit   == {c \in DOMAIN hits : hits[c] > 0}
             score == [c \in Chunks |-> IF c \in hit THEN Best(hits[c], merged[c]) ELSE merged[c]]
         IN  IF variant < variants
             THEN /\ merged' = score /\ variant' = variant + 1
                  /\ UNCHANGED <<channel, found, pc>>
             ELSE CloseChannel(score)
  BY DEF SearchVariant
<1> DEFINE hit   == {c \in DOMAIN hits : hits[c] > 0}
           score == [c \in Chunks |-> IF c \in hit THEN Best(hits[c], merged[c]) ELSE merged[c]]
<1>2. /\ pc = "search" /\ UNCHANGED <<variants, attempt, errors>>
      /\ \/ /\ variant < variants /\ merged' = score /\ variant' = variant + 1
            /\ UNCHANGED <<channel, found, pc>>
         \/ CloseChannel(score)
  BY <1>1 DEF SearchVariant
<1>3. score \in [Chunks -> Scores \cup {0}]
  <2>1. \A x, y \in Scores \cup {0} : Best(x, y) \in Scores \cup {0}
    BY DEF Best
  <2>2. merged \in [Chunks -> Scores \cup {0}]
    BY DEF LoopOK
  <2>3. \A c \in hit : hits[c] \in Scores \cup {0}
    OBVIOUS
  <2> HIDE DEF hit
  <2>4. \A c \in Chunks : (IF c \in hit THEN Best(hits[c], merged[c]) ELSE merged[c])
                             \in Scores \cup {0}
    BY <2>1, <2>2, <2>3
  <2> QED
    BY <2>4
<1> HIDE DEF score
<1>4. \A c \in Chunks : score[c] \in Int
  <2>1. \A x \in Scores \cup {0} : x \in Int
    BY QueryAssumption
  <2>2. \A c \in Chunks : score[c] \in Scores \cup {0}
    BY <1>3
  <2> QED
    BY <2>1, <2>2, Zenon
<1>5. CASE CloseChannel(score)
  <2>1. errors' \subseteq Channels
    BY <1>2 DEF LoopOK
  <2> QED
    BY <1>2, <1>4, <1>5, <2>1, CloseKeepsLoop
<1>6. CASE /\ variant < variants /\ merged' = score /\ variant' = variant + 1
           /\ UNCHANGED <<channel, found, pc>>
  <2>1. variant' \in 1..variants'
    <3>1. variant \in 1..variants /\ variants \in Nat
      BY LoopFacts DEF LoopOK
    <3> QED
      BY <1>2, <1>6, <3>1
  <2> QED
    BY <1>2, <1>3, <1>6, <2>1 DEF LoopOK
<1> QED
  BY <1>2, <1>5, <1>6

\* Every step keeps the loop.
LEMMA LoopStep ==
    ASSUME LoopOK, [Next]_vars PROVE LoopOK'
<1>1. ASSUME UNCHANGED <<variants, loop>>,
             pc \in {"authorize", "transform"} \/ pc' \notin {"authorize", "transform"}
      PROVE  LoopOK'
  BY <1>1 DEF LoopOK, loop
<1>2. CASE Authorize
  BY <1>1, <1>2 DEF Authorize
<1>3. CASE Transform
  <2>1. variants' \in 1..MaxVariants
    BY <1>3, VariantsType DEF Transform
  <2>2. variant = 1 /\ UNCHANGED loop /\ pc' = "search"
    BY <1>3 DEF Transform, LoopOK
  <2>3. MaxVariants \in Nat
    BY QueryAssumption
  <2>4. variant' \in 1..variants'
    BY <2>1, <2>2, <2>3 DEF loop
  <2> QED
    BY <2>1, <2>2, <2>4 DEF LoopOK, loop
<1>4. CASE SearchVariant
  BY <1>4, SearchKeepsLoop
<1>5. CASE SearchFails
  <2>1. /\ pc = "search" /\ CloseChannel(NoHits) /\ UNCHANGED <<variants, attempt>>
        /\ errors' = errors \cup {TheChannel}
    BY <1>5 DEF SearchFails
  <2>2. errors' \subseteq Channels
    BY <2>1, LoopFacts DEF LoopOK
  <2>3. \A c \in Chunks : NoHits[c] \in Int
    BY DEF NoHits
  <2> QED
    BY <2>1, <2>2, <2>3, CloseKeepsLoop
<1>6. CASE Fuse
  <2>1. \/ Conclude(<<>>) /\ UNCHANGED variants
        \/ UNCHANGED <<variants, loop>> /\ pc' = "rerank"
    BY <1>6 DEF Fuse
  <2> QED
    BY <1>1, <2>1, ConcludeKeepsLoop
<1>7. CASE Rerank
  BY <1>7, ConcludeKeepsLoop DEF Rerank
<1>8. CASE RerankFails
  BY <1>8, ConcludeKeepsLoop DEF RerankFails
<1>9. CASE RecordTrace
  BY <1>1, <1>9 DEF RecordTrace
<1>10. CASE CheckCandidate
  BY <1>1, <1>10 DEF CheckCandidate
<1>11. CASE Generate
  BY <1>1, <1>11 DEF Generate
<1>12. CASE \E d \in Documents : SwitchVersion(d) \/ SyncIndex(d) \/ Revoke(d)
  <2>1. UNCHANGED <<variants, loop, pc>>
    BY <1>12 DEF SwitchVersion, SyncIndex, Revoke, Mine
  <2> QED
    BY <1>1, <2>1
<1>13. CASE UNCHANGED vars
  BY <1>1, <1>13 DEF vars
<1> QED
  BY <1>2, <1>3, <1>4, <1>5, <1>6, <1>7, <1>8, <1>9, <1>10, <1>11, <1>12, <1>13 DEF Next, Step

\* The first of some candidates.
LEMMA FirstOfCandidates ==
    ASSUME NEW list, AreCandidates(list), NEW n \in Nat
    PROVE  LET k == Smaller(Len(list), n)
               cut == SubSeq(list, 1, k)
           IN  /\ AreCandidates(cut) /\ DOMAIN cut = 1..k /\ k \in 0..Len(list)
               /\ \A i \in 1..k : cut[i] = list[i]
<1> DEFINE k == Smaller(Len(list), n)
           cut == SubSeq(list, 1, k)
           X == [chunk : Chunks, score : Int]
<1>1. list \in Seq(X) /\ Len(list) \in Nat /\ DOMAIN list = 1..Len(list)
  BY CandidateFacts DEF AreCandidates
<1>2. k \in 0..Len(list)
  BY <1>1 DEF Smaller
<1> HIDE DEF k, X
<1>3. cut \in Seq(X) /\ DOMAIN cut = 1..k /\ \A i \in 1..k : cut[i] = list[i]
  BY <1>1, <1>2
<1>4. 1..k \subseteq DOMAIN list
  BY <1>1, <1>2
<1> HIDE DEF cut
<1>5. \A i, j \in DOMAIN cut : cut[i].chunk = cut[j].chunk => i = j
  BY <1>3, <1>4, Zenon DEF AreCandidates
<1> QED
  BY <1>2, <1>3, <1>5 DEF AreCandidates, X, cut, k

\* Candidates in another order, with other scores.
LEMMA RerankedAreCandidates ==
    ASSUME NEW list, AreCandidates(list), NEW order \in Bijection(DOMAIN list, DOMAIN list),
           NEW score \in [DOMAIN list -> RerankScores]
    PROVE  AreCandidates([i \in DOMAIN list |->
                            [chunk |-> list[order[i]].chunk, score |-> score[i]]])
<1> DEFINE N == Len(list)
           X == [chunk : Chunks, score : Int]
           new == [i \in DOMAIN list |-> [chunk |-> list[order[i]].chunk, score |-> score[i]]]
<1>1. N \in Nat /\ DOMAIN list = 1..N /\ \A i \in 1..N : list[i].chunk \in Chunks
  BY CandidateFacts
<1>2. order \in [1..N -> 1..N] /\ \A i, j \in 1..N : order[i] = order[j] => i = j
  <2>1. order \in Bijection(1..N, 1..N)
    BY <1>1
  <2> HIDE DEF N
  <2> QED
    BY <2>1 DEF Bijection, Injection, IsInjective
<1> HIDE DEF N
<1>4. ASSUME NEW i \in 1..N
      PROVE  new[i] \in X /\ new[i].chunk = list[order[i]].chunk
  <2>1. PICK c \in Chunks : c = list[order[i]].chunk
    BY <1>1, <1>2
  <2>2. PICK s \in Int : s = score[i]
    BY <1>1, QueryAssumption
  <2>3. new[i] = [chunk |-> c, score |-> s]
    BY <1>1, <2>1, <2>2
  <2> HIDE DEF new
  <2> QED
    BY <2>1, <2>3
<1>5. new \in Seq(X) /\ DOMAIN new = 1..N
  <2>1. DOMAIN new = 1..N /\ new = [i \in 1..N |-> new[i]]
    BY <1>1
  <2> HIDE DEF new, X
  <2>2. new \in [1..N -> X]
    BY <1>4, <2>1
  <2> QED
    BY <1>1, <2>1, <2>2 DEF N
<1> HIDE DEF new
<1>6. ASSUME NEW i \in 1..N, NEW j \in 1..N, new[i].chunk = new[j].chunk PROVE i = j
  <2>1. list[order[i]].chunk = list[order[j]].chunk /\ order[i] \in 1..N /\ order[j] \in 1..N
    BY <1>2, <1>4, <1>6
  <2>2. order[i] = order[j]
    BY <1>1, <2>1 DEF AreCandidates
  <2> QED
    BY <1>2, <2>2
<1> QED
  BY <1>5, <1>6 DEF AreCandidates, X, new

\* What is selected of candidates are candidates.
LEMMA SelectKeepsCandidates ==
    ASSUME NEW list, AreCandidates(list) PROVE AreCandidates(Select(list))
<1>1. PerDocumentLimit \in Nat /\ Smaller(TopN, FinalTopK) \in Nat
  BY QueryAssumption DEF Smaller
<1> QED
  BY <1>1, CleanChooses DEF Select

\* An attempt that concludes with some candidates.
LEMMA ConcludeKeepsCandidates ==
    ASSUME CandidatesOK, pc \in {"fuse", "rerank"}, NEW selected, AreCandidates(selected),
           Conclude(selected), UNCHANGED answer
    PROVE  CandidatesOK'
<1>1. /\ pc' \in {"record", "search"}
      /\ \/ selected # <<>> /\ ranked' = selected
         \/ ranked' = <<>> /\ (pc' = "record" => outcome' # "success")
      /\ answer' = answer
  BY DEF Conclude
<1>2. AreCandidates(ranked')
  BY <1>1, EmptyIsRanking
<1>3. answer = <<>>
  BY DEF CandidatesOK
<1> QED
  BY <1>1, <1>2, <1>3, EmptyIsRanking DEF CandidatesOK

\* One more candidate is checked.
LEMMA CheckKeepsCandidates ==
    ASSUME CandidatesOK, CheckCandidate PROVE CandidatesOK'
<1> DEFINE c == Head(ranked).chunk
           left == Tail(ranked)
           X == [chunk : Chunks, score : Int]
<1>1. /\ pc = "check" /\ pc' \in {"check", "context", "returned", "raised"}
      /\ \/ pc' = "raised" /\ ranked' = <<>> /\ answer' = <<>>
         \/ /\ ranked' = left /\ answer' \in {answer, Append(answer, c)}
            /\ pc' = "check" => left # <<>>
  BY DEF CheckCandidate
<1>2. /\ AreCandidates(ranked) /\ IsRanking(answer) /\ ranked # <<>>
      /\ \A i \in DOMAIN ranked, j \in DOMAIN answer : ranked[i].chunk # answer[j]
  BY <1>1 DEF CandidatesOK
<1>3. /\ Len(ranked) \in Nat /\ DOMAIN ranked = 1..Len(ranked) /\ ranked \in Seq(X)
      /\ \A i \in 1..Len(ranked) : ranked[i].chunk \in Chunks
  BY <1>2, CandidateFacts DEF AreCandidates
<1> HIDE DEF X
<1>4. /\ left \in Seq(X) /\ DOMAIN left = 1..Len(ranked) - 1
      /\ \A i \in 1..Len(ranked) - 1 :
            left[i] = ranked[i + 1] /\ i + 1 \in DOMAIN ranked /\ i + 1 # 1
      /\ 1 \in DOMAIN ranked /\ c = ranked[1].chunk
  BY <1>2, <1>3
<1>5. c \in Chunks /\ \A j \in DOMAIN answer : answer[j] # c
  BY <1>2, <1>3, <1>4
<1> HIDE DEF left, c
<1>6. \A i, j \in DOMAIN ranked : ranked[i].chunk = ranked[j].chunk => i = j
  BY <1>2 DEF AreCandidates
<1>7. AreCandidates(left)
  <2>1. ASSUME NEW i \in DOMAIN left, NEW j \in DOMAIN left, left[i].chunk = left[j].chunk
        PROVE  i + 1 = j + 1
    <3>1. /\ left[i] = ranked[i + 1] /\ left[j] = ranked[j + 1]
          /\ i + 1 \in DOMAIN ranked /\ j + 1 \in DOMAIN ranked
      BY <1>4
    <3> QED
      BY <1>6, <2>1, <3>1, Zenon
  <2>2. \A i, j \in DOMAIN left : i + 1 = j + 1 => i = j
    BY <1>3, <1>4
  <2> QED
    BY <1>4, <2>1, <2>2 DEF AreCandidates, X
<1>8. /\ answer \in Seq(Chunks) /\ Len(answer) \in Nat /\ DOMAIN answer = 1..Len(answer)
      /\ \A i, j \in DOMAIN answer : answer[i] = answer[j] => i = j
  BY <1>2, RankingFacts DEF IsRanking
<1> DEFINE more == Append(answer, c)
<1>9. /\ more \in Seq(Chunks) /\ DOMAIN more = 1..Len(answer) + 1 /\ more[Len(answer) + 1] = c
      /\ \A j \in 1..Len(answer) : more[j] = answer[j]
      /\ \A j : j \in 1..Len(answer) + 1 <=> j \in DOMAIN answer \/ j = Len(answer) + 1
  BY <1>5, <1>8
<1> HIDE DEF more
<1>10. IsRanking(more)
  <2>1. \A i, j \in DOMAIN more : more[i] = more[j] => i = j
    BY <1>5, <1>8, <1>9, Zenon
  <2> QED
    BY <1>9, <2>1 DEF IsRanking
<1>11. \A i \in DOMAIN left :
          left[i].chunk # c /\ \A j \in DOMAIN answer : left[i].chunk # answer[j]
  <2>1. ASSUME NEW i \in DOMAIN left
        PROVE  /\ left[i] = ranked[i + 1] /\ i + 1 \in DOMAIN ranked /\ i + 1 # 1
    BY <1>4
  <2>2. 1 \in DOMAIN ranked /\ c = ranked[1].chunk
    BY <1>4
  <2>3. \A i \in DOMAIN left : left[i].chunk # c
    BY <1>6, <2>1, <2>2, Zenon
  <2>4. \A i \in DOMAIN left, j \in DOMAIN answer : left[i].chunk # answer[j]
    BY <1>2, <2>1, Zenon
  <2> QED
    BY <2>3, <2>4, Zenon
<1>12. \A i \in DOMAIN left, j \in DOMAIN more : left[i].chunk # more[j]
  BY <1>8, <1>9, <1>11, Zenon
<1>13. CASE pc' = "raised" /\ ranked' = <<>> /\ answer' = <<>>
  BY <1>13, EmptyIsRanking DEF CandidatesOK
<1>14. CASE /\ ranked' = left /\ answer' \in {answer, more}
            /\ pc' = "check" => left # <<>>
  <2>1. IsRanking(answer') /\ AreCandidates(ranked')
    BY <1>2, <1>7, <1>10, <1>14
  <2>2. \A i \in DOMAIN left, j \in DOMAIN answer' : left[i].chunk # answer'[j]
    BY <1>11, <1>12, <1>14
  <2> QED
    BY <1>1, <1>14, <2>1, <2>2 DEF CandidatesOK
<1> QED
  BY <1>1, <1>13, <1>14 DEF more

\* Every step keeps the candidates.
LEMMA CandidatesStep ==
    ASSUME LoopOK, CandidatesOK, [Next]_vars PROVE CandidatesOK'
<1>1. CASE Authorize \/ Transform
  BY <1>1 DEF Authorize, Transform, CandidatesOK, loop
<1>2. CASE SearchVariant \/ SearchFails
  <2>1. pc = "search" /\ pc' \in {"search", "fuse"} /\ UNCHANGED <<ranked, answer>>
    BY <1>2 DEF SearchVariant, SearchFails, CloseChannel
  <2> QED
    BY <2>1 DEF CandidatesOK
<1>3. CASE Fuse
  <2> DEFINE fused == Fusion(found["full_text"], found["vector"])
             cut == SubSeq(fused, 1, Smaller(Len(fused), RerankCount))
  <2>1. /\ pc = "fuse" /\ answer' = answer
        /\ \/ Conclude(<<>>)
           \/ ranked' = cut /\ pc' = "rerank" /\ UNCHANGED <<loop, outcome>>
    BY <1>3 DEF Fuse
  <2>2. AreCandidates(cut)
    <3>1. IsRanking(found["full_text"]) /\ IsRanking(found["vector"])
      BY DEF LoopOK, Channels
    <3>2. AreCandidates(fused)
      BY <3>1, FusionSorts
    <3>3. RerankCount \in Nat
      BY QueryAssumption
    <3> HIDE DEF fused
    <3> QED
      BY <3>2, <3>3, FirstOfCandidates
  <2> HIDE DEF cut, fused
  <2>3. CASE ranked' = cut /\ pc' = "rerank" /\ UNCHANGED <<loop, outcome>>
    <3>1. found' = found /\ answer = <<>>
      BY <2>1, <2>3 DEF loop, CandidatesOK
    <3>2. (Fusion(found["full_text"], found["vector"]))' = fused
      BY <3>1 DEF fused
    <3> QED
      BY <2>1, <2>2, <2>3, <3>1, <3>2, EmptyIsRanking DEF CandidatesOK, cut, fused
  <2> QED
    BY <2>1, <2>3, EmptyIsRanking, ConcludeKeepsCandidates
<1>4. CASE Rerank
  <2>1. PICK order \in Bijection(DOMAIN ranked, DOMAIN ranked),
             score \in [DOMAIN ranked -> RerankScores] :
           Conclude(Select([i \in DOMAIN ranked |->
                              [chunk |-> ranked[order[i]].chunk, score |-> score[i]]]))
    BY <1>4 DEF Rerank
  <2> DEFINE list == [i \in DOMAIN ranked |->
                        [chunk |-> ranked[order[i]].chunk, score |-> score[i]]]
  <2>2. AreCandidates(list)
    BY RerankedAreCandidates DEF CandidatesOK
  <2> HIDE DEF list
  <2>3. Conclude(Select(list)) /\ pc = "rerank" /\ answer' = answer
    BY <1>4, <2>1 DEF Rerank, list
  <2>4. AreCandidates(Select(list))
    BY <2>2, SelectKeepsCandidates
  <2> QED
    BY <2>3, <2>4, ConcludeKeepsCandidates
<1>5. CASE RerankFails
  <2>1. AreCandidates(Select(ranked))
    BY SelectKeepsCandidates DEF CandidatesOK
  <2> QED
    BY <1>5, <2>1, ConcludeKeepsCandidates DEF RerankFails
<1>6. CASE RecordTrace
  <2>1. /\ pc = "record" /\ UNCHANGED <<ranked, answer>>
        /\ pc' \in {"check", "raised", "returned"} /\ (pc' = "check" => outcome = "success")
    BY <1>6 DEF RecordTrace
  <2> QED
    BY <2>1 DEF CandidatesOK
<1>7. CASE CheckCandidate
  BY <1>7, CheckKeepsCandidates
<1>8. CASE Generate
  BY <1>8 DEF Generate, CandidatesOK
<1>9. CASE \E d \in Documents : SwitchVersion(d) \/ SyncIndex(d) \/ Revoke(d)
  BY <1>9 DEF SwitchVersion, SyncIndex, Revoke, Mine, loop, CandidatesOK
<1>10. CASE UNCHANGED vars
  BY <1>10 DEF vars, loop, CandidatesOK
<1> QED
  BY <1>1, <1>2, <1>3, <1>4, <1>5, <1>6, <1>7, <1>8, <1>9, <1>10 DEF Next, Step

\* The inductive invariant holds in every state.
LEMMA QueryInvariant == Spec => []QueryInv
<1>1. Init => QueryInv
  <2> SUFFICES ASSUME Init PROVE QueryInv
    OBVIOUS
  <2>1. StoresOK
    <3>1. PICK choice \in [Documents -> Versions] :
             current = choice /\ indexed = {choice[d] : d \in Documents}
      BY DEF Init
    <3>2. current \in [Documents -> Versions \cup {None}]
      BY <3>1
    <3>3. indexed \subseteq Versions
      BY <3>1
    <3>4. readable \subseteq Documents /\ changes \in 0..MaxChanges
      BY QueryAssumption DEF Init
    <3> QED
      BY <3>2, <3>3, <3>4 DEF StoresOK
  <2>2. CallOK
    BY DEF Init, CallOK
  <2>3. LoopOK
    <3>1. 1 \in 1..MaxVariants /\ 0 \in 0..MaxFallback /\ 1 \in 1..1
      BY QueryAssumption
    <3>2. Len(ModeOf(0)) \in 1..2
      BY ModeFacts
    <3>3. NoHits \in [Chunks -> Scores \cup {0}]
      BY DEF NoHits
    <3>4. NoLists \in [Channels -> Seq(Chunks)] /\ \A ch \in Channels : IsRanking(NoLists[ch])
      BY EmptyIsRanking DEF NoLists
    <3>5. 1 \in 1..Len(ModeOf(0))
      BY <3>2
    <3> QED
      BY <3>1, <3>3, <3>4, <3>5 DEF Init, LoopOK
  <2>4. CandidatesOK
    BY EmptyIsRanking DEF Init, CandidatesOK
  <2> QED
    BY <2>1, <2>2, <2>3, <2>4 DEF QueryInv
<1>2. QueryInv /\ [Next]_vars => QueryInv'
  BY StoresStep, CallStep, LoopStep, CandidatesStep DEF QueryInv
<1> QED
  BY <1>1, <1>2, PTL DEF Spec

\* The stores and the call keep their shape whatever the channels and the reranker answer
\* and whatever changes meanwhile; rankings and answers hold no chunk twice.
THEOREM QueryTypeCorrect == Spec => []TypeOK
<1>1. QueryInv => TypeOK
  <2> SUFFICES ASSUME QueryInv PROVE TypeOK
    OBVIOUS
  <2>1. StoresOK /\ CallOK /\ LoopOK /\ CandidatesOK
    BY DEF QueryInv
  <2>2. channel \in 1..2
    <3>1. Len(ModeOf(attempt)) \in 1..2 /\ channel \in 1..Len(ModeOf(attempt))
      BY <2>1, LoopFacts, ModeFacts DEF LoopOK
    <3>2. PICK n \in 1..2 : n = Len(ModeOf(attempt))
      BY <3>1
    <3> QED
      BY <3>1, <3>2
  <2>3. \A ch \in Channels : /\ ToSet(found[ch]) \subseteq Chunks
                             /\ Cardinality(ToSet(found[ch])) = Len(found[ch])
    BY <2>1, RankingFacts DEF LoopOK
  <2>4. \A i \in DOMAIN ranked : ranked[i].chunk \in Chunks
    BY <2>1, CandidateFacts DEF CandidatesOK
  <2>5. ToSet(answer) \subseteq Chunks /\ Cardinality(ToSet(answer)) = Len(answer)
    BY <2>1, RankingFacts DEF CandidatesOK
  <2> QED
    BY <2>1, <2>2, <2>3, <2>4, <2>5 DEF StoresOK, CallOK, LoopOK, TypeOK
<1> QED
  BY <1>1, QueryInvariant, PTL

\* The candidates that are reranked are in the order that both channels agree on.
LEMMA FusedInOrder ==
    ASSUME QueryInv, pc = "rerank",
           NEW i \in DOMAIN ranked, NEW j \in DOMAIN ranked,
           \E list \in {found[ch] : ch \in Channels} :
              Above(list, ranked[i].chunk, ranked[j].chunk),
           \A list \in {found[ch] : ch \in Channels} :
              ~Above(list, ranked[j].chunk, ranked[i].chunk)
    PROVE  i < j
<1> DEFINE text == found["full_text"]
           vector == found["vector"]
           fused == Fusion(text, vector)
           k == Smaller(Len(fused), RerankCount)
<1>1. {found[ch] : ch \in Channels} = {text, vector}
  BY DEF Channels
<1>2. IsRanking(text) /\ IsRanking(vector)
  BY DEF QueryInv, LoopOK, Channels
<1>3. ranked = SubSeq(fused, 1, k)
  BY DEF QueryInv, CandidatesOK
<1> HIDE DEF text, vector
<1>4. /\ AreCandidates(fused)
      /\ \A m, n \in DOMAIN fused :
            /\ \E list \in {text, vector} : Above(list, fused[m].chunk, fused[n].chunk)
            /\ \A list \in {text, vector} : ~Above(list, fused[n].chunk, fused[m].chunk)
            => m < n
  BY <1>2, FusionSorts
<1> HIDE DEF fused
<1>5. /\ DOMAIN ranked = 1..k /\ k \in 0..Len(fused) /\ DOMAIN fused = 1..Len(fused)
      /\ Len(fused) \in Nat /\ \A m \in 1..k : ranked[m] = fused[m]
  <2>1. RerankCount \in Nat
    BY QueryAssumption
  <2>2. /\ DOMAIN SubSeq(fused, 1, k) = 1..k /\ k \in 0..Len(fused)
        /\ \A m \in 1..k : SubSeq(fused, 1, k)[m] = fused[m]
    BY <1>4, <2>1, FirstOfCandidates
  <2>3. Len(fused) \in Nat /\ DOMAIN fused = 1..Len(fused)
    BY <1>4, CandidateFacts
  <2> QED
    BY <1>3, <2>2, <2>3
<1> HIDE DEF k
<1>6. /\ i \in DOMAIN fused /\ j \in DOMAIN fused
      /\ ranked[i] = fused[i] /\ ranked[j] = fused[j]
  BY <1>5
<1> QED
  BY <1>1, <1>4, <1>6

\* A list with scores of a reranker, and which of it are to be selected.
Rescored(list, score) ==
    [i \in DOMAIN list |-> [chunk |-> list[i].chunk, score |-> score[i]]]
ChosenBy(list, score, threshold, limit, top) ==
    LET passed == {i \in DOMAIN list : score[i] >= threshold}
        spread == {i \in passed : Cardinality({j \in passed :
                     j < i /\ SameDocument(list[j].chunk, list[i].chunk)}) < limit}
    IN  {i \in spread : Cardinality({j \in spread : j < i}) < top}

\* Candidates scored anew are candidates, and what is chosen of them depends on their
\* scores and on the documents only.
LEMMA RescoredChosen ==
    ASSUME NEW list, AreCandidates(list), NEW score \in [DOMAIN list -> RerankScores],
           NEW threshold, NEW limit, NEW top
    PROVE  /\ AreCandidates(Rescored(list, score))
           /\ ChosenOf(Rescored(list, score), threshold, limit, top) =
                ChosenBy(list, score, threshold, limit, top)
<1> DEFINE rescored == Rescored(list, score)
           passed == {i \in DOMAIN list : score[i] >= threshold}
           spread == {i \in passed : Cardinality({j \in passed :
                            j < i /\ SameDocument(list[j].chunk, list[i].chunk)}) < limit}
           chosen == {i \in spread : Cardinality({j \in spread : j < i}) < top}
<1>1. AreCandidates(rescored)
  <2> DEFINE same == [i \in DOMAIN list |-> i]
             moved == [i \in DOMAIN list |-> [chunk |-> list[same[i]].chunk, score |-> score[i]]]
  <2>1. same \in Bijection(DOMAIN list, DOMAIN list)
    BY Fun_IsBij
  <2>2. AreCandidates(moved)
    <3> HIDE DEF same
    <3> QED
      BY <2>1, RerankedAreCandidates
  <2>3. moved = rescored
    BY DEF Rescored
  <2> QED
    BY <2>2, <2>3
<1>2. /\ DOMAIN rescored = DOMAIN list
      /\ \A i \in DOMAIN list : rescored[i].chunk = list[i].chunk /\ rescored[i].score = score[i]
  BY DEF Rescored
<1> HIDE DEF rescored
<1>3. PassedOf(rescored, threshold) = passed
  BY <1>2 DEF PassedOf
<1>4. \A i \in passed : {j \in LikeOf(rescored, passed, i) : j < i} =
                          {j \in passed : j < i /\ SameDocument(list[j].chunk, list[i].chunk)}
  <2>1. \A i \in passed : i \in DOMAIN list
    OBVIOUS
  <2> HIDE DEF passed
  <2> QED
    BY <1>2, <2>1, Zenon DEF LikeOf
<1> HIDE DEF passed
<1>5. SpreadOf(rescored, passed, limit) = spread
  BY <1>4 DEF SpreadOf
<1> HIDE DEF spread
<1>6. ChosenOf(rescored, threshold, limit, top) = chosen
  BY <1>3, <1>5, Zenon DEF ChosenOf, FirstOf
<1> HIDE DEF chosen
<1> QED
  BY <1>1, <1>6, Zenon DEF rescored, ChosenBy, passed, spread, chosen

\* Fusion and selection do what they are defined to: reciprocal_rank_fusion never puts a
\* candidate behind one that it beats in a channel and loses to in none, and
\* clean_candidates selects those which reach the threshold, are among the first of their
\* document and among the first of all, for any rankings and any scores.
THEOREM RankingStaysSound == Spec => []RankingIsSound
<1>1. QueryInv => RankingIsSound
  <2> SUFFICES ASSUME QueryInv, pc = "rerank" PROVE RankingIsSound
    BY DEF RankingIsSound
  <2> DEFINE place(c) == CHOOSE i \in DOMAIN ranked : ranked[i].chunk = c
             chunks == {ranked[i].chunk : i \in DOMAIN ranked}
             lists == {found[ch] : ch \in Channels}
             top == Smaller(TopN, FinalTopK)
  <2>1. AreCandidates(ranked)
    BY DEF QueryInv, CandidatesOK
  <2>2. ASSUME NEW a \in chunks, NEW b \in chunks,
               \E list \in lists : Above(list, a, b), \A list \in lists : ~Above(list, b, a)
        PROVE  place(a) < place(b)
    <3>1. place(a) \in DOMAIN ranked /\ ranked[place(a)].chunk = a
      OBVIOUS
    <3>2. place(b) \in DOMAIN ranked /\ ranked[place(b)].chunk = b
      OBVIOUS
    <3> HIDE DEF place
    <3> QED
      BY <2>2, <3>1, <3>2, FusedInOrder
  <2>3. ASSUME NEW score \in [DOMAIN ranked -> RerankScores]
        PROVE  LET passed == {i \in DOMAIN ranked : score[i] >= ThresholdOf(attempt)}
                   spread == {i \in passed : Cardinality({j \in passed :
                                j < i /\ SameDocument(ranked[j].chunk, ranked[i].chunk)})
                              < PerDocumentLimit}
                   chosen == {i \in spread : Cardinality({j \in spread : j < i}) < top}
                   rescored == [i \in DOMAIN ranked |->
                                  [chunk |-> ranked[i].chunk, score |-> score[i]]]
                   selected == Select(rescored)
               IN  ToSet(selected) = {rescored[i] : i \in chosen}
    <3> DEFINE rescored == Rescored(ranked, score)
               chosen == ChosenBy(ranked, score, ThresholdOf(attempt), PerDocumentLimit, top)
    <3>1. PerDocumentLimit \in Nat /\ top \in Nat
      BY QueryAssumption DEF Smaller
    <3> HIDE DEF top
    <3>2. /\ AreCandidates(rescored)
          /\ ChosenOf(rescored, ThresholdOf(attempt), PerDocumentLimit, top) = chosen
      BY <2>1, RescoredChosen
    <3> HIDE DEF rescored, chosen
    <3>3. ToSet(Clean(rescored, ThresholdOf(attempt), PerDocumentLimit, top)) =
            {rescored[i] : i \in chosen}
      BY <3>1, <3>2, CleanChooses
    <3>4. Select(rescored) = Clean(rescored, ThresholdOf(attempt), PerDocumentLimit, top)
      BY DEF Select, top
    <3>5. ToSet(Select(rescored)) = {rescored[i] : i \in chosen}
      BY <3>3, <3>4
    <3> QED
      BY <3>5, Zenon DEF rescored, chosen, Rescored, ChosenBy
  <2> QED
    BY <2>2, <2>3, Zenon DEF RankingIsSound
<1> QED
  BY <1>1, QueryInvariant, PTL

=============================================================================
