--------------------------- MODULE KnowledgeProofs ----------------------------
(***************************************************************************)
(* The read-only pipelines for every value of their constants.  No line of *)
(* a source is lost between its blocks and its chunks: what every strategy *)
(* makes of any list of blocks, and what a window of any length and        *)
(* overlap makes of any groups.  What is derived from chunks holds what it *)
(* is made from: trees, graphs, windows, contexts and merged results.      *)
(***************************************************************************)
EXTENDS MCKnowledge, KnowledgeQueryProofs

-----------------------------------------------------------------------------
(* Recursion over the natural numbers.                                       *)

\* From a value on, a step after the other.
Follow(f, base, step, N) == f[0] = base /\ \A n \in 1..N : f[n] = step[n][f[n - 1]]

\* There is a function that takes N steps of a set into itself.
LEMMA Recursion ==
  ASSUME NEW D, NEW base \in D, NEW step \in [Nat -> [D -> D]], NEW N \in Nat
  PROVE  \E f \in [0..N -> D] : Follow(f, base, step, N)
<1> DEFINE S == {n \in Nat : \E f \in [0..n -> D] : Follow(f, base, step, n)}
<1>1. 0 \in S
  <2> DEFINE f == [k \in 0..0 |-> base]
  <2>1. f \in [0..0 -> D] /\ Follow(f, base, step, 0)
    BY DEF Follow
  <2> HIDE DEF f
  <2>2. \E g \in [0..0 -> D] : Follow(g, base, step, 0)
    BY <2>1
  <2> QED
    BY <2>2
<1>2. ASSUME NEW n \in S PROVE n + 1 \in S
  <2>1. n \in Nat /\ n + 1 \in Nat
    OBVIOUS
  <2>2. PICK f \in [0..n -> D] : Follow(f, base, step, n)
    OBVIOUS
  <2> DEFINE g == [k \in 0..n + 1 |-> IF k = n + 1 THEN step[n + 1][f[n]] ELSE f[k]]
  <2>3. n \in 0..n /\ f[n] \in D /\ step[n + 1] \in [D -> D] /\ step[n + 1][f[n]] \in D
    BY <2>1
  <2>4. \A k \in 0..n : g[k] = f[k]
    BY <2>1
  <2>5. g[n + 1] = step[n + 1][f[n]]
    BY <2>1
  <2>6. g \in [0..n + 1 -> D]
    <3>1. \A k \in 0..n + 1 : k # n + 1 => k \in 0..n
      BY <2>1
    <3> QED
      BY <2>3, <3>1
  <2> HIDE DEF g
  <2>7. ASSUME NEW k \in 1..n + 1 PROVE g[k] = step[k][g[k - 1]]
    <3>1. CASE k = n + 1
      <4>1. k - 1 = n
        BY <2>1, <3>1
      <4> QED
        BY <2>3, <2>4, <2>5, <3>1, <4>1
    <3>2. CASE k # n + 1
      <4>1. k \in 1..n /\ k \in 0..n /\ k - 1 \in 0..n
        BY <2>1, <3>2
      <4> QED
        BY <2>2, <2>4, <4>1 DEF Follow
    <3> QED
      BY <3>1, <3>2
  <2>8. 0 \in 0..n /\ g[0] = base
    BY <2>1, <2>2, <2>4 DEF Follow
  <2>9. Follow(g, base, step, n + 1)
    BY <2>7, <2>8 DEF Follow
  <2> QED
    BY <2>1, <2>6, <2>9
<1>3. S = Nat
  <2>1. S \in SUBSET Nat
    OBVIOUS
  <2> HIDE DEF S
  <2> QED
    BY <1>1, <1>2, <2>1, NatInd
<1> QED
  BY <1>3

-----------------------------------------------------------------------------
(* Sequences of sequences.                                                   *)

IsFlattening(f, seqs) ==
    f = [i \in 1..Len(seqs) |-> IF i = 1 THEN seqs[i] ELSE f[i - 1] \o seqs[i]]

\* What is appended to a sequence is what is in both.
LEMMA JoinedHave ==
  ASSUME NEW X, NEW s \in Seq(X), NEW t \in Seq(X)
  PROVE  s \o t \in Seq(X) /\ ToSet(s \o t) = ToSet(s) \cup ToSet(t)
<1>1. /\ s \o t \in Seq(X) /\ Len(s \o t) = Len(s) + Len(t)
      /\ Len(s) \in Nat /\ Len(t) \in Nat
      /\ \A i \in 1..Len(s) : (s \o t)[i] = s[i]
      /\ \A i \in 1..Len(t) : (s \o t)[Len(s) + i] = t[i]
  BY ConcatProperties, LenProperties
<1>2. DOMAIN s = 1..Len(s) /\ DOMAIN t = 1..Len(t) /\ DOMAIN (s \o t) = 1..Len(s) + Len(t)
  BY <1>1
<1>3. ASSUME NEW x \in ToSet(s \o t) PROVE x \in ToSet(s) \cup ToSet(t)
  <2>1. PICK i \in 1..Len(s) + Len(t) : x = (s \o t)[i]
    BY <1>2 DEF ToSet
  <2>2. CASE i <= Len(s)
    BY <1>1, <1>2, <2>1, <2>2 DEF ToSet
  <2>3. CASE ~ (i <= Len(s))
    <3>1. i - Len(s) \in 1..Len(t) /\ Len(s) + (i - Len(s)) = i
      BY <1>1, <2>1, <2>3
    <3>2. x = t[i - Len(s)]
      BY <1>1, <2>1, <3>1
    <3> QED
      BY <1>2, <3>1, <3>2 DEF ToSet
  <2> QED
    BY <2>2, <2>3
<1>4. ASSUME NEW i \in 1..Len(s) PROVE s[i] \in ToSet(s \o t)
  BY <1>1, <1>2 DEF ToSet
<1>5. ASSUME NEW i \in 1..Len(t) PROVE t[i] \in ToSet(s \o t)
  <2>1. Len(s) + i \in 1..Len(s) + Len(t)
    BY <1>1
  <2> QED
    BY <1>1, <1>2, <2>1 DEF ToSet
<1>6. ToSet(s) \cup ToSet(t) \subseteq ToSet(s \o t)
  BY <1>2, <1>4, <1>5 DEF ToSet
<1> QED
  BY <1>1, <1>3, <1>6

\* The elements of a sequence, one more or one alone.
LEMMA OneMoreHas ==
  ASSUME NEW X, NEW s \in Seq(X), NEW x \in X
  PROVE  /\ <<x>> \in Seq(X) /\ ToSet(<<x>>) = {x}
         /\ Append(s, x) \in Seq(X) /\ ToSet(Append(s, x)) = ToSet(s) \cup {x}
<1>1. <<x>> \in Seq(X) /\ Len(<<x>>) = 1 /\ <<x>>[1] = x /\ DOMAIN <<x>> = 1..1
  OBVIOUS
<1>2. ToSet(<<x>>) = {x}
  BY <1>1 DEF ToSet
<1>3. /\ Append(s, x) \in Seq(X) /\ Len(Append(s, x)) = Len(s) + 1 /\ Len(s) \in Nat
      /\ \A i \in 1..Len(s) : Append(s, x)[i] = s[i]
      /\ Append(s, x)[Len(s) + 1] = x
  BY AppendProperties, LenProperties
<1>4. DOMAIN s = 1..Len(s) /\ DOMAIN Append(s, x) = 1..Len(s) + 1
  BY <1>3
<1>5. 1..Len(s) + 1 = (1..Len(s)) \cup {Len(s) + 1}
  BY <1>3
<1>6. ToSet(Append(s, x)) = ToSet(s) \cup {x}
  <2>1. ASSUME NEW y \in ToSet(Append(s, x)) PROVE y \in ToSet(s) \cup {x}
    BY <1>3, <1>4, <1>5 DEF ToSet
  <2>2. ASSUME NEW y \in ToSet(s) \cup {x} PROVE y \in ToSet(Append(s, x))
    BY <1>3, <1>4, <1>5 DEF ToSet
  <2> QED
    BY <2>1, <2>2
<1> QED
  BY <1>1, <1>2, <1>3, <1>6

\* What some of the sequences have.
Members(seqs, T) == UNION {ToSet(seqs[i]) : i \in T}

\* One more place adds what stands there.
LEMMA OneMoreMember ==
  ASSUME NEW seqs, NEW T, NEW m
  PROVE  Members(seqs, T \cup {m}) = Members(seqs, T) \cup ToSet(seqs[m])
BY DEF Members

\* A flat sequence has what the sequences it is made of have.
LEMMA FlatHas ==
  ASSUME NEW X, NEW seqs \in Seq(Seq(X))
  PROVE  /\ FlattenSeq(seqs) \in Seq(X)
         /\ ToSet(FlattenSeq(seqs)) = Members(seqs, DOMAIN seqs)
<1> DEFINE N == Len(seqs)
           step == [n \in Nat |-> [s \in Seq(X) |-> IF n \in 1..N THEN s \o seqs[n] ELSE s]]
<1>1. N \in Nat /\ DOMAIN seqs = 1..N /\ \A i \in 1..N : seqs[i] \in Seq(X)
  OBVIOUS
<1>2. CASE N = 0
  <2>1. FlattenSeq(seqs) = seqs /\ seqs = <<>>
    BY <1>1, <1>2, EmptySeq DEF FlattenSeq
  <2>2. DOMAIN seqs = {}
    BY <1>1, <1>2
  <2>3. ToSet(seqs) = {} /\ Members(seqs, DOMAIN seqs) = {}
    BY <2>2 DEF ToSet, Members
  <2> QED
    BY <2>1, <2>3, EmptySeq
<1>3. CASE N # 0
  <2>1. \A n \in Nat : \A s \in Seq(X) : (IF n \in 1..N THEN s \o seqs[n] ELSE s) \in Seq(X)
    BY <1>1, JoinedHave
  <2>2. step \in [Nat -> [Seq(X) -> Seq(X)]]
    BY <2>1
  <2>3. <<>> \in Seq(X) /\ \A s \in Seq(X) : <<>> \o s = s
    BY ConcatEmptySeq, EmptySeq
  <2>4. \A n \in 1..N, s \in Seq(X) : step[n][s] = s \o seqs[n]
    BY <1>1
  <2> HIDE DEF step
  <2>5. PICK h \in [0..N -> Seq(X)] : Follow(h, <<>>, step, N)
    BY <1>1, <2>2, <2>3, Recursion
  <2> DEFINE g == [i \in 1..N |-> h[i]]
  <2>6. IsFlattening(g, seqs)
    <3>1. ASSUME NEW i \in 1..N PROVE g[i] = IF i = 1 THEN seqs[i] ELSE g[i - 1] \o seqs[i]
      <4>0. i \in 0..N /\ i - 1 \in 0..N
        BY <1>1
      <4>1. i \in 0..N /\ i - 1 \in 0..N /\ h[i - 1] \in Seq(X) /\ h[i] = step[i][h[i - 1]]
        <5> HIDE DEF N, g
        <5> QED
          BY <2>5, <4>0 DEF Follow
      <4>2. h[i] = h[i - 1] \o seqs[i]
        BY <2>4, <4>1
      <4>3. CASE i = 1
        BY <1>1, <2>3, <2>5, <4>2, <4>3 DEF Follow
      <4>4. CASE i # 1
        <5>1. i - 1 \in 1..N
          BY <1>1, <4>4
        <5> QED
          BY <4>2, <4>4, <5>1
      <4> QED
        BY <4>3, <4>4
    <3>2. g = [i \in 1..N |-> g[i]]
      OBVIOUS
    <3> HIDE DEF g
    <3> QED
      BY <3>1, <3>2, Zenon DEF IsFlattening
  <2> DEFINE f == CHOOSE f : IsFlattening(f, seqs)
  <2>7. IsFlattening(f, seqs)
    <3>1. \E k : IsFlattening(k, seqs)
      <4> HIDE DEF g
      <4> QED
        BY <2>6
    <3> QED
      BY <3>1, Zenon
  <2>8. FlattenSeq(seqs) = f[N]
    BY <1>3, Zenon DEF FlattenSeq, IsFlattening
  <2> HIDE DEF f
  <2>9. \A i \in 1..N : f[i] = IF i = 1 THEN seqs[i] ELSE f[i - 1] \o seqs[i]
    BY <2>7 DEF IsFlattening
  <2> DEFINE Has(n) == /\ f[n] \in Seq(X)
                       /\ ToSet(f[n]) = Members(seqs, 1..n)
             S == {n \in Nat : n + 1 \in 1..N => Has(n + 1)}
  <2>10. 0 \in S
    <3>1. f[1] = seqs[1] /\ 1..1 = {1} /\ 1 \in 1..N
      BY <1>1, <1>3, <2>9
    <3>2. Members(seqs, {1}) = ToSet(seqs[1])
      BY DEF Members
    <3>3. Has(1)
      BY <1>1, <3>1, <3>2
    <3> QED
      BY <3>3
  <2>11. ASSUME NEW n \in S PROVE n + 1 \in S
    <3>1. n \in Nat /\ n + 1 \in Nat /\ (n + 1) + 1 \in Nat
      OBVIOUS
    <3>2. SUFFICES ASSUME (n + 1) + 1 \in 1..N PROVE Has((n + 1) + 1)
      BY <3>1
    <3>3. n + 1 \in 1..N /\ (n + 1) + 1 # 1 /\ ((n + 1) + 1) - 1 = n + 1
      BY <1>1, <3>1, <3>2
    <3>4. Has(n + 1)
      BY <3>3
    <3>5. f[(n + 1) + 1] = f[n + 1] \o seqs[(n + 1) + 1]
      BY <2>9, <3>2, <3>3
    <3>6. 1..(n + 1) + 1 = (1..n + 1) \cup {(n + 1) + 1}
      BY <3>1
    <3> DEFINE m == (n + 1) + 1
    <3>7. /\ f[m] \in Seq(X) /\ ToSet(f[m]) = ToSet(f[n + 1]) \cup ToSet(seqs[m])
      BY <1>1, <3>2, <3>4, <3>5, JoinedHave
    <3> HIDE DEF m
    <3>8. Members(seqs, 1..m) = Members(seqs, 1..n + 1) \cup ToSet(seqs[m])
      <4>1. 1..m = (1..n + 1) \cup {m}
        BY <3>6 DEF m
      <4>2. Members(seqs, (1..n + 1) \cup {m}) = Members(seqs, 1..n + 1) \cup ToSet(seqs[m])
        BY OneMoreMember
      <4> QED
        BY <4>1, <4>2, Zenon
    <3>9. ToSet(f[n + 1]) = Members(seqs, 1..n + 1)
      BY <3>4
    <3>10. Has(m)
      BY <3>7, <3>8, <3>9
    <3> QED
      BY <3>10 DEF m
  <2>12. S = Nat
    <3>1. S \in SUBSET Nat
      OBVIOUS
    <3> HIDE DEF S
    <3> QED
      BY <2>10, <2>11, <3>1, NatInd
  <2>13. Has(N)
    <3>1. N - 1 \in Nat /\ (N - 1) + 1 = N /\ N \in 1..N
      BY <1>1, <1>3
    <3>2. N - 1 \in S
      BY <2>12, <3>1
    <3> HIDE DEF Has
    <3>3. (N - 1) + 1 \in 1..N => Has((N - 1) + 1)
      BY <3>2
    <3> QED
      BY <3>1, <3>3
  <2> QED
    BY <1>1, <2>8, <2>13
<1> QED
  BY <1>2, <1>3

\* What the groups of a sequence have.
Cover(groupings) == UNION {ToSet(g) : g \in ToSet(groupings)}

\* The members of groups are what they cover.
LEMMA CoverIs ==
  ASSUME NEW seqs
  PROVE  Members(seqs, DOMAIN seqs) = Cover(seqs)
BY DEF Members, Cover, ToSet

\* What stands at the places that are kept is kept.
LEMMA KeepHas ==
  ASSUME NEW X, NEW s \in Seq(X), NEW P
  PROVE  Keep(s, P) \in Seq(X) /\ ToSet(Keep(s, P)) = {s[i] : i \in P \cap DOMAIN s}
<1> DEFINE t == [i \in DOMAIN s |-> IF i \in P THEN <<s[i]>> ELSE <<>>]
<1>1. DOMAIN s = 1..Len(s) /\ Len(s) \in Nat /\ \A i \in DOMAIN s : s[i] \in X
  OBVIOUS
<1>2. <<>> \in Seq(X) /\ ToSet(<<>>) = {}
  BY EmptySeq DEF ToSet
<1>3. \A i \in DOMAIN s : /\ <<s[i]>> \in Seq(X) /\ ToSet(<<s[i]>>) = {s[i]}
  BY <1>1, <1>2, OneMoreHas
<1>4. t \in Seq(Seq(X)) /\ DOMAIN t = DOMAIN s
  BY <1>1, <1>2, <1>3
<1>5. \A i \in DOMAIN s : ToSet(t[i]) = IF i \in P THEN {s[i]} ELSE {}
  BY <1>2, <1>3
<1>6. Keep(s, P) = FlattenSeq(t)
  BY DEF Keep
<1> HIDE DEF t
<1>7. Keep(s, P) \in Seq(X) /\ ToSet(Keep(s, P)) = Members(t, DOMAIN t)
  BY <1>4, <1>6, FlatHas
<1>8. Members(t, DOMAIN t) = {s[i] : i \in P \cap DOMAIN s}
  BY <1>4, <1>5 DEF Members
<1> QED
  BY <1>7, <1>8

-----------------------------------------------------------------------------
(* Groups.                                                                   *)

\* The same of sequences of groups.
LEMMA GroupsJoin ==
  ASSUME NEW X, NEW s \in Seq(Seq(X)), NEW t \in Seq(Seq(X))
  PROVE  s \o t \in Seq(Seq(X)) /\ ToSet(s \o t) = ToSet(s) \cup ToSet(t)
<1> DEFINE Y == Seq(X)
<1>1. s \in Seq(Y) /\ t \in Seq(Y)
  OBVIOUS
<1> HIDE DEF Y
<1>2. s \o t \in Seq(Y) /\ ToSet(s \o t) = ToSet(s) \cup ToSet(t)
  BY <1>1, JoinedHave
<1> QED
  BY <1>2 DEF Y

\* One more group adds what it has.
LEMMA GroupsOneMore ==
  ASSUME NEW X, NEW s \in Seq(Seq(X)), NEW g \in Seq(X)
  PROVE  /\ Append(s, g) \in Seq(Seq(X)) /\ ToSet(Append(s, g)) = ToSet(s) \cup {g}
         /\ <<g>> \in Seq(Seq(X)) /\ ToSet(<<g>>) = {g}
<1> DEFINE Y == Seq(X)
<1>1. s \in Seq(Y) /\ g \in Y
  OBVIOUS
<1> HIDE DEF Y
<1>2. /\ Append(s, g) \in Seq(Y) /\ ToSet(Append(s, g)) = ToSet(s) \cup {g}
      /\ <<g>> \in Seq(Y) /\ ToSet(<<g>>) = {g}
  BY <1>1, OneMoreHas
<1> QED
  BY <1>2 DEF Y

Growing(X) == [full : Seq(Seq(X)), open : Seq(X)]

\* What the groups so far have, full or open.
Held(done) == Cover(done.full) \cup ToSet(done.open)

\* An element is added to what the groups have.
LEMMA AddedHas ==
  ASSUME NEW X, NEW done \in Growing(X), NEW e \in X, NEW opening, NEW lone
  PROVE  /\ Added(done, e, opening, lone) \in Growing(X)
         /\ Held(Added(done, e, opening, lone)) = Held(done) \cup {e}
<1>1. done.full \in Seq(Seq(X)) /\ done.open \in Seq(X)
  BY DEF Growing
<1>2. <<>> \in Seq(X) /\ <<>> \in Seq(Seq(X)) /\ ToSet(<<>>) = {}
  BY EmptySeq DEF ToSet
<1>3. <<e>> \in Seq(X) /\ ToSet(<<e>>) = {e}
  BY <1>2, OneMoreHas
<1>4. \A g \in Seq(X) : <<g>> \in Seq(Seq(X)) /\ ToSet(<<g>>) = {g}
  BY <1>2, GroupsOneMore
<1>5. CASE e \in lone
  <2> DEFINE rest == IF done.open = <<>> THEN <<>> ELSE <<done.open>>
  <2>1. rest \in Seq(Seq(X)) /\ Cover(rest) = ToSet(done.open)
    <3>1. CASE done.open = <<>>
      BY <1>2, <3>1 DEF Cover
    <3>2. CASE done.open # <<>>
      BY <1>1, <1>4, <3>2 DEF Cover
    <3> QED
      BY <3>1, <3>2
  <2> HIDE DEF rest
  <2>2. /\ done.full \o rest \in Seq(Seq(X))
        /\ ToSet(done.full \o rest) = ToSet(done.full) \cup ToSet(rest)
    BY <1>1, <2>1, GroupsJoin
  <2>3. << <<e>> >> \in Seq(Seq(X)) /\ ToSet(<< <<e>> >>) = {<<e>>}
    BY <1>3, <1>4
  <2>4. /\ done.full \o rest \o << <<e>> >> \in Seq(Seq(X))
        /\ ToSet(done.full \o rest \o << <<e>> >>)
              = ToSet(done.full) \cup ToSet(rest) \cup {<<e>>}
    <3> DEFINE one == << <<e>> >>
               s == done.full \o rest
    <3>1. s \in Seq(Seq(X)) /\ one \in Seq(Seq(X)) /\ ToSet(one) = {<<e>>}
      BY <2>2, <2>3
    <3> HIDE DEF one, s
    <3>2. s \o one \in Seq(Seq(X)) /\ ToSet(s \o one) = ToSet(s) \cup ToSet(one)
      BY <3>1, GroupsJoin
    <3> QED
      BY <2>2, <3>1, <3>2 DEF s, one
  <2>5. Cover(done.full \o rest \o << <<e>> >>) = Cover(done.full) \cup ToSet(done.open) \cup {e}
    <3>1. Cover(done.full \o rest \o << <<e>> >>)
             = Cover(done.full) \cup Cover(rest) \cup ToSet(<<e>>)
      BY <2>4 DEF Cover
    <3> QED
      BY <1>3, <2>1, <3>1
  <2>6. Added(done, e, opening, lone) = [full |-> done.full \o rest \o << <<e>> >>, open |-> <<>>]
    BY <1>5 DEF Added, rest
  <2> DEFINE all == done.full \o rest \o << <<e>> >>
  <2> HIDE DEF all
  <2>7. all \in Seq(Seq(X)) /\ Cover(all) = Cover(done.full) \cup ToSet(done.open) \cup {e}
        /\ Added(done, e, opening, lone) = [full |-> all, open |-> <<>>]
    BY <2>4, <2>5, <2>6 DEF all
  <2> QED
    BY <1>2, <2>7 DEF Growing, Held
<1>6. CASE e \notin lone /\ e \in opening /\ done.open # <<>>
  <2>1. /\ Append(done.full, done.open) \in Seq(Seq(X))
        /\ ToSet(Append(done.full, done.open)) = ToSet(done.full) \cup {done.open}
    <3> DEFINE s == done.full
               g == done.open
    <3>1. s \in Seq(Seq(X)) /\ g \in Seq(X)
      BY <1>1
    <3> HIDE DEF s, g
    <3>2. /\ Append(s, g) \in Seq(Seq(X)) /\ ToSet(Append(s, g)) = ToSet(s) \cup {g}
          /\ <<g>> \in Seq(Seq(X)) /\ ToSet(<<g>>) = {g}
      BY <3>1, GroupsOneMore
    <3> QED
      BY <3>2 DEF s, g
  <2>2. Cover(Append(done.full, done.open)) = Cover(done.full) \cup ToSet(done.open)
    BY <2>1 DEF Cover
  <2>3. Added(done, e, opening, lone) = [full |-> Append(done.full, done.open), open |-> <<e>>]
    BY <1>6 DEF Added
  <2> DEFINE all == Append(done.full, done.open)
             one == <<e>>
  <2>4. all \in Seq(Seq(X)) /\ Cover(all) = Cover(done.full) \cup ToSet(done.open)
        /\ one \in Seq(X) /\ ToSet(one) = {e}
        /\ Added(done, e, opening, lone) = [full |-> all, open |-> one]
    BY <1>3, <2>1, <2>2, <2>3
  <2> HIDE DEF all, one
  <2> QED
    BY <2>4 DEF Growing, Held
<1>7. CASE e \notin lone /\ ~ (e \in opening /\ done.open # <<>>)
  <2>1. /\ Append(done.open, e) \in Seq(X)
        /\ ToSet(Append(done.open, e)) = ToSet(done.open) \cup {e}
    <3> DEFINE g == done.open
    <3>1. g \in Seq(X)
      BY <1>1
    <3> HIDE DEF g
    <3>2. /\ <<e>> \in Seq(X) /\ ToSet(<<e>>) = {e}
          /\ Append(g, e) \in Seq(X) /\ ToSet(Append(g, e)) = ToSet(g) \cup {e}
      BY <3>1, OneMoreHas
    <3> QED
      BY <3>2 DEF g
  <2>2. Added(done, e, opening, lone) = [full |-> done.full, open |-> Append(done.open, e)]
    BY <1>7 DEF Added
  <2> QED
    BY <1>1, <2>1, <2>2 DEF Growing, Held
<1> QED
  BY <1>5, <1>6, <1>7

Ungrouped == [full |-> <<>>, open |-> <<>>]
IsGrouping(f, elements, opening, lone) ==
    f = [n \in 0..Len(elements) |->
            IF n = 0 THEN Ungrouped ELSE Added(f[n - 1], elements[n], opening, lone)]

\* Groups have all the elements they are made of, and nothing else.
LEMMA GroupedHas ==
  ASSUME NEW X, NEW elements \in Seq(X), NEW opening, NEW lone
  PROVE  /\ Grouped(elements, opening, lone) \in Seq(Seq(X))
         /\ Cover(Grouped(elements, opening, lone)) = ToSet(elements)
<1> DEFINE N == Len(elements)
           D == Growing(X)
           step == [n \in Nat |-> [d \in D |->
                      IF n \in 1..N THEN Added(d, elements[n], opening, lone) ELSE d]]
<1>1. N \in Nat /\ DOMAIN elements = 1..N /\ \A i \in 1..N : elements[i] \in X
  OBVIOUS
<1>2. Ungrouped \in D /\ Held(Ungrouped) = {}
  <2>1. <<>> \in Seq(X) /\ <<>> \in Seq(Seq(X)) /\ ToSet(<<>>) = {}
    BY EmptySeq DEF ToSet
  <2> QED
    BY <2>1 DEF Ungrouped, Growing, Held, Cover
<1> HIDE DEF N, D
<1>3. \A n \in Nat : \A d \in D :
         (IF n \in 1..N THEN Added(d, elements[n], opening, lone) ELSE d) \in D
  BY <1>1, AddedHas DEF D
<1>4. step \in [Nat -> [D -> D]]
  BY <1>3
<1>5. \A n \in 1..N, d \in D : step[n][d] = Added(d, elements[n], opening, lone)
  BY <1>1
<1> HIDE DEF step
<1>6. PICK h \in [0..N -> D] : Follow(h, Ungrouped, step, N)
  BY <1>1, <1>2, <1>4, Recursion
<1>7. IsGrouping(h, elements, opening, lone)
  <2>1. ASSUME NEW n \in 0..N
        PROVE  h[n] = IF n = 0 THEN Ungrouped ELSE Added(h[n - 1], elements[n], opening, lone)
    <3>1. CASE n = 0
      BY <1>6, <3>1 DEF Follow
    <3>2. CASE n # 0
      <4>1. n \in 1..N /\ n - 1 \in 0..N
        BY <1>1, <3>2
      <4>2. h[n - 1] \in D /\ h[n] = step[n][h[n - 1]]
        BY <1>6, <4>1 DEF Follow
      <4> QED
        BY <1>5, <3>2, <4>1, <4>2
    <3> QED
      BY <3>1, <3>2
  <2>2. h = [n \in 0..N |-> h[n]]
    BY <1>6
  <2>3. h = [n \in 0..N |->
               IF n = 0 THEN Ungrouped ELSE Added(h[n - 1], elements[n], opening, lone)]
    BY <2>1, <2>2, Zenon
  <2> QED
    BY <2>3, Zenon DEF IsGrouping, N
<1> DEFINE f == CHOOSE f : IsGrouping(f, elements, opening, lone)
           all == f[N]
<1>8. IsGrouping(f, elements, opening, lone)
  <2>1. \E k : IsGrouping(k, elements, opening, lone)
    BY <1>7, Zenon
  <2> QED
    BY <2>1, Zenon
<1>9. Grouped(elements, opening, lone) = IF all.open = <<>> THEN all.full
                                         ELSE Append(all.full, all.open)
  BY Zenon DEF Grouped, IsGrouping, Ungrouped, N
<1> HIDE DEF f
<1>10. \A n \in 0..N : f[n] = IF n = 0 THEN Ungrouped
                              ELSE Added(f[n - 1], elements[n], opening, lone)
  BY <1>8 DEF IsGrouping, N
<1> DEFINE First(n) == {elements[i] : i \in 1..n}
           S == {n \in Nat : n \in 0..N => f[n] \in D /\ Held(f[n]) = First(n)}
<1>11. 0 \in S
  <2>1. 0 \in 0..N /\ 1..0 = {}
    BY <1>1
  <2>2. First(0) = {}
    BY <2>1
  <2> QED
    BY <1>2, <1>10, <2>1, <2>2
<1>12. ASSUME NEW n \in S PROVE n + 1 \in S
  <2>1. n \in Nat /\ n + 1 \in Nat
    OBVIOUS
  <2>2. SUFFICES ASSUME n + 1 \in 0..N PROVE f[n + 1] \in D /\ Held(f[n + 1]) = First(n + 1)
    BY <2>1
  <2>3. n \in 0..N /\ n + 1 # 0 /\ (n + 1) - 1 = n /\ n + 1 \in 1..N
    BY <1>1, <2>1, <2>2
  <2>4. f[n] \in D /\ Held(f[n]) = First(n)
    BY <2>3
  <2>5. f[n + 1] = Added(f[n], elements[n + 1], opening, lone)
    BY <1>10, <2>2, <2>3
  <2>6. f[n + 1] \in D /\ Held(f[n + 1]) = Held(f[n]) \cup {elements[n + 1]}
    BY <1>1, <2>3, <2>4, <2>5, AddedHas DEF D
  <2>7. First(n + 1) = First(n) \cup {elements[n + 1]}
    <3>1. 1..n + 1 = (1..n) \cup {n + 1}
      BY <2>1
    <3> QED
      BY <3>1
  <2> QED
    BY <2>4, <2>6, <2>7
<1>13. S = Nat
  <2>1. S \in SUBSET Nat
    OBVIOUS
  <2> HIDE DEF S
  <2> QED
    BY <1>11, <1>12, <2>1, NatInd
<1>14. all \in D /\ Held(all) = First(N)
  <2>1. N \in S /\ N \in 0..N
    <3> HIDE DEF S
    <3> QED
      BY <1>1, <1>13
  <2> QED
    BY <2>1
<1>15. First(N) = ToSet(elements)
  BY <1>1 DEF ToSet
<1> HIDE DEF all, First
<1>16. all.full \in Seq(Seq(X)) /\ all.open \in Seq(X)
  BY <1>14 DEF D, Growing
<1>17. CASE all.open = <<>>
  <2>1. ToSet(all.open) = {}
    BY <1>17 DEF ToSet
  <2> QED
    BY <1>9, <1>14, <1>15, <1>16, <1>17, <2>1 DEF Held
<1>18. CASE all.open # <<>>
  <2>1. /\ Append(all.full, all.open) \in Seq(Seq(X))
        /\ ToSet(Append(all.full, all.open)) = ToSet(all.full) \cup {all.open}
    <3> DEFINE s == all.full
               g == all.open
    <3>1. s \in Seq(Seq(X)) /\ g \in Seq(X)
      BY <1>16
    <3> HIDE DEF s, g
    <3>2. /\ Append(s, g) \in Seq(Seq(X)) /\ ToSet(Append(s, g)) = ToSet(s) \cup {g}
          /\ <<g>> \in Seq(Seq(X)) /\ ToSet(<<g>>) = {g}
      BY <3>1, GroupsOneMore
    <3> QED
      BY <3>2 DEF s, g
  <2>2. Cover(Append(all.full, all.open)) = Cover(all.full) \cup ToSet(all.open)
    BY <2>1 DEF Cover
  <2> QED
    BY <1>9, <1>14, <1>15, <1>18, <2>1, <2>2 DEF Held
<1> QED
  BY <1>17, <1>18

-----------------------------------------------------------------------------
(* What the strategies make of a list of blocks.                             *)

Spots == Nat \X Nat

\* The blocks and the lines of each are lists.
Listed ==
    /\ blocks \in Seq(ToSet(blocks))
    /\ \A b \in Blocks : blocks[b].lines \in Seq(ToSet(blocks[b].lines))

\* Every line of every block.
Whole == UNION {ToSet(Places(b)) : b \in Blocks}

\* The places of a block are its lines.
LEMMA PlacesAre ==
  ASSUME Listed, NEW b \in Blocks
  PROVE  /\ Len(blocks[b].lines) \in Nat
         /\ DOMAIN blocks[b].lines = 1..Len(blocks[b].lines)
         /\ b \in Nat
         /\ Places(b) \in Seq(Spots)
         /\ Len(Places(b)) = Len(blocks[b].lines)
         /\ ToSet(Places(b)) = {<<b, l>> : l \in 1..Len(blocks[b].lines)}
<1> DEFINE lines == blocks[b].lines
           T == ToSet(lines)
<1>1. lines \in Seq(T) /\ b \in Nat
  BY DEF Listed, Blocks
<1> HIDE DEF T
<1>2. Len(lines) \in Nat /\ DOMAIN lines = 1..Len(lines)
  BY <1>1
<1>3. Places(b) = [l \in DOMAIN lines |-> <<b, l>>]
  BY DEF Places
<1> HIDE DEF lines
<1>4. \A l \in DOMAIN lines : <<b, l>> \in Spots
  BY <1>1, <1>2 DEF Spots
<1>5. Places(b) \in Seq(Spots) /\ Len(Places(b)) = Len(lines)
  BY <1>2, <1>3, <1>4
<1>6. ToSet(Places(b)) = {<<b, l>> : l \in 1..Len(lines)}
  BY <1>2, <1>3 DEF ToSet
<1> QED
  BY <1>1, <1>2, <1>5, <1>6 DEF lines

\* The blocks are numbered.
LEMMA BlocksAre ==
  ASSUME Listed
  PROVE  /\ Len(blocks) \in Nat /\ Blocks = 1..Len(blocks)
         /\ Numbers(Len(blocks)) \in Seq(Blocks) /\ ToSet(Numbers(Len(blocks))) = Blocks
<1> DEFINE T == ToSet(blocks)
<1>1. blocks \in Seq(T)
  BY DEF Listed
<1> HIDE DEF T
<1>2. Len(blocks) \in Nat /\ Blocks = 1..Len(blocks)
  BY <1>1 DEF Blocks
<1>3. Numbers(Len(blocks)) = [i \in 1..Len(blocks) |-> i]
  BY DEF Numbers
<1>4. Numbers(Len(blocks)) \in Seq(Blocks)
  BY <1>2, <1>3
<1>5. ToSet(Numbers(Len(blocks))) = Blocks
  BY <1>2, <1>3 DEF ToSet
<1> QED
  BY <1>2, <1>4, <1>5

\* A content has the lines of its blocks.
LEMMA ContentHas ==
  ASSUME Listed, NEW members \in Seq(Blocks)
  PROVE  /\ Content(members) \in Seq(Spots)
         /\ ToSet(Content(members)) = UNION {ToSet(Places(b)) : b \in ToSet(members)}
<1> DEFINE seqs == [i \in DOMAIN members |-> Places(members[i])]
<1>1. DOMAIN members = 1..Len(members) /\ Len(members) \in Nat
      /\ \A i \in DOMAIN members : members[i] \in Blocks
  OBVIOUS
<1>2. \A i \in DOMAIN members : Places(members[i]) \in Seq(Spots)
  BY <1>1, PlacesAre
<1>3. seqs \in Seq(Seq(Spots)) /\ DOMAIN seqs = DOMAIN members
      /\ \A i \in DOMAIN members : seqs[i] = Places(members[i])
  BY <1>1, <1>2
<1>4. Content(members) = FlattenSeq(seqs)
  BY DEF Content
<1> HIDE DEF seqs
<1>5. FlattenSeq(seqs) \in Seq(Spots) /\ ToSet(FlattenSeq(seqs)) = Members(seqs, DOMAIN seqs)
  BY <1>3, FlatHas
<1>6. Members(seqs, DOMAIN seqs) = UNION {ToSet(Places(b)) : b \in ToSet(members)}
  <2>1. Members(seqs, DOMAIN seqs) = UNION {ToSet(seqs[i]) : i \in DOMAIN members}
    BY <1>3 DEF Members
  <2>2. \A i \in DOMAIN members : ToSet(seqs[i]) = ToSet(Places(members[i]))
    BY <1>3
  <2>3. \A b : b \in ToSet(members) <=> \E i \in DOMAIN members : b = members[i]
    BY DEF ToSet
  <2>4. \A x : x \in UNION {ToSet(seqs[i]) : i \in DOMAIN members}
                 <=> \E i \in DOMAIN members : x \in ToSet(Places(members[i]))
    BY <2>2
  <2>5. \A x : x \in UNION {ToSet(Places(b)) : b \in ToSet(members)}
                 <=> \E i \in DOMAIN members : x \in ToSet(Places(members[i]))
    BY <2>3
  <2> QED
    BY <2>1, <2>4, <2>5
<1> QED
  BY <1>4, <1>5, <1>6

\* One after another, groupings have the groups of each.
LEMMA TogetherHave ==
  ASSUME NEW X, NEW parts \in Seq(Seq(Seq(X)))
  PROVE  /\ FlattenSeq(parts) \in Seq(Seq(X))
         /\ Cover(FlattenSeq(parts)) = UNION {Cover(parts[i]) : i \in DOMAIN parts}
<1> DEFINE Y == Seq(X)
<1>1. parts \in Seq(Seq(Y))
  OBVIOUS
<1> HIDE DEF Y
<1>2. FlattenSeq(parts) \in Seq(Y) /\ ToSet(FlattenSeq(parts)) = Members(parts, DOMAIN parts)
  BY <1>1, FlatHas
<1>3. Cover(FlattenSeq(parts)) = UNION {Cover(parts[i]) : i \in DOMAIN parts}
  <2>1. Cover(FlattenSeq(parts)) = UNION {ToSet(g) : g \in Members(parts, DOMAIN parts)}
    BY <1>2 DEF Cover
  <2>2. UNION {ToSet(g) : g \in Members(parts, DOMAIN parts)}
           = UNION {Cover(parts[i]) : i \in DOMAIN parts}
    <3>1. \A g : g \in Members(parts, DOMAIN parts) <=>
                    \E i \in DOMAIN parts : g \in ToSet(parts[i])
      BY DEF Members
    <3>2. \A i, x : x \in Cover(parts[i]) <=> \E g \in ToSet(parts[i]) : x \in ToSet(g)
      BY DEF Cover
    <3>3. \A x : x \in UNION {ToSet(g) : g \in Members(parts, DOMAIN parts)} <=>
                    \E g \in Members(parts, DOMAIN parts) : x \in ToSet(g)
      OBVIOUS
    <3>4. \A x : x \in UNION {Cover(parts[i]) : i \in DOMAIN parts} <=>
                    \E i \in DOMAIN parts : x \in Cover(parts[i])
      OBVIOUS
    <3> QED
      BY <3>1, <3>2, <3>3, <3>4
  <2> QED
    BY <2>1, <2>2
<1> QED
  BY <1>2, <1>3 DEF Y

\* A grouping of every block.
LEMMA OneByOne ==
  ASSUME Listed, NEW parts, DOMAIN parts = Blocks,
         \A b \in Blocks : parts[b] \in Seq(Seq(Spots)),
         parts = [b \in Blocks |-> parts[b]]
  PROVE  /\ FlattenSeq(parts) \in Seq(Seq(Spots))
         /\ (\A b \in Blocks : Cover(parts[b]) = ToSet(Places(b))) =>
                Cover(FlattenSeq(parts)) = Whole
<1> DEFINE Z == Seq(Seq(Spots))
<1>1. parts \in Seq(Z)
  <2>1. Blocks = 1..Len(blocks) /\ Len(blocks) \in Nat
    BY BlocksAre
  <2>2. \A b \in Blocks : parts[b] \in Z
    OBVIOUS
  <2> HIDE DEF Z
  <2> QED
    BY <2>1, <2>2
<1>2. /\ FlattenSeq(parts) \in Seq(Seq(Spots))
      /\ Cover(FlattenSeq(parts)) = UNION {Cover(parts[i]) : i \in Blocks}
  BY <1>1, TogetherHave
<1>3. ASSUME \A b \in Blocks : Cover(parts[b]) = ToSet(Places(b))
      PROVE  UNION {Cover(parts[i]) : i \in Blocks} = Whole
  BY <1>3 DEF Whole
<1> QED
  BY <1>2, <1>3

\* A group alone covers what it has.
LEMMA SingleCover ==
  ASSUME NEW X, NEW g \in Seq(X)
  PROVE  <<g>> \in Seq(Seq(X)) /\ Cover(<<g>>) = ToSet(g)
<1>1. <<g>> \in Seq(Seq(X)) /\ DOMAIN <<g>> = {1} /\ <<g>>[1] = g
  OBVIOUS
<1>2. ToSet(<<g>>) = {g}
  BY <1>1 DEF ToSet
<1> QED
  BY <1>1, <1>2 DEF Cover

\* Sections take in every line: papers, manuals, books and resumes.
LEMMA SectionsHave ==
  ASSUME Listed, NEW lone
  PROVE  Sections(lone) \in Seq(Seq(Spots)) /\ Cover(Sections(lone)) = Whole
<1> DEFINE parts == Grouped(Numbers(Len(blocks)), {b \in Blocks : Kind(b) = "heading"}, lone)
<1>1. parts \in Seq(Seq(Blocks)) /\ Cover(parts) = Blocks
  BY BlocksAre, GroupedHas
<1>2. Sections(lone) = [i \in DOMAIN parts |-> Content(parts[i])]
  BY DEF Sections
<1> HIDE DEF parts
<1>3. DOMAIN parts = 1..Len(parts) /\ Len(parts) \in Nat
      /\ \A i \in DOMAIN parts : parts[i] \in Seq(Blocks)
  BY <1>1
<1>4. \A i \in DOMAIN parts :
         /\ Content(parts[i]) \in Seq(Spots)
         /\ ToSet(Content(parts[i])) = UNION {ToSet(Places(b)) : b \in ToSet(parts[i])}
  BY <1>3, ContentHas
<1>5. Sections(lone) \in Seq(Seq(Spots)) /\ DOMAIN Sections(lone) = DOMAIN parts
  BY <1>2, <1>3, <1>4
<1>6. Cover(Sections(lone)) = UNION {ToSet(Content(parts[i])) : i \in DOMAIN parts}
  <2>1. \A i \in DOMAIN parts : Sections(lone)[i] = Content(parts[i])
    BY <1>2
  <2>2. Cover(Sections(lone)) = Members(Sections(lone), DOMAIN parts)
    BY <1>5, CoverIs
  <2> QED
    BY <2>1, <2>2 DEF Members
<1>7. UNION {ToSet(Content(parts[i])) : i \in DOMAIN parts} = Whole
  <2>1. UNION {ToSet(parts[i]) : i \in DOMAIN parts} = Blocks
    BY <1>1 DEF Cover, ToSet
  <2>2. ASSUME NEW p \in Whole PROVE p \in UNION {ToSet(Content(parts[i])) : i \in DOMAIN parts}
    <3>1. PICK b \in Blocks : p \in ToSet(Places(b))
      BY DEF Whole
    <3>2. PICK i \in DOMAIN parts : b \in ToSet(parts[i])
      BY <2>1
    <3> QED
      BY <1>4, <3>1, <3>2
  <2>3. ASSUME NEW i \in DOMAIN parts, NEW p \in ToSet(Content(parts[i])) PROVE p \in Whole
    <3>1. PICK b \in ToSet(parts[i]) : p \in ToSet(Places(b))
      BY <1>4
    <3>2. b \in Blocks
      BY <2>1, <3>1
    <3> QED
      BY <3>1, <3>2 DEF Whole
  <2> QED
    BY <2>2, <2>3
<1> QED
  BY <1>5, <1>6, <1>7

\* Articles of laws take in every line, those before the first one too.
LEMMA LawsHave ==
  ASSUME Listed
  PROVE  Laws \in Seq(Seq(Spots)) /\ Cover(Laws) = Whole
<1> DEFINE parts == [b \in Blocks |-> Grouped(Places(b), Articles(b), {})]
<1>1. \A b \in Blocks : /\ Grouped(Places(b), Articles(b), {}) \in Seq(Seq(Spots))
                        /\ Cover(Grouped(Places(b), Articles(b), {})) = ToSet(Places(b))
  BY PlacesAre, GroupedHas
<1>2. /\ DOMAIN parts = Blocks /\ parts = [b \in Blocks |-> parts[b]]
      /\ \A b \in Blocks : parts[b] \in Seq(Seq(Spots)) /\ Cover(parts[b]) = ToSet(Places(b))
  BY <1>1
<1>3. Laws = FlattenSeq(parts)
  BY DEF Laws
<1> HIDE DEF parts
<1> QED
  BY <1>2, <1>3, OneByOne

\* A block by itself takes in its lines.
LEMMA GeneralHas ==
  ASSUME Listed
  PROVE  /\ [b \in Blocks |-> Places(b)] \in Seq(Seq(Spots))
         /\ Cover([b \in Blocks |-> Places(b)]) = Whole
<1> DEFINE all == [b \in Blocks |-> Places(b)]
<1>1. \A b \in Blocks : Places(b) \in Seq(Spots)
  BY PlacesAre
<1>2. DOMAIN all = Blocks /\ \A b \in Blocks : all[b] = Places(b)
  OBVIOUS
<1>3. all \in Seq(Seq(Spots))
  BY <1>1, BlocksAre
<1> HIDE DEF all
<1>4. Cover(all) = Whole
  BY <1>2 DEF Cover, ToSet, Whole
<1> QED
  BY <1>3, <1>4 DEF all

\* A table's rows, each below the header, take in every line.
LEMMA TableHas ==
  ASSUME Listed
  PROVE  Table \in Seq(Seq(Spots)) /\ Cover(Table) = Whole
<1> DEFINE rows(b) == [r \in 1..(Len(blocks[b].lines) - 1) |-> << <<b, 1>>, <<b, r + 1>> >>]
           part(b) == IF Kind(b) = "table" /\ Len(blocks[b].lines) > 1
                      THEN rows(b) ELSE <<Places(b)>>
           parts == [b \in Blocks |-> part(b)]
<1>1. ASSUME NEW b \in Blocks
      PROVE  part(b) \in Seq(Seq(Spots)) /\ Cover(part(b)) = ToSet(Places(b))
  <2>1. /\ Len(blocks[b].lines) \in Nat /\ b \in Nat /\ Places(b) \in Seq(Spots)
        /\ ToSet(Places(b)) = {<<b, l>> : l \in 1..Len(blocks[b].lines)}
    BY PlacesAre
  <2> DEFINE n == Len(blocks[b].lines)
  <2>2. CASE Kind(b) = "table" /\ n > 1
    <3> HIDE DEF n
    <3>1. n \in Nat /\ n - 1 \in Nat
      BY <2>1, <2>2 DEF n
    <3> DEFINE pair(r) == << <<b, 1>>, <<b, r + 1>> >>
               all == [r \in 1..(n - 1) |-> pair(r)]
    <3>2. \A r \in 1..(n - 1) : <<b, 1>> \in Spots /\ <<b, r + 1>> \in Spots
      BY <2>1, <3>1 DEF Spots
    <3>3. \A r \in 1..(n - 1) : pair(r) \in Seq(Spots) /\ ToSet(pair(r)) = {<<b, 1>>, <<b, r + 1>>}
      <4>1. \A p, q \in Spots : <<p, q>> \in Seq(Spots) /\ DOMAIN <<p, q>> = {1, 2}
                                /\ <<p, q>>[1] = p /\ <<p, q>>[2] = q
        OBVIOUS
      <4>2. \A p, q \in Spots : ToSet(<<p, q>>) = {p, q}
        BY <4>1 DEF ToSet
      <4> QED
        BY <3>2, <4>1, <4>2
    <3>4. all \in Seq(Seq(Spots)) /\ DOMAIN all = 1..(n - 1)
          /\ \A r \in 1..(n - 1) : ToSet(all[r]) = {<<b, 1>>, <<b, r + 1>>}
      <4> HIDE DEF pair
      <4> QED
        BY <3>1, <3>3
    <3> HIDE DEF all
    <3>5. Cover(all) = Members(all, 1..(n - 1))
      BY <3>4, CoverIs
    <3>6. Members(all, 1..(n - 1)) = UNION {{<<b, 1>>, <<b, r + 1>>} : r \in 1..(n - 1)}
      BY <3>4 DEF Members
    <3>7. UNION {{<<b, 1>>, <<b, r + 1>>} : r \in 1..(n - 1)} = {<<b, l>> : l \in 1..n}
      <4>1. ASSUME NEW l \in 1..n
            PROVE  \E r \in 1..(n - 1) : <<b, l>> \in {<<b, 1>>, <<b, r + 1>>}
        <5>1. CASE l = 1
          <6>1. 1 \in 1..(n - 1)
            BY <2>2, <3>1
          <6> QED
            BY <5>1, <6>1
        <5>2. CASE l # 1
          <6>1. l - 1 \in 1..(n - 1) /\ (l - 1) + 1 = l
            BY <3>1, <5>2
          <6> QED
            BY <6>1
        <5> QED
          BY <5>1, <5>2
      <4>2. ASSUME NEW r \in 1..(n - 1) PROVE 1 \in 1..n /\ r + 1 \in 1..n
        BY <2>2, <3>1
      <4> QED
        BY <4>1, <4>2
    <3>8. part(b) = all
      BY <2>2 DEF all, n
    <3> QED
      BY <2>1, <3>4, <3>5, <3>6, <3>7, <3>8 DEF n
  <2>3. CASE ~ (Kind(b) = "table" /\ n > 1)
    BY <2>1, <2>3, SingleCover
  <2> QED
    BY <2>2, <2>3
<1>2. Table = FlattenSeq(parts)
  BY DEF Table
<1> HIDE DEF part
<1>3. DOMAIN parts = Blocks /\ parts = [b \in Blocks |-> parts[b]]
      /\ \A b \in Blocks : parts[b] \in Seq(Seq(Spots)) /\ Cover(parts[b]) = ToSet(Places(b))
  BY <1>1
<1> HIDE DEF parts
<1> QED
  BY <1>2, <1>3, OneByOne

\* The least of some numbers.
LEMMA LeastThere ==
  ASSUME NEW S \in SUBSET Nat, S # {}
  PROVE  \E n \in S : \A m \in S : ~ (m < n)
<1>1. IsWellFoundedOn(Before, Nat)
  BY NatLessThanWellFounded DEF OpToRel, Before
<1>2. PICK n \in S : \A m \in S : ~ (<<m, n>> \in Before)
  BY <1>1, WFMin
<1>3. \A m, o \in Nat : m < o => <<m, o>> \in Before
  BY DEF Before
<1> QED
  BY <1>2, <1>3

\* The blocks with some numbers, in their order.
LEMMA KeptBlocks ==
  ASSUME Listed, NEW S \in SUBSET Blocks
  PROVE  /\ Keep(Numbers(Len(blocks)), S) \in Seq(Blocks)
         /\ ToSet(Keep(Numbers(Len(blocks)), S)) = S
<1>1. /\ Numbers(Len(blocks)) \in Seq(Blocks) /\ DOMAIN Numbers(Len(blocks)) = Blocks
      /\ \A i \in Blocks : Numbers(Len(blocks))[i] = i
  BY BlocksAre DEF Numbers
<1> DEFINE s == Numbers(Len(blocks))
<1> HIDE DEF s
<1>2. Keep(s, S) \in Seq(Blocks) /\ ToSet(Keep(s, S)) = {s[i] : i \in S \cap DOMAIN s}
  BY <1>1, KeepHas DEF s
<1>3. {s[i] : i \in S \cap DOMAIN s} = S
  BY <1>1 DEF s
<1> QED
  BY <1>2, <1>3 DEF s

\* Pages take in every line: every block is on the page of a first block.
LEMMA PicturesHave ==
  ASSUME Listed
  PROVE  Pictures \in Seq(Seq(Spots)) /\ Cover(Pictures) = Whole
<1> DEFINE paged == [b \in Blocks |-> blocks[b].page]
           first == {b \in Blocks : \A a \in Blocks : a < b => blocks[a].page # blocks[b].page}
           pages == Keep(paged, first)
           on(page) == {b \in Blocks : blocks[b].page = page}
           seen(page) == {b \in on(page) : Kind(b) = "image"}
           read(page) == {b \in on(page) : Kind(b) # "image"}
           shown(page) == Keep(Numbers(Len(blocks)), seen(page))
           told(page) == Keep(Numbers(Len(blocks)), read(page))
           part(page) == IF shown(page) = <<>>
                         THEN [t \in DOMAIN told(page) |-> Places(told(page)[t])]
                         ELSE <<Content(shown(page) \o told(page))>>
           parts == [i \in DOMAIN pages |-> part(pages[i])]
           Those(page) == UNION {ToSet(Places(b)) : b \in on(page)}
<1>1. Pictures = FlattenSeq(parts)
  BY DEF Pictures
<1>2. /\ Len(blocks) \in Nat /\ Blocks = 1..Len(blocks)
  BY BlocksAre
<1>3. pages \in Seq({blocks[b].page : b \in Blocks})
      /\ ToSet(pages) = {blocks[b].page : b \in Blocks}
  <2> DEFINE All == {blocks[b].page : b \in Blocks}
  <2>1. paged \in Seq(All) /\ DOMAIN paged = Blocks /\ \A b \in Blocks : paged[b] = blocks[b].page
    BY <1>2
  <2> HIDE DEF All, paged, first
  <2>2. pages \in Seq(All) /\ ToSet(pages) = {paged[i] : i \in first \cap DOMAIN paged}
    BY <2>1, KeepHas
  <2>3. {paged[i] : i \in first \cap DOMAIN paged} = All
    <3>1. ASSUME NEW b \in Blocks PROVE \E a \in first : blocks[a].page = blocks[b].page
      <4> DEFINE S == {a \in Blocks : blocks[a].page = blocks[b].page}
      <4>1. S \in SUBSET Nat /\ S # {}
        BY <1>2
      <4>2. PICK a \in S : \A m \in S : ~ (m < a)
        <5> HIDE DEF S
        <5> QED
          BY <4>1, LeastThere, Zenon
      <4>3. a \in first
        BY <4>2 DEF first
      <4> QED
        BY <4>3
    <3>2. first \subseteq Blocks
      BY DEF first
    <3>3. ASSUME NEW p \in All PROVE \E i \in first \cap DOMAIN paged : p = paged[i]
      <4>1. PICK b \in Blocks : p = blocks[b].page
        BY DEF All
      <4>2. PICK a \in first : blocks[a].page = blocks[b].page
        BY <3>1
      <4> QED
        BY <2>1, <3>2, <4>1, <4>2
    <3>4. ASSUME NEW i \in first \cap DOMAIN paged PROVE paged[i] \in All
      BY <2>1 DEF All
    <3> QED
      BY <3>3, <3>4
  <2> QED
    BY <2>2, <2>3 DEF All
<1> HIDE DEF pages
<1>4. ASSUME NEW page
      PROVE  part(page) \in Seq(Seq(Spots)) /\ Cover(part(page)) = Those(page)
  <2>1. /\ shown(page) \in Seq(Blocks) /\ ToSet(shown(page)) = seen(page)
        /\ told(page) \in Seq(Blocks) /\ ToSet(told(page)) = read(page)
    <3>1. seen(page) \in SUBSET Blocks /\ read(page) \in SUBSET Blocks
      OBVIOUS
    <3> HIDE DEF seen, read
    <3> QED
      BY <3>1, KeptBlocks
  <2>2. on(page) = seen(page) \cup read(page)
    OBVIOUS
  <2> DEFINE s == shown(page)
             t == told(page)
  <2>3. /\ s \in Seq(Blocks) /\ t \in Seq(Blocks) /\ ToSet(s) \cup ToSet(t) = on(page)
    BY <2>1, <2>2
  <2>4. part(page) = IF s = <<>> THEN [i \in DOMAIN t |-> Places(t[i])] ELSE <<Content(s \o t)>>
    OBVIOUS
  <2> HIDE DEF s, t, part, on
  <2>5. CASE s = <<>>
    <3> DEFINE all == [i \in DOMAIN t |-> Places(t[i])]
    <3>1. ToSet(t) = on(page)
      BY <2>3, <2>5 DEF ToSet
    <3>2. DOMAIN t = 1..Len(t) /\ Len(t) \in Nat /\ \A i \in DOMAIN t : t[i] \in Blocks
      BY <2>3
    <3>3. \A i \in DOMAIN t : Places(t[i]) \in Seq(Spots)
      BY <3>2, PlacesAre
    <3>4. all \in Seq(Seq(Spots)) /\ DOMAIN all = DOMAIN t
          /\ \A i \in DOMAIN t : all[i] = Places(t[i])
      BY <3>2, <3>3
    <3>5. part(page) = all
      BY <2>4, <2>5
    <3> HIDE DEF all
    <3>6. Cover(all) = Members(all, DOMAIN t)
      BY <3>4, CoverIs
    <3>7. Members(all, DOMAIN t) = Those(page)
      <4>1. \A b : b \in on(page) <=> \E i \in DOMAIN t : b = t[i]
        BY <3>1 DEF ToSet
      <4>2. \A x : x \in Members(all, DOMAIN t) <=> \E i \in DOMAIN t : x \in ToSet(Places(t[i]))
        BY <3>4 DEF Members
      <4>3. \A x : x \in Those(page) <=> \E i \in DOMAIN t : x \in ToSet(Places(t[i]))
        BY <4>1
      <4> QED
        BY <4>2, <4>3
    <3> QED
      BY <3>4, <3>5, <3>6, <3>7
  <2>6. CASE s # <<>>
    <3> DEFINE joined == s \o t
    <3>1. joined \in Seq(Blocks) /\ ToSet(joined) = on(page)
      BY <2>3, JoinedHave
    <3> HIDE DEF joined
    <3>2. /\ Content(joined) \in Seq(Spots)
          /\ ToSet(Content(joined)) = UNION {ToSet(Places(b)) : b \in ToSet(joined)}
      BY <3>1, ContentHas
    <3>3. ToSet(Content(joined)) = Those(page)
      BY <3>1, <3>2
    <3>4. part(page) = <<Content(joined)>>
      BY <2>4, <2>6 DEF joined
    <3> HIDE DEF Those
    <3> QED
      BY <3>2, <3>3, <3>4, SingleCover
  <2> QED
    BY <2>5, <2>6
<1> HIDE DEF part
<1>5. DOMAIN pages = 1..Len(pages) /\ Len(pages) \in Nat
  BY <1>3
<1>6. /\ parts \in Seq(Seq(Seq(Spots))) /\ DOMAIN parts = DOMAIN pages
      /\ \A i \in DOMAIN pages : Cover(parts[i]) = Those(pages[i])
  <2> DEFINE Z == Seq(Seq(Spots))
  <2>1. \A i \in DOMAIN pages : part(pages[i]) \in Z /\ Cover(part(pages[i])) = Those(pages[i])
    BY <1>4
  <2> HIDE DEF Z, Those
  <2>2. parts \in Seq(Z) /\ DOMAIN parts = DOMAIN pages
        /\ \A i \in DOMAIN pages : parts[i] = part(pages[i])
    BY <1>5, <2>1
  <2> QED
    BY <2>1, <2>2 DEF Z
<1> HIDE DEF parts
<1>7. /\ Pictures \in Seq(Seq(Spots))
      /\ Cover(Pictures) = UNION {Cover(parts[i]) : i \in DOMAIN pages}
  BY <1>1, <1>6, TogetherHave
<1>8. UNION {Cover(parts[i]) : i \in DOMAIN pages} = Whole
  <2>1. \A p : (\E i \in DOMAIN pages : p = pages[i]) <=> (\E b \in Blocks : p = blocks[b].page)
    BY <1>3 DEF ToSet
  <2>2. \A x : x \in UNION {Cover(parts[i]) : i \in DOMAIN pages} <=>
                 \E i \in DOMAIN pages : x \in Those(pages[i])
    BY <1>6
  <2>3. \A x, p : x \in Those(p) <=> \E b \in Blocks : blocks[b].page = p /\ x \in ToSet(Places(b))
    OBVIOUS
  <2>4. \A x : x \in Whole <=> \E b \in Blocks : x \in ToSet(Places(b))
    BY DEF Whole
  <2> HIDE DEF Those
  <2>5. \A x : x \in UNION {Cover(parts[i]) : i \in DOMAIN pages} <=> x \in Whole
    <3>1. ASSUME NEW x, NEW i \in DOMAIN pages, x \in Those(pages[i]) PROVE x \in Whole
      BY <2>3, <2>4, <3>1
    <3>2. ASSUME NEW x \in Whole PROVE \E i \in DOMAIN pages : x \in Those(pages[i])
      <4>1. PICK b \in Blocks : x \in ToSet(Places(b))
        BY <2>4
      <4>2. PICK i \in DOMAIN pages : blocks[b].page = pages[i]
        BY <2>1
      <4> QED
        BY <2>3, <4>1, <4>2
    <3> QED
      BY <2>2, <3>1, <3>2
  <2> QED
    BY <2>5
<1> QED
  BY <1>7, <1>8

\* Pairs of a question and its answer are groups.
LEMMA PairsAre ==
  ASSUME Listed, NEW b \in Blocks
  PROVE  Pairs(b) \in Seq(Seq(Spots))
<1> DEFINE last == Len(blocks[b].lines)
           marked(mark) == {l \in 1..last : Mark(b, l) = mark}
           opens == {q \in marked("question") : \A p \in marked("question") :
                       p < q => \E a \in marked("answer") : p < a /\ a < q}
           heads == Keep(Numbers(last), opens)
           end(i) == IF i = Len(heads) THEN last ELSE heads[i + 1] - 1
           pair(i) == <<Label>> \o SubSeq(Places(b), heads[i], end(i))
           parts == [i \in DOMAIN heads |-> pair(i)]
           answered == {i \in DOMAIN heads : \E a \in marked("answer") : a > heads[i]}
<1>1. Pairs(b) = Keep(parts, answered)
  BY DEF Pairs
<1>2. /\ last \in Nat /\ Places(b) \in Seq(Spots) /\ Len(Places(b)) = last
  BY PlacesAre
<1> HIDE DEF last, opens
<1>3. heads \in Seq(1..last)
  <2> DEFINE T == 1..last
  <2>1. Numbers(last) \in Seq(T)
    BY <1>2 DEF Numbers
  <2> HIDE DEF T
  <2> QED
    BY <2>1, KeepHas DEF T
<1> HIDE DEF heads, answered
<1>4. DOMAIN heads = 1..Len(heads) /\ Len(heads) \in Nat
      /\ \A i \in DOMAIN heads : heads[i] \in 1..last
  <2> DEFINE T == 1..last
  <2>1. heads \in Seq(T)
    BY <1>3
  <2> HIDE DEF T
  <2>2. DOMAIN heads = 1..Len(heads) /\ Len(heads) \in Nat /\ \A i \in DOMAIN heads : heads[i] \in T
    BY <2>1
  <2> QED
    BY <2>2 DEF T
<1>5. ASSUME NEW i \in DOMAIN heads PROVE pair(i) \in Seq(Spots)
  <2>1. end(i) \in 0..last
    <3>1. CASE i = Len(heads)
      BY <1>2, <3>1
    <3>2. CASE i # Len(heads)
      <4>1. i + 1 \in DOMAIN heads
        BY <1>4, <3>2
      <4>2. heads[i + 1] \in 1..last
        BY <1>4, <4>1
      <4> QED
        BY <1>2, <3>2, <4>2
    <3> QED
      BY <3>1, <3>2
  <2>2. heads[i] \in 1..last
    BY <1>4
  <2> DEFINE h == heads[i]
             e == end(i)
  <2>3. SubSeq(Places(b), h, e) \in Seq(Spots)
    <3> HIDE DEF h, e
    <3>1. h \in 1..last /\ e \in 0..last
      BY <2>1, <2>2 DEF h, e
    <3>2. \A k \in h..e : k \in 1..Len(Places(b)) /\ Places(b)[k] \in Spots
      BY <1>2, <3>1
    <3>3. h \in Int /\ e \in Int /\ \A k \in h..e : Places(b)[k] \in Spots
      BY <1>2, <3>1, <3>2
    <3> QED
      BY <3>3, SubSeqProperties, Zenon
  <2>4. <<Label>> \in Seq(Spots)
    BY DEF Label, Spots
  <2> HIDE DEF h, e
  <2> DEFINE text == SubSeq(Places(b), h, e)
             label == <<Label>>
  <2>5. label \in Seq(Spots) /\ text \in Seq(Spots) /\ pair(i) = label \o text
    BY <2>3, <2>4 DEF h, e
  <2> HIDE DEF text, label, pair
  <2> QED
    BY <2>5, JoinedHave
<1>6. parts \in Seq(Seq(Spots))
  <2> HIDE DEF pair
  <2> QED
    BY <1>4, <1>5
<1> HIDE DEF parts
<1> DEFINE Y == Seq(Spots)
<1>7. parts \in Seq(Y)
  BY <1>6
<1> HIDE DEF Y
<1>8. /\ Keep(parts, answered) \in Seq(Y)
      /\ ToSet(Keep(parts, answered)) = {parts[i] : i \in answered \cap DOMAIN parts}
  BY <1>7, KeepHas
<1> QED
  BY <1>1, <1>8 DEF Y

\* So are the questions and answers of all blocks.
LEMMA QuestionsAre ==
  ASSUME Listed
  PROVE  QuestionsAnswers \in Seq(Seq(Spots))
<1> DEFINE lines(b) == Places(b)
           rows(b) == IF Len(lines(b)) > 1 THEN Tail(lines(b)) ELSE lines(b)
           full(b) == Keep(rows(b), {i \in DOMAIN rows(b) : Mark(b, rows(b)[i][2]) = "answer"})
           part(b) == IF Kind(b) = "table" THEN [i \in DOMAIN full(b) |-> <<Label, full(b)[i]>>]
                      ELSE IF Pairs(b) = <<>> THEN <<lines(b)>> ELSE Pairs(b)
           parts == [b \in Blocks |-> part(b)]
<1>1. QuestionsAnswers = FlattenSeq(parts)
  BY DEF QuestionsAnswers
<1>2. ASSUME NEW b \in Blocks PROVE part(b) \in Seq(Seq(Spots))
  <2>1. lines(b) \in Seq(Spots)
    BY PlacesAre
  <2> HIDE DEF lines
  <2>2. rows(b) \in Seq(Spots)
    BY <2>1
  <2> HIDE DEF rows
  <2>3. full(b) \in Seq(Spots)
    BY <2>2, KeepHas
  <2> HIDE DEF full
  <2>4. DOMAIN full(b) = 1..Len(full(b)) /\ Len(full(b)) \in Nat
        /\ \A i \in DOMAIN full(b) : full(b)[i] \in Spots
    BY <2>3
  <2>5. \A p \in Spots : <<Label, p>> \in Seq(Spots)
    <3>1. Label \in Spots
      BY DEF Label, Spots
    <3> QED
      BY <3>1
  <2>6. [i \in DOMAIN full(b) |-> <<Label, full(b)[i]>>] \in Seq(Seq(Spots))
    <3>1. \A i \in DOMAIN full(b) : <<Label, full(b)[i]>> \in Seq(Spots)
      BY <2>4, <2>5
    <3> QED
      BY <2>4, <3>1
  <2>7. <<lines(b)>> \in Seq(Seq(Spots))
    BY <2>1, SingleCover
  <2>8. Pairs(b) \in Seq(Seq(Spots))
    BY PairsAre
  <2> QED
    BY <2>6, <2>7, <2>8
<1> HIDE DEF part
<1>3. DOMAIN parts = Blocks /\ parts = [b \in Blocks |-> parts[b]]
      /\ \A b \in Blocks : parts[b] \in Seq(Seq(Spots))
  BY <1>2
<1> HIDE DEF parts
<1> QED
  BY <1>1, <1>3, OneByOne

\* Every strategy but the questions and answers takes in every line.
LEMMA StrategiesTake ==
  ASSUME Listed, NEW strategy \in Named
  PROVE  /\ GroupsOf(strategy) \in Seq(Seq(Spots))
         /\ strategy # "qa" => Cover(GroupsOf(strategy)) = Whole
<1> DEFINE S == Sections({b \in Blocks : Kind(b) \in {"table", "image"}})
           T == Sections({})
           G == [b \in Blocks |-> Places(b)]
<1>1. /\ S \in Seq(Seq(Spots)) /\ Cover(S) = Whole
      /\ T \in Seq(Seq(Spots)) /\ Cover(T) = Whole
  BY SectionsHave
<1>2. G \in Seq(Seq(Spots)) /\ Cover(G) = Whole
  BY GeneralHas
<1>3. GroupsOf(strategy) =
         CASE strategy \in {"paper", "manual"} -> S
           [] strategy \in {"book", "resume"}  -> T
           [] strategy = "laws"    -> Laws
           [] strategy = "qa"      -> QuestionsAnswers
           [] strategy = "table"   -> Table
           [] strategy = "picture" -> Pictures
           [] strategy = "general" -> G
  BY DEF GroupsOf
<1> HIDE DEF S, T, G
<1>4. CASE strategy \in {"paper", "manual"}
  <2>1. GroupsOf(strategy) = S
    BY <1>3, <1>4
  <2> QED
    BY <1>1, <2>1
<1>5. CASE strategy \in {"book", "resume"}
  <2>1. GroupsOf(strategy) = T
    BY <1>3, <1>5
  <2> QED
    BY <1>1, <2>1
<1>6. CASE strategy = "laws"
  <2>1. GroupsOf(strategy) = Laws
    BY <1>3, <1>6
  <2> QED
    BY <2>1, LawsHave
<1>7. CASE strategy = "qa"
  <2>1. GroupsOf(strategy) = QuestionsAnswers
    BY <1>3, <1>7
  <2> QED
    BY <1>7, <2>1, QuestionsAre
<1>8. CASE strategy = "table"
  <2>1. GroupsOf(strategy) = Table
    BY <1>3, <1>8
  <2> QED
    BY <2>1, TableHas
<1>9. CASE strategy = "picture"
  <2>1. GroupsOf(strategy) = Pictures
    BY <1>3, <1>9
  <2> QED
    BY <2>1, PicturesHave
<1>10. CASE strategy = "general"
  <2>1. GroupsOf(strategy) = G
    BY <1>3, <1>10
  <2> QED
    BY <1>2, <2>1
<1> QED
  BY <1>4, <1>5, <1>6, <1>7, <1>8, <1>9, <1>10 DEF Named

\* Leaving out what is empty leaves no line out.
LEMMA FilledHave ==
  ASSUME NEW X, NEW all \in Seq(Seq(X)),
         NEW kept, kept = Keep(all, {g \in DOMAIN all : all[g] # <<>>})
  PROVE  /\ kept \in Seq(Seq(X))
         /\ \A g \in DOMAIN kept : kept[g] # <<>>
         /\ Cover(kept) = Cover(all)
<1> DEFINE Y == Seq(X)
           P == {g \in DOMAIN all : all[g] # <<>>}
<1>1. all \in Seq(Y)
  OBVIOUS
<1>2. kept \in Seq(Y) /\ ToSet(kept) = {all[i] : i \in P \cap DOMAIN all}
  <2> HIDE DEF P
  <2>1. Keep(all, P) \in Seq(Y) /\ ToSet(Keep(all, P)) = {all[i] : i \in P \cap DOMAIN all}
    <3> HIDE DEF Y
    <3> QED
      BY <1>1, KeepHas
  <2> QED
    BY <2>1 DEF P
<1>3. \A x : x \in ToSet(kept) <=> x \in ToSet(all) /\ x # <<>>
  BY <1>2 DEF ToSet
<1>4. ToSet(<<>>) = {}
  BY DEF ToSet
<1>5. \A g \in DOMAIN kept : kept[g] \in ToSet(kept)
  BY DEF ToSet
<1>6. Cover(kept) = Cover(all)
  BY <1>3, <1>4 DEF Cover
<1> QED
  BY <1>2, <1>3, <1>5, <1>6

-----------------------------------------------------------------------------
(* The window.                                                               *)

\* What a window shares with the one before it, and the last token that is in a
\* chunk of the group being cut.
Shared == IF Overlap < request.limit THEN Overlap ELSE request.limit - 1
Reached == IF start = 0 THEN 0 ELSE start + Shared

\* The groups hold a token each and, but for questions and answers, every line.
Grouping ==
    /\ groups \in Seq(Seq(Spots))
    /\ \A g \in DOMAIN groups : groups[g] # <<>>
    /\ TheStrategy # "qa" => Cover(groups) = Whole

\* A chunk is a window of a group.
CutInWindows ==
    /\ chunks \in Seq([group : Nat, from : Nat, to : Nat])
    /\ \A i \in DOMAIN chunks :
          /\ chunks[i].group \in DOMAIN groups
          /\ chunks[i].from < chunks[i].to
          /\ chunks[i].to <= chunks[i].from + request.limit
          /\ chunks[i].to <= Len(groups[chunks[i].group])
          /\ chunks[i].group <= group
    /\ \A i, j \in DOMAIN chunks :
          i < j /\ chunks[i].group = chunks[j].group =>
              chunks[i].from < chunks[j].from /\ chunks[i].to < chunks[j].to

\* The tokens of a group that are in its chunks.
Covered(g) == UNION {(chunks[i].from + 1)..chunks[i].to : i \in Of(g)}

\* The groups before the current one are cut, the current one up to the front.
Cutting ==
    /\ group \in 1..(Len(groups) + 1) /\ start \in Nat
    /\ \A g \in DOMAIN groups : g < group => Covered(g) = 1..Len(groups[g])
    /\ group <= Len(groups) =>
          /\ Reached < Len(groups[group])
          /\ Covered(group) = 1..Reached
          /\ \A i \in Of(group) : chunks[i].from < start /\ chunks[i].to <= Reached

\* The inductive invariant.
ContentInv ==
    /\ request.limit \in Limits
    /\ Listed
    /\ phase \in {"route", "parse", "choose", "cut", "done", "failed"}
    /\ phase \notin {"cut", "done"} => group = 1 /\ start = 0 /\ chunks = <<>>
    /\ phase \in {"cut", "done"} => Grouping /\ CutInWindows /\ Cutting
    /\ phase = "done" => group > Len(groups)

\* A window holds a token, and shares less than it holds.
LEMMA LimitIs ==
  ASSUME ContentGiven, request.limit \in Limits
  PROVE  /\ request.limit \in Nat /\ request.limit >= 1
         /\ Shared \in Nat /\ Shared < request.limit
<1> DEFINE limit == request.limit
<1>1. limit \in Nat \ {0} /\ Overlap \in Nat
  BY DEF ContentGiven
<1>2. Shared = IF Overlap < limit THEN Overlap ELSE limit - 1
  BY DEF Shared
<1> HIDE DEF limit
<1>3. /\ limit \in Nat /\ limit >= 1 /\ Shared \in Nat /\ Shared < limit
  BY <1>1, <1>2
<1> QED
  BY <1>3 DEF limit

\* Where a window ends and what the next one begins with.
LEMMA NextWindow ==
  ASSUME NEW from \in Nat, NEW limit \in Nat, NEW shared \in Nat, NEW size \in Nat,
         NEW end, shared < limit, from < size,
         NEW front \in Nat, front < size, front = IF from = 0 THEN 0 ELSE from + shared,
         end = IF from + limit < size THEN from + limit ELSE size
  PROVE  /\ end \in Nat /\ from < end /\ end <= size /\ end <= from + limit
         /\ front < end /\ from <= front
         /\ (1..front) \cup ((from + 1)..end) = 1..end
         /\ end # size => /\ end - shared \in Nat /\ end - shared # 0 /\ from < end - shared
                          /\ (end - shared) + shared = end /\ end < size
<1>1. /\ end \in Nat /\ from < end /\ end <= size /\ end <= from + limit
      /\ front < end /\ from <= front
  OBVIOUS
<1>2. \A k \in Int : (k \in 1..front \/ k \in (from + 1)..end) <=> k \in 1..end
  BY <1>1
<1>3. end # size => /\ end - shared \in Nat /\ end - shared # 0 /\ from < end - shared
                    /\ (end - shared) + shared = end /\ end < size
  OBVIOUS
<1> QED
  BY <1>1, <1>2, <1>3

\* The invariant at the beginning.
LEMMA ContentStarts ==
  ASSUME ContentInit PROVE ContentInv
<1>1. /\ phase = "route" /\ blocks = <<>> /\ groups = <<>> /\ group = 1 /\ start = 0 /\ chunks = <<>>
      /\ request.limit \in Limits
  BY DEF ContentInit
<1>2. Listed
  BY <1>1 DEF Listed, Blocks
<1> QED
  BY <1>1, <1>2 DEF ContentInv

\* Blocks that stay are listed still.
LEMMA ListedStays ==
  ASSUME Listed, blocks' = blocks
  PROVE  Listed'
BY DEF Listed, Blocks

\* A step before the window.
LEMMA ContentRoutes ==
  ASSUME ContentGiven, ContentInv, Resolve \/ Parse
  PROVE  ContentInv'
<1>1. CASE Resolve
  <2>1. /\ phase' \in {"parse", "failed"} /\ request' = request /\ blocks' = blocks
        /\ group' = group /\ start' = start /\ chunks' = chunks
    BY <1>1 DEF Resolve, Fail
  <2>2. phase = "route"
    BY <1>1 DEF Resolve
  <2> QED
    BY <2>1, <2>2, ListedStays DEF ContentInv
<1>2. CASE Parse
  <2>1. /\ phase = "parse" /\ request' = request
        /\ group' = group /\ start' = start /\ chunks' = chunks
    BY <1>2 DEF Parse
  <2>2. phase' \in {"choose", "failed"}
    BY <1>2 DEF Parse, Fail
  <2>3. Listed'
    <3>1. blocks' = blocks \/ \E s \in Sources : blocks' = BlocksOf(s.format, s.elements)
      BY <1>2 DEF Parse
    <3>2. ASSUME NEW s \in Sources, blocks' = BlocksOf(s.format, s.elements) PROVE Listed'
      <4> DEFINE parsed == BlocksOf(s.format, s.elements)
      <4>1. /\ parsed \in Seq(ToSet(parsed))
            /\ \A b \in DOMAIN parsed : parsed[b].lines \in Seq(ToSet(parsed[b].lines))
        BY DEF ContentGiven
      <4>2. blocks' = parsed
        BY <3>2
      <4> HIDE DEF parsed
      <4> QED
        BY <4>1, <4>2 DEF Listed, Blocks
    <3>3. ASSUME blocks' = blocks PROVE Listed'
      BY <3>3, ListedStays DEF ContentInv
    <3> QED
      BY <3>1, <3>2, <3>3
  <2> QED
    BY <2>1, <2>2, <2>3 DEF ContentInv
<1> QED
  BY <1>1, <1>2

\* The strategy is chosen: its groups take in every line, none is cut.
LEMMA ContentChooses ==
  ASSUME ContentGiven, ContentInv, ChooseStrategy
  PROVE  ContentInv'
<1>1. /\ phase = "choose" /\ request' = request /\ parser' = parser /\ blocks' = blocks
      /\ group' = group /\ start' = start /\ chunks' = chunks
  BY DEF ChooseStrategy
<1>2. Listed /\ request.limit \in Limits /\ group = 1 /\ start = 0 /\ chunks = <<>>
  BY <1>1 DEF ContentInv
<1>3. Listed'
  BY <1>1, <1>2, ListedStays
<1>4. CASE TheStrategy \notin Strategies
  <2>1. phase' = "failed"
    BY <1>4 DEF ChooseStrategy, Fail
  <2> QED
    BY <1>1, <1>2, <1>3, <2>1 DEF ContentInv
<1>5. CASE TheStrategy \in Strategies
  <2> DEFINE all == GroupsOf(TheStrategy)
  <2>1. phase' = "cut" /\ groups' = Keep(all, {g \in DOMAIN all : all[g] # <<>>})
    BY <1>5 DEF ChooseStrategy
  <2>2. /\ all \in Seq(Seq(Spots))
        /\ TheStrategy # "qa" => Cover(all) = Whole
    BY <1>2, <1>5, StrategiesTake DEF ContentGiven
  <2> HIDE DEF all
  <2>3. /\ groups' \in Seq(Seq(Spots))
        /\ \A g \in DOMAIN groups' : groups'[g] # <<>>
        /\ Cover(groups') = Cover(all)
    BY <2>1, <2>2, FilledHave
  <2>4. TheStrategy' = TheStrategy
    BY <1>1 DEF TheStrategy, TheParser
  <2>5. Whole' = Whole
    BY <1>1 DEF Whole, Places, Blocks
  <2>6. Cover(groups)' = Cover(groups')
    BY DEF Cover, ToSet
  <2>7. Grouping'
    BY <2>2, <2>3, <2>4, <2>5, <2>6 DEF Grouping
  <2>8. CutInWindows'
    BY <1>1, <1>2 DEF CutInWindows
  <2>9. Of(1)' = {} /\ Covered(1)' = {}
    <3>1. Of(1)' = {}
      BY <1>1, <1>2 DEF Of
    <3> QED
      BY <3>1 DEF Covered
  <2>10. Len(groups') \in Nat /\ DOMAIN groups' = 1..Len(groups')
         /\ \A g \in DOMAIN groups' : Len(groups'[g]) \in Nat /\ Len(groups'[g]) # 0
    <3> DEFINE Y == Seq(Spots)
    <3>1. groups' \in Seq(Y)
      BY <2>3
    <3> HIDE DEF Y
    <3>2. Len(groups') \in Nat /\ DOMAIN groups' = 1..Len(groups')
          /\ \A g \in DOMAIN groups' : groups'[g] \in Y
      BY <3>1
    <3>3. \A s \in Y : s # <<>> => Len(s) \in Nat /\ Len(s) # 0
      BY DEF Y
    <3> QED
      BY <2>3, <3>2, <3>3
  <2>11. Cutting'
    <3>1. group' = 1 /\ start' = 0 /\ Reached' = 0
      BY <1>1, <1>2 DEF Reached
    <3>2. 1..0 = {} /\ \A g \in DOMAIN groups' : ~ (g < 1)
      BY <2>10
    <3>3. 1 \in 1..(Len(groups') + 1)
      BY <2>10
    <3>4. 1 <= Len(groups') => 0 < Len(groups'[1])
      BY <2>10
    <3> QED
      BY <2>9, <3>1, <3>2, <3>3, <3>4 DEF Cutting
  <2> QED
    BY <1>1, <1>2, <1>3, <2>1, <2>7, <2>8, <2>11 DEF ContentInv
<1> QED
  BY <1>4, <1>5

\* Groups are lists, each with a place.
LEMMA GroupsAre ==
  ASSUME Grouping
  PROVE  /\ Len(groups) \in Nat /\ DOMAIN groups = 1..Len(groups)
         /\ \A g \in DOMAIN groups : Len(groups[g]) \in Nat /\ DOMAIN groups[g] = 1..Len(groups[g])
                                     /\ Len(groups[g]) # 0
<1> DEFINE Y == Seq(Spots)
<1>1. groups \in Seq(Y)
  BY DEF Grouping
<1> HIDE DEF Y
<1>2. /\ Len(groups) \in Nat /\ DOMAIN groups = 1..Len(groups)
      /\ \A g \in DOMAIN groups : groups[g] \in Y
  BY <1>1
<1>3. \A s \in Y : Len(s) \in Nat /\ DOMAIN s = 1..Len(s) /\ (s # <<>> => Len(s) # 0)
  BY DEF Y
<1> QED
  BY <1>2, <1>3 DEF Grouping

\* One more window of the current group.
LEMMA ContentCuts ==
  ASSUME ContentGiven, ContentInv, Cut
  PROVE  ContentInv'
<1> DEFINE size == Len(groups[group])
           end == IF start + request.limit < size THEN start + request.limit ELSE size
           c == [group |-> group, from |-> start, to |-> end]
           N == Len(chunks)
           limit == request.limit
<1>1. /\ phase = "cut" /\ group <= Len(groups)
      /\ chunks' = Append(chunks, c)
      /\ IF end = size THEN group' = group + 1 /\ start' = 0
         ELSE group' = group /\ start' = NextStart(end)
      /\ request' = request /\ phase' = phase /\ parser' = parser /\ source' = source
      /\ blocks' = blocks /\ groups' = groups /\ error' = error
  BY DEF Cut
<1>2. /\ Listed /\ limit \in Limits /\ Grouping /\ CutInWindows /\ Cutting
  BY <1>1 DEF ContentInv
<1>3. /\ limit \in Nat /\ limit >= 1 /\ Shared \in Nat /\ Shared < limit
  BY <1>2, LimitIs
<1>4. /\ Len(groups) \in Nat /\ DOMAIN groups = 1..Len(groups)
      /\ \A g \in DOMAIN groups : Len(groups[g]) \in Nat /\ Len(groups[g]) # 0
  BY <1>2, GroupsAre
<1>5. /\ group \in 1..(Len(groups) + 1) /\ start \in Nat /\ group \in DOMAIN groups
      /\ size \in Nat
  BY <1>1, <1>2, <1>4 DEF Cutting
<1>6. /\ Reached < size /\ Covered(group) = 1..Reached
      /\ \A i \in Of(group) : chunks[i].from < start /\ chunks[i].to <= Reached
  BY <1>1, <1>2 DEF Cutting
<1>7. NextStart(end) = end - Shared
  BY DEF NextStart, Shared
<1> HIDE DEF size, c, limit
<1>8. Reached \in Nat /\ Reached = IF start = 0 THEN 0 ELSE start + Shared
  BY <1>3, <1>5 DEF Reached
<1>9. start < size
  BY <1>3, <1>5, <1>6, <1>8
<1>10. end = IF start + limit < size THEN start + limit ELSE size
  BY DEF limit
<1> HIDE DEF end
<1>11. /\ end \in Nat /\ start < end /\ end <= size /\ end <= start + limit
       /\ Reached < end /\ start <= Reached
       /\ (1..Reached) \cup ((start + 1)..end) = 1..end
       /\ end # size => /\ end - Shared \in Nat /\ end - Shared # 0 /\ start < end - Shared
                        /\ (end - Shared) + Shared = end /\ end < size
  <2> DEFINE shared == Shared
             front == Reached
             from == start
  <2>1. /\ from \in Nat /\ limit \in Nat /\ shared \in Nat /\ size \in Nat /\ shared < limit
        /\ from < size /\ front \in Nat /\ front < size
        /\ front = IF from = 0 THEN 0 ELSE from + shared
        /\ end = IF from + limit < size THEN from + limit ELSE size
    BY <1>3, <1>5, <1>6, <1>8, <1>9, <1>10
  <2> HIDE DEF shared, front, from
  <2>2. /\ end \in Nat /\ from < end /\ end <= size /\ end <= from + limit
        /\ front < end /\ from <= front
        /\ (1..front) \cup ((from + 1)..end) = 1..end
        /\ end # size => /\ end - shared \in Nat /\ end - shared # 0 /\ from < end - shared
                         /\ (end - shared) + shared = end /\ end < size
    BY <2>1, NextWindow
  <2> QED
    BY <2>2 DEF shared, front, from
<1>12. c \in [group : Nat, from : Nat, to : Nat] /\ c.group = group /\ c.from = start /\ c.to = end
  BY <1>4, <1>5, <1>11 DEF c
<1> HIDE DEF N
<1>13. /\ N \in Nat /\ DOMAIN chunks = 1..N
       /\ chunks \in Seq([group : Nat, from : Nat, to : Nat])
       /\ \A i \in 1..N : /\ chunks[i].from \in Nat /\ chunks[i].to \in Nat
                          /\ chunks[i].group \in Nat
  <2> DEFINE R == [group : Nat, from : Nat, to : Nat]
  <2>1. chunks \in Seq(R)
    BY <1>2 DEF CutInWindows
  <2> HIDE DEF R
  <2>2. N \in Nat /\ DOMAIN chunks = 1..N
    BY <2>1 DEF N
  <2>3. \A i \in 1..N : chunks[i] \in R
    BY <2>1, <2>2
  <2>4. \A r \in R : r.from \in Nat /\ r.to \in Nat /\ r.group \in Nat
    BY DEF R
  <2>5. \A i \in 1..N : /\ chunks[i].from \in Nat /\ chunks[i].to \in Nat
                         /\ chunks[i].group \in Nat
    BY <2>3, <2>4
  <2> QED
    BY <2>1, <2>2, <2>5 DEF R
<1>14. /\ chunks' \in Seq([group : Nat, from : Nat, to : Nat])
       /\ DOMAIN chunks' = 1..(N + 1)
       /\ \A i \in 1..N : chunks'[i] = chunks[i]
       /\ chunks'[N + 1] = c
  <2> DEFINE R == [group : Nat, from : Nat, to : Nat]
  <2>1. chunks \in Seq(R) /\ c \in R
    BY <1>12, <1>13
  <2> HIDE DEF R
  <2>2. /\ Append(chunks, c) \in Seq(R) /\ Len(Append(chunks, c)) = N + 1
        /\ \A i \in 1..N : Append(chunks, c)[i] = chunks[i]
        /\ Append(chunks, c)[N + 1] = c
    BY <2>1, AppendProperties DEF N
  <2>3. DOMAIN Append(chunks, c) = 1..(N + 1)
    BY <2>2
  <2> QED
    BY <1>1, <2>2, <2>3 DEF R
<1>15. /\ \A i : i \in 1..(N + 1) <=> i \in 1..N \/ i = N + 1
       /\ ~ (N + 1 \in 1..N)
  BY <1>13
<1>16. PICK next : next = group'
  OBVIOUS
<1>17. \A g : Covered(g)' = IF g = group THEN Covered(g) \cup ((start + 1)..end) ELSE Covered(g)
  <2> TAKE g
  <2>1. \A i : i \in Of(g)' <=> i \in Of(g) \/ (i = N + 1 /\ g = group)
    BY <1>12, <1>13, <1>14, <1>15 DEF Of
  <2>2. \A i \in Of(g) : chunks'[i] = chunks[i]
    BY <1>13, <1>14 DEF Of
  <2>3. ~ (N + 1 \in Of(g))
    BY <1>13, <1>15 DEF Of
  <2>4. \A x : x \in Covered(g)' <=> \E i \in Of(g)' : x \in (chunks'[i].from + 1)..chunks'[i].to
    BY DEF Covered
  <2>5. \A x : x \in Covered(g) <=> \E i \in Of(g) : x \in (chunks[i].from + 1)..chunks[i].to
    BY DEF Covered
  <2>6. (chunks'[N + 1].from + 1)..chunks'[N + 1].to = (start + 1)..end
    BY <1>12, <1>14
  <2> DEFINE W(i) == (chunks[i].from + 1)..chunks[i].to
             V(i) == (chunks'[i].from + 1)..chunks'[i].to
             new == (start + 1)..end
  <2>7. /\ \A i \in Of(g) : V(i) = W(i)
        /\ V(N + 1) = new
        /\ \A x : x \in Covered(g)' <=> \E i \in Of(g)' : x \in V(i)
        /\ \A x : x \in Covered(g) <=> \E i \in Of(g) : x \in W(i)
    BY <2>2, <2>4, <2>5, <2>6
  <2> HIDE DEF W, V, new
  <2>8. CASE g = group
    <3>1. \A x : x \in Covered(g)' <=> x \in Covered(g) \/ x \in new
      BY <2>1, <2>7, <2>8
    <3>2. Covered(g)' = Covered(g) \cup new
      BY <3>1
    <3> QED
      BY <2>8, <3>2 DEF new
  <2>9. CASE g # group
    <3>1. \A x : x \in Covered(g)' <=> x \in Covered(g)
      BY <2>1, <2>7, <2>9
    <3> QED
      BY <2>9, <3>1
  <2> QED
    BY <2>8, <2>9
<1>18. PICK now : now = group
  OBVIOUS
<1>19. CutInWindows'
  <2>1. ASSUME NEW i \in 1..N
        PROVE  /\ chunks[i].group \in DOMAIN groups
               /\ chunks[i].from < chunks[i].to
               /\ chunks[i].to <= chunks[i].from + limit
               /\ chunks[i].to <= Len(groups[chunks[i].group])
               /\ chunks[i].group <= group
               /\ chunks[i].group = group => chunks[i].from < start /\ chunks[i].to < end
               /\ chunks[i].from \in Nat /\ chunks[i].to \in Nat /\ chunks[i].group \in Nat
    <3>1. /\ chunks[i].group \in DOMAIN groups
          /\ chunks[i].from < chunks[i].to
          /\ chunks[i].to <= chunks[i].from + limit
          /\ chunks[i].to <= Len(groups[chunks[i].group])
          /\ chunks[i].group <= group
      BY <1>2, <1>13 DEF CutInWindows, limit
    <3>2. chunks[i].from \in Nat /\ chunks[i].to \in Nat /\ chunks[i].group \in Nat
      BY <1>13
    <3>3. chunks[i].group = group => chunks[i].from < start /\ chunks[i].to <= Reached
      BY <1>6, <1>13 DEF Of
    <3>4. chunks[i].group = group => chunks[i].to < end
      BY <1>8, <1>11, <3>2, <3>3
    <3> QED
      BY <3>1, <3>2, <3>3, <3>4
  <2>2. group' \in Nat /\ group <= group'
    BY <1>1, <1>4, <1>5
  <2>3. ASSUME NEW i \in 1..(N + 1)
        PROVE  /\ chunks'[i].group \in DOMAIN groups
               /\ chunks'[i].from < chunks'[i].to
               /\ chunks'[i].to <= chunks'[i].from + limit
               /\ chunks'[i].to <= Len(groups[chunks'[i].group])
               /\ chunks'[i].group <= group'
    <3>1. CASE i \in 1..N
      <4>1. chunks'[i] = chunks[i]
        BY <1>14, <3>1
      <4>2. chunks[i].group <= group'
        BY <1>4, <1>5, <2>1, <2>2, <3>1
      <4> QED
        BY <2>1, <3>1, <4>1, <4>2
    <3>2. CASE i = N + 1
      <4>1. chunks'[i].group = group /\ chunks'[i].from = start /\ chunks'[i].to = end
        BY <1>12, <1>14, <3>2
      <4>2. size = Len(groups[group])
        BY DEF size
      <4> QED
        BY <1>5, <1>11, <2>2, <4>1, <4>2
    <3> QED
      BY <1>15, <3>1, <3>2
  <2>4. ASSUME NEW i \in 1..(N + 1), NEW j \in 1..(N + 1), i < j,
               chunks'[i].group = chunks'[j].group
        PROVE  chunks'[i].from < chunks'[j].from /\ chunks'[i].to < chunks'[j].to
    <3>1. i \in 1..N
      BY <1>13, <2>4
    <3>2. CASE j \in 1..N
      <4>1. chunks'[i] = chunks[i] /\ chunks'[j] = chunks[j]
        BY <1>14, <3>1, <3>2
      <4> QED
        BY <1>2, <1>13, <2>4, <3>1, <3>2, <4>1 DEF CutInWindows
    <3>3. CASE j = N + 1
      <4>1. chunks'[i] = chunks[i]
            /\ chunks'[j].group = group /\ chunks'[j].from = start /\ chunks'[j].to = end
        BY <1>12, <1>14, <3>1, <3>3
      <4> QED
        BY <2>1, <2>4, <3>1, <4>1
    <3> QED
      BY <1>15, <3>2, <3>3
  <2> QED
    BY <1>1, <1>14, <2>3, <2>4 DEF CutInWindows, limit
<1>20. Cutting'
  <2>1. Covered(group) \cup ((start + 1)..end) = 1..end
    <3>1. Covered(group) = 1..Reached
      BY <1>6
    <3>2. (1..Reached) \cup ((start + 1)..end) = 1..end
      BY <1>11
    <3> QED
      BY <3>1, <3>2, Zenon
  <2>2. /\ \A g : g # group => Covered(g)' = Covered(g)
        /\ Covered(now)' = 1..end
    BY <1>17, <1>18, <2>1
  <2>3. \A g \in DOMAIN groups : g < group => Covered(g) = 1..Len(groups[g])
    BY <1>2 DEF Cutting
  <2>4. CASE end = size
    <3>1. group' = group + 1 /\ start' = 0 /\ Reached' = 0
      BY <1>1, <2>4 DEF Reached
    <3>2. ASSUME NEW g \in DOMAIN groups, g < group' PROVE Covered(g)' = 1..Len(groups[g])
      <4>1. CASE g = group
        BY <1>18, <2>2, <2>4, <4>1 DEF size
      <4>2. CASE g # group
        <5>1. g < group
          BY <1>4, <1>5, <3>1, <3>2, <4>2
        <5> QED
          BY <2>2, <2>3, <4>2, <5>1
      <4> QED
        BY <4>1, <4>2
    <3>3. ASSUME next <= Len(groups)
          PROVE  Covered(next)' = 1..0 /\ Of(next)' = {} /\ 0 < Len(groups[next])
      <4>1. next \in DOMAIN groups /\ next # group
        BY <1>4, <1>5, <1>16, <3>1, <3>3
      <4>2. ASSUME NEW i \in 1..(N + 1) PROVE chunks'[i].group # next
        <5>1. CASE i \in 1..N
          <6>1. chunks'[i] = chunks[i]
            BY <1>14, <5>1
          <6>2. chunks[i].group <= group /\ chunks[i].group \in Nat
            BY <1>2, <1>13, <5>1 DEF CutInWindows
          <6> QED
            BY <1>4, <1>5, <1>16, <3>1, <6>1, <6>2
        <5>2. CASE i = N + 1
          BY <1>12, <1>14, <4>1, <5>2
        <5> QED
          BY <1>15, <5>1, <5>2
      <4>3. Of(next)' = {}
        BY <1>14, <4>2 DEF Of
      <4>4. Covered(next)' = {}
        BY <4>3 DEF Covered
      <4>5. 1..0 = {}
        OBVIOUS
      <4>6. 0 < Len(groups[next])
        BY <1>4, <4>1
      <4> QED
        BY <4>3, <4>4, <4>5, <4>6
    <3>4. group' \in 1..(Len(groups) + 1)
      BY <1>1, <1>4, <1>5, <3>1
    <3>5. group' <= Len(groups)' =>
             /\ Reached' < Len(groups[group])'
             /\ Covered(group)' = 1..Reached'
             /\ \A i \in Of(group)' : chunks'[i].from < start' /\ chunks'[i].to <= Reached'
      BY <1>1, <1>16, <3>1, <3>3
    <3>6. \A g \in DOMAIN groups' : g < group' => Covered(g)' = 1..Len(groups[g])'
      BY <1>1, <3>2
    <3> QED
      BY <1>1, <3>1, <3>4, <3>5, <3>6 DEF Cutting
  <2>5. CASE end # size
    <3>1. group' = group /\ start' = end - Shared
      BY <1>1, <1>7, <2>5
    <3>2. Reached' = end
      <4>1. Shared' = Shared
        BY <1>1 DEF Shared
      <4> QED
        BY <1>11, <2>5, <3>1, <4>1 DEF Reached
    <3>3. ASSUME NEW g \in DOMAIN groups, g < group PROVE Covered(g)' = 1..Len(groups[g])
      BY <1>4, <1>5, <2>2, <2>3, <3>3
    <3>4. ASSUME NEW i \in Of(now)'
          PROVE  chunks'[i].from < start' /\ chunks'[i].to <= end
      <4>1. i \in 1..(N + 1) /\ chunks'[i].group = group
        BY <1>14, <1>18 DEF Of
      <4>2. CASE i = N + 1
        <5>1. chunks'[i].from = start /\ chunks'[i].to = end
          BY <1>12, <1>14, <4>2
        <5> QED
          BY <1>11, <2>5, <3>1, <5>1
      <4>3. CASE i \in 1..N
        <5>1. chunks'[i] = chunks[i] /\ i \in Of(group)
          BY <1>13, <1>14, <4>1, <4>3 DEF Of
        <5>2. chunks[i].from < start /\ chunks[i].to <= Reached
              /\ chunks[i].from \in Nat /\ chunks[i].to \in Nat
          BY <1>6, <1>13, <4>3, <5>1
        <5>3. start < start' /\ start' \in Nat
          BY <1>11, <2>5, <3>1
        <5> QED
          BY <1>5, <1>8, <1>11, <5>1, <5>2, <5>3
      <4> QED
        BY <1>15, <4>1, <4>2, <4>3
    <3>5. group' \in 1..(Len(groups) + 1) /\ start' \in Nat /\ end < Len(groups[group])
      BY <1>5, <1>11, <2>5, <3>1 DEF size
    <3>6. group' <= Len(groups)' =>
             /\ Reached' < Len(groups[group])'
             /\ Covered(group)' = 1..Reached'
             /\ \A i \in Of(group)' : chunks'[i].from < start' /\ chunks'[i].to <= Reached'
      BY <1>1, <1>18, <2>2, <3>1, <3>2, <3>4, <3>5
    <3>7. \A g \in DOMAIN groups' : g < group' => Covered(g)' = 1..Len(groups[g])'
      BY <1>1, <3>1, <3>3
    <3> QED
      BY <1>1, <3>5, <3>6, <3>7 DEF Cutting
  <2> QED
    BY <2>4, <2>5
<1>21. Grouping' /\ Listed'
  <2>1. Listed'
    BY <1>1, <1>2, ListedStays
  <2>2. TheStrategy' = TheStrategy /\ Whole' = Whole /\ Cover(groups)' = Cover(groups)
    BY <1>1 DEF TheStrategy, TheParser, Whole, Places, Blocks, Cover, ToSet
  <2> QED
    BY <1>1, <1>2, <2>1, <2>2 DEF Grouping
<1> QED
  BY <1>1, <1>2, <1>19, <1>20, <1>21 DEF ContentInv, limit

\* What the invariant says of the window stays while the window does not move.
LEMMA ContentRests ==
  ASSUME blocks' = blocks, groups' = groups, group' = group, start' = start, chunks' = chunks,
         request' = request, parser' = parser
  PROVE  /\ Listed' = Listed /\ Grouping' = Grouping
         /\ CutInWindows' = CutInWindows /\ Cutting' = Cutting
<1>1. Listed' = Listed
  BY DEF Listed, Blocks
<1>2. TheStrategy' = TheStrategy /\ Whole' = Whole /\ Cover(groups)' = Cover(groups)
  BY DEF TheStrategy, TheParser, Whole, Places, Blocks, Cover, ToSet
<1>3. Grouping' = Grouping
  BY <1>2 DEF Grouping
<1>4. CutInWindows' = CutInWindows
  BY DEF CutInWindows
<1>5. Reached' = Reached
  BY DEF Reached, Shared
<1>6. \A g : Of(g)' = Of(g) /\ Covered(g)' = Covered(g)
  BY DEF Of, Covered
<1>7. Cutting' = Cutting
  BY <1>5, <1>6 DEF Cutting
<1> QED
  BY <1>1, <1>3, <1>4, <1>7

\* The windows are an invariant.
LEMMA ContentInvariant ==
  ASSUME ContentGiven
  PROVE  ContentSpec => []ContentInv
<1>1. ContentInit => ContentInv
  BY ContentStarts
<1>2. ContentInv /\ [ContentNext]_contentVars => ContentInv'
  <2> SUFFICES ASSUME ContentInv, [ContentNext]_contentVars PROVE ContentInv'
    OBVIOUS
  <2>1. CASE Resolve \/ Parse
    BY <2>1, ContentRoutes
  <2>2. CASE ChooseStrategy
    BY <2>2, ContentChooses
  <2>3. CASE Cut
    BY <2>3, ContentCuts
  <2>4. CASE Finish
    <3>1. /\ phase = "cut" /\ group > Len(groups) /\ phase' = "done"
          /\ request' = request /\ parser' = parser /\ source' = source /\ blocks' = blocks
          /\ groups' = groups /\ group' = group /\ start' = start /\ chunks' = chunks
      BY <2>4 DEF Finish
    <3> QED
      BY <3>1, ContentRests DEF ContentInv
  <2>5. CASE UNCHANGED contentVars
    <3>1. /\ phase' = phase
          /\ request' = request /\ parser' = parser /\ source' = source /\ blocks' = blocks
          /\ groups' = groups /\ group' = group /\ start' = start /\ chunks' = chunks
      BY <2>5 DEF contentVars
    <3> QED
      BY <3>1, ContentRests DEF ContentInv
  <2> QED
    BY <2>1, <2>2, <2>3, <2>4, <2>5 DEF ContentNext
<1> QED
  BY <1>1, <1>2, PTL DEF ContentSpec

\* At the end the invariant is the property.
LEMMA CoverageFollows ==
  ASSUME ContentGiven, ContentInv
  PROVE  ChunksCoverSource
<1> SUFFICES ASSUME phase = "done"
             PROVE  /\ \A i \in DOMAIN chunks : chunks[i].to - chunks[i].from \in 1..request.limit
                    /\ \A g \in DOMAIN groups : Covered(g) = DOMAIN groups[g]
                    /\ \A i, j \in DOMAIN chunks :
                          i < j /\ chunks[i].group = chunks[j].group =>
                              chunks[i].from < chunks[j].from /\ chunks[i].to < chunks[j].to
                    /\ TheStrategy # "qa" =>
                          UNION {ToSet(groups[g]) : g \in DOMAIN groups} = Whole
  BY DEF ChunksCoverSource, Covered, Whole
<1>1. /\ Grouping /\ CutInWindows /\ Cutting /\ group > Len(groups) /\ request.limit \in Limits
  BY DEF ContentInv
<1>2. request.limit \in Nat
  BY <1>1, LimitIs
<1>3. /\ Len(groups) \in Nat /\ DOMAIN groups = 1..Len(groups)
      /\ \A g \in DOMAIN groups : DOMAIN groups[g] = 1..Len(groups[g])
  BY <1>1, GroupsAre
<1>4. ASSUME NEW i \in DOMAIN chunks PROVE chunks[i].to - chunks[i].from \in 1..request.limit
  <2> DEFINE R == [group : Nat, from : Nat, to : Nat]
  <2>1. chunks \in Seq(R)
    BY <1>1 DEF CutInWindows
  <2>2. chunks[i] \in R
    <3> HIDE DEF R
    <3> QED
      BY <2>1
  <2>3. \A r \in R : r.from \in Nat /\ r.to \in Nat
    OBVIOUS
  <2>4. chunks[i].from < chunks[i].to /\ chunks[i].to <= chunks[i].from + request.limit
    BY <1>1 DEF CutInWindows
  <2> HIDE DEF R
  <2>5. chunks[i].from \in Nat /\ chunks[i].to \in Nat
    BY <2>2, <2>3
  <2> QED
    BY <1>2, <2>4, <2>5
<1>5. ASSUME NEW g \in DOMAIN groups PROVE Covered(g) = DOMAIN groups[g]
  <2>1. g < group
    BY <1>1, <1>3 DEF Cutting
  <2> QED
    BY <1>1, <1>3, <2>1 DEF Cutting
<1>6. TheStrategy # "qa" => UNION {ToSet(groups[g]) : g \in DOMAIN groups} = Whole
  <2>1. UNION {ToSet(groups[g]) : g \in DOMAIN groups} = Members(groups, DOMAIN groups)
    BY DEF Members
  <2> QED
    BY <1>1, <2>1, CoverIs DEF Grouping
<1> QED
  BY <1>1, <1>4, <1>5, <1>6 DEF CutInWindows

\* ScenarioChunker and GeneralChunker: for any parsers and sources, limits and
\* overlaps, the chunks of a document are within the limit, each brings something
\* new, and together they hold every line, but for questions and answers.
THEOREM ChunksHoldSource == ContentSpec => []ChunksCoverSource
<1>1. ContentSpec => []ContentInv
  BY ContentAssumption, ContentInvariant
<1>2. ContentInv => ChunksCoverSource
  BY ContentAssumption, CoverageFollows
<1> QED
  BY <1>1, <1>2, PTL

-----------------------------------------------------------------------------
(* The graph and the windows of a series.                                    *)

\* Induction up to a number.
LEMMA InductUpTo ==
  ASSUME NEW N \in Nat, NEW S, 0 \in S, \A n \in 0..N - 1 : n \in S => n + 1 \in S
  PROVE  \A n \in 0..N : n \in S
<1> DEFINE T == {n \in Nat : n <= N => n \in S}
<1>1. 0 \in T
  OBVIOUS
<1>2. ASSUME NEW n \in T PROVE n + 1 \in T
  <2>1. n + 1 <= N => n \in 0..N - 1 /\ n <= N
    OBVIOUS
  <2> QED
    BY <2>1
<1>3. T = Nat
  <2>1. T \in SUBSET Nat
    OBVIOUS
  <2> HIDE DEF T
  <2> QED
    BY <1>1, <1>2, <2>1, NatInd
<1> QED
  BY <1>3

\* Division, and the multiples of a number.
LEMMA Multiples ==
  ASSUME NEW W \in Nat \ {0}
  PROVE  /\ \A u \in Nat : u * W \in Nat
         /\ \A u, q \in Nat : u < q => u * W + W <= q * W
         /\ \A a \in Nat : /\ a \div W \in Nat
                           /\ (a \div W) * W <= a /\ a < (a \div W) * W + W
<1>1. \A u \in Nat : u * W \in Nat
  OBVIOUS
<1>2. ASSUME NEW u \in Nat, NEW q \in Nat, u < q PROVE u * W + W <= q * W
  <2>1. PICK d \in Nat : q = (u + 1) + d
    <3>1. q - (u + 1) \in Nat
      BY <1>2
    <3> QED
      BY <3>1
  <2>2. q * W = (u * W + W) + d * W
    BY <2>1
  <2>3. d * W \in Nat /\ u * W \in Nat
    OBVIOUS
  <2> QED
    BY <2>2, <2>3
<1>3. ASSUME NEW a \in Nat
      PROVE  /\ a \div W \in Nat
             /\ (a \div W) * W <= a /\ a < (a \div W) * W + W
  OBVIOUS
<1> QED
  BY <1>1, <1>2, <1>3

\* Numbers in ascending order, each of them once.
LEMMA AscendingSorts ==
  ASSUME NEW S \in SUBSET Nat, IsFiniteSet(S)
  PROVE  /\ Cardinality(S) \in Nat
         /\ Ascending(S) \in [1..Cardinality(S) -> S]
         /\ \A i, j \in 1..Cardinality(S) : i < j => Ascending(S)[i] < Ascending(S)[j]
         /\ \A c \in S : \E i \in 1..Cardinality(S) : Ascending(S)[i] = c
<1> DEFINE zero == [n \in S |-> 0]
           o == Ordered(S, zero)
           N == Cardinality(S)
<1>1. \A c \in S : zero[c] \in Int /\ zero[c] = 0
  OBVIOUS
<1>2. Ascending(S) = o
  BY DEF Ascending
<1> HIDE DEF zero
<1>3. /\ N \in Nat /\ o \in [1..N -> S]
      /\ \A i, j \in 1..N : i < j => Ahead(zero, o[i], o[j])
      /\ \A c \in S : \E i \in 1..N : o[i] = c
  BY <1>1, OrderedSorts
<1>4. \A a, b \in S : Ahead(zero, a, b) => a < b
  BY <1>1 DEF Ahead
<1> HIDE DEF o, N
<1>5. \A i, j \in 1..N : i < j => o[i] < o[j]
  BY <1>3, <1>4
<1> QED
  BY <1>2, <1>3, <1>5 DEF N

-----------------------------------------------------------------------------
(* The graph.                                                                *)

\* A relation is found only where both its ends are.
LEMMA GraphGrounded ==
  ASSUME NEW chunks0 \in Inputs, NEW g, g.graph = Graph(chunks0)
  PROVE  GraphIsGrounded(g)
<1> DEFINE names == UNION {ToSet(Entities(chunks0[i])) : i \in DOMAIN chunks0}
           edges == UNION {Neighbours(chunks0[i]) : i \in DOMAIN chunks0}
           ent == [n \in names |-> {i \in DOMAIN chunks0 : n \in ToSet(Entities(chunks0[i]))}]
           edg == [e \in edges |-> {i \in DOMAIN chunks0 : e \in Neighbours(chunks0[i])}]
           com == [n \in UNION edges |-> UNION {e \in edges : n \in e}]
<1>1. Graph(chunks0) = [entities |-> ent, edges |-> edg, communities |-> com]
  BY DEF Graph
<1>2. ASSUME NEW i \in DOMAIN chunks0, NEW e \in Neighbours(chunks0[i]), NEW n \in e
      PROVE  n \in ToSet(Entities(chunks0[i]))
  <2>1. PICK k \in 1..(Len(Entities(chunks0[i])) - 1) :
            e = {Entities(chunks0[i])[k], Entities(chunks0[i])[k + 1]}
    BY <1>2 DEF Neighbours
  <2>2. /\ chunks0[i].entities \in Seq(ToSet(chunks0[i].entities)) /\ PerChunk \in Nat
    BY AdvancedAssumption
  <2>3. Len(chunks0[i].entities) \in Nat
    BY <2>2
  <2>4. PICK m \in Nat : DOMAIN Entities(chunks0[i]) = 1..m /\ Len(Entities(chunks0[i])) = m
    BY <2>2, <2>3 DEF Entities
  <2>5. k \in 1..m /\ k + 1 \in 1..m
    BY <2>4
  <2> QED
    BY <2>1, <2>4, <2>5 DEF ToSet
<1>3. ASSUME NEW e \in edges, NEW n \in e
      PROVE  n \in names /\ edg[e] \subseteq ent[n] /\ edg[e] # {}
  <2>1. PICK i \in DOMAIN chunks0 : e \in Neighbours(chunks0[i])
    OBVIOUS
  <2>2. n \in names
    BY <1>2, <2>1
  <2>3. edg[e] \subseteq ent[n]
    BY <1>2, <2>2
  <2> QED
    BY <2>1, <2>2, <2>3
<1>4. \A n, o \in UNION edges : n \in com[o] <=> o \in com[n]
  OBVIOUS
<1>5. /\ g.graph.entities = ent /\ g.graph.edges = edg /\ g.graph.communities = com
  BY <1>1
<1>6. DOMAIN edg = edges /\ DOMAIN com = UNION edges
  OBVIOUS
<1> HIDE DEF ent, edg, com, edges, names
<1> QED
  BY <1>3, <1>4, <1>5, <1>6 DEF GraphIsGrounded

-----------------------------------------------------------------------------
(* The windows of a series.                                                  *)

\* A distance from an anchor is in an interval when the point is in the one
\* shifted by the anchor.
LEMMA Shifted ==
  ASSUME NEW from \in Nat, NEW point \in Nat, NEW low \in Nat, NEW width \in Nat
  PROVE  (low <= point - from /\ point - from < low + width)
         <=> (from + low <= point /\ point < from + low + width)
OBVIOUS

\* Every point is in the window of its index, and in no other.
LEMMA WindowsHold ==
  ASSUME NEW points \in Series, points # <<>>, NEW w, w.from = points, w.windows = Windows(points)
  PROVE  WindowsHoldPoints(w)
<1> DEFINE D == DOMAIN points
           at(i) == points[i].at
           low(t) == \A i \in D : t <= at(i)
           anchor == CHOOSE t \in {at(i) : i \in D} : low(t)
           index(i) == (at(i) - anchor) \div Window
           I == {index(i) : i \in D}
           bucket(x) == {i \in D : index(i) = x}
           present(x) == {i \in bucket(x) : points[i].value # Absent}
           used == Ascending(I)
           N == Cardinality(I)
           Inside(v) == {i \in D : w.windows[v].start <= at(i) /\ at(i) < w.windows[v].start + Window}
<1>1. /\ Window \in Nat \ {0} /\ points \in Seq(ToSet(points)) /\ \A i \in D : at(i) \in Nat
  BY AdvancedAssumption
<1>2. D = 1..Len(points) /\ Len(points) \in Nat /\ D # {}
  BY <1>1
<1>3. anchor \in Nat /\ \A i \in D : anchor <= at(i)
  <2>1. \E t \in {at(i) : i \in D} : low(t)
    <3>1. {at(i) : i \in D} \in SUBSET Nat /\ {at(i) : i \in D} # {}
      BY <1>1, <1>2
    <3>2. PICK t \in {at(i) : i \in D} : \A m \in {at(i) : i \in D} : t <= m
      BY <3>1, LeastNat
    <3> QED
      BY <3>2
  <2>2. anchor \in {at(i) : i \in D} /\ low(anchor)
    <3> HIDE DEF low
    <3> QED
      BY <2>1
  <2> QED
    BY <1>1, <2>2
<1>4. w.windows = [v \in DOMAIN used |->
            [start |-> anchor + used[v] * Window, count |-> Cardinality(present(used[v])),
             missing |-> Cardinality(bucket(used[v]) \ present(used[v]))]]
  BY DEF Windows
<1> HIDE DEF anchor
<1>5. ASSUME NEW i \in D
      PROVE  /\ index(i) \in Nat
             /\ \A x \in Nat : index(i) = x <=> anchor + x * Window <= at(i)
                                              /\ at(i) < anchor + x * Window + Window
  <2> DEFINE a == at(i) - anchor
             q == index(i)
  <2>1. a \in Nat /\ at(i) \in Nat /\ anchor \in Nat /\ q = a \div Window
    BY <1>1, <1>3
  <2>2. q \in Nat /\ q * Window <= a /\ a < q * Window + Window /\ q * Window \in Nat
    BY <1>1, <2>1, Multiples
  <2> HIDE DEF q
  <2>3. ASSUME NEW x \in Nat, x * Window <= a, a < x * Window + Window PROVE q = x
    <3>1. x * Window \in Nat
      BY <1>1, Multiples
    <3>2. /\ q < x => q * Window + Window <= x * Window
          /\ x < q => x * Window + Window <= q * Window
      BY <1>1, <2>2, Multiples
    <3> DEFINE qW == q * Window
               xW == x * Window
    <3>3. qW <= a /\ a < qW + Window /\ qW \in Nat /\ xW <= a /\ a < xW + Window /\ xW \in Nat
          /\ (q < x => qW + Window <= xW) /\ (x < q => xW + Window <= qW)
      BY <2>2, <2>3, <3>1, <3>2
    <3> HIDE DEF qW, xW
    <3>4. ~(q < x) /\ ~(x < q)
      BY <1>1, <2>1, <3>3
    <3> QED
      BY <2>2, <3>4
  <2>4. ASSUME NEW x \in Nat
        PROVE  (x * Window <= a /\ a < x * Window + Window)
               <=> (anchor + x * Window <= at(i) /\ at(i) < anchor + x * Window + Window)
    <3> DEFINE xW == x * Window
    <3>1. xW \in Nat
      BY <1>1, Multiples
    <3> HIDE DEF xW
    <3>2. (xW <= a /\ a < xW + Window) <=> (anchor + xW <= at(i) /\ at(i) < anchor + xW + Window)
      <4> DEFINE point == at(i)
      <4>1. point \in Nat /\ anchor \in Nat /\ Window \in Nat
        BY <1>1, <2>1
      <4> HIDE DEF point
      <4>2. (xW <= point - anchor /\ point - anchor < xW + Window)
            <=> (anchor + xW <= point /\ point < anchor + xW + Window)
        BY <3>1, <4>1, Shifted
      <4> QED
        BY <4>2 DEF point
    <3> QED
      BY <3>2 DEF xW
  <2>5. ASSUME NEW x \in Nat
        PROVE  q = x <=> x * Window <= a /\ a < x * Window + Window
    BY <2>2, <2>3
  <2> QED
    BY <2>2, <2>4, <2>5 DEF q
<1>6. I \in SUBSET Nat /\ IsFiniteSet(I)
  <2>1. IsFiniteSet(D)
    BY <1>2, FS_Interval
  <2>2. IsFiniteSet(I)
    <3> DEFINE f == [i \in D |-> index(i)]
    <3>3. f \in [1..Len(points) -> I] /\ \A x \in I : \E j \in 1..Len(points) : f[j] = x
      BY <1>2
    <3> HIDE DEF I, f, D
    <3>4. f \in Surjection(1..Len(points), I)
      BY <3>3 DEF Surjection
    <3>5. \E n \in Nat : ExistsSurjection(1..n, I)
      BY <1>2, <3>4 DEF ExistsSurjection
    <3> QED
      BY <3>5, FS_NatSurjection
  <2> QED
    BY <1>5, <2>2
<1>7. /\ N \in Nat /\ used \in [1..N -> I] /\ DOMAIN used = 1..N
      /\ \A i, j \in 1..N : i < j => used[i] < used[j]
      /\ \A c \in I : \E i \in 1..N : used[i] = c
  <2> HIDE DEF I
  <2> QED
    BY <1>6, AscendingSorts
<1> HIDE DEF used, N
<1>8. /\ DOMAIN w.windows = 1..N /\ Len(w.windows) = N
      /\ \A v \in 1..N :
            /\ w.windows[v].start = anchor + used[v] * Window
            /\ w.windows[v].count = Cardinality(present(used[v]))
            /\ w.windows[v].missing = Cardinality(bucket(used[v]) \ present(used[v]))
  <2> DEFINE counted(v) == Cardinality(present(used[v]))
             lacking(v) == Cardinality(bucket(used[v]) \ present(used[v]))
             begins(v) == anchor + used[v] * Window
  <2>1. w.windows = [v \in 1..N |->
            [start |-> begins(v), count |-> counted(v), missing |-> lacking(v)]]
    BY <1>4, <1>7
  <2> HIDE DEF counted, lacking, begins
  <2>2. /\ DOMAIN w.windows = 1..N /\ Len(w.windows) = N
        /\ \A v \in 1..N : /\ w.windows[v].start = begins(v) /\ w.windows[v].count = counted(v)
                           /\ w.windows[v].missing = lacking(v)
    BY <1>7, <2>1
  <2> QED
    BY <2>2 DEF counted, lacking, begins
<1>9. ASSUME NEW v \in 1..N PROVE Inside(v) = bucket(used[v])
  <2>1. used[v] \in Nat
    BY <1>6, <1>7
  <2>2. w.windows[v].start = anchor + used[v] * Window
    BY <1>8
  <2>3. ASSUME NEW i \in D
        PROVE  index(i) = used[v] <=> w.windows[v].start <= at(i)
                                      /\ at(i) < w.windows[v].start + Window
    <3> HIDE DEF index, at, D
    <3> QED
      BY <1>5, <2>1, <2>2
  <2> QED
    BY <2>3
<1>10. \A i \in D : \E v \in 1..N : i \in Inside(v)
  <2>1. ASSUME NEW i \in D PROVE \E v \in 1..N : i \in bucket(used[v])
    <3>1. index(i) \in I
      OBVIOUS
    <3>2. PICK v \in 1..N : used[v] = index(i)
      BY <1>7, <3>1
    <3> QED
      BY <3>2
  <2> QED
    BY <1>9, <2>1
<1>11. ASSUME NEW v \in 1..N
       PROVE  /\ Inside(v) # {}
              /\ w.windows[v].count = Cardinality({i \in Inside(v) : points[i].value # Absent})
              /\ w.windows[v].missing = Cardinality({i \in Inside(v) : points[i].value = Absent})
  <2>1. used[v] \in I
    BY <1>7
  <2>2. bucket(used[v]) # {}
    BY <2>1
  <2>3. bucket(used[v]) \ present(used[v]) = {i \in bucket(used[v]) : points[i].value = Absent}
    OBVIOUS
  <2> HIDE DEF bucket, Inside
  <2> QED
    BY <1>8, <1>9, <2>2, <2>3
<1>12. ASSUME NEW v \in 1..(N - 1)
       PROVE  w.windows[v].start + Window <= w.windows[v + 1].start
  <2>1. v \in 1..N /\ v + 1 \in 1..N /\ v < v + 1
    BY <1>7
  <2>2. used[v] \in Nat /\ used[v + 1] \in Nat /\ used[v] < used[v + 1]
    BY <1>6, <1>7, <2>1
  <2> DEFINE x == used[v]
             y == used[v + 1]
             xW == x * Window
             yW == y * Window
  <2>3. xW \in Nat /\ yW \in Nat /\ xW + Window <= yW
    BY <1>1, <2>2, Multiples
  <2>4. w.windows[v].start = anchor + xW /\ w.windows[v + 1].start = anchor + yW
    BY <1>8, <2>1
  <2> HIDE DEF xW, yW
  <2> QED
    BY <1>1, <1>3, <2>3, <2>4
<1>13. /\ \A i \in DOMAIN w.from : \E v \in DOMAIN w.windows : i \in Inside(v)
       /\ DOMAIN w.windows = 1..N /\ 1..(Len(w.windows) - 1) = 1..(N - 1)
  BY <1>8, <1>10
<1>14. /\ \A i \in DOMAIN w.from : \E v \in DOMAIN w.windows : i \in Inside(v)
       /\ \A v \in DOMAIN w.windows :
             /\ Inside(v) # {}
             /\ w.windows[v].count = Cardinality({i \in Inside(v) : w.from[i].value # Absent})
             /\ w.windows[v].missing = Cardinality({i \in Inside(v) : w.from[i].value = Absent})
       /\ \A v \in 1..(Len(w.windows) - 1) :
             w.windows[v].start + Window <= w.windows[v + 1].start
  <2> HIDE DEF Inside, N
  <2> QED
    BY <1>11, <1>12, <1>13
<1>15. \A v : Inside(v) = {i \in DOMAIN w.from : w.windows[v].start <= w.from[i].at
                                          /\ w.from[i].at < w.windows[v].start + Window}
  OBVIOUS
<1> HIDE DEF Inside
<1> QED
  BY <1>14, <1>15 DEF WindowsHoldPoints

-----------------------------------------------------------------------------
(* The context around a hit.                                                 *)

(* The context around a hit.                                                 *)

IsTokens(f, list, some) ==
    f = [i \in 0..Len(list) |->
            IF i = 0 THEN 0 ELSE f[i - 1] + (IF i \in some THEN list[i].tokens ELSE 0)]

\* The tokens of some of the chunks are what a count of them comes to.
LEMMA TokensAre ==
  ASSUME NEW list, Len(list) \in Nat, \A i \in 1..Len(list) : list[i].tokens \in Nat,
         NEW some, NEW h \in [0..Len(list) -> Nat], h[0] = 0,
         \A i \in 1..Len(list) : h[i] = h[i - 1] + (IF i \in some THEN list[i].tokens ELSE 0)
  PROVE  TokensOf(list, some) = h[Len(list)]
<1> DEFINE N == Len(list)
           f == CHOOSE f : IsTokens(f, list, some)
<1>1. IsTokens(h, list, some)
  <2>1. ASSUME NEW i \in 0..N
        PROVE  h[i] = IF i = 0 THEN 0 ELSE h[i - 1] + (IF i \in some THEN list[i].tokens ELSE 0)
    <3>1. i = 0 \/ i \in 1..N
      OBVIOUS
    <3> QED
      BY <3>1
  <2>2. h = [i \in 0..N |-> h[i]]
    OBVIOUS
  <2>3. h = [i \in 0..N |->
               IF i = 0 THEN 0 ELSE h[i - 1] + (IF i \in some THEN list[i].tokens ELSE 0)]
    BY <2>1, <2>2, Zenon
  <2> QED
    BY <2>3, Zenon DEF IsTokens
<1>2. IsTokens(f, list, some)
  <2>1. \E k : IsTokens(k, list, some)
    BY <1>1, Zenon
  <2> QED
    BY <2>1, Zenon
<1>3. TokensOf(list, some) = f[N]
  BY Zenon DEF TokensOf, IsTokens
<1> HIDE DEF f
<1>4. \A i \in 0..N : f[i] = IF i = 0 THEN 0
                             ELSE f[i - 1] + (IF i \in some THEN list[i].tokens ELSE 0)
  BY <1>2 DEF IsTokens
<1> DEFINE S == {n \in 0..N : f[n] = h[n]}
<1>5. 0 \in S
  BY <1>4
<1>6. ASSUME NEW n \in 0..N - 1, n \in S PROVE n + 1 \in S
  <2>1. n + 1 \in 1..N /\ n + 1 \in 0..N /\ n + 1 # 0 /\ (n + 1) - 1 = n
    OBVIOUS
  <2>2. f[n + 1] = f[n] + (IF n + 1 \in some THEN list[n + 1].tokens ELSE 0)
    BY <1>4, <2>1
  <2>3. h[n + 1] = h[n] + (IF n + 1 \in some THEN list[n + 1].tokens ELSE 0)
    BY <2>1
  <2> QED
    BY <1>6, <2>1, <2>2, <2>3
<1>7. \A n \in 0..N : n \in S
  <2> HIDE DEF S
  <2> QED
    BY <1>5, <1>6, InductUpTo
<1> QED
  BY <1>3, <1>7

Blank0 == [used |-> 0, taken |-> <<>>]
Extended(done, t, near, i) ==
    LET used == done.used + t
    IN  IF i \in near /\ used <= MaxTokens
        THEN [used |-> used, taken |-> Append(done.taken, i)] ELSE done
Fits(done, t, near, i) == i \in near /\ done.used + t <= MaxTokens
IsExpansion(f, list, near) ==
    f = [i \in 0..Len(list) |-> IF i = 0 THEN Blank0 ELSE Extended(f[i - 1], list[i].tokens, near, i)]

Contexts == [used : Nat, taken : Seq(Nat)]

TakenAt(f, t, near, n) == {i \in 1..n : Fits(f[i - 1], t[i], near, i)}
IsExtension(more, done, t, near, i) ==
    /\ more \in Contexts /\ more.used <= MaxTokens
    /\ Fits(done, t, near, i) => /\ more.used = done.used + t
                                 /\ ToSet(more.taken) = ToSet(done.taken) \cup {i}
    /\ ~Fits(done, t, near, i) => more = done

\* A chunk more is taken just when it is near and there are tokens for it.
LEMMA ExtendedHas ==
  ASSUME NEW done \in Contexts, done.used <= MaxTokens, NEW t \in Nat, NEW near, NEW i \in Nat
  PROVE  IsExtension(Extended(done, t, near, i), done, t, near, i)
<1> DEFINE sum == done.used + t
<1>1. MaxTokens \in Nat /\ done.used \in Nat /\ done.taken \in Seq(Nat) /\ sum \in Nat
  BY AdvancedAssumption DEF Contexts
<1>2. CASE i \in near /\ sum <= MaxTokens
  <2> DEFINE longer == Append(done.taken, i)
  <2>1. longer \in Seq(Nat) /\ ToSet(longer) = ToSet(done.taken) \cup {i}
    <3> DEFINE s == done.taken
               X == Nat
    <3>1. s \in Seq(X) /\ i \in X
      BY <1>1
    <3> HIDE DEF s, X
    <3>2. /\ <<i>> \in Seq(X) /\ ToSet(<<i>>) = {i}
          /\ Append(s, i) \in Seq(X) /\ ToSet(Append(s, i)) = ToSet(s) \cup {i}
      BY <3>1, OneMoreHas
    <3> QED
      BY <3>2 DEF s, X
  <2>2. Extended(done, t, near, i) = [used |-> sum, taken |-> longer]
    BY <1>2 DEF Extended
  <2> HIDE DEF longer
  <2> QED
    BY <1>1, <1>2, <2>1, <2>2 DEF Contexts, Fits, IsExtension
<1>3. CASE ~ (i \in near /\ sum <= MaxTokens)
  <2>1. Extended(done, t, near, i) = done
    BY <1>3 DEF Extended
  <2> QED
    BY <1>1, <1>3, <2>1 DEF Fits, IsExtension
<1> QED
  BY <1>2, <1>3

AreTakings(f, t, near, N) ==
    /\ \A n \in 0..N : /\ f[n] \in Contexts /\ f[n].used <= MaxTokens
                       /\ ToSet(f[n].taken) = TakenAt(f, t, near, n)
    /\ \A n \in 0..N : n > 0 => f[n].used = f[n - 1].used +
                                    (IF n \in TakenAt(f, t, near, N) THEN t[n] ELSE 0)

\* What is taken up to a chunk.
LEMMA TakenUpTo ==
  ASSUME NEW N \in Nat, NEW t \in [1..N -> Nat], NEW near,
         NEW f, f[0] = Blank0,
         \A n \in 1..N : f[n] = Extended(f[n - 1], t[n], near, n)
  PROVE  AreTakings(f, t, near, N)
<1> DEFINE takes(i) == Fits(f[i - 1], t[i], near, i)
           taken(n) == TakenAt(f, t, near, n)
           Ok(n) == f[n] \in Contexts /\ f[n].used <= MaxTokens /\ ToSet(f[n].taken) = taken(n)
           S == {n \in 0..N : Ok(n)}
<1>1. 0 \in S
  <2>1. <<>> \in Seq(Nat) /\ ToSet(<<>>) = {} /\ MaxTokens \in Nat
    BY EmptySeq, AdvancedAssumption DEF ToSet
  <2>2. taken(0) = {} /\ 0 \in 0..N
    BY DEF TakenAt
  <2>3. Blank0 \in Contexts /\ Blank0.used <= MaxTokens /\ ToSet(Blank0.taken) = {}
    BY <2>1 DEF Blank0, Contexts
  <2> HIDE DEF taken
  <2> QED
    BY <2>2, <2>3
<1>2. ASSUME NEW m \in 1..N, Ok(m - 1)
      PROVE  Ok(m) /\ f[m].used = f[m - 1].used + (IF takes(m) THEN t[m] ELSE 0)
  <2> DEFINE e == f[m - 1]
             g == f[m]
             k == t[m]
  <2>1. e \in Contexts /\ e.used <= MaxTokens /\ k \in Nat /\ m \in Nat /\ e.used \in Nat
    BY <1>2 DEF Contexts
  <2>2. g = Extended(e, k, near, m) /\ (takes(m) <=> Fits(e, k, near, m))
    OBVIOUS
  <2>3. taken(m) = taken(m - 1) \cup (IF takes(m) THEN {m} ELSE {})
    <3>1. 1..m = (1..m - 1) \cup {m}
      OBVIOUS
    <3>2. \A n : taken(n) = {i \in 1..n : takes(i)}
      BY DEF TakenAt
    <3> HIDE DEF takes, taken
    <3> QED
      BY <3>1, <3>2
  <2>4. ToSet(e.taken) = taken(m - 1)
    BY <1>2
  <2> HIDE DEF e, g, k, takes, taken
  <2>5. /\ g \in Contexts /\ g.used <= MaxTokens
        /\ takes(m) => g.used = e.used + k /\ ToSet(g.taken) = ToSet(e.taken) \cup {m}
        /\ ~takes(m) => g = e
    <3>1. IsExtension(g, e, k, near, m)
      BY <2>1, <2>2, ExtendedHas
    <3> QED
      BY <2>2, <3>1 DEF IsExtension
  <2>6. ToSet(g.taken) = taken(m) /\ g.used = e.used + (IF takes(m) THEN k ELSE 0)
    BY <2>1, <2>3, <2>4, <2>5
  <2> QED
    BY <2>5, <2>6 DEF e, g, k
<1>3. ASSUME NEW n \in 0..N - 1, n \in S PROVE n + 1 \in S
  <2> HIDE DEF Ok
  <2>1. n + 1 \in 1..N /\ n + 1 \in 0..N /\ (n + 1) - 1 = n /\ Ok(n)
    BY <1>3
  <2>2. Ok(n + 1)
    BY <1>2, <2>1
  <2> QED
    BY <2>1, <2>2
<1>4. \A n \in 0..N : Ok(n)
  <2>1. \A n \in 0..N : n \in S
    <3> HIDE DEF S
    <3> QED
      BY <1>1, <1>3, InductUpTo
  <2> HIDE DEF Ok
  <2> QED
    BY <2>1
<1>5. ASSUME NEW n \in 0..N, n > 0
      PROVE  f[n].used = f[n - 1].used + (IF n \in taken(N) THEN t[n] ELSE 0)
  <2>1. n \in 1..N /\ n - 1 \in 0..N /\ (n \in taken(N) <=> takes(n))
    BY <1>5 DEF TakenAt
  <2> HIDE DEF Ok, taken, takes
  <2> QED
    BY <1>2, <1>4, <2>1
<1>6. \A n \in 0..N : /\ f[n] \in Contexts /\ f[n].used <= MaxTokens
                     /\ ToSet(f[n].taken) = TakenAt(f, t, near, n)
  BY <1>4, Zenon
<1>7. \A n \in 0..N : n > 0 => f[n].used = f[n - 1].used +
                                  (IF n \in TakenAt(f, t, near, N) THEN t[n] ELSE 0)
  BY <1>5
<1> QED
  BY <1>6, <1>7, Zenon DEF AreTakings

\* A context is of one version, within its tokens, and has the hit if it can.
LEMMA ContextHas ==
  ASSUME NEW list \in Inputs, NEW place \in DOMAIN list,
         NEW x, x.from = list, x.hit = place, x.context = Expanded(list, place)
  PROVE  ContextHasHit(x)
<1> DEFINE N == Len(list)
           near == Around(list, place)
           D == {d \in Contexts : d.used <= MaxTokens}
           step == [n \in Nat |-> [d \in D |->
                      IF n \in 1..N THEN Extended(d, list[n].tokens, near, n) ELSE d]]
<1>1. N \in Nat /\ DOMAIN list = 1..N /\ \A i \in 1..N : list[i].tokens \in Nat
  <2>1. list \in Seq(ToSet(list)) /\ \A i \in DOMAIN list : list[i].tokens \in Nat
    BY AdvancedAssumption
  <2> QED
    BY <2>1
<1>2. Blank0 \in D /\ Blank0.used = 0 /\ ToSet(Blank0.taken) = {} /\ MaxTokens \in Nat
  <2>1. <<>> \in Seq(Nat) /\ ToSet(<<>>) = {}
    BY EmptySeq DEF ToSet
  <2> QED
    BY <2>1, AdvancedAssumption DEF Blank0, Contexts
<1>3. /\ near \in SUBSET (1..N) /\ place \in near
      /\ \A i \in near : Scope(list[i]) = Scope(list[place])
  BY <1>1 DEF Around
<1> HIDE DEF N, near
<1>4. \A n \in Nat : \A d \in D :
         (IF n \in 1..N THEN Extended(d, list[n].tokens, near, n) ELSE d) \in D
  <2> TAKE n \in Nat
  <2> TAKE d \in D
  <2>1. ASSUME n \in 1..N PROVE Extended(d, list[n].tokens, near, n) \in D
    <3> DEFINE k == list[n].tokens
    <3>1. k \in Nat /\ d \in Contexts /\ d.used <= MaxTokens
      BY <1>1, <2>1
    <3> HIDE DEF k
    <3>2. IsExtension(Extended(d, k, near, n), d, k, near, n)
      BY <3>1, ExtendedHas
    <3> QED
      BY <3>2 DEF IsExtension, k
  <2> HIDE DEF D
  <2> QED
    BY <2>1
<1>5. step \in [Nat -> [D -> D]] /\ \A n \in 1..N, d \in D : step[n][d] = Extended(d, list[n].tokens, near, n)
  <2> HIDE DEF D
  <2> QED
    BY <1>1, <1>4
<1> HIDE DEF step, D
<1>6. PICK h \in [0..N -> D] : Follow(h, Blank0, step, N)
  BY <1>1, <1>2, <1>5, Recursion
<1>7. IsExpansion(h, list, near)
  <2>1. ASSUME NEW n \in 0..N
        PROVE  h[n] = IF n = 0 THEN Blank0 ELSE Extended(h[n - 1], list[n].tokens, near, n)
    <3>1. CASE n = 0
      BY <1>6, <3>1 DEF Follow
    <3>2. CASE n # 0
      <4>1. n \in 1..N /\ n - 1 \in 0..N
        BY <1>1, <3>2
      <4>2. h[n - 1] \in D /\ h[n] = step[n][h[n - 1]]
        BY <1>6, <4>1 DEF Follow
      <4> QED
        BY <1>5, <3>2, <4>1, <4>2
    <3> QED
      BY <3>1, <3>2
  <2>2. h = [n \in 0..N |-> h[n]]
    BY <1>6
  <2>3. h = [n \in 0..N |-> IF n = 0 THEN Blank0 ELSE Extended(h[n - 1], list[n].tokens, near, n)]
    BY <2>1, <2>2, Zenon
  <2> QED
    BY <2>3, Zenon DEF IsExpansion, N
<1> DEFINE f == CHOOSE f : IsExpansion(f, list, near)
<1>8. IsExpansion(f, list, near)
  <2>1. \E k : IsExpansion(k, list, near)
    BY <1>7, Zenon
  <2> QED
    BY <2>1, Zenon
<1>9. Expanded(list, place) = f[N]
  BY Zenon DEF Expanded, IsExpansion, Extended, Blank0, near, N
<1> HIDE DEF f
<1>10. \A n \in 0..N : f[n] = IF n = 0 THEN Blank0 ELSE Extended(f[n - 1], list[n].tokens, near, n)
  BY <1>8 DEF IsExpansion, N
<1> DEFINE t == [i \in 1..N |-> list[i].tokens]
           T == TakenAt(f, t, near, N)
<1>11. t \in [1..N -> Nat] /\ \A i \in 1..N : t[i] = list[i].tokens
  BY <1>1
<1> HIDE DEF t
<1>12. f[0] = Blank0 /\ \A n \in 1..N : f[n] = Extended(f[n - 1], t[n], near, n)
  <2>1. 0 \in 0..N /\ \A n \in 1..N : n \in 0..N /\ n # 0
    BY <1>1
  <2> QED
    BY <1>10, <1>11, <2>1
<1>13. \A n \in 0..N :
          /\ f[n] \in Contexts /\ f[n].used <= MaxTokens
          /\ ToSet(f[n].taken) = TakenAt(f, t, near, n)
          /\ n > 0 => f[n].used = f[n - 1].used + (IF n \in T THEN t[n] ELSE 0)
  <2>1. AreTakings(f, t, near, N)
    BY <1>1, <1>11, <1>12, TakenUpTo
  <2> QED
    BY <2>1 DEF AreTakings
<1>14. \A n \in 0..N : f[n].used \in Nat /\ f[n].used <= MaxTokens
  BY <1>13 DEF Contexts
<1>15. \A n \in 1..N : f[n].used = f[n - 1].used + (IF n \in T THEN list[n].tokens ELSE 0)
  <2> HIDE DEF T
  <2>1. \A n \in 1..N : n \in 0..N /\ n > 0
    BY <1>1
  <2> QED
    BY <1>11, <1>13, <2>1
<1> DEFINE sums == [n \in 0..N |-> f[n].used]
           B == {i \in T : i < place}
           before == [n \in 0..N |-> IF n < place THEN f[n].used ELSE f[place - 1].used]
<1>16. TokensOf(list, T) = f[N].used
  <2>1. /\ sums \in [0..N -> Nat] /\ sums[0] = 0 /\ sums[N] = f[N].used
        /\ \A i \in 1..N : sums[i] = sums[i - 1] + (IF i \in T THEN list[i].tokens ELSE 0)
    <3> HIDE DEF T
    <3>1. sums \in [0..N -> Nat]
      BY <1>14
    <3>2. \A n \in 0..N : sums[n] = f[n].used
      OBVIOUS
    <3>3. f[0].used = 0 /\ 0 \in 0..N /\ N \in 0..N /\ \A i \in 1..N : i \in 0..N /\ i - 1 \in 0..N
      BY <1>1, <1>2, <1>10
    <3> HIDE DEF sums
    <3> QED
      BY <1>15, <3>1, <3>2, <3>3
  <2> HIDE DEF sums, T
  <2> QED
    BY <1>1, <2>1, TokensAre DEF N
<1>17. TokensOf(list, B) = f[place - 1].used
  <2>0. place \in 1..N /\ place - 1 \in 0..N
    BY <1>1
  <2>1. /\ before \in [0..N -> Nat] /\ before[0] = 0 /\ before[N] = f[place - 1].used
        /\ \A i \in 1..N : before[i] = before[i - 1] + (IF i \in B THEN list[i].tokens ELSE 0)
    <3>1. before \in [0..N -> Nat]
      BY <1>14, <2>0
    <3>2. \A n \in 0..N : before[n] = IF n < place THEN f[n].used ELSE f[place - 1].used
      OBVIOUS
    <3>3. f[0].used = 0 /\ 0 \in 0..N /\ N \in 0..N /\ 0 < place /\ ~(N < place)
      BY <1>1, <1>2, <1>10, <2>0
    <3> HIDE DEF before
    <3>4. ASSUME NEW i \in 1..N
          PROVE  before[i] = before[i - 1] + (IF i \in B THEN list[i].tokens ELSE 0)
      <4>1. i \in 0..N /\ i - 1 \in 0..N /\ (i \in B <=> i \in T /\ i < place)
        BY <1>1
      <4>2. f[i].used = f[i - 1].used + (IF i \in T THEN list[i].tokens ELSE 0)
        BY <1>15
      <4> HIDE DEF B, T
      <4>3. CASE i < place
        BY <1>1, <2>0, <3>2, <4>1, <4>2, <4>3
      <4>4. CASE i = place
        BY <1>1, <1>14, <2>0, <3>2, <4>1, <4>4
      <4>5. CASE place < i
        BY <1>1, <1>14, <2>0, <3>2, <4>1, <4>5
      <4> QED
        BY <2>0, <4>3, <4>4, <4>5
    <3> QED
      BY <3>1, <3>2, <3>3, <3>4
  <2> HIDE DEF before, B, T
  <2>2. /\ Len(list) \in Nat /\ before \in [0..Len(list) -> Nat] /\ before[0] = 0
        /\ \A i \in 1..Len(list) : list[i].tokens \in Nat
        /\ \A i \in 1..Len(list) :
              before[i] = before[i - 1] + (IF i \in B THEN list[i].tokens ELSE 0)
    BY <1>1, <2>1 DEF N
  <2>3. TokensOf(list, B) = before[Len(list)]
    BY <2>2, TokensAre
  <2> QED
    BY <2>1, <2>3 DEF N
<1>18. place \in T \/ f[place - 1].used + list[place].tokens > MaxTokens
  <2>1. place \in 1..N /\ place - 1 \in 0..N
    BY <1>1
  <2>2. place \in T <=> Fits(f[place - 1], t[place], near, place)
    BY <2>1 DEF TakenAt
  <2>3. t[place] \in Nat /\ f[place - 1].used \in Nat /\ t[place] = list[place].tokens
    BY <1>11, <1>14, <2>1
  <2> HIDE DEF T
  <2>4. ~Fits(f[place - 1], t[place], near, place) => f[place - 1].used + t[place] > MaxTokens
    BY <1>2, <1>3, <2>3 DEF Fits
  <2> QED
    BY <2>2, <2>3, <2>4
<1>19. ToSet(f[N].taken) = T /\ N \in 0..N /\ T \subseteq near /\ T \subseteq 1..N
  BY <1>1, <1>13 DEF TakenAt, Fits
<1>20. x.context.taken = f[N].taken
  BY <1>9
<1> HIDE DEF T
<1>21. ToSet(x.context.taken) = T /\ x.from = list /\ x.hit = place
  BY <1>19, <1>20
<1>22. /\ \A i \in T : Scope(list[i]) = Scope(list[place])
       /\ TokensOf(list, T) <= MaxTokens
       /\ place \in T \/ TokensOf(list, B) + list[place].tokens > MaxTokens
  BY <1>3, <1>14, <1>16, <1>17, <1>18, <1>19
<1> DEFINE took == ToSet(x.context.taken)
<1>23. /\ \A i \in took : Scope(x.from[i]) = Scope(x.from[x.hit])
       /\ TokensOf(x.from, took) <= MaxTokens
       /\ \/ x.hit \in took
          \/ TokensOf(x.from, {i \in took : i < x.hit}) + x.from[x.hit].tokens > MaxTokens
  BY <1>21, <1>22, Zenon
<1> QED
  BY <1>23, Zenon DEF ContextHasHit

-----------------------------------------------------------------------------
(* A level of a tree and the one above it.                                   *)

(* The tree over the chunks.                                                 *)

Leaves == Seq(Nat)

\* The leaves after one and up to another.
Run(a, b) == [i \in 1..(b - a) |-> a + i]

\* Two runs that follow each other are one.
LEMMA RunsJoin ==
  ASSUME NEW a \in Nat, NEW b \in Nat, NEW c \in Nat, a <= b, b <= c
  PROVE  /\ Run(a, b) \in Leaves /\ Run(a, b) \o Run(b, c) = Run(a, c)
         /\ Run(a, b) \o <<>> = Run(a, b)
<1> DEFINE s == Run(a, b)
           t == Run(b, c)
           r == Run(a, c)
<1>1. /\ s \in Seq(Nat) /\ Len(s) = b - a /\ \A i \in 1..(b - a) : s[i] = a + i
      /\ t \in Seq(Nat) /\ Len(t) = c - b /\ \A i \in 1..(c - b) : t[i] = b + i
      /\ r \in Seq(Nat) /\ Len(r) = c - a /\ \A i \in 1..(c - a) : r[i] = a + i
  <2>1. b - a \in Nat /\ c - b \in Nat /\ c - a \in Nat
    OBVIOUS
  <2>2. s \in [1..(b - a) -> Nat] /\ t \in [1..(c - b) -> Nat] /\ r \in [1..(c - a) -> Nat]
    BY DEF Run
  <2> QED
    BY <2>1, <2>2 DEF Run
<1> HIDE DEF s, t, r
<1> DEFINE X == Nat
           p == s \o t
<1>2. /\ p \in Seq(X) /\ Len(p) = c - a /\ \A i \in 1..(c - a) : p[i] = a + i
  <2>1. s \in Seq(X) /\ t \in Seq(X)
    BY <1>1
  <2> HIDE DEF X
  <2>2. /\ p \in Seq(X) /\ Len(p) = Len(s) + Len(t)
        /\ \A i \in 1..Len(s) + Len(t) : p[i] = IF i <= Len(s) THEN s[i] ELSE t[i - Len(s)]
    BY <2>1, ConcatProperties
  <2> HIDE DEF p
  <2>3. ASSUME NEW i \in 1..(c - a) PROVE p[i] = a + i
    <3>1. p[i] = IF i <= b - a THEN s[i] ELSE t[i - (b - a)]
      BY <1>1, <2>2
    <3>2. i > b - a => i - (b - a) \in 1..(c - b)
      OBVIOUS
    <3>3. i <= b - a => i \in 1..(b - a)
      OBVIOUS
    <3> QED
      BY <1>1, <3>1, <3>2, <3>3
  <2> QED
    BY <1>1, <2>2, <2>3
<1>5. p = r
  <2>1. r \in Seq(X) /\ Len(p) = Len(r) /\ \A i \in 1..Len(p) : p[i] = r[i]
    BY <1>1, <1>2
  <2> HIDE DEF p, X
  <2> QED
    BY <1>2, <2>1, SeqEqual
<1>6. s \o <<>> = s
  <2>1. s \in Seq(X)
    BY <1>1
  <2> HIDE DEF X
  <2> QED
    BY <2>1, ConcatEmptySeq
<1> QED
  BY <1>1, <1>5, <1>6 DEF s, t, r, Leaves

\* A flat sequence is what putting one after the other comes to.
LEMMA FlatIs ==
  ASSUME NEW seqs, Len(seqs) \in Nat \ {0}, NEW g,
         \A i \in 1..Len(seqs) : g[i] = IF i = 1 THEN seqs[i] ELSE g[i - 1] \o seqs[i]
  PROVE  FlattenSeq(seqs) = g[Len(seqs)]
<1> DEFINE N == Len(seqs)
           h == [i \in 1..N |-> g[i]]
           f == CHOOSE f : IsFlattening(f, seqs)
<1>1. IsFlattening(h, seqs)
  <2>1. ASSUME NEW i \in 1..N PROVE h[i] = IF i = 1 THEN seqs[i] ELSE h[i - 1] \o seqs[i]
    <3>1. i = 1 \/ i - 1 \in 1..N
      OBVIOUS
    <3> QED
      BY <3>1
  <2>2. h = [i \in 1..N |-> h[i]]
    OBVIOUS
  <2> HIDE DEF h
  <2> QED
    BY <2>1, <2>2, Zenon DEF IsFlattening
<1>2. IsFlattening(f, seqs)
  <2>1. \E k : IsFlattening(k, seqs)
    <3> HIDE DEF h
    <3> QED
      BY <1>1
  <2> QED
    BY <2>1, Zenon
<1>3. FlattenSeq(seqs) = f[N]
  <2>1. Len(seqs) # 0
    OBVIOUS
  <2> QED
    BY <2>1, Zenon DEF FlattenSeq, IsFlattening
<1> HIDE DEF f
<1>4. \A i \in 1..N : f[i] = IF i = 1 THEN seqs[i] ELSE f[i - 1] \o seqs[i]
  BY <1>2 DEF IsFlattening
<1> DEFINE S == {n \in 0..N - 1 : f[n + 1] = g[n + 1]}
<1>5. 0 \in S
  <2>1. 0 + 1 = 1 /\ 1 \in 1..N /\ 0 \in 0..N - 1
    OBVIOUS
  <2>2. f[1] = g[1]
    BY <1>4, <2>1
  <2> QED
    BY <2>1, <2>2
<1>6. ASSUME NEW n \in 0..(N - 1) - 1, n \in S PROVE n + 1 \in S
  <2> DEFINE m == (n + 1) + 1
  <2>1. m \in 1..N /\ m # 1 /\ m - 1 = n + 1 /\ n + 1 \in 0..N - 1
    OBVIOUS
  <2>2. f[n + 1] = g[n + 1]
    BY <1>6
  <2> HIDE DEF m
  <2>3. f[m] = f[n + 1] \o seqs[m] /\ g[m] = g[n + 1] \o seqs[m]
    BY <1>4, <2>1
  <2>4. f[m] = g[m]
    BY <2>2, <2>3
  <2> QED
    BY <2>1, <2>4 DEF m
<1>7. \A n \in 0..N - 1 : n \in S
  <2>1. N - 1 \in Nat
    OBVIOUS
  <2> HIDE DEF S, N
  <2> QED
    BY <1>5, <1>6, <2>1, InductUpTo
<1>8. N - 1 \in 0..N - 1 /\ (N - 1) + 1 = N
  OBVIOUS
<1>9. f[(N - 1) + 1] = g[(N - 1) + 1]
  BY <1>7, <1>8
<1> QED
  BY <1>3, <1>8, <1>9

Nodes == [leaves : Leaves]

\* Where one node of a level ends the next begins.
EndsAt(level, b, N) ==
    /\ b \in [0..Len(level) -> 0..N] /\ b[0] = 0 /\ b[Len(level)] = N
    /\ \A n \in 1..Len(level) : b[n - 1] <= b[n] /\ level[n].leaves = Run(b[n - 1], b[n])
Levels(N) == {level \in Seq(Nodes) : level # <<>> /\ \E b : EndsAt(level, b, N)}

\* The nodes of a level hold every leaf once, in order.
LEMMA LevelHolds ==
  ASSUME NEW N \in Nat, NEW level \in Levels(N)
  PROVE  FlattenSeq([n \in DOMAIN level |-> level[n].leaves]) = Run(0, N)
<1> DEFINE M == Len(level)
           seqs == [n \in DOMAIN level |-> level[n].leaves]
<1>1. PICK b : EndsAt(level, b, N)
  BY DEF Levels
<1>2. M \in Nat \ {0} /\ DOMAIN level = 1..M
  BY EmptySeq DEF Levels
<1>3. Len(seqs) = M /\ \A n \in 1..M : seqs[n] = level[n].leaves
  BY <1>2
<1> DEFINE g == [i \in 1..M |-> Run(0, b[i])]
<1>4. ASSUME NEW i \in 1..M PROVE g[i] = IF i = 1 THEN seqs[i] ELSE g[i - 1] \o seqs[i]
  <2>1. seqs[i] = Run(b[i - 1], b[i])
    BY <1>1, <1>2, <1>3 DEF EndsAt
  <2>2. b[0] = 0 /\ i \in 0..M /\ i - 1 \in 0..M
    BY <1>1, <1>2 DEF EndsAt
  <2>3. b[i] \in Nat /\ b[i - 1] \in Nat /\ b[i - 1] <= b[i]
    BY <1>1, <2>2 DEF EndsAt
  <2>4. CASE i = 1
    BY <2>1, <2>2, <2>4
  <2>5. CASE i # 1
    <3>1. i - 1 \in 1..M
      BY <1>2, <2>5
    <3>2. g[i - 1] = Run(0, b[i - 1])
      BY <3>1
    <3>3. Run(0, b[i - 1]) \o Run(b[i - 1], b[i]) = Run(0, b[i])
      <4> DEFINE x == b[i - 1]
                 y == b[i]
      <4>1. x \in Nat /\ y \in Nat /\ 0 <= x /\ x <= y /\ 0 \in Nat
        BY <2>3
      <4> HIDE DEF x, y
      <4>2. Run(0, x) \o Run(x, y) = Run(0, y)
        BY <4>1, RunsJoin
      <4> QED
        BY <4>2 DEF x, y
    <3> QED
      BY <2>1, <2>5, <3>2, <3>3
  <2> QED
    BY <2>4, <2>5
<1>5. g[M] = Run(0, N)
  BY <1>1, <1>2 DEF EndsAt
<1> HIDE DEF g, seqs
<1>6. FlattenSeq(seqs) = g[M]
  <2>1. Len(seqs) \in Nat \ {0}
    BY <1>2, <1>3
  <2>2. \A i \in 1..Len(seqs) : g[i] = IF i = 1 THEN seqs[i] ELSE g[i - 1] \o seqs[i]
    BY <1>3, <1>4
  <2> QED
    BY <1>3, <2>1, <2>2, FlatIs
<1> QED
  BY <1>5, <1>6 DEF seqs

\* The level above holds what the level holds, in fewer nodes.
LEMMA ParentsHold ==
  ASSUME NEW N \in Nat, NEW level \in Levels(N)
  PROVE  /\ Parents(level) \in Levels(N)
         /\ Len(level) # 1 => Len(Parents(level)) < Len(level)
<1> DEFINE M == Len(level)
           K == (M + 1) \div 2
           up == Parents(level)
<1>1. PICK b : EndsAt(level, b, N)
  BY DEF Levels
<1>2. M \in Nat \ {0} /\ DOMAIN level = 1..M
  BY EmptySeq DEF Levels
<1>3. /\ K \in Nat \ {0} /\ M <= 2 * K /\ 2 * K <= M + 1 /\ (M # 1 => K < M)
  BY <1>2
<1> HIDE DEF K
<1> DEFINE c == [n \in 0..K |-> IF 2 * n <= M THEN b[2 * n] ELSE N]
<1>4. ASSUME NEW n \in 0..M PROVE b[n] \in 0..N /\ b[n] \in Nat /\ b[n] <= N
  BY <1>1, <1>2 DEF EndsAt
<1>5. \A n \in 1..M : b[n - 1] <= b[n] /\ level[n].leaves = Run(b[n - 1], b[n])
  BY <1>1, <1>2 DEF EndsAt
<1>6. b[0] = 0 /\ b[M] = N
  BY <1>1 DEF EndsAt
<1>7. /\ c \in [0..K -> 0..N] /\ c[0] = 0 /\ c[K] = N
  <2>1. \A n \in 0..K : 2 * n <= M => 2 * n \in 0..M
    BY <1>2, <1>3
  <2>2. c \in [0..K -> 0..N]
    BY <1>4, <2>1
  <2>3. 0 \in 0..K /\ K \in 0..K /\ 2 * 0 = 0 /\ 0 <= M
    BY <1>2, <1>3
  <2>4. 2 * K <= M => 2 * K = M
    <3> DEFINE k == 2 * K
    <3>1. k \in Nat /\ M \in Nat /\ M <= k
      BY <1>2, <1>3
    <3> HIDE DEF M, k
    <3>2. k <= M => k = M
      BY <3>1
    <3> QED
      BY <3>2 DEF k
  <2> QED
    BY <1>6, <2>2, <2>3, <2>4
<1> DEFINE both(i) == level[2 * i - 1].leaves \o
                        (IF 2 * i \in DOMAIN level THEN level[2 * i].leaves ELSE <<>>)
<1>8. up = [i \in 1..K |-> [leaves |-> both(i)]]
  BY DEF Parents, K
<1> HIDE DEF up
<1>9. ASSUME NEW i \in 1..K
      PROVE  c[i - 1] <= c[i] /\ both(i) = Run(c[i - 1], c[i]) /\ both(i) \in Leaves
  <2>1. /\ 2 * i - 1 \in 1..M /\ 2 * (i - 1) = (2 * i - 1) - 1 /\ 2 * (i - 1) <= M
        /\ i - 1 \in 0..K /\ i \in 0..K /\ 2 * (i - 1) \in 0..M /\ 2 * i - 1 \in 0..M
    BY <1>2, <1>3
  <2> DEFINE p == 2 * i - 1
             x == b[p - 1]
             y == b[p]
  <2>2. c[i - 1] = x
    BY <2>1
  <2>3. x \in Nat /\ y \in Nat /\ x <= y /\ y <= N /\ level[p].leaves = Run(x, y)
    BY <1>4, <1>5, <2>1
  <2>4. CASE 2 * i <= M
    <3> DEFINE q == 2 * i
               z == b[q]
    <3>1. q \in 1..M /\ q \in 0..M /\ q - 1 = p
      BY <1>2, <2>1, <2>4
    <3>2. c[i] = z /\ z \in Nat /\ y <= z /\ level[q].leaves = Run(y, z)
      BY <1>4, <1>5, <2>1, <2>4, <3>1
    <3>3. both(i) = Run(x, y) \o Run(y, z)
      BY <1>2, <2>3, <3>1, <3>2
    <3>4. x \in Nat /\ y \in Nat /\ z \in Nat /\ x <= y /\ y <= z
      BY <2>3, <3>2
    <3> HIDE DEF x, y, z, both
    <3>5. Run(x, y) \o Run(y, z) = Run(x, z)
      BY <3>4, RunsJoin
    <3>6. Run(x, z) \in Leaves /\ x <= z
      <4>1. x <= z /\ z <= z
        BY <3>4
      <4> QED
        BY <3>4, <4>1, RunsJoin
    <3> QED
      BY <2>2, <3>2, <3>3, <3>5, <3>6
  <2>5. CASE ~ (2 * i <= M)
    <3>1. p = M /\ 2 * i \notin DOMAIN level
      BY <1>2, <1>3, <2>1, <2>5
    <3>2. y = N /\ c[i] = N
      BY <1>6, <2>1, <2>5, <3>1
    <3>3. both(i) = Run(x, y) \o <<>>
      BY <2>3, <3>1
    <3> HIDE DEF x, y, both
    <3>4. Run(x, y) \o <<>> = Run(x, y) /\ Run(x, y) \in Leaves
      BY <2>3, RunsJoin
    <3> QED
      BY <2>2, <2>3, <3>2, <3>3, <3>4
  <2> QED
    BY <2>4, <2>5
<1> HIDE DEF both, c
<1>10. /\ up \in Seq(Nodes) /\ Len(up) = K /\ \A i \in 1..K : up[i].leaves = both(i)
  <2>1. \A i \in 1..K : [leaves |-> both(i)] \in Nodes
    BY <1>9 DEF Nodes
  <2>2. up \in [1..K -> Nodes]
    BY <1>8, <2>1
  <2>3. Len(up) = K /\ \A i \in 1..K : up[i].leaves = both(i)
    BY <1>3, <1>8
  <2> QED
    BY <1>3, <2>2, <2>3
<1>11. EndsAt(up, c, N)
  BY <1>7, <1>9, <1>10 DEF EndsAt
<1>12. up # <<>>
  BY <1>3, <1>10
<1>13. \E d : EndsAt(up, d, N)
  BY <1>11
<1> QED
  BY <1>3, <1>10, <1>12, <1>13 DEF Levels, up

-----------------------------------------------------------------------------
(* The levels of a tree.                                                     *)

Trees(N) == {levels \in Seq(Levels(N)) :
                levels # <<>> /\ \A l \in 1..Len(levels) - 1 : Len(levels[l + 1]) < Len(levels[l])}
Grown(levels) == IF Len(Last(levels)) = 1 THEN levels ELSE Append(levels, Parents(Last(levels)))

\* A tree with another level on top is a tree.
LEMMA GrownIs ==
  ASSUME NEW N \in Nat, NEW levels \in Trees(N)
  PROVE  /\ Grown(levels) \in Trees(N)
         /\ \/ Len(Last(levels)) = 1 /\ Grown(levels) = levels
            \/ Len(Grown(levels)) = Len(levels) + 1
<1> DEFINE X == Levels(N)
           K == Len(levels)
           top == levels[K]
           up == Parents(top)
<1>1. levels \in Seq(X) /\ levels # <<>> /\ \A l \in 1..K - 1 : Len(levels[l + 1]) < Len(levels[l])
  BY DEF Trees
<1>2. K \in Nat \ {0} /\ top \in X /\ Last(levels) = top
  <2> HIDE DEF X
  <2> QED
    BY <1>1, EmptySeq DEF Last
<1>3. CASE Len(top) = 1
  BY <1>2, <1>3 DEF Grown
<1>4. CASE Len(top) # 1
  <2> DEFINE more == Append(levels, up)
  <2>1. up \in X /\ Len(up) < Len(top)
    BY <1>2, <1>4, ParentsHold
  <2>2. Grown(levels) = more
    BY <1>2, <1>4 DEF Grown
  <2> HIDE DEF X, up
  <2>3. /\ more \in Seq(X) /\ Len(more) = K + 1 /\ more[K + 1] = up
        /\ \A l \in 1..K : more[l] = levels[l]
    BY <1>1, <1>2, <2>1, AppendProperties
  <2> HIDE DEF more
  <2>4. ASSUME NEW l \in 1..K PROVE Len(more[l + 1]) < Len(more[l])
    <3>1. CASE l = K
      BY <1>2, <2>1, <2>3, <3>1
    <3>2. CASE l # K
      <4>1. l \in 1..K - 1 /\ l + 1 \in 1..K
        BY <1>2, <3>2
      <4> QED
        BY <1>1, <2>3, <4>1
    <3> QED
      BY <3>1, <3>2
  <2>5. more # <<>> /\ 1..Len(more) - 1 = 1..K
    BY <1>2, <2>3
  <2>6. more \in Trees(N)
    BY <2>3, <2>4, <2>5 DEF Trees, X
  <2> QED
    BY <2>2, <2>3, <2>6
<1> QED
  BY <1>3, <1>4

Ground(list) == << [i \in DOMAIN list |-> [leaves |-> <<i>>]] >>

\* On the ground every leaf is a node.
LEMMA GroundIs ==
  ASSUME NEW list \in Inputs, list # <<>>
  PROVE  Len(list) \in Nat /\ DOMAIN list = 1..Len(list) /\ Ground(list) \in Trees(Len(list))
<1> DEFINE N == Len(list)
           level == [i \in DOMAIN list |-> [leaves |-> <<i>>]]
           b == [i \in 0..N |-> i]
<1>1. N \in Nat \ {0} /\ DOMAIN list = 1..N
  <2> DEFINE X == ToSet(list)
  <2>1. list \in Seq(X)
    BY AdvancedAssumption
  <2> HIDE DEF X
  <2> QED
    BY <2>1, EmptySeq
<1> HIDE DEF N
<1>2. ASSUME NEW i \in 1..N PROVE <<i>> = Run(i - 1, i) /\ <<i>> \in Leaves
  <2>1. i - (i - 1) = 1 /\ (i - 1) + 1 = i /\ 1..1 = {1} /\ i \in Nat
    BY <1>1
  <2>2. Run(i - 1, i) = [j \in 1..1 |-> (i - 1) + j]
    BY <2>1 DEF Run
  <2>3. <<i>> = [j \in 1..1 |-> i]
    BY <2>1
  <2>4. \A j \in 1..1 : (i - 1) + j = i
    BY <2>1
  <2>5. <<i>> \in Leaves
    BY <2>1 DEF Leaves
  <2> QED
    BY <2>2, <2>3, <2>4, <2>5
<1>3. level = [i \in 1..N |-> [leaves |-> <<i>>]]
  BY <1>1
<1>4. \A i \in 1..N : [leaves |-> <<i>>] \in Nodes
  BY <1>2 DEF Nodes
<1>5. level \in [1..N -> Nodes]
  BY <1>3, <1>4
<1>6. level \in Seq(Nodes) /\ Len(level) = N /\ \A i \in 1..N : level[i].leaves = <<i>>
  BY <1>1, <1>3, <1>5
<1> HIDE DEF level
<1>7. b \in [0..N -> 0..N] /\ b[0] = 0 /\ b[N] = N /\ \A i \in 1..N : b[i] = i /\ b[i - 1] = i - 1
  BY <1>1
<1> HIDE DEF b
<1>8. EndsAt(level, b, N)
  <2>1. ASSUME NEW n \in 1..N PROVE b[n - 1] <= b[n] /\ level[n].leaves = Run(b[n - 1], b[n])
    <3>1. b[n] = n /\ b[n - 1] = n - 1 /\ n - 1 <= n
      BY <1>1, <1>7
    <3>2. level[n].leaves = Run(n - 1, n)
      BY <1>2, <1>6
    <3> QED
      BY <3>1, <3>2
  <2> QED
    BY <1>1, <1>6, <1>7, <2>1 DEF EndsAt
<1>9. level # <<>>
  BY <1>1, <1>6
<1>10. level \in Levels(N)
  BY <1>6, <1>8, <1>9 DEF Levels
<1> DEFINE X == Levels(N)
<1>11. <<level>> \in Trees(N)
  <2>1. level \in X
    BY <1>10
  <2> HIDE DEF X
  <2>2. <<level>> \in Seq(X) /\ <<level>> # <<>> /\ Len(<<level>>) = 1
    BY <2>1
  <2>3. 1..1 - 1 = {}
    OBVIOUS
  <2> QED
    BY <2>2, <2>3 DEF Trees, X
<1> QED
  BY <1>1, <1>11 DEF Ground, level, N

IsTree(f, list) ==
    f = [l \in 0..(MaxLevels - 1) |-> IF l = 0 THEN Ground(list) ELSE Grown(f[l - 1])]

\* A tree keeps its leaves from the ground to the top.
LEMMA TreeKeeps ==
  ASSUME NEW list \in Inputs, list # <<>>, NEW x, x.from = list, x.levels = Tree(list)
  PROVE  TreeKeepsLeaves(x)
<1> DEFINE N == Len(list)
           D == Trees(N)
           M == MaxLevels - 1
           step == [n \in Nat |-> [d \in D |-> Grown(d)]]
<1>1. N \in Nat /\ DOMAIN list = 1..N /\ Ground(list) \in D /\ M \in Nat
  BY GroundIs, AdvancedAssumption
<1> HIDE DEF N, M
<1>2. \A d \in D : Grown(d) \in D
  BY <1>1, GrownIs
<1> HIDE DEF D
<1>3. step \in [Nat -> [D -> D]] /\ \A n \in 1..M, d \in D : step[n][d] = Grown(d)
  BY <1>1, <1>2
<1> HIDE DEF step
<1>4. PICK h \in [0..M -> D] : Follow(h, Ground(list), step, M)
  BY <1>1, <1>3, Recursion
<1>5. IsTree(h, list)
  <2>1. ASSUME NEW n \in 0..M
        PROVE  h[n] = IF n = 0 THEN Ground(list) ELSE Grown(h[n - 1])
    <3>1. CASE n = 0
      BY <1>4, <3>1 DEF Follow
    <3>2. CASE n # 0
      <4>1. n \in 1..M /\ n - 1 \in 0..M
        BY <1>1, <3>2
      <4>2. h[n - 1] \in D /\ h[n] = step[n][h[n - 1]]
        BY <1>4, <4>1 DEF Follow
      <4> QED
        BY <1>3, <3>2, <4>1, <4>2
    <3> QED
      BY <3>1, <3>2
  <2>2. h = [n \in 0..M |-> h[n]]
    BY <1>4
  <2>3. h = [n \in 0..M |-> IF n = 0 THEN Ground(list) ELSE Grown(h[n - 1])]
    BY <2>1, <2>2, Zenon
  <2> QED
    BY <2>3, Zenon DEF IsTree, M
<1> DEFINE f == CHOOSE f : IsTree(f, list)
<1>6. IsTree(f, list)
  <2>1. \E k : IsTree(k, list)
    BY <1>5, Zenon
  <2> QED
    BY <2>1, Zenon
<1>7. Tree(list) = f[M]
  BY Zenon DEF Tree, IsTree, Ground, Grown, M
<1> HIDE DEF f
<1>8. \A n \in 0..M : f[n] = IF n = 0 THEN Ground(list) ELSE Grown(f[n - 1])
  BY <1>6 DEF IsTree, M
<1> DEFINE Ok(n) == f[n] \in D /\ (Len(f[n]) = n + 1 \/ Len(Last(f[n])) = 1)
           S == {n \in 0..M : Ok(n)}
<1>9. 0 \in S
  <2>0. Len(Ground(list)) = 1
    BY DEF Ground
  <2>1. 0 \in 0..M /\ f[0] = Ground(list)
    BY <1>1, <1>8
  <2>2. f[0] \in D /\ Len(f[0]) = 0 + 1
    BY <1>1, <2>0, <2>1
  <2> QED
    BY <2>1, <2>2
<1>10. ASSUME NEW n \in 0..M - 1, n \in S PROVE n + 1 \in S
  <2>1. n + 1 \in 0..M /\ n + 1 # 0 /\ (n + 1) - 1 = n /\ n \in Nat
    BY <1>1
  <2> DEFINE e == f[n]
             g == f[n + 1]
  <2>2. e \in D /\ (Len(e) = n + 1 \/ Len(Last(e)) = 1) /\ g = Grown(e)
    BY <1>8, <1>10, <2>1
  <2> HIDE DEF e, g
  <2>3. g \in D /\ ((Len(Last(e)) = 1 /\ g = e) \/ Len(g) = Len(e) + 1)
    BY <1>1, <2>2, GrownIs DEF D
  <2>4. Len(Last(e)) = 1 => Len(Last(g)) = 1
    BY <2>2, <2>3 DEF Grown
  <2>5. Len(g) = (n + 1) + 1 \/ Len(Last(g)) = 1
    BY <2>1, <2>2, <2>3, <2>4
  <2> QED
    BY <2>1, <2>3, <2>5 DEF g
<1>11. Ok(M)
  <2>1. M \in 0..M
    BY <1>1
  <2>2. \A n \in 0..M : n \in S
    <3> HIDE DEF S
    <3> QED
      BY <1>1, <1>9, <1>10, InductUpTo
  <2> QED
    BY <2>1, <2>2
<1> DEFINE v == x.levels
           K == Len(v)
           X == Levels(N)
<1>12. v \in Trees(N) /\ (K = MaxLevels \/ Len(Last(v)) = 1)
  <2>1. M + 1 = MaxLevels
    BY AdvancedAssumption DEF M
  <2> QED
    BY <1>7, <1>11, <2>1 DEF D
<1>13. v \in Seq(X) /\ \A l \in 1..K - 1 : Len(v[l + 1]) < Len(v[l])
  BY <1>12 DEF Trees
<1>14. ASSUME NEW l \in DOMAIN v
       PROVE  FlattenSeq([n \in DOMAIN v[l] |-> v[l][n].leaves]) = [i \in DOMAIN list |-> i]
  <2>1. v[l] \in X
    <3> HIDE DEF X, v
    <3> QED
      BY <1>13
  <2> DEFINE level == v[l]
  <2> HIDE DEF level
  <2>2. FlattenSeq([n \in DOMAIN level |-> level[n].leaves]) = Run(0, N)
    BY <1>1, <2>1, LevelHolds DEF level
  <2>3. Run(0, N) = [i \in DOMAIN list |-> i]
    <3>1. N - 0 = N /\ \A i \in 1..N : 0 + i = i
      BY <1>1
    <3> QED
      BY <1>1, <3>1 DEF Run
  <2> QED
    BY <2>2, <2>3, Zenon DEF level
<1> HIDE DEF v
<1>15. /\ \A l \in DOMAIN v : FlattenSeq([n \in DOMAIN v[l] |-> v[l][n].leaves])
                               = [i \in DOMAIN x.from |-> i]
  BY <1>14, Zenon
<1> QED
  BY <1>12, <1>13, <1>15, Zenon DEF TreeKeepsLeaves, v

-----------------------------------------------------------------------------
(* Candidates that join those of the base retriever.                         *)

(* The candidates of the base and of the offers.                             *)

\* A list has the best of some candidates for each chunk, once.
HasBest(all, P) ==
    /\ \A i, j \in DOMAIN all : i # j => all[i].chunk # all[j].chunk
    /\ \A i \in DOMAIN all : all[i] \in P
    /\ \A d \in P : \E i \in DOMAIN all : all[i].chunk = d.chunk /\ d.score <= all[i].score

\* It still has when a candidate has joined.
LEMMA JoinHas ==
  ASSUME NEW X, \A c \in X : c.score \in Int, NEW all \in Seq(X), NEW c \in X
  PROVE  /\ Join(all, c) \in Seq(X)
         /\ \A P \in SUBSET X : HasBest(all, P) => HasBest(Join(all, c), P \cup {c})
<1> DEFINE N == Len(all)
           more == Join(all, c)
<1>1. N \in Nat /\ DOMAIN all = 1..N /\ \A i \in 1..N : all[i] \in X /\ all[i].score \in Int
  OBVIOUS
<1>2. c.score \in Int
  OBVIOUS
<1>3. CASE \E i \in DOMAIN all : all[i].chunk = c.chunk
  <2> DEFINE wins(i) == all[i].chunk = c.chunk /\ c.score > all[i].score
  <2>1. more = [i \in DOMAIN all |-> IF wins(i) THEN c ELSE all[i]]
    BY <1>3 DEF Join
  <2>2. \A i \in 1..N : (wins(i) => more[i] = c) /\ (~wins(i) => more[i] = all[i])
    BY <1>1, <2>1
  <2>3. DOMAIN more = 1..N /\ more \in Seq(X)
    <3>1. more = [i \in 1..N |-> IF wins(i) THEN c ELSE all[i]]
      BY <1>1, <2>1
    <3> HIDE DEF wins, more
    <3>2. more \in [1..N -> X]
      BY <1>1, <3>1
    <3> QED
      BY <1>1, <3>2
  <2>4. ASSUME NEW i \in 1..N
        PROVE  /\ more[i].chunk = all[i].chunk /\ all[i].score <= more[i].score
               /\ all[i].chunk = c.chunk => c.score <= more[i].score
               /\ more[i] \in {all[i], c}
    <3>1. CASE wins(i)
      BY <1>1, <1>2, <2>2, <3>1
    <3>2. CASE ~wins(i)
      BY <1>1, <1>2, <2>2, <3>2
    <3> QED
      BY <3>1, <3>2
  <2>5. \A i \in 1..N : more[i].score \in Int
    BY <1>1, <1>2, <2>4
  <2> HIDE DEF more
  <2>6. ASSUME NEW P \in SUBSET X, HasBest(all, P) PROVE HasBest(more, P \cup {c})
    <3>1. \A i, j \in 1..N : i # j => more[i].chunk # more[j].chunk
      BY <1>1, <2>4, <2>6 DEF HasBest
    <3>2. \A i \in 1..N : more[i] \in P \cup {c}
      BY <1>1, <2>4, <2>6 DEF HasBest
    <3>3. ASSUME NEW d \in P
          PROVE  \E i \in 1..N : more[i].chunk = d.chunk /\ d.score <= more[i].score
      <4>1. PICK i \in 1..N : all[i].chunk = d.chunk /\ d.score <= all[i].score
        BY <1>1, <2>6 DEF HasBest
      <4>2. d.score \in Int
        OBVIOUS
      <4>3. more[i].chunk = d.chunk /\ d.score <= more[i].score
        BY <1>1, <2>4, <2>5, <4>1, <4>2
      <4> QED
        BY <4>3
    <3>4. \E i \in 1..N : more[i].chunk = c.chunk /\ c.score <= more[i].score
      BY <1>1, <1>3, <2>4
    <3> QED
      BY <2>3, <3>1, <3>2, <3>3, <3>4 DEF HasBest
  <2> QED
    BY <2>3, <2>6 DEF more
<1>4. CASE ~ \E i \in DOMAIN all : all[i].chunk = c.chunk
  <2>1. more = Append(all, c)
    BY <1>4 DEF Join
  <2>2. /\ more \in Seq(X) /\ Len(more) = N + 1 /\ more[N + 1] = c
        /\ \A i \in 1..N : more[i] = all[i]
    BY <2>1, AppendProperties
  <2>3. DOMAIN more = 1..N + 1 /\ 1..N + 1 = (1..N) \cup {N + 1} /\ N + 1 \notin 1..N
    BY <1>1, <2>2
  <2> HIDE DEF more
  <2>4. ASSUME NEW P \in SUBSET X, HasBest(all, P) PROVE HasBest(more, P \cup {c})
    <3>1. \A i, j \in 1..N + 1 : i # j => more[i].chunk # more[j].chunk
      BY <1>1, <1>4, <2>2, <2>3, <2>4 DEF HasBest
    <3>2. \A i \in 1..N + 1 : more[i] \in P \cup {c}
      BY <1>1, <2>2, <2>3, <2>4 DEF HasBest
    <3>3. \A d \in P : \E i \in 1..N + 1 : more[i].chunk = d.chunk /\ d.score <= more[i].score
      <4> TAKE d \in P
      <4>1. PICK i \in 1..N : all[i].chunk = d.chunk /\ d.score <= all[i].score
        BY <1>1, <2>4 DEF HasBest
      <4> QED
        BY <2>2, <2>3, <4>1
    <3>4. \E i \in 1..N + 1 : more[i].chunk = c.chunk /\ c.score <= more[i].score
      BY <1>2, <2>2, <2>3
    <3> QED
      BY <2>3, <3>1, <3>2, <3>3, <3>4 DEF HasBest
  <2> QED
    BY <2>2, <2>4 DEF more
<1> QED
  BY <1>3, <1>4

IsMerging(f, base, more) ==
    f = [k \in 0..Len(more) |-> IF k = 0 THEN base ELSE Join(f[k - 1], more[k])]

IsMerged(all, base, more, X) ==
    /\ all \in Seq(X) /\ HasBest(all, ToSet(base) \cup ToSet(more))
    /\ more = <<>> => all = base
MergedAll(base, more) == (CHOOSE f : IsMerging(f, base, more))[Len(more)]

\* What all that is offered comes to, put to the base.
LEMMA MergingHas ==
  ASSUME NEW X, \A c \in X : c.score \in Int, NEW base \in Seq(X), NEW more \in Seq(X),
         \A i, j \in DOMAIN base : i # j => base[i].chunk # base[j].chunk
  PROVE  IsMerged(MergedAll(base, more), base, more, X)
<1> DEFINE N == Len(more)
           D == Seq(X)
           step == [n \in Nat |-> [d \in D |-> IF n \in 1..N THEN Join(d, more[n]) ELSE d]]
           f == CHOOSE f : IsMerging(f, base, more)
<1>1. N \in Nat /\ DOMAIN more = 1..N /\ \A i \in 1..N : more[i] \in X
  OBVIOUS
<1>2. \A d \in D, c \in X : Join(d, c) \in D
  BY JoinHas
<1>3. base \in D
  OBVIOUS
<1> HIDE DEF D
<1>4. step \in [Nat -> [D -> D]] /\ \A n \in 1..N, d \in D : step[n][d] = Join(d, more[n])
  BY <1>1, <1>2
<1> HIDE DEF step
<1>5. PICK h \in [0..N -> D] : Follow(h, base, step, N)
  BY <1>1, <1>3, <1>4, Recursion
<1>6. IsMerging(h, base, more)
  <2>1. ASSUME NEW n \in 0..N
        PROVE  h[n] = IF n = 0 THEN base ELSE Join(h[n - 1], more[n])
    <3>1. CASE n = 0
      BY <1>5, <3>1 DEF Follow
    <3>2. CASE n # 0
      <4>1. n \in 1..N /\ n - 1 \in 0..N
        BY <1>1, <3>2
      <4>2. h[n - 1] \in D /\ h[n] = step[n][h[n - 1]]
        BY <1>5, <4>1 DEF Follow
      <4> QED
        BY <1>4, <3>2, <4>1, <4>2
    <3> QED
      BY <3>1, <3>2
  <2>2. h = [n \in 0..N |-> h[n]]
    BY <1>5
  <2>3. h = [n \in 0..N |-> IF n = 0 THEN base ELSE Join(h[n - 1], more[n])]
    BY <2>1, <2>2, Zenon
  <2> QED
    BY <2>3, Zenon DEF IsMerging
<1>7. IsMerging(f, base, more)
  <2>1. \E k : IsMerging(k, base, more)
    BY <1>6, Zenon
  <2> QED
    BY <2>1, Zenon
<1> HIDE DEF f
<1>8. \A n \in 0..N : f[n] = IF n = 0 THEN base ELSE Join(f[n - 1], more[n])
  BY <1>7 DEF IsMerging
<1> DEFINE P(n) == ToSet(base) \cup {more[i] : i \in 1..n}
           Ok(n) == f[n] \in D /\ HasBest(f[n], P(n))
           S == {n \in 0..N : Ok(n)}
<1>9. 0 \in S
  <2>1. 0 \in 0..N /\ f[0] = base
    BY <1>1, <1>8
  <2>2. P(0) = ToSet(base)
    OBVIOUS
  <2>3. \A i \in DOMAIN base : base[i].score \in Int
    OBVIOUS
  <2>4. HasBest(base, ToSet(base))
    BY <2>3 DEF HasBest, ToSet
  <2> HIDE DEF P
  <2> QED
    BY <1>3, <2>1, <2>2, <2>4
<1>10. ASSUME NEW n \in 0..N - 1, n \in S PROVE n + 1 \in S
  <2>1. n + 1 \in 1..N /\ n + 1 \in 0..N /\ n + 1 # 0 /\ (n + 1) - 1 = n /\ n \in Nat
    BY <1>1
  <2> DEFINE e == f[n]
             g == f[n + 1]
             c == more[n + 1]
             Q == P(n)
  <2>2. e \in Seq(X) /\ HasBest(e, Q) /\ g = Join(e, c) /\ c \in X
    BY <1>1, <1>8, <1>10, <2>1 DEF D
  <2>3. Q \in SUBSET X
    <3>1. ToSet(base) \subseteq X
      BY DEF ToSet
    <3>2. \A i \in 1..n : i \in 1..N
      BY <1>1, <2>1
    <3> QED
      BY <1>1, <3>1, <3>2
  <2>4. P(n + 1) = Q \cup {c}
    <3>1. 1..n + 1 = (1..n) \cup {n + 1}
      BY <2>1
    <3> QED
      BY <3>1
  <2> HIDE DEF e, g, c, Q, P
  <2>5. g \in Seq(X) /\ HasBest(g, Q \cup {c})
    BY <2>2, <2>3, JoinHas
  <2> QED
    BY <2>1, <2>4, <2>5 DEF g, D
<1>11. Ok(N) /\ (N = 0 => f[N] = base)
  <2>1. N \in 0..N
    BY <1>1
  <2>2. \A n \in 0..N : n \in S
    <3> HIDE DEF S, N
    <3> QED
      BY <1>1, <1>9, <1>10, InductUpTo
  <2> HIDE DEF P
  <2> QED
    BY <1>8, <2>1, <2>2
<1>12. P(N) = ToSet(base) \cup ToSet(more)
  BY <1>1 DEF ToSet
<1>13. more = <<>> => N = 0
  OBVIOUS
<1> HIDE DEF P
<1>14. f[N] \in Seq(X) /\ HasBest(f[N], ToSet(base) \cup ToSet(more)) /\ (more = <<>> => f[N] = base)
  BY <1>11, <1>12, <1>13 DEF D
<1> QED
  BY <1>14, Zenon DEF f, IsMerged, MergedAll

-----------------------------------------------------------------------------
(* The result of a merge.                                                    *)

\* What an offer has of use is some of its candidates.
LEMMA AdmittedIs ==
  ASSUME NEW offers \in Offers, NEW o \in DOMAIN offers
  PROVE  LET X == {c \in ToSet(Admitted(offers[o])) : c.score \in Int}
         IN  Admitted(offers[o]) \in Seq(X)
<1> DEFINE it == offers[o]
           list == it.candidates
           places == {i \in DOMAIN list : list[i].fits /\ list[i].version \in Active}
           kept == Keep(list, places)
<1>1. CASE ~ (Usable(it.manifest) /\ list # Absent)
  <2>1. Admitted(it) = <<>>
    BY <1>1 DEF Admitted
  <2> QED
    BY <2>1, EmptySeq
<1>2. CASE Usable(it.manifest) /\ list # Absent
  <2>1. Admitted(it) = kept
    BY <1>2 DEF Admitted
  <2> DEFINE Y == {list[i] : i \in DOMAIN list}
             X == {c \in ToSet(kept) : c.score \in Int}
  <2>2. list \in Seq(Y) /\ \A i \in DOMAIN list : list[i].score \in Int
    BY <1>2, AdvancedAssumption DEF ToSet
  <2>3. \A c \in Y : c.score \in Int
    BY <2>2
  <2> HIDE DEF Y, list, places
  <2>4. kept \in Seq(Y)
    BY <2>2, KeepHas
  <2>5. \A i \in 1..Len(kept) : kept[i] \in X
    <3> HIDE DEF kept
    <3>1. DOMAIN kept = 1..Len(kept) /\ \A i \in 1..Len(kept) : kept[i] \in Y
      BY <2>4
    <3> QED
      BY <2>3, <3>1 DEF ToSet
  <2> HIDE DEF X, kept
  <2>6. kept \in [1..Len(kept) -> X] /\ Len(kept) \in Nat
    BY <2>4, <2>5
  <2>7. kept \in Seq(X)
    BY <2>6
  <2>8. Admitted(it) \in Seq({c \in ToSet(Admitted(it)) : c.score \in Int})
    BY <2>1, <2>7, Zenon DEF X
  <2> QED
    BY <2>8
<1> QED
  BY <1>1, <1>2

Offered(offers) == UNION {ToSet(Admitted(offers[o])) : o \in DOMAIN offers}

\* All that is admitted is what is admitted of every offer.
LEMMA AllAdmittedIs ==
  ASSUME NEW offers \in Offers
  PROVE  /\ \A c \in Offered(offers) : c.score \in Int
         /\ AllAdmitted(offers) \in Seq(Offered(offers))
         /\ ToSet(AllAdmitted(offers)) = Offered(offers)
<1> DEFINE X == Offered(offers)
           seqs == [o \in DOMAIN offers |-> Admitted(offers[o])]
           Y == ToSet(offers)
<1>1. Len(offers) \in Nat /\ DOMAIN offers = 1..Len(offers)
  <2>1. offers \in Seq(Y)
    BY AdvancedAssumption
  <2> HIDE DEF Y
  <2> QED
    BY <2>1
<1>2. ASSUME NEW o \in DOMAIN offers
      PROVE  Admitted(offers[o]) \in Seq(X) /\ \A c \in ToSet(Admitted(offers[o])) : c.score \in Int
  <2> DEFINE a == Admitted(offers[o])
             W == {c \in ToSet(a) : c.score \in Int}
  <2>1. a \in Seq(W)
    BY AdmittedIs
  <2>2. W \subseteq X
    BY DEF Offered
  <2> HIDE DEF a, X
  <2>3. \A i \in 1..Len(a) : a[i] \in W
    <3> HIDE DEF W
    <3> QED
      BY <2>1
  <2>4. Len(a) \in Nat /\ DOMAIN a = 1..Len(a) /\ a = [i \in 1..Len(a) |-> a[i]]
    <3> HIDE DEF W
    <3> QED
      BY <2>1
  <2>5. a \in [1..Len(a) -> X]
    BY <2>2, <2>3, <2>4
  <2>6. a \in Seq(X)
    BY <2>4, <2>5
  <2>7. \A c \in ToSet(a) : c.score \in Int
    BY <2>3, <2>4 DEF ToSet
  <2> QED
    BY <2>6, <2>7 DEF a
<1>3. \A c \in X : c.score \in Int
  BY <1>2 DEF Offered
<1> HIDE DEF X
<1>4. seqs \in Seq(Seq(X)) /\ DOMAIN seqs = DOMAIN offers
  <2> DEFINE L == Seq(X)
  <2>1. \A o \in DOMAIN offers : Admitted(offers[o]) \in L
    BY <1>2
  <2> HIDE DEF L
  <2>2. seqs \in [1..Len(offers) -> L]
    BY <1>1, <2>1
  <2> QED
    BY <1>1, <2>2 DEF L
<1>5. Members(seqs, DOMAIN seqs) = X
  BY DEF Members, X, Offered
<1> HIDE DEF seqs
<1>6. FlattenSeq(seqs) \in Seq(X) /\ ToSet(FlattenSeq(seqs)) = X
  BY <1>4, <1>5, FlatHas
<1> QED
  BY <1>3, <1>6 DEF AllAdmitted, seqs, X

\* The order of the numbers is that of what they have, and theirs if that is falling.
LEMMA SortedStays ==
  ASSUME NEW N \in Nat, NEW score, \A i \in 1..N : score[i] \in Int,
         \A i, j \in 1..N : i < j => score[i] >= score[j]
  PROVE  \A i \in 1..N : Ordered(1..N, score)[i] = i
<1>1. \A a, c \in 1..N : Ahead(score, a, c) <=> a < c
  BY DEF Ahead
<1>2. ASSUME NEW c \in 1..N
      PROVE  Cardinality({a \in 1..N : Ahead(score, a, c)}) = c - 1
  <2>1. {a \in 1..N : Ahead(score, a, c)} = 1..c - 1
    BY <1>1
  <2>2. Cardinality(1..c - 1) = c - 1
    BY FS_Interval
  <2> QED
    BY <2>1, <2>2
<1>3. Cardinality(1..N) = N
  BY FS_Interval
<1> TAKE i \in 1..N
<1> DEFINE at(c) == Cardinality({a \in 1..N : Ahead(score, a, c)}) = i - 1
           r == CHOOSE c \in 1..N : at(c)
<1>4. Ordered(1..N, score)[i] = r
  BY <1>3 DEF Ordered
<1>5. at(i)
  BY <1>2
<1>6. r \in 1..N /\ at(r)
  <2> HIDE DEF at
  <2> QED
    BY <1>5
<1>7. Cardinality({a \in 1..N : Ahead(score, a, r)}) = r - 1 /\ r \in 1..N
  BY <1>2, <1>6
<1>8. r - 1 = i - 1
  BY <1>6, <1>7
<1> HIDE DEF at
<1>9. \A x, y \in 1..N : x - 1 = y - 1 => x = y
  OBVIOUS
<1>10. r = i
  BY <1>7, <1>8, <1>9
<1> QED
  BY <1>4, <1>10

\* The result is the best of the base and of what is admitted.
LEMMA MergedIsBest ==
  ASSUME NEW base \in Bases, NEW offers \in Offers,
         NEW m, m.from = base, m.offers = offers, m.result = Merged(base, offers)
  PROVE  MergeIsBest(m)
<1> DEFINE more == AllAdmitted(offers)
           P == ToSet(base) \cup Offered(offers)
           all == MergedAll(base, more)
           score == [i \in DOMAIN all |-> all[i].score]
           order == Ordered(DOMAIN all, score)
           N == Len(all)
           T == IF N < TopMerged THEN N ELSE TopMerged
           best == {c \in P : \A d \in P : d.chunk = c.chunk => d.score <= c.score}
           r == m.result
<1>1. /\ base \in Seq(ToSet(base)) /\ DOMAIN base = 1..Len(base) /\ Len(base) \in Nat
      /\ \A i \in DOMAIN base : base[i].score \in Int
      /\ \A i, j \in DOMAIN base : i < j => base[i].chunk # base[j].chunk /\ base[i].score >= base[j].score
      /\ TopMerged \in Nat
  <2> DEFINE X == ToSet(base)
  <2>1. /\ base \in Seq(X)
        /\ \A i \in DOMAIN base : base[i].score \in Int
        /\ \A i, j \in DOMAIN base : i < j => base[i].chunk # base[j].chunk /\ base[i].score >= base[j].score
        /\ TopMerged \in Nat
    BY AdvancedAssumption
  <2> HIDE DEF X
  <2>2. DOMAIN base = 1..Len(base) /\ Len(base) \in Nat
    BY <2>1
  <2> QED
    BY <2>1, <2>2 DEF X
<1>2. \A c \in P : c.score \in Int
  BY <1>1, AllAdmittedIs DEF ToSet
<1>3. \A i, j \in DOMAIN base : i # j => base[i].chunk # base[j].chunk
  BY <1>1
<1>4. base \in Seq(P) /\ more \in Seq(P) /\ ToSet(base) \cup ToSet(more) = P
  <2>1. more \in Seq(Offered(offers)) /\ ToSet(more) = Offered(offers)
    BY AllAdmittedIs
  <2> HIDE DEF more
  <2>2. more \in Seq(P)
    <3> DEFINE Y == Offered(offers)
    <3>1. more \in Seq(Y) /\ Y \subseteq P
      BY <2>1
    <3> HIDE DEF Y, P
    <3> QED
      BY <3>1
  <2>3. base \in Seq(P)
    <3> DEFINE Y == ToSet(base)
    <3>1. base \in Seq(Y) /\ Y \subseteq P
      BY <1>1
    <3> HIDE DEF Y, P
    <3> QED
      BY <3>1
  <2> QED
    BY <2>1, <2>2, <2>3
<1>5. all \in Seq(P) /\ HasBest(all, P) /\ (more = <<>> => all = base)
  <2> DEFINE X == P
  <2>1. /\ \A c \in X : c.score \in Int
        /\ base \in Seq(X) /\ more \in Seq(X) /\ ToSet(base) \cup ToSet(more) = X
    BY <1>2, <1>4
  <2> HIDE DEF more, X
  <2>2. IsMerged(all, base, more, X)
    BY <1>3, <2>1, MergingHas
  <2> QED
    BY <2>1, <2>2, Zenon DEF X, IsMerged
<1>6. r = [i \in 1..T |-> all[order[i]]]
  BY Zenon DEF Merged, IsMerging, MergedAll
<1> HIDE DEF all, more, P
<1>7. N \in Nat /\ DOMAIN all = 1..N /\ \A i \in 1..N : all[i] \in P /\ all[i].score \in Int
  BY <1>2, <1>5
<1>8. \A i \in 1..N : score[i] = all[i].score /\ score[i] \in Int
  <2>1. \A i \in DOMAIN all : score[i] = all[i].score
    OBVIOUS
  <2> HIDE DEF score, N, P
  <2> QED
    BY <1>7, <2>1
<1> HIDE DEF score, N, r
<1>9. /\ order \in [1..N -> 1..N]
      /\ \A i, j \in 1..N : i < j => Ahead(score, order[i], order[j])
      /\ \A c \in 1..N : \E i \in 1..N : order[i] = c
  <2>1. IsFiniteSet(1..N) /\ Cardinality(1..N) = N
    <3>1. N \in Nat
      BY <1>7
    <3> HIDE DEF T, best, order
    <3> QED
      BY <3>1, FS_Interval
  <2> DEFINE S == 1..N
  <2>2. S \in SUBSET Nat /\ IsFiniteSet(S) /\ Cardinality(S) = N /\ \A c \in S : score[c] \in Int
    BY <1>7, <1>8, <2>1
  <2>3. order = Ordered(S, score)
    BY <1>7
  <2> HIDE DEF S, order
  <2>4. /\ order \in [1..N -> S]
        /\ \A i, j \in 1..N : i < j => Ahead(score, order[i], order[j])
        /\ \A c \in S : \E i \in 1..N : order[i] = c
    BY <2>2, <2>3, OrderedSorts
  <2> QED
    BY <2>4 DEF S
<1> HIDE DEF order
<1>10. T \in Nat /\ T <= N /\ T <= TopMerged /\ (T < N => T = TopMerged)
  BY <1>1, <1>7
<1> HIDE DEF T
<1>11. /\ DOMAIN r = 1..T /\ Len(r) = T
       /\ \A i \in 1..T : i \in 1..N /\ order[i] \in 1..N /\ r[i] = all[order[i]]
  <2>1. DOMAIN r = 1..T /\ Len(r) = T /\ \A i \in 1..T : r[i] = all[order[i]]
    BY <1>6, <1>10
  <2>2. \A i \in 1..T : i \in 1..N
    BY <1>7, <1>10
  <2>3. \A i \in 1..N : order[i] \in 1..N
    BY <1>9
  <2> QED
    BY <2>1, <2>2, <2>3
<1>12. \A i, j \in 1..N : i < j => /\ order[i] # order[j]
                                 /\ all[order[i]].score >= all[order[j]].score
  <2> TAKE i, j \in 1..N
  <2>1. SUFFICES ASSUME i < j
                 PROVE  order[i] # order[j] /\ all[order[i]].score >= all[order[j]].score
    OBVIOUS
  <2> DEFINE x == order[i]
             y == order[j]
  <2>2. x \in 1..N /\ y \in 1..N /\ Ahead(score, x, y)
    BY <1>9, <2>1
  <2>3. score[x] = all[x].score /\ score[y] = all[y].score /\ score[x] \in Int /\ score[y] \in Int
    BY <1>8, <2>2
  <2> HIDE DEF x, y
  <2>4. x # y /\ score[x] >= score[y]
    BY <1>7, <2>2, <2>3 DEF Ahead
  <2> QED
    BY <2>3, <2>4 DEF x, y
<1>13. \A i \in 1..N : all[i] \in best
  <2> TAKE i \in 1..N
  <2>1. ASSUME NEW d \in P, d.chunk = all[i].chunk PROVE d.score <= all[i].score
    <3>1. PICK j \in 1..N : all[j].chunk = d.chunk /\ d.score <= all[j].score
      BY <1>5, <1>7 DEF HasBest
    <3>2. j = i
      BY <1>5, <1>7, <2>1, <3>1 DEF HasBest
    <3> QED
      BY <3>1, <3>2
  <2> QED
    BY <1>7, <2>1
<1>14. ToSet(r) \subseteq best
  BY <1>11, <1>13 DEF ToSet
<1>15. \A i, j \in 1..T : i < j => r[i].chunk # r[j].chunk /\ r[i].score >= r[j].score
  <2> TAKE i, j \in 1..T
  <2>1. SUFFICES ASSUME i < j PROVE r[i].chunk # r[j].chunk /\ r[i].score >= r[j].score
    OBVIOUS
  <2> DEFINE x == order[i]
             y == order[j]
  <2>2. i \in 1..N /\ j \in 1..N /\ x \in 1..N /\ y \in 1..N /\ r[i] = all[x] /\ r[j] = all[y]
    BY <1>11
  <2>3. x # y /\ all[x].score >= all[y].score
    BY <1>12, <2>1, <2>2
  <2> HIDE DEF x, y
  <2>4. all[x].chunk # all[y].chunk
    BY <1>5, <1>7, <2>2, <2>3 DEF HasBest
  <2> QED
    BY <2>2, <2>3, <2>4
<1>16. ASSUME NEW c \in best
       PROVE  \/ \E i \in 1..T : r[i].chunk = c.chunk
              \/ T = TopMerged /\ \A i \in 1..T : r[i].score >= c.score
  <2>0. c \in P /\ c.score \in Int
    BY <1>2
  <2>1. PICK k \in 1..N : all[k].chunk = c.chunk /\ c.score <= all[k].score
    BY <1>5, <1>7, <2>0 DEF HasBest
  <2>2. PICK p \in 1..N : order[p] = k
    BY <1>9
  <2>3. CASE p <= T
    <3>1. p \in 1..T
      BY <1>10, <2>3
    <3> QED
      BY <1>11, <2>1, <2>2, <3>1
  <2>4. CASE ~(p <= T)
    <3>1. T = TopMerged
      BY <1>7, <1>10, <2>4
    <3>2. ASSUME NEW i \in 1..T PROVE r[i].score >= c.score
      <4>1. i < p /\ i \in 1..N /\ order[i] \in 1..N
        BY <1>7, <1>10, <1>11, <2>4
      <4>2. all[order[i]].score >= all[k].score
        BY <1>12, <2>2, <4>1
      <4>3. all[order[i]].score \in Int /\ all[k].score \in Int
        BY <1>7, <4>1
      <4> QED
        BY <1>11, <2>0, <2>1, <4>2, <4>3
    <3> QED
      BY <3>1, <3>2
  <2> QED
    BY <2>3, <2>4
<1>17. ASSUME \A o \in DOMAIN offers : Admitted(offers[o]) = <<>>
       PROVE  r = SubSeq(base, 1, T)
  <2>1. Offered(offers) = {}
    <3>1. \A o \in DOMAIN offers : ToSet(Admitted(offers[o])) = {}
      BY <1>17 DEF ToSet
    <3> QED
      BY <3>1 DEF Offered
  <2>2. more = <<>>
    <3>1. more \in Seq(Offered(offers))
      BY AllAdmittedIs DEF more
    <3> DEFINE X == Offered(offers)
    <3>2. more \in Seq(X) /\ \A x : x \notin X
      BY <2>1, <3>1
    <3> HIDE DEF X
    <3>3. Len(more) \in Nat /\ \A i \in 1..Len(more) : more[i] \in X
      BY <3>2
    <3>4. Len(more) = 0
      BY <3>2, <3>3
    <3> QED
      BY <3>2, <3>4, EmptySeq
  <2>3. all = base
    BY <1>5, <2>2
  <2>4. \A i \in 1..N : order[i] = i
    <3>1. \A i, j \in 1..N : i < j => score[i] >= score[j]
      BY <1>1, <1>7, <1>8, <2>3
    <3>2. \A i \in 1..N : Ordered(1..N, score)[i] = i
      BY <1>7, <1>8, <3>1, SortedStays
    <3> QED
      BY <1>7, <3>2 DEF order
  <2>5. \A i \in 1..T : r[i] = base[i]
    BY <1>11, <2>3, <2>4
  <2>6. r = [i \in 1..T |-> base[i]]
    <3>1. r = [i \in 1..T |-> r[i]]
      BY <1>6 DEF r
    <3> QED
      BY <2>5, <3>1
  <2>7. SubSeq(base, 1, T) = [i \in 1..T |-> base[i]]
    <3>1. SubSeq(base, 1, T) = [i \in 1..(1 + T - 1) |-> base[1 + i - 1]]
      BY <1>1, <1>10
    <3>2. 1 + T - 1 = T /\ \A i \in 1..T : 1 + i - 1 = i
      BY <1>10
    <3> QED
      BY <3>1, <3>2
  <2> QED
    BY <2>6, <2>7
<1>18. r = m.result /\ ToSet(m.from) \cup UNION {ToSet(Admitted(m.offers[o])) : o \in DOMAIN m.offers} = P
  BY DEF r, P, Offered
<1>19. /\ \A i, j \in DOMAIN m.result : i < j =>
              m.result[i].chunk # m.result[j].chunk /\ m.result[i].score >= m.result[j].score
       /\ \A c \in best : \/ \E i \in DOMAIN m.result : m.result[i].chunk = c.chunk
                          \/ /\ Len(m.result) = TopMerged
                             /\ \A i \in DOMAIN m.result : m.result[i].score >= c.score
       /\ (\A o \in DOMAIN m.offers : Admitted(m.offers[o]) = <<>>) =>
              m.result = SubSeq(m.from, 1, Len(m.result))
  BY <1>11, <1>15, <1>16, <1>17 DEF r
<1> QED
  BY <1>14, <1>18, <1>19, Zenon DEF MergeIsBest, r, P, Offered

-----------------------------------------------------------------------------
(* What is derived.                                                          *)

\* The shape of the derived state and of the builds.
LEMMA DerivedTypes == AdvancedSpec => []AdvancedTypeOK
<1>1. AdvancedInit => AdvancedTypeOK
  BY DEF AdvancedInit, AdvancedTypeOK, Underived, Pending, Builds
<1>2. AdvancedTypeOK /\ [AdvancedNext]_advancedVars => AdvancedTypeOK'
  <2> SUFFICES ASSUME AdvancedTypeOK, [AdvancedNext]_advancedVars PROVE AdvancedTypeOK'
    OBVIOUS
  <2> DEFINE Kinds == {"nothing", "tree", "graph", "context", "windows", "merged"}
  <2>1. /\ made.kind \in Kinds /\ row \in Builds \cup {Absent} /\ copies \in [Builders -> Builds]
        /\ row # Absent => (row.requested => row.status \in {"cancelled", "failed"})
    BY DEF AdvancedTypeOK
  <2>2. CASE row' = row /\ copies' = copies /\ made'.kind \in Kinds
    BY <2>1, <2>2 DEF AdvancedTypeOK
  <2>3. CASE BuildTree \/ Expand \/ MakeWindows \/ Retrieve
    <3>1. row' = row /\ copies' = copies
      BY <2>3 DEF BuildTree, Expand, MakeWindows, Retrieve
    <3>2. made'.kind \in {"tree", "context", "windows", "merged"}
      <4>1. CASE BuildTree
        <5>1. PICK list \in Inputs :
                 made' = [kind |-> "tree", from |-> list, levels |-> Tree(list)]
          BY <4>1 DEF BuildTree
        <5> QED
          BY <5>1
      <4>2. CASE Expand
        <5>1. \E list \in Inputs : \E hit \in DOMAIN list :
                 made' = [kind |-> "context", from |-> list, hit |-> hit,
                          context |-> Expanded(list, hit)]
          BY <4>2 DEF Expand
        <5> QED
          BY <5>1
      <4>3. CASE MakeWindows
        <5>1. PICK points \in Series :
                 made' = [kind |-> "windows", from |-> points, windows |-> Windows(points)]
          BY <4>3 DEF MakeWindows
        <5> QED
          BY <5>1
      <4>4. CASE Retrieve
        <5>1. PICK base \in Bases, offers \in Offers :
                 made' = [kind |-> "merged", from |-> base, offers |-> offers,
                          result |-> Merged(base, offers)]
          BY <4>4 DEF Retrieve
        <5> QED
          BY <5>1
      <4> QED
        BY <2>3, <4>1, <4>2, <4>3, <4>4
    <3> QED
      BY <2>2, <3>1, <3>2
  <2>4. CASE Cancel
    <3>1. /\ made' = made /\ copies' = copies
          /\ row' = [status |-> "cancelled", requested |-> TRUE]
      BY <2>4 DEF Cancel
    <3>2. row' \in Builds /\ row'.status = "cancelled"
      BY <3>1 DEF Builds
    <3> QED
      BY <2>1, <3>1, <3>2 DEF AdvancedTypeOK
  <2>5. ASSUME NEW b \in Builders, ReadBuild(b) PROVE AdvancedTypeOK'
    <3>1. /\ row # Absent /\ made' = made /\ row' = row /\ copies' = [copies EXCEPT ![b] = row]
      BY <2>5 DEF ReadBuild
    <3>2. row \in Builds
      BY <2>1, <3>1
    <3>3. copies' \in [Builders -> Builds]
      BY <2>1, <2>5, <3>1, <3>2
    <3> QED
      BY <2>1, <3>1, <3>3 DEF AdvancedTypeOK
  <2>6. ASSUME NEW b \in Builders, BuildGraph(b) PROVE AdvancedTypeOK'
    <3>1. /\ copies' = copies
          /\ \/ made' = made
             \/ \E list \in Inputs :
                  made' = [kind |-> "graph", from |-> list, graph |-> Graph(list)]
          /\ \/ row' = [copies[b] EXCEPT !.status = "failed"]
             \/ row' = [copies[b] EXCEPT !.status = "cancelled"]
             \/ ~copies[b].requested /\ row' = [copies[b] EXCEPT !.status = "running"]
             \/ ~copies[b].requested /\ row' = [copies[b] EXCEPT !.status = "succeeded"]
      BY <2>6 DEF BuildGraph
    <3>2. made'.kind \in Kinds
      BY <2>1, <3>1
    <3>3. copies[b] \in Builds
      BY <2>1, <2>6
    <3>4. row' \in Builds /\ (row'.requested => row'.status \in {"cancelled", "failed"})
      BY <3>1, <3>3 DEF Builds
    <3> QED
      BY <2>1, <3>1, <3>2, <3>4 DEF AdvancedTypeOK
  <2>7. CASE UNCHANGED advancedVars
    BY <2>1, <2>2, <2>7 DEF advancedVars
  <2> QED
    BY <2>3, <2>4, <2>5, <2>6, <2>7 DEF AdvancedNext
<1> QED
  BY <1>1, <1>2, PTL DEF AdvancedSpec

\* The property looks at what was made and at nothing else.
LEMMA DerivedStays ==
  ASSUME DerivedKeepsSources, made' = made
  PROVE  DerivedKeepsSources'
BY DEF DerivedKeepsSources

\* What is derived holds its sources, whatever the chunks, the points, the base
\* results and the offers are.
THEOREM DerivedStaysSound == AdvancedSpec => []DerivedKeepsSources
<1>1. AdvancedInit => DerivedKeepsSources
  BY DEF AdvancedInit, DerivedKeepsSources, Underived
<1>2. DerivedKeepsSources /\ [AdvancedNext]_advancedVars => DerivedKeepsSources'
  <2> SUFFICES ASSUME DerivedKeepsSources, [AdvancedNext]_advancedVars
               PROVE  DerivedKeepsSources'
    OBVIOUS
  <2>1. CASE BuildTree
    <3>1. PICK list \in Inputs :
             /\ list # <<>>
             /\ made' = [kind |-> "tree", from |-> list, levels |-> Tree(list)]
      BY <2>1 DEF BuildTree
    <3> DEFINE x == [kind |-> "tree", from |-> list, levels |-> Tree(list)]
    <3>2. x.kind = "tree" /\ x.from = list /\ x.levels = Tree(list)
      OBVIOUS
    <3> HIDE DEF x
    <3>3. TreeKeepsLeaves(x)
      BY <3>1, <3>2, TreeKeeps
    <3>4. made' = x
      BY <3>1 DEF x
    <3> QED
      BY <3>2, <3>3, <3>4 DEF DerivedKeepsSources
  <2>2. CASE Expand
    <3>1. PICK list \in Inputs : \E hit \in DOMAIN list :
             made' = [kind |-> "context", from |-> list, hit |-> hit,
                      context |-> Expanded(list, hit)]
      BY <2>2 DEF Expand
    <3>2. PICK place \in DOMAIN list :
             made' = [kind |-> "context", from |-> list, hit |-> place,
                      context |-> Expanded(list, place)]
      BY <3>1
    <3> DEFINE x == [kind |-> "context", from |-> list, hit |-> place,
                     context |-> Expanded(list, place)]
    <3>3. x.kind = "context" /\ x.from = list /\ x.hit = place /\ x.context = Expanded(list, place)
      OBVIOUS
    <3> HIDE DEF x
    <3>4. ContextHasHit(x)
      BY <3>2, <3>3, ContextHas
    <3>5. made' = x
      BY <3>2 DEF x
    <3> QED
      BY <3>3, <3>4, <3>5 DEF DerivedKeepsSources
  <2>3. CASE MakeWindows
    <3>1. PICK points \in Series :
             /\ points # <<>>
             /\ made' = [kind |-> "windows", from |-> points, windows |-> Windows(points)]
      BY <2>3 DEF MakeWindows
    <3> DEFINE x == [kind |-> "windows", from |-> points, windows |-> Windows(points)]
    <3>2. x.kind = "windows" /\ x.from = points /\ x.windows = Windows(points)
      OBVIOUS
    <3> HIDE DEF x
    <3>3. WindowsHoldPoints(x)
      BY <3>1, <3>2, WindowsHold
    <3>4. made' = x
      BY <3>1 DEF x
    <3> QED
      BY <3>2, <3>3, <3>4 DEF DerivedKeepsSources
  <2>4. CASE Retrieve
    <3>1. PICK base \in Bases, offers \in Offers :
             made' = [kind |-> "merged", from |-> base, offers |-> offers,
                      result |-> Merged(base, offers)]
      BY <2>4 DEF Retrieve
    <3> DEFINE x == [kind |-> "merged", from |-> base, offers |-> offers,
                     result |-> Merged(base, offers)]
    <3>2. /\ x.kind = "merged" /\ x.from = base /\ x.offers = offers
          /\ x.result = Merged(base, offers)
      OBVIOUS
    <3> HIDE DEF x
    <3>3. MergeIsBest(x)
      BY <3>1, <3>2, MergedIsBest
    <3>4. made' = x
      BY <3>1 DEF x
    <3> QED
      BY <3>2, <3>3, <3>4 DEF DerivedKeepsSources
  <2>5. ASSUME NEW b \in Builders, BuildGraph(b) PROVE DerivedKeepsSources'
    <3>1. \/ made' = made
          \/ \E list \in Inputs :
               made' = [kind |-> "graph", from |-> list, graph |-> Graph(list)]
      BY <2>5 DEF BuildGraph
    <3>2. ASSUME NEW list \in Inputs,
                 made' = [kind |-> "graph", from |-> list, graph |-> Graph(list)]
          PROVE  DerivedKeepsSources'
      <4> DEFINE x == [kind |-> "graph", from |-> list, graph |-> Graph(list)]
      <4>1. x.kind = "graph" /\ x.graph = Graph(list)
        OBVIOUS
      <4> HIDE DEF x
      <4>2. GraphIsGrounded(x)
        BY <4>1, GraphGrounded
      <4>3. made' = x
        BY <3>2 DEF x
      <4> QED
        BY <4>1, <4>2, <4>3 DEF DerivedKeepsSources
    <3> QED
      BY <3>1, <3>2, DerivedStays
  <2>6. CASE made' = made
    BY <2>6, DerivedStays
  <2>7. ASSUME NEW b \in Builders, ReadBuild(b) PROVE made' = made
    BY <2>7 DEF ReadBuild
  <2>8. Cancel \/ UNCHANGED advancedVars => made' = made
    BY DEF Cancel, advancedVars
  <2> QED
    BY <2>1, <2>2, <2>3, <2>4, <2>5, <2>6, <2>7, <2>8 DEF AdvancedNext
<1> QED
  BY <1>1, <1>2, PTL DEF AdvancedSpec

-----------------------------------------------------------------------------
(* The pipelines together.                                                   *)

\* What the registries and the strategies leave untouched until it is their turn.
Routing ==
    /\ parser \in {p.id : p \in Parsers} \cup {NoParser}
    /\ phase \notin {"cut", "done"} => groups = <<>>
    /\ phase = "choose" => \E s \in Sources : source = s.elements

\* The registry names one of its parsers, or says why it does not.
LEMMA RegistryFinds ==
  ASSUME NEW media, Choose(media) \notin {"unsupported", "ambiguous"}
  PROVE  Choose(media) \in {p.id : p \in Parsers}
<1> DEFINE fitting == {p \in Parsers : Takes(p, media)}
           best == {p \in fitting : \A q \in fitting : q.priority <= p.priority}
<1>1. best # {} /\ Choose(media) = (CHOOSE p \in best : TRUE).id
  BY DEF Choose
<1>2. best \subseteq Parsers
  OBVIOUS
<1> HIDE DEF best
<1>3. (CHOOSE p \in best : TRUE) \in best
  BY <1>1, Zenon
<1> QED
  BY <1>1, <1>2, <1>3

\* Routing is an invariant of the registries.
LEMMA RoutingHolds == ContentSpec => []Routing
<1>1. ContentInit => Routing
  BY DEF ContentInit, Routing
<1>2. Routing /\ [ContentNext]_contentVars => Routing'
  <2> SUFFICES ASSUME Routing, [ContentNext]_contentVars PROVE Routing'
    OBVIOUS
  <2>1. CASE Resolve
    <3> DEFINE asked == {p \in Parsers : p.id = request.parser}
               refusals == {"unsupported", "ambiguous", "unregistered", "incompatible"}
               answer1 == IF request.parser = NoParser THEN Choose(request.media)
                          ELSE IF asked = {} THEN "unregistered"
                          ELSE IF \E p \in asked : Takes(p, request.media) THEN request.parser
                          ELSE "incompatible"
    <3>1. /\ phase = "route" /\ groups' = groups /\ phase' \in {"parse", "failed"}
          /\ \/ parser' = parser
             \/ answer1 \notin refusals /\ parser' = answer1
      BY <2>1 DEF Resolve, Fail
    <3>2. ASSUME answer1 \notin refusals
          PROVE  answer1 \in {p.id : p \in Parsers}
      <4>1. CASE request.parser = NoParser
        <5>1. answer1 = Choose(request.media)
          BY <4>1
        <5> QED
          BY <3>2, <5>1, RegistryFinds
      <4>2. CASE request.parser # NoParser
        <5>1. answer1 = request.parser /\ asked # {}
          BY <3>2, <4>2
        <5>2. PICK p \in asked : TRUE
          BY <5>1
        <5> QED
          BY <5>1, <5>2
      <4> QED
        BY <4>1, <4>2
    <3> HIDE DEF answer1, refusals
    <3> QED
      BY <3>1, <3>2 DEF Routing
  <2>2. CASE Parse
    <3>1. /\ phase = "parse" /\ groups' = groups /\ parser' = parser
          /\ phase' \in {"choose", "failed"}
          /\ phase' = "choose" => \E s \in Sources : source' = s.elements
      BY <2>2 DEF Parse, Fail
    <3> QED
      BY <3>1 DEF Routing
  <2>3. CASE ChooseStrategy
    <3>1. /\ phase = "choose" /\ parser' = parser
          /\ phase' = "cut" \/ (phase' = "failed" /\ groups' = groups)
      BY <2>3 DEF ChooseStrategy, Fail
    <3> QED
      BY <3>1 DEF Routing
  <2>4. CASE Cut \/ Finish
    <3>1. phase' \in {"cut", "done"} /\ parser' = parser
      BY <2>4 DEF Cut, Finish
    <3> QED
      BY <3>1 DEF Routing
  <2>5. CASE UNCHANGED contentVars
    BY <2>5 DEF contentVars, Routing
  <2> QED
    BY <2>1, <2>2, <2>3, <2>4, <2>5 DEF ContentNext
<1> QED
  BY <1>1, <1>2, PTL DEF ContentSpec

\* The window's place is in a group, or past the last of them.
LEMMA ContentTyped ==
  ASSUME ContentGiven, ContentInv, Routing
  PROVE  ContentTypeOK
<1>1. CASE phase \in {"cut", "done"}
  <2>1. Cutting /\ request.limit \in Limits
    BY <1>1 DEF ContentInv
  <2>2. /\ Shared \in Nat /\ group \in 1..(Len(groups) + 1) /\ start \in Nat
        /\ group <= Len(groups) => Reached < Len(groups[group])
    BY <2>1, LimitIs DEF Cutting
  <2>3. Grouping
    BY <1>1 DEF ContentInv
  <2>4. group <= Len(groups) => start < Len(groups[group])
    <3> SUFFICES ASSUME group <= Len(groups) PROVE start < Len(groups[group])
      OBVIOUS
    <3>1. group \in DOMAIN groups /\ Len(groups[group]) \in Nat
      BY <2>2, <2>3, GroupsAre
    <3>2. Reached \in Nat /\ start <= Reached /\ Reached < Len(groups[group])
      BY <2>2 DEF Reached
    <3> QED
      BY <2>2, <3>1, <3>2
  <2> QED
    BY <1>1, <2>2, <2>4 DEF ContentTypeOK, ContentInv, Routing
<1>2. CASE phase \notin {"cut", "done"}
  <2>1. group = 1 /\ start = 0 /\ groups = <<>>
    BY <1>2 DEF ContentInv, Routing
  <2>2. Len(groups) = 0
    BY <2>1
  <2> QED
    BY <2>1, <2>2 DEF ContentTypeOK, ContentInv, Routing
<1> QED
  BY <1>1, <1>2

\* A behaviour of the pipelines is one of each of them: what a subject does leaves
\* the others where they are.
THEOREM PipelinesApart == KnowledgeSpec => Spec /\ ContentSpec /\ AdvancedSpec
<1>1. KnowledgeInit => Init /\ ContentInit /\ AdvancedInit
  BY DEF KnowledgeInit
<1>2. [KnowledgeNext]_<<subject, vars, contentVars, advancedVars>> =>
        [Next]_vars /\ [ContentNext]_contentVars /\ [AdvancedNext]_advancedVars
  BY DEF KnowledgeNext
<1> QED
  BY <1>1, <1>2, PTL DEF KnowledgeSpec, Spec, ContentSpec, AdvancedSpec

\* The shape of the state of all of them.
THEOREM KnowledgeTypes == KnowledgeSpec => []KnowledgeTypeOK
<1>1. ContentSpec => []ContentTypeOK
  <2>1. ContentSpec => []ContentInv
    BY ContentAssumption, ContentInvariant
  <2>2. ContentInv /\ Routing => ContentTypeOK
    BY ContentAssumption, ContentTyped
  <2> QED
    BY <2>1, <2>2, RoutingHolds, PTL
<1>2. TypeOK /\ ContentTypeOK /\ AdvancedTypeOK => KnowledgeTypeOK
  BY DEF KnowledgeTypeOK
<1> QED
  BY <1>1, <1>2, PipelinesApart, QueryTypeCorrect, DerivedTypes, PTL

\* And what holds of each holds of them together.
THEOREM KnowledgeStaysSound ==
  KnowledgeSpec => [](RankingIsSound /\ ChunksCoverSource /\ DerivedKeepsSources)
BY PipelinesApart, RankingStaysSound, ChunksHoldSource, DerivedStaysSound, PTL
=============================================================================
