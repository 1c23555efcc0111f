-------------------------------- MODULE Lists ---------------------------------
(***************************************************************************)
(* Lists as the services make them: sorted, or what remains of another.    *)
(***************************************************************************)
EXTENDS Integers, FiniteSets, SequencesExt

\* Higher scores come first, and smaller numbers among equal ones.
Ahead(score, a, b) == score[a] > score[b] \/ (score[a] = score[b] /\ a < b)

\* Of some numbers, in place i the one that i - 1 others are ahead of.
Ordered(numbers, score) ==
    [i \in 1..Cardinality(numbers) |->
        CHOOSE c \in numbers : Cardinality({a \in numbers : Ahead(score, a, c)}) = i - 1]

Ascending(numbers) == Ordered(numbers, [n \in numbers |-> 0])

\* What stands at some places of a sequence.
Keep(s, places) == FlattenSeq([i \in DOMAIN s |-> IF i \in places THEN <<s[i]>> ELSE <<>>])
=============================================================================
