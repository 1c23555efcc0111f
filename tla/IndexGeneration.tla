--------------------------- MODULE IndexGeneration ---------------------------
(***************************************************************************)
(* Full rebuilds of a knowledge base's search index: every generation is a *)
(* physical index of its own, built and validated aside and then put under *)
(* the read alias; a rollback puts an earlier generation back.             *)
(*                                                                         *)
(* Each call to Elasticsearch is a step, and any of them may fail with or  *)
(* without its effect.  switch_alias reads the alias, compares it with     *)
(* what the caller expects and then updates it: the update is atomic, the  *)
(* comparison is not part of it.  Rebuilds of one scope may overlap; their *)
(* generation numbers, and so their physical indexes, are their callers'   *)
(* and are taken to differ.                                                *)
(***************************************************************************)
EXTENDS Naturals, FiniteSets

CONSTANTS
    Builds,    \* build_and_publish calls; each builds the index of its name
    Rollbacks, \* rollback_alias calls
    First,     \* the index under the alias at the start
    None       \* the alias does not exist

ASSUME GenerationAssumption == /\ Builds \cap Rollbacks = {}
                               /\ First \notin Builds
                               /\ None \notin Builds \cup {First}

Indexes == Builds \cup {First}
Calls   == Builds \cup Rollbacks

VARIABLES
    content,  \* physical indexes: absent, or how many of their records they hold
    alias,    \* the indexes the read alias points to
    pc,       \* where each call is
    target,   \* the index it puts in service
    expected, \* the index its caller expects under the alias
    served,   \* history: indexes that have been under the alias
    stranded  \* history: calls that died, whose clean-up failed, or whose index was
              \* created although they were not told

vars == <<content, alias, pc, target, expected, served, stranded>>

Phase == {"idle", "create", "write", "validate", "compare", "update", "confirm",
          "resolve", "cleanup", "recheck", "delete", "returned", "raised"}

Init ==
    /\ content = [i \in Indexes |-> IF i = First THEN "whole" ELSE "absent"]
    /\ alias = {First}
    /\ pc = [c \in Calls |-> "idle"]
    /\ target = [c \in Calls |-> First]
    /\ expected = [c \in Calls |-> None]
    /\ served = {First}
    /\ stranded = {}

\* resolve_alias: the index under the alias; more than one is an error.
Ambiguous == Cardinality(alias) > 1
Resolves(i) == alias = IF i = None THEN {} ELSE {i}

Step(c, from, to) == pc[c] = from /\ pc' = [pc EXCEPT ![c] = to]

-----------------------------------------------------------------------------
(* build_and_publish, and rollback_alias from its validation on.             *)

\* The caller says what it expects under the alias, as it saw it.
BeginBuild(c) ==
    /\ c \in Builds
    /\ Step(c, "idle", "create")
    /\ target' = [target EXCEPT ![c] = c]
    /\ \E i \in Indexes \cup {None} : Resolves(i) /\ expected' = [expected EXCEPT ![c] = i]
    /\ UNCHANGED <<content, alias, served, stranded>>

\* An operator goes back to a generation that has been in service.
BeginRollback(c) ==
    /\ c \in Rollbacks
    /\ Step(c, "idle", "validate")
    /\ \E t \in served, i \in Indexes :
        /\ Resolves(i) /\ t # i
        /\ target' = [target EXCEPT ![c] = t]
        /\ expected' = [expected EXCEPT ![c] = i]
    /\ UNCHANGED <<content, alias, served, stranded>>

CreateStaging(c) ==
    /\ Step(c, "create", "write")
    /\ content' = [content EXCEPT ![target[c]] = IF @ = "absent" THEN "part" ELSE @]
    /\ UNCHANGED <<alias, target, expected, served, stranded>>

\* The create precedes the try: when it fails, perhaps after its effect, the call
\* raises and nothing is cleaned up.
CreateFails(c) ==
    /\ Step(c, "create", "raised")
    /\ \/ content' = content /\ stranded' = stranded
       \/ /\ content' = [content EXCEPT ![target[c]] = IF @ = "absent" THEN "part" ELSE @]
          /\ stranded' = stranded \cup {c}
    /\ UNCHANGED <<alias, target, expected, served>>

\* The bulk request is taken whole, or some of its records are rejected; what the
\* caller hands over may fall short of the chunks the generation is to have, and
\* the answer may be lost.
WriteGeneration(c) ==
    /\ \E to \in {"validate", "cleanup"} : Step(c, "write", to)
    /\ content' \in {content, [content EXCEPT ![target[c]] = "whole"]}
    /\ UNCHANGED <<alias, target, expected, served, stranded>>

\* Mutant: the validation looks at the mapping and a sample, not at the count.
ValidateSample(c) ==
    /\ Step(c, "validate", IF content[target[c]] # "absent" THEN "compare"
                           ELSE IF c \in Builds THEN "cleanup" ELSE "raised")
    /\ UNCHANGED <<content, alias, target, expected, served, stranded>>

\* A build requires every record to be there, a rollback that the index is
\* healthy, which an index that exists is.
ValidateGeneration(c) ==
    /\ Step(c, "validate",
            IF c \in Builds
            THEN IF content[target[c]] = "whole" THEN "compare" ELSE "cleanup"
            ELSE IF content[target[c]] # "absent" THEN "compare" ELSE "raised")
    /\ UNCHANGED <<content, alias, target, expected, served, stranded>>

\* switch_alias, its first call: the alias as it is against what is expected.
CompareAlias(c) ==
    /\ Step(c, "compare", IF Resolves(expected[c]) THEN "update"
                          ELSE IF c \in Builds THEN "resolve" ELSE "raised")
    /\ UNCHANGED <<content, alias, target, expected, served, stranded>>

\* Its second: the index it compared is taken off and the target put on, at once;
\* both indexes must exist, but the first need not be under the alias any more.
UpdateAlias(c) ==
    LET t == target[c] IN
    /\ IF \E i \in {t, expected[c]} \ {None} : content[i] = "absent"
       THEN /\ Step(c, "update", IF c \in Builds THEN "resolve" ELSE "raised")
            /\ UNCHANGED <<alias, served>>
       ELSE /\ \E to \in {"confirm", IF c \in Builds THEN "resolve" ELSE "raised"} :
                   Step(c, "update", to)
            /\ alias' = (alias \ {expected[c]}) \cup {t}
            /\ served' = served \cup {t}
    /\ UNCHANGED <<content, target, expected, stranded>>

\* Its third: the alias is read back.
ConfirmAlias(c) ==
    /\ Step(c, "confirm", IF Resolves(target[c]) THEN "returned"
                          ELSE IF c \in Builds THEN "resolve" ELSE "raised")
    /\ UNCHANGED <<content, alias, target, expected, served, stranded>>

\* Mutant: an alias that changed hands is taken for the one that was set.
ResolveHopefully(c) ==
    /\ Step(c, "resolve", IF Ambiguous THEN "cleanup" ELSE "returned")
    /\ UNCHANGED <<content, alias, target, expected, served, stranded>>

\* switch_alias raised, its result is unknown: what counts is the alias.
ResolveOutcome(c) ==
    /\ Step(c, "resolve", IF Resolves(target[c]) THEN "returned" ELSE "cleanup")
    /\ UNCHANGED <<content, alias, target, expected, served, stranded>>

-----------------------------------------------------------------------------
(* The clean-up of a build that failed.                                      *)

\* The staging index is deleted unless it is in service; an ambiguous alias
\* stops the clean-up.
CleanUp(c) ==
    /\ Step(c, "cleanup", IF Ambiguous \/ Resolves(target[c]) THEN "raised" ELSE "recheck")
    /\ stranded' = IF Ambiguous THEN stranded \cup {c} ELSE stranded
    /\ UNCHANGED <<content, alias, target, expected, served>>

\* delete_generation looks at the alias once more.
RecheckAlias(c) ==
    /\ Step(c, "recheck", IF Ambiguous \/ Resolves(target[c]) THEN "raised" ELSE "delete")
    /\ stranded' = IF Ambiguous THEN stranded \cup {c} ELSE stranded
    /\ UNCHANGED <<content, alias, target, expected, served>>

\* Deleting an index takes it off every alias.
DeleteIndex(c) ==
    /\ Step(c, "delete", "raised")
    /\ content' = [content EXCEPT ![target[c]] = "absent"]
    /\ alias' = alias \ {target[c]}
    /\ UNCHANGED <<target, expected, served, stranded>>

-----------------------------------------------------------------------------
\* Where a call goes when Elasticsearch fails it without effect.
AfterFailure(c) ==
    CASE c \in Builds /\ pc[c] \in {"validate", "resolve"} -> "cleanup"
      [] c \in Builds /\ pc[c] \in {"compare", "update", "confirm"} -> "resolve"
      [] OTHER -> "raised"

SearchFails(c) ==
    /\ pc[c] \notin {"idle", "create", "write", "returned", "raised"}
    /\ pc' = [pc EXCEPT ![c] = AfterFailure(c)]
    /\ stranded' = IF pc[c] \in {"cleanup", "recheck", "delete"}
                   THEN stranded \cup {c} ELSE stranded
    /\ UNCHANGED <<content, alias, target, expected, served>>

Crash(c) ==
    /\ pc[c] \notin {"idle", "returned", "raised"}
    /\ pc' = [pc EXCEPT ![c] = "raised"]
    /\ stranded' = stranded \cup {c}
    /\ UNCHANGED <<content, alias, target, expected, served>>

CallStep(c) ==
    \/ CreateStaging(c) \/ CreateFails(c) \/ WriteGeneration(c) \/ ValidateGeneration(c)
    \/ CompareAlias(c) \/ UpdateAlias(c) \/ ConfirmAlias(c) \/ ResolveOutcome(c)
    \/ CleanUp(c) \/ RecheckAlias(c) \/ DeleteIndex(c)

Next == \E c \in Calls : \/ BeginBuild(c) \/ BeginRollback(c)
                         \/ CallStep(c) \/ SearchFails(c) \/ Crash(c)

Spec == Init /\ [][Next]_vars

-----------------------------------------------------------------------------
(* Properties.                                                               *)

\* The shape of the stores and of the calls' local state.
TypeOK ==
    /\ content \in [Indexes -> {"absent", "part", "whole"}]
    /\ alias \subseteq Indexes
    /\ pc \in [Calls -> Phase]
    /\ target \in [Calls -> Indexes]
    /\ expected \in [Calls -> Indexes \cup {None}]
    /\ served \subseteq Indexes
    /\ stranded \subseteq Calls

\* Whatever fails, and however builds, clean-ups and rollbacks overlap, what the
\* alias serves holds every record of its generation.
AliasedIsWhole == \A i \in alias : content[i] = "whole"

\* Callers are told the truth.  A call that returns has had its index in service,
\* though the answer to its update was lost: a conflict or a beaten call never
\* passes for a success.  A build that raises without having been in service
\* leaves no index behind, unless it died, its clean-up failed, or its index was
\* created by a request whose answer was lost: that one nobody removes.
AnswersAreTrue ==
    \A c \in Calls :
        /\ pc[c] = "returned" => target[c] \in served
        /\ c \in Builds \ stranded /\ pc[c] = "raised" /\ c \notin served
              => content[c] = "absent"

\* Documented: the physical index the alias points to is not deleted.  It can
\* be: delete_generation looks at the alias and deletes in two calls, and a
\* rollback may put the index back in between.
ServedIsNotDeleted ==
    [][\A i \in alias : content'[i] # "absent"]_vars
=============================================================================
