------------------------- MODULE AgentApprovalProofs -------------------------
(***************************************************************************)
(* Safety of AgentApproval for any number of requests: types, one          *)
(* execution, effects only after an approval, ends that are final, and a   *)
(* run that is told the truth of its tool call.                            *)
(***************************************************************************)
EXTENDS AgentApproval, TLAPS

\* The request holds the claim of the execution.
Acting(c)  == at[c].phase \in {"execute", "store"}
Claimed(c) == Acting(c) \/ attempt[c] > 0

\* A row that a request read, and may still swap, is the row if its revision is;
\* the claimant's revision is the row's.
RowInv(c) ==
    /\ item[c].status \in {"approval_required", "approved"} =>
          /\ item[c].revision <= approval.revision
          /\ item[c].revision = approval.revision => item[c].status = approval.status
    /\ at[c].step \in {"read", "expire"} => at[c].phase \in Phases
    /\ at[c].step = "expire" => item[c].status = "approval_required"
    /\ Acting(c) => item[c].revision = approval.revision /\ approval.status = "executing"
    /\ at[c].phase = "execute" => attempt[c] <= CallRetries
    /\ at[c].phase \in {"store", "save"} => outcome[c].verdict # "none"

\* Nobody claims before the claim is stored, and one request claims.
ClaimInv ==
    /\ \A c \in Requests : Claimed(c) => approval.status \in {"executing", "succeeded", "failed"}
    /\ \A c, e \in Requests : Claimed(c) /\ Claimed(e) => c = e

\* Effects are counted by the attempts of one request.
EffectInv == toolEffects > 0 => \E c \in Requests : toolEffects <= attempt[c]

\* The row remembers whether it was approved.
ApprovedInv ==
    IF approval.status \in {"approval_required"} \cup Refusing
    THEN approvedBy = {}
    ELSE \E c \in Requests : approvedBy = {c}

ApprovalInv ==
    /\ ApprovalTypeOK /\ \A c \in Requests : RowInv(c)
    /\ ClaimInv /\ EffectInv /\ ApprovedInv

\* Nothing is claimed, executed or stored when the runtime starts.
LEMMA InitApproval == ApprovalInit => ApprovalInv
<1> SUFFICES ASSUME ApprovalInit PROVE ApprovalInv
  OBVIOUS
<1>0. approval \in Row /\ Nothing \in Outcome /\ In("idle") \in Position
  BY DEF ApprovalInit, Row, ApprovalStatus, Summary, Nothing, Outcome, In, Position
<1>1. ApprovalTypeOK
  <2>1. item \in [Requests -> Row] /\ outcome \in [Requests -> Outcome]
        /\ at \in [Requests -> Position]
    BY <1>0 DEF ApprovalInit
  <2> QED
    BY <1>0, <2>1, ApprovalBounds DEF ApprovalInit, ApprovalTypeOK
<1>2. ASSUME NEW c \in Requests PROVE RowInv(c) /\ ~Claimed(c)
  <2>1. at[c].phase = "idle" /\ at[c].step = "act" /\ item[c] = approval /\ attempt[c] = 0
    BY DEF ApprovalInit, In
  <2>2. approval.revision <= approval.revision
    BY DEF ApprovalInit
  <2> QED
    BY <2>1, <2>2 DEF RowInv, Claimed, Acting
<1> QED
  BY <1>1, <1>2 DEF ApprovalInit, ApprovalInv, ClaimInv, EffectInv, ApprovedInv

-----------------------------------------------------------------------------
(* Types.                                                                    *)

\* compare_and_set leaves a row.
LEMMA SwapType ==
  ASSUME approval \in Row, NEW seen \in Row, NEW s \in ApprovalStatus, NEW r \in Summary,
         CompareAndSet(seen, s, r)
  PROVE  approval' \in Row
BY DEF CompareAndSet, Revised, Row

\* Every place a step moves a request to is a place the type invariant knows.
LEMMA Places ==
    /\ \A p \in Phases \cup {"idle", "reread", "execute", "store", "save", "done"} :
           Start(p) \in Position /\ In(p) \in Position
    /\ \A x \in Position : \A s \in {"read", "expire", "act"} :
           [x EXCEPT !.step = s] \in Position
BY DEF Start, In, Position

\* Every outcome a step reports is one the type invariant knows.
LEMMA Outcomes ==
    /\ Nothing \in Outcome
    /\ \A v \in {"continued", "failed"} \cup Refusing : Verdict(v) \in Outcome
    /\ \A row \in Row : Stored(row) \in Outcome
    /\ \A s \in Summary, b \in BOOLEAN :
           [verdict |-> "continued", summary |-> s, output |-> b] \in Outcome
BY DEF Outcome, Nothing, Verdict, Stored, Row, Summary

\* A step of a request moves it to a place, and its parts keep their types.
LEMMA TypeStep == ASSUME ApprovalInv, ApprovalNext PROVE ApprovalTypeOK'
<1> USE DEF local, Goto, Returns, Phases
<1>0. /\ ApprovalTypeOK /\ CallRetries \in Nat /\ MaxClock \in Nat
      /\ {"approval_required", "approved", "executing", "expired", "succeeded", "failed"}
           \subseteq ApprovalStatus
      /\ {"none", "success", "reused", "failed"} \subseteq Summary
      /\ \A d \in Choices : Decided(d) \in ApprovalStatus
  BY ApprovalBounds DEF ApprovalInv, ApprovalStatus, Summary, Choices, Decided
<1>1. ASSUME NEW c \in Requests, LoadRun(c) PROVE ApprovalTypeOK'
  BY <1>0, <1>1, Places DEF LoadRun, ApprovalTypeOK
<1>2. ASSUME NEW c \in Requests, Read(c) PROVE ApprovalTypeOK'
  <2>1. item' \in [Requests -> Row]
    BY <1>0, <1>2 DEF Read, ApprovalTypeOK
  <2>2. PICK x \in Position : at' = [at EXCEPT ![c] = x]
    <3>1. at[c] \in Position
      BY <1>0 DEF ApprovalTypeOK
    <3>2. [at[c] EXCEPT !.step = IF Overdue(approval) THEN "expire" ELSE "act"] \in Position
      BY <3>1, Places
    <3>3. CASE at' = [at EXCEPT ![c] = In("done")]
      BY <3>3, Places
    <3>4. CASE at' = [at EXCEPT ![c].step = IF Overdue(approval) THEN "expire" ELSE "act"]
      BY <3>2, <3>4
    <3> QED
      BY <1>2, <3>3, <3>4 DEF Read
  <2>3. at' \in [Requests -> Position]
    BY <1>0, <2>2 DEF ApprovalTypeOK
  <2> QED
    BY <1>0, <1>2, <2>1, <2>3 DEF Read, ApprovalTypeOK
<1>3. ASSUME NEW c \in Requests, Expire(c) PROVE ApprovalTypeOK'
  <2>1. approval' \in Row
    BY <1>0, <1>3, SwapType DEF Expire, ApprovalTypeOK
  <2>2. at' \in [Requests -> Position]
    BY <1>0, <1>3, Places DEF Expire, ApprovalTypeOK
  <2>3. item' \in [Requests -> Row]
    <3>1. Revised(item[c], "expired", "none") \in Row
      BY <1>0 DEF ApprovalTypeOK, Row, Revised
    <3> QED
      BY <1>0, <1>3, <3>1 DEF Expire, ApprovalTypeOK
  <2> QED
    BY <1>0, <1>3, <2>1, <2>2, <2>3 DEF Expire, ApprovalTypeOK
<1>4. ASSUME NEW c \in Requests, View(c) PROVE ApprovalTypeOK'
  BY <1>0, <1>4, Places DEF View, ApprovalTypeOK
<1>5. ASSUME NEW c \in Requests, Decide(c) PROVE ApprovalTypeOK'
  <2>1. UNCHANGED <<approval, approvedBy>>
        \/ /\ \E d \in Choices : CompareAndSet(item[c], Decided(d), "none")
           /\ approvedBy' \subseteq approvedBy \cup {c}
    BY <1>5 DEF Decide
  <2>2. approval' \in Row
    BY <1>0, <2>1, SwapType DEF ApprovalTypeOK
  <2>3. approvedBy' \subseteq Requests
    BY <1>0, <2>1 DEF ApprovalTypeOK
  <2>4. at' \in [Requests -> Position]
    BY <1>0, <1>5, Places DEF Decide, ApprovalTypeOK
  <2>5. UNCHANGED <<checkpoint, now, local, toolEffects>>
    BY <1>5 DEF Decide
  <2> QED
    BY <1>0, <2>2, <2>3, <2>4, <2>5 DEF ApprovalTypeOK
<1>6. ASSUME NEW c \in Requests, Look(c) PROVE ApprovalTypeOK'
  <2>1. outcome' \in [Requests -> Outcome]
    BY <1>0, <1>6, Outcomes DEF Look, ApprovalTypeOK
  <2> QED
    BY <1>0, <1>6, <2>1, Places DEF Look, ApprovalTypeOK
<1>7. ASSUME NEW c \in Requests, Claim(c) PROVE ApprovalTypeOK'
  <2>1. approval' \in Row
    BY <1>0, <1>7, SwapType DEF Claim, ApprovalTypeOK
  <2>2. item' \in [Requests -> Row]
    <3>1. Revised(item[c], "executing", "none") \in Row
      BY <1>0 DEF ApprovalTypeOK, Row, Revised
    <3> QED
      BY <1>0, <1>7, <3>1 DEF Claim, ApprovalTypeOK
  <2>3. outcome' \in [Requests -> Outcome]
    BY <1>0, <1>7, Outcomes DEF Claim, ApprovalTypeOK
  <2>4. at' \in [Requests -> Position]
    BY <1>0, <1>7, Places DEF Claim, ApprovalTypeOK
  <2> QED
    BY <1>0, <1>7, <2>1, <2>2, <2>3, <2>4 DEF Claim, ApprovalTypeOK
<1>8. ASSUME NEW c \in Requests, Reread(c) PROVE ApprovalTypeOK'
  <2>1. outcome' \in [Requests -> Outcome]
    BY <1>0, <1>8, Outcomes DEF Reread, ApprovalTypeOK
  <2> QED
    BY <1>0, <1>8, <2>1, Places DEF Reread, ApprovalTypeOK
<1>9. ASSUME NEW c \in Requests, CallAnswers(c) \/ CallTimesOut(c) \/ CallRaises(c)
      PROVE  ApprovalTypeOK'
  <2>0. attempt[c] <= CallRetries
    BY <1>9 DEF ApprovalInv, RowInv, CallAnswers, CallTimesOut, CallRaises, In
  <2>1. toolEffects' \in Nat
    BY <1>0, <1>9 DEF CallAnswers, CallTimesOut, CallRaises, Effect, ApprovalTypeOK
  <2>2. attempt' \in [Requests -> 0..CallRetries + 1]
    BY <1>0, <1>9, <2>0 DEF CallAnswers, CallTimesOut, CallRaises, ApprovalTypeOK
  <2>3. outcome' \in [Requests -> Outcome]
    <3>1. PICK x \in Outcome : outcome' = [outcome EXCEPT ![c] = x]
      <4>1. CASE CallAnswers(c)
        BY <1>0, <4>1, Outcomes DEF CallAnswers
      <4>2. CASE CallTimesOut(c)
        <5>1. outcome[c] \in Outcome
          BY <1>0 DEF ApprovalTypeOK
        <5> QED
          BY <1>0, <4>2, <5>1, Outcomes DEF CallTimesOut
      <4>3. CASE CallRaises(c)
        BY <1>0, <4>3, Outcomes DEF CallRaises
      <4> QED
        BY <1>9, <4>1, <4>2, <4>3
    <3> QED
      BY <1>0, <3>1 DEF ApprovalTypeOK
  <2>4. at' \in [Requests -> Position]
    BY <1>0, <1>9, Places DEF CallAnswers, CallTimesOut, CallRaises, ApprovalTypeOK
  <2>5. UNCHANGED <<approval, checkpoint, now, loaded, item, approvedBy>>
    BY <1>9 DEF CallAnswers, CallTimesOut, CallRaises
  <2> QED
    BY <1>0, <2>1, <2>2, <2>3, <2>4, <2>5 DEF ApprovalTypeOK
<1>9a. ASSUME NEW c \in Requests, Reuse(c) PROVE ApprovalTypeOK'
  <2>1. outcome' \in [Requests -> Outcome]
    BY <1>0, <1>9a, Outcomes DEF Reuse, ApprovalTypeOK
  <2>2. at' \in [Requests -> Position]
    BY <1>0, <1>9a, Places DEF Reuse, ApprovalTypeOK
  <2> QED
    BY <1>0, <1>9a, <2>1, <2>2 DEF Reuse, ApprovalTypeOK
<1>10. ASSUME NEW c \in Requests, Store(c) PROVE ApprovalTypeOK'
  <2>1. outcome[c].summary \in Summary /\ item[c] \in Row
    BY <1>0 DEF ApprovalTypeOK, Outcome
  <2>2. approval' \in Row
    BY <1>0, <1>10, <2>1, SwapType DEF Store, ApprovalTypeOK
  <2>3. outcome' \in [Requests -> Outcome]
    BY <1>0, <1>10, Outcomes DEF Store, ApprovalTypeOK
  <2>4. at' \in [Requests -> Position]
    BY <1>0, <1>10, Places DEF Store, ApprovalTypeOK
  <2> QED
    BY <1>0, <1>10, <2>2, <2>3, <2>4 DEF Store, ApprovalTypeOK
<1>11. ASSUME NEW c \in Requests, SaveRun(c) PROVE ApprovalTypeOK'
  <2>1. outcome[c] \in Outcome /\ outcome[c].verdict # "none"
    BY <1>0, <1>11 DEF ApprovalInv, RowInv, SaveRun, In, ApprovalTypeOK
  <2>2. checkpoint' \in [status : {"waiting", "continued", "failed", "exhausted", "rejected",
                                   "cancelled"},
                         hitl : {"approval_required", "succeeded"} \cup Refusing,
                         evidence : {"none", "output", "empty"}]
    BY <1>0, <1>11, <2>1
       DEF SaveRun, RunStatus, HitlStatus, Evidence, ApprovalTypeOK, Outcome, Refusing
  <2>3. at' \in [Requests -> Position]
    BY <1>0, <1>11, Places DEF SaveRun, ApprovalTypeOK
  <2>4. outcome' \in [Requests -> Outcome]
    BY <1>0, <1>11, Outcomes DEF SaveRun, ApprovalTypeOK
  <2> QED
    BY <1>0, <1>11, <2>2, <2>3, <2>4 DEF SaveRun, ApprovalTypeOK
<1>12. ASSUME NEW c \in Requests, TimeRunsOut(c) PROVE ApprovalTypeOK'
  BY <1>0, <1>12, Places, Outcomes DEF TimeRunsOut, ApprovalTypeOK
<1>13. CASE ClockTicks
  BY <1>0, <1>13 DEF ClockTicks, ApprovalTypeOK
<1> QED
  BY <1>1, <1>2, <1>3, <1>4, <1>5, <1>6, <1>7, <1>8, <1>9, <1>10, <1>11, <1>12, <1>13,
     <1>9a DEF ApprovalNext, RequestStep
-----------------------------------------------------------------------------
(* Safety.                                                                   *)

\* A request that stands between its read and its swap, and wins, finds the row
\* as it read it: a row that is refused or executed is not swapped any more.
LEMMA SwapFinds ==
  ASSUME ApprovalInv, NEW c \in Requests, Wins(item[c]),
         item[c].status \in {"approval_required", "approved"} \/ at[c].phase = "store"
  PROVE  approval.status = IF at[c].phase = "store" THEN "executing" ELSE item[c].status
BY DEF ApprovalInv, RowInv, Wins, Acting

Same(e) == UNCHANGED <<item[e], at[e], attempt[e], outcome[e]>>

\* A step of one request leaves the others where they are.
LEMMA OthersKeep ==
  ASSUME ApprovalTypeOK, NEW c \in Requests, RequestStep(c), NEW e \in Requests, e # c
  PROVE  Same(e)
<1> USE DEF ApprovalTypeOK, local, Goto, Returns, Same
<1>1. CASE LoadRun(c) \/ View(c) \/ Decide(c) \/ SaveRun(c) \/ TimeRunsOut(c)
  BY <1>1 DEF LoadRun, View, Decide, SaveRun, TimeRunsOut
<1>2. CASE Read(c) \/ Expire(c)
  BY <1>2 DEF Read, Expire
<1>3. CASE Look(c) \/ Claim(c) \/ Reread(c) \/ Store(c)
  BY <1>3 DEF Look, Claim, Reread, Store
<1>4. CASE Reuse(c) \/ CallAnswers(c) \/ CallTimesOut(c) \/ CallRaises(c)
  BY <1>4 DEF Reuse, CallAnswers, CallTimesOut, CallRaises
<1> QED
  BY <1>1, <1>2, <1>3, <1>4 DEF RequestStep

\* A row that is swapped outgrows what the other requests read of it.
LEMMA SwapRow ==
  ASSUME ApprovalInv, NEW e \in Requests, Same(e), ~Acting(e),
         approval'.revision = approval.revision + 1
  PROVE  RowInv(e)' /\ ~Acting(e)'
<1>1. approval.revision \in Nat /\ item[e].revision \in Nat
  BY DEF ApprovalInv, ApprovalTypeOK, Row
<1> QED
  BY <1>1 DEF ApprovalInv, RowInv, Acting, Same

\* A step that leaves the row alone, and gives its request no claim.
LEMMA QuietStep ==
  ASSUME ApprovalInv, ApprovalTypeOK', NEW c \in Requests, \A e \in Requests \ {c} : Same(e),
         UNCHANGED <<approval, attempt, toolEffects, approvedBy>>,
         RowInv(c)', ~Acting(c)'
  PROVE  ApprovalInv'
<1>1. ASSUME NEW e \in Requests, e # c PROVE RowInv(e)' /\ (Acting(e)' => Acting(e))
  BY <1>1 DEF ApprovalInv, RowInv, Acting, Same
<1> QED
  BY <1>1 DEF ApprovalInv, ClaimInv, Claimed, EffectInv, ApprovedInv

\* A step that swaps the row, while no other request holds or held the claim.
LEMMA SwapStep ==
  ASSUME ApprovalInv, ApprovalTypeOK', NEW c \in Requests,
         \A e \in Requests \ {c} : Same(e) /\ ~Claimed(e),
         approval'.revision = approval.revision + 1, UNCHANGED <<attempt, toolEffects>>,
         RowInv(c)', ApprovedInv',
         Claimed(c)' => approval'.status \in {"executing", "succeeded", "failed"}
  PROVE  ApprovalInv'
<1>1. ASSUME NEW e \in Requests, e # c PROVE RowInv(e)' /\ ~Claimed(e)'
  BY <1>1, SwapRow DEF Claimed, Same
<1>2. \A e \in Requests : RowInv(e)'
  BY <1>1
<1>3. ClaimInv'
  BY <1>1 DEF ClaimInv
<1>4. EffectInv'
  BY DEF ApprovalInv, EffectInv
<1> QED
  BY <1>2, <1>3, <1>4 DEF ApprovalInv

\* Every step keeps the invariant: one case per action.
LEMMA SafetyStep == ASSUME ApprovalInv, ApprovalNext PROVE ApprovalInv'
<1>0. /\ ApprovalTypeOK /\ ApprovalTypeOK' /\ CallRetries \in Nat
      /\ at \in [Requests -> Position] /\ item \in [Requests -> Row]
      /\ outcome \in [Requests -> Outcome] /\ attempt \in [Requests -> 0..CallRetries + 1]
      /\ approval.revision \in Nat
  BY TypeStep, ApprovalBounds DEF ApprovalInv, ApprovalTypeOK, Row
<1>1. CASE ClockTicks
  BY <1>0, <1>1 DEF ClockTicks, local, ApprovalInv, RowInv, ClaimInv, Claimed, Acting, EffectInv,
     ApprovedInv
<1>2. ASSUME NEW c \in Requests, RequestStep(c) PROVE ApprovalInv'
  <2> USE DEF local, Goto, Returns, In, Start
  <2>0. RowInv(c) /\ \A e \in Requests \ {c} : Same(e)
    BY <1>0, <1>2, OthersKeep DEF ApprovalInv
  <2>1. CASE LoadRun(c) \/ View(c)
    <3>1. RowInv(c)' /\ ~Acting(c)' /\ UNCHANGED <<approval, attempt, toolEffects, approvedBy>>
      BY <1>0, <2>0, <2>1 DEF LoadRun, View, RowInv, Acting, Phases
    <3> QED
      BY <1>0, <2>0, <3>1, QuietStep
  <2>2. CASE Read(c)
    <3>1. /\ at'[c].phase \in Phases \cup {"done"}
          /\ at'[c].step \in {"expire", "act"}
          /\ at'[c].step = "expire" => at'[c].phase \in Phases /\ Overdue(approval)
          /\ item'[c] = approval \/ (item'[c] = item[c] /\ at'[c].step = "act")
      <4>1. CASE at' = [at EXCEPT ![c] = In("done")] /\ item' = item
        BY <1>0, <4>1
      <4>2. CASE /\ item' = [item EXCEPT ![c] = approval]
                 /\ at' = [at EXCEPT ![c].step = IF Overdue(approval) THEN "expire" ELSE "act"]
        BY <1>0, <2>0, <2>2, <4>2 DEF RowInv, Read, Position
      <4> QED
        BY <2>2, <4>1, <4>2 DEF Read
    <3>2. UNCHANGED <<approval, attempt, toolEffects, approvedBy>>
      BY <2>2 DEF Read
    <3>3. RowInv(c)' /\ ~Acting(c)'
      BY <1>0, <2>0, <3>1, <3>2 DEF RowInv, Acting, Overdue, Phases
    <3> QED
      BY <1>0, <2>0, <3>2, <3>3, QuietStep
  <2>3. CASE Expire(c)
    <3>1. /\ at'[c].phase \in Phases /\ at'[c].step = "act" /\ at[c].phase \in Phases
          /\ item'[c].status = "expired" /\ item[c].status = "approval_required"
          /\ UNCHANGED <<attempt, toolEffects, approvedBy>>
      BY <1>0, <2>0, <2>3 DEF Expire, RowInv, Position, Revised
    <3>2. RowInv(c)' /\ ~Acting(c)' /\ ~Acting(c)
      BY <3>1 DEF RowInv, Acting, Phases
    <3>3. CASE ~Wins(item[c])
      <4>1. approval' = approval
        BY <2>3, <3>3 DEF Expire, CompareAndSet
      <4> QED
        BY <1>0, <2>0, <3>1, <3>2, <4>1, QuietStep
    <3>4. CASE Wins(item[c])
      <4>1. /\ approval' = Revised(item[c], "expired", "none")
            /\ approval.status = "approval_required"
        BY <2>3, <3>1, <3>4, SwapFinds DEF Expire, CompareAndSet, Phases
      <4>2. approval'.revision = approval.revision + 1 /\ approval'.status = "expired"
        BY <3>4, <4>1 DEF Wins, Revised
      <4>3. \A e \in Requests : ~Claimed(e)
        BY <4>1 DEF ApprovalInv, ClaimInv
      <4>4. ApprovedInv' /\ ~Claimed(c)'
        BY <3>1, <3>2, <4>1, <4>2, <4>3 DEF ApprovalInv, ApprovedInv, Refusing, Claimed
      <4> QED
        BY <1>0, <2>0, <3>1, <3>2, <4>2, <4>3, <4>4, SwapStep
    <3> QED
      BY <3>3, <3>4
  <2>4. CASE Decide(c)
    <3>1. /\ at[c] = In("decide") /\ at'[c] = Start("look") /\ item' = item
          /\ UNCHANGED <<attempt, toolEffects>>
      BY <1>0, <2>4 DEF Decide
    <3>2. ~Acting(c) /\ ~Acting(c)'
      BY <3>1 DEF Acting
    <3>3. CASE item[c].status # "approval_required" \/ ~Wins(item[c])
      <4>1. UNCHANGED <<approval, approvedBy>>
        BY <2>4, <3>3 DEF Decide, CompareAndSet
      <4>2. RowInv(c)'
        BY <2>0, <3>1, <4>1 DEF RowInv, Acting, Phases
      <4> QED
        BY <1>0, <2>0, <3>1, <3>2, <4>1, <4>2, QuietStep
    <3>4. CASE item[c].status = "approval_required" /\ Wins(item[c])
      <4>1. approval.status = "approval_required"
        BY <3>1, <3>4, SwapFinds
      <4>0. PICK d \in Choices :
               /\ CompareAndSet(item[c], Decided(d), "none")
               /\ approvedBy' = IF d = "approve" THEN approvedBy \cup {c} ELSE approvedBy
        BY <2>4, <3>4 DEF Decide
      <4>2. /\ approval' = Revised(item[c], Decided(d), "none")
            /\ approval'.revision = approval.revision + 1
            /\ approval'.status = Decided(d)
        BY <3>4, <4>0 DEF CompareAndSet, Revised, Wins
      <4>3. \A e \in Requests : ~Claimed(e)
        BY <4>1 DEF ApprovalInv, ClaimInv
      <4>4. item[c].revision = approval.revision
        BY <3>4 DEF Wins
      <4>5. RowInv(c)' /\ ~Claimed(c)'
        BY <1>0, <3>1, <3>2, <4>2, <4>3, <4>4 DEF RowInv, Claimed, Acting, Phases
      <4>6. ApprovedInv'
        <5>1. approvedBy = {}
          BY <4>1 DEF ApprovalInv, ApprovedInv
        <5>2. approvedBy' = IF d = "approve" THEN {c} ELSE {}
          BY <4>0, <5>1
        <5> QED
          BY <4>2, <5>2 DEF ApprovedInv, Refusing, Decided, Choices
      <4> QED
        BY <1>0, <2>0, <3>1, <4>2, <4>3, <4>5, <4>6, SwapStep
    <3> QED
      BY <3>3, <3>4
  <2>5. CASE Look(c) \/ Reread(c) \/ SaveRun(c) \/ TimeRunsOut(c)
    <3>1. UNCHANGED <<approval, attempt, toolEffects, approvedBy, item>>
      BY <2>5 DEF Look, Reread, SaveRun, TimeRunsOut
    <3>2. \/ at'[c] = In("save") /\ outcome'[c].verdict # "none"
          \/ at'[c] = Start("claim")
          \/ at'[c] = In("done")
      BY <1>0, <2>5 DEF Look, Reread, SaveRun, TimeRunsOut, Stored, Verdict, Nothing, Refusing
    <3>3. RowInv(c)' /\ ~Acting(c)'
      BY <2>0, <3>1, <3>2 DEF RowInv, Acting, Phases
    <3> QED
      BY <1>0, <2>0, <3>1, <3>3, QuietStep
  <2>6. CASE Claim(c)
    <3>1. at[c] = In("claim") /\ UNCHANGED <<attempt, toolEffects, approvedBy>>
      BY <2>6 DEF Claim
    <3>2. CASE item[c].status # "approved"
      <4>1. /\ UNCHANGED <<approval, item>>
            /\ at'[c] = In("save") /\ outcome'[c].verdict # "none"
        BY <1>0, <2>6, <3>2 DEF Claim, Stored, Verdict, Nothing
      <4>2. RowInv(c)' /\ ~Acting(c)'
        BY <2>0, <4>1 DEF RowInv, Acting
      <4> QED
        BY <1>0, <2>0, <3>1, <4>1, <4>2, QuietStep
    <3>3. CASE item[c].status = "approved" /\ ~Wins(item[c])
      <4>1. /\ approval' = approval /\ at'[c] = In("reread")
            /\ item'[c].status = "executing"
        BY <1>0, <2>6, <3>3 DEF Claim, CompareAndSet, Revised
      <4>2. RowInv(c)' /\ ~Acting(c)'
        BY <4>1 DEF RowInv, Acting
      <4> QED
        BY <1>0, <2>0, <3>1, <4>1, <4>2, QuietStep
    <3>4. CASE item[c].status = "approved" /\ Wins(item[c])
      <4>1. approval.status = "approved" /\ item[c].revision = approval.revision
        BY <3>1, <3>4, SwapFinds DEF Wins
      <4>2. /\ approval' = Revised(item[c], "executing", "none")
            /\ item'[c] = Revised(item[c], "executing", "none")
            /\ at'[c] = In("execute")
        BY <1>0, <2>6, <3>4 DEF Claim, CompareAndSet
      <4>3. /\ approval'.status = "executing" /\ item'[c].status = "executing"
            /\ approval'.revision = approval.revision + 1
            /\ item'[c].revision = approval'.revision
        BY <4>1, <4>2 DEF Revised
      <4>4. \A e \in Requests : ~Claimed(e)
        BY <4>1 DEF ApprovalInv, ClaimInv
      <4>5. attempt'[c] = 0
        BY <1>0, <3>1, <4>4 DEF Claimed
      <4>6. RowInv(c)'
        BY <1>0, <4>2, <4>3, <4>5 DEF RowInv, Acting
      <4>7. ApprovedInv'
        BY <3>1, <4>1, <4>3 DEF ApprovalInv, ApprovedInv, Refusing
      <4> QED
        BY <1>0, <2>0, <3>1, <4>3, <4>4, <4>6, <4>7, SwapStep
    <3> QED
      BY <3>2, <3>3, <3>4
  <2>7. CASE CallAnswers(c) \/ CallTimesOut(c) \/ CallRaises(c)
    <3>1. /\ at[c] = In("execute") /\ UNCHANGED <<approval, item, approvedBy>>
          /\ attempt'[c] = attempt[c] + 1 /\ toolEffects' \in {toolEffects, toolEffects + 1}
      BY <1>0, <2>7 DEF CallAnswers, CallTimesOut, CallRaises, Effect
    <3>2. /\ at'[c] \in {In("execute"), In("store")}
          /\ at'[c] = In("execute") => attempt[c] < CallRetries
          /\ at'[c] = In("store") => outcome'[c].verdict # "none"
      BY <1>0, <2>7 DEF CallAnswers, CallTimesOut, CallRaises, Verdict, Nothing
    <3>3. Acting(c) /\ Acting(c)' /\ Claimed(c)
      BY <3>1, <3>2 DEF Acting, Claimed
    <3>4. attempt[c] \in Nat /\ toolEffects \in Nat
      BY <1>0 DEF ApprovalTypeOK
    <3>5. RowInv(c)'
      BY <1>0, <2>0, <3>1, <3>2, <3>3, <3>4 DEF RowInv, Acting
    <3>6. ASSUME NEW e \in Requests, e # c PROVE RowInv(e)' /\ ~Claimed(e)' /\ ~Claimed(e)
      BY <2>0, <3>1, <3>3, <3>6 DEF ApprovalInv, ClaimInv, Claimed, Acting, RowInv, Same
    <3>7. EffectInv'
      <4>1. toolEffects <= attempt[c]
        BY <3>4, <3>6 DEF ApprovalInv, EffectInv, Claimed, ApprovalTypeOK
      <4>2. toolEffects' <= attempt'[c]
        BY <3>1, <3>4, <4>1
      <4> QED
        BY <4>2 DEF EffectInv
    <3>8. ClaimInv' /\ ApprovedInv'
      BY <3>1, <3>3, <3>6 DEF ApprovalInv, ClaimInv, ApprovedInv
    <3> QED
      BY <1>0, <3>5, <3>6, <3>7, <3>8 DEF ApprovalInv
  <2>8. CASE Store(c)
    <3>1. /\ at[c] = In("store") /\ at'[c] = In("save")
          /\ UNCHANGED <<item, attempt, toolEffects, approvedBy>>
      BY <1>0, <2>8 DEF Store
    <3>2. Acting(c) /\ Claimed(c) /\ item[c].revision = approval.revision
          /\ approval.status = "executing"
      BY <2>0, <3>1 DEF RowInv, Acting, Claimed
    <3>3. /\ approval'.revision = approval.revision + 1
          /\ approval'.status \in {"succeeded", "failed"}
          /\ outcome'[c].verdict # "none"
      BY <1>0, <2>0, <2>8, <3>1, <3>2 DEF Store, CompareAndSet, Wins, Revised, RowInv, Verdict,
         Nothing
    <3>4. \A e \in Requests \ {c} : ~Claimed(e)
      BY <3>2 DEF ApprovalInv, ClaimInv
    <3>5. RowInv(c)'
      BY <1>0, <2>0, <3>1, <3>3, <3>2 DEF RowInv, Acting
    <3>6. ApprovedInv'
      BY <3>1, <3>2, <3>3 DEF ApprovalInv, ApprovedInv, Refusing
    <3> QED
      BY <1>0, <2>0, <3>1, <3>3, <3>4, <3>5, <3>6, SwapStep
  <2>9. CASE Reuse(c)
    <3>1. /\ at[c] = In("execute") /\ at'[c] = In("store") /\ outcome'[c].verdict # "none"
          /\ UNCHANGED <<approval, item, attempt, toolEffects, approvedBy>>
      BY <1>0, <2>9 DEF Reuse
    <3>2. Acting(c) /\ Acting(c)' /\ Claimed(c)
      BY <3>1 DEF Acting, Claimed
    <3>3. RowInv(c)'
      BY <2>0, <3>1, <3>2 DEF RowInv, Acting
    <3>4. ASSUME NEW e \in Requests, e # c PROVE RowInv(e)' /\ ~Claimed(e)'
      BY <2>0, <3>1, <3>2, <3>4 DEF ApprovalInv, ClaimInv, Claimed, Acting, RowInv, Same
    <3>5. ClaimInv' /\ EffectInv' /\ ApprovedInv'
      BY <3>1, <3>2, <3>4 DEF ApprovalInv, ClaimInv, EffectInv, ApprovedInv
    <3> QED
      BY <1>0, <3>3, <3>4, <3>5 DEF ApprovalInv
  <2> QED
    BY <1>2, <2>1, <2>2, <2>3, <2>4, <2>5, <2>6, <2>7, <2>8, <2>9 DEF RequestStep
<1> QED
  BY <1>1, <1>2 DEF ApprovalNext

\* A stuttering step keeps the invariant.
LEMMA ApprovalStutters == ASSUME ApprovalInv, UNCHANGED approvalVars PROVE ApprovalInv'
BY DEF approvalVars, local, ApprovalInv, ApprovalTypeOK, RowInv, ClaimInv, Claimed, Acting,
   EffectInv, ApprovedInv, Overdue

\* An effect has a claim behind it, and a claim an approval.
LEMMA EffectsFollow == ApprovalInv => EffectsAreApproved
<1> SUFFICES ASSUME ApprovalInv, toolEffects > 0 PROVE EffectsAreApproved
  BY DEF EffectsAreApproved
<1>1. PICK c \in Requests : toolEffects <= attempt[c]
  BY DEF ApprovalInv, EffectInv
<1>2. attempt[c] > 0
  BY <1>1 DEF ApprovalInv, ApprovalTypeOK
<1>3. approval.status \in {"executing", "succeeded", "failed"}
  BY <1>2 DEF ApprovalInv, ClaimInv, Claimed
<1> QED
  BY <1>3 DEF ApprovalInv, ApprovedInv, EffectsAreApproved, Refusing

-----------------------------------------------------------------------------
(* Ends.                                                                     *)

Concluded == approval.status \in Refusing \cup {"succeeded", "failed"}

\* A swap finds its row only where the row may go on: an end is not swapped.
LEMMA EndStays == ASSUME ApprovalInv, ApprovalNext, Concluded PROVE approval' = approval
<1> USE DEF local, Goto, Returns, In, Refusing, Concluded
<1>1. ASSUME NEW c \in Requests, RequestStep(c) PROVE approval' = approval
  <2>1. CASE Expire(c)
    <3>1. item[c].status = "approval_required" /\ at[c].phase # "store"
      BY <2>1 DEF ApprovalInv, RowInv, Expire, Phases
    <3>2. ~Wins(item[c])
      BY <3>1, SwapFinds
    <3> QED
      BY <2>1, <3>2 DEF Expire, CompareAndSet
  <2>2. CASE Decide(c)
    <3>1. at[c].phase # "store"
      BY <2>2 DEF Decide
    <3>2. item[c].status = "approval_required" => ~Wins(item[c])
      BY <3>1, SwapFinds
    <3> QED
      BY <2>2, <3>2 DEF Decide, CompareAndSet
  <2>3. CASE Claim(c)
    <3>1. at[c].phase # "store"
      BY <2>3 DEF Claim
    <3>2. item[c].status = "approved" => ~Wins(item[c])
      BY <3>1, SwapFinds
    <3> QED
      BY <2>3, <3>2 DEF Claim, CompareAndSet
  <2>4. CASE Store(c)
    <3>1. at[c].phase = "store"
      BY <2>4 DEF Store
    <3>2. ~Wins(item[c])
      BY <3>1, SwapFinds
    <3> QED
      BY <2>4, <3>2 DEF Store, CompareAndSet
  <2>5. CASE ~(Expire(c) \/ Decide(c) \/ Claim(c) \/ Store(c))
    BY <1>1, <2>5 DEF RequestStep, LoadRun, Read, View, Look, Reread, Reuse,
       CallAnswers, CallTimesOut, CallRaises, SaveRun, TimeRunsOut
  <2> QED
    BY <2>1, <2>2, <2>3, <2>4, <2>5
<1>2. CASE ClockTicks
  BY <1>2 DEF ClockTicks
<1> QED
  BY <1>1, <1>2 DEF ApprovalNext

-----------------------------------------------------------------------------
(* What the run is told is what became of its tool call.                     *)

\* A refusal or a result that a request carries, read from the row or its own, is
\* the row's: both are final.
CarriesTruth(c) ==
    /\ item[c].status \in {"rejected", "cancelled", "succeeded"} => item[c] = approval
    /\ outcome[c].verdict \in {"rejected", "cancelled"} => approval.status = outcome[c].verdict
    /\ at[c].phase = "store" => outcome[c].verdict \in {"continued", "failed"}
    /\ outcome[c].verdict = "continued" =>
          /\ outcome[c].summary # "none"
          /\ outcome[c].summary = "success" => toolEffects > 0
          /\ at[c].phase = "store" /\ outcome[c].summary = "reused" => attempt[c] = 0
          /\ at[c].phase = "save" => /\ approval.status = "succeeded"
                                    /\ approval.result = outcome[c].summary
    /\ outcome[c].verdict = "failed" => outcome[c].summary = "none"

\* A stored result is one, and a successful one has had its effect.
ResultInv ==
    approval.status = "succeeded" =>
        /\ approval.result # "none"
        /\ approval.result = "success" => toolEffects > 0

\* There is no result before there is an end, and none of a call that failed.
BlankInv == approval.status # "succeeded" => approval.result = "none"

\* The checkpoint says of the approval what the approval says, unless it says that
\* the approval expired.
CheckpointInv ==
    /\ checkpoint.status \in {"rejected", "cancelled"} /\ checkpoint.hitl # "expired" =>
          approval.status = checkpoint.status
    /\ checkpoint.status = "continued" =>
          approval.status = "succeeded" /\ (toolEffects > 0 \/ approval.result = "reused")

TruthInv ==
    /\ ApprovalInv /\ ResultInv /\ BlankInv /\ CheckpointInv
    /\ \A c \in Requests : CarriesTruth(c)

\* Nothing is decided or carried when the runtime starts.
LEMMA InitTruth == ApprovalInit => TruthInv
<1> SUFFICES ASSUME ApprovalInit PROVE TruthInv
  OBVIOUS
<1>1. ASSUME NEW c \in Requests PROVE CarriesTruth(c)
  BY DEF ApprovalInit, CarriesTruth, Nothing, In
<1> QED
  BY <1>1, InitApproval DEF ApprovalInit, TruthInv, ResultInv, BlankInv, CheckpointInv

\* Only the result of an execution puts one in the row.
LEMMA BlankStep == ASSUME TruthInv, ApprovalNext PROVE BlankInv'
<1>1. CASE approval' = approval
  BY <1>1 DEF TruthInv, BlankInv
<1>2. ASSUME NEW c \in Requests, RequestStep(c), approval' # approval PROVE BlankInv'
  <2>1. CASE Expire(c) \/ Decide(c) \/ Claim(c)
    <3>1. approval'.result = "none"
      BY <1>2, <2>1 DEF Expire, Decide, Claim, CompareAndSet, Revised
    <3> QED
      BY <3>1 DEF BlankInv
  <2>2. CASE Store(c)
    <3>1. /\ outcome[c].verdict = "failed" => outcome[c].summary = "none"
          /\ approval' = Revised(item[c], IF outcome[c].verdict = "failed" THEN "failed"
                                          ELSE "succeeded", outcome[c].summary)
      BY <1>2, <2>2 DEF TruthInv, CarriesTruth, Store, CompareAndSet
    <3> QED
      BY <3>1 DEF BlankInv, Revised
  <2>3. CASE ~(Expire(c) \/ Decide(c) \/ Claim(c) \/ Store(c))
    <3>1. approval' = approval
      BY <1>2, <2>3 DEF RequestStep, LoadRun, Read, View, Look, Reread, Reuse, CallAnswers,
         CallTimesOut, CallRaises, SaveRun, TimeRunsOut
    <3> QED
      BY <1>2, <3>1
  <2> QED
    BY <2>1, <2>2, <2>3
<1> QED
  BY <1>1, <1>2 DEF ApprovalNext, ClockTicks

\* Effects are never undone, and an end stays: what is true of them stays true.
LEMMA TruthKept ==
  ASSUME TruthInv, ApprovalNext, toolEffects' >= toolEffects
  PROVE  /\ \A e \in Requests : Same(e) => CarriesTruth(e)'
         /\ ~(approval'.status = "succeeded" /\ approval.status # "succeeded") => ResultInv'
         /\ checkpoint' = checkpoint => CheckpointInv'
         /\ BlankInv'
<1>1. toolEffects \in Nat /\ toolEffects' \in Nat
  BY TypeStep DEF TruthInv, ApprovalInv, ApprovalTypeOK
<1>2. Concluded => approval' = approval
  BY EndStays DEF TruthInv
<1>3. ASSUME NEW e \in Requests, Same(e) PROVE CarriesTruth(e)'
  BY <1>1, <1>2, <1>3 DEF TruthInv, CarriesTruth, Same, Concluded, Refusing
<1> QED
  BY <1>1, <1>2, <1>3, BlankStep DEF TruthInv, ResultInv, CheckpointInv, Concluded, Refusing

\* A step that leaves result and run alone, and whose request carries the truth.
LEMMA TellingStep ==
  ASSUME TruthInv, ApprovalNext, NEW c \in Requests, \A e \in Requests \ {c} : Same(e),
         toolEffects' >= toolEffects, checkpoint' = checkpoint,
         ~(approval'.status = "succeeded" /\ approval.status # "succeeded"),
         CarriesTruth(c)'
  PROVE  TruthInv'
BY TruthKept, SafetyStep DEF TruthInv

\* Every step keeps what the requests carry true.
LEMMA TruthStep == ASSUME TruthInv, ApprovalNext PROVE TruthInv'
<1>0. /\ ApprovalInv /\ ApprovalInv' /\ ApprovalTypeOK /\ toolEffects \in Nat
      /\ at \in [Requests -> Position] /\ item \in [Requests -> Row]
      /\ outcome \in [Requests -> Outcome] /\ approval \in Row
  BY SafetyStep DEF TruthInv, ApprovalInv, ApprovalTypeOK
<1>1. CASE ClockTicks
  BY <1>0, <1>1 DEF ClockTicks, local, TruthInv, ResultInv, BlankInv, CheckpointInv, CarriesTruth
<1>2. ASSUME NEW c \in Requests, RequestStep(c) PROVE TruthInv'
  <2> USE DEF local, Goto, Returns, In, Start
  <2>0. CarriesTruth(c) /\ RowInv(c) /\ \A e \in Requests \ {c} : Same(e)
    BY <1>0, <1>2, OthersKeep DEF TruthInv, ApprovalInv
  <2>1. CASE LoadRun(c) \/ View(c)
    <3>1. /\ UNCHANGED <<approval, checkpoint, toolEffects, item, outcome>>
          /\ at'[c].phase \notin {"store", "save"}
      BY <1>0, <2>1 DEF LoadRun, View
    <3>2. CarriesTruth(c)'
      BY <2>0, <3>1 DEF CarriesTruth
    <3> QED
      BY <1>0, <2>0, <3>1, <3>2, TellingStep
  <2>2. CASE Read(c)
    <3>1. /\ UNCHANGED <<approval, checkpoint, toolEffects, outcome>>
          /\ item'[c] \in {item[c], approval} /\ at'[c].phase \notin {"store", "save"}
      <4>1. at[c].phase \in Phases /\ at[c] \in Position
        BY <1>0, <2>0, <2>2 DEF Read, RowInv
      <4>2. at'[c].phase \in {at[c].phase, "done"}
        BY <1>0, <2>2, <4>1 DEF Read, Position
      <4> QED
        BY <1>0, <2>2, <4>1, <4>2 DEF Read, Phases
    <3>2. CarriesTruth(c)'
      BY <2>0, <3>1 DEF CarriesTruth
    <3> QED
      BY <1>0, <2>0, <3>1, <3>2, TellingStep
  <2>3. CASE Expire(c)
    <3>1. /\ UNCHANGED <<checkpoint, toolEffects, outcome>>
          /\ item'[c].status = "expired" /\ at'[c].phase \notin {"store", "save"}
          /\ approval' = approval \/ approval'.status = "expired"
          /\ item[c].status = "approval_required"
      BY <1>0, <2>0, <2>3 DEF Expire, ApprovalInv, RowInv, Phases, CompareAndSet, Revised
    <3>2. outcome[c].verdict \in {"rejected", "cancelled"} => approval' = approval
      BY <1>2, <2>0, EndStays, <1>0 DEF CarriesTruth, Concluded, Refusing, ApprovalNext
    <3>3. CarriesTruth(c)'
      BY <2>0, <3>1, <3>2 DEF CarriesTruth
    <3> QED
      BY <1>0, <2>0, <3>1, <3>3, TellingStep
  <2>4. CASE Decide(c)
    <3>1. /\ UNCHANGED <<checkpoint, toolEffects, outcome, item>>
          /\ at'[c].phase \notin {"store", "save"}
          /\ approval' = approval \/ \E d \in Choices : approval'.status = Decided(d)
          /\ \A d \in Choices : Decided(d) # "succeeded"
      BY <1>0, <2>4 DEF Decide, CompareAndSet, Revised, Decided, Choices
    <3>2. Concluded => approval' = approval
      BY <1>0, EndStays
    <3>3. CarriesTruth(c)'
      BY <2>0, <3>1, <3>2 DEF CarriesTruth, Concluded, Refusing
    <3> QED
      BY <1>0, <2>0, <3>1, <3>3, TellingStep
  <2>5. CASE Look(c)
    <3>1. /\ UNCHANGED <<approval, checkpoint, toolEffects, item>>
          /\ at'[c].phase # "store"
          /\ \/ at'[c].phase # "save" /\ outcome'[c] = outcome[c]
             \/ item[c].status \in Refusing /\ outcome'[c] = Verdict(item[c].status)
      BY <1>0, <2>5 DEF Look
    <3>2. CarriesTruth(c)'
      BY <2>0, <3>1 DEF CarriesTruth, Verdict, Nothing, Refusing
    <3> QED
      BY <1>0, <2>0, <3>1, <3>2, TellingStep
  <2>6. CASE Reread(c)
    <3>1. /\ UNCHANGED <<approval, checkpoint, toolEffects, item>> /\ at'[c].phase # "store"
          /\ \/ approval.status = "succeeded" /\ outcome'[c] = Stored(approval)
             \/ outcome'[c] = Verdict("failed")
      BY <1>0, <2>6 DEF Reread
    <3>2. CarriesTruth(c)'
      BY <2>0, <3>1 DEF CarriesTruth, Verdict, Nothing, Stored, TruthInv, ResultInv
    <3> QED
      BY <1>0, <2>0, <3>1, <3>2, TellingStep
  <2>7. CASE Claim(c)
    <3>1. CASE item[c].status = "approved"
      <4>1. /\ UNCHANGED <<checkpoint, toolEffects, outcome>>
            /\ item'[c].status = "executing" /\ at'[c].phase \notin {"store", "save"}
            /\ approval' = approval \/ approval'.status = "executing"
        BY <1>0, <2>7, <3>1 DEF Claim, CompareAndSet, Revised
      <4>2. Concluded => approval' = approval
        BY <1>0, EndStays
      <4>3. CarriesTruth(c)'
        BY <2>0, <4>1, <4>2 DEF CarriesTruth, Concluded, Refusing
      <4> QED
        BY <1>0, <2>0, <4>1, <4>3, TellingStep
    <3>2. CASE item[c].status # "approved"
      <4>1. /\ UNCHANGED <<approval, checkpoint, toolEffects, item>> /\ at'[c].phase # "store"
            /\ \/ item[c].status = "succeeded" /\ outcome'[c] = Stored(item[c])
               \/ outcome'[c] = Verdict("failed")
        BY <1>0, <2>7, <3>2 DEF Claim
      <4>2. CarriesTruth(c)'
        BY <2>0, <4>1 DEF CarriesTruth, Verdict, Nothing, Stored, TruthInv, ResultInv
      <4> QED
        BY <1>0, <2>0, <4>1, <4>2, TellingStep
    <3> QED
      BY <3>1, <3>2
  <2>8. CASE CallAnswers(c) \/ CallTimesOut(c) \/ CallRaises(c)
    <3>1. /\ UNCHANGED <<approval, checkpoint, item>>
          /\ toolEffects' \in {toolEffects, toolEffects + 1}
          /\ at'[c].phase \in {"execute", "store"}
          /\ at'[c].phase = "store" => outcome'[c].verdict \in {"continued", "failed"}
          /\ \/ outcome'[c] = outcome[c] /\ at'[c].phase = "execute"
             \/ outcome'[c] = Verdict("failed")
             \/ /\ outcome'[c].verdict = "continued" /\ outcome'[c].summary = "failed"
             \/ /\ outcome'[c].verdict = "continued" /\ outcome'[c].summary = "success"
                /\ toolEffects' = toolEffects + 1
      BY <1>0, <2>8 DEF CallAnswers, CallTimesOut, CallRaises, Effect, Verdict, Nothing
    <3>2. CarriesTruth(c)'
      BY <1>0, <2>0, <3>1 DEF CarriesTruth, Verdict, Nothing
    <3> QED
      BY <1>0, <2>0, <3>1, <3>2, TellingStep
  <2>8a. CASE Reuse(c)
    <3>1. /\ UNCHANGED <<approval, checkpoint, toolEffects, item>>
          /\ at'[c].phase = "store" /\ attempt'[c] = 0
          /\ outcome'[c].verdict = "continued" /\ outcome'[c].summary = "reused"
      BY <1>0, <2>8a DEF Reuse
    <3>2. CarriesTruth(c)'
      BY <2>0, <3>1 DEF CarriesTruth
    <3> QED
      BY <1>0, <2>0, <3>1, <3>2, TellingStep
  <2>9. CASE Store(c)
    <3>1. /\ UNCHANGED <<checkpoint, toolEffects, item>> /\ Wins(item[c])
          /\ outcome'[c] = outcome[c] /\ approval.status = "executing"
          /\ at'[c].phase # "store"
      BY <1>0, <2>0, <2>9 DEF Store, RowInv, Acting, Wins
    <3>2. approval' = Revised(item[c], IF outcome[c].verdict = "failed" THEN "failed"
                                       ELSE "succeeded", outcome[c].summary)
      BY <2>9, <3>1 DEF Store, CompareAndSet
    <3>3. outcome[c].verdict \in {"continued", "failed"}
      BY <1>0, <2>0, <2>9, <3>1 DEF Store, CarriesTruth
    <3>4. CarriesTruth(c)'
      BY <2>0, <3>1, <3>2, <3>3 DEF CarriesTruth, Revised
    <3>5. ResultInv'
      BY <2>0, <3>1, <3>2, <3>3 DEF CarriesTruth, Revised, ResultInv
    <3> QED
      BY <1>0, <2>0, <3>1, <3>4, <3>5, TruthKept DEF TruthInv
  <2>10. CASE SaveRun(c)
    <3>1. /\ UNCHANGED <<approval, toolEffects, item>> /\ outcome'[c] = Nothing
          /\ at[c] = In("save") /\ at'[c].phase \notin {"store", "save"}
          /\ \/ checkpoint' = checkpoint
             \/ /\ ~Raises(outcome[c])
                /\ checkpoint'.status = RunStatus(outcome[c].verdict)
                /\ checkpoint'.hitl = HitlStatus(outcome[c].verdict)
      BY <1>0, <2>10 DEF SaveRun
    <3>2. CarriesTruth(c)'
      BY <2>0, <3>1 DEF CarriesTruth, Nothing
    <3>3. CheckpointInv'
      <4>1. CASE checkpoint' = checkpoint
        BY <3>1, <4>1 DEF CheckpointInv, TruthInv
      <4>2. CASE checkpoint' # checkpoint
        <5>1. outcome[c].verdict \in {"none", "continued", "failed"} \cup Refusing
              /\ outcome[c].summary \in Summary
          BY <1>0 DEF Outcome
        <5>2. outcome[c].verdict = "continued" =>
                 approval.status = "succeeded" /\ (toolEffects > 0 \/ approval.result = "reused")
          BY <2>0, <3>1, <4>2, <5>1 DEF CarriesTruth, Raises, Summary
        <5> QED
          BY <2>0, <3>1, <4>2, <5>1, <5>2
             DEF CarriesTruth, CheckpointInv, RunStatus, HitlStatus, Refusing
      <4> QED
        BY <4>1, <4>2
    <3> QED
      BY <1>0, <2>0, <3>1, <3>2, <3>3, TruthKept DEF TruthInv
  <2>11. CASE TimeRunsOut(c)
    <3>1. /\ UNCHANGED <<approval, toolEffects, item>> /\ outcome'[c] = Nothing
          /\ at'[c].phase \notin {"store", "save"} /\ checkpoint'.status = "exhausted"
      BY <1>0, <2>11 DEF TimeRunsOut, ApprovalTypeOK
    <3>2. CarriesTruth(c)' /\ CheckpointInv'
      BY <2>0, <3>1 DEF CarriesTruth, CheckpointInv, Nothing
    <3> QED
      BY <1>0, <2>0, <3>1, <3>2, TruthKept DEF TruthInv
  <2> QED
    BY <1>2, <2>1, <2>2, <2>3, <2>4, <2>5, <2>6, <2>7, <2>8, <2>9, <2>10, <2>11,
       <2>8a DEF RequestStep
<1> QED
  BY <1>1, <1>2 DEF ApprovalNext

-----------------------------------------------------------------------------
(* Theorems.                                                                 *)

\* What every request may rely on between its steps: its row is current or its
\* swap is lost, and the claim of the tool is one request's.
THEOREM ApprovalInvariant == ApprovalSpec => []ApprovalInv
<1>1. ApprovalInv /\ [ApprovalNext]_approvalVars => ApprovalInv'
  BY ApprovalStutters, SafetyStep
<1> QED
  BY InitApproval, <1>1, PTL DEF ApprovalSpec

\* The rows, the places of the requests and what they carry keep their types.
THEOREM ApprovalTypeCorrect == ApprovalSpec => []ApprovalTypeOK
<1>1. ApprovalInv => ApprovalTypeOK
  BY DEF ApprovalInv
<1> QED
  BY <1>1, ApprovalInvariant, PTL

\* Whatever the number of resumes, one of them calls the tool, and no more often
\* than max_retries allows: the claim goes through compare_and_set.
THEOREM ToolExecutesOnce == ApprovalSpec => []OneExecution
<1>1. ApprovalInv => OneExecution
  <2> SUFFICES ASSUME ApprovalInv PROVE OneExecution
    OBVIOUS
  <2>1. \A c, e \in Requests : attempt[c] > 0 /\ attempt[e] > 0 => c = e
    BY DEF ApprovalInv, ClaimInv, Claimed
  <2>2. toolEffects <= CallRetries + 1
    BY ApprovalBounds DEF ApprovalInv, EffectInv, ApprovalTypeOK
  <2> QED
    BY <2>1, <2>2 DEF OneExecution
<1> QED
  BY <1>1, ApprovalInvariant, PTL

\* Only a tool call that one stored decision approved, and that was never
\* refused, reaches the tool.
THEOREM EffectsNeedApproval == ApprovalSpec => []EffectsAreApproved
<1> QED
  BY EffectsFollow, ApprovalInvariant, PTL

\* An approval that is refused, or whose tool has run, is never changed again:
\* every swap finds the row the request read, in a state that may go on.
THEOREM EndsAreFinal == ApprovalSpec => [][Concluded => approval' = approval]_approvalVars
<1>1. ApprovalInv /\ [ApprovalNext]_approvalVars => [Concluded => approval' = approval]_approvalVars
  BY EndStays DEF approvalVars
<1> QED
  BY <1>1, ApprovalInvariant, PTL DEF ApprovalSpec

\* What every request carries about the approval is what the row will say of it.
LEMMA TruthInvariant == ApprovalSpec => []TruthInv
<1>1. ASSUME TruthInv, UNCHANGED approvalVars PROVE TruthInv'
  BY <1>1, ApprovalStutters
     DEF approvalVars, local, TruthInv, ResultInv, BlankInv, CheckpointInv, CarriesTruth
<1>2. TruthInv /\ [ApprovalNext]_approvalVars => TruthInv'
  BY <1>1, TruthStep
<1> QED
  BY InitTruth, <1>2, PTL DEF ApprovalSpec

\* A run that was told its call is cancelled, or rejected by a decision, never sees the
\* effect, and one that goes on has it or the result of another run's call, although
\* what it is told was read or stored by another request.
THEOREM RunIsToldTheTruth == ApprovalSpec => []RunAgreesWithTool
<1>1. TruthInv => RunAgreesWithTool
  <2> SUFFICES ASSUME TruthInv PROVE RunAgreesWithTool
    OBVIOUS
  <2>1. toolEffects \in Nat /\ toolEffects > 0 =>
           approval.status \in {"executing", "succeeded", "failed"}
    BY EffectsFollow DEF TruthInv, ApprovalInv, ApprovalTypeOK, EffectsAreApproved
  <2> QED
    BY <2>1 DEF TruthInv, CheckpointInv, RunAgreesWithTool, ApprovalInv, ApprovalTypeOK
<1> QED
  BY <1>1, TruthInvariant, PTL

-----------------------------------------------------------------------------
(* The requests implement ApprovedCall.                                      *)

\* The first state is one the promise begins with.
LEMMA InitImplements == ApprovalInit => Promise!Init
BY DEF ApprovalInit, Promise!Init

\* A step that leaves the row, the run and the effects alone is a stutter.
LEMMA StutterImplements ==
  ASSUME UNCHANGED <<approval, checkpoint, toolEffects>>
  PROVE  UNCHANGED Promise!vars
BY DEF Promise!vars

\* A decision or an expiry that finds its row settles the call, once.
LEMMA SettleImplements ==
  ASSUME TruthInv, NEW c \in Requests,
         item[c].status = "approval_required", at[c].phase # "store",
         NEW s \in {"approved", "rejected", "expired", "cancelled"},
         CompareAndSet(item[c], s, "none"), UNCHANGED <<checkpoint, toolEffects>>
  PROVE  Promise!Next \/ UNCHANGED Promise!vars
<1>1. CASE ~Wins(item[c])
  BY <1>1, StutterImplements DEF CompareAndSet
<1>2. CASE Wins(item[c])
  <2>1. approval.status = "approval_required"
    BY <1>2, SwapFinds DEF TruthInv
  <2>2. approval.result = "none"
    BY <2>1 DEF TruthInv, BlankInv
  <2>3. approval'.status = s /\ approval'.result = "none"
    BY <1>2 DEF CompareAndSet, Revised
  <2>4. Promise!Settle
    BY <2>1, <2>2, <2>3 DEF Promise!Settle
  <2> QED
    BY <2>4 DEF Promise!Next
<1> QED
  BY <1>1, <1>2

\* A claim that finds its row begins the execution.
LEMMA ClaimImplements ==
  ASSUME TruthInv, NEW c \in Requests, Claim(c)
  PROVE  Promise!Next \/ UNCHANGED Promise!vars
<1>0. UNCHANGED <<checkpoint, toolEffects>> /\ at[c].phase # "store"
  BY DEF Claim, Goto, In
<1>1. CASE approval' = approval
  BY <1>0, <1>1, StutterImplements
<1>2. CASE approval' # approval
  <2>1. /\ item[c].status = "approved" /\ Wins(item[c])
        /\ approval' = Revised(item[c], "executing", "none")
    BY <1>2 DEF Claim, CompareAndSet
  <2>2. approval.status = "approved"
    BY <1>0, <2>1, SwapFinds DEF TruthInv
  <2>3. approval.result = "none"
    BY <2>2 DEF TruthInv, BlankInv
  <2>4. Promise!Begin
    BY <1>0, <2>1, <2>2, <2>3 DEF Promise!Begin, Revised
  <2> QED
    BY <2>4 DEF Promise!Next
<1> QED
  BY <1>1, <1>2

\* An attempt is a call of the tool, as long as attempts are left, or nothing.
LEMMA AttemptImplements ==
  ASSUME TruthInv, NEW c \in Requests, CallAnswers(c) \/ CallTimesOut(c) \/ CallRaises(c)
  PROVE  Promise!Next \/ UNCHANGED Promise!vars
<1>1. /\ UNCHANGED <<approval, checkpoint>> /\ toolEffects' \in {toolEffects, toolEffects + 1}
      /\ at[c].phase = "execute"
  BY DEF CallAnswers, CallTimesOut, CallRaises, Effect, Goto, In
<1>2. approval.status = "executing" /\ attempt[c] <= CallRetries
  BY <1>1 DEF TruthInv, ApprovalInv, RowInv, Acting
<1>3. toolEffects < CallRetries + 1
  <2>1. /\ CallRetries \in Nat /\ toolEffects \in Nat
        /\ \A e \in Requests : attempt[e] \in Nat /\ (attempt[e] > 0 => e = c)
    BY <1>1, ApprovalBounds DEF TruthInv, ApprovalInv, ApprovalTypeOK, ClaimInv, Claimed, Acting
  <2> QED
    BY <1>2, <2>1 DEF TruthInv, ApprovalInv, EffectInv
<1>4. CASE toolEffects' = toolEffects
  BY <1>1, <1>4, StutterImplements
<1>5. CASE toolEffects' = toolEffects + 1
  <2>1. Promise!Call
    BY <1>1, <1>2, <1>3, <1>5 DEF Promise!Call
  <2> QED
    BY <2>1 DEF Promise!Next
<1> QED
  BY <1>1, <1>4, <1>5

\* The claimant's row is the row: what it stores concludes the execution.
LEMMA StoreImplements ==
  ASSUME TruthInv, NEW c \in Requests, Store(c)
  PROVE  Promise!Next
<1>1. /\ UNCHANGED <<checkpoint, toolEffects>> /\ at[c].phase = "store"
      /\ CompareAndSet(item[c], IF outcome[c].verdict = "failed" THEN "failed" ELSE "succeeded",
                       outcome[c].summary)
  BY DEF Store, Goto, In
<1>2. approval.status = "executing" /\ Wins(item[c])
  BY <1>1 DEF TruthInv, ApprovalInv, RowInv, Acting, Wins
<1>3. approval' = Revised(item[c], IF outcome[c].verdict = "failed" THEN "failed"
                                   ELSE "succeeded", outcome[c].summary)
  BY <1>1, <1>2 DEF CompareAndSet
<1>4. CarriesTruth(c) /\ outcome[c].summary \in Summary
  BY DEF TruthInv, ApprovalInv, ApprovalTypeOK, Outcome
<1>5. outcome[c].verdict = "continued" /\ outcome[c].summary = "reused" => toolEffects = 0
  <2> SUFFICES ASSUME attempt[c] = 0 PROVE toolEffects = 0
    BY <1>1, <1>4 DEF CarriesTruth
  <2>1. /\ toolEffects \in Nat
        /\ \A e \in Requests : attempt[e] \in Nat /\ (attempt[e] > 0 => e = c)
    BY <1>1, ApprovalBounds DEF TruthInv, ApprovalInv, ApprovalTypeOK, ClaimInv, Claimed, Acting
  <2> QED
    BY <2>1 DEF TruthInv, ApprovalInv, EffectInv
<1>6. Promise!Conclude
  BY <1>1, <1>2, <1>3, <1>4, <1>5 DEF Promise!Conclude, CarriesTruth, Revised, Summary
<1> QED
  BY <1>6 DEF Promise!Next

\* What is saved of the run is what the request carries, which is the truth, or
\* that the run's time is over.
LEMMA SaveImplements ==
  ASSUME TruthInv, NEW c \in Requests, SaveRun(c) \/ TimeRunsOut(c)
  PROVE  Promise!Next \/ UNCHANGED Promise!vars
<1>1. UNCHANGED <<approval, toolEffects>>
  BY DEF SaveRun, TimeRunsOut, local
<1>2. CASE checkpoint' = checkpoint
  BY <1>1, <1>2, StutterImplements
<1>3. CASE SaveRun(c) /\ checkpoint' # checkpoint
  <2>1. /\ at[c].phase = "save" /\ ~Raises(outcome[c])
        /\ checkpoint'.status = RunStatus(outcome[c].verdict)
        /\ checkpoint'.hitl = HitlStatus(outcome[c].verdict)
    BY <1>3 DEF SaveRun, Goto, In
  <2>2. /\ CarriesTruth(c) /\ RowInv(c) /\ outcome[c] \in Outcome
    BY DEF TruthInv, ApprovalInv, ApprovalTypeOK
  <2>3. outcome[c].verdict = "continued" =>
           approval.status = "succeeded" /\ (toolEffects > 0 \/ approval.result = "reused")
    BY <2>1, <2>2 DEF CarriesTruth, Raises, Outcome, Summary
  <2>4. outcome[c].verdict \in {"continued", "failed"} \cup Refusing
    BY <2>1, <2>2 DEF RowInv, Outcome
  <2>5. Promise!Tell
    BY <1>1, <2>1, <2>2, <2>3, <2>4
       DEF Promise!Tell, CarriesTruth, RunStatus, HitlStatus, Refusing
  <2> QED
    BY <2>5 DEF Promise!Next
<1>4. CASE TimeRunsOut(c)
  <2>1. checkpoint'.status = "exhausted"
    BY <1>4 DEF TimeRunsOut, TruthInv, ApprovalInv, ApprovalTypeOK
  <2>2. Promise!Tell
    BY <1>1, <2>1 DEF Promise!Tell
  <2> QED
    BY <2>2 DEF Promise!Next
<1> QED
  BY <1>2, <1>3, <1>4

\* Every step is a step of the promise, or none.
LEMMA StepImplements ==
  TruthInv /\ [ApprovalNext]_approvalVars => [Promise!Next]_(Promise!vars)
<1> SUFFICES ASSUME TruthInv, [ApprovalNext]_approvalVars
             PROVE  Promise!Next \/ UNCHANGED Promise!vars
  OBVIOUS
<1>1. ASSUME NEW c \in Requests, RequestStep(c)
      PROVE  Promise!Next \/ UNCHANGED Promise!vars
  <2>1. CASE LoadRun(c) \/ Read(c) \/ View(c) \/ Look(c) \/ Reread(c) \/ Reuse(c)
    <3>1. UNCHANGED <<approval, checkpoint, toolEffects>>
      BY <2>1 DEF LoadRun, Read, View, Look, Reread, Reuse, local
    <3> QED
      BY <3>1, StutterImplements
  <2>2. CASE Expire(c)
    <3>1. item[c].status = "approval_required" /\ at[c].phase # "store"
      BY <2>2 DEF Expire, TruthInv, ApprovalInv, RowInv, Phases
    <3> QED
      BY <2>2, <3>1, SettleImplements DEF Expire
  <2>3. CASE Decide(c)
    <3>1. UNCHANGED <<checkpoint, toolEffects>> /\ at[c].phase # "store"
      BY <2>3 DEF Decide, Goto, In
    <3>2. CASE item[c].status = "approval_required"
      <4>0. PICK d \in Choices : CompareAndSet(item[c], Decided(d), "none")
        BY <2>3, <3>2 DEF Decide
      <4>1. Decided(d) \in {"approved", "rejected", "expired", "cancelled"}
        BY DEF Choices, Decided
      <4>2. CompareAndSet(item[c], Decided(d), "none")
        BY <4>0
      <4> QED
        BY <3>1, <3>2, <4>1, <4>2, SettleImplements
    <3>3. CASE item[c].status # "approval_required"
      <4>1. approval' = approval
        BY <2>3, <3>3 DEF Decide
      <4> QED
        BY <3>1, <4>1, StutterImplements
    <3> QED
      BY <3>2, <3>3
  <2>4. CASE Claim(c)
    BY <2>4, ClaimImplements
  <2>5. CASE CallAnswers(c) \/ CallTimesOut(c) \/ CallRaises(c)
    BY <2>5, AttemptImplements
  <2>6. CASE Store(c)
    BY <2>6, StoreImplements
  <2>7. CASE SaveRun(c) \/ TimeRunsOut(c)
    BY <2>7, SaveImplements
  <2> QED
    BY <1>1, <2>1, <2>2, <2>3, <2>4, <2>5, <2>6, <2>7 DEF RequestStep
<1>2. CASE ClockTicks
  <2>1. UNCHANGED <<approval, checkpoint, toolEffects>>
    BY <1>2 DEF ClockTicks
  <2> QED
    BY <2>1, StutterImplements
<1>3. CASE UNCHANGED approvalVars
  BY <1>3, StutterImplements DEF approvalVars
<1> QED
  BY <1>1, <1>2, <1>3 DEF ApprovalNext

\* Whatever the number of requests, and wherever each of them stops, the tool call
\* is decided once, executed once, called no more often than its retries allow,
\* and its run is told what became of it.
THEOREM CallKeepsPromise == ApprovalSpec => ImplementsApprovedCall
<1>1. ApprovalSpec => Promise!Init /\ [][Promise!Next]_(Promise!vars)
  BY InitImplements, StepImplements, TruthInvariant, PTL DEF ApprovalSpec
<1> QED
  BY <1>1 DEF ImplementsApprovedCall, Promise!Spec
=============================================================================
