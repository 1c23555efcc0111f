---------------------------- MODULE AgentApproval ----------------------------
(***************************************************************************)
(* One Agentic run that waits for the approval of a tool call: the         *)
(* approval row, the run's checkpoint, and the resume requests that decide *)
(* the approval, execute the tool and let the run go on.                   *)
(*                                                                         *)
(* Init is what ApprovalService.request leaves.  Every call of the         *)
(* repository, the tool and the checkpointer is one step, and any request  *)
(* may run between two steps of another.  A request that raises, or whose  *)
(* process dies, takes no further step.  Roles and the policy, which only  *)
(* refuse a request, are left out.                                         *)
(***************************************************************************)
EXTENDS Integers

CONSTANTS
    Requests,     \* requests to resume the run
    CallRetries,  \* ToolRegistration.max_retries
    ApprovalTtl,  \* clock ticks until the approval expires
    MaxClock      \* bound on the clock

ASSUME ApprovalBounds == CallRetries \in Nat /\ ApprovalTtl \in Nat /\ MaxClock \in Nat

VARIABLES
    approval,    \* ApprovalRequest row: status, revision, result_summary
    checkpoint,  \* the run as LangGraph saved it: status, hitl_status and evidence
    now,         \* the wall clock
    at,          \* where each request is
    loaded,      \* the run it loaded had already gone on
    item,        \* the approval as it read it
    attempt,     \* its tool attempts
    outcome,     \* what it will save to the approval or to the run
    toolEffects, \* history: the tool's effects
    approvedBy   \* history: the requests whose approval was stored

local        == <<loaded, item, attempt, outcome>>
approvalVars == <<approval, checkpoint, now, at, local, toolEffects, approvedBy>>

ApprovalStatus == {"approval_required", "approved", "rejected", "expired", "cancelled",
                   "executing", "succeeded", "failed"}
Choices    == {"approve", "reject", "cancel"}
Decided(d) == CASE d = "approve" -> "approved"
                [] d = "reject"  -> "rejected"
                [] d = "cancel"  -> "cancelled"
Summary  == {"none", "success", "reused", "failed"}   \* "none" before there is one
Refusing == {"rejected", "expired", "cancelled"}
Phases   == {"view", "decide", "look", "claim"}   \* the phases that start with a read
Position == [phase : Phases \cup {"idle", "reread", "execute", "store", "save", "done"},
             step : {"read", "expire", "act"}]
Row      == [status : ApprovalStatus, revision : Nat, result : Summary]
Outcome  == [verdict : {"none", "continued", "failed"} \cup Refusing, summary : Summary,
             output : BOOLEAN]

Start(phase) == [phase |-> phase, step |-> "read"]
In(phase)    == [phase |-> phase, step |-> "act"]
Nothing      == [verdict |-> "none", summary |-> "none", output |-> FALSE]
Verdict(v)   == [Nothing EXCEPT !.verdict = v]

ApprovalInit ==
    /\ approval = [status |-> "approval_required", revision |-> 0, result |-> "none"]
    /\ checkpoint = [status |-> "waiting", hitl |-> "approval_required", evidence |-> "none"]
    /\ now = 0
    /\ at = [c \in Requests |-> In("idle")]
    /\ loaded = [c \in Requests |-> FALSE]
    /\ item = [c \in Requests |-> approval]
    /\ attempt = [c \in Requests |-> 0]
    /\ outcome = [c \in Requests |-> Nothing]
    /\ toolEffects = 0
    /\ approvedBy = {}

Goto(c, from, to) == at[c] = In(from) /\ at' = [at EXCEPT ![c] = to]
Returns(c, value) == outcome' = [outcome EXCEPT ![c] = value]

\* model_copy with a new status and the next revision.
Revised(seen, status, result) ==
    [status |-> status, revision |-> seen.revision + 1, result |-> result]

\* Mutant: the row is saved as it was read, whoever changed it meanwhile.
SaveRow(seen, status, result) == approval' = Revised(seen, status, result)

\* compare_and_set: UPDATE ... WHERE revision = expected, and whether it found
\* its row.
Wins(seen) == approval.revision = seen.revision
CompareAndSet(seen, status, result) ==
    approval' = IF Wins(seen) THEN Revised(seen, status, result) ELSE approval

-----------------------------------------------------------------------------
\* AgenticRagRuntime.resume loads the run.
LoadRun(c) ==
    /\ Goto(c, "idle", Start("view"))
    /\ loaded' = [loaded EXCEPT ![c] = checkpoint.status = "continued"]
    /\ UNCHANGED <<approval, checkpoint, now, item, attempt, outcome, toolEffects, approvedBy>>

Overdue(seen) == seen.status = "approval_required" /\ now >= ApprovalTtl

\* Every phase reads the approval and compares the clock with its deadline; the
\* graph's own read comes after it found the run waiting at the interrupt.
Read(c) ==
    LET phase == at[c].phase IN
    /\ at[c].step = "read"
    /\ IF phase = "look" /\ checkpoint.status # "waiting"
       THEN at' = [at EXCEPT ![c] = In("done")] /\ item' = item
       ELSE /\ item' = [item EXCEPT ![c] = approval]
            /\ at' = [at EXCEPT ![c].step = IF Overdue(approval) THEN "expire" ELSE "act"]
    /\ UNCHANGED <<approval, checkpoint, now, loaded, attempt, outcome,
                   toolEffects, approvedBy>>

\* _expire_if_needed: the request goes on with the expired item, whether or not
\* its compare_and_set found the row.
Expire(c) ==
    /\ at[c].step = "expire"
    /\ CompareAndSet(item[c], "expired", "none")
    /\ item' = [item EXCEPT ![c] = Revised(@, "expired", "none")]
    /\ at' = [at EXCEPT ![c].step = "act"]
    /\ UNCHANGED <<checkpoint, now, loaded, attempt, outcome, toolEffects, approvedBy>>

\* A run that has gone on after its tool succeeded is returned as it is.
View(c) ==
    /\ Goto(c, "view", IF item[c].status = "succeeded" /\ loaded[c]
                       THEN In("done") ELSE Start("decide"))
    /\ UNCHANGED <<approval, checkpoint, now, local, toolEffects, approvedBy>>

\* Mutant: an approval that is decided may be decided again.
DecideAgain(c) ==
    /\ Goto(c, "decide", Start("look"))
    /\ IF item[c].status \in {"approval_required", "approved", "rejected"}
       THEN \E d \in Choices :
               /\ CompareAndSet(item[c], Decided(d), "none")
               /\ approvedBy' = IF d = "approve" /\ Wins(item[c])
                                THEN approvedBy \cup {c} ELSE approvedBy
       ELSE UNCHANGED <<approval, approvedBy>>
    /\ UNCHANGED <<checkpoint, now, local, toolEffects>>

\* decide: only an approval that is still required is decided; a lost
\* compare_and_set is no error.
Decide(c) ==
    /\ Goto(c, "decide", Start("look"))
    /\ IF item[c].status = "approval_required"
       THEN \E d \in Choices :
               /\ CompareAndSet(item[c], Decided(d), "none")
               /\ approvedBy' = IF d = "approve" /\ Wins(item[c])
                                THEN approvedBy \cup {c} ELSE approvedBy
       ELSE UNCHANGED <<approval, approvedBy>>
    /\ UNCHANGED <<checkpoint, now, local, toolEffects>>

-----------------------------------------------------------------------------
(* The node await_approval.                                                  *)

Look(c) ==
    LET refused == item[c].status \in Refusing IN
    /\ Goto(c, "look", IF refused THEN In("save") ELSE Start("claim"))
    /\ Returns(c, IF refused THEN Verdict(item[c].status) ELSE outcome[c])
    /\ UNCHANGED <<approval, checkpoint, now, loaded, item, attempt, toolEffects,
                   approvedBy>>

\* What resume returns for an approval another request has executed: the stored
\* summary, and no output.
Stored(row) == [verdict |-> "continued", summary |-> row.result, output |-> FALSE]

\* resume: an approved call is claimed, a succeeded one answered from its row.
Claim(c) ==
    /\ \/ /\ item[c].status = "approved"
          /\ CompareAndSet(item[c], "executing", "none")
          /\ Goto(c, "claim", IF Wins(item[c]) THEN In("execute") ELSE In("reread"))
          /\ item' = [item EXCEPT ![c] = Revised(@, "executing", "none")]
          /\ outcome' = outcome
       \/ /\ item[c].status # "approved"
          /\ Goto(c, "claim", In("save"))
          /\ Returns(c, IF item[c].status = "succeeded" THEN Stored(item[c])
                                                       ELSE Verdict("failed"))
          /\ UNCHANGED <<approval, item>>
    /\ UNCHANGED <<checkpoint, now, loaded, attempt, toolEffects, approvedBy>>

\* The claim was lost; the row is read once more.
Reread(c) ==
    /\ Goto(c, "reread", In("save"))
    /\ Returns(c, IF approval.status = "succeeded" THEN Stored(approval)
                                                  ELSE Verdict("failed"))
    /\ UNCHANGED <<approval, checkpoint, now, loaded, item, attempt, toolEffects,
                   approvedBy>>

\* The process remembers the result of a call with the same arguments, of another
\* run of the same user: the tool is not called.
Reuse(c) ==
    /\ attempt[c] = 0
    /\ Goto(c, "execute", In("store"))
    /\ Returns(c, [verdict |-> "continued", summary |-> "reused", output |-> TRUE])
    /\ UNCHANGED <<approval, checkpoint, now, loaded, item, attempt, toolEffects,
                   approvedBy>>

\* A call of the tool may have had its effect, however it ends.
Effect == toolEffects' \in {toolEffects, toolEffects + 1}

\* The tool answers.
CallAnswers(c) ==
    /\ Goto(c, "execute", In("store"))
    /\ toolEffects' = toolEffects + 1
    /\ Returns(c, [verdict |-> "continued", summary |-> "success", output |-> TRUE])
    /\ attempt' = [attempt EXCEPT ![c] = @ + 1]
    /\ UNCHANGED <<approval, checkpoint, now, loaded, item, approvedBy>>

\* Mutant: one attempt more than the registration allows.
CallTimesOutOnceMore(c) ==
    /\ Goto(c, "execute", IF attempt[c] <= CallRetries THEN In("execute") ELSE In("store"))
    /\ Effect
    /\ attempt' = [attempt EXCEPT ![c] = @ + 1]
    /\ Returns(c, IF attempt[c] <= CallRetries THEN outcome[c]
                 ELSE [verdict |-> "continued", summary |-> "failed", output |-> FALSE])
    /\ UNCHANGED <<approval, checkpoint, now, loaded, item, approvedBy>>

\* A timeout or an unexpected exception: tried again up to max_retries, then
\* returned as an outcome, not raised.
CallTimesOut(c) ==
    /\ Goto(c, "execute", IF attempt[c] < CallRetries THEN In("execute") ELSE In("store"))
    /\ Effect
    /\ attempt' = [attempt EXCEPT ![c] = @ + 1]
    /\ Returns(c, IF attempt[c] < CallRetries THEN outcome[c]
                 ELSE [verdict |-> "continued", summary |-> "failed", output |-> FALSE])
    /\ UNCHANGED <<approval, checkpoint, now, loaded, item, approvedBy>>

\* An AgentToolError, an output that is refused, or a budget that is exhausted
\* is raised.
CallRaises(c) ==
    /\ Goto(c, "execute", In("store"))
    /\ Effect
    /\ attempt' = [attempt EXCEPT ![c] = @ + 1]
    /\ Returns(c, Verdict("failed"))
    /\ UNCHANGED <<approval, checkpoint, now, loaded, item, approvedBy>>

\* The claimant stores the result; an outcome that failed is stored as succeeded.
Store(c) ==
    LET raised == outcome[c].verdict = "failed" IN
    /\ Goto(c, "store", In("save"))
    /\ CompareAndSet(item[c], IF raised THEN "failed" ELSE "succeeded", outcome[c].summary)
    /\ Returns(c, IF Wins(item[c]) THEN outcome[c] ELSE Verdict("failed"))
    /\ UNCHANGED <<checkpoint, now, loaded, item, attempt, toolEffects, approvedBy>>

\* _apply_tool_outcome makes evidence of an outcome of a SQL or API tool, also of
\* one that carries no output; a failed outcome has no digest to cite, and raises.
Evidence(o) == IF o.verdict # "continued" THEN "none"
               ELSE IF o.output THEN "output" ELSE "empty"
Raises(o)   == o.verdict = "continued" /\ o.summary = "failed"

\* What the node makes of its verdict: an expired call is a rejected one to the run,
\* and a failure to execute it leaves the run's status of its approval alone.
RunStatus(verdict)  == IF verdict = "expired" THEN "rejected" ELSE verdict
HitlStatus(verdict) == CASE verdict = "continued" -> "succeeded"
                         [] verdict = "failed" -> "approval_required"
                         [] OTHER -> verdict

\* The node returns and the checkpointer saves the run.
SaveRun(c) ==
    LET verdict == outcome[c].verdict IN
    /\ Goto(c, "save", In("done"))
    /\ checkpoint' = IF Raises(outcome[c]) THEN checkpoint
                     ELSE [status |-> RunStatus(verdict), hitl |-> HitlStatus(verdict),
                           evidence |-> Evidence(outcome[c])]
    /\ Returns(c, Nothing)
    /\ UNCHANGED <<approval, now, loaded, item, attempt, toolEffects, approvedBy>>

\* The run's time budget cancels the graph, wherever it is, a claimed execution
\* included, and the runtime saves the run as exhausted.
TimeRunsOut(c) ==
    /\ at[c].phase \in {"look", "claim", "reread", "execute", "store", "save"}
    /\ at' = [at EXCEPT ![c] = In("done")]
    /\ checkpoint' = [checkpoint EXCEPT !.status = "exhausted"]
    /\ Returns(c, Nothing)
    /\ UNCHANGED <<approval, now, loaded, item, attempt, toolEffects, approvedBy>>

ClockTicks ==
    /\ now < MaxClock
    /\ now' = now + 1
    /\ UNCHANGED <<approval, checkpoint, at, local, toolEffects, approvedBy>>

RequestStep(c) ==
    \/ LoadRun(c) \/ Read(c) \/ Expire(c) \/ View(c) \/ Decide(c)
    \/ Look(c) \/ Claim(c) \/ Reread(c)
    \/ Reuse(c) \/ CallAnswers(c) \/ CallTimesOut(c) \/ CallRaises(c)
    \/ Store(c) \/ SaveRun(c) \/ TimeRunsOut(c)

ApprovalNext == (\E c \in Requests : RequestStep(c)) \/ ClockTicks

ApprovalSpec == ApprovalInit /\ [][ApprovalNext]_approvalVars

-----------------------------------------------------------------------------
(* Properties.                                                               *)

\* The shape of the rows and of the local state.
ApprovalTypeOK ==
    /\ approval \in Row
    /\ checkpoint \in [status : {"waiting", "continued", "failed", "exhausted", "rejected",
                                 "cancelled"},
                       hitl : {"approval_required", "succeeded"} \cup Refusing,
                       evidence : {"none", "output", "empty"}]
    /\ now \in 0..MaxClock
    /\ at \in [Requests -> Position]
    /\ loaded \in [Requests -> BOOLEAN]
    /\ item \in [Requests -> Row]
    /\ attempt \in [Requests -> 0..CallRetries + 1]
    /\ outcome \in [Requests -> Outcome]
    /\ toolEffects \in Nat
    /\ approvedBy \subseteq Requests

\* However many requests resume the run, and whenever they die, one of them
\* executes the tool, and the tool is called no more often than it may be retried.
OneExecution ==
    /\ \A c, e \in Requests : attempt[c] > 0 /\ attempt[e] > 0 => c = e
    /\ toolEffects <= CallRetries + 1

\* The tool has an effect only if exactly one approval was stored, and then no
\* refusal ever was.
EffectsAreApproved ==
    toolEffects > 0 => /\ \E c \in Requests : approvedBy = {c}
                   /\ approval.status \in {"executing", "succeeded", "failed"}

\* A run that was told its call is cancelled, or rejected by a decision, never sees
\* the call's effect; one that goes on has it, or the result of another run's call.
\* Not so a run that is rejected because the approval expired: the request that tells
\* it does not look whether its expiry was stored, and the call may be approved and
\* executed after all.
RunAgreesWithTool ==
    /\ checkpoint.status \in {"cancelled", "rejected"} /\ checkpoint.hitl # "expired" =>
          toolEffects = 0
    /\ checkpoint.status = "continued" =>
          approval.status = "succeeded" /\ (toolEffects > 0 \/ approval.result = "reused")

\* Whatever requests, expiries and time-outs do to the rows, the call goes through
\* the states of ApprovedCall: decided once, executed once, final in its end.
Promise == INSTANCE ApprovedCall WITH
    Limit   <- CallRetries + 1,
    status  <- approval.status,
    result  <- approval.result,
    effects <- toolEffects,
    told    <- [run |-> checkpoint.status, ground |-> checkpoint.hitl]
ImplementsApprovedCall == Promise!Spec

\* Documented: a repeated resume reads the idempotent result.  It reads the
\* summary without the output: after a crash between the result and the
\* checkpoint, the run goes on with an evidence item that says None.
ContinuesWithResult == checkpoint.status = "continued" => checkpoint.evidence = "output"
=============================================================================
