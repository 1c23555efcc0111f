----------------------------- MODULE AgenticGraph -----------------------------
(***************************************************************************)
(* One Agentic run: the graph of nodes from route to finalize, the ledger  *)
(* of its budgets, the tools its steps call, and the runtime that invokes  *)
(* the graph, cuts it off and resumes it after an approval.                *)
(*                                                                         *)
(* A node works on the state the last one returned.  The graph library     *)
(* writes the checkpoint of a node while later nodes run: an invocation    *)
(* that ends waits for what it still has to write, one that crashes does   *)
(* not, and its run falls back to an older checkpoint.  What a request     *)
(* does to the approval row is AgentApproval: here an approval is claimed  *)
(* once, and its result is stored once.                                    *)
(***************************************************************************)
EXTENDS Integers, Sequences, FiniteSets

CONSTANTS
    Plans,                      \* what the planner may return
    MaxIterations, MaxModelCalls, MaxRounds, MaxAttempts,  \* BudgetLimits
    MaxRetries                  \* ToolRegistration.max_retries

Tools == {"kb", "read", "risky"}   \* knowledge base; SQL or API; one that needs approval

ASSUME GraphBounds ==
    /\ {MaxIterations, MaxModelCalls, MaxRounds, MaxAttempts} \subseteq Nat \ {0}
    /\ MaxRetries \in Nat
ASSUME PlansAssumption ==
    Plans \subseteq Seq([tool : Tools, critical : BOOLEAN]) \ {<<>>}

VARIABLES
    state,      \* the AgenticState the last node returned
    node,       \* the node that runs next; "call" and "tool" are inside one
    run,        \* the runtime's invocation of the graph
    behind,     \* the checkpoints a crash may leave as the last one written
    ledger,     \* the node's BudgetLedger while it calls a tool
    tries,      \* attempts of that call
    memory,     \* results SecureToolExecutionService keeps in its process
    rows,       \* approvals by what became of them
    visits,     \* history: steps begun, up to two more than the budget allows
    toolCalls,  \* history: calls of a tool's handler
    risky       \* history: those of them that an approval allowed

\* visits and toolCalls are those of the run as its checkpoints tell it: a crash
\* takes back what it lost.  Nothing takes back a call in risky.
history == <<visits, toolCalls, risky>>
vars == <<state, node, run, behind, ledger, tries, memory, rows, history>>

Nowhere  == <<0, 0>>       \* no approval is pending
NoUsage  == [iterations |-> 0, models |-> 0, rounds |-> 0, attempts |-> 0,
             tokens |-> 0, costly |-> FALSE, overdrawn |-> FALSE]
NoMemory == [success |-> {}, reused |-> {}, done |-> {}]
Unwritten == [kept |-> {}, lost |-> FALSE]   \* no checkpoint is being written

\* tokens: 0 leaves the finalization reserve, 1 cuts into it, 2 exceeds a limit;
\* a reserve above max_generated_tokens is never left.
Init ==
    /\ \E t \in {0, 1} :
          state = [plan |-> <<>>, route |-> "agent", step |-> 1, evidence |-> {},
                   reused |-> FALSE, pending |-> Nowhere, cited |-> FALSE, status |-> "none",
                   usage |-> [NoUsage EXCEPT !.tokens = t]]
    /\ node = "route" /\ run = "running" /\ behind = [Unwritten EXCEPT !.lost = TRUE]
    /\ ledger = NoUsage /\ tries = 0
    /\ memory = NoMemory
    /\ rows = [claimed |-> {}, succeeded |-> {}, rejected |-> {}, cancelled |-> {}]
    /\ visits = 0 /\ toolCalls = 0 /\ risky = 0

Runs(n) == run = "running" /\ node = n

-----------------------------------------------------------------------------
(* The ledger.                                                               *)

CanFinalize(u) == u.tokens = 0
Exceeded(u)    == u.tokens = 2 \/ u.costly

\* record_model_usage: tokens and cost only grow.
Recorded(u) == {[u EXCEPT !.tokens = t, !.costly = c] :
                   t \in u.tokens..2, c \in {x \in BOOLEAN : u.costly => x}}

BeginModelCall(u) == [u EXCEPT !.models = @ + 1]

-----------------------------------------------------------------------------
(* Evidence.                                                                 *)

\* EvidenceSufficiencyPolicy.evaluate; ok says that an item passes its filters,
\* stance what it says of a fact, if it names one.
Decision(s) ==
    LET eligible == {e \in s.evidence : e.ok}
        covered  == {e.step : e \in eligible}
    IN  IF \E e, f \in eligible : "none" \notin {e.stance, f.stance} /\ e.stance # f.stance
        THEN "conflicting_evidence"
        ELSE IF eligible = {} THEN "no_evidence"
        ELSE IF \E i \in DOMAIN s.plan : s.plan[i].critical /\ i \notin covered
        THEN "partial_evidence"
        ELSE "sufficient"

Item(i, ok, stance) == [step |-> i, ok |-> ok, stance |-> stance]

\* What a call may return for step i of a plan.
Findings(plan, i) ==
    IF plan[i].tool = "kb"
    THEN {{}} \cup {{Item(i, ok, "none")} : ok \in BOOLEAN}
    ELSE {{Item(i, ok, x)} : ok \in BOOLEAN, x \in {"none", "yes", "no"}}

-----------------------------------------------------------------------------
(* route and direct_rag.                                                     *)

Save(u, status, to) ==
    /\ state' = [state EXCEPT !.usage = u, !.status = status]
    /\ node' = to

Route ==
    /\ Runs("route")
    /\ \/ \* planned, by the model or without one
          \E u \in {state.usage} \cup Recorded(BeginModelCall(state.usage)),
             p \in Plans, simple \in BOOLEAN :
              /\ ~Exceeded(u)
              /\ simple => Len(p) = 1
              /\ state' = [state EXCEPT !.plan = p, !.usage = u,
                                        !.route = IF simple THEN "direct" ELSE "agent"]
              /\ node' = IF simple THEN "direct" ELSE "execute"
       \/ \E u \in Recorded(BeginModelCall(state.usage)) :
              Exceeded(u) /\ Save(u, "exhausted", "finalize")
       \/ \E u \in {state.usage, BeginModelCall(state.usage)} : Save(u, "failed", "finalize")
    /\ UNCHANGED <<run, ledger, tries, memory, rows, history>>

Direct ==
    LET l == [state.usage EXCEPT !.rounds = @ + 1] IN
    /\ Runs("direct")
    /\ \/ Save(l, "no_evidence", "end")
       \/ l.models = MaxModelCalls /\ Save(l, "exhausted", "end")
       \/ \E u \in {l, BeginModelCall(l)} : u.models <= MaxModelCalls /\ Save(u, "failed", "end")
       \/ /\ l.models < MaxModelCalls
          /\ \E u \in Recorded(BeginModelCall(l)) :
                IF Exceeded(u) /\ ~CanFinalize(u)
                THEN Save(u, "exhausted", "end")
                ELSE /\ state' = [state EXCEPT !.usage = u, !.status = "completed",
                                               !.cited = TRUE]
                     /\ node' = "end"
    /\ UNCHANGED <<run, ledger, tries, memory, rows, history>>

-----------------------------------------------------------------------------
(* execute_step.                                                             *)

\* The edge that follows execute_step.
AfterExecute(s) ==
    IF s.status = "approval_required" THEN "approval"
    ELSE IF s.status \in {"failed", "exhausted"} THEN "finalize"
    ELSE IF s.step <= Len(s.plan) THEN "execute" ELSE "evaluate"

Leave(s) == state' = s /\ node' = AfterExecute(s)

\* _apply_tool_outcome
Apply(s, items, reused, u) ==
    [s EXCEPT !.evidence = @ \cup items, !.reused = reused, !.usage = u,
              !.step = IF s.plan[@].tool = "kb" /\ u.rounds >= MaxRounds
                       THEN Len(s.plan) + 1 ELSE @ + 1]

\* Mutant: any evidence completes a run whose budget is exhausted.
BudgetStopWithAny(u) ==
    Leave([state EXCEPT !.usage = u,
                        !.status = IF Decision(state) # "no_evidence" /\ CanFinalize(u)
                                   THEN "completed" ELSE "exhausted"])

\* A budget that is exhausted while a step runs.
BudgetStop(u) ==
    Leave([state EXCEPT !.usage = u,
                        !.status = IF Decision(state) = "sufficient" /\ CanFinalize(u)
                                   THEN "completed" ELSE "exhausted"])

\* A call of the run whose result the process remembers: under its id, or as a call
\* with the same arguments.
Known(id, i) == id \in memory.success \cup memory.reused \/ i \in memory.done

Recall(id, u) ==
    /\ Leave(Apply(state, {}, id \notin memory.success, u))
    /\ memory' = IF id \in memory.success THEN memory
                 ELSE [memory EXCEPT !.reused = @ \cup {id}]

\* The process remembers such a call of another run of the same user: its output
\* is new to this run.
Borrow(id, items, u) ==
    /\ items \in Findings(state.plan, state.step)
    /\ Leave(Apply(state, items, TRUE, u))
    /\ memory' = [memory EXCEPT !.reused = @ \cup {id}, !.done = @ \cup {state.step}]

\* Mutant: a step costs no iteration.
IterateFreely(u) == u

ConsumeIteration(u) == [u EXCEPT !.iterations = @ + 1]

ExecuteStep ==
    LET i  == state.step
        u1 == ConsumeIteration(state.usage)
        kb == state.plan[i].tool = "kb"
        u2 == IF kb THEN [u1 EXCEPT !.rounds = @ + 1] ELSE u1
        id == <<i, state.usage.rounds>>
    IN
    /\ Runs("execute")
    /\ i <= Len(state.plan)
    /\ visits' = IF visits <= MaxIterations + 1 THEN visits + 1 ELSE visits
    /\ IF u1.iterations > MaxIterations
       THEN BudgetStop(state.usage) /\ UNCHANGED <<ledger, tries, memory>>
       ELSE IF u2.rounds > MaxRounds
       THEN BudgetStop(u1) /\ UNCHANGED <<ledger, tries, memory>>
       ELSE \/ \* the tool is unknown or denied, or its arguments are refused
               /\ Leave([state EXCEPT !.usage = u2, !.status = "failed"])
               /\ UNCHANGED <<ledger, tries, memory>>
            \/ Known(id, i) /\ Recall(id, u2) /\ UNCHANGED <<ledger, tries>>
            \/ /\ ~Known(id, i)
               /\ \E items \in Findings(state.plan, i) : Borrow(id, items, u2)
               /\ UNCHANGED <<ledger, tries>>
            \/ /\ ~Known(id, i) /\ state.plan[i].tool = "risky"
               /\ Leave([state EXCEPT !.usage = u2, !.pending = id,
                                      !.status = "approval_required"])
               /\ UNCHANGED <<ledger, tries, memory>>
            \/ /\ ~Known(id, i) /\ state.plan[i].tool # "risky"
               /\ node' = "call" /\ ledger' = u2 /\ tries' = 0
               /\ UNCHANGED <<state, memory>>
    /\ UNCHANGED <<run, rows, toolCalls, risky>>

\* The last step was the one that was approved.
SkipSteps ==
    /\ Runs("execute") /\ state.step > Len(state.plan)
    /\ Leave(state)
    /\ UNCHANGED <<run, ledger, tries, memory, rows, history>>

-----------------------------------------------------------------------------
(* SecureToolExecutionService.execute, called by execute_step or, for an     *)
(* approved call, by await_approval.                                         *)

Inside   == node \in {"call", "tool"}
Approved == state.pending # Nowhere
CallId   == IF Approved THEN state.pending ELSE <<state.step, state.usage.rounds>>

\* ApprovalService.resume stores the result of the approved call.
Answered(r) == [r EXCEPT !.succeeded = @ \cup {CallId}]

\* await_approval's state after its tool succeeded.
Continue(s) == [s EXCEPT !.pending = Nowhere, !.status = "none"]

Attempt(u) == [u EXCEPT !.attempts = @ + 1]

\* Mutant: an attempt is checked before it is counted.
AttemptLeftBefore(u) == u.attempts <= MaxAttempts

AttemptLeft(u) == Attempt(u).attempts <= MaxAttempts

\* consume_tool refuses another attempt.
NoAttemptLeft ==
    /\ Runs("call") /\ ~AttemptLeft(ledger)
    /\ IF Approved THEN Save(ledger, "failed", "finalize") ELSE BudgetStop(ledger)
    /\ UNCHANGED <<run, ledger, tries, memory, rows, history>>

CallTool ==
    /\ Runs("call") /\ AttemptLeft(ledger)
    /\ ledger' = Attempt(ledger) /\ node' = "tool"
    /\ toolCalls' = toolCalls + 1
    /\ risky' = IF Approved THEN risky + 1 ELSE risky
    /\ UNCHANGED <<state, run, tries, memory, rows, visits>>

\* The approved call is not made: the process remembers one of another run.
BorrowApproved ==
    /\ Runs("call") /\ Approved /\ tries = 0
    /\ \E items \in Findings(state.plan, state.step) :
          state' = Continue(Apply(state, items, TRUE, ledger))
    /\ node' = "execute"
    /\ memory' = [memory EXCEPT !.reused = @ \cup {CallId}, !.done = @ \cup {state.step}]
    /\ rows' = Answered(rows)
    /\ UNCHANGED <<run, ledger, tries, history>>

ToolAnswers ==
    /\ Runs("tool")
    /\ memory' = [memory EXCEPT !.success = @ \cup {CallId}, !.done = @ \cup {state.step}]
    /\ \E items \in Findings(state.plan, state.step) :
          LET s == Apply(state, items, FALSE, ledger) IN
          IF Approved THEN state' = Continue(s) /\ node' = "execute" ELSE Leave(s)
    /\ rows' = IF Approved THEN Answered(rows) ELSE rows
    /\ UNCHANGED <<run, ledger, tries, history>>

\* A timeout, or an error of the handler, with an attempt left.
ToolTimesOut ==
    /\ Runs("tool") /\ tries < MaxRetries
    /\ tries' = tries + 1 /\ node' = "call"
    /\ UNCHANGED <<state, run, ledger, memory, rows, history>>

\* The last attempt: a failed outcome.  await_approval cannot cite it, raises
\* and so does the graph.
ToolFails ==
    /\ Runs("tool") /\ tries = MaxRetries
    /\ IF Approved
       THEN run' = "raised" /\ node' = "approval" /\ state' = state /\ rows' = Answered(rows)
       ELSE /\ Leave([state EXCEPT !.usage = ledger, !.status = "failed"])
            /\ UNCHANGED <<run, rows>>
    /\ UNCHANGED <<ledger, tries, memory, history>>

\* An AgentToolError, or an output that is refused.
ToolRaises ==
    /\ Runs("tool")
    /\ Save(ledger, "failed", "finalize")
    /\ UNCHANGED <<run, ledger, tries, memory, rows, history>>

-----------------------------------------------------------------------------
(* evaluate and finalize.                                                    *)

Evaluate ==
    LET verdict == Decision(state)
        retry   == /\ verdict \in {"partial_evidence", "no_evidence"}
                   /\ state.usage.rounds < MaxRounds
                   /\ ~state.reused
    IN
    /\ Runs("evaluate")
    /\ IF retry
       THEN state' = [state EXCEPT !.status = "none", !.step = 1]
       ELSE state' = [state EXCEPT !.step = Len(state.plan) + 1,
                                   !.status = IF verdict = "sufficient" THEN "completed"
                                              ELSE verdict]
    /\ node' = IF retry THEN "execute" ELSE "finalize"
    /\ UNCHANGED <<run, ledger, tries, memory, rows, history>>

\* Every item is cited, the ones the policy left out included.
Finalize ==
    /\ Runs("finalize")
    /\ state' = [state EXCEPT !.cited = state.evidence # {}]
    /\ node' = "end"
    /\ UNCHANGED <<run, ledger, tries, memory, rows, history>>

-----------------------------------------------------------------------------
(* AgenticRagRuntime: the invocation returns, is cut off, or dies with its   *)
(* process; a resume request continues one that waits.                       *)

\* A node that returns has its checkpoint written some time later.  A request can
\* resume a run from one that names an approval, with what its node has returned if
\* that is written; from any other the run is lost.
Written(base) ==
    LET names == Approved \/ state'.pending # Nowhere
    IN  IF node' \in {"call", "tool"} THEN base
        ELSE [kept |-> base.kept \cup {c \in {[state |-> state', node |-> node']} : names},
              lost |-> base.lost \/ state'.pending = Nowhere]

\* The graph ended or interrupted itself; its time is added to the ledger.
Return ==
    /\ run = "running" /\ node \in {"approval", "end"}
    /\ \E over \in BOOLEAN :
          LET keep == ~over \/ (state.status = "completed" /\ state.cited
                                                           /\ CanFinalize(state.usage)) IN
          /\ state' = [state EXCEPT !.usage.overdrawn = over,
                                    !.status = IF keep THEN @ ELSE "exhausted"]
          /\ run' = IF node = "approval" /\ ~over THEN "waiting" ELSE "returned"
    /\ behind' = Unwritten
    /\ UNCHANGED <<node, ledger, tries, memory, rows, history>>

RunTimesOut ==
    /\ run = "running" /\ node \notin {"approval", "end"}
    /\ state' = [state EXCEPT !.usage.overdrawn = TRUE, !.status = "exhausted"]
    /\ run' = "returned" /\ behind' = Unwritten
    /\ UNCHANGED <<node, ledger, tries, memory, rows, history>>

\* The process dies.  The run falls back to a checkpoint that was written, or is
\* lost with it; the result of an approved call may have been stored.
Crash ==
    /\ run = "running"
    /\ \/ behind.lost /\ run' = "lost" /\ UNCHANGED <<state, node, history>>
       \/ \E c \in behind.kept :
             /\ run' = "waiting" /\ state' = c.state /\ node' = c.node
             /\ visits' = c.state.usage.iterations /\ toolCalls' = c.state.usage.attempts
             /\ risky' = risky
    /\ \/ rows' = rows
       \/ /\ Approved /\ (node = "tool" \/ (node = "call" /\ tries = 0))
          /\ rows' = Answered(rows)
    /\ behind' = Unwritten
    /\ ledger' = NoUsage /\ tries' = 0 /\ memory' = NoMemory

\* A resume request, served by this process or by another.
ResumedBy == run = "waiting" /\ run' = "running" /\ memory' \in {memory, NoMemory}

\* The pending approval, if its row says that it was refused.
Refusals == {state.pending} \cap (rows.rejected \cup rows.cancelled)

\* await_approval after the interrupt.
Refused ==
    /\ ResumedBy /\ node = "approval" /\ state.pending \notin rows.claimed
    /\ \E verdict \in {"rejected", "cancelled"} :
          /\ Refusals \subseteq rows[verdict]
          /\ rows' = [rows EXCEPT ![verdict] = @ \cup {state.pending}]
          /\ Save(state.usage, verdict, "finalize")
    /\ UNCHANGED <<ledger, tries, history>>

\* Mutant: a claimed call without a result is claimed again.
ClaimsAgain ==
    /\ ResumedBy /\ node = "approval" /\ state.pending \notin rows.succeeded /\ Refusals = {}
    /\ rows' = [rows EXCEPT !.claimed = @ \cup {state.pending}]
    /\ node' = "call" /\ ledger' = state.usage /\ tries' = 0
    /\ UNCHANGED <<state, history>>

Claims ==
    /\ ResumedBy /\ node = "approval" /\ state.pending \notin rows.claimed /\ Refusals = {}
    /\ rows' = [rows EXCEPT !.claimed = @ \cup {state.pending}]
    /\ node' = "call" /\ ledger' = state.usage /\ tries' = 0
    /\ UNCHANGED <<state, history>>

\* The stored result, without its output, is an item that the policy accepts.
AnsweredFromRow ==
    /\ ResumedBy /\ node = "approval" /\ state.pending \in rows.succeeded
    /\ state' = Continue(Apply(state, {Item(state.step, TRUE, "none")}, FALSE, state.usage))
    /\ node' = "execute"
    /\ UNCHANGED <<ledger, tries, rows, history>>

\* Claimed by a request that died, or not executable any more.
ResumeFails ==
    /\ ResumedBy /\ node = "approval" /\ state.pending \notin rows.succeeded /\ Refusals = {}
    /\ Save(state.usage, "failed", "finalize")
    /\ UNCHANGED <<ledger, tries, rows, history>>

\* await_approval had returned: the graph goes on after it.
ResumeFinalize ==
    /\ ResumedBy /\ node # "approval"
    /\ UNCHANGED <<state, node, ledger, tries, rows, history>>

CallStep   == \/ NoAttemptLeft \/ CallTool \/ BorrowApproved
              \/ ToolAnswers \/ ToolTimesOut \/ ToolFails \/ ToolRaises
GraphStep  == /\ Route \/ Direct \/ ExecuteStep \/ SkipSteps \/ CallStep \/ Evaluate \/ Finalize
              /\ behind' = IF run' = "raised" THEN Unwritten ELSE Written(behind)
ResumeStep == /\ Refused \/ Claims \/ AnsweredFromRow \/ ResumeFails \/ ResumeFinalize
              /\ behind' = Written([kept |-> {[state |-> state, node |-> node]},
                                    lost |-> ~Approved])

Next == GraphStep \/ Return \/ RunTimesOut \/ Crash \/ ResumeStep

Spec == Init /\ [][Next]_vars

-----------------------------------------------------------------------------
(* Properties.                                                               *)

Used == [iterations : 0..MaxIterations, models : 0..MaxModelCalls, rounds : 0..MaxRounds,
         attempts : 0..MaxAttempts, tokens : 0..2, costly : BOOLEAN, overdrawn : BOOLEAN]

Status == {"none", "completed", "partial_evidence", "no_evidence", "conflicting_evidence",
           "approval_required", "rejected", "cancelled", "exhausted", "failed"}

\* The shape of the state; what is saved never exceeds a limit that is checked
\* before it is used.
TypeOK ==
    /\ state.plan \in Plans \cup {<<>>}
    /\ state.route \in {"agent", "direct"}
    /\ state.step \in 1..Len(state.plan) + 1
    /\ \A e \in state.evidence : /\ e.step \in DOMAIN state.plan
                                 /\ e.ok \in BOOLEAN /\ e.stance \in {"none", "yes", "no"}
    /\ state.usage \in Used /\ ledger \in Used
    /\ state.status \in Status
    /\ node \in {"route", "direct", "execute", "call", "tool", "approval", "evaluate",
                 "finalize", "end"}
    /\ run \in {"running", "waiting", "returned", "raised", "lost"}
    /\ tries \in 0..MaxRetries
    /\ rows.succeeded \subseteq rows.claimed

Covered(s) == IF s.route = "direct" THEN s.cited ELSE Decision(s) = "sufficient"

\* A run becomes completed, and ends completed, only with evidence: a cited answer
\* on the direct route, and an accepted item for every critical step, without a
\* conflict, on the other, whether the policy or an exhausted budget stopped it.  In
\* between, the graph goes on and may find more, also what contradicts it.
CompletedIsCovered ==
    [][state'.status = "completed" /\ (state.status # "completed" \/ node' \in {"finalize", "end"})
          => Covered(state')]_vars

\* A run calls its tools within its budget of attempts, but for the calls a crash
\* made it forget; and no crash makes it repeat a call that needed an approval: those
\* are never more than one execution of every claimed approval allows.
CallsAreBudgeted ==
    /\ toolCalls <= MaxAttempts
    /\ risky <= (MaxRetries + 1) * Cardinality(rows.claimed)

\* No step is begun after the one that finds the iterations used up, unless an
\* exhausted budget had stopped the run with sufficient evidence: only then, and
\* until its time is up, does the graph go round without a budget.  The steps a
\* crash made the run forget are not counted.
StepsAreBudgeted ==
    visits > MaxIterations + 1 => state.status = "completed" \/ state.usage.overdrawn
=============================================================================
