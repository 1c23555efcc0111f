----------------------------- MODULE AgentsProofs -----------------------------
(***************************************************************************)
(* Safety of the agents.  The Agentic graph, for any plans and budgets:    *)
(* types, evidence behind every completed run, the budgets spent on steps  *)
(* and on calls of a tool.  The minimal runtime, for any number of         *)
(* executions, tools and steps: types and the shape of a thread they drive *)
(* at once, and, while one at a time drives it, what it remembers and      *)
(* answers.  Long-term memory, for any number of users, requests and       *)
(* memories: types and what a revocation forgets.  And the types of the    *)
(* three side by side.                                                     *)
(***************************************************************************)
EXTENDS MCAgents, AgentApprovalProofs, SequenceTheorems, FiniteSetTheorems, TLAPS

\* The run may still take a step.
Live == run \in {"running", "waiting"}

-----------------------------------------------------------------------------
(* The Agentic graph: the parts of the invariant.                            *)

Items == [step : Nat, ok : BOOLEAN, stance : {"none", "yes", "no"}]

GraphState ==
    [plan : Plans \cup {<<>>}, route : {"agent", "direct"}, step : Nat, evidence : SUBSET Items,
     reused : BOOLEAN, pending : Nat \X Nat, cited : BOOLEAN, status : Status, usage : Used]

\* A state of the right shape, whose step and evidence belong to its plan.
Shaped(s) ==
    /\ s \in GraphState
    /\ s.step \in 1..Len(s.plan) + 1
    /\ \A e \in s.evidence : e.step \in DOMAIN s.plan

Ids          == Nat \X Nat
ApprovalRows == [claimed : SUBSET Ids, succeeded : SUBSET Ids, rejected : SUBSET Ids,
                 cancelled : SUBSET Ids]

\* TypeOK, with the fields of the records.
GraphTypes ==
    /\ Shaped(state)
    /\ ledger \in Used /\ tries \in 0..MaxRetries
    /\ node \in {"route", "direct", "execute", "call", "tool", "approval", "evaluate",
                 "finalize", "end"}
    /\ run \in {"running", "waiting", "returned", "raised", "lost"}
    /\ rows \in ApprovalRows
    /\ rows.succeeded \subseteq rows.claimed /\ IsFiniteSet(rows.claimed)
    /\ visits \in Nat /\ toolCalls \in Nat /\ risky \in Nat

\* Where a run that goes on may stand, and what it is waiting for.
PlaceInv ==
    /\ state.route = "direct" => node \in {"direct", "end"}
    /\ node = "direct" => state.route = "direct"
    /\ Live =>
        /\ node = "route" => /\ state.plan = <<>> /\ state.step = 1 /\ state.evidence = {}
                             /\ state.usage.models = 0 /\ state.usage.rounds = 0
        /\ node = "direct" => state.usage.rounds = 0
        /\ node \in {"execute", "call", "tool", "approval", "evaluate"} => state.plan # <<>>
        /\ Inside \/ node = "approval" => state.step <= Len(state.plan)
        /\ node \in {"route", "direct"} => state.status = "none"
        /\ Inside \/ node = "approval" => (Approved <=> state.status = "approval_required")
        /\ Approved => \/ Inside \/ node = "approval"
                       \/ node \in {"finalize", "end"} /\ state.status # "completed"
        /\ node = "approval" => Approved
        /\ node \in {"execute", "evaluate"} \/ (Inside /\ ~Approved)
              => state.status \in {"none", "completed"}

\* A run that ends completed is covered.
CompletedInv ==
    state.status = "completed" /\ node \in {"finalize", "end"} => Covered(state)

\* A budget that is exhausted with sufficient evidence stays exhausted, wherever
\* the graph goes round: no call of a tool can add to that evidence.
StoppedInv ==
    Live /\ state.status = "completed" =>
        /\ node = "execute" =>
              /\ CanFinalize(state.usage)
              /\ \/ /\ state.step <= Len(state.plan)
                    /\ \/ state.usage.iterations = MaxIterations
                       \/ /\ state.plan[state.step].tool = "kb"
                          /\ state.usage.rounds = MaxRounds
                 \/ state.usage.attempts = MaxAttempts
        /\ node = "call" => ledger.attempts = MaxAttempts
        /\ node # "tool"

\* Every step that was begun has cost an iteration, of the node's ledger first and
\* of the run's usage when it is saved.
Iterated ==
    /\ Inside => visits <= ledger.iterations
    /\ Inside /\ Approved => visits <= state.usage.iterations
    /\ node = "execute" =>
          \/ visits <= state.usage.iterations
          \/ /\ state.status = "completed" /\ state.step <= Len(state.plan)
             /\ state.usage.iterations = MaxIterations /\ Decision(state) = "sufficient"
    /\ node \in {"finalize", "end"} => visits <= MaxIterations + 1
    /\ node \in {"route", "direct", "approval", "evaluate"} => visits <= state.usage.iterations

VisitsInv == StepsAreBudgeted /\ (Live => Iterated)

\* The calls that the claimed approvals allow.
RiskyLimit == (MaxRetries + 1) * Cardinality(rows.claimed)

\* Every call of a tool is in the node's ledger or in the run's usage, and an
\* approved call that is under way has some of its attempts left.
Attempted ==
    /\ Inside =>
          /\ toolCalls <= ledger.attempts
          /\ Approved =>
                /\ state.pending \in rows.claimed \ rows.succeeded
                /\ risky + (MaxRetries + 1)
                      <= RiskyLimit + tries + (IF node = "tool" THEN 1 ELSE 0)
    /\ node \in {"route", "direct", "execute", "evaluate", "approval"}
          => toolCalls <= state.usage.attempts

CallsInv == CallsAreBudgeted /\ (Live => Attempted)

GraphInv == /\ GraphTypes /\ PlaceInv /\ CompletedInv
            /\ StoppedInv /\ VisitsInv /\ CallsInv

\* A checkpoint from which a request can go on: before the approval, after the call
\* it allowed, or at an end that did not make it.
Resumable(c) ==
    /\ Shaped(c.state)
    /\ c.state.route = "direct" => c.node = "end"
    /\ \/ /\ c.node = "approval" /\ c.state.pending # Nowhere
          /\ c.state.status = "approval_required"
          /\ c.state.plan # <<>> /\ c.state.step <= Len(c.state.plan)
       \/ /\ c.node = "execute" /\ c.state.pending = Nowhere
          /\ c.state.status = "none" /\ c.state.plan # <<>>
       \/ /\ c.node \in {"finalize", "end"} /\ c.state.pending # Nowhere
          /\ c.state.status # "completed"

Current == [state |-> state, node |-> node]

\* What a crash may fall back to, and what a request resumes, can be gone on from.
KeptInv == /\ \A c \in behind.kept : Resumable(c)
           /\ run = "waiting" => Resumable(Current)

RunInv == GraphInv /\ KeptInv

-----------------------------------------------------------------------------
(* The operators on plans, evidence and budgets.                             *)

\* A plan is a sequence of steps, each with one of the tools; a planner returns no
\* empty one.
LEMMA PlanFacts ==
    ASSUME NEW p \in Plans \cup {<<>>}
    PROVE  /\ Len(p) \in Nat /\ DOMAIN p = 1..Len(p)
           /\ p # <<>> => Len(p) >= 1
           /\ p = <<>> <=> Len(p) = 0
           /\ p \in Plans => p # <<>>
           /\ \A i \in 1..Len(p) : p[i].tool \in Tools
<1>1. p \in Seq([tool : Tools, critical : BOOLEAN])
  <2> DEFINE S == [tool : Tools, critical : BOOLEAN]
  <2>1. Plans \subseteq Seq(S) \ {<<>>}
    BY PlansAssumption
  <2> HIDE DEF S
  <2>2. <<>> \in Seq(S)
    BY EmptySeq
  <2>3. p \in Seq(S)
    BY <2>1, <2>2
  <2> QED
    BY <2>3 DEF S
<1>2. p \in Plans => p # <<>>
  BY PlansAssumption
<1>3. /\ Len(p) \in Nat /\ DOMAIN p = 1..Len(p)
      /\ \A i \in 1..Len(p) : p[i] \in [tool : Tools, critical : BOOLEAN]
  <2> DEFINE S == [tool : Tools, critical : BOOLEAN]
  <2>1. p \in Seq(S)
    BY <1>1
  <2> HIDE DEF S
  <2>2. /\ Len(p) \in Nat /\ DOMAIN p = 1..Len(p)
        /\ \A i \in 1..Len(p) : p[i] \in S
    BY <2>1
  <2> QED
    BY <2>2 DEF S
<1>4. p = <<>> <=> Len(p) = 0
  BY <1>1, EmptySeq
<1>5. \A i \in 1..Len(p) : p[i].tool \in Tools
  BY <1>3
<1> QED
  BY <1>2, <1>3, <1>4, <1>5

\* What the evidence amounts to depends on the plan and on the items alone.
LEMMA SameDecision ==
    ASSUME NEW s, NEW t, s.plan = t.plan, s.evidence = t.evidence
    PROVE  Decision(s) = Decision(t)
  BY DEF Decision

\* The state with another usage and another status.
SavedAs(s, u, status) == [s EXCEPT !.usage = u, !.status = status]

\* A node's return of its usage and its status leaves the rest of the state.
LEMMA SavedState ==
    ASSUME NEW s, Shaped(s), NEW u \in Used, NEW status \in Status,
           NEW t, t = SavedAs(s, u, status)
    PROVE  /\ Shaped(t) /\ t.usage = u /\ t.status = status
           /\ t.plan = s.plan /\ t.route = s.route /\ t.step = s.step
           /\ t.evidence = s.evidence /\ t.pending = s.pending /\ t.cited = s.cited
           /\ Decision(t) = Decision(s)
<1>1. /\ t \in GraphState /\ t.usage = u /\ t.status = status
      /\ t.plan = s.plan /\ t.route = s.route /\ t.step = s.step
      /\ t.evidence = s.evidence /\ t.pending = s.pending /\ t.cited = s.cited
  BY DEF Shaped, GraphState, SavedAs
<1> QED
  BY <1>1, SameDecision DEF Shaped

\* The states an outcome may leave, fresh or recalled.
Applied(s, items, u) == {Apply(s, items, reused, u) : reused \in BOOLEAN}

\* An outcome is added to the evidence, and the step goes forward within its plan.
LEMMA AppliedState ==
    ASSUME NEW s, Shaped(s), s.step <= Len(s.plan), NEW u \in Used,
           NEW items \in SUBSET Items, \A e \in items : e.step \in DOMAIN s.plan,
           NEW t \in Applied(s, items, u)
    PROVE  /\ Shaped(t) /\ t.usage = u /\ t.status = s.status
           /\ t.plan = s.plan /\ t.route = s.route
           /\ t.evidence = s.evidence \cup items /\ t.pending = s.pending
           /\ t.cited = s.cited
           /\ items = {} => Decision(t) = Decision(s)
<1> PICK reused \in BOOLEAN : t = Apply(s, items, reused, u)
  BY DEF Applied
<1>0. s.plan \in Plans \cup {<<>>} /\ Len(s.plan) \in Nat /\ s.step \in Nat
  <2>1. s.plan \in Plans \cup {<<>>} /\ s.step \in Nat
    BY DEF Shaped, GraphState
  <2> QED
    BY <2>1, PlanFacts
<1>1. /\ t.usage = u /\ t.status = s.status
      /\ t.plan = s.plan /\ t.route = s.route
      /\ t.evidence = s.evidence \cup items /\ t.pending = s.pending
      /\ t.cited = s.cited
      /\ t.step \in {Len(s.plan) + 1, s.step + 1}
  BY DEF Apply, Shaped, GraphState
<1>2. t \in GraphState
  <2>1. s.evidence \cup items \in SUBSET Items
    BY DEF Shaped, GraphState
  <2>2. t.step \in Nat
    BY <1>0, <1>1
  <2> QED
    BY <2>1, <2>2, <1>1 DEF Apply, Shaped, GraphState
<1>3. t.step \in 1..Len(t.plan) + 1
  BY <1>0, <1>1
<1>4. \A e \in t.evidence : e.step \in DOMAIN t.plan
  BY <1>1 DEF Shaped
<1>5. items = {} => Decision(t) = Decision(s)
  BY <1>1, SameDecision
<1> QED
  BY <1>1, <1>2, <1>3, <1>4, <1>5 DEF Shaped

\* What a tool may return belongs to the step it is called for.
LEMMA FindingsTyped ==
    ASSUME NEW plan, NEW i \in Nat, NEW items \in Findings(plan, i)
    PROVE  items \in SUBSET Items /\ \A e \in items : e.step = i
  BY DEF Findings, Item, Items

\* The fields of a ledger, and the budgets they are held to.
LEMMA UsageTyped ==
    ASSUME NEW u \in Used
    PROVE  /\ u.iterations \in 0..MaxIterations /\ u.models \in 0..MaxModelCalls
           /\ u.rounds \in 0..MaxRounds /\ u.attempts \in 0..MaxAttempts
           /\ u.tokens \in 0..2 /\ u.costly \in BOOLEAN
           /\ {MaxIterations, MaxModelCalls, MaxRounds, MaxAttempts} \subseteq Nat \ {0}
  BY GraphBounds DEF Used

\* A model's answer adds tokens and a cost, and nothing else.
Charged(u, t, c) == [u EXCEPT !.tokens = t, !.costly = c]

\* record_model_usage changes no other field of the ledger.
LEMMA RecordedIs ==
    ASSUME NEW u
    PROVE  Recorded(u) = {Charged(u, t, c) :
                             t \in u.tokens..2, c \in {x \in BOOLEAN : u.costly => x}}
  BY SMT DEF Recorded, Charged

\* A model call that is begun is counted once.
LEMMA BegunTyped ==
    ASSUME NEW u \in Used, u.models < MaxModelCalls
    PROVE  /\ BeginModelCall(u) \in Used
           /\ BeginModelCall(u).iterations = u.iterations /\ BeginModelCall(u).rounds = u.rounds
           /\ BeginModelCall(u).attempts = u.attempts
  BY UsageTyped DEF BeginModelCall, Used

\* A model call that is recorded costs nothing else than a model call.
LEMMA RecordedTyped ==
    ASSUME NEW u \in Used, u.models < MaxModelCalls, NEW v \in Recorded(BeginModelCall(u))
    PROVE  /\ v \in Used /\ v.iterations = u.iterations
           /\ v.rounds = u.rounds /\ v.attempts = u.attempts
<1> DEFINE b == BeginModelCall(u)
<1>1. /\ b \in Used /\ b.iterations = u.iterations
      /\ b.rounds = u.rounds /\ b.attempts = u.attempts
  BY BegunTyped
<1> HIDE DEF b
<1>2. PICK t \in b.tokens..2, c \in BOOLEAN : v = Charged(b, t, c)
  <2>1. v \in Recorded(b)
    BY DEF b
  <2> QED
    BY <2>1, RecordedIs
<1>3. t \in 0..2
  BY <1>1, <1>2, UsageTyped
<1>4. /\ v \in Used /\ v.iterations = b.iterations
      /\ v.rounds = b.rounds /\ v.attempts = b.attempts
  BY <1>1, <1>2, <1>3 DEF Used, Charged
<1> QED
  BY <1>1, <1>4 DEF b

\* Iterations, retrieval rounds and attempts are counted one at a time.
LEMMA CountedTyped ==
    ASSUME NEW u \in Used
    PROVE  /\ u.iterations < MaxIterations => ConsumeIteration(u) \in Used
           /\ u.rounds < MaxRounds => [u EXCEPT !.rounds = @ + 1] \in Used
           /\ u.attempts < MaxAttempts => Attempt(u) \in Used
           /\ ConsumeIteration(u).iterations = u.iterations + 1
           /\ ConsumeIteration(u).rounds = u.rounds
           /\ ConsumeIteration(u).attempts = u.attempts
           /\ [u EXCEPT !.rounds = @ + 1].iterations = u.iterations
           /\ [u EXCEPT !.rounds = @ + 1].rounds = u.rounds + 1
           /\ [u EXCEPT !.rounds = @ + 1].attempts = u.attempts
           /\ [u EXCEPT !.rounds = @ + 1].models = u.models
           /\ Attempt(u).iterations = u.iterations /\ Attempt(u).attempts = u.attempts + 1
  BY UsageTyped DEF Used, ConsumeIteration, Attempt

\* Another claimed approval allows one more execution.
LEMMA LimitGrows ==
    ASSUME GraphTypes, NEW id \in Ids, id \notin rows.claimed
    PROVE  LET more == rows.claimed \cup {id}
           IN  /\ IsFiniteSet(more)
               /\ RiskyLimit \in Nat
               /\ (MaxRetries + 1) * Cardinality(more) = RiskyLimit + MaxRetries + 1
<1>1. IsFiniteSet(rows.claimed)
  BY DEF GraphTypes
<1>2. /\ IsFiniteSet(rows.claimed \cup {id})
      /\ Cardinality(rows.claimed \cup {id}) = Cardinality(rows.claimed) + 1
      /\ Cardinality(rows.claimed) \in Nat
  BY <1>1, FS_AddElement, FS_CardinalityType
<1>3. \A m, k \in Nat : m * k \in Nat /\ m * (k + 1) = m * k + m
  OBVIOUS
<1>4. MaxRetries + 1 \in Nat
  BY GraphBounds
<1>5. (MaxRetries + 1) * (Cardinality(rows.claimed) + 1)
         = (MaxRetries + 1) * Cardinality(rows.claimed) + (MaxRetries + 1)
  BY <1>2, <1>3, <1>4
<1>6. (MaxRetries + 1) * Cardinality(rows.claimed) \in Nat
  BY <1>2, <1>3, <1>4
<1> QED
  BY <1>2, <1>5, <1>6, GraphBounds DEF RiskyLimit

\* CallsAreBudgeted in these terms.
LEMMA CallsMean == CallsAreBudgeted <=> toolCalls <= MaxAttempts /\ risky <= RiskyLimit
  BY DEF CallsAreBudgeted, RiskyLimit

\* The limit is a number.
LEMMA LimitTyped == GraphTypes => RiskyLimit \in Nat
<1> SUFFICES ASSUME GraphTypes PROVE RiskyLimit \in Nat
  OBVIOUS
<1>1. Cardinality(rows.claimed) \in Nat
  BY FS_CardinalityType DEF GraphTypes
<1>2. \A m, k \in Nat : m * k \in Nat
  OBVIOUS
<1> QED
  BY <1>1, <1>2, GraphBounds DEF RiskyLimit

\* What an answer stored to the row of the pending call changes.
LEMMA AnsweredTyped ==
    ASSUME GraphTypes, Approved, state.pending \in rows.claimed, rows' = Answered(rows)
    PROVE  /\ rows' \in ApprovalRows /\ rows'.claimed = rows.claimed
           /\ rows'.succeeded \subseteq rows'.claimed /\ RiskyLimit' = RiskyLimit
<1>1. rows \in ApprovalRows /\ rows.succeeded \subseteq rows.claimed /\ state.pending \in Ids
  BY DEF GraphTypes, Shaped, GraphState, Ids
<1> QED
  BY <1>1 DEF Answered, CallId, ApprovalRows, RiskyLimit

-----------------------------------------------------------------------------
(* The initial states, and the steps that end the graph.                     *)

\* The invariant holds before the graph has run.
LEMMA GraphStarts == Init => GraphInv
<1> SUFFICES ASSUME Init PROVE GraphInv
  OBVIOUS
<1>1. PICK t \in {0, 1} :
         state = [plan |-> <<>>, route |-> "agent", step |-> 1, evidence |-> {},
                  reused |-> FALSE, pending |-> Nowhere, cited |-> FALSE, status |-> "none",
                  usage |-> [NoUsage EXCEPT !.tokens = t]]
  BY DEF Init
<1>2. NoUsage \in Used /\ [NoUsage EXCEPT !.tokens = t] \in Used
  <2>1. /\ MaxIterations \in Nat /\ MaxModelCalls \in Nat
        /\ MaxRounds \in Nat /\ MaxAttempts \in Nat
    BY GraphBounds
  <2>2. NoUsage \in Used
    BY <2>1 DEF NoUsage, Used
  <2>3. t \in 0..2
    BY <1>1
  <2> QED
    BY <2>2, <2>3 DEF Used
<1>3. [NoUsage EXCEPT !.tokens = t].iterations = 0 /\ [NoUsage EXCEPT !.tokens = t].attempts = 0
      /\ [NoUsage EXCEPT !.tokens = t].models = 0 /\ [NoUsage EXCEPT !.tokens = t].rounds = 0
  BY DEF NoUsage
<1>4. GraphTypes
  <2>1. state \in GraphState
    BY <1>1, <1>2 DEF GraphState, Nowhere, Status
  <2>2. state.step \in 1..Len(state.plan) + 1 /\ state.evidence = {}
    BY <1>1, PlanFacts
  <2>3. rows \in ApprovalRows /\ rows.succeeded = {} /\ IsFiniteSet(rows.claimed)
    BY FS_EmptySet DEF Init, ApprovalRows
  <2> QED
    BY <2>1, <2>2, <2>3, <1>2, GraphBounds DEF GraphTypes, Shaped, Init
<1>5. PlaceInv
  BY <1>1, <1>3 DEF PlaceInv, Init, Live, Inside, Approved, Nowhere
<1>6. CompletedInv /\ StoppedInv
  BY <1>1 DEF CompletedInv, StoppedInv
<1>7. VisitsInv
  <2>1. state.usage.iterations = 0 /\ visits = 0 /\ node = "route" /\ MaxIterations \in Nat
    BY <1>1, <1>3, GraphBounds DEF Init
  <2> QED
    BY <2>1 DEF VisitsInv, StepsAreBudgeted, Iterated, Inside
<1>8. CallsInv
  <2>1. /\ state.usage.attempts = 0 /\ toolCalls = 0 /\ risky = 0 /\ node = "route"
        /\ MaxAttempts \in Nat /\ RiskyLimit \in Nat
    BY <1>1, <1>3, <1>4, LimitTyped, GraphBounds DEF Init
  <2> QED
    BY <2>1, CallsMean DEF CallsInv, Attempted, Inside
<1> QED
  BY <1>4, <1>5, <1>6, <1>7, <1>8 DEF GraphInv

\* A node that ends the graph without completing it.
LEMMA GraphEnds ==
    ASSUME GraphInv, NEW u \in Used, NEW status \in Status \ {"completed", "approval_required"},
           NEW to \in {"finalize", "end"}, Save(u, status, to),
           state.route = "direct" => to = "end",
           visits' \in Nat, visits' <= MaxIterations + 1, run' = "running",
           ledger' \in Used, tries' \in 0..MaxRetries, toolCalls' = toolCalls, risky' = risky,
           rows' = rows \/ \E verdict \in {"rejected", "cancelled"} :
                              rows' = [rows EXCEPT ![verdict] = @ \cup {state.pending}]
    PROVE  GraphInv'
<1>0. GraphTypes /\ PlaceInv /\ CallsAreBudgeted
  BY DEF GraphInv, CallsInv
<1>1. /\ Shaped(state') /\ state'.status = status /\ state'.route = state.route
      /\ state'.pending = state.pending /\ node' = to
  <2>1. status \in Status /\ Shaped(state)
    BY <1>0 DEF GraphTypes
  <2>2. state' = SavedAs(state, u, status) /\ node' = to
    BY DEF Save, SavedAs
  <2> QED
    BY <2>1, <2>2, SavedState
<1>7. /\ rows' \in ApprovalRows /\ rows'.claimed = rows.claimed /\ rows'.succeeded = rows.succeeded
  <2>1. rows \in ApprovalRows /\ state.pending \in Ids
    BY <1>0 DEF GraphTypes, Shaped, GraphState, Ids
  <2> QED
    BY <2>1 DEF ApprovalRows
<1>2. GraphTypes'
  BY <1>0, <1>1, <1>7 DEF GraphTypes
<1>3. PlaceInv'
  BY <1>0, <1>1 DEF PlaceInv, Live, Inside, Approved
<1>4. CompletedInv' /\ StoppedInv'
  BY <1>1 DEF CompletedInv, StoppedInv
<1>5. VisitsInv'
  <2>1. visits' <= MaxIterations + 1 /\ ~(visits' > MaxIterations + 1)
    BY <1>0, GraphBounds DEF GraphTypes
  <2> QED
    BY <1>1, <2>1 DEF VisitsInv, StepsAreBudgeted, Iterated, Inside
<1>6. CallsInv'
  BY <1>0, <1>1, <1>7 DEF CallsInv, CallsAreBudgeted, Attempted, Inside
<1> QED
  BY <1>2, <1>3, <1>4, <1>5, <1>6 DEF GraphInv

\* Outside of execute_step, the steps begun are within the budget.
LEMMA VisitsBounded ==
    ASSUME GraphInv, Live, node # "execute"
    PROVE  visits <= MaxIterations + 1
<1>1. /\ visits \in Nat /\ ledger.iterations \in 0..MaxIterations
      /\ state.usage.iterations \in 0..MaxIterations /\ MaxIterations \in Nat
  <2>1. ledger \in Used /\ state.usage \in Used /\ visits \in Nat
    BY DEF GraphInv, GraphTypes, Shaped, GraphState
  <2> QED
    BY <2>1, UsageTyped
<1>2. node \in {"route", "direct", "execute", "call", "tool", "approval", "evaluate",
                "finalize", "end"} /\ Iterated
  BY DEF GraphInv, GraphTypes, VisitsInv
<1> QED
  BY <1>1, <1>2 DEF Iterated, Inside

\* The types of what a step reads.
LEMMA GraphTyped ==
    ASSUME GraphTypes
    PROVE  /\ Shaped(state) /\ state.plan \in Plans \cup {<<>>} /\ state.usage \in Used
           /\ state.route \in {"agent", "direct"} /\ state.step \in Nat
           /\ state.step >= 1 /\ state.step <= Len(state.plan) + 1
           /\ Len(state.plan) \in Nat /\ state.pending \in Nat \X Nat
           /\ state.status \in Status
           /\ state.usage.iterations \in 0..MaxIterations /\ ledger.iterations \in 0..MaxIterations
           /\ state.usage.attempts \in 0..MaxAttempts /\ ledger.attempts \in 0..MaxAttempts
           /\ state.usage.rounds \in 0..MaxRounds
           /\ {MaxIterations, MaxModelCalls, MaxRounds, MaxAttempts} \subseteq Nat \ {0}
           /\ visits \in Nat /\ toolCalls \in Nat /\ risky \in Nat /\ RiskyLimit \in Nat
<1>1. /\ Shaped(state) /\ state.plan \in Plans \cup {<<>>} /\ state.usage \in Used
      /\ state.route \in {"agent", "direct"} /\ state.step \in Nat
      /\ state.pending \in Nat \X Nat /\ state.status \in Status
      /\ ledger \in Used /\ visits \in Nat /\ toolCalls \in Nat /\ risky \in Nat
  BY DEF GraphTypes, Shaped, GraphState
<1>2. Len(state.plan) \in Nat /\ state.step \in 1..Len(state.plan) + 1
  BY <1>1, PlanFacts DEF Shaped
<1>3. /\ state.usage.iterations \in 0..MaxIterations /\ ledger.iterations \in 0..MaxIterations
      /\ state.usage.attempts \in 0..MaxAttempts /\ ledger.attempts \in 0..MaxAttempts
      /\ state.usage.rounds \in 0..MaxRounds
      /\ {MaxIterations, MaxModelCalls, MaxRounds, MaxAttempts} \subseteq Nat \ {0}
  BY <1>1, UsageTyped
<1> QED
  BY <1>1, <1>2, <1>3, LimitTyped

-----------------------------------------------------------------------------
(* The steps of the graph.                                                   *)

\* The routing node plans the run, or ends it.
LEMMA RouteStep == ASSUME GraphInv, Route PROVE GraphInv'
<1>0. GraphTypes /\ PlaceInv /\ VisitsInv /\ CallsInv
  BY DEF GraphInv
<1>1. /\ node = "route" /\ run = "running" /\ Live /\ ~Inside
      /\ run' = run /\ ledger' = ledger /\ tries' = tries /\ rows' = rows
      /\ visits' = visits /\ toolCalls' = toolCalls /\ risky' = risky
  BY DEF Route, Runs, Live, Inside, history
<1>2. /\ state.plan = <<>> /\ state.step = 1 /\ state.evidence = {}
      /\ state.usage.models = 0 /\ state.usage.rounds = 0 /\ state.status = "none"
      /\ ~Approved /\ state.route = "agent"
  BY <1>0, <1>1, GraphTyped DEF PlaceInv
<1>3. /\ visits <= state.usage.iterations /\ visits <= MaxIterations + 1
      /\ toolCalls <= state.usage.attempts
  BY <1>0, <1>1, VisitsBounded DEF VisitsInv, Iterated, CallsInv, Attempted
<1>4. ledger \in Used /\ tries \in 0..MaxRetries
  BY <1>0 DEF GraphTypes
<1>5. \A u \in {state.usage, BeginModelCall(state.usage)}
                  \cup Recorded(BeginModelCall(state.usage)) :
         /\ u \in Used /\ u.rounds = 0
         /\ u.iterations = state.usage.iterations /\ u.attempts = state.usage.attempts
  <2>1. state.usage \in Used /\ state.usage.models < MaxModelCalls
    BY <1>0, <1>2, GraphTyped
  <2> QED
    BY <1>2, <2>1, BegunTyped, RecordedTyped
<1>6. ASSUME NEW u \in {state.usage} \cup Recorded(BeginModelCall(state.usage)),
             NEW p \in Plans, NEW simple \in BOOLEAN,
             state' = [state EXCEPT !.plan = p, !.usage = u,
                                    !.route = IF simple THEN "direct" ELSE "agent"],
             node' = IF simple THEN "direct" ELSE "execute"
      PROVE  GraphInv'
  <2>1. /\ state' \in GraphState /\ state'.plan = p /\ state'.usage = u
        /\ state'.route = (IF simple THEN "direct" ELSE "agent")
        /\ state'.step = 1 /\ state'.evidence = {} /\ state'.status = "none"
        /\ state'.pending = state.pending
    BY <1>0, <1>2, <1>5, <1>6 DEF GraphTypes, Shaped, GraphState
  <2>2. p # <<>> /\ Len(p) \in Nat
    BY PlanFacts
  <2>3. GraphTypes'
    BY <1>0, <1>1, <1>6, <2>1, <2>2 DEF GraphTypes, Shaped
  <2>4. PlaceInv'
    BY <1>1, <1>2, <1>5, <1>6, <2>1, <2>2 DEF PlaceInv, Live, Inside, Approved
  <2>5. CompletedInv' /\ StoppedInv'
    BY <2>1 DEF CompletedInv, StoppedInv
  <2>6. VisitsInv'
    <3>1. visits' <= state'.usage.iterations
      BY <1>1, <1>3, <1>5, <2>1
    <3>2. ~(visits' > MaxIterations + 1)
      BY <1>0, <1>1, <1>3, GraphTyped
    <3> QED
      BY <1>6, <3>1, <3>2 DEF VisitsInv, StepsAreBudgeted, Iterated, Inside
  <2>7. CallsInv'
    <3>1. toolCalls' <= state'.usage.attempts /\ CallsAreBudgeted'
      BY <1>0, <1>1, <1>3, <1>5, <2>1 DEF CallsInv, CallsAreBudgeted, RiskyLimit
    <3> QED
      BY <1>6, <3>1 DEF CallsInv, Attempted, Inside
  <2> QED
    BY <2>3, <2>4, <2>5, <2>6, <2>7 DEF GraphInv
<1>7. ASSUME NEW u \in {state.usage, BeginModelCall(state.usage)}
                           \cup Recorded(BeginModelCall(state.usage)),
             NEW status \in {"exhausted", "failed"}, Save(u, status, "finalize")
      PROVE  GraphInv'
  <2>1. visits' \in Nat /\ visits' <= MaxIterations + 1
    BY <1>0, <1>1, <1>3, GraphTyped
  <2> QED
    BY <1>1, <1>2, <1>4, <1>5, <1>7, <2>1, GraphEnds DEF Status
<1> QED
  BY <1>6, <1>7 DEF Route

\* The direct answer ends the run, with citations if it is completed.
LEMMA DirectStep == ASSUME GraphInv, Direct PROVE GraphInv'
<1> DEFINE l == [state.usage EXCEPT !.rounds = @ + 1]
<1>0. GraphTypes /\ PlaceInv /\ VisitsInv /\ CallsInv
  BY DEF GraphInv
<1>1. /\ node = "direct" /\ run = "running" /\ Live /\ state.route = "direct" /\ ~Approved
      /\ run' = "running" /\ ledger' = ledger /\ tries' = tries /\ rows' = rows
      /\ visits' = visits /\ toolCalls' = toolCalls /\ risky' = risky
      /\ ledger \in Used /\ tries \in 0..MaxRetries
  BY <1>0 DEF Direct, Runs, Live, Inside, PlaceInv, GraphTypes, history
<1>2. visits <= MaxIterations + 1 /\ ~(visits > MaxIterations + 1)
  <2>1. visits <= MaxIterations + 1
    BY <1>1, VisitsBounded
  <2> QED
    BY <1>0, <2>1, GraphTyped
<1>3. l \in Used
  <2>1. state.usage \in Used /\ state.usage.rounds < MaxRounds
    <3>1. state.usage.rounds = 0
      BY <1>0, <1>1 DEF PlaceInv
    <3> QED
      BY <1>0, <3>1, GraphTyped
  <2> QED
    BY <2>1, CountedTyped
<1>4. l.models < MaxModelCalls =>
         /\ BeginModelCall(l) \in Used
         /\ \A u \in Recorded(BeginModelCall(l)) : u \in Used
  BY <1>3, BegunTyped, RecordedTyped
<1>5. l.models \in 0..MaxModelCalls /\ MaxModelCalls \in Nat
  BY <1>3, UsageTyped
<1>6. BeginModelCall(l).models = l.models + 1
  BY <1>3 DEF BeginModelCall, Used
<1> HIDE DEF l
<1>7. ASSUME NEW u \in Used, NEW status \in {"no_evidence", "exhausted", "failed"},
             Save(u, status, "end")
      PROVE  GraphInv'
  <2>1. visits' \in Nat /\ visits' <= MaxIterations + 1
    BY <1>0, <1>1, <1>2, GraphTyped
  <2> QED
    BY <1>1, <1>7, <2>1, GraphEnds DEF Status
<1>8. ASSUME NEW u \in Used, node' = "end",
             state' = [state EXCEPT !.usage = u, !.status = "completed", !.cited = TRUE]
      PROVE  GraphInv'
  <2>1. /\ state' \in GraphState /\ state'.plan = state.plan /\ state'.step = state.step
        /\ state'.evidence = state.evidence /\ state'.route = "direct"
        /\ state'.status = "completed" /\ state'.cited = TRUE
        /\ state'.pending = state.pending
    BY <1>0, <1>1, <1>8 DEF GraphTypes, Shaped, GraphState, Status
  <2>2. GraphTypes'
    BY <1>0, <1>1, <1>8, <2>1 DEF GraphTypes, Shaped
  <2>3. PlaceInv'
    BY <1>1, <1>8, <2>1 DEF PlaceInv, Live, Inside, Approved
  <2>4. CompletedInv' /\ StoppedInv'
    BY <1>8, <2>1 DEF CompletedInv, StoppedInv, Covered
  <2>5. VisitsInv'
    BY <1>1, <1>2, <1>8 DEF VisitsInv, StepsAreBudgeted, Iterated, Inside
  <2>6. CallsInv'
    BY <1>0, <1>1, <1>8 DEF CallsInv, CallsAreBudgeted, Attempted, Inside
  <2> QED
    BY <2>2, <2>3, <2>4, <2>5, <2>6 DEF GraphInv
<1>9. \/ Save(l, "no_evidence", "end")
      \/ l.models = MaxModelCalls /\ Save(l, "exhausted", "end")
      \/ \E u \in {l, BeginModelCall(l)} : u.models <= MaxModelCalls /\ Save(u, "failed", "end")
      \/ /\ l.models < MaxModelCalls
         /\ \E u \in Recorded(BeginModelCall(l)) :
               IF Exceeded(u) /\ ~CanFinalize(u)
               THEN Save(u, "exhausted", "end")
               ELSE /\ state' = [state EXCEPT !.usage = u, !.status = "completed",
                                              !.cited = TRUE]
                    /\ node' = "end"
  BY DEF Direct, l
<1>10. CASE Save(l, "no_evidence", "end") \/ Save(l, "exhausted", "end")
  BY <1>3, <1>7, <1>10
<1>11. CASE \E u \in {l, BeginModelCall(l)} :
               u.models <= MaxModelCalls /\ Save(u, "failed", "end")
  <2>1. PICK u \in {l, BeginModelCall(l)} :
           u.models <= MaxModelCalls /\ Save(u, "failed", "end")
    BY <1>11
  <2>2. u \in Used
    BY <1>3, <1>4, <1>5, <1>6, <2>1
  <2> QED
    BY <1>7, <2>1, <2>2
<1>12. CASE /\ l.models < MaxModelCalls
            /\ \E u \in Recorded(BeginModelCall(l)) :
                  IF Exceeded(u) /\ ~CanFinalize(u)
                  THEN Save(u, "exhausted", "end")
                  ELSE /\ state' = [state EXCEPT !.usage = u, !.status = "completed",
                                                 !.cited = TRUE]
                       /\ node' = "end"
  BY <1>4, <1>7, <1>8, <1>12
<1> QED
  BY <1>9, <1>10, <1>11, <1>12

\* Finalize cites the evidence and changes nothing that is covered by it.
LEMMA FinalizeStep == ASSUME GraphInv, Finalize PROVE GraphInv'
<1>0. GraphTypes /\ PlaceInv /\ CompletedInv /\ VisitsInv /\ CallsInv
  BY DEF GraphInv
<1>1. /\ node = "finalize" /\ run = "running" /\ Live /\ node' = "end" /\ state.route = "agent"
      /\ run' = "running" /\ ledger' = ledger /\ tries' = tries /\ rows' = rows
      /\ visits' = visits /\ toolCalls' = toolCalls /\ risky' = risky
  BY <1>0, GraphTyped DEF Finalize, Runs, Live, PlaceInv, history
<1>2. visits <= MaxIterations + 1 /\ ~(visits > MaxIterations + 1)
  <2>1. visits <= MaxIterations + 1
    BY <1>1, VisitsBounded
  <2> QED
    BY <1>0, <2>1, GraphTyped
<1>3. /\ state' \in GraphState /\ state'.plan = state.plan /\ state'.step = state.step
      /\ state'.evidence = state.evidence /\ state'.route = state.route
      /\ state'.status = state.status /\ state'.pending = state.pending
  BY <1>0 DEF Finalize, GraphTypes, Shaped, GraphState
<1>4. Decision(state') = Decision(state)
  BY <1>3, SameDecision
<1>5. GraphTypes'
  BY <1>0, <1>1, <1>3 DEF GraphTypes, Shaped
<1>6. PlaceInv'
  BY <1>0, <1>1, <1>3 DEF PlaceInv, Live, Inside, Approved
<1>7. CompletedInv' /\ StoppedInv'
  BY <1>0, <1>1, <1>3, <1>4 DEF CompletedInv, StoppedInv, Covered
<1>8. VisitsInv'
  BY <1>1, <1>2 DEF VisitsInv, StepsAreBudgeted, Iterated, Inside
<1>9. CallsInv'
  BY <1>0, <1>1 DEF CallsInv, CallsAreBudgeted, Attempted, Inside
<1> QED
  BY <1>5, <1>6, <1>7, <1>8, <1>9 DEF GraphInv

\* The policy completes a run only on sufficient evidence, or begins its plan anew.
LEMMA EvaluateStep == ASSUME GraphInv, Evaluate PROVE GraphInv'
<1>0. GraphTypes /\ PlaceInv /\ VisitsInv /\ CallsInv
  BY DEF GraphInv
<1>1. /\ node = "evaluate" /\ run = "running" /\ Live
      /\ run' = "running" /\ ledger' = ledger /\ tries' = tries /\ rows' = rows
      /\ visits' = visits /\ toolCalls' = toolCalls /\ risky' = risky
  BY DEF Evaluate, Runs, Live, history
<1>2. /\ state.plan # <<>> /\ ~Approved /\ state.route = "agent"
      /\ visits <= state.usage.iterations /\ toolCalls <= state.usage.attempts
  BY <1>0, <1>1, GraphTyped
     DEF PlaceInv, Inside, VisitsInv, Iterated, CallsInv, Attempted
<1>3. visits <= MaxIterations + 1 /\ ~(visits > MaxIterations + 1)
  <2>1. visits <= MaxIterations + 1
    BY <1>1, VisitsBounded
  <2> QED
    BY <1>0, <2>1, GraphTyped
<1>4. Decision(state) \in {"conflicting_evidence", "no_evidence", "partial_evidence", "sufficient"}
  BY DEF Decision
<1>5. \/ /\ state' = [state EXCEPT !.status = "none", !.step = 1]
         /\ node' = "execute"
      \/ /\ state' = [state EXCEPT !.step = Len(state.plan) + 1,
                                   !.status = IF Decision(state) = "sufficient"
                                              THEN "completed" ELSE Decision(state)]
         /\ node' = "finalize"
  BY DEF Evaluate
<1>6. /\ state' \in GraphState /\ state'.plan = state.plan /\ state'.evidence = state.evidence
      /\ state'.route = state.route /\ state'.pending = state.pending
      /\ state'.usage = state.usage /\ state'.step \in {1, Len(state.plan) + 1}
      /\ node' = "execute" => state'.status = "none"
      /\ node' = "finalize" => \/ state'.status = "completed" /\ Decision(state) = "sufficient"
                               \/ state'.status # "completed"
      /\ node' \in {"execute", "finalize"}
  <2>1. state \in GraphState /\ 1 \in Nat /\ Len(state.plan) + 1 \in Nat
    <3>1. Shaped(state) /\ Len(state.plan) \in Nat
      BY <1>0, GraphTyped
    <3> QED
      BY <3>1 DEF Shaped
  <2> QED
    BY <2>1, <1>4, <1>5 DEF GraphState, Status
<1>7. Decision(state') = Decision(state)
  BY <1>6, SameDecision
<1>8. GraphTypes'
  <2>1. state'.step \in 1..Len(state'.plan) + 1
    <3>1. Len(state.plan) \in Nat
      BY <1>0, GraphTyped
    <3> QED
      BY <1>6, <3>1
  <2>2. Shaped(state')
    BY <1>0, <1>6, <2>1 DEF GraphTypes, Shaped
  <2> QED
    BY <1>0, <1>1, <1>6, <2>2 DEF GraphTypes
<1>9. PlaceInv'
  BY <1>1, <1>2, <1>6 DEF PlaceInv, Live, Inside, Approved
<1>10. CompletedInv' /\ StoppedInv'
  BY <1>2, <1>6, <1>7 DEF CompletedInv, StoppedInv, Covered
<1>11. VisitsInv'
  BY <1>1, <1>2, <1>3, <1>6 DEF VisitsInv, StepsAreBudgeted, Iterated, Inside
<1>12. CallsInv'
  BY <1>0, <1>1, <1>2, <1>6 DEF CallsInv, CallsAreBudgeted, Attempted, Inside, RiskyLimit
<1> QED
  BY <1>8, <1>9, <1>10, <1>11, <1>12 DEF GraphInv

\* A plan whose last step was approved is evaluated.
LEMMA SkipStepsStep == ASSUME GraphInv, SkipSteps PROVE GraphInv'
<1>0. GraphTypes /\ PlaceInv /\ CompletedInv /\ StoppedInv /\ VisitsInv /\ CallsInv
  BY DEF GraphInv
<1>1. /\ node = "execute" /\ run = "running" /\ Live /\ state.step > Len(state.plan)
      /\ state' = state /\ run' = "running" /\ ledger' = ledger /\ tries' = tries
      /\ rows' = rows /\ visits' = visits /\ toolCalls' = toolCalls /\ risky' = risky
  BY DEF SkipSteps, Runs, Live, Leave, history
<1>2. /\ state.status \in {"none", "completed"} /\ state.plan # <<>> /\ ~Approved
      /\ toolCalls <= state.usage.attempts
  BY <1>0, <1>1 DEF PlaceInv, Inside, CallsInv, Attempted
<1>3. ~(state.step <= Len(state.plan))
  <2>1. state.step \in Nat /\ Len(state.plan) \in Nat
    BY <1>0, GraphTyped
  <2> QED
    BY <1>1, <2>1
<1>4. node' = "evaluate"
  BY <1>2, <1>3 DEF SkipSteps, Leave, AfterExecute
<1>5. visits <= state.usage.iterations
  BY <1>0, <1>1, <1>3 DEF VisitsInv, Iterated
<1>6. GraphTypes'
  BY <1>0, <1>1, <1>4 DEF GraphTypes
<1>7. PlaceInv'
  BY <1>0, <1>1, <1>2, <1>4 DEF PlaceInv, Live, Inside, Approved
<1>8. CompletedInv' /\ StoppedInv'
  BY <1>0, <1>1, <1>4 DEF CompletedInv, StoppedInv
<1>9. VisitsInv'
  BY <1>0, <1>1, <1>4, <1>5 DEF VisitsInv, StepsAreBudgeted, Iterated, Inside
<1>10. CallsInv'
  BY <1>0, <1>1, <1>2, <1>4 DEF CallsInv, CallsAreBudgeted, Attempted, Inside, RiskyLimit
<1> QED
  BY <1>6, <1>7, <1>8, <1>9, <1>10 DEF GraphInv

\* A budget is found exhausted: the run is completed with the evidence it has, and
\* goes round, or it ends.
LEMMA BudgetStops ==
    ASSUME GraphInv, Live, run' = "running", state.route = "agent", ~Approved,
           state.plan # <<>>, state.step <= Len(state.plan),
           NEW u \in Used, BudgetStop(u),
           \/ u.iterations = MaxIterations
           \/ state.plan[state.step].tool = "kb" /\ u.rounds = MaxRounds
           \/ u.attempts = MaxAttempts,
           visits' \in Nat,
           visits' <= u.iterations \/ u.iterations = MaxIterations,
           visits' <= MaxIterations + 1 \/ (Decision(state) = "sufficient" /\ CanFinalize(u)),
           toolCalls <= u.attempts,
           ledger' \in Used, tries' \in 0..MaxRetries, rows' = rows,
           toolCalls' = toolCalls, risky' = risky
    PROVE  GraphInv'
<1> DEFINE done == Decision(state) = "sufficient" /\ CanFinalize(u)
           status == IF done THEN "completed" ELSE "exhausted"
<1>0. GraphTypes /\ PlaceInv /\ CallsInv
  BY DEF GraphInv
<1>1. state' = SavedAs(state, u, status) /\ node' = AfterExecute(state')
  BY DEF BudgetStop, Leave, SavedAs
<1>2. CASE ~done
  <2>1. status = "exhausted"
    BY <1>2
  <2>2. state' = [state EXCEPT !.usage = u, !.status = "exhausted"]
    BY <1>1, <2>1 DEF SavedAs
  <2>3. state'.status = "exhausted"
    BY <1>0, <2>2 DEF GraphTypes, Shaped, GraphState
  <2>4. node' = "finalize"
    BY <1>1, <2>3 DEF AfterExecute
  <2>5. Save(u, "exhausted", "finalize")
    BY <2>2, <2>4 DEF Save
  <2> QED
    BY <1>2, <2>5, GraphEnds DEF Status
<1>3. CASE done
  <2>1. status = "completed" /\ status \in Status
    BY <1>3 DEF Status
  <2> HIDE DEF status
  <2>2. /\ Shaped(state') /\ state'.usage = u /\ state'.status = "completed"
        /\ state'.plan = state.plan /\ state'.route = state.route /\ state'.step = state.step
        /\ state'.pending = state.pending /\ Decision(state') = Decision(state)
    BY <1>0, <1>1, <2>1, SavedState DEF GraphTypes
  <2>3. node' = "execute"
    BY <1>1, <2>2 DEF AfterExecute
  <2>4. GraphTypes'
    BY <1>0, <2>2, <2>3 DEF GraphTypes
  <2>5. PlaceInv'
    BY <1>0, <2>2, <2>3 DEF PlaceInv, Live, Inside, Approved
  <2>6. CompletedInv'
    BY <2>3 DEF CompletedInv
  <2>7. StoppedInv'
    BY <1>3, <2>2, <2>3 DEF StoppedInv
  <2>8. VisitsInv'
    BY <1>3, <2>2, <2>3 DEF VisitsInv, StepsAreBudgeted, Iterated, Inside
  <2>9. CallsInv'
    BY <1>0, <2>2, <2>3 DEF CallsInv, CallsAreBudgeted, Attempted, Inside, RiskyLimit
  <2> QED
    BY <2>4, <2>5, <2>6, <2>7, <2>8, <2>9 DEF GraphInv
<1> QED
  BY <1>2, <1>3

\* A step costs an iteration, and a retrieval round if it asks the knowledge base,
\* before its tool is looked at.
LEMMA ExecuteStepStep == ASSUME GraphInv, ExecuteStep PROVE GraphInv'
<1> DEFINE i  == state.step
           u1 == ConsumeIteration(state.usage)
           kb == state.plan[i].tool = "kb"
           u2 == IF kb THEN [u1 EXCEPT !.rounds = @ + 1] ELSE u1
           id == <<i, state.usage.rounds>>
<1>0. GraphTypes /\ PlaceInv /\ CompletedInv /\ StoppedInv /\ VisitsInv /\ CallsInv
  BY DEF GraphInv
<1>1. /\ node = "execute" /\ run = "running" /\ Live /\ i <= Len(state.plan)
      /\ run' = "running" /\ rows' = rows /\ toolCalls' = toolCalls /\ risky' = risky
  BY DEF ExecuteStep, Runs, Live
<1>2. /\ state.status \in {"none", "completed"} /\ state.plan # <<>> /\ ~Approved
      /\ state.route = "agent" /\ toolCalls <= state.usage.attempts
      /\ ledger \in Used /\ tries \in 0..MaxRetries /\ 0 \in 0..MaxRetries
  BY <1>0, <1>1, GraphTyped, GraphBounds DEF PlaceInv, Inside, CallsInv, Attempted, GraphTypes
<1>3. /\ visits \in Nat /\ visits' \in Nat /\ visits' <= visits + 1 /\ MaxIterations \in Nat
  <2>1. visits' = IF visits <= MaxIterations + 1 THEN visits + 1 ELSE visits
    BY DEF ExecuteStep
  <2>2. visits \in Nat /\ MaxIterations \in Nat
    BY <1>0, GraphTyped
  <2> QED
    BY <2>1, <2>2
<1>4. /\ u1.iterations = state.usage.iterations + 1 /\ u1.attempts = state.usage.attempts
      /\ u1.rounds = state.usage.rounds /\ u1.tokens = state.usage.tokens
      /\ u2.iterations = u1.iterations /\ u2.attempts = u1.attempts /\ u2.tokens = u1.tokens
      /\ kb => u2.rounds = u1.rounds + 1
      /\ ~kb => u2.rounds = u1.rounds
      /\ u1.iterations <= MaxIterations => u1 \in Used
      /\ u1.iterations <= MaxIterations /\ u2.rounds <= MaxRounds => u2 \in Used
  <2>1. /\ state.usage \in Used /\ state.usage.iterations \in 0..MaxIterations
        /\ state.usage.rounds \in 0..MaxRounds /\ MaxIterations \in Nat /\ MaxRounds \in Nat
    BY <1>0, GraphTyped
  <2>2. /\ u1.iterations = state.usage.iterations + 1 /\ u1.attempts = state.usage.attempts
        /\ u1.rounds = state.usage.rounds
        /\ u1.iterations <= MaxIterations => u1 \in Used
    <3>1. /\ u1.iterations = state.usage.iterations + 1 /\ u1.attempts = state.usage.attempts
          /\ u1.rounds = state.usage.rounds
          /\ state.usage.iterations < MaxIterations => u1 \in Used
      BY <2>1, CountedTyped
    <3> HIDE DEF u1
    <3> QED
      BY <2>1, <3>1
  <2>3. u1.tokens = state.usage.tokens
    BY <2>1 DEF ConsumeIteration, Used
  <2>4. /\ u2.iterations = u1.iterations /\ u2.attempts = u1.attempts /\ u2.tokens = u1.tokens
        /\ kb => u2.rounds = u1.rounds + 1
        /\ ~kb => u2.rounds = u1.rounds
    BY <2>1 DEF ConsumeIteration, Used
  <2>5. ASSUME u1.iterations <= MaxIterations, u2.rounds <= MaxRounds PROVE u2 \in Used
    <3>1. u1 \in Used
      BY <2>2, <2>5
    <3>2. kb => u1.rounds < MaxRounds
      BY <2>1, <2>2, <2>4, <2>5
    <3> QED
      BY <3>1, <3>2, CountedTyped
  <2> QED
    BY <2>2, <2>3, <2>4, <2>5
<1>5. \/ visits <= state.usage.iterations
      \/ /\ state.status = "completed" /\ state.usage.iterations = MaxIterations
         /\ Decision(state) = "sufficient"
  BY <1>0, <1>1 DEF VisitsInv, Iterated
<1>6. state.status = "completed" =>
         /\ state.usage.tokens = 0
         /\ \/ state.usage.iterations = MaxIterations
            \/ kb /\ state.usage.rounds = MaxRounds
            \/ state.usage.attempts = MaxAttempts
  BY <1>0, <1>1, <1>2 DEF CompletedInv, StoppedInv, CanFinalize
<1>7. /\ state.usage \in Used /\ state.usage.iterations \in 0..MaxIterations
      /\ state.usage.rounds \in 0..MaxRounds /\ i \in Nat /\ i >= 1
      /\ MaxRounds \in Nat /\ Shaped(state)
  BY <1>0, GraphTyped
<1> HIDE DEF u1, u2
<1>8. CASE u1.iterations > MaxIterations
  <2>1. BudgetStop(state.usage) /\ UNCHANGED <<ledger, tries, memory>>
    BY <1>1, <1>8 DEF ExecuteStep, u1
  <2>2. state.usage.iterations = MaxIterations
    BY <1>4, <1>7, <1>8, <1>3
  <2>3. visits' <= MaxIterations + 1 \/ (Decision(state) = "sufficient" /\ CanFinalize(state.usage))
    BY <1>3, <1>5, <1>6, <2>2 DEF CanFinalize
  <2> QED
    BY <1>1, <1>2, <1>3, <1>7, <2>1, <2>2, <2>3, BudgetStops
<1>9. CASE u1.iterations <= MaxIterations
  <2>1. u1 \in Used /\ visits <= state.usage.iterations /\ visits' <= u1.iterations
    BY <1>3, <1>4, <1>5, <1>7, <1>9
  <2>2. visits' <= MaxIterations /\ visits' <= MaxIterations + 1 /\ ~(visits' > MaxIterations + 1)
    BY <1>3, <1>4, <1>7, <1>9, <2>1
  <2>3. CASE u2.rounds > MaxRounds
    <3>1. BudgetStop(u1) /\ UNCHANGED <<ledger, tries, memory>>
      BY <1>1, <1>3, <1>4, <1>7, <1>9, <2>3 DEF ExecuteStep, u1, u2
    <3>2. kb /\ u1.rounds = MaxRounds
      BY <1>4, <1>7, <2>3
    <3> QED
      BY <1>1, <1>2, <1>3, <1>4, <1>7, <2>1, <2>2, <3>1, <3>2, BudgetStops
  <2>4. CASE u2.rounds <= MaxRounds
    <3>1. /\ u2 \in Used /\ visits' <= u2.iterations
          /\ state.status = "completed" => u2.attempts = MaxAttempts /\ u2.tokens = 0
      BY <1>3, <1>4, <1>6, <1>7, <1>9, <2>1, <2>4
    <3>2. toolCalls' <= u2.attempts /\ CallsAreBudgeted'
      BY <1>0, <1>1, <1>2, <1>4 DEF CallsInv, CallsAreBudgeted, RiskyLimit
    <3>3. \/ /\ Leave([state EXCEPT !.usage = u2, !.status = "failed"])
             /\ UNCHANGED <<ledger, tries, memory>>
          \/ Recall(id, u2) /\ UNCHANGED <<ledger, tries>>
          \/ /\ \E items \in Findings(state.plan, i) : Borrow(id, items, u2)
             /\ UNCHANGED <<ledger, tries>>
          \/ /\ Leave([state EXCEPT !.usage = u2, !.pending = id,
                                    !.status = "approval_required"])
             /\ UNCHANGED <<ledger, tries, memory>>
          \/ /\ node' = "call" /\ ledger' = u2 /\ tries' = 0
             /\ UNCHANGED <<state, memory>>
      <4>1. ~(u1.iterations > MaxIterations) /\ ~(u2.rounds > MaxRounds)
        BY <1>3, <1>4, <1>7, <1>9, <2>4
      <4> QED
        BY <1>1, <4>1 DEF ExecuteStep, u1, u2
    <3>4. CASE /\ Leave([state EXCEPT !.usage = u2, !.status = "failed"])
               /\ UNCHANGED <<ledger, tries, memory>>
      <4>1. state'.status = "failed"
        BY <1>7, <3>4 DEF Leave, Shaped, GraphState
      <4>2. Save(u2, "failed", "finalize")
        BY <3>4, <4>1 DEF Leave, AfterExecute, Save
      <4> QED
        BY <1>1, <1>2, <1>3, <2>2, <3>1, <3>4, <4>2, GraphEnds DEF Status
    <3>5. CASE Recall(id, u2) /\ UNCHANGED <<ledger, tries>>
      <4>1. state' \in Applied(state, {}, u2)
        BY <3>5 DEF Recall, Leave, Applied
      <4>2. /\ Shaped(state') /\ state'.usage = u2 /\ state'.status = state.status
            /\ state'.plan = state.plan /\ state'.route = state.route
            /\ state'.pending = state.pending /\ Decision(state') = Decision(state)
        <5> DEFINE none == {}
        <5>1. /\ state.step <= Len(state.plan) /\ none \in SUBSET Items /\ none = {}
              /\ \A e \in none : e.step \in DOMAIN state.plan
              /\ state' \in Applied(state, none, u2)
          BY <1>1, <4>1
        <5> HIDE DEF none
        <5> QED
          BY <1>7, <3>1, <5>1, AppliedState
      <4>3. node' \in {"execute", "evaluate"}
        BY <1>2, <3>5, <4>1, <4>2 DEF Recall, Leave, AfterExecute
      <4>4. GraphTypes'
        BY <1>0, <1>1, <1>3, <3>5, <4>2, <4>3 DEF GraphTypes
      <4>5. PlaceInv'
        BY <1>1, <1>2, <4>2, <4>3 DEF PlaceInv, Live, Inside, Approved
      <4>6. CompletedInv' /\ StoppedInv'
        BY <1>2, <1>6, <3>1, <4>2, <4>3 DEF CompletedInv, StoppedInv, CanFinalize
      <4>7. VisitsInv'
        BY <2>2, <3>1, <4>2, <4>3 DEF VisitsInv, StepsAreBudgeted, Iterated, Inside
      <4>8. CallsInv'
        BY <3>2, <4>2, <4>3 DEF CallsInv, Attempted, Inside
      <4> QED
        BY <4>4, <4>5, <4>6, <4>7, <4>8 DEF GraphInv
    <3>6. CASE /\ Leave([state EXCEPT !.usage = u2, !.pending = id,
                                      !.status = "approval_required"])
               /\ UNCHANGED <<ledger, tries, memory>>
      <4>1. id \in Nat \X Nat /\ id # Nowhere
        BY <1>7 DEF Nowhere
      <4> HIDE DEF id
      <4>2. /\ state' \in GraphState /\ state'.usage = u2 /\ state'.status = "approval_required"
            /\ state'.plan = state.plan /\ state'.route = state.route /\ state'.step = state.step
            /\ state'.pending = id /\ state'.evidence = state.evidence
        BY <1>7, <3>1, <3>6, <4>1 DEF Leave, Shaped, GraphState, Status
      <4>3. node' = "approval"
        BY <3>6, <4>2 DEF Leave, AfterExecute
      <4>4. GraphTypes'
        BY <1>0, <1>1, <1>3, <3>6, <4>2, <4>3 DEF GraphTypes, Shaped
      <4>5. PlaceInv'
        BY <1>1, <1>2, <4>1, <4>2, <4>3 DEF PlaceInv, Live, Inside, Approved
      <4>6. CompletedInv' /\ StoppedInv'
        BY <4>2 DEF CompletedInv, StoppedInv
      <4>7. VisitsInv'
        BY <2>2, <3>1, <4>2, <4>3 DEF VisitsInv, StepsAreBudgeted, Iterated, Inside
      <4>8. CallsInv'
        BY <3>2, <4>2, <4>3 DEF CallsInv, Attempted, Inside
      <4> QED
        BY <4>4, <4>5, <4>6, <4>7, <4>8 DEF GraphInv
    <3>7. CASE /\ node' = "call" /\ ledger' = u2 /\ tries' = 0
               /\ UNCHANGED <<state, memory>>
      <4>1. state' = state
        BY <3>7
      <4>2. GraphTypes'
        BY <1>0, <1>1, <1>2, <1>3, <3>1, <3>7, <4>1 DEF GraphTypes
      <4>3. PlaceInv'
        BY <1>1, <1>2, <3>7, <4>1 DEF PlaceInv, Live, Inside, Approved
      <4>4. CompletedInv' /\ StoppedInv'
        BY <1>0, <3>1, <3>7, <4>1 DEF CompletedInv, StoppedInv
      <4>5. VisitsInv'
        BY <1>2, <2>2, <3>1, <3>7, <4>1 DEF VisitsInv, StepsAreBudgeted, Iterated, Inside, Approved
      <4>6. CallsInv'
        BY <1>2, <3>2, <3>7, <4>1 DEF CallsInv, Attempted, Inside, Approved
      <4> QED
        BY <4>2, <4>3, <4>4, <4>5, <4>6 DEF GraphInv
    <3>8. CASE /\ \E items \in Findings(state.plan, i) : Borrow(id, items, u2)
               /\ UNCHANGED <<ledger, tries>>
      <4>1. PICK items \in Findings(state.plan, i) : Borrow(id, items, u2)
        BY <3>8
      <4>2. state' \in Applied(state, items, u2)
        BY <4>1 DEF Borrow, Leave, Applied
      <4>3. items \in SUBSET Items /\ \A e \in items : e.step \in DOMAIN state.plan
        <5>1. items \in SUBSET Items /\ \A e \in items : e.step = i
          BY <1>7, FindingsTyped
        <5>2. Len(state.plan) \in Nat /\ DOMAIN state.plan = 1..Len(state.plan)
          BY <1>0, GraphTyped, PlanFacts
        <5> QED
          BY <1>1, <1>7, <5>1, <5>2
      <4>4. /\ Shaped(state') /\ state'.usage = u2 /\ state'.status = state.status
            /\ state'.plan = state.plan /\ state'.route = state.route
            /\ state'.pending = state.pending
        BY <1>1, <1>7, <3>1, <4>2, <4>3, AppliedState
      <4>5. node' \in {"execute", "evaluate"}
        BY <1>2, <4>1, <4>4 DEF Borrow, Leave, AfterExecute
      <4>6. GraphTypes'
        BY <1>0, <1>1, <1>3, <3>8, <4>4, <4>5 DEF GraphTypes
      <4>7. PlaceInv'
        BY <1>1, <1>2, <4>4, <4>5 DEF PlaceInv, Live, Inside, Approved
      <4>8. CompletedInv' /\ StoppedInv'
        BY <1>2, <3>1, <4>4, <4>5 DEF CompletedInv, StoppedInv, CanFinalize
      <4>9. VisitsInv'
        BY <2>2, <3>1, <4>4, <4>5 DEF VisitsInv, StepsAreBudgeted, Iterated, Inside
      <4>10. CallsInv'
        BY <3>2, <4>4, <4>5 DEF CallsInv, Attempted, Inside
      <4> QED
        BY <4>6, <4>7, <4>8, <4>9, <4>10 DEF GraphInv
    <3> QED
      BY <3>3, <3>4, <3>5, <3>6, <3>7, <3>8
  <2> QED
    BY <1>4, <1>7, <2>3, <2>4
<1> QED
  BY <1>3, <1>4, <1>7, <1>8, <1>9

-----------------------------------------------------------------------------
(* A call of a tool.                                                         *)

\* What holds inside of a node that calls a tool.
LEMMA InsideFacts ==
    ASSUME GraphInv, run = "running", Inside
    PROVE  /\ Live /\ ledger \in Used /\ tries \in 0..MaxRetries /\ MaxRetries \in Nat
           /\ state.route = "agent" /\ state.plan # <<>> /\ state.step <= Len(state.plan)
           /\ Approved <=> state.status = "approval_required"
           /\ ~Approved => state.status \in {"none", "completed"}
           /\ visits <= ledger.iterations /\ visits <= MaxIterations + 1
           /\ ~(visits > MaxIterations + 1)
           /\ Approved => visits <= state.usage.iterations
           /\ toolCalls <= ledger.attempts
           /\ Approved => state.pending \in rows.claimed \ rows.succeeded
           /\ toolCalls <= MaxAttempts /\ risky <= RiskyLimit
           /\ Approved => risky + (MaxRetries + 1)
                             <= RiskyLimit + tries + (IF node = "tool" THEN 1 ELSE 0)
<1>0. GraphTypes /\ PlaceInv /\ VisitsInv /\ CallsInv /\ Live
  BY DEF GraphInv, Live
<1>1. /\ ledger \in Used /\ tries \in 0..MaxRetries /\ MaxRetries \in Nat
  BY <1>0, GraphBounds DEF GraphTypes
<1>2. state.route = "agent"
  BY <1>0, GraphTyped DEF PlaceInv, Inside
<1>3. /\ state.plan # <<>> /\ state.step <= Len(state.plan)
      /\ Approved <=> state.status = "approval_required"
      /\ ~Approved => state.status \in {"none", "completed"}
  BY <1>0 DEF PlaceInv, Inside
<1>4. visits <= MaxIterations + 1 /\ ~(visits > MaxIterations + 1)
  <2>1. visits <= MaxIterations + 1
    BY <1>0, VisitsBounded DEF Inside
  <2> QED
    BY <1>0, <2>1, GraphTyped
<1>5. /\ visits <= ledger.iterations
      /\ Approved => visits <= state.usage.iterations
  BY <1>0 DEF VisitsInv, Iterated
<1>6. /\ toolCalls <= ledger.attempts
      /\ Approved => state.pending \in rows.claimed \ rows.succeeded
      /\ Approved => risky + (MaxRetries + 1)
                        <= RiskyLimit + tries + (IF node = "tool" THEN 1 ELSE 0)
  BY <1>0 DEF CallsInv, Attempted
<1>7. toolCalls <= MaxAttempts /\ risky <= RiskyLimit
  BY <1>0, CallsMean DEF CallsInv
<1> QED
  BY <1>0, <1>1, <1>2, <1>3, <1>4, <1>5, <1>6, <1>7

\* A call that is refused another attempt stops the budget or fails the run.
LEMMA NoAttemptLeftStep == ASSUME GraphInv, NoAttemptLeft PROVE GraphInv'
<1>0. GraphTypes
  BY DEF GraphInv
<1>1. /\ node = "call" /\ run = "running" /\ Inside /\ ~AttemptLeft(ledger)
      /\ run' = "running" /\ ledger' = ledger /\ tries' = tries /\ rows' = rows
      /\ visits' = visits /\ toolCalls' = toolCalls /\ risky' = risky
  BY DEF NoAttemptLeft, Runs, Inside, history
<1>2. /\ Live /\ ledger \in Used /\ tries \in 0..MaxRetries /\ state.route = "agent"
      /\ state.plan # <<>> /\ state.step <= Len(state.plan)
      /\ visits <= ledger.iterations /\ visits <= MaxIterations + 1
      /\ toolCalls <= ledger.attempts
  BY <1>1, InsideFacts
<1>3. visits' \in Nat
  BY <1>0, <1>1, GraphTyped
<1>4. ledger.attempts = MaxAttempts
  <2>1. Attempt(ledger).attempts = ledger.attempts + 1
    BY <1>2, CountedTyped
  <2>2. ledger.attempts \in 0..MaxAttempts /\ MaxAttempts \in Nat
    BY <1>0, GraphTyped
  <2> QED
    BY <1>1, <2>1, <2>2 DEF AttemptLeft
<1>5. CASE Approved
  <2>1. Save(ledger, "failed", "finalize")
    BY <1>5 DEF NoAttemptLeft
  <2> QED
    BY <1>1, <1>2, <1>3, <2>1, GraphEnds DEF Status
<1>6. CASE ~Approved
  <2>1. BudgetStop(ledger)
    BY <1>6 DEF NoAttemptLeft
  <2> QED
    BY <1>1, <1>2, <1>3, <1>4, <1>6, <2>1, BudgetStops
<1> QED
  BY <1>5, <1>6

\* An attempt is counted before the tool is called.
LEMMA CallToolStep == ASSUME GraphInv, CallTool PROVE GraphInv'
<1>0. GraphTypes /\ PlaceInv /\ CompletedInv /\ StoppedInv /\ CallsInv
  BY DEF GraphInv
<1>1. /\ node = "call" /\ run = "running" /\ Inside /\ AttemptLeft(ledger)
      /\ ledger' = Attempt(ledger) /\ node' = "tool" /\ toolCalls' = toolCalls + 1
      /\ state' = state /\ run' = "running" /\ tries' = tries /\ rows' = rows /\ visits' = visits
      /\ risky' = IF Approved THEN risky + 1 ELSE risky
  BY DEF CallTool, Runs, Inside
<1>2. /\ Live /\ ledger \in Used /\ tries \in 0..MaxRetries /\ state.route = "agent"
      /\ visits <= ledger.iterations /\ ~(visits > MaxIterations + 1)
      /\ Approved => visits <= state.usage.iterations
      /\ toolCalls <= ledger.attempts
      /\ Approved => state.pending \in rows.claimed \ rows.succeeded
      /\ risky <= RiskyLimit /\ MaxRetries \in Nat
      /\ Approved => risky + (MaxRetries + 1) <= RiskyLimit + tries + 0
  BY <1>1, InsideFacts
<1>3. /\ visits \in Nat /\ toolCalls \in Nat /\ risky \in Nat /\ RiskyLimit \in Nat /\ MaxAttempts \in Nat
      /\ ledger.attempts \in 0..MaxAttempts
  BY <1>0, GraphTyped
<1>4. /\ ledger'.attempts = ledger.attempts + 1 /\ ledger'.iterations = ledger.iterations
      /\ ledger.attempts < MaxAttempts /\ ledger' \in Used
  <2>1. /\ Attempt(ledger).attempts = ledger.attempts + 1
        /\ Attempt(ledger).iterations = ledger.iterations
        /\ ledger.attempts < MaxAttempts => Attempt(ledger) \in Used
    BY <1>2, CountedTyped
  <2>2. ledger.attempts < MaxAttempts
    BY <1>1, <1>3, <2>1 DEF AttemptLeft
  <2> QED
    BY <1>1, <2>1, <2>2
<1>5. state.status # "completed"
  <2>1. state.status = "completed" => ledger.attempts = MaxAttempts
    BY <1>0, <1>1, <1>2 DEF StoppedInv
  <2> QED
    BY <1>3, <1>4, <2>1
<1>6. GraphTypes'
  BY <1>0, <1>1, <1>3, <1>4 DEF GraphTypes
<1>7. PlaceInv'
  BY <1>0, <1>1, <1>2 DEF PlaceInv, Live, Inside, Approved
<1>8. CompletedInv' /\ StoppedInv'
  BY <1>1, <1>5 DEF CompletedInv, StoppedInv
<1>9. VisitsInv'
  BY <1>1, <1>2, <1>4 DEF VisitsInv, StepsAreBudgeted, Iterated, Inside, Approved
<1>10. CallsInv'
  <2>1. RiskyLimit' = RiskyLimit /\ toolCalls' <= ledger'.attempts
    BY <1>1, <1>2, <1>3, <1>4 DEF RiskyLimit
  <2>2. Approved => risky' + (MaxRetries + 1) <= RiskyLimit' + tries' + 1
    BY <1>1, <1>2, <1>3, <2>1
  <2>3. toolCalls' <= MaxAttempts /\ risky' <= RiskyLimit'
    BY <1>1, <1>2, <1>3, <1>4, <2>1, <2>2
  <2>4. CallsAreBudgeted'
    BY <2>3 DEF CallsAreBudgeted, RiskyLimit
  <2> QED
    BY <1>1, <1>2, <2>1, <2>2, <2>4 DEF CallsInv, Attempted, Inside, Approved
<1> QED
  BY <1>6, <1>7, <1>8, <1>9, <1>10 DEF GraphInv

\* What a call returns is applied to the state within its plan.
LEMMA OutcomeApplied ==
    ASSUME GraphTypes, state.step <= Len(state.plan), NEW u \in Used,
           NEW items \in Findings(state.plan, state.step), NEW s \in Applied(state, items, u)
    PROVE  /\ Shaped(s) /\ s.usage = u /\ s.status = state.status
           /\ s.plan = state.plan /\ s.route = state.route /\ s.pending = state.pending
<1>1. /\ Shaped(state) /\ state.step \in Nat /\ state.step >= 1
      /\ Len(state.plan) \in Nat /\ DOMAIN state.plan = 1..Len(state.plan)
  BY GraphTyped, PlanFacts
<1>2. items \in SUBSET Items /\ \A e \in items : e.step = state.step
  BY <1>1, FindingsTyped
<1>3. \A e \in items : e.step \in DOMAIN state.plan
  BY <1>1, <1>2
<1> QED
  BY <1>1, <1>2, <1>3, AppliedState

\* The graph goes on after an approved call whose outcome was stored.
LEMMA ContinuesFrom ==
    ASSUME GraphInv, run = "running", Inside, Approved,
           NEW items \in Findings(state.plan, state.step),
           NEW s \in Applied(state, items, ledger), state' = Continue(s),
           node' = "execute", run' = "running", rows' = Answered(rows),
           ledger' = ledger, tries' = tries,
           visits' = visits, toolCalls' = toolCalls, risky' = risky
    PROVE  GraphInv'
<1>0. GraphTypes
  BY DEF GraphInv
<1>1. /\ Live /\ ledger \in Used /\ tries \in 0..MaxRetries /\ MaxRetries \in Nat
      /\ state.route = "agent" /\ state.plan # <<>> /\ state.step <= Len(state.plan)
      /\ visits <= ledger.iterations /\ ~(visits > MaxIterations + 1)
      /\ toolCalls <= ledger.attempts /\ toolCalls <= MaxAttempts /\ risky <= RiskyLimit
      /\ state.pending \in rows.claimed \ rows.succeeded
  BY InsideFacts
<1>2. /\ Shaped(s) /\ s.usage = ledger /\ s.status = state.status
      /\ s.plan = state.plan /\ s.route = state.route
  BY <1>0, <1>1, OutcomeApplied
<1>3. /\ state' \in GraphState /\ state'.usage = ledger /\ state'.status = "none"
      /\ state'.plan = state.plan /\ state'.route = state.route /\ state'.pending = Nowhere
      /\ state'.step = s.step /\ state'.evidence = s.evidence
  BY <1>2 DEF Continue, Shaped, GraphState, Status, Nowhere
<1>4. Shaped(state')
  BY <1>2, <1>3 DEF Shaped
<1>5. /\ rows' \in ApprovalRows /\ rows'.claimed = rows.claimed
      /\ rows'.succeeded \subseteq rows'.claimed /\ RiskyLimit' = RiskyLimit
  BY <1>0, <1>1, AnsweredTyped
<1>6. GraphTypes'
  BY <1>0, <1>4, <1>5 DEF GraphTypes
<1>7. PlaceInv'
  BY <1>1, <1>3 DEF PlaceInv, Live, Inside, Approved
<1>8. CompletedInv' /\ StoppedInv'
  BY <1>3 DEF CompletedInv, StoppedInv
<1>9. VisitsInv'
  BY <1>1, <1>3 DEF VisitsInv, StepsAreBudgeted, Iterated, Inside
<1>10. CallsInv'
  <2>1. toolCalls' <= state'.usage.attempts
    BY <1>1, <1>3
  <2>2. CallsAreBudgeted'
    BY <1>1, <1>5, CallsMean DEF CallsAreBudgeted, RiskyLimit
  <2> QED
    BY <2>1, <2>2 DEF CallsInv, Attempted, Inside
<1> QED
  BY <1>6, <1>7, <1>8, <1>9, <1>10 DEF GraphInv

\* The tool answers: a call that is inside of a node cannot belong to a run that its
\* exhausted budget has completed, so the evidence grows under no completed run.
LEMMA ToolAnswersStep == ASSUME GraphInv, ToolAnswers PROVE GraphInv'
<1>0. GraphTypes /\ PlaceInv /\ StoppedInv /\ CallsInv
  BY DEF GraphInv
<1>1. /\ node = "tool" /\ run = "running" /\ Inside
      /\ run' = "running" /\ ledger' = ledger /\ tries' = tries
      /\ visits' = visits /\ toolCalls' = toolCalls /\ risky' = risky
      /\ rows' = IF Approved THEN Answered(rows) ELSE rows
  BY DEF ToolAnswers, Runs, Inside, history
<1>2. /\ Live /\ ledger \in Used /\ tries \in 0..MaxRetries /\ MaxRetries \in Nat
      /\ state.route = "agent" /\ state.plan # <<>> /\ state.step <= Len(state.plan)
      /\ ~Approved => state.status \in {"none", "completed"}
      /\ visits <= ledger.iterations /\ ~(visits > MaxIterations + 1)
      /\ toolCalls <= ledger.attempts /\ toolCalls <= MaxAttempts /\ risky <= RiskyLimit
      /\ Approved => state.pending \in rows.claimed \ rows.succeeded
  BY <1>1, InsideFacts
<1>3. /\ visits \in Nat /\ toolCalls \in Nat /\ RiskyLimit \in Nat /\ MaxAttempts \in Nat
      /\ ledger.attempts \in 0..MaxAttempts /\ state.step \in Nat /\ state.step >= 1
      /\ Shaped(state) /\ state.pending \in Nat \X Nat /\ Len(state.plan) \in Nat
  BY <1>0, GraphTyped
<1>4. state.status # "completed"
  BY <1>0, <1>1, <1>2 DEF StoppedInv
<1>5. PICK items \in Findings(state.plan, state.step) :
         LET s == Apply(state, items, FALSE, ledger)
         IN  IF Approved THEN state' = Continue(s) /\ node' = "execute" ELSE Leave(s)
  BY DEF ToolAnswers
<1> DEFINE s == Apply(state, items, FALSE, ledger)
<1>6. /\ Shaped(s) /\ s.usage = ledger /\ s.status = state.status
      /\ s.plan = state.plan /\ s.route = state.route /\ s.pending = state.pending
      /\ s \in Applied(state, items, ledger)
  <2>1. s \in Applied(state, items, ledger)
    BY DEF Applied
  <2> HIDE DEF s
  <2> QED
    BY <1>0, <1>2, <2>1, OutcomeApplied
<1>7. IF Approved THEN state' = Continue(s) /\ node' = "execute" ELSE Leave(s)
  BY <1>5
<1> HIDE DEF s
<1>8. CASE ~Approved
  <2>1. state' = s /\ state.status = "none" /\ rows' = rows
    BY <1>1, <1>2, <1>4, <1>7, <1>8 DEF Leave
  <2>2. node' \in {"execute", "evaluate"}
    BY <1>6, <1>7, <1>8, <2>1 DEF Leave, AfterExecute
  <2>3. GraphTypes'
    BY <1>0, <1>1, <1>6, <2>1, <2>2 DEF GraphTypes
  <2>4. PlaceInv'
    BY <1>1, <1>2, <1>6, <1>8, <2>1, <2>2 DEF PlaceInv, Live, Inside, Approved
  <2>5. CompletedInv' /\ StoppedInv'
    BY <1>6, <2>1 DEF CompletedInv, StoppedInv
  <2>6. VisitsInv'
    BY <1>1, <1>2, <1>6, <2>1, <2>2 DEF VisitsInv, StepsAreBudgeted, Iterated, Inside
  <2>7. CallsInv'
    BY <1>0, <1>1, <1>2, <1>6, <2>1, <2>2
       DEF CallsInv, CallsAreBudgeted, Attempted, Inside, RiskyLimit
  <2> QED
    BY <2>3, <2>4, <2>5, <2>6, <2>7 DEF GraphInv
<1>9. CASE Approved
  BY <1>1, <1>6, <1>7, <1>9, ContinuesFrom
<1> QED
  BY <1>8, <1>9

\* The approved call is answered by the result of another run's call.
LEMMA BorrowApprovedStep == ASSUME GraphInv, BorrowApproved PROVE GraphInv'
<1>0. GraphTypes
  BY DEF GraphInv
<1>1. /\ node = "call" /\ run = "running" /\ Inside /\ Approved
      /\ run' = "running" /\ ledger' = ledger /\ tries' = tries /\ node' = "execute"
      /\ visits' = visits /\ toolCalls' = toolCalls /\ risky' = risky
      /\ rows' = Answered(rows)
  BY DEF BorrowApproved, Runs, Inside, history
<1>2. PICK items \in Findings(state.plan, state.step) :
         state' = Continue(Apply(state, items, TRUE, ledger))
  BY DEF BorrowApproved
<1>3. Apply(state, items, TRUE, ledger) \in Applied(state, items, ledger)
  BY DEF Applied
<1> QED
  BY <1>0, <1>1, <1>2, <1>3, ContinuesFrom

\* A time out leaves the call with one attempt less.
LEMMA ToolTimesOutStep == ASSUME GraphInv, ToolTimesOut PROVE GraphInv'
<1>0. GraphTypes /\ PlaceInv /\ CompletedInv /\ StoppedInv /\ CallsInv
  BY DEF GraphInv
<1>1. /\ node = "tool" /\ run = "running" /\ Inside /\ tries < MaxRetries
      /\ tries' = tries + 1 /\ node' = "call"
      /\ state' = state /\ run' = "running" /\ ledger' = ledger /\ rows' = rows
      /\ visits' = visits /\ toolCalls' = toolCalls /\ risky' = risky
  BY DEF ToolTimesOut, Runs, Inside, history
<1>2. /\ Live /\ tries \in 0..MaxRetries /\ MaxRetries \in Nat /\ state.route = "agent"
      /\ visits <= ledger.iterations /\ ~(visits > MaxIterations + 1)
      /\ Approved => visits <= state.usage.iterations
      /\ toolCalls <= ledger.attempts
      /\ Approved => state.pending \in rows.claimed \ rows.succeeded
      /\ Approved => risky + (MaxRetries + 1) <= RiskyLimit + tries + 1
  BY <1>1, InsideFacts
<1>3. GraphTypes'
  BY <1>0, <1>1, <1>2 DEF GraphTypes
<1>4. PlaceInv'
  BY <1>0, <1>1, <1>2 DEF PlaceInv, Live, Inside, Approved
<1>5. CompletedInv' /\ StoppedInv'
  BY <1>0, <1>1, <1>2 DEF CompletedInv, StoppedInv
<1>6. VisitsInv'
  BY <1>1, <1>2 DEF VisitsInv, StepsAreBudgeted, Iterated, Inside, Approved
<1>7. CallsInv'
  <2>1. RiskyLimit' = RiskyLimit /\ CallsAreBudgeted'
    BY <1>0, <1>1 DEF CallsInv, CallsAreBudgeted, RiskyLimit
  <2>2. Approved => risky' + (MaxRetries + 1) <= RiskyLimit' + tries' + 0
    <3>1. RiskyLimit \in Nat /\ risky \in Nat
      BY <1>0, GraphTyped
    <3> QED
      BY <1>1, <1>2, <2>1, <3>1
  <2> QED
    BY <1>1, <1>2, <2>1, <2>2 DEF CallsInv, Attempted, Inside, Approved
<1> QED
  BY <1>3, <1>4, <1>5, <1>6, <1>7 DEF GraphInv

\* The last attempt fails: the graph raises for an approved call, and ends otherwise.
LEMMA ToolFailsStep == ASSUME GraphInv, ToolFails PROVE GraphInv'
<1>0. GraphTypes /\ PlaceInv /\ CompletedInv /\ CallsInv
  BY DEF GraphInv
<1>1. /\ node = "tool" /\ run = "running" /\ Inside
      /\ ledger' = ledger /\ tries' = tries /\ visits' = visits /\ toolCalls' = toolCalls /\ risky' = risky
  BY DEF ToolFails, Runs, Inside, history
<1>2. /\ Live /\ ledger \in Used /\ tries \in 0..MaxRetries /\ MaxRetries \in Nat
      /\ state.route = "agent" /\ visits <= MaxIterations + 1 /\ ~(visits > MaxIterations + 1)
      /\ toolCalls <= MaxAttempts /\ risky <= RiskyLimit
      /\ Approved => state.pending \in rows.claimed \ rows.succeeded
  BY <1>1, InsideFacts
<1>3. visits \in Nat /\ Shaped(state)
  BY <1>0, GraphTyped
<1>4. CASE Approved
  <2>1. run' = "raised" /\ node' = "approval" /\ state' = state /\ rows' = Answered(rows)
    BY <1>4 DEF ToolFails
  <2>2. /\ rows' \in ApprovalRows /\ rows'.claimed = rows.claimed
        /\ rows'.succeeded \subseteq rows'.claimed /\ RiskyLimit' = RiskyLimit
    BY <1>0, <1>2, <1>4, <2>1, AnsweredTyped
  <2>3. GraphTypes'
    BY <1>0, <1>1, <2>1, <2>2 DEF GraphTypes
  <2>4. PlaceInv'
    BY <1>2, <2>1 DEF PlaceInv, Live
  <2>5. CompletedInv' /\ StoppedInv'
    BY <1>0, <2>1 DEF CompletedInv, StoppedInv, Live
  <2>6. VisitsInv'
    BY <1>1, <1>2, <2>1 DEF VisitsInv, StepsAreBudgeted, Live
  <2>7. CallsInv'
    <3>1. CallsAreBudgeted'
      BY <1>1, <1>2, <2>2, CallsMean DEF CallsAreBudgeted, RiskyLimit
    <3> QED
      BY <2>1, <3>1 DEF CallsInv, Live
  <2> QED
    BY <2>3, <2>4, <2>5, <2>6, <2>7 DEF GraphInv
<1>5. CASE ~Approved
  <2>1. Leave([state EXCEPT !.usage = ledger, !.status = "failed"]) /\ UNCHANGED <<run, rows>>
    BY <1>5 DEF ToolFails
  <2>2. state'.status = "failed"
    BY <1>3, <2>1 DEF Leave, Shaped, GraphState
  <2>3. Save(ledger, "failed", "finalize")
    BY <2>1, <2>2 DEF Leave, AfterExecute, Save
  <2> QED
    BY <1>1, <1>2, <1>3, <2>1, <2>3, GraphEnds DEF Status
<1> QED
  BY <1>4, <1>5

\* An error of the tool ends the graph.
LEMMA ToolRaisesStep == ASSUME GraphInv, ToolRaises PROVE GraphInv'
<1>0. GraphTypes
  BY DEF GraphInv
<1>1. /\ run = "running" /\ Inside /\ Save(ledger, "failed", "finalize") /\ run' = "running"
      /\ ledger' = ledger /\ tries' = tries /\ rows' = rows
      /\ visits' = visits /\ toolCalls' = toolCalls /\ risky' = risky
  BY DEF ToolRaises, Runs, Inside, history
<1>2. /\ Live /\ ledger \in Used /\ tries \in 0..MaxRetries /\ state.route = "agent"
      /\ visits <= MaxIterations + 1
  BY <1>1, InsideFacts
<1>3. visits' \in Nat
  BY <1>0, <1>1, GraphTyped
<1> QED
  BY <1>1, <1>2, <1>3, GraphEnds DEF Status

-----------------------------------------------------------------------------
(* The runtime of the graph.                                                 *)

\* The time a run has taken is added to its usage, and nothing else.
LEMMA OverdrawnTyped ==
    ASSUME NEW u \in Used, NEW v, \E over \in BOOLEAN : v = [u EXCEPT !.overdrawn = over]
    PROVE  v \in Used /\ v.iterations = u.iterations /\ v.attempts = u.attempts
  BY DEF Used

\* The invocation returns: what it keeps as completed was completed.
LEMMA ReturnStep == ASSUME GraphInv, Return PROVE GraphInv'
<1>0. GraphTypes /\ PlaceInv /\ CompletedInv /\ VisitsInv /\ CallsInv
  BY DEF GraphInv
<1>1. /\ run = "running" /\ Live /\ node \in {"approval", "end"} /\ node' = node /\ ~Inside
      /\ ledger' = ledger /\ tries' = tries /\ rows' = rows
      /\ visits' = visits /\ toolCalls' = toolCalls /\ risky' = risky
  BY DEF Return, Live, Inside, history
<1>2. PICK over \in BOOLEAN :
         /\ state' = [state EXCEPT !.usage.overdrawn = over,
                                   !.status = IF \/ ~over
                                                 \/ /\ state.status = "completed" /\ state.cited
                                                    /\ CanFinalize(state.usage)
                                              THEN @ ELSE "exhausted"]
         /\ run' = IF node = "approval" /\ ~over THEN "waiting" ELSE "returned"
  BY DEF Return
<1>3. state \in GraphState /\ Shaped(state) /\ state.usage \in Used
  BY <1>0, GraphTyped DEF Shaped
<1>4. visits <= MaxIterations + 1 /\ ~(visits > MaxIterations + 1)
  <2>1. visits <= MaxIterations + 1
    BY <1>1, VisitsBounded
  <2> QED
    BY <1>0, <2>1, GraphTyped
<1>5. state'.usage = [state.usage EXCEPT !.overdrawn = over]
  BY <1>2, <1>3 DEF GraphState
<1>6. /\ state'.usage \in Used /\ state'.usage.iterations = state.usage.iterations
      /\ state'.usage.attempts = state.usage.attempts
  BY <1>3, <1>5, OverdrawnTyped
<1>7. /\ state' \in GraphState /\ state'.plan = state.plan /\ state'.step = state.step
      /\ state'.evidence = state.evidence /\ state'.route = state.route
      /\ state'.pending = state.pending /\ state'.cited = state.cited
      /\ state'.status \in {state.status, "exhausted"}
      /\ ~over => state'.status = state.status
  <2>1. "exhausted" \in Status /\ state.status \in Status
    BY <1>3 DEF Status, GraphState
  <2> QED
    BY <1>2, <1>3, <1>5, <1>6, <2>1 DEF GraphState
<1>8. Decision(state') = Decision(state)
  BY <1>7, SameDecision
<1>9. run' \in {"waiting", "returned"} /\ (run' = "waiting" => node = "approval" /\ ~over)
  BY <1>2
<1>10. GraphTypes'
  BY <1>0, <1>1, <1>3, <1>7, <1>9 DEF GraphTypes, Shaped
<1>11. PlaceInv'
  BY <1>0, <1>1, <1>7, <1>9 DEF PlaceInv, Live, Inside, Approved
<1>12. CompletedInv' /\ StoppedInv'
  BY <1>0, <1>1, <1>7, <1>8 DEF CompletedInv, StoppedInv, Covered
<1>13. VisitsInv'
  BY <1>0, <1>1, <1>4, <1>6, <1>9 DEF VisitsInv, StepsAreBudgeted, Iterated, Inside, Live
<1>14. CallsInv'
  BY <1>0, <1>1, <1>6, <1>7, <1>9
     DEF CallsInv, CallsAreBudgeted, Attempted, Inside, Live, RiskyLimit
<1> QED
  BY <1>10, <1>11, <1>12, <1>13, <1>14 DEF GraphInv

\* The run is out of time: it keeps its evidence and is not completed.
LEMMA RunTimesOutStep == ASSUME GraphInv, RunTimesOut PROVE GraphInv'
<1>0. GraphTypes /\ PlaceInv /\ CallsInv
  BY DEF GraphInv
<1>1. /\ run = "running" /\ run' = "returned" /\ node' = node
      /\ ledger' = ledger /\ tries' = tries /\ rows' = rows
      /\ visits' = visits /\ toolCalls' = toolCalls /\ risky' = risky
      /\ state' = [state EXCEPT !.usage.overdrawn = TRUE, !.status = "exhausted"]
  BY DEF RunTimesOut, history
<1>2. state \in GraphState /\ Shaped(state) /\ state.usage \in Used
  BY <1>0, GraphTyped DEF Shaped
<1>3. state'.usage = [state.usage EXCEPT !.overdrawn = TRUE]
  BY <1>1, <1>2 DEF GraphState
<1>4. state'.usage \in Used /\ state'.usage.overdrawn = TRUE
  BY <1>2, <1>3 DEF Used
<1>5. /\ state' \in GraphState /\ state'.plan = state.plan /\ state'.step = state.step
      /\ state'.evidence = state.evidence /\ state'.route = state.route
      /\ state'.status = "exhausted"
  BY <1>1, <1>2, <1>3, <1>4 DEF GraphState, Status
<1>6. GraphTypes'
  BY <1>0, <1>1, <1>2, <1>5 DEF GraphTypes, Shaped
<1>7. PlaceInv' /\ CompletedInv' /\ StoppedInv'
  BY <1>0, <1>1, <1>5 DEF PlaceInv, CompletedInv, StoppedInv, Live
<1>8. VisitsInv' /\ CallsInv'
  BY <1>0, <1>1, <1>4
     DEF VisitsInv, StepsAreBudgeted, CallsInv, CallsAreBudgeted, Live
<1> QED
  BY <1>6, <1>7, <1>8 DEF GraphInv

\* The process dies: the run goes on from a checkpoint that was written, with what
\* that says it has used, or not at all.  The result of an approved call may have
\* been stored before.
LEMMA CrashStep == ASSUME RunInv, Crash PROVE GraphInv'
<1>0. GraphTypes /\ PlaceInv /\ CompletedInv /\ VisitsInv /\ CallsInv
  BY DEF RunInv, GraphInv
<1>1. /\ run = "running" /\ Live /\ ledger' = NoUsage /\ tries' = 0
      /\ rows' = rows \/ (Approved /\ Inside /\ rows' = Answered(rows))
  BY DEF Crash, Live, Inside
<1>2. /\ rows' \in ApprovalRows /\ rows'.claimed = rows.claimed
      /\ rows'.succeeded \subseteq rows'.claimed /\ RiskyLimit' = RiskyLimit
  <2>1. CASE rows' = rows
    BY <1>0, <2>1 DEF GraphTypes, RiskyLimit
  <2>2. CASE Approved /\ Inside /\ rows' = Answered(rows)
    <3>1. state.pending \in rows.claimed
      BY <1>1, <2>2, InsideFacts DEF RunInv
    <3> QED
      BY <1>0, <2>2, <3>1, AnsweredTyped
  <2> QED
    BY <1>1, <2>1, <2>2
<1>3. ledger' \in Used /\ tries' \in 0..MaxRetries
  <2>1. /\ MaxIterations \in Nat /\ MaxModelCalls \in Nat
        /\ MaxRounds \in Nat /\ MaxAttempts \in Nat /\ MaxRetries \in Nat
    BY GraphBounds
  <2> QED
    BY <1>1, <2>1 DEF NoUsage, Used
<1>4. toolCalls <= MaxAttempts /\ risky <= RiskyLimit
  BY <1>0, CallsMean DEF CallsInv
<1>5. CASE run' = "lost" /\ UNCHANGED <<state, node, history>>
  <2>1. /\ run' = "lost" /\ ~Live' /\ state' = state /\ node' = node
        /\ visits' = visits /\ toolCalls' = toolCalls /\ risky' = risky
    BY <1>5 DEF history, Live
  <2>2. GraphTypes'
    BY <1>0, <1>2, <1>3, <2>1 DEF GraphTypes
  <2>3. PlaceInv' /\ CompletedInv' /\ StoppedInv'
    BY <1>0, <2>1 DEF PlaceInv, CompletedInv, StoppedInv
  <2>4. VisitsInv'
    BY <1>0, <2>1 DEF VisitsInv, StepsAreBudgeted
  <2>5. CallsInv'
    BY <1>2, <1>4, <2>1, CallsMean DEF CallsInv, CallsAreBudgeted, RiskyLimit
  <2> QED
    BY <2>2, <2>3, <2>4, <2>5 DEF GraphInv
<1>6. ASSUME NEW c \in behind.kept, run' = "waiting", state' = c.state, node' = c.node,
             visits' = c.state.usage.iterations, toolCalls' = c.state.usage.attempts,
             risky' = risky
      PROVE  GraphInv'
  <2>1. Resumable(c)
    BY DEF RunInv, KeptInv
  <2>2. /\ Shaped(state') /\ Live' /\ ~Inside'
        /\ state'.route = "direct" => node' = "end"
        /\ \/ /\ node' = "approval" /\ state'.pending # Nowhere
              /\ state'.status = "approval_required"
              /\ state'.plan # <<>> /\ state'.step <= Len(state'.plan)
           \/ /\ node' = "execute" /\ state'.pending = Nowhere
              /\ state'.status = "none" /\ state'.plan # <<>>
           \/ /\ node' \in {"finalize", "end"} /\ state'.pending # Nowhere
              /\ state'.status # "completed"
    BY <1>6, <2>1 DEF Resumable, Live, Inside
  <2>3. /\ visits' = state'.usage.iterations /\ toolCalls' = state'.usage.attempts
        /\ visits' \in 0..MaxIterations /\ toolCalls' \in 0..MaxAttempts
        /\ MaxIterations \in Nat /\ MaxAttempts \in Nat
    <3>1. state'.usage \in Used
      BY <2>2 DEF Shaped, GraphState
    <3> QED
      BY <1>6, <3>1, UsageTyped
  <2>4. GraphTypes'
    BY <1>0, <1>2, <1>3, <1>6, <2>2, <2>3 DEF GraphTypes
  <2>5. PlaceInv'
    BY <2>2 DEF PlaceInv, Approved
  <2>6. CompletedInv' /\ StoppedInv'
    BY <2>2 DEF CompletedInv, StoppedInv
  <2>7. VisitsInv'
    BY <2>2, <2>3 DEF VisitsInv, StepsAreBudgeted, Iterated
  <2>8. CallsInv'
    <3>1. CallsAreBudgeted'
      BY <1>2, <1>4, <1>6, <2>3, CallsMean DEF CallsAreBudgeted, RiskyLimit
    <3> QED
      BY <2>2, <2>3, <3>1 DEF CallsInv, Attempted
  <2> QED
    BY <2>4, <2>5, <2>6, <2>7, <2>8 DEF GraphInv
<1> QED
  BY <1>5, <1>6 DEF Crash

\* What holds of a run that is resumed at its approval.
LEMMA WaitingFacts ==
    ASSUME GraphInv, run = "waiting", node = "approval"
    PROVE  /\ Live /\ Approved /\ state.status = "approval_required" /\ state.route = "agent"
           /\ state.plan # <<>> /\ state.step <= Len(state.plan)
           /\ ledger \in Used /\ tries \in 0..MaxRetries /\ 0 \in 0..MaxRetries
           /\ visits <= state.usage.iterations /\ visits <= MaxIterations + 1
           /\ ~(visits > MaxIterations + 1)
           /\ toolCalls <= state.usage.attempts /\ risky <= RiskyLimit
<1>0. GraphTypes /\ PlaceInv /\ VisitsInv /\ CallsInv /\ Live
  BY DEF GraphInv, Live
<1>1. /\ Approved /\ state.status = "approval_required"
      /\ state.plan # <<>> /\ state.step <= Len(state.plan)
  BY <1>0 DEF PlaceInv
<1>2. state.route = "agent"
  BY <1>0, GraphTyped DEF PlaceInv
<1>3. ledger \in Used /\ tries \in 0..MaxRetries /\ 0 \in 0..MaxRetries
  BY <1>0, GraphBounds DEF GraphTypes
<1>4. visits <= MaxIterations + 1 /\ ~(visits > MaxIterations + 1)
  <2>1. visits <= MaxIterations + 1
    BY <1>0, VisitsBounded
  <2> QED
    BY <1>0, <2>1, GraphTyped
<1>5. /\ visits <= state.usage.iterations
      /\ toolCalls <= state.usage.attempts /\ risky <= RiskyLimit
  BY <1>0, CallsMean DEF VisitsInv, Iterated, CallsInv, Attempted
<1> QED
  BY <1>0, <1>1, <1>2, <1>3, <1>4, <1>5

\* A resume that refuses the call, or cannot execute it, ends the graph.
LEMMA ResumeEndsStep == ASSUME GraphInv, Refused \/ ResumeFails PROVE GraphInv'
<1>0. GraphTypes
  BY DEF GraphInv
<1>1. /\ run = "waiting" /\ run' = "running" /\ node = "approval"
      /\ ledger' = ledger /\ tries' = tries
      /\ visits' = visits /\ toolCalls' = toolCalls /\ risky' = risky
      /\ rows' = rows \/ \E verdict \in {"rejected", "cancelled"} :
                            rows' = [rows EXCEPT ![verdict] = @ \cup {state.pending}]
      /\ \E status \in {"rejected", "cancelled", "failed"} : Save(state.usage, status, "finalize")
  BY DEF Refused, ResumeFails, ResumedBy, history
<1>2. /\ ledger \in Used /\ tries \in 0..MaxRetries /\ state.route = "agent" /\ Live
      /\ visits <= MaxIterations + 1
  BY <1>1, WaitingFacts
<1>3. visits' \in Nat /\ state.usage \in Used
  BY <1>0, <1>1, GraphTyped
<1> QED
  BY <1>1, <1>2, <1>3, GraphEnds DEF Status

\* A resume claims the approved call with the usage that was saved.
LEMMA ClaimsStep == ASSUME GraphInv, Claims PROVE GraphInv'
<1>0. GraphTypes /\ PlaceInv /\ CallsInv
  BY DEF GraphInv
<1>1. /\ run = "waiting" /\ run' = "running" /\ node = "approval"
      /\ state.pending \notin rows.claimed
      /\ rows' = [rows EXCEPT !.claimed = @ \cup {state.pending}]
      /\ node' = "call" /\ ledger' = state.usage /\ tries' = 0
      /\ state' = state /\ visits' = visits /\ toolCalls' = toolCalls /\ risky' = risky
  BY DEF Claims, ResumedBy, history
<1>2. /\ Live /\ Approved /\ state.status = "approval_required" /\ state.route = "agent"
      /\ state.plan # <<>> /\ state.step <= Len(state.plan) /\ 0 \in 0..MaxRetries
      /\ visits <= state.usage.iterations /\ ~(visits > MaxIterations + 1)
      /\ toolCalls <= state.usage.attempts /\ risky <= RiskyLimit
  BY <1>1, WaitingFacts
<1>3. /\ state.usage \in Used /\ state.usage.attempts \in 0..MaxAttempts /\ MaxAttempts \in Nat
      /\ state.pending \in Ids /\ RiskyLimit \in Nat /\ risky \in Nat /\ MaxRetries \in Nat
  BY <1>0, GraphTyped, GraphBounds DEF Ids
<1>4. /\ rows' \in ApprovalRows
      /\ rows'.succeeded = rows.succeeded /\ rows'.claimed = rows.claimed \cup {state.pending}
      /\ state.pending \notin rows.succeeded
  BY <1>0, <1>1, <1>3 DEF GraphTypes, ApprovalRows
<1>5. IsFiniteSet(rows'.claimed) /\ RiskyLimit' = RiskyLimit + MaxRetries + 1
  <2>1. /\ IsFiniteSet(rows.claimed \cup {state.pending})
        /\ (MaxRetries + 1) * Cardinality(rows.claimed \cup {state.pending})
              = RiskyLimit + MaxRetries + 1
    BY <1>0, <1>1, <1>3, LimitGrows
  <2> QED
    BY <1>4, <2>1 DEF RiskyLimit
<1>10. GraphTypes'
  BY <1>0, <1>1, <1>2, <1>3, <1>4, <1>5 DEF GraphTypes
<1>6. PlaceInv'
  BY <1>1, <1>2 DEF PlaceInv, Live, Inside, Approved
<1>7. CompletedInv' /\ StoppedInv'
  BY <1>1, <1>2 DEF CompletedInv, StoppedInv
<1>8. VisitsInv'
  BY <1>1, <1>2 DEF VisitsInv, StepsAreBudgeted, Iterated, Inside, Approved
<1>9. CallsInv'
  <2>1. CallsAreBudgeted'
    <3>1. toolCalls' <= MaxAttempts /\ risky' <= RiskyLimit'
      BY <1>0, <1>1, <1>2, <1>3, <1>5, CallsMean DEF CallsInv
    <3> QED
      BY <3>1 DEF CallsAreBudgeted, RiskyLimit
  <2>2. risky' + (MaxRetries + 1) <= RiskyLimit' + tries' + 0
    BY <1>1, <1>2, <1>3, <1>5
  <2>3. state'.pending \in rows'.claimed \ rows'.succeeded
    BY <1>1, <1>4
  <2> QED
    BY <1>1, <1>2, <2>1, <2>2, <2>3 DEF CallsInv, Attempted, Inside
<1> QED
  BY <1>6, <1>7, <1>8, <1>9, <1>10 DEF GraphInv

\* The approved call is answered from its row, and the graph goes on.
LEMMA AnsweredFromRowStep == ASSUME GraphInv, AnsweredFromRow PROVE GraphInv'
<1> DEFINE items == {Item(state.step, TRUE, "none")}
           s == Apply(state, items, FALSE, state.usage)
<1>0. GraphTypes /\ PlaceInv /\ CallsInv
  BY DEF GraphInv
<1>1. /\ run = "waiting" /\ run' = "running" /\ node = "approval"
      /\ state.pending \in rows.succeeded /\ state' = Continue(s) /\ node' = "execute"
      /\ ledger' = ledger /\ tries' = tries /\ rows' = rows
      /\ visits' = visits /\ toolCalls' = toolCalls /\ risky' = risky
  BY DEF AnsweredFromRow, ResumedBy, history
<1>2. /\ Live /\ state.route = "agent" /\ state.plan # <<>> /\ state.step <= Len(state.plan)
      /\ visits <= state.usage.iterations /\ ~(visits > MaxIterations + 1)
      /\ toolCalls <= state.usage.attempts
  BY <1>1, WaitingFacts
<1>3. /\ Shaped(state) /\ state.usage \in Used /\ state.step \in Nat /\ state.step >= 1
      /\ Len(state.plan) \in Nat /\ DOMAIN state.plan = 1..Len(state.plan)
  BY <1>0, GraphTyped, PlanFacts
<1>4. /\ items \in SUBSET Items /\ \A e \in items : e.step \in DOMAIN state.plan
      /\ s \in Applied(state, items, state.usage)
  <2>1. Item(state.step, TRUE, "none") \in Items
    BY <1>3 DEF Item, Items
  <2>2. Item(state.step, TRUE, "none").step = state.step
    BY DEF Item
  <2>3. s \in Applied(state, items, state.usage)
    BY DEF Applied
  <2>4. state.step \in DOMAIN state.plan
    BY <1>2, <1>3
  <2> HIDE DEF s
  <2> QED
    BY <2>1, <2>2, <2>3, <2>4
<1> HIDE DEF items, s
<1>5. /\ Shaped(s) /\ s.usage = state.usage /\ s.plan = state.plan /\ s.route = state.route
  BY <1>2, <1>3, <1>4, AppliedState
<1>6. /\ state' \in GraphState /\ state'.usage = state.usage /\ state'.status = "none"
      /\ state'.plan = state.plan /\ state'.route = state.route /\ state'.pending = Nowhere
      /\ state'.step = s.step /\ state'.evidence = s.evidence
  BY <1>1, <1>5 DEF Continue, Shaped, GraphState, Status, Nowhere
<1>7. GraphTypes'
  <2>1. Shaped(state')
    BY <1>5, <1>6 DEF Shaped
  <2> QED
    BY <1>0, <1>1, <2>1 DEF GraphTypes
<1>8. PlaceInv'
  BY <1>1, <1>2, <1>6 DEF PlaceInv, Live, Inside, Approved
<1>9. CompletedInv' /\ StoppedInv'
  BY <1>6 DEF CompletedInv, StoppedInv
<1>10. VisitsInv'
  BY <1>1, <1>2, <1>6 DEF VisitsInv, StepsAreBudgeted, Iterated, Inside
<1>11. CallsInv'
  BY <1>0, <1>1, <1>2, <1>6
     DEF CallsInv, CallsAreBudgeted, Attempted, Inside, RiskyLimit
<1> QED
  BY <1>7, <1>8, <1>9, <1>10, <1>11 DEF GraphInv

\* A resume after the approval was decided goes on where the graph was.
LEMMA ResumeFinalizeStep == ASSUME GraphInv, ResumeFinalize PROVE GraphInv'
<1>0. GraphTypes /\ PlaceInv /\ CompletedInv /\ StoppedInv /\ VisitsInv /\ CallsInv
  BY DEF GraphInv
<1>1. /\ Live /\ Live' /\ run' = "running" /\ state' = state /\ node' = node
      /\ ledger' = ledger /\ tries' = tries /\ rows' = rows
      /\ visits' = visits /\ toolCalls' = toolCalls /\ risky' = risky
  BY DEF ResumeFinalize, ResumedBy, Live, history
<1>2. GraphTypes'
  BY <1>0, <1>1 DEF GraphTypes
<1>3. PlaceInv'
  BY <1>0, <1>1 DEF PlaceInv, Inside, Approved
<1>4. CompletedInv' /\ StoppedInv'
  BY <1>0, <1>1 DEF CompletedInv, StoppedInv
<1>5. VisitsInv'
  BY <1>0, <1>1 DEF VisitsInv, StepsAreBudgeted, Iterated, Inside, Approved
<1>6. CallsInv'
  BY <1>0, <1>1 DEF CallsInv, CallsAreBudgeted, Attempted, Inside, Approved, RiskyLimit
<1> QED
  BY <1>2, <1>3, <1>4, <1>5, <1>6 DEF GraphInv

-----------------------------------------------------------------------------
(* The checkpoints a request may resume.                                     *)

\* A graph or a resume that leaves a run without the approval it had named has
\* made the approved call.
LEMMA ApprovalLeaves ==
    ASSUME GraphInv, GraphStep \/ ResumeStep
    PROVE  /\ run' \in {"running", "raised"}
           /\ run' = "running" /\ Approved /\ state'.pending = Nowhere
                 => node' = "execute" /\ state'.status = "none"
<1>0. GraphTypes /\ PlaceInv /\ state \in GraphState
  BY DEF GraphInv, GraphTypes, Shaped
<1>1. CASE Route \/ Direct \/ ExecuteStep \/ SkipSteps \/ Evaluate
  <2>1. /\ run = "running" /\ run' = "running"
        /\ node \in {"route", "direct", "execute", "evaluate"}
    BY <1>1 DEF Route, Direct, ExecuteStep, SkipSteps, Evaluate, Runs
  <2> QED
    BY <1>0, <2>1 DEF PlaceInv, Live, Inside
<1>2. CASE NoAttemptLeft \/ CallTool \/ ToolTimesOut \/ ToolRaises \/ ToolFails
  <2>1. run = "running"
    BY <1>2 DEF NoAttemptLeft, CallTool, ToolTimesOut, ToolRaises, ToolFails, Runs
  <2>2. run' \in {"running", "raised"}
    BY <1>2, <2>1 DEF NoAttemptLeft, CallTool, ToolTimesOut, ToolRaises, ToolFails
  <2>3. Approved /\ run' = "running" => state'.pending = state.pending
    BY <1>0, <1>2 DEF NoAttemptLeft, CallTool, ToolTimesOut, ToolRaises, ToolFails, Save, GraphState
  <2> QED
    BY <2>2, <2>3 DEF Approved
<1>3. CASE BorrowApproved \/ ToolAnswers
  <2>1. run' = "running"
    BY <1>3 DEF BorrowApproved, ToolAnswers, Runs
  <2>2. ASSUME Approved
        PROVE  node' = "execute" /\ \E s : s \in GraphState /\ state' = Continue(s)
    <3>1. run = "running" /\ Inside
      BY <1>3 DEF BorrowApproved, ToolAnswers, Runs, Inside
    <3>2. ledger \in Used /\ state.step <= Len(state.plan)
      BY <3>1, InsideFacts
    <3>3. node' = "execute" /\ \E items \in Findings(state.plan, state.step), reused \in BOOLEAN :
             state' = Continue(Apply(state, items, reused, ledger))
      BY <1>3, <2>2 DEF BorrowApproved, ToolAnswers
    <3>4. PICK items \in Findings(state.plan, state.step), reused \in BOOLEAN :
             state' = Continue(Apply(state, items, reused, ledger))
      BY <3>3
    <3>5. Apply(state, items, reused, ledger) \in Applied(state, items, ledger)
      BY DEF Applied
    <3>6. Shaped(Apply(state, items, reused, ledger))
      BY <1>0, <3>2, <3>5, OutcomeApplied
    <3> QED
      BY <3>3, <3>4, <3>6 DEF Shaped
  <2>3. Approved => node' = "execute" /\ state'.status = "none"
    BY <2>2 DEF Continue, GraphState
  <2> QED
    BY <2>1, <2>3
<1>4. CASE Finalize
  BY <1>0, <1>4 DEF Finalize, Runs, GraphState, Approved
<1>5. CASE ResumeStep
  <2>1. run' = "running"
    BY <1>5 DEF ResumeStep, Refused, Claims, AnsweredFromRow, ResumeFails, ResumeFinalize,
                ResumedBy
  <2>2. CASE Refused \/ Claims \/ ResumeFails \/ ResumeFinalize
    <3>1. state'.pending = state.pending
      BY <1>0, <2>2 DEF Refused, Claims, ResumeFails, ResumeFinalize, Save, GraphState
    <3> QED
      BY <2>1, <3>1 DEF Approved
  <2>3. CASE AnsweredFromRow
    <3>1. AnsweredFromRow /\ node' = "execute" /\ GraphInv'
      BY <2>3, AnsweredFromRowStep DEF AnsweredFromRow
    <3>2. state'.status = "none"
      BY <1>0, <2>3 DEF AnsweredFromRow, Continue, Apply, GraphState
    <3> QED
      BY <2>1, <3>1, <3>2
  <2> QED
    BY <1>5, <2>2, <2>3 DEF ResumeStep
<1> QED
  BY <1>1, <1>2, <1>3, <1>4, <1>5 DEF GraphStep, CallStep

\* A node adds a checkpoint that a request can go on from, or none.
LEMMA WrittenIsResumable ==
    ASSUME GraphInv, GraphInv', GraphStep \/ ResumeStep, run' = "running",
           NEW base, \A c \in base.kept : Resumable(c), behind' = Written(base)
    PROVE  KeptInv'
<1>1. /\ Live' /\ GraphTypes' /\ PlaceInv'
      /\ Approved /\ state'.pending = Nowhere => node' = "execute" /\ state'.status = "none"
  BY ApprovalLeaves DEF Live, GraphInv
<1>2. ASSUME node' \notin {"call", "tool"}, Approved \/ state'.pending # Nowhere
      PROVE  Resumable([state |-> state', node |-> node'])
  <2>1. Shaped(state') /\ (state'.route = "direct" => node' \in {"direct", "end"})
    BY <1>1 DEF GraphTypes, PlaceInv
  <2>2. CASE state'.pending # Nowhere
    <3>1. \/ /\ node' = "approval" /\ state'.status = "approval_required"
             /\ state'.plan # <<>> /\ state'.step <= Len(state'.plan)
          \/ node' \in {"finalize", "end"} /\ state'.status # "completed"
      BY <1>1, <1>2, <2>2 DEF PlaceInv, Inside, Approved
    <3> QED
      BY <2>1, <2>2, <3>1 DEF Resumable
  <2>3. CASE state'.pending = Nowhere
    <3>1. node' = "execute" /\ state'.status = "none" /\ state'.plan # <<>>
      BY <1>1, <1>2, <2>3 DEF PlaceInv
    <3> QED
      BY <2>1, <2>3, <3>1 DEF Resumable
  <2> QED
    BY <2>2, <2>3
<1>3. ASSUME NEW c \in Written(base).kept PROVE Resumable(c)
  <2>1. \/ c \in base.kept
        \/ /\ node' \notin {"call", "tool"} /\ (Approved \/ state'.pending # Nowhere)
           /\ c = [state |-> state', node |-> node']
    BY <1>3 DEF Written
  <2> QED
    BY <1>2, <2>1
<1> QED
  BY <1>3 DEF KeptInv

\* Every step leaves checkpoints that a request can go on from.
LEMMA CheckpointsKept == ASSUME RunInv, Next, GraphInv' PROVE KeptInv'
<1>1. CASE GraphStep
  <2>1. CASE run' = "raised"
    BY <1>1, <2>1 DEF GraphStep, Unwritten, KeptInv
  <2>2. CASE run' = "running"
    BY <1>1, <2>2, WrittenIsResumable DEF GraphStep, RunInv, KeptInv
  <2> QED
    BY <1>1, <2>1, <2>2, ApprovalLeaves DEF RunInv
<1>2. CASE ResumeStep
  <2>1. run = "waiting" /\ run' = "running"
    BY <1>2 DEF ResumeStep, Refused, Claims, AnsweredFromRow, ResumeFails, ResumeFinalize,
                ResumedBy
  <2>2. Resumable(Current)
    BY <2>1 DEF RunInv, KeptInv
  <2>3. \A c \in {[state |-> state, node |-> node]} : Resumable(c)
    BY <2>2 DEF Current
  <2> DEFINE base == [kept |-> {[state |-> state, node |-> node]}, lost |-> ~Approved]
  <2>4. behind' = Written(base) /\ base.kept = {[state |-> state, node |-> node]}
    BY <1>2 DEF ResumeStep
  <2> HIDE DEF base
  <2> QED
    BY <1>2, <2>1, <2>3, <2>4, WrittenIsResumable DEF RunInv
<1>3. CASE Return
  <2>1. behind'.kept = {} /\ (run' = "waiting" => node' = "approval")
    BY <1>3 DEF Return, Unwritten
  <2>2. ASSUME run' = "waiting" PROVE Resumable(Current')
    <3>1. node' = "approval" /\ Live' /\ GraphTypes' /\ PlaceInv'
      BY <2>1, <2>2 DEF Live, GraphInv
    <3>2. /\ Shaped(state') /\ state'.route # "direct" /\ state'.pending # Nowhere
          /\ state'.status = "approval_required"
          /\ state'.plan # <<>> /\ state'.step <= Len(state'.plan)
      BY <3>1 DEF PlaceInv, GraphTypes, Approved
    <3> QED
      BY <3>1, <3>2 DEF Resumable, Current
  <2> QED
    BY <2>1, <2>2 DEF KeptInv
<1>4. CASE RunTimesOut
  BY <1>4 DEF RunTimesOut, Unwritten, KeptInv
<1>5. CASE Crash
  <2>1. behind'.kept = {}
    BY <1>5 DEF Crash, Unwritten
  <2>2. ASSUME run' = "waiting" PROVE Resumable(Current')
    <3>1. PICK c \in behind.kept : state' = c.state /\ node' = c.node
      BY <1>5, <2>2 DEF Crash
    <3>2. Resumable(c)
      BY DEF RunInv, KeptInv
    <3> QED
      BY <3>1, <3>2 DEF Resumable, Current
  <2> QED
    BY <2>1, <2>2 DEF KeptInv
<1> QED
  BY <1>1, <1>2, <1>3, <1>4, <1>5 DEF Next

-----------------------------------------------------------------------------
(* The theorems about the graph.                                             *)

\* No run waits, and nothing was written, before the graph has run.
LEMMA RunStarts == Init => RunInv
<1> SUFFICES ASSUME Init PROVE RunInv
  OBVIOUS
<1>1. behind.kept = {} /\ run = "running"
  BY DEF Init, Unwritten
<1> QED
  BY <1>1, GraphStarts DEF RunInv, KeptInv

\* Every step of a run, its crash and its resume included, keeps the invariant.
LEMMA RunKept == RunInv /\ [Next]_vars => RunInv'
<1> SUFFICES ASSUME RunInv, [Next]_vars PROVE RunInv'
  OBVIOUS
<1>0. GraphInv
  BY DEF RunInv
<1>1. CASE UNCHANGED vars
  <2>0. GraphTypes /\ PlaceInv /\ CompletedInv /\ StoppedInv /\ VisitsInv /\ CallsInv
    BY <1>0 DEF GraphInv
  <2>1. /\ state' = state /\ node' = node /\ run' = run
        /\ ledger' = ledger /\ tries' = tries /\ rows' = rows /\ behind' = behind
        /\ visits' = visits /\ toolCalls' = toolCalls /\ risky' = risky
    BY <1>1 DEF vars, history
  <2>2. GraphTypes' /\ PlaceInv'
    BY <2>0, <2>1 DEF GraphTypes, PlaceInv, Live, Inside, Approved
  <2>3. CompletedInv' /\ StoppedInv'
    BY <2>0, <2>1 DEF CompletedInv, StoppedInv, Live
  <2>4. VisitsInv' /\ CallsInv'
    BY <2>0, <2>1 DEF VisitsInv, StepsAreBudgeted, Iterated, CallsInv,
                      CallsAreBudgeted, Attempted, Live, Inside, Approved, RiskyLimit
  <2>5. KeptInv'
    BY <2>1 DEF RunInv, KeptInv, Current
  <2> QED
    BY <2>2, <2>3, <2>4, <2>5 DEF GraphInv, RunInv
<1>2. ASSUME Next PROVE GraphInv'
  <2>1. CASE Route \/ Direct \/ ExecuteStep \/ SkipSteps
    BY <1>0, <2>1, RouteStep, DirectStep, ExecuteStepStep, SkipStepsStep
  <2>2. CASE CallStep
    BY <1>0, <2>2, NoAttemptLeftStep, CallToolStep, BorrowApprovedStep, ToolAnswersStep,
       ToolTimesOutStep, ToolFailsStep, ToolRaisesStep DEF CallStep
  <2>3. CASE Evaluate \/ Finalize
    BY <1>0, <2>3, EvaluateStep, FinalizeStep
  <2>4. CASE Return \/ RunTimesOut \/ Crash
    BY <1>0, <2>4, ReturnStep, RunTimesOutStep, CrashStep
  <2>5. CASE ResumeStep
    BY <1>0, <2>5, ResumeEndsStep, ClaimsStep, AnsweredFromRowStep, ResumeFinalizeStep
       DEF ResumeStep
  <2> QED
    BY <1>2, <2>1, <2>2, <2>3, <2>4, <2>5 DEF Next, GraphStep
<1> QED
  BY <1>1, <1>2, CheckpointsKept DEF RunInv

\* The invariant holds in every reachable state.
LEMMA GraphInvariant == Spec => []RunInv
<1>1. Init => RunInv
  BY RunStarts
<1>2. RunInv /\ [Next]_vars => RunInv'
  BY RunKept
<1> QED
  BY <1>1, <1>2, PTL DEF Spec

\* What the invariant says of the shape.
LEMMA GraphIsTyped == ASSUME RunInv PROVE TypeOK
<1>1. GraphTypes
  BY DEF RunInv, GraphInv
<1>2. \A e \in state.evidence : e \in Items
  BY <1>1 DEF GraphTypes, Shaped, GraphState
<1>3. \A e \in state.evidence : e.ok \in BOOLEAN /\ e.stance \in {"none", "yes", "no"}
  BY <1>2 DEF Items
<1> QED
  BY <1>1, <1>3, GraphTyped DEF GraphTypes, Shaped, TypeOK

\* The state of a run has its shape, and what is saved of a budget never exceeds it
\* (BudgetLedger, AgenticState).
THEOREM GraphTypeCorrect == Spec => []TypeOK
<1>1. RunInv => TypeOK
  BY GraphIsTyped
<1> QED
  BY <1>1, GraphInvariant, PTL

\* A step completes a run at its end, or where an exhausted budget stops it.
LEMMA CompletesCovered ==
    ASSUME RunInv, Next, state'.status = "completed", state.status # "completed"
    PROVE  node' \in {"finalize", "end"} \/ Covered(state')
<1>0. GraphTypes /\ PlaceInv /\ state \in GraphState
  BY DEF RunInv, GraphInv, GraphTypes, Shaped
<1>1. CASE Route
  BY <1>0, <1>1 DEF Route, Save, GraphState, PlaceInv, Live, Runs
<1>2. CASE Direct \/ Finalize
  BY <1>2 DEF Direct, Finalize, Save
<1>3. ASSUME NEW u, BudgetStop(u), state.route # "direct" PROVE Covered(state')
  <2>1. /\ state'.status = IF Decision(state) = "sufficient" /\ CanFinalize(u)
                           THEN "completed" ELSE "exhausted"
        /\ state'.plan = state.plan /\ state'.evidence = state.evidence
        /\ state'.route = state.route
    BY <1>0, <1>3 DEF BudgetStop, Leave, GraphState
  <2>2. Decision(state) = "sufficient" /\ Decision(state') = Decision(state)
    BY <2>1, SameDecision
  <2> QED
    BY <1>3, <2>1, <2>2 DEF Covered
<1>4. CASE ExecuteStep
  <2>1. node = "execute" /\ state.route # "direct"
    BY <1>0, <1>4 DEF ExecuteStep, Runs, PlaceInv
  <2>2. CASE \E u : BudgetStop(u)
    BY <1>3, <2>1, <2>2
  <2>3. CASE ~\E u : BudgetStop(u)
    <3> DEFINE i  == state.step
               u1 == ConsumeIteration(state.usage)
               kb == state.plan[i].tool = "kb"
               u2 == IF kb THEN [u1 EXCEPT !.rounds = @ + 1] ELSE u1
               id == <<i, state.usage.rounds>>
    <3>1. \/ BudgetStop(state.usage) \/ BudgetStop(u1)
          \/ Leave([state EXCEPT !.usage = u2, !.status = "failed"])
          \/ Recall(id, u2)
          \/ \E items : Borrow(id, items, u2)
          \/ Leave([state EXCEPT !.usage = u2, !.pending = id, !.status = "approval_required"])
          \/ state' = state
      BY <1>4 DEF ExecuteStep
    <3> HIDE DEF u2, id
    <3>2. \/ state' = [state EXCEPT !.usage = u2, !.status = "failed"]
          \/ \E items, reused : state' = Apply(state, items, reused, u2)
          \/ state' = [state EXCEPT !.usage = u2, !.pending = id, !.status = "approval_required"]
          \/ state' = state
      BY <2>3, <3>1 DEF Recall, Borrow, Leave
    <3>3. state'.status \in {state.status, "failed", "approval_required"}
      BY <1>0, <3>2 DEF Apply, GraphState
    <3> QED
      BY <3>3
  <2> QED
    BY <2>2, <2>3
<1>5. CASE CallStep
  <2>1. state.route # "direct"
    BY <1>0, <1>5 DEF CallStep, NoAttemptLeft, CallTool, BorrowApproved, ToolAnswers,
                      ToolTimesOut, ToolFails, ToolRaises, Runs, PlaceInv
  <2>2. CASE NoAttemptLeft
    <3>1. BudgetStop(ledger) \/ Save(ledger, "failed", "finalize")
      BY <2>2 DEF NoAttemptLeft
    <3> QED
      BY <1>3, <2>1, <3>1 DEF Save
  <2>3. CASE BorrowApproved \/ ToolAnswers
    <3>1. \E items, reused, u : \/ state' = Apply(state, items, reused, u)
                               \/ state' = Continue(Apply(state, items, reused, u))
      BY <2>3 DEF BorrowApproved, ToolAnswers, Leave
    <3>2. state'.status \in {state.status, "none"}
      BY <1>0, <3>1 DEF Apply, Continue, GraphState
    <3> QED
      BY <3>2
  <2>4. CASE CallTool \/ ToolTimesOut \/ ToolRaises \/ ToolFails
    <3>1. state'.status \in {state.status, "failed"}
      BY <1>0, <2>4 DEF CallTool, ToolTimesOut, ToolRaises, ToolFails, Save, Leave, GraphState
    <3> QED
      BY <3>1
  <2> QED
    BY <1>5, <2>2, <2>3, <2>4 DEF CallStep
<1>6. CASE SkipSteps
  BY <1>6 DEF SkipSteps, Leave
<1>7. CASE Evaluate
  BY <1>0, <1>7 DEF Evaluate, GraphState
<1>8. CASE Return \/ RunTimesOut
  <2>1. state'.status \in {state.status, "exhausted"}
    BY <1>0, <1>8 DEF Return, RunTimesOut, GraphState
  <2> QED
    BY <2>1
<1>9. CASE Crash
  <2>1. state' = state \/ \E c \in behind.kept : state' = c.state /\ node' = c.node
    BY <1>9 DEF Crash
  <2>2. ASSUME NEW c \in behind.kept, state' = c.state PROVE FALSE
    BY <2>2 DEF RunInv, KeptInv, Resumable
  <2> QED
    BY <2>1, <2>2
<1>10. CASE ResumeStep
  <2>1. \/ state' = state
        \/ \E status \in {"rejected", "cancelled", "failed"} : Save(state.usage, status, "finalize")
        \/ \E items : state' = Continue(Apply(state, items, FALSE, state.usage))
    BY <1>10 DEF ResumeStep, Refused, Claims, AnsweredFromRow, ResumeFails, ResumeFinalize
  <2>2. state'.status \in {state.status, "rejected", "cancelled", "failed", "none"}
    BY <1>0, <2>1 DEF Save, Continue, Apply, GraphState
  <2> QED
    BY <2>2
<1> QED
  BY <1>1, <1>2, <1>4, <1>5, <1>6, <1>7, <1>8, <1>9, <1>10 DEF Next, GraphStep

\* A run becomes completed, and ends completed, with the evidence its plan calls for or
\* a cited direct answer: no exhausted budget, crash or resume completes one without
\* (AgenticGraph.evaluate, _budget_stop, EvidenceSufficiencyPolicy).
THEOREM CompletedRunsAreCovered == Spec => CompletedIsCovered
<1> DEFINE Earned == state'.status = "completed"
                           /\ (state.status # "completed" \/ node' \in {"finalize", "end"})
                              => Covered(state')
<1>1. RunInv /\ [Next]_vars => [Earned]_vars
  <2> SUFFICES ASSUME RunInv, Next, state'.status = "completed",
                      state.status # "completed" \/ node' \in {"finalize", "end"}
               PROVE  Covered(state')
    OBVIOUS
  <2>1. node' \in {"finalize", "end"} => Covered(state')
    BY RunKept DEF RunInv, GraphInv, CompletedInv
  <2> QED
    BY <2>1, CompletesCovered
<1> QED
  BY <1>1, GraphInvariant, PTL DEF Spec, CompletedIsCovered

\* However often the plan is begun anew, the steps that the run's checkpoints remember
\* are within the iterations (BudgetLedger.consume_iteration).
THEOREM StepsStayBudgeted == Spec => []StepsAreBudgeted
<1>1. RunInv => StepsAreBudgeted
  BY DEF RunInv, GraphInv, VisitsInv
<1> QED
  BY <1>1, GraphInvariant, PTL

\* However often a run is cut off and resumed, the calls its checkpoints remember are
\* within its attempts, and approved calls are never made beyond one execution of each
\* claimed approval (BudgetLedger.consume_tool, ApprovalService.resume).
THEOREM CallsStayBudgeted == Spec => []CallsAreBudgeted
<1>1. RunInv => CallsAreBudgeted
  BY DEF RunInv, GraphInv, CallsInv
<1> QED
  BY <1>1, GraphInvariant, PTL

-----------------------------------------------------------------------------
(* Threads of the minimal runtime.                                           *)

Nodes  == {"normalize_input", "decide", "execute_tool", "observe", "finish", "end"}
Chosen == Nat \X Names
Shapes == [next : Nodes, steps : Nat, call : Chosen \cup {None}, results : SUBSET Chosen,
           answer : Answers \cup {None}]

\* A call is pending from its choice to its observation, and observed with its result.
Good == {s \in Shapes : /\ s.call # None <=> s.next \in {"execute_tool", "observe"}
                        /\ s.next = "observe" => s.call \in s.results}

\* None is neither a call nor a state.
NoneIsNothing == None \notin Chosen /\ None \notin Good

Frames == [pc : {"idle", "checked", "running", "ending", "refused", "returned", "raised",
                 "lost"},
           kind : {"run", "resume"}, state : Good, steps : Nat, attempt : Nat]

Aligned == /\ exec \in [Executions -> Frames] /\ unsaved \in [Executions -> Seq(Good)]
          /\ saved \in Good \cup {None}

\* The checkpoint a resume will find once an execution has written what it has.
Latest(e) == IF unsaved[e] = <<>> THEN saved ELSE unsaved[e][Len(unsaved[e])]
Recalled(s)  == IF s = None THEN {} ELSE s.results \cup {s.call}
Ended(s)  == s # None /\ s.next = "end"

OneDrives == \A e, f \in Executions : Active(e) /\ Active(f) => e = f
Flushed   == \A e \in Executions : unsaved[e] # <<>> => exec[e].pc \in {"running", "ending"}
Checked   == \A e \in Executions : exec[e].pc = "checked" =>
                 (saved = None <=> exec[e].kind = "run")
Follows   == \A e \in Executions : Running(e) => Latest(e) = exec[e].state
EndIsLast == /\ Ended(saved) => \A e \in Executions : unsaved[e] = <<>>
             /\ \A e \in Executions : \A i \in 1 .. Len(unsaved[e]) :
                   unsaved[e][i].next = "end" => i = Len(unsaved[e])
Remembers == ~crashed => \A c \in effects :
                 /\ c # None
                 /\ \A e \in Executions : Active(e) => c \in Recalled(Latest(e))
                 /\ (\A e \in Executions : ~Active(e)) => c \in Recalled(saved)
Agrees    == answers # {} => Ended(saved) /\ answers = {saved.answer}

Solo == /\ Aligned /\ OneDrives /\ Flushed /\ Checked /\ Follows /\ EndIsLast
        /\ Remembers /\ Agrees

\* It says nothing of a thread that two executions have driven at once.
RuntimeInv == overlap \in BOOLEAN /\ (~overlap => Solo)

-----------------------------------------------------------------------------
(* The states the nodes return.                                              *)

\* The state run() starts from.
LEMMA InitialIsGood == Initial \in Good /\ NotBegun \in Frames /\ NotBegun.pc = "idle"
                       /\ Initial.next # "end"
<1>1. Initial \in Good
  BY DEF Initial, Good, Shapes, Nodes
<1> QED
  BY <1>1 DEF NotBegun, Frames, Initial

\* Each node turns a sound state into a sound one.
LEMMA NodesAreGood ==
  ASSUME NoneIsNothing, NEW s \in Good
  PROVE  /\ s.next = "normalize_input" => [s EXCEPT !.next = "decide"] \in Good
         /\ s.next = "decide" =>
              /\ \A t \in Names :
                   [s EXCEPT !.next = "execute_tool", !.steps = @ + 1,
                             !.call = <<s.steps, t>>] \in Good
              /\ \A a \in Answers :
                   [s EXCEPT !.next = "finish", !.steps = @ + 1, !.call = None,
                             !.answer = a] \in Good
         /\ s.next = "execute_tool" => ToolResult(s) \in Good
         /\ s.next = "observe" =>
              [s EXCEPT !.next = "decide", !.steps = @ + 1, !.call = None] \in Good
         /\ s.next = "finish" => [s EXCEPT !.next = "end", !.steps = @ + 1] \in Good
<1>1. s \in Shapes /\ s.steps \in Nat /\ s.steps + 1 \in Nat
  BY DEF Good, Shapes
<1>2. \A t \in Names : <<s.steps, t>> \in Chosen /\ <<s.steps, t>> # None
  BY <1>1 DEF Chosen, NoneIsNothing
<1>3. s.next = "normalize_input" => [s EXCEPT !.next = "decide"] \in Good
  BY <1>1 DEF Good, Shapes, Nodes
<1>4. ASSUME s.next = "decide", NEW t \in Names
      PROVE  [s EXCEPT !.next = "execute_tool", !.steps = @ + 1, !.call = <<s.steps, t>>] \in Good
  BY <1>1, <1>2, <1>4 DEF Good, Shapes, Nodes
<1>5. ASSUME s.next = "decide", NEW a \in Answers
      PROVE  [s EXCEPT !.next = "finish", !.steps = @ + 1, !.call = None, !.answer = a] \in Good
  BY <1>1, <1>5 DEF Good, Shapes, Nodes
<1>6. s.next = "execute_tool" => ToolResult(s) \in Good
  <2>1. SUFFICES ASSUME s.next = "execute_tool" PROVE ToolResult(s) \in Good
    OBVIOUS
  <2>2. s.call \in Chosen /\ s.call # None
    BY <1>1, <2>1 DEF Good, Shapes
  <2> QED
    BY <1>1, <2>1, <2>2 DEF ToolResult, Results, Good, Shapes, Nodes
<1>7. s.next = "observe" =>
        [s EXCEPT !.next = "decide", !.steps = @ + 1, !.call = None] \in Good
  BY <1>1 DEF Good, Shapes, Nodes
<1>8. s.next = "finish" => [s EXCEPT !.next = "end", !.steps = @ + 1] \in Good
  BY <1>1 DEF Good, Shapes, Nodes
<1> QED
  BY <1>3, <1>4, <1>5, <1>6, <1>7, <1>8

\* What a checkpointer has written last does not change when it writes the first.
LEMMA WritingKeepsLast ==
  ASSUME NEW u \in Seq(Good), u # <<>>
  PROVE  /\ Tail(u) \in Seq(Good) /\ Head(u) \in Good /\ Len(u) \in Nat /\ Len(u) >= 1
         /\ Tail(u) = <<>> => Head(u) = u[Len(u)]
         /\ Tail(u) # <<>> => Tail(u)[Len(Tail(u))] = u[Len(u)]
         /\ Tail(u) # <<>> => Len(u) > 1
         /\ \A i \in 1 .. Len(Tail(u)) : Tail(u)[i] = u[i + 1]
         /\ Len(Tail(u)) = Len(u) - 1 /\ Head(u) = u[1]
<1>1. Len(u) \in Nat /\ Len(u) >= 1 /\ Len(Tail(u)) = Len(u) - 1 /\ Tail(u) \in Seq(Good)
  BY EmptySeq, HeadTailProperties
<1>2. Head(u) = u[1] /\ Head(u) \in Good /\ \A i \in 1 .. Len(Tail(u)) : Tail(u)[i] = u[i + 1]
  BY <1>1
<1>3. Tail(u) = <<>> => Len(u) = 1
  <2>1. Tail(u) = <<>> => Len(Tail(u)) = 0
    BY EmptySeq
  <2> QED
    BY <1>1, <2>1
<1>4. Tail(u) # <<>> => Len(u) > 1
  BY <1>1, EmptySeq
<1> QED
  BY <1>1, <1>2, <1>3, <1>4

-----------------------------------------------------------------------------
\* A thread without checkpoint and executions.
LEMMA InitRuntime ==
  ASSUME NoneIsNothing, RuntimeInit
  PROVE  RuntimeInv
<1>1. Aligned
  BY InitialIsGood, EmptySeq DEF RuntimeInit, Aligned
<1>2. \A e \in Executions : exec[e].pc = "idle" /\ unsaved[e] = <<>> /\ ~Active(e) /\ ~Running(e)
  BY InitialIsGood DEF RuntimeInit, Active, Running
<1>3. \A e \in Executions : Len(unsaved[e]) = 0
  BY <1>2, EmptySeq
<1>4. Solo
  BY <1>1, <1>2, <1>3 DEF RuntimeInit, Solo, OneDrives, Flushed, Checked, Follows, EndIsLast, Ended,
     Remembers, Agrees
<1> QED
  BY <1>4 DEF RuntimeInit, RuntimeInv

\* A node's return: the graph and the checkpointer's queue go on together.
LEMMA Completing ==
  ASSUME NoneIsNothing, Solo, NEW e \in Executions, Running(e),
         exec[e].state.next # "end", NEW s \in Good, Completes(e, s),
         UNCHANGED <<saved, answers>>, crashed' = crashed,
         ~crashed => \A c \in effects' : c # None /\ c \in Recalled(s)
  PROVE  Solo'
<1> DEFINE u == unsaved[e]
<1>1. /\ exec[e] \in Frames /\ u \in Seq(Good) /\ s # None /\ exec[e].pc = "running"
      /\ exec[e].steps + 1 \in Nat /\ exec[e].steps \in Nat
  BY DEF Solo, Aligned, Frames, NoneIsNothing, Running
<1>2. /\ exec' = [exec EXCEPT ![e].state = s, ![e].steps = @ + 1, ![e].attempt = 1]
      /\ unsaved' = [unsaved EXCEPT ![e] = Append(@, s)]
  BY DEF Completes
<1>3. /\ exec'[e] \in Frames /\ exec'[e].pc = "running" /\ exec'[e].state = s
      /\ unsaved'[e] = Append(u, s)
      /\ \A f \in Executions \ {e} : exec'[f] = exec[f] /\ unsaved'[f] = unsaved[f]
  <2>1. exec \in [Executions -> Frames] /\ unsaved \in [Executions -> Seq(Good)]
    BY DEF Solo, Aligned
  <2>2. exec'[e] = [exec[e] EXCEPT !.state = s, !.steps = exec[e].steps + 1, !.attempt = 1]
    BY <1>2, <2>1
  <2>3. exec'[e] \in Frames /\ exec'[e].pc = "running" /\ exec'[e].state = s
    <3>1. \A n \in Nat : LET r == [exec[e] EXCEPT !.state = s, !.steps = n, !.attempt = 1]
                          IN  r \in Frames /\ r.pc = "running" /\ r.state = s
      BY <1>1 DEF Frames
    <3> QED
      BY <1>1, <2>2, <3>1
  <2>4. unsaved'[e] = Append(u, s)
    BY <1>2, <2>1
  <2>5. \A f \in Executions \ {e} : exec'[f] = exec[f] /\ unsaved'[f] = unsaved[f]
    BY <1>2, <2>1
  <2> QED
    BY <2>3, <2>4, <2>5
<1>4. /\ Append(u, s) \in Seq(Good) /\ Append(u, s) # <<>> /\ Len(Append(u, s)) = Len(u) + 1
      /\ \A i \in 1 .. Len(u) : Append(u, s)[i] = u[i]
      /\ Append(u, s)[Len(u) + 1] = s /\ Len(u) \in Nat
  BY <1>1, AppendProperties, LenProperties
<1>5. Aligned'
  BY <1>2, <1>3, <1>4 DEF Solo, Aligned
<1>6. \A f \in Executions : (Active(f)' <=> Active(f)) /\ (Running(f)' <=> Running(f))
      /\ (Active(f) <=> f = e)
  BY <1>1, <1>3 DEF Active, Running, Solo, OneDrives
<1>7. Latest(e)' = s /\ Running(e)
  BY <1>3, <1>4 DEF Latest
<1>8. \A f \in Executions \ {e} : unsaved[f] = <<>> /\ ~Running(f)
  BY <1>6 DEF Solo, Flushed, Active, Running
<1>9. OneDrives' /\ Flushed' /\ Checked'
  BY <1>1, <1>3, <1>6, <1>8 DEF Solo, OneDrives, Flushed, Checked
<1>10. Follows'
  BY <1>3, <1>6, <1>7, <1>8 DEF Follows
<1>11. \A i \in 1 .. Len(u) : u[i].next # "end"
  <2>1. SUFFICES ASSUME NEW i \in 1 .. Len(u), u[i].next = "end" PROVE FALSE
    OBVIOUS
  <2>2. u # <<>> /\ i = Len(u)
    BY <2>1, <1>4, EmptySeq DEF Solo, EndIsLast
  <2> QED
    BY <2>1, <2>2 DEF Solo, Follows, Latest
<1>12. ~Ended(saved)
  BY <1>1 DEF Solo, EndIsLast, Ended, Follows, Latest
<1>13. EndIsLast'
  <2>1. \A i \in 1 .. Len(Append(u, s)) : Append(u, s)[i].next = "end" => i = Len(Append(u, s))
    BY <1>4, <1>11
  <2> QED
    BY <1>3, <1>12, <2>1 DEF Solo, EndIsLast, Ended
<1>14. Remembers'
  BY <1>6, <1>7 DEF Remembers, Recalled
<1>15. Agrees'
  BY <1>12 DEF Solo, Agrees, Ended
<1> QED
  BY <1>5, <1>9, <1>10, <1>13, <1>14, <1>15 DEF Solo

\* A step inside a node, or out of the graph: the state is what it was.
LEMMA Staying ==
  ASSUME NoneIsNothing, Solo, NEW e \in Executions, Running(e), NEW frame \in Frames,
         frame.pc \in {"running", "ending"}, frame.state = exec[e].state,
         exec' = [exec EXCEPT ![e] = frame], UNCHANGED <<saved, unsaved, answers>>,
         crashed' = crashed,
         ~crashed => \A c \in effects' : c \in effects
                                         \/ (c # None /\ c = exec[e].state.call)
  PROVE  Solo'
<1>1. /\ exec[e] \in Frames /\ exec[e].pc = "running" /\ exec[e].state \in Good
      /\ exec[e].state # None
  BY DEF Solo, Aligned, Frames, NoneIsNothing, Running
<1>2. exec'[e] = frame /\ \A f \in Executions \ {e} : exec'[f] = exec[f]
  BY DEF Solo, Aligned
<1>3. Aligned'
  BY DEF Solo, Aligned
<1>4. \A f \in Executions : (Active(f)' <=> Active(f)) /\ (Running(f)' => Running(f))
      /\ (Active(f) <=> f = e)
  BY <1>1, <1>2 DEF Active, Running, Solo, OneDrives
<1>5. \A f \in Executions : Latest(f)' = Latest(f)
  BY DEF Latest
<1>6. OneDrives' /\ Flushed' /\ Checked'
  BY <1>1, <1>2, <1>4 DEF Solo, OneDrives, Flushed, Checked
<1>7. Follows'
  BY <1>2, <1>4, <1>5 DEF Solo, Follows, Running
<1>8. EndIsLast' /\ Agrees'
  BY DEF Solo, EndIsLast, Agrees
<1>9. Remembers'
  <2>1. Latest(e) = exec[e].state
    BY DEF Solo, Follows
  <2>2. SUFFICES ASSUME ~crashed, NEW c \in effects' PROVE c # None /\ c \in Recalled(Latest(e))
    BY <1>4, <1>5 DEF Remembers
  <2>3. CASE c \in effects
    BY <1>4, <2>2, <2>3 DEF Solo, Remembers
  <2>4. CASE c # None /\ c = exec[e].state.call
    BY <1>1, <2>1, <2>4 DEF Recalled
  <2> QED
    BY <2>2, <2>3, <2>4
<1> QED
  BY <1>3, <1>6, <1>7, <1>8, <1>9 DEF Solo

-----------------------------------------------------------------------------
\* The nodes of the graph: each remembers what it has done.
LEMMA NodeSteps ==
  ASSUME NoneIsNothing, Solo, NEW e \in Executions,
         \/ Normalize(e) \/ (\E t \in Names : DecideTool(e, t))
         \/ (\E a \in Answers : DecideFinal(e, a)) \/ ToolReturns(e) \/ Observe(e) \/ Finish(e)
  PROVE  Solo'
<1> DEFINE s == exec[e].state
<1>1. s \in Good /\ s # None
  BY DEF Solo, Aligned, Frames, NoneIsNothing
<1>2. ASSUME Running(e) PROVE Latest(e) = s /\ Active(e)
  BY <1>2 DEF Solo, Follows, Active, Running
<1>3. ASSUME Running(e), ~crashed, NEW c \in effects PROVE c # None /\ c \in s.results \cup {s.call}
  BY <1>1, <1>2, <1>3 DEF Solo, Remembers, Recalled
<1>4. CASE Normalize(e)
  <2> DEFINE t == [s EXCEPT !.next = "decide"]
  <2>1. /\ Running(e) /\ s.next = "normalize_input" /\ Completes(e, t)
        /\ UNCHANGED <<saved, answers>> /\ crashed' = crashed /\ effects' = effects
    BY <1>4 DEF Normalize, At, MayStep, Others
  <2>2. t \in Good /\ t # None /\ t.results = s.results /\ t.call = s.call
    <3>1. t \in Good
      BY <1>1, <2>1, NodesAreGood
    <3>2. t.results = s.results /\ t.call = s.call
      BY <1>1, <2>1 DEF Good, Shapes
    <3> QED
      BY <3>1, <3>2 DEF NoneIsNothing
  <2> QED
    BY <1>3, <2>1, <2>2, Completing DEF Recalled
<1>5. ASSUME NEW tool \in Names, DecideTool(e, tool) PROVE Solo'
  <2> DEFINE t == [s EXCEPT !.next = "execute_tool", !.steps = @ + 1, !.call = <<s.steps, tool>>]
  <2>1. /\ Running(e) /\ s.next = "decide" /\ Completes(e, t)
        /\ UNCHANGED <<saved, answers>> /\ crashed' = crashed /\ effects' = effects
    BY <1>5 DEF DecideTool, At, MayStep, Others
  <2>2. t \in Good /\ t # None /\ t.results = s.results /\ s.call = None
    <3>1. t \in Good
      BY <1>1, <2>1, NodesAreGood
    <3>2. t.results = s.results /\ s.call = None
      BY <1>1, <2>1 DEF Good, Shapes
    <3> QED
      BY <3>1, <3>2 DEF NoneIsNothing
  <2> QED
    BY <1>3, <2>1, <2>2, Completing DEF Recalled
<1>6. ASSUME NEW a \in Answers, DecideFinal(e, a) PROVE Solo'
  <2> DEFINE t == [s EXCEPT !.next = "finish", !.steps = @ + 1, !.call = None, !.answer = a]
  <2>1. /\ Running(e) /\ s.next = "decide" /\ Completes(e, t)
        /\ UNCHANGED <<saved, answers>> /\ crashed' = crashed /\ effects' = effects
    BY <1>6 DEF DecideFinal, At, MayStep, Others
  <2>2. t \in Good /\ t # None /\ t.results = s.results /\ s.call = None
    <3>1. t \in Good
      BY <1>1, <2>1, NodesAreGood
    <3>2. t.results = s.results /\ s.call = None
      BY <1>1, <2>1 DEF Good, Shapes
    <3> QED
      BY <3>1, <3>2 DEF NoneIsNothing
  <2> QED
    BY <1>3, <2>1, <2>2, Completing DEF Recalled
<1>7. CASE ToolReturns(e)
  <2> DEFINE t == ToolResult(s)
  <2>1. /\ Running(e) /\ s.next = "execute_tool" /\ Completes(e, t)
        /\ UNCHANGED <<saved, answers>> /\ crashed' = crashed
        /\ effects' \subseteq effects \cup {s.call}
    BY <1>7 DEF ToolReturns, Invokes, Acts, At, MayStep, Others
  <2>2. /\ t \in Good /\ t # None /\ s.call # None
        /\ t.results = s.results \cup {s.call}
    <3>1. t \in Good
      BY <1>1, <2>1, NodesAreGood
    <3>2. s.call # None /\ t.results = s.results \cup {s.call}
      BY <1>1, <2>1 DEF ToolResult, Results, Good, Shapes
    <3> QED
      BY <3>1, <3>2 DEF NoneIsNothing
  <2>3. ~crashed => \A c \in effects' : c # None /\ c \in Recalled(t)
    BY <1>3, <2>1, <2>2 DEF Recalled
  <2> QED
    BY <2>1, <2>2, <2>3, Completing
<1>8. CASE Observe(e)
  <2> DEFINE t == [s EXCEPT !.next = "decide", !.steps = @ + 1, !.call = None]
  <2>1. /\ Running(e) /\ s.next = "observe" /\ Completes(e, t)
        /\ UNCHANGED <<saved, answers>> /\ crashed' = crashed /\ effects' = effects
    BY <1>8 DEF Observe, At, MayStep, Others
  <2>2. t \in Good /\ t # None /\ t.results = s.results /\ s.call \in s.results
    <3>1. t \in Good
      BY <1>1, <2>1, NodesAreGood
    <3>2. t.results = s.results /\ s.call \in s.results
      BY <1>1, <2>1 DEF Good, Shapes
    <3> QED
      BY <3>1, <3>2 DEF NoneIsNothing
  <2>3. ~crashed => \A c \in effects' : c # None /\ c \in Recalled(t)
    BY <1>3, <2>1, <2>2 DEF Recalled
  <2> QED
    BY <2>1, <2>2, <2>3, Completing
<1>9. CASE Finish(e)
  <2> DEFINE t == [s EXCEPT !.next = "end", !.steps = @ + 1]
  <2>1. /\ Running(e) /\ s.next = "finish" /\ Completes(e, t)
        /\ UNCHANGED <<saved, answers>> /\ crashed' = crashed /\ effects' = effects
    BY <1>9 DEF Finish, At, MayStep, Others
  <2>2. t \in Good /\ t # None /\ t.results = s.results /\ t.call = s.call
    <3>1. t \in Good
      BY <1>1, <2>1, NodesAreGood
    <3>2. t.results = s.results /\ t.call = s.call
      BY <1>1, <2>1 DEF Good, Shapes
    <3> QED
      BY <3>1, <3>2 DEF NoneIsNothing
  <2> QED
    BY <1>3, <2>1, <2>2, Completing DEF Recalled
<1> QED
  BY <1>4, <1>5, <1>6, <1>7, <1>8, <1>9

\* Attempts that fail, and what breaks a run off.
LEMMA FailingSteps ==
  ASSUME NoneIsNothing, Solo, NEW e \in Executions,
         DecideTransient(e) \/ ToolTransient(e) \/ Breaks(e) \/ StepLimit(e)
  PROVE  Solo'
<1> DEFINE s == exec[e].state
           ending == [exec[e] EXCEPT !.pc = "ending"]
           again  == [exec[e] EXCEPT !.attempt = @ + 1]
<1>1. /\ exec[e] \in Frames /\ s \in Good /\ s # None /\ exec[e].attempt + 1 \in Nat
  BY DEF Solo, Aligned, Frames, NoneIsNothing
<1>2. Running(e) /\ UNCHANGED <<saved, unsaved, answers>> /\ crashed' = crashed
  BY DEF DecideTransient, ToolTransient, Breaks, StepLimit, Invokes, Retries, At, MayStep, Others,
     History
<1>3. /\ ending \in Frames /\ ending.pc = "ending" /\ ending.state = s
      /\ again \in Frames /\ again.pc = "running" /\ again.state = s
  BY <1>1, <1>2 DEF Frames, Running
<1>4. exec' = [exec EXCEPT ![e] = ending] \/ exec' = [exec EXCEPT ![e] = again]
  <2>1. Ends(e) \/ exec' = [exec EXCEPT ![e].attempt = @ + 1]
    BY DEF DecideTransient, ToolTransient, Breaks, StepLimit, Retries
  <2>2. Ends(e) => exec' = [exec EXCEPT ![e] = ending]
    BY DEF Ends
  <2> QED
    BY <2>1, <2>2
<1>5. \A c \in effects' : c \in effects \/ (c # None /\ c = s.call)
  <2>1. effects' = effects \/ (Invokes(e) /\ effects' \subseteq effects \cup {s.call})
    BY DEF DecideTransient, ToolTransient, Breaks, StepLimit, Acts, History
  <2>2. Invokes(e) => s.call # None
    BY <1>1 DEF Invokes, At, Good
  <2> QED
    BY <2>1, <2>2
<1> QED
  BY <1>1, <1>2, <1>3, <1>4, <1>5, Staying

-----------------------------------------------------------------------------
\* The frames of an execution that is refused, checked, begun, ending or gone.
LEMMA CallShapes ==
  ASSUME NoneIsNothing
  PROVE  /\ \A pc \in {"refused", "returned", "raised", "lost"} :
              Gone(pc) \in Frames /\ Gone(pc).pc = pc
         /\ \A x \in Frames : \A k \in {"run", "resume"} :
              LET y == [x EXCEPT !.kind = k, !.pc = "checked"]
              IN  y \in Frames /\ y.pc = "checked" /\ y.kind = k
         /\ \A x \in Frames : \A st \in Good :
              LET y == [x EXCEPT !.pc = "running", !.state = st]
              IN  y \in Frames /\ y.pc = "running" /\ y.state = st
         /\ \A x \in Frames :
              [x EXCEPT !.pc = "ending"] \in Frames /\ [x EXCEPT !.pc = "ending"].pc = "ending"
BY InitialIsGood DEF Gone, Frames

\* The frame of an execution that is gone.
LEMMA GoneShape ==
  ASSUME NoneIsNothing, NEW pc \in {"refused", "returned", "raised", "lost"}
  PROVE  Gone(pc) \in Frames /\ Gone(pc).pc = pc
BY InitialIsGood DEF Gone, Frames, NotBegun

\* The frame of one that is about to end.
LEMMA EndingShape ==
  ASSUME NEW x \in Frames
  PROVE  [x EXCEPT !.pc = "ending"] \in Frames /\ [x EXCEPT !.pc = "ending"].pc = "ending"
BY DEF Frames

\* An execution that neither runs nor ends takes or leaves its place.
LEMMA Loading ==
  ASSUME NoneIsNothing, Solo, NEW e \in Executions, NEW kind \in {"run", "resume"},
         Load(e, kind), ~overlap'
  PROVE  Solo'
<1>1. /\ exec[e].pc = "idle" /\ exec[e] \in Frames
      /\ UNCHANGED <<saved, unsaved, effects, answers, crashed>>
  BY DEF Load, Solo, Aligned
<1>2. PICK y \in Frames :
        /\ exec' = [exec EXCEPT ![e] = y]
        /\ \/ y.pc = "refused"
           \/ y.pc = "checked" /\ y.kind = kind /\ (saved = None <=> kind = "run")
  <2>1. CASE IF kind = "run" THEN saved = None ELSE saved # None
    <3> DEFINE z == [exec[e] EXCEPT !.kind = kind, !.pc = "checked"]
    <3>1. exec' = [exec EXCEPT ![e] = z]
      BY <2>1 DEF Load
    <3>2. z \in Frames /\ z.pc = "checked" /\ z.kind = kind
      BY <1>1 DEF Frames
    <3>3. saved = None <=> kind = "run"
      BY <2>1
    <3> HIDE DEF z
    <3> QED
      BY <3>1, <3>2, <3>3
  <2>2. CASE ~(IF kind = "run" THEN saved = None ELSE saved # None)
    <3>1. exec' = [exec EXCEPT ![e] = Gone("refused")]
      BY <2>2 DEF Load
    <3> QED
      BY <3>1, CallShapes
  <2> QED
    BY <2>1, <2>2
<1>3. \A f \in Executions : ~Active(f)
  BY DEF Load
<1>4. exec'[e] = y /\ \A f \in Executions \ {e} : exec'[f] = exec[f]
  BY <1>2 DEF Solo, Aligned
<1>5. Aligned' /\ \A f \in Executions \ {e} : ~Active(f)'
  BY <1>1, <1>2, <1>3, <1>4 DEF Solo, Aligned, Active
<1>6. \A f \in Executions : unsaved[f] = <<>> /\ Latest(f) = saved /\ Latest(f)' = saved
  BY <1>1, <1>3 DEF Solo, Flushed, Active, Latest
<1>7. OneDrives' /\ Flushed' /\ Checked'
  <2>1. OneDrives' /\ Flushed'
    BY <1>1, <1>5, <1>6 DEF OneDrives, Flushed
  <2>2. Checked'
    BY <1>1, <1>2, <1>4 DEF Solo, Checked
  <2> QED
    BY <2>1, <2>2
<1>8. Follows'
  BY <1>2, <1>3, <1>4 DEF Follows, Running, Active
<1>9. EndIsLast' /\ Agrees'
  BY <1>1 DEF Solo, EndIsLast, Agrees
<1>10. Remembers'
  BY <1>1, <1>3, <1>6 DEF Solo, Remembers
<1> QED
  BY <1>5, <1>7, <1>8, <1>9, <1>10 DEF Solo

\* The graph takes the state the checkpoint holds.
LEMMA Beginning ==
  ASSUME NoneIsNothing, Solo, NEW e \in Executions, Begin(e)
  PROVE  Solo'
<1>1. /\ exec[e].pc = "checked" /\ exec[e] \in Frames /\ Active(e) /\ unsaved[e] = <<>>
      /\ UNCHANGED <<saved, effects, answers, crashed>> /\ Latest(e) = saved
  BY DEF Begin, Solo, Aligned, Active, Flushed, Latest, History
<1>2. \A f \in Executions \ {e} : ~Active(f) /\ unsaved[f] = <<>>
  BY <1>1 DEF Solo, OneDrives, Flushed, Active
<1>3. CASE e \in cancelled
  <2>1. exec' = [exec EXCEPT ![e] = [exec[e] EXCEPT !.pc = "ending"]] /\ unsaved' = unsaved
    BY <1>3 DEF Begin, Ends
  <2>2. /\ exec'[e] \in Frames /\ exec'[e].pc = "ending"
        /\ \A f \in Executions \ {e} : exec'[f] = exec[f]
    <3>1. exec \in [Executions -> Frames]
      BY DEF Solo, Aligned
    <3> QED
      BY <1>1, <2>1, <3>1, EndingShape
  <2>3. Aligned' /\ Active(e)' /\ \A f \in Executions \ {e} : ~Active(f)'
    BY <1>1, <1>2, <2>1, <2>2 DEF Solo, Aligned, Active
  <2>4. OneDrives' /\ Flushed' /\ Checked' /\ Follows'
    BY <1>2, <2>1, <2>2, <2>3, <1>1 DEF Solo, OneDrives, Flushed, Checked, Follows, Running, Active
  <2>5. EndIsLast' /\ Agrees'
    BY <1>1, <2>1 DEF Solo, EndIsLast, Agrees
  <2>6. Latest(e)' = saved
    BY <1>1, <2>1 DEF Latest
  <2>7. Remembers'
    BY <1>1, <2>3, <2>6 DEF Solo, Remembers
  <2> QED
    BY <2>3, <2>4, <2>5, <2>7 DEF Solo
<1>4. CASE e \notin cancelled
  <2> DEFINE st == GraphInput(exec[e].kind)
  <2>1. /\ exec' = [exec EXCEPT ![e] = [exec[e] EXCEPT !.pc = "running", !.state = st]]
        /\ unsaved' = [unsaved EXCEPT ![e] = IF exec[e].kind = "run" THEN <<st>> ELSE <<>>]
    BY <1>4 DEF Begin
  <2>2. st \in Good /\ (exec[e].kind = "run" => saved = None /\ st = Initial)
        /\ (exec[e].kind # "run" => saved # None /\ st = saved)
    BY <1>1, InitialIsGood DEF Solo, Aligned, Checked, GraphInput
  <2>3. /\ exec'[e] \in Frames /\ exec'[e].pc = "running" /\ exec'[e].state = st
        /\ unsaved'[e] = IF exec[e].kind = "run" THEN <<st>> ELSE <<>>
        /\ \A f \in Executions \ {e} : exec'[f] = exec[f] /\ unsaved'[f] = unsaved[f]
    <3> DEFINE y == [exec[e] EXCEPT !.pc = "running", !.state = st]
               u == IF exec[e].kind = "run" THEN <<st>> ELSE <<>>
    <3>1. y \in Frames /\ y.pc = "running" /\ y.state = st
      <4> HIDE DEF st
      <4> QED
        BY <1>1, <2>2 DEF Frames
    <3>2. exec' = [exec EXCEPT ![e] = y] /\ unsaved' = [unsaved EXCEPT ![e] = u]
      BY <2>1
    <3>3. DOMAIN exec = Executions /\ DOMAIN unsaved = Executions
      BY DEF Solo, Aligned
    <3> HIDE DEF y, u
    <3>4. exec'[e] = y /\ unsaved'[e] = u
      BY <3>2, <3>3
    <3>5. \A f \in Executions \ {e} : exec'[f] = exec[f] /\ unsaved'[f] = unsaved[f]
      BY <3>2, <3>3
    <3> QED
      BY <3>1, <3>4, <3>5 DEF u
  <2>4. /\ <<st>> \in Seq(Good) /\ <<st>> # <<>> /\ Len(<<st>>) = 1 /\ <<st>>[1] = st
        /\ <<>> \in Seq(Good) /\ Len(<<>>) = 0
    BY <2>2, EmptySeq
  <2>5. Aligned'
    BY <1>1, <2>1, <2>3, <2>4 DEF Solo, Aligned
  <2>6. Active(e)' /\ Running(e)' /\ \A f \in Executions \ {e} : ~Active(f)' /\ ~Running(f)'
    BY <1>2, <2>3 DEF Active, Running
  <2>7. Latest(e)' = st
    BY <1>1, <2>2, <2>3, <2>4 DEF Latest
  <2>8. OneDrives' /\ Flushed' /\ Checked' /\ Follows'
    BY <1>2, <2>3, <2>6, <2>7, <1>1 DEF Solo, OneDrives, Flushed, Checked, Follows, Active
  <2>9. EndIsLast' /\ Agrees'
    <3>1. Ended(saved) => unsaved'[e] = <<>>
      BY <2>2, <2>3 DEF Ended
    <3>2. \A i \in 1 .. Len(unsaved'[e]) : i = Len(unsaved'[e])
      BY <2>3, <2>4
    <3>3. EndIsLast'
      BY <1>1, <2>3, <3>1, <3>2 DEF Solo, EndIsLast, Ended
    <3> QED
      BY <1>1, <3>3 DEF Solo, Agrees
  <2>10. Remembers'
    <3>1. SUFFICES ASSUME ~crashed, NEW c \in effects PROVE c # None /\ c \in Recalled(st)
      BY <1>1, <2>6, <2>7 DEF Remembers
    <3>2. c # None /\ c \in Recalled(saved)
      BY <1>1, <3>1 DEF Solo, Remembers
    <3> QED
      BY <2>2, <3>2 DEF Recalled
  <2> QED
    BY <2>5, <2>8, <2>9, <2>10 DEF Solo
<1> QED
  BY <1>3, <1>4

\* Writing the first of the waiting checkpoints leaves the last of them the latest.
LEMMA Saving ==
  ASSUME NoneIsNothing, Solo, NEW e \in Executions, SaveCheckpoint(e)
  PROVE  Solo'
<1> DEFINE u == unsaved[e]
<1>1. /\ u \in Seq(Good) /\ u # <<>> /\ saved' = Head(u)
      /\ unsaved' = [unsaved EXCEPT ![e] = Tail(u)]
      /\ UNCHANGED <<exec, effects, answers, crashed>>
  BY DEF SaveCheckpoint, Solo, Aligned, History
<1>2. /\ Tail(u) \in Seq(Good) /\ Head(u) \in Good /\ Len(u) \in Nat /\ Len(u) >= 1
      /\ (Tail(u) = <<>> => Head(u) = u[Len(u)])
      /\ (Tail(u) # <<>> => Tail(u)[Len(Tail(u))] = u[Len(u)])
      /\ (Tail(u) # <<>> => Len(u) > 1)
      /\ (\A i \in 1 .. Len(Tail(u)) : Tail(u)[i] = u[i + 1])
      /\ Len(Tail(u)) = Len(u) - 1 /\ Head(u) = u[1]
  BY <1>1, WritingKeepsLast
<1>3. unsaved'[e] = Tail(u) /\ \A f \in Executions \ {e} : unsaved'[f] = unsaved[f]
  BY <1>1 DEF Solo, Aligned
<1>4. Active(e) /\ \A f \in Executions \ {e} : ~Active(f) /\ unsaved[f] = <<>>
  BY <1>1 DEF Solo, Flushed, Active, OneDrives
<1>5. Aligned'
  BY <1>1, <1>2, <1>3 DEF Solo, Aligned
<1>6. Latest(e)' = Latest(e)
  BY <1>1, <1>2, <1>3 DEF Latest
<1>7. OneDrives' /\ Flushed' /\ Checked'
  <2>1. exec[e].pc # "checked" /\ \A f \in Executions \ {e} : exec[f].pc # "checked"
    BY <1>1, <1>4 DEF Solo, Flushed, Active
  <2> QED
    BY <1>1, <1>3, <1>4, <2>1 DEF Solo, OneDrives, Flushed, Checked, Active
<1>8. Follows'
  BY <1>1, <1>4, <1>6 DEF Solo, Follows, Running, Active
<1>9. EndIsLast'
  <2>1. ASSUME Ended(saved)' PROVE Tail(u) = <<>>
    <3>1. u[1].next = "end" /\ 1 \in 1 .. Len(u)
      BY <1>1, <1>2, <2>1 DEF Ended
    <3>2. Len(u) = 1
      BY <3>1 DEF Solo, EndIsLast
    <3> QED
      BY <1>2, <3>2
  <2>2. ASSUME NEW i \in 1 .. Len(Tail(u)), Tail(u)[i].next = "end" PROVE i = Len(Tail(u))
    <3>1. u[i + 1].next = "end" /\ i + 1 \in 1 .. Len(u)
      BY <1>2, <2>2
    <3>2. i + 1 = Len(u)
      BY <3>1 DEF Solo, EndIsLast
    <3> QED
      BY <1>2, <3>2
  <2> QED
    BY <1>3, <1>4, <2>1, <2>2 DEF Solo, EndIsLast
<1>10. Agrees'
  BY <1>1 DEF Solo, Agrees, EndIsLast
<1>11. Remembers'
  <2>1. Active(e)' /\ \A f \in Executions \ {e} : ~Active(f)'
    BY <1>1, <1>4 DEF Active
  <2> QED
    BY <1>1, <1>4, <1>6, <2>1 DEF Solo, Remembers
<1> QED
  BY <1>5, <1>7, <1>8, <1>9, <1>10, <1>11 DEF Solo

\* The end of an execution, when all it had to write is written.
LEMMA Going ==
  ASSUME NoneIsNothing, Solo, NEW e \in Executions, NEW pc \in {"returned", "raised"},
         Active(e), exec[e].pc # "checked", unsaved[e] = <<>>, Goes(e, pc),
         UNCHANGED <<saved, unsaved, effects, crashed>>,
         answers' = answers \/ (Ended(saved) /\ answers' = answers \cup {saved.answer})
  PROVE  Solo'
<1>1. exec'[e] = Gone(pc) /\ Gone(pc) \in Frames /\ Gone(pc).pc = pc
      /\ \A f \in Executions \ {e} : exec'[f] = exec[f]
  <2>1. Gone(pc) \in Frames /\ Gone(pc).pc = pc
    BY GoneShape
  <2>2. exec \in [Executions -> Frames] /\ exec' = [exec EXCEPT ![e] = Gone(pc)]
    BY DEF Solo, Aligned, Goes
  <2> QED
    BY <2>1, <2>2
<1>2. \A f \in Executions :
        ~Active(f)' /\ ~Running(f)' /\ unsaved[f] = <<>> /\ exec'[f].pc # "checked"
  BY <1>1 DEF Solo, OneDrives, Flushed, Active, Running
<1>3. Aligned'
  BY <1>1, CallShapes DEF Goes, Solo, Aligned
<1>4. OneDrives' /\ Flushed' /\ Checked' /\ Follows'
  BY <1>2 DEF OneDrives, Flushed, Checked, Follows
<1>5. EndIsLast'
  BY DEF Solo, EndIsLast
<1>6. Agrees'
  BY DEF Solo, Agrees
<1>7. Latest(e) = saved
  BY DEF Latest
<1>8. Remembers'
  BY <1>2, <1>7 DEF Solo, Remembers
<1> QED
  BY <1>3, <1>4, <1>5, <1>6, <1>8 DEF Solo

\* A crash loses the frames; the checkpoint and what was answered stay.
LEMMA Crashing ==
  ASSUME NoneIsNothing, Solo, ProcessDies
  PROVE  Solo'
<1>1. /\ exec' = [e \in Executions |-> IF Active(e) THEN Gone("lost") ELSE exec[e]]
      /\ unsaved' = [e \in Executions |-> <<>>] /\ crashed' = TRUE
      /\ UNCHANGED <<saved, effects, answers>>
  BY DEF ProcessDies
<1>2. Aligned'
  BY <1>1, CallShapes, EmptySeq DEF Solo, Aligned
<1>3. \A e \in Executions :
         /\ ~Active(e)' /\ ~Running(e)' /\ unsaved'[e] = <<>> /\ Len(unsaved'[e]) = 0
         /\ exec'[e].pc # "checked"
  <2>1. TAKE e \in Executions
  <2>2. unsaved'[e] = <<>> /\ Len(<<>>) = 0
    BY <1>1, EmptySeq
  <2>3. exec'[e].pc \notin {"checked", "running", "ending"}
    BY <1>1, CallShapes DEF Active
  <2> QED
    BY <2>2, <2>3 DEF Active, Running
<1>4. OneDrives' /\ Flushed' /\ Checked' /\ Follows'
  BY <1>3 DEF OneDrives, Flushed, Checked, Follows
<1>5. EndIsLast' /\ Agrees' /\ Remembers'
  BY <1>1, <1>3 DEF Solo, EndIsLast, Agrees, Remembers
<1> QED
  BY <1>2, <1>4, <1>5 DEF Solo

-----------------------------------------------------------------------------
\* Return hands out the answer of the checkpoint the graph's last step became.
LEMMA Returning ==
  ASSUME NoneIsNothing, Solo, NEW e \in Executions, ReturnAnswer(e)
  PROVE  Solo'
<1>1. /\ Running(e) /\ Active(e) /\ exec[e].pc # "checked" /\ unsaved[e] = <<>>
      /\ UNCHANGED <<saved, unsaved, effects, crashed>>
  BY DEF ReturnAnswer, Running, Active
<1>2. saved = exec[e].state /\ saved # None
  BY <1>1 DEF Solo, Follows, Latest, Aligned, Frames, NoneIsNothing
<1>3. saved.next = "end"
  BY <1>2 DEF ReturnAnswer
<1>4. Goes(e, "returned") /\ answers' = answers \cup {saved.answer} /\ Ended(saved)
  BY <1>2, <1>3 DEF ReturnAnswer, Ended
<1> QED
  BY <1>1, <1>4, Going

\* The invariant does not look at the tokens.
LEMMA StutterRuntime ==
  ASSUME Solo, UNCHANGED <<saved, exec, unsaved, effects, answers, crashed>>
  PROVE  Solo'
BY DEF Solo, Aligned, OneDrives, Flushed, Checked, Follows, EndIsLast, Remembers, Agrees, Active,
   Running, Latest, Ended

\* Only a call of run or resume begins an overlap.
LEMMA OverlapKnown ==
  ASSUME RuntimeInv, [RuntimeNext]_runtimeVars
  PROVE  overlap' \in BOOLEAN /\ (~overlap' => Solo)
<1>1. CASE overlap' = overlap
  BY <1>1 DEF RuntimeInv
<1>2. ASSUME NEW e \in Executions, NEW kind \in {"run", "resume"}, Load(e, kind)
      PROVE  overlap' \in BOOLEAN /\ (~overlap' => Solo)
  BY <1>2 DEF Load, RuntimeInv
<1>3. overlap' = overlap \/ \E e \in Executions, kind \in {"run", "resume"} : Load(e, kind)
  BY DEF RuntimeNext, runtimeVars, Begin, Cancel, SaveCheckpoint, Normalize, DecideTool,
     DecideFinal, DecideTransient, ToolReturns, ToolTransient, Breaks, Observe, Finish,
     StepLimit, ReturnAnswer, Raise, ProcessDies, Others, History
<1> QED
  BY <1>1, <1>2, <1>3

\* Every step keeps the invariant: one case per kind of action.
LEMMA StepRuntime ==
  ASSUME NoneIsNothing, RuntimeInv, [RuntimeNext]_runtimeVars
  PROVE  RuntimeInv'
<1>1. SUFFICES ASSUME ~overlap', Solo PROVE Solo'
  BY OverlapKnown DEF RuntimeInv
<1>2. CASE UNCHANGED runtimeVars
  BY <1>1, <1>2, StutterRuntime DEF runtimeVars
<1>3. ASSUME NEW e \in Executions, NEW kind \in {"run", "resume"}, Load(e, kind) PROVE Solo'
  BY <1>1, <1>3, Loading
<1>4. ASSUME NEW e \in Executions, Begin(e) PROVE Solo'
  BY <1>1, <1>4, Beginning
<1>5. ASSUME NEW e \in Executions, Cancel(e) PROVE Solo'
  BY <1>1, <1>5, StutterRuntime DEF Cancel, History
<1>6. ASSUME NEW e \in Executions, SaveCheckpoint(e) PROVE Solo'
  BY <1>1, <1>6, Saving
<1>7. ASSUME NEW e \in Executions,
             \/ Normalize(e) \/ (\E t \in Names : DecideTool(e, t))
             \/ (\E a \in Answers : DecideFinal(e, a)) \/ ToolReturns(e) \/ Observe(e) \/ Finish(e)
      PROVE  Solo'
  <2>1. CASE \E t \in Names : DecideTool(e, t)
    BY <1>1, <2>1, NodeSteps
  <2>2. CASE \E a \in Answers : DecideFinal(e, a)
    BY <1>1, <2>2, NodeSteps
  <2>3. CASE Normalize(e) \/ ToolReturns(e) \/ Observe(e) \/ Finish(e)
    BY <1>1, <2>3, NodeSteps
  <2> QED
    BY <1>7, <2>1, <2>2, <2>3
<1>8. ASSUME NEW e \in Executions,
             DecideTransient(e) \/ ToolTransient(e) \/ Breaks(e) \/ StepLimit(e)
      PROVE  Solo'
  BY <1>1, <1>8, FailingSteps
<1>9. ASSUME NEW e \in Executions, ReturnAnswer(e) PROVE Solo'
  BY <1>1, <1>9, Returning
<1>10. ASSUME NEW e \in Executions, Raise(e) PROVE Solo'
  <2>1. /\ Active(e) /\ exec[e].pc # "checked" /\ unsaved[e] = <<>> /\ Goes(e, "raised")
        /\ UNCHANGED <<saved, unsaved, effects, crashed>> /\ answers' = answers
    BY <1>10 DEF Raise, Active, History
  <2> QED
    BY <1>1, <2>1, Going
<1>11. CASE ProcessDies
  BY <1>1, <1>11, Crashing
<1>12. CASE RuntimeNext
  <2>1. CASE \E e \in Executions : \E kind \in {"run", "resume"} : Load(e, kind)
    BY <1>3, <2>1
  <2>2. CASE \E e \in Executions :
                Begin(e) \/ Cancel(e) \/ SaveCheckpoint(e) \/ ReturnAnswer(e) \/ Raise(e)
    BY <1>4, <1>5, <1>6, <1>9, <1>10, <2>2
  <2>3. CASE \E e \in Executions :
               \/ Normalize(e) \/ (\E t \in Names : DecideTool(e, t))
               \/ (\E a \in Answers : DecideFinal(e, a)) \/ ToolReturns(e) \/ Observe(e)
               \/ Finish(e)
    BY <1>7, <2>3
  <2>4. CASE \E e \in Executions :
               DecideTransient(e) \/ ToolTransient(e) \/ Breaks(e) \/ StepLimit(e)
    BY <1>8, <2>4
  <2> QED
    BY <1>11, <1>12, <2>1, <2>2, <2>3, <2>4 DEF RuntimeNext
<1> QED
  BY <1>2, <1>12

-----------------------------------------------------------------------------
\* An execution that drives its thread alone keeps the checkpoint, what it has still to
\* write and its own state in step (AgentRuntime._execute).
THEOREM RuntimeInvariant == ASSUME NoneIsNothing PROVE RuntimeSpec => []RuntimeInv
<1>1. RuntimeInit => RuntimeInv
  BY InitRuntime
<1>2. RuntimeInv /\ [RuntimeNext]_runtimeVars => RuntimeInv'
  BY StepRuntime
<1> QED
  BY <1>1, <1>2, PTL DEF RuntimeSpec

\* Whatever a tool may have done, the checkpoint knows of it when nothing runs any more
\* (AgentRuntime._execute, MinimalAgentNodes.execute_tool).
THEOREM ResumeKnowsEffects == ASSUME NoneIsNothing PROVE RuntimeSpec => []EffectsAreRemembered
<1>1. RuntimeInv => EffectsAreRemembered
  <2>1. SUFFICES ASSUME RuntimeInv, ~crashed, ~overlap, \A e \in Executions : ~Active(e),
                        NEW c \in effects
                 PROVE  saved # None /\ c \in saved.results \cup {saved.call}
    BY DEF EffectsAreRemembered
  <2>2. c \in Recalled(saved)
    BY <2>1 DEF RuntimeInv, Solo, Remembers
  <2> QED
    BY <2>2 DEF Recalled
<1> QED
  BY <1>1, RuntimeInvariant, PTL

\* Every caller of a thread gets the same answer (AgentRuntime.run, resume).
THEOREM OneAnswer == ASSUME NoneIsNothing PROVE RuntimeSpec => []AnswersAgree
<1>1. RuntimeInv => AnswersAgree
  <2>1. SUFFICES ASSUME RuntimeInv, ~overlap PROVE Cardinality(answers) <= 1
    BY DEF AnswersAgree
  <2>2. answers = {} \/ answers = {saved.answer}
    BY <2>1 DEF RuntimeInv, Solo, Agrees
  <2>3. Cardinality({}) = 0 /\ Cardinality({saved.answer}) = 1
    BY FS_EmptySet, FS_Singleton
  <2> QED
    BY <2>2, <2>3
<1> QED
  BY <1>1, RuntimeInvariant, PTL

-----------------------------------------------------------------------------
(* The shape of a thread that any number of executions drive at once.        *)

\* A state whose calls were chosen within the steps the executions have together.
Sound == {s \in Good : /\ s.results \subseteq Calls /\ s.call \in Calls \cup {None}
                       /\ s.next \in {"finish", "end"} => s.answer \in Answers}

Reach  == MaxGraphSteps + 2
Framed == [pc : {"idle", "checked", "running", "ending", "refused", "returned", "raised",
                 "lost"},
           kind : {"run", "resume"}, state : Sound, steps : 0 .. Reach,
           attempt : 1 .. OperationAttempts]

\* Executions that may have stepped, and the steps so many can have made.
Begun      == {e \in Executions : exec[e].pc \notin {"idle", "checked"}}
StepsOf(S) == Cardinality(S) * Reach

RuntimeTypes ==
    /\ exec \in [Executions -> Framed] /\ unsaved \in [Executions -> Seq(Sound)]
    /\ saved \in Sound \cup {None}
    /\ cancelled \subseteq Executions /\ effects \subseteq Calls /\ answers \subseteq Answers

\* A state has made no more steps than the executions it came through.
StepsCounted ==
    /\ \A e \in Executions : exec[e].state.steps <= StepsOf(Begun \ {e}) + exec[e].steps
    /\ \A e \in Executions : \A i \in 1 .. Len(unsaved[e]) :
           unsaved[e][i].steps <= StepsOf(Begun)
    /\ saved # None => saved.steps <= StepsOf(Begun)

\* A graph that runs has a checkpoint, or one to write.
CheckpointThere ==
    \A e \in Executions :
        /\ exec[e].pc = "checked" /\ exec[e].kind = "resume" => saved # None
        /\ Running(e) => saved # None \/ unsaved[e] # <<>>

RuntimeShape == RuntimeTypes /\ StepsCounted /\ CheckpointThere

\* The limits and the executions are finitely many, and None is something else.
FiniteRuntime ==
    /\ NoneIsNothing /\ IsFiniteSet(Executions)
    /\ MaxGraphSteps \in Nat /\ OperationAttempts \in Nat \ {0}

\* More executions have more steps, and each of them as many as one may make.
LEMMA StepsGrow ==
  ASSUME FiniteRuntime, NEW T \in SUBSET Executions, NEW S \in SUBSET T
  PROVE  /\ StepsOf(S) \in Nat /\ StepsOf(T) \in Nat /\ StepsOf(S) <= StepsOf(T)
         /\ \A e \in T : StepsOf(T) = StepsOf(T \ {e}) + Reach
         /\ Reach \in Nat
<1>1. IsFiniteSet(T) /\ Reach \in Nat
  BY FS_Subset DEF FiniteRuntime, Reach
<1>2. IsFiniteSet(S) /\ Cardinality(S) \in Nat /\ Cardinality(T) \in Nat
      /\ Cardinality(S) <= Cardinality(T)
  BY <1>1, FS_Subset, FS_CardinalityType
<1>3. \A m, n, r \in Nat : m <= n => m * r <= n * r /\ m * r \in Nat
  <2>1. SUFFICES ASSUME NEW m \in Nat, NEW n \in Nat, NEW r \in Nat, m <= n
                 PROVE  m * r <= n * r /\ m * r \in Nat
    OBVIOUS
  <2>2. n - m \in Nat /\ n = m + (n - m)
    BY <2>1
  <2>3. \A k \in Nat : k * r \in Nat /\ (m + k) * r = m * r + k * r
    OBVIOUS
  <2> QED
    BY <2>2, <2>3
<1>4. ASSUME NEW e \in T PROVE StepsOf(T) = StepsOf(T \ {e}) + Reach
  <2>1. Cardinality(T \ {e}) = Cardinality(T) - 1 /\ Cardinality(T \ {e}) \in Nat
    BY <1>1, <1>2, FS_RemoveElement, FS_CardinalityType
  <2>2. \A m, r \in Nat : (m + 1) * r = m * r + r
    OBVIOUS
  <2>3. Cardinality(T) = Cardinality(T \ {e}) + 1
    BY <2>1, <1>2
  <2> QED
    BY <1>1, <2>1, <2>2, <2>3 DEF StepsOf
<1> QED
  BY <1>1, <1>2, <1>3, <1>4 DEF StepsOf

\* The nodes keep a state sound, and make one step of it at most.
LEMMA NodesAreSound ==
  ASSUME FiniteRuntime, NEW s \in Sound
  PROVE  /\ s.steps \in Nat
         /\ s.next = "normalize_input" => [s EXCEPT !.next = "decide"] \in Sound
         /\ s.next = "decide" =>
              /\ s.steps <= Cardinality(Executions) * Reach =>
                   \A t \in Names :
                      [s EXCEPT !.next = "execute_tool", !.steps = @ + 1,
                                !.call = <<s.steps, t>>] \in Sound
              /\ \A a \in Answers :
                   [s EXCEPT !.next = "finish", !.steps = @ + 1, !.call = None,
                             !.answer = a] \in Sound
         /\ s.next = "execute_tool" => ToolResult(s) \in Sound /\ s.call \in Calls
         /\ s.next = "observe" =>
              [s EXCEPT !.next = "decide", !.steps = @ + 1, !.call = None] \in Sound
         /\ s.next = "finish" => [s EXCEPT !.next = "end", !.steps = @ + 1] \in Sound
<1>1. /\ s \in Good /\ s \in Shapes /\ s.steps \in Nat /\ s.results \subseteq Calls
      /\ s.call \in Calls \cup {None}
      /\ s.next \in {"finish", "end"} => s.answer \in Answers
  BY DEF Sound, Good, Shapes
<1>2. NoneIsNothing
  BY DEF FiniteRuntime
<1>3. s.next = "normalize_input" => [s EXCEPT !.next = "decide"] \in Sound
  BY <1>1, <1>2, NodesAreGood DEF Sound, Shapes
<1>4. ASSUME s.next = "decide", s.steps <= Cardinality(Executions) * Reach, NEW t \in Names
      PROVE  [s EXCEPT !.next = "execute_tool", !.steps = @ + 1, !.call = <<s.steps, t>>]
                \in Sound
  <2>1. Cardinality(Executions) * Reach \in Nat
    BY StepsGrow DEF StepsOf
  <2>2. <<s.steps, t>> \in Calls
    BY <1>1, <1>4, <2>1 DEF Calls, Reach
  <2> QED
    BY <1>1, <1>2, <1>4, <2>2, NodesAreGood DEF Sound, Shapes
<1>5. ASSUME s.next = "decide", NEW a \in Answers
      PROVE  [s EXCEPT !.next = "finish", !.steps = @ + 1, !.call = None, !.answer = a] \in Sound
  BY <1>1, <1>2, <1>5, NodesAreGood DEF Sound, Shapes
<1>6. ASSUME s.next = "execute_tool" PROVE ToolResult(s) \in Sound /\ s.call \in Calls
  <2>1. s.call \in Calls
    BY <1>1, <1>6 DEF Good
  <2>2. ToolResult(s) \in Good
    BY <1>1, <1>2, <1>6, NodesAreGood
  <2>3. /\ ToolResult(s).next = "observe" /\ ToolResult(s).call = s.call
        /\ ToolResult(s).results = s.results \cup {s.call}
    BY <1>1 DEF Shapes, ToolResult, Results
  <2> QED
    BY <1>1, <2>1, <2>2, <2>3 DEF Sound
<1>7. s.next = "observe" =>
        [s EXCEPT !.next = "decide", !.steps = @ + 1, !.call = None] \in Sound
  BY <1>1, <1>2, NodesAreGood DEF Sound, Shapes
<1>8. s.next = "finish" => [s EXCEPT !.next = "end", !.steps = @ + 1] \in Sound
  BY <1>1, <1>2, NodesAreGood DEF Sound, Shapes
<1> QED
  BY <1>1, <1>3, <1>4, <1>5, <1>6, <1>7, <1>8
-----------------------------------------------------------------------------
\* No execution has begun.
LEMMA ShapeStarts ==
  ASSUME FiniteRuntime, RuntimeInit
  PROVE  RuntimeShape
<1>1. Initial \in Sound /\ Initial.steps = 0 /\ NotBegun \in Framed /\ NotBegun.pc = "idle"
      /\ NotBegun.steps = 0 /\ NotBegun.state = Initial
  <2>1. Initial \in Good /\ Initial.steps = 0 /\ Initial.results = {} /\ Initial.call = None
        /\ Initial.next = "normalize_input"
    BY InitialIsGood DEF Initial
  <2>2. Initial \in Sound
    BY <2>1 DEF Sound
  <2>3. 0 \in 0 .. Reach /\ 1 \in 1 .. OperationAttempts
    BY DEF FiniteRuntime, Reach
  <2> QED
    BY <2>1, <2>2, <2>3 DEF NotBegun, Framed
<1>2. StepsOf(Begun) \in Nat /\ \A e \in Executions : StepsOf(Begun \ {e}) \in Nat
  BY StepsGrow DEF Begun
<1>3. <<>> \in Seq(Sound) /\ Len(<<>>) = 0
  OBVIOUS
<1>4. RuntimeTypes
  BY <1>1, <1>3 DEF RuntimeInit, RuntimeTypes
<1>5. StepsCounted
  BY <1>1, <1>2, <1>3 DEF RuntimeInit, StepsCounted
<1>6. CheckpointThere
  BY <1>1 DEF RuntimeInit, CheckpointThere, Running
<1> QED
  BY <1>4, <1>5, <1>6 DEF RuntimeShape

\* A step of one execution, by what it leaves of its frame and of its checkpoints.
LEMMA ShapeMoves ==
  ASSUME FiniteRuntime, RuntimeShape, NEW e \in Executions, NEW f \in Framed,
         NEW u \in Seq(Sound),
         exec' = [exec EXCEPT ![e] = f], unsaved' = [unsaved EXCEPT ![e] = u],
         f.pc \in {"idle", "checked"} => exec[e].pc \in {"idle", "checked"},
         f.state.steps <= StepsOf(Begun \ {e}) + f.steps,
         \A i \in 1 .. Len(u) : u[i].steps <= StepsOf(Begun'),
         saved' \in Sound \cup {None},
         saved # None => saved' # None,
         saved' # None => saved'.steps <= StepsOf(Begun'),
         f.pc = "checked" /\ f.kind = "resume" => saved' # None,
         f.pc = "running" => saved' # None \/ u # <<>>,
         cancelled' \subseteq Executions, effects' \subseteq Calls, answers' \subseteq Answers
  PROVE  RuntimeShape'
<1>1. exec \in [Executions -> Framed] /\ unsaved \in [Executions -> Seq(Sound)]
  BY DEF RuntimeShape, RuntimeTypes
<1>2. /\ exec'[e] = f /\ unsaved'[e] = u
      /\ \A g \in Executions \ {e} : exec'[g] = exec[g] /\ unsaved'[g] = unsaved[g]
  BY <1>1
<1>3. RuntimeTypes'
  BY <1>1 DEF RuntimeTypes
<1>4. Begun \subseteq Begun' /\ Begun' \subseteq Executions /\ Begun \ {e} = Begun' \ {e}
  BY <1>2 DEF Begun
<1>5. StepsOf(Begun) \in Nat /\ StepsOf(Begun') \in Nat /\ StepsOf(Begun) <= StepsOf(Begun')
  BY <1>4, StepsGrow
<1>6. \A g \in Executions : /\ StepsOf(Begun \ {g}) \in Nat /\ StepsOf(Begun' \ {g}) \in Nat
                            /\ StepsOf(Begun \ {g}) <= StepsOf(Begun' \ {g})
  <2>1. \A g \in Executions : /\ Begun \ {g} \subseteq Begun' \ {g}
                              /\ Begun' \ {g} \subseteq Executions
    BY <1>4
  <2> QED
    BY <2>1, StepsGrow
<1>7. \A g \in Executions : exec[g].state.steps \in Nat /\ exec[g].steps \in Nat
  BY <1>1 DEF Framed, Sound, Good, Shapes
<1>8. \A g \in Executions : \A i \in 1 .. Len(unsaved[g]) : unsaved[g][i].steps \in Nat
  <2>1. \A g \in Executions : \A i \in 1 .. Len(unsaved[g]) : unsaved[g][i] \in Sound
    BY <1>1
  <2> QED
    BY <2>1 DEF Sound, Good, Shapes
<1>9. StepsCounted'
  <2>1. ASSUME NEW g \in Executions
        PROVE  exec'[g].state.steps <= StepsOf(Begun' \ {g}) + exec'[g].steps
    <3>1. CASE g = e
      BY <3>1, <1>2, <1>4
    <3>2. CASE g # e
      <4>1. exec[g].state.steps <= StepsOf(Begun \ {g}) + exec[g].steps
        BY DEF RuntimeShape, StepsCounted
      <4>2. \A k, m, n, o \in Nat : k <= m + o /\ m <= n => k <= n + o
        OBVIOUS
      <4>3. exec[g].state.steps <= StepsOf(Begun' \ {g}) + exec[g].steps
        BY <4>1, <4>2, <1>6, <1>7
      <4> QED
        BY <3>2, <4>3, <1>2
    <3> QED
      BY <3>1, <3>2
  <2>2. ASSUME NEW g \in Executions, NEW i \in 1 .. Len(unsaved'[g])
        PROVE  unsaved'[g][i].steps <= StepsOf(Begun')
    <3>1. CASE g = e
      BY <3>1, <1>2
    <3>2. CASE g # e
      <4>1. i \in 1 .. Len(unsaved[g]) /\ unsaved'[g] = unsaved[g]
        BY <3>2, <1>2
      <4>2. unsaved[g][i].steps <= StepsOf(Begun)
        BY <4>1 DEF RuntimeShape, StepsCounted
      <4> QED
        BY <4>1, <4>2, <1>5, <1>8
    <3> QED
      BY <3>1, <3>2
  <2> QED
    BY <2>1, <2>2 DEF StepsCounted
<1>10. CheckpointThere'
  BY <1>2 DEF RuntimeShape, CheckpointThere, Running
<1> QED
  BY <1>3, <1>9, <1>10 DEF RuntimeShape

\* What the shape says of one execution.
ShapeSays(e) ==
    /\ exec[e] \in Framed /\ exec[e].state \in Sound /\ unsaved[e] \in Seq(Sound)
    /\ exec[e].state.steps \in Nat /\ exec[e].steps \in 0 .. Reach
    /\ exec[e].attempt \in 1 .. OperationAttempts
    /\ exec[e].state.steps <= StepsOf(Begun \ {e}) + exec[e].steps
    /\ \A i \in 1 .. Len(unsaved[e]) : /\ unsaved[e][i].steps \in Nat
                                       /\ unsaved[e][i].steps <= StepsOf(Begun)
    /\ None \notin Sound /\ (saved # None => saved \in Sound /\ saved.steps \in Nat)
    /\ StepsOf(Begun) \in Nat /\ StepsOf(Begun \ {e}) \in Nat
    /\ StepsOf(Begun \ {e}) <= StepsOf(Begun) /\ Reach \in Nat
    /\ e \in Begun => StepsOf(Begun) = StepsOf(Begun \ {e}) + Reach

LEMMA ShapeOf ==
  ASSUME FiniteRuntime, RuntimeShape, NEW e \in Executions
  PROVE  ShapeSays(e)
<1>1. exec \in [Executions -> Framed] /\ unsaved \in [Executions -> Seq(Sound)]
      /\ saved \in Sound \cup {None}
  BY DEF RuntimeShape, RuntimeTypes
<1>2. \A s \in Sound : s.steps \in Nat
  BY DEF Sound, Good, Shapes
<1>3. exec[e] \in Framed /\ exec[e].state \in Sound /\ exec[e].steps \in 0 .. Reach
      /\ exec[e].attempt \in 1 .. OperationAttempts
  BY <1>1 DEF Framed
<1>4. \A i \in 1 .. Len(unsaved[e]) : unsaved[e][i] \in Sound
  BY <1>1
<1>5. None \notin Sound
  BY DEF FiniteRuntime, NoneIsNothing, Sound
<1>6. Begun \in SUBSET Executions /\ Begun \ {e} \in SUBSET Begun
  BY DEF Begun
<1>7. /\ StepsOf(Begun) \in Nat /\ StepsOf(Begun \ {e}) \in Nat
      /\ StepsOf(Begun \ {e}) <= StepsOf(Begun) /\ Reach \in Nat
      /\ e \in Begun => StepsOf(Begun) = StepsOf(Begun \ {e}) + Reach
  BY <1>6, StepsGrow
<1> QED
  BY <1>1, <1>2, <1>3, <1>4, <1>5, <1>7 DEF RuntimeShape, StepsCounted, ShapeSays

\* A node that returned: one step more, of the state and of the execution.
LEMMA ShapeCompletes ==
  ASSUME FiniteRuntime, RuntimeShape, NEW e \in Executions, MayStep(e), NEW s \in Sound,
         Completes(e, s), s.steps <= exec[e].state.steps + 1,
         UNCHANGED Others, effects' \subseteq Calls
  PROVE  RuntimeShape'
<1> DEFINE f == [exec[e] EXCEPT !.state = s, !.steps = exec[e].steps + 1, !.attempt = 1]
<1>0. ShapeSays(e)
  BY ShapeOf
<1>1. /\ exec \in [Executions -> Framed] /\ unsaved \in [Executions -> Seq(Sound)]
      /\ saved \in Sound \cup {None} /\ cancelled \subseteq Executions /\ answers \subseteq Answers
      /\ saved # None => saved.steps <= StepsOf(Begun)
  BY DEF RuntimeShape, RuntimeTypes, StepsCounted
<1>2. exec[e].pc = "running" /\ exec[e].steps < Reach
  BY DEF MayStep, Running, Reach
<1>3. exec[e].steps + 1 \in 0 .. Reach /\ 1 \in 1 .. OperationAttempts /\ s.steps \in Nat
  BY <1>2, <1>0 DEF FiniteRuntime, Sound, Good, Shapes, ShapeSays
<1>4. f \in Framed /\ f.pc = "running" /\ f.state = s /\ f.steps = exec[e].steps + 1
  <2>1. exec[e] \in Framed
    BY <1>0 DEF ShapeSays
  <2>2. \A n \in 0 .. Reach, a \in 1 .. OperationAttempts :
           LET r == [exec[e] EXCEPT !.state = s, !.steps = n, !.attempt = a]
           IN  r \in Framed /\ r.pc = exec[e].pc /\ r.state = s /\ r.steps = n
    BY <2>1 DEF Framed
  <2> QED
    BY <1>2, <1>3, <2>2
<1>5. exec' = [exec EXCEPT ![e] = f] /\ unsaved' = [unsaved EXCEPT ![e] = Append(unsaved[e], s)]
  BY <1>1 DEF Completes
<1>6. /\ Append(unsaved[e], s) \in Seq(Sound) /\ Append(unsaved[e], s) # <<>>
      /\ Len(unsaved[e]) \in Nat /\ Len(Append(unsaved[e], s)) = Len(unsaved[e]) + 1
      /\ Append(unsaved[e], s)[Len(unsaved[e]) + 1] = s
      /\ \A i \in 1 .. Len(unsaved[e]) : Append(unsaved[e], s)[i] = unsaved[e][i]
  BY <1>0, AppendProperties, LenProperties DEF ShapeSays
<1>7. exec'[e] = f /\ \A g \in Executions \ {e} : exec'[g] = exec[g]
  BY <1>1, <1>5
<1>8. Begun' = Begun /\ e \in Begun
  BY <1>2, <1>4, <1>7 DEF Begun
<1>9. s.steps <= StepsOf(Begun \ {e}) + f.steps /\ s.steps <= StepsOf(Begun)
  <2>1. exec[e].steps \in Nat /\ Reach \in Nat /\ exec[e].state.steps \in Nat
        /\ StepsOf(Begun \ {e}) \in Nat /\ s.steps \in Nat
    BY <1>3, <1>0 DEF ShapeSays
  <2>2. StepsOf(Begun) = StepsOf(Begun \ {e}) + Reach
        /\ exec[e].state.steps <= StepsOf(Begun \ {e}) + exec[e].steps
    BY <1>8, <1>0 DEF ShapeSays
  <2>3. \A n, o, m, k \in Nat : k <= m + 1 /\ m <= n + o => k <= n + (o + 1)
    OBVIOUS
  <2>4. s.steps <= StepsOf(Begun \ {e}) + (exec[e].steps + 1)
    BY <2>1, <2>2, <2>3, Zenon
  <2>5. \A n, o, r, k \in Nat : k <= n + (o + 1) /\ o < r => k <= n + r
    OBVIOUS
  <2>6. s.steps <= StepsOf(Begun)
    BY <1>2, <2>1, <2>2, <2>4, <2>5, Zenon
  <2> QED
    BY <1>4, <2>4, <2>6, Zenon
<1>10. \A i \in 1 .. Len(Append(unsaved[e], s)) :
          Append(unsaved[e], s)[i].steps <= StepsOf(Begun')
  <2>1. ASSUME NEW i \in 1 .. Len(Append(unsaved[e], s))
        PROVE  Append(unsaved[e], s)[i].steps <= StepsOf(Begun)
    <3>1. CASE i = Len(unsaved[e]) + 1
      BY <3>1, <1>6, <1>9
    <3>2. CASE i \in 1 .. Len(unsaved[e])
      BY <3>2, <1>6, <1>0 DEF ShapeSays
    <3> QED
      BY <3>1, <3>2, <1>6
  <2> QED
    BY <1>8, <2>1
<1>11. saved' = saved /\ cancelled' = cancelled /\ answers' = answers
  BY DEF Others
<1> HIDE DEF f
<1> QED
  BY <1>1, <1>4, <1>5, <1>6, <1>8, <1>9, <1>10, <1>11, ShapeMoves

\* A step inside a node, or out of the graph.
LEMMA ShapeStays ==
  ASSUME FiniteRuntime, RuntimeShape, NEW e \in Executions, Running(e), NEW f \in Framed,
         f.pc \in {"running", "ending"}, f.state = exec[e].state, f.steps = exec[e].steps,
         exec' = [exec EXCEPT ![e] = f], UNCHANGED <<saved, unsaved, cancelled, answers>>,
         effects' \subseteq Calls
  PROVE  RuntimeShape'
<1>0. ShapeSays(e)
  BY ShapeOf
<1>1. /\ exec \in [Executions -> Framed] /\ unsaved \in [Executions -> Seq(Sound)]
      /\ saved \in Sound \cup {None} /\ cancelled \subseteq Executions /\ answers \subseteq Answers
      /\ saved # None => saved.steps <= StepsOf(Begun)
  BY DEF RuntimeShape, RuntimeTypes, StepsCounted
<1>2. unsaved' = [unsaved EXCEPT ![e] = unsaved[e]]
  BY <1>1
<1>3. exec'[e] = f /\ \A g \in Executions \ {e} : exec'[g] = exec[g]
  BY <1>1
<1>4. Begun' = Begun
  BY <1>3 DEF Begun, Running
<1>5. f.pc = "running" => saved # None \/ unsaved[e] # <<>>
  BY DEF RuntimeShape, CheckpointThere
<1> QED
  BY <1>1, <1>2, <1>4, <1>5, <1>0, ShapeMoves DEF ShapeSays

\* A step out of the graph by an execution that leaves nothing behind in memory.
LEMMA ShapeGoes ==
  ASSUME FiniteRuntime, RuntimeShape, NEW e \in Executions,
         NEW to \in {"refused", "returned", "raised", "lost"}, Goes(e, to),
         UNCHANGED <<saved, unsaved, cancelled, effects>>, answers' \subseteq Answers
  PROVE  RuntimeShape'
<1>0. ShapeSays(e)
  BY ShapeOf
<1>1. /\ exec \in [Executions -> Framed] /\ unsaved \in [Executions -> Seq(Sound)]
      /\ saved \in Sound \cup {None} /\ cancelled \subseteq Executions /\ effects \subseteq Calls
      /\ saved # None => saved.steps <= StepsOf(Begun)
  BY DEF RuntimeShape, RuntimeTypes, StepsCounted
<1>2. Gone(to) \in Framed /\ Gone(to).pc = to /\ Gone(to).steps = 0 /\ Gone(to).state.steps = 0
  <2>1. Initial \in Good /\ Initial.steps = 0 /\ Initial.results = {} /\ Initial.call = None
        /\ Initial.next = "normalize_input"
    BY InitialIsGood DEF Initial, FiniteRuntime
  <2>2. Initial \in Sound
    BY <2>1 DEF Sound
  <2>3. 0 \in 0 .. Reach /\ 1 \in 1 .. OperationAttempts
    BY DEF FiniteRuntime, Reach
  <2> QED
    BY <2>1, <2>2, <2>3 DEF NotBegun, Framed, Gone
<1>3. exec' = [exec EXCEPT ![e] = Gone(to)] /\ unsaved' = [unsaved EXCEPT ![e] = unsaved[e]]
  BY <1>1 DEF Goes
<1>4. exec'[e] = Gone(to) /\ \A g \in Executions \ {e} : exec'[g] = exec[g]
  BY <1>1, <1>3
<1>5. Begun \subseteq Begun' /\ Begun' \in SUBSET Executions
  BY <1>2, <1>4 DEF Begun
<1>6. StepsOf(Begun) <= StepsOf(Begun') /\ StepsOf(Begun) \in Nat /\ StepsOf(Begun') \in Nat
  BY <1>5, StepsGrow
<1>7. saved # None => saved.steps <= StepsOf(Begun')
  BY <1>1, <1>6, <1>0 DEF ShapeSays
<1>8. \A i \in 1 .. Len(unsaved[e]) : unsaved[e][i].steps <= StepsOf(Begun')
  BY <1>6, <1>0 DEF ShapeSays
<1>9. Gone(to).state.steps <= StepsOf(Begun \ {e}) + Gone(to).steps
  BY <1>2, <1>0 DEF ShapeSays
<1> QED
  BY <1>1, <1>2, <1>3, <1>7, <1>8, <1>9, <1>0, ShapeMoves DEF ShapeSays

\* The nodes of the graph and what stops one keep the shape.
LEMMA ShapeNodes ==
  ASSUME FiniteRuntime, RuntimeShape, NEW e \in Executions,
         \/ Normalize(e) \/ ToolReturns(e) \/ Observe(e) \/ Finish(e)
         \/ \E t \in Names : DecideTool(e, t)
         \/ \E a \in Answers : DecideFinal(e, a)
  PROVE  RuntimeShape'
<1> DEFINE s == exec[e].state
<1>0. ShapeSays(e)
  BY ShapeOf
<1>1. s \in Sound /\ effects \subseteq Calls /\ s.steps \in Nat /\ s.steps <= s.steps + 1
  BY <1>0 DEF ShapeSays, RuntimeShape, RuntimeTypes
<1>2. MayStep(e) => s.steps <= Cardinality(Executions) * Reach
  <2>1. SUFFICES ASSUME MayStep(e) PROVE s.steps <= StepsOf(Executions)
    BY DEF StepsOf
  <2>2. e \in Begun /\ Begun \in SUBSET Executions /\ Executions \in SUBSET Executions
    BY <2>1 DEF Begun, MayStep, Running
  <2>3. StepsOf(Begun) <= StepsOf(Executions) /\ StepsOf(Executions) \in Nat
    BY <2>2, StepsGrow
  <2>4. exec[e].steps < Reach
    BY <2>1 DEF MayStep, Reach
  <2> QED
    BY <1>1, <2>2, <2>3, <2>4, <1>0 DEF ShapeSays
<1> HIDE DEF s
<1>3. CASE Normalize(e)
  <2>1. MayStep(e) /\ Completes(e, [s EXCEPT !.next = "decide"]) /\ UNCHANGED Others
        /\ effects' = effects /\ s.next = "normalize_input"
    BY <1>3 DEF Normalize, At, s
  <2>2. [s EXCEPT !.next = "decide"] \in Sound /\ [s EXCEPT !.next = "decide"].steps = s.steps
    BY <1>1, <2>1, NodesAreSound DEF Sound, Good, Shapes
  <2> QED
    BY <1>1, <2>1, <2>2, ShapeCompletes DEF s
<1>4. CASE ToolReturns(e)
  <2>1. MayStep(e) /\ Completes(e, ToolResult(s)) /\ UNCHANGED Others
        /\ effects' = Acts(e) /\ s.next = "execute_tool"
    BY <1>4 DEF ToolReturns, Invokes, At, s
  <2>2. ToolResult(s) \in Sound /\ s.call \in Calls
    BY <1>1, <2>1, NodesAreSound
  <2>3. ToolResult(s).steps = s.steps + 1
    BY <1>1 DEF ToolResult, Sound, Good, Shapes
  <2>4. effects' \subseteq Calls
    BY <1>1, <2>1, <2>2 DEF Acts, s
  <2> QED
    BY <1>1, <2>1, <2>2, <2>3, <2>4, ShapeCompletes DEF s
<1>5. CASE Observe(e)
  <2> DEFINE n == [s EXCEPT !.next = "decide", !.steps = @ + 1, !.call = None]
  <2>1. MayStep(e) /\ Completes(e, n) /\ UNCHANGED Others /\ effects' = effects
        /\ s.next = "observe"
    BY <1>5 DEF Observe, At, s
  <2>2. n \in Sound
    BY <1>1, <2>1, NodesAreSound
  <2>3. n.steps = s.steps + 1
    BY <1>1 DEF Sound, Good, Shapes
  <2> HIDE DEF n
  <2> QED
    BY <1>1, <2>1, <2>2, <2>3, ShapeCompletes DEF s
<1>6. CASE Finish(e)
  <2> DEFINE n == [s EXCEPT !.next = "end", !.steps = @ + 1]
  <2>1. MayStep(e) /\ Completes(e, n) /\ UNCHANGED Others /\ effects' = effects
        /\ s.next = "finish"
    BY <1>6 DEF Finish, At, s
  <2>2. n \in Sound
    BY <1>1, <2>1, NodesAreSound
  <2>3. n.steps = s.steps + 1
    BY <1>1 DEF Sound, Good, Shapes
  <2> HIDE DEF n
  <2> QED
    BY <1>1, <2>1, <2>2, <2>3, ShapeCompletes DEF s
<1>7. ASSUME NEW t \in Names, DecideTool(e, t) PROVE RuntimeShape'
  <2> DEFINE n == [s EXCEPT !.next = "execute_tool", !.steps = @ + 1, !.call = <<s.steps, t>>]
  <2>1. MayStep(e) /\ Completes(e, n) /\ UNCHANGED Others /\ effects' = effects
        /\ s.next = "decide"
    BY <1>7 DEF DecideTool, At, s
  <2>2. n \in Sound
    BY <1>1, <1>2, <2>1, NodesAreSound
  <2>3. n.steps = s.steps + 1
    BY <1>1 DEF Sound, Good, Shapes
  <2> HIDE DEF n
  <2> QED
    BY <1>1, <2>1, <2>2, <2>3, ShapeCompletes DEF s
<1>8. ASSUME NEW a \in Answers, DecideFinal(e, a) PROVE RuntimeShape'
  <2> DEFINE n == [s EXCEPT !.next = "finish", !.steps = @ + 1, !.call = None, !.answer = a]
  <2>1. MayStep(e) /\ Completes(e, n) /\ UNCHANGED Others /\ effects' = effects
        /\ s.next = "decide"
    BY <1>8 DEF DecideFinal, At, s
  <2>2. n \in Sound
    BY <1>1, <2>1, NodesAreSound
  <2>3. n.steps = s.steps + 1
    BY <1>1 DEF Sound, Good, Shapes
  <2> HIDE DEF n
  <2> QED
    BY <1>1, <2>1, <2>2, <2>3, ShapeCompletes DEF s
<1> QED
  BY <1>3, <1>4, <1>5, <1>6, <1>7, <1>8

\* Failures, retries and the limit keep the shape.
LEMMA ShapeFails ==
  ASSUME FiniteRuntime, RuntimeShape, NEW e \in Executions,
         DecideTransient(e) \/ ToolTransient(e) \/ Breaks(e) \/ StepLimit(e)
  PROVE  RuntimeShape'
<1>0. ShapeSays(e)
  BY ShapeOf
<1>1. exec \in [Executions -> Framed] /\ effects \subseteq Calls
  BY DEF RuntimeShape, RuntimeTypes
<1>2. ASSUME Running(e), Ends(e), UNCHANGED <<saved, unsaved, cancelled, answers>>,
             effects' \subseteq Calls
      PROVE  RuntimeShape'
  <2> DEFINE f == [exec[e] EXCEPT !.pc = "ending"]
  <2>1. exec' = [exec EXCEPT ![e] = f]
    BY <1>1, <1>2 DEF Ends
  <2>2. f \in Framed /\ f.pc = "ending" /\ f.state = exec[e].state /\ f.steps = exec[e].steps
    BY <1>0 DEF ShapeSays, Framed
  <2> HIDE DEF f
  <2> QED
    BY <1>2, <2>1, <2>2, ShapeStays
<1>3. ASSUME Running(e), Retries(e), UNCHANGED <<saved, cancelled, answers>>,
             effects' \subseteq Calls
      PROVE  RuntimeShape'
  <2>1. CASE exec[e].attempt < OperationAttempts
    <3> DEFINE f == [exec[e] EXCEPT !.attempt = exec[e].attempt + 1]
    <3>1. exec' = [exec EXCEPT ![e] = f] /\ unsaved' = unsaved
      BY <1>1, <1>3, <2>1 DEF Retries
    <3>2. exec[e].attempt + 1 \in 1 .. OperationAttempts
      BY <2>1, <1>0 DEF ShapeSays, FiniteRuntime
    <3>3. \A a \in 1 .. OperationAttempts :
             LET r == [exec[e] EXCEPT !.attempt = a]
             IN  /\ r \in Framed /\ r.pc = exec[e].pc /\ r.state = exec[e].state
                 /\ r.steps = exec[e].steps
      BY <1>0 DEF ShapeSays, Framed
    <3>4. f \in Framed /\ f.pc = "running" /\ f.state = exec[e].state /\ f.steps = exec[e].steps
      BY <1>3, <3>2, <3>3 DEF Running
    <3> HIDE DEF f
    <3> QED
      BY <1>3, <3>1, <3>4, ShapeStays
  <2>2. CASE ~(exec[e].attempt < OperationAttempts)
    BY <1>2, <1>3, <2>2 DEF Retries
  <2> QED
    BY <2>1, <2>2
<1>4. ASSUME Invokes(e) PROVE Running(e) /\ Acts(e) \subseteq Calls
  <2>1. Running(e) /\ exec[e].state.next = "execute_tool" /\ exec[e].state \in Sound
    BY <1>4, <1>0 DEF Invokes, At, MayStep, ShapeSays
  <2>2. exec[e].state.call \in Calls
    BY <2>1, NodesAreSound
  <2> QED
    BY <1>1, <2>1, <2>2 DEF Acts
<1>5. CASE DecideTransient(e)
  BY <1>1, <1>3, <1>5 DEF DecideTransient, At, MayStep, Others
<1>6. CASE ToolTransient(e)
  BY <1>1, <1>3, <1>4, <1>6 DEF ToolTransient, Others
<1>7. CASE Breaks(e)
  BY <1>1, <1>2, <1>4, <1>7 DEF Breaks, Others
<1>8. CASE StepLimit(e)
  BY <1>1, <1>2, <1>8 DEF StepLimit, History
<1> QED
  BY <1>5, <1>6, <1>7, <1>8

\* The calls, the checkpointer and the answers keep the shape.
LEMMA ShapeCalls ==
  ASSUME FiniteRuntime, RuntimeShape, NEW e \in Executions,
         \/ \E kind \in {"run", "resume"} : Load(e, kind)
         \/ Begin(e) \/ Cancel(e) \/ SaveCheckpoint(e) \/ ReturnAnswer(e) \/ Raise(e)
  PROVE  RuntimeShape'
<1>0. ShapeSays(e)
  BY ShapeOf
<1>2. saved # None => saved.steps <= StepsOf(Begun)
  BY DEF RuntimeShape, StepsCounted
<1>3. /\ exec \in [Executions -> Framed] /\ unsaved \in [Executions -> Seq(Sound)]
      /\ saved \in Sound \cup {None} /\ effects \subseteq Calls /\ cancelled \subseteq Executions
      /\ answers \subseteq Answers
  BY DEF RuntimeShape, RuntimeTypes
<1>4. unsaved = [unsaved EXCEPT ![e] = unsaved[e]] /\ exec = [exec EXCEPT ![e] = exec[e]]
  BY <1>3
<1>5. ASSUME NEW kind \in {"run", "resume"}, Load(e, kind) PROVE RuntimeShape'
  <2> DEFINE here == IF kind = "run" THEN saved = None ELSE saved # None
             f == [exec[e] EXCEPT !.kind = kind, !.pc = "checked"]
  <2>1. /\ exec[e].pc = "idle" /\ UNCHANGED <<saved, unsaved, cancelled, effects, answers>>
        /\ here => exec' = [exec EXCEPT ![e] = f]
        /\ ~here => Goes(e, "refused")
    BY <1>3, <1>5 DEF Load, Goes
  <2>2. f \in Framed /\ f.pc = "checked" /\ f.kind = kind /\ f.state = exec[e].state
        /\ f.steps = exec[e].steps
    BY <1>0 DEF ShapeSays, Framed
  <2>3. CASE here
    <3>1. exec'[e] = f /\ \A g \in Executions \ {e} : exec'[g] = exec[g]
      BY <1>3, <2>1, <2>3
    <3>2. Begun' = Begun
      BY <2>1, <2>2, <3>1 DEF Begun
    <3>3. f.kind = "resume" => saved # None
      BY <2>2, <2>3
    <3>4. \A i \in 1 .. Len(unsaved[e]) : unsaved[e][i].steps <= StepsOf(Begun')
      BY <3>2, <1>0 DEF ShapeSays
    <3>5. unsaved[e] \in Seq(Sound) /\ f.state.steps <= StepsOf(Begun \ {e}) + f.steps
      BY <2>2, <1>0 DEF ShapeSays
    <3>6. exec' = [exec EXCEPT ![e] = f] /\ unsaved' = [unsaved EXCEPT ![e] = unsaved[e]]
      BY <1>4, <2>1, <2>3
    <3> HIDE DEF f, here
    <3> QED
      BY <1>2, <1>3, <2>1, <2>2, <3>2, <3>3, <3>4, <3>5, <3>6, ShapeMoves
  <2>4. CASE ~here
    BY <1>3, <2>1, <2>4, ShapeGoes
  <2> QED
    BY <2>3, <2>4
<1>6. CASE Begin(e)
  <2>1. exec[e].pc = "checked" /\ UNCHANGED <<saved, cancelled, effects, answers>>
    BY <1>6 DEF Begin, History
  <2>2. ASSUME e \in cancelled PROVE RuntimeShape'
    <3> DEFINE f == [exec[e] EXCEPT !.pc = "ending"]
    <3>1. exec' = [exec EXCEPT ![e] = f] /\ unsaved' = [unsaved EXCEPT ![e] = unsaved[e]]
      BY <1>3, <1>4, <1>6, <2>2 DEF Begin, Ends
    <3>2. f \in Framed /\ f.pc = "ending" /\ f.state = exec[e].state /\ f.steps = exec[e].steps
      BY <1>0 DEF ShapeSays, Framed
    <3>3. exec'[e] = f /\ \A g \in Executions \ {e} : exec'[g] = exec[g]
      BY <1>3, <3>1
    <3>4. Begun \subseteq Begun' /\ Begun' \in SUBSET Executions
      BY <2>1, <3>2, <3>3 DEF Begun
    <3>5. StepsOf(Begun) <= StepsOf(Begun') /\ StepsOf(Begun) \in Nat /\ StepsOf(Begun') \in Nat
      BY <3>4, StepsGrow
    <3>6. /\ \A i \in 1 .. Len(unsaved[e]) : unsaved[e][i].steps <= StepsOf(Begun')
          /\ saved # None => saved.steps <= StepsOf(Begun')
      BY <1>2, <3>5, <1>0 DEF ShapeSays
    <3>7. unsaved[e] \in Seq(Sound) /\ f.state.steps <= StepsOf(Begun \ {e}) + f.steps
      BY <3>2, <1>0 DEF ShapeSays
    <3> HIDE DEF f
    <3> QED
      BY <1>3, <2>1, <3>1, <3>2, <3>6, <3>7, ShapeMoves
  <2>3. ASSUME e \notin cancelled PROVE RuntimeShape'
    <3> DEFINE s == GraphInput(exec[e].kind)
               f == [exec[e] EXCEPT !.pc = "running", !.state = s]
               u == IF exec[e].kind = "run" THEN <<s>> ELSE <<>>
    <3>1. Initial \in Sound /\ Initial.steps = 0
      <4>1. Initial \in Good /\ Initial.steps = 0 /\ Initial.results = {} /\ Initial.call = None
            /\ Initial.next = "normalize_input"
        BY InitialIsGood DEF Initial, FiniteRuntime
      <4> QED
        BY <4>1 DEF Sound
    <3>2. exec[e].kind \in {"run", "resume"} /\ (exec[e].kind = "resume" => saved # None)
      <4>1. exec[e].kind \in {"run", "resume"}
        BY <1>0 DEF ShapeSays, Framed
      <4> QED
        BY <2>1, <4>1 DEF RuntimeShape, CheckpointThere
    <3>3. s \in Sound /\ s.steps \in Nat /\ s.steps <= StepsOf(Begun)
      BY <1>2, <3>1, <3>2, <1>0 DEF GraphInput, ShapeSays
    <3> HIDE DEF s
    <3>4. exec' = [exec EXCEPT ![e] = f] /\ unsaved' = [unsaved EXCEPT ![e] = u]
      BY <1>3, <1>6, <2>3 DEF Begin, s
    <3>5. f \in Framed /\ f.pc = "running" /\ f.state = s /\ f.steps = exec[e].steps
      BY <3>3, <1>0 DEF ShapeSays, Framed
    <3>6. exec'[e] = f /\ \A g \in Executions \ {e} : exec'[g] = exec[g]
      BY <1>3, <3>4
    <3>7. Begun \subseteq Begun' /\ Begun' \in SUBSET Executions /\ Begun \ {e} = Begun
      BY <2>1, <3>5, <3>6 DEF Begun
    <3>8. StepsOf(Begun) <= StepsOf(Begun') /\ StepsOf(Begun) \in Nat /\ StepsOf(Begun') \in Nat
      BY <3>7, StepsGrow
    <3>9. /\ saved # None => saved.steps <= StepsOf(Begun')
          /\ s.steps <= StepsOf(Begun')
      BY <1>2, <3>3, <3>8, <1>0 DEF ShapeSays
    <3>10. u \in Seq(Sound) /\ \A i \in 1 .. Len(u) : u[i].steps <= StepsOf(Begun')
      BY <3>3, <3>9
    <3>11. f.state.steps <= StepsOf(Begun \ {e}) + f.steps
      <4>1. exec[e].steps \in Nat
        BY <1>0 DEF ShapeSays
      <4> QED
        BY <4>1, <3>3, <3>5, <3>7, <3>8
    <3>12. saved # None \/ u # <<>>
      BY <3>2
    <3> HIDE DEF f, u
    <3> QED
      BY <1>3, <2>1, <3>4, <3>5, <3>9, <3>10, <3>11, <3>12, ShapeMoves
  <2> QED
    BY <2>2, <2>3
<1>7. ASSUME UNCHANGED <<exec, saved, unsaved, effects, answers>>, cancelled' \subseteq Executions
      PROVE  RuntimeShape'
  BY <1>3, <1>7
     DEF RuntimeShape, RuntimeTypes, StepsCounted, CheckpointThere, Running, Begun
<1>8. CASE Cancel(e)
  BY <1>3, <1>7, <1>8 DEF Cancel, History
<1>9. CASE SaveCheckpoint(e)
  <2>1. unsaved[e] # <<>> /\ saved' = Head(unsaved[e])
        /\ UNCHANGED <<exec, cancelled, effects, answers>>
        /\ unsaved' = [unsaved EXCEPT ![e] = Tail(unsaved[e])]
    BY <1>3, <1>9 DEF SaveCheckpoint, History
  <2>2. /\ Len(unsaved[e]) \in Nat /\ Len(unsaved[e]) >= 1 /\ Tail(unsaved[e]) \in Seq(Sound)
        /\ Len(Tail(unsaved[e])) = Len(unsaved[e]) - 1
        /\ Head(unsaved[e]) = unsaved[e][1] /\ Head(unsaved[e]) \in Sound
        /\ \A i \in 1 .. Len(Tail(unsaved[e])) : Tail(unsaved[e])[i] = unsaved[e][i + 1]
    <3>1. unsaved[e] \in Seq(Sound)
      BY <1>3
    <3>2. Len(unsaved[e]) \in Nat /\ Len(unsaved[e]) >= 1 /\ Tail(unsaved[e]) \in Seq(Sound)
          /\ Len(Tail(unsaved[e])) = Len(unsaved[e]) - 1
      BY <2>1, <3>1, EmptySeq, HeadTailProperties
    <3>3. Head(unsaved[e]) = unsaved[e][1] /\ Head(unsaved[e]) \in Sound
      BY <3>1, <3>2
    <3>4. \A i \in 1 .. Len(Tail(unsaved[e])) : Tail(unsaved[e])[i] = unsaved[e][i + 1]
      BY <3>1, <3>2
    <3> QED
      BY <3>2, <3>3, <3>4
  <2>3. Begun' = Begun
    BY <2>1 DEF Begun
  <2>4. saved' \in Sound /\ saved' # None /\ saved'.steps <= StepsOf(Begun')
    <3>1. 1 \in 1 .. Len(unsaved[e]) /\ saved' = unsaved[e][1] /\ saved' \in Sound
      BY <2>1, <2>2
    <3>2. None \notin Sound /\ unsaved[e][1].steps <= StepsOf(Begun)
      BY <3>1, <1>0 DEF ShapeSays
    <3> QED
      BY <2>3, <3>1, <3>2
  <2>5. \A i \in 1 .. Len(Tail(unsaved[e])) : Tail(unsaved[e])[i].steps <= StepsOf(Begun')
    BY <2>2, <2>3, <1>0 DEF ShapeSays
  <2>6. exec' = [exec EXCEPT ![e] = exec[e]] /\ exec[e] \in Framed
        /\ exec[e].state.steps <= StepsOf(Begun \ {e}) + exec[e].steps
    BY <1>4, <2>1, <1>0 DEF ShapeSays
  <2> QED
    BY <1>3, <2>1, <2>2, <2>4, <2>5, <2>6, ShapeMoves
<1>10. CASE ReturnAnswer(e)
  <2>1. Running(e) /\ unsaved[e] = <<>> /\ UNCHANGED <<saved, unsaved, cancelled, effects>>
    BY <1>10 DEF ReturnAnswer
  <2>2. saved \in Sound
    BY <1>3, <2>1 DEF RuntimeShape, CheckpointThere
  <2>3. answers' \subseteq Answers
    BY <1>3, <1>10, <2>2 DEF ReturnAnswer, Sound
  <2>4. Goes(e, IF saved.next = "end" THEN "returned" ELSE "raised")
    BY <1>10 DEF ReturnAnswer
  <2> QED
    BY <2>1, <2>3, <2>4, ShapeGoes
<1>11. CASE Raise(e)
  BY <1>3, <1>11, ShapeGoes DEF Raise, History
<1> QED
  BY <1>5, <1>6, <1>8, <1>9, <1>10, <1>11

\* A process that goes down takes every frame with it.
LEMMA ShapeDies ==
  ASSUME FiniteRuntime, RuntimeShape, ProcessDies
  PROVE  RuntimeShape'
<1>1. /\ exec \in [Executions -> Framed] /\ unsaved \in [Executions -> Seq(Sound)]
      /\ saved \in Sound \cup {None} /\ effects \subseteq Calls /\ cancelled \subseteq Executions
      /\ answers \subseteq Answers
  BY DEF RuntimeShape, RuntimeTypes
<1>2. UNCHANGED <<saved, cancelled, effects, answers>>
  BY DEF ProcessDies
<1>3. Gone("lost") \in Framed /\ Gone("lost").pc = "lost" /\ Gone("lost").steps = 0
      /\ Gone("lost").state.steps = 0
  <2>1. Initial \in Good /\ Initial.steps = 0 /\ Initial.results = {} /\ Initial.call = None
        /\ Initial.next = "normalize_input"
    BY InitialIsGood DEF Initial, FiniteRuntime
  <2>2. Initial \in Sound
    BY <2>1 DEF Sound
  <2>3. 0 \in 0 .. Reach /\ 1 \in 1 .. OperationAttempts
    BY DEF FiniteRuntime, Reach
  <2> QED
    BY <2>1, <2>2, <2>3 DEF NotBegun, Framed, Gone
<1>4. \A g \in Executions : /\ exec'[g] = IF Active(g) THEN Gone("lost") ELSE exec[g]
                            /\ unsaved'[g] = <<>>
  BY DEF ProcessDies
<1>5. RuntimeTypes'
  <2>1. exec' \in [Executions -> Framed]
    BY <1>1, <1>3 DEF ProcessDies
  <2>2. unsaved' \in [Executions -> Seq(Sound)]
    BY DEF ProcessDies
  <2> QED
    BY <1>1, <1>2, <2>1, <2>2 DEF RuntimeTypes
<1>6. Begun \subseteq Begun' /\ Begun' \in SUBSET Executions
  BY <1>3, <1>4 DEF Begun
<1>7. StepsOf(Begun) <= StepsOf(Begun') /\ StepsOf(Begun) \in Nat /\ StepsOf(Begun') \in Nat
  BY <1>6, StepsGrow
<1>8. ASSUME NEW g \in Executions
      PROVE  /\ StepsOf(Begun \ {g}) \in Nat /\ StepsOf(Begun' \ {g}) \in Nat
             /\ StepsOf(Begun \ {g}) <= StepsOf(Begun' \ {g})
  <2>1. Begun \ {g} \in SUBSET (Begun' \ {g}) /\ Begun' \ {g} \in SUBSET Executions
    BY <1>6
  <2> QED
    BY <2>1, StepsGrow
<1>9. StepsCounted'
  <2>1. ASSUME NEW g \in Executions
        PROVE  exec'[g].state.steps <= StepsOf(Begun' \ {g}) + exec'[g].steps
    <3>1. CASE Active(g)
      <4>1. exec'[g] = Gone("lost")
        BY <3>1, <1>4
      <4>2. StepsOf(Begun' \ {g}) \in Nat
        BY <1>8
      <4>3. 0 <= StepsOf(Begun' \ {g}) + 0
        BY <4>2
      <4> QED
        BY <4>1, <4>3, <1>3
    <3>2. CASE ~Active(g)
      <4>1. ShapeSays(g)
        BY ShapeOf
      <4>2. \A k, m, n, o \in Nat : k <= m + o /\ m <= n => k <= n + o
        OBVIOUS
      <4>3. exec[g].state.steps <= StepsOf(Begun' \ {g}) + exec[g].steps
        <5>1. StepsOf(Begun' \ {g}) \in Nat /\ StepsOf(Begun \ {g}) <= StepsOf(Begun' \ {g})
          BY <1>8
        <5>2. /\ exec[g].state.steps \in Nat /\ exec[g].steps \in Nat
              /\ StepsOf(Begun \ {g}) \in Nat
              /\ exec[g].state.steps <= StepsOf(Begun \ {g}) + exec[g].steps
          BY <4>1 DEF ShapeSays
        <5> QED
          BY <4>2, <5>1, <5>2
      <4>4. exec'[g] = exec[g]
        BY <3>2, <1>4
      <4> QED
        BY <4>3, <4>4
    <3> QED
      BY <3>1, <3>2
  <2>2. \A g \in Executions : \A i \in 1 .. Len(unsaved'[g]) :
           unsaved'[g][i].steps <= StepsOf(Begun')
    BY <1>4
  <2>3. saved' # None => saved'.steps <= StepsOf(Begun')
    <3>1. SUFFICES ASSUME saved # None PROVE saved.steps <= StepsOf(Begun')
      BY <1>2
    <3>2. saved.steps \in Nat /\ saved.steps <= StepsOf(Begun)
      BY <1>1, <3>1 DEF RuntimeShape, StepsCounted, Sound, Good, Shapes
    <3> QED
      BY <1>7, <3>2
  <2> QED
    BY <2>1, <2>2, <2>3 DEF StepsCounted
<1>10. CheckpointThere'
  BY <1>3, <1>4 DEF CheckpointThere, Running, Active
<1> QED
  BY <1>5, <1>9, <1>10 DEF RuntimeShape

\* Every step keeps the shape.
LEMMA ShapeKept ==
  ASSUME FiniteRuntime, RuntimeShape, [RuntimeNext]_runtimeVars
  PROVE  RuntimeShape'
<1>1. CASE RuntimeNext
  <2>1. CASE ProcessDies
    BY <2>1, ShapeDies
  <2>2. ASSUME NEW e \in Executions,
               \/ \E kind \in {"run", "resume"} : Load(e, kind)
               \/ Begin(e) \/ Cancel(e) \/ SaveCheckpoint(e) \/ ReturnAnswer(e) \/ Raise(e)
        PROVE  RuntimeShape'
    BY <2>2, ShapeCalls
  <2>3. ASSUME NEW e \in Executions,
               \/ Normalize(e) \/ ToolReturns(e) \/ Observe(e) \/ Finish(e)
               \/ \E t \in Names : DecideTool(e, t)
               \/ \E a \in Answers : DecideFinal(e, a)
        PROVE  RuntimeShape'
    BY <2>3, ShapeNodes
  <2>4. ASSUME NEW e \in Executions,
               DecideTransient(e) \/ ToolTransient(e) \/ Breaks(e) \/ StepLimit(e)
        PROVE  RuntimeShape'
    BY <2>4, ShapeFails
  <2> QED
    BY <1>1, <2>1, <2>2, <2>3, <2>4 DEF RuntimeNext
<1>2. CASE UNCHANGED runtimeVars
  BY <1>2 DEF runtimeVars, RuntimeShape, RuntimeTypes, StepsCounted, CheckpointThere, Running,
     Begun
<1> QED
  BY <1>1, <1>2

\* Its states are those a type invariant allows.
LEMMA ShapeIsTyped ==
  ASSUME FiniteRuntime, RuntimeShape
  PROVE  RuntimeTypeOK
<1>1. \A s \in Sound : /\ DOMAIN s = {"next", "steps", "call", "results", "answer"}
                       /\ s.results \subseteq Calls
                       /\ s.call # None <=> s.next \in {"execute_tool", "observe"}
                       /\ s.next \in {"finish", "end"} => s.answer \in Answers
  BY DEF Sound, Good, Shapes
<1>2. \A e \in Executions : exec[e].state \in Sound /\ exec[e].attempt \in 1 .. OperationAttempts
  BY ShapeOf DEF ShapeSays
<1>3. saved \in Sound \cup {None} /\ cancelled \subseteq Executions /\ effects \subseteq Calls
      /\ answers \subseteq Answers
  BY DEF RuntimeShape, RuntimeTypes
<1> QED
  BY <1>1, <1>2, <1>3 DEF RuntimeTypeOK

\* Whatever executions overlap on a thread, its states, checkpoints and answers keep
\* their shape, and a call is pending exactly from its choice to its observation
\* (AgentRuntime, MinimalAgentNodes, validate_terminal_state).
THEOREM RuntimeTypeCorrect == ASSUME FiniteRuntime PROVE RuntimeSpec => []RuntimeTypeOK
<1>1. RuntimeInit => RuntimeShape
  BY ShapeStarts
<1>2. RuntimeShape /\ [RuntimeNext]_runtimeVars => RuntimeShape'
  BY ShapeKept
<1>3. RuntimeShape => RuntimeTypeOK
  BY ShapeIsTyped
<1> QED
  BY <1>1, <1>2, <1>3, PTL DEF RuntimeSpec

-----------------------------------------------------------------------------
(* Long-term memory.                                                         *)

Records == [step : {"idle", "delete", "save", "list"}, user : Users \cup {Nobody},
            now : 0..MaxTime]

\* A request under way is one of a user: what it saves or deletes has an owner.
Owned == \A c \in Callers : calls[c].step # "idle" => calls[c].user \in Users

MemoryInv == MemoryTypeOK /\ Owned /\ RevokedIsForgotten

\* A step that enters or leaves a call leaves the calls of the others alone.
LEMMA LeaveOne ==
  ASSUME MaxTime \in Nat, calls \in [Callers -> Records], Owned, NEW c \in Callers, Exit(c)
  PROVE  calls' \in [Callers -> Records] /\ Owned'
<1>1. Idle \in Records /\ Idle.step = "idle"
  BY DEF Idle, Records
<1> QED
  BY <1>1 DEF Exit, Owned

\* A call that has begun belongs to its caller, with the time it began.
LEMMA EnterOne ==
  ASSUME calls \in [Callers -> Records], Owned, clock \in 0..MaxTime,
         NEW c \in Callers, NEW u \in Users, NEW s \in {"delete", "save", "list"},
         Enter(c, s, u)
  PROVE  calls' \in [Callers -> Records] /\ Owned'
<1>1. [step |-> s, user |-> u, now |-> clock] \in Records
  BY DEF Records
<1> QED
  BY <1>1 DEF Enter, Owned

\* Nothing is remembered and everybody agrees.
LEMMA InitMemory ==
  ASSUME MaxSaves \in Nat, MaxTime \in Nat, MemoryInit
  PROVE  MemoryInv
<1>1. Idle \in Records /\ Idle.step = "idle"
  BY DEF Idle, Records
<1>2. MemoryTypeOK
  BY <1>1 DEF MemoryInit, MemoryTypeOK, Records
<1> QED
  BY <1>1, <1>2 DEF MemoryInit, MemoryInv, Owned, RevokedIsForgotten

\* Every step keeps the invariant: one case per action.
LEMMA StepMemory ==
  ASSUME MaxSaves \in Nat, MaxTime \in Nat, Ttl \in Nat, MemoryInv, [MemoryNext]_memoryVars
  PROVE  MemoryInv'
<1> USE DEF MemoryInv
<1>0. /\ calls \in [Callers -> Records] /\ Owned /\ RevokedIsForgotten /\ MemoryTypeOK
      /\ saves \in 0..MaxSaves /\ clock \in 0..MaxTime
  BY DEF MemoryTypeOK, Records
<1>1. CASE UNCHANGED memoryVars
  BY <1>0, <1>1 DEF memoryVars, MemoryTypeOK, Owned, RevokedIsForgotten, Rows
<1>2. ASSUME NEW c \in Callers, NEW u \in Users, GiveConsent(c, u) PROVE MemoryInv'
  BY <1>0, <1>2 DEF GiveConsent, MemoryTypeOK, Owned, RevokedIsForgotten, Rows
<1>3. ASSUME NEW c \in Callers, NEW u \in Users, Revoke(c, u) PROVE MemoryInv'
  <2>1. CASE Enter(c, "delete", u) /\ consent' = [consent EXCEPT ![u] = "revoked"]
             /\ UNCHANGED <<memories, shown, saves, clock, abandoned>>
    <3>1. calls' \in [Callers -> Records] /\ Owned'
      BY <1>0, <2>1, EnterOne
    <3>2. MemoryTypeOK'
      BY <1>0, <2>1, <3>1 DEF MemoryTypeOK, Rows, Records
    <3>3. calls'[c].step = "delete" /\ calls'[c].user = u
      BY <1>0, <2>1 DEF Enter
    <3>4. \A d \in Callers \ {c} : calls'[d] = calls[d]
      BY <1>0, <2>1 DEF Enter
    <3>5. calls[c].step = "idle"
      BY <1>3, <2>1, <1>0, <3>3 DEF Revoke, Exit, Idle
    <3>6. RevokedIsForgotten'
      BY <1>0, <2>1, <3>3, <3>4, <3>5 DEF RevokedIsForgotten, MemoryTypeOK, Rows
    <3> QED
      BY <3>1, <3>2, <3>6
  <2>2. CASE Exit(c) /\ calls[c].step = "delete" /\ calls[c].user = u
             /\ memories' = memories \ Of(u) /\ abandoned' = abandoned \ {u}
             /\ UNCHANGED <<consent, shown, saves, clock>>
    <3>1. calls' \in [Callers -> Records] /\ Owned'
      BY <1>0, <2>2, LeaveOne
    <3>2. MemoryTypeOK'
      BY <1>0, <2>2, <3>1 DEF MemoryTypeOK, Rows, Records
    <3>3. \A d \in Callers \ {c} : calls'[d] = calls[d]
      BY <1>0, <2>2 DEF Exit
    <3>4. \A m \in memories' : m \in memories /\ m.user # u
      BY <2>2 DEF Of
    <3>5. RevokedIsForgotten'
      BY <1>0, <2>2, <3>3, <3>4 DEF RevokedIsForgotten
    <3> QED
      BY <3>1, <3>2, <3>5
  <2> QED
    BY <1>3, <2>1, <2>2 DEF Revoke
<1>4. ASSUME NEW c \in Callers, NEW u \in Users, ReadConsent(c, u) \/ BeginList(c, u)
      PROVE  MemoryInv'
  <2>1. CASE UNCHANGED calls /\ shown' = {} /\ UNCHANGED <<consent, memories, saves, clock,
                                                           abandoned>>
    BY <1>0, <2>1 DEF MemoryTypeOK, Owned, RevokedIsForgotten, Rows
  <2>2. CASE (Enter(c, "save", u) \/ Enter(c, "list", u)) /\ calls[c].step = "idle"
             /\ UNCHANGED <<shown, consent, memories, saves, clock, abandoned>>
    <3>1. calls' \in [Callers -> Records] /\ Owned'
      BY <1>0, <2>2, EnterOne
    <3>2. MemoryTypeOK'
      BY <1>0, <2>2, <3>1 DEF MemoryTypeOK, Rows, Records
    <3>3. \A d \in Callers \ {c} : calls'[d] = calls[d]
      BY <1>0, <2>2 DEF Enter
    <3>4. RevokedIsForgotten'
      BY <1>0, <2>2, <3>3 DEF RevokedIsForgotten
    <3> QED
      BY <3>1, <3>2, <3>4
  <2> QED
    BY <1>4, <2>1, <2>2 DEF ReadConsent, BeginList
<1>5. ASSUME NEW c \in Callers, SaveMemory(c) PROVE MemoryInv'
  <2> DEFINE m == [id |-> saves + 1, user |-> calls[c].user, expires |-> calls[c].now + Ttl,
                   late |-> consent[calls[c].user] # "enabled"]
  <2>0. calls[c].user \in Users /\ calls[c].now \in 0..MaxTime /\ calls[c].step = "save"
    BY <1>0, <1>5 DEF SaveMemory, Owned, Records
  <2>1. memories' = memories \cup {m} /\ saves' = saves + 1 /\ Exit(c)
        /\ UNCHANGED <<consent, shown, clock, abandoned>> /\ saves < MaxSaves
    BY <1>5 DEF SaveMemory
  <2>2. m \in Rows
    BY <1>0, <2>0, <2>1 DEF Rows
  <2>3. calls' \in [Callers -> Records] /\ Owned'
    BY <1>0, <2>1, LeaveOne
  <2>4. saves' \in 0..MaxSaves
    BY <1>0, <2>1
  <2>5. MemoryTypeOK'
    BY <1>0, <2>1, <2>2, <2>3, <2>4 DEF MemoryTypeOK, Rows, Records
  <2>6. \A d \in Callers \ {c} : calls'[d] = calls[d]
    BY <1>0, <2>1 DEF Exit
  <2>7. consent[m.user] = "revoked" => m.late
    OBVIOUS
  <2>8. RevokedIsForgotten'
    BY <1>0, <2>0, <2>1, <2>6, <2>7 DEF RevokedIsForgotten
  <2> QED
    BY <2>3, <2>5, <2>8
<1>6. ASSUME NEW c \in Callers, ListMemories(c) PROVE MemoryInv'
  <2>1. calls' \in [Callers -> Records] /\ Owned'
    BY <1>0, <1>6, LeaveOne DEF ListMemories
  <2>2. MemoryTypeOK'
    BY <1>0, <1>6, <2>1 DEF MemoryTypeOK, Rows, Records, ListMemories, Of
  <2>3. \A d \in Callers \ {c} : calls'[d] = calls[d]
    BY <1>0, <1>6 DEF Exit, ListMemories
  <2>4. RevokedIsForgotten'
    BY <1>0, <1>6, <2>3 DEF RevokedIsForgotten, ListMemories
  <2> QED
    BY <2>1, <2>2, <2>4
<1>7. ASSUME NEW c \in Callers, NEW u \in Users, NEW m \in memories, Delete(c, u, m)
      PROVE  MemoryInv'
  BY <1>0, <1>7 DEF Delete, MemoryTypeOK, Owned, RevokedIsForgotten, Rows
<1>8. ASSUME NEW c \in Callers, Die(c) PROVE MemoryInv'
  <2>1. calls' \in [Callers -> Records] /\ Owned'
    BY <1>0, <1>8, LeaveOne DEF Die
  <2>2. abandoned' \subseteq Users
    BY <1>0, <1>8 DEF Die, MemoryTypeOK, Owned
  <2>3. MemoryTypeOK'
    BY <1>0, <1>8, <2>1, <2>2 DEF MemoryTypeOK, Rows, Records, Die
  <2>4. \A d \in Callers \ {c} : calls'[d] = calls[d]
    BY <1>0, <1>8 DEF Exit, Die
  <2>5. RevokedIsForgotten'
    BY <1>0, <1>8, <2>4 DEF RevokedIsForgotten, Die
  <2> QED
    BY <2>1, <2>3, <2>5
<1>9. CASE CleanupExpired \/ Tick
  BY <1>0, <1>9 DEF CleanupExpired, Tick, MemoryTypeOK, Owned, RevokedIsForgotten, Rows
<1> QED
  BY <1>1, <1>2, <1>3, <1>4, <1>5, <1>6, <1>7, <1>8, <1>9 DEF MemoryNext

\* Whatever the users, the requests in flight and where they die: what is left
\* of a user who revoked was read under an earlier consent and saved late,
\* unless the revocation itself died (LongTermMemoryService.set_consent).
THEOREM RevocationForgets ==
  ASSUME MaxSaves \in Nat, MaxTime \in Nat, Ttl \in Nat
  PROVE  MemorySpec => []RevokedIsForgotten
<1>1. MemoryInit => MemoryInv
  BY InitMemory
<1>2. MemoryInv /\ [MemoryNext]_memoryVars => MemoryInv'
  BY StepMemory
<1>3. MemoryInv => RevokedIsForgotten
  BY DEF MemoryInv
<1> QED
  BY <1>1, <1>2, <1>3, PTL DEF MemorySpec

\* The rows, the callers' local state and the clock keep their shape.
THEOREM MemoryTypes ==
  ASSUME MaxSaves \in Nat, MaxTime \in Nat, Ttl \in Nat
  PROVE  MemorySpec => []MemoryTypeOK
<1>1. MemoryInit => MemoryInv
  BY InitMemory
<1>2. MemoryInv /\ [MemoryNext]_memoryVars => MemoryInv'
  BY StepMemory
<1>3. MemoryInv => MemoryTypeOK
  BY DEF MemoryInv
<1> QED
  BY <1>1, <1>2, <1>3, PTL DEF MemorySpec
-----------------------------------------------------------------------------
(* The agents side by side.                                                  *)

\* The graph, the approval, the runtime and the memory keep their shape, whatever
\* executions and requests overlap and for any plans, tools, users and limits.
THEOREM AgentsTypes ==
  ASSUME FiniteRuntime, MaxSaves \in Nat, MaxTime \in Nat, Ttl \in Nat
  PROVE  AgentsSpec => []AgentsTypeOK
<1>1. AgentsInit => Init /\ ApprovalInit /\ RuntimeInit /\ MemoryInit
  BY DEF AgentsInit
<1>2. [AgentsNext]_<<subject, vars, approvalVars, runtimeVars, memoryVars>>
        => /\ [Next]_vars /\ [ApprovalNext]_approvalVars
           /\ [RuntimeNext]_runtimeVars /\ [MemoryNext]_memoryVars
  BY Zenon DEF AgentsNext
<1>3. Init => RunInv
  BY RunStarts
<1>4. RunInv /\ [Next]_vars => RunInv'
  BY RunKept
<1>5. RuntimeInit => RuntimeShape
  BY ShapeStarts
<1>6. RuntimeShape /\ [RuntimeNext]_runtimeVars => RuntimeShape'
  BY ShapeKept
<1>7. MemoryInit => MemoryInv
  BY InitMemory
<1>8. MemoryInv /\ [MemoryNext]_memoryVars => MemoryInv'
  BY StepMemory
<1>9. ApprovalInit => ApprovalInv
  BY InitApproval
<1>10. ApprovalInv /\ [ApprovalNext]_approvalVars => ApprovalInv'
  BY ApprovalStutters, SafetyStep
<1>11. RunInv /\ ApprovalInv /\ RuntimeShape /\ MemoryInv => AgentsTypeOK
  BY ShapeIsTyped, GraphIsTyped DEF AgentsTypeOK, ApprovalInv, MemoryInv
<1> QED
  BY <1>1, <1>2, <1>3, <1>4, <1>5, <1>6, <1>7, <1>8, <1>9, <1>10, <1>11, PTL DEF AgentsSpec
=============================================================================
