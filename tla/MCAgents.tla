------------------------------- MODULE MCAgents -------------------------------
(***************************************************************************)
(* Instances of the agents for TLC: a behaviour is one of the Agentic      *)
(* graph, of an approval, of the minimal agent or of the long-term memory, *)
(* the others rest.                                                        *)
(***************************************************************************)
EXTENDS AgenticGraph, AgentApproval, AgentRuntime, LongTermMemory

VARIABLE subject

\* Every plan of one or two critical steps, and plans whose last step is optional.
PlanStep(tool, critical) == [tool |-> tool, critical |-> critical]
CriticalSteps == {PlanStep(t, TRUE) : t \in Tools}
SmallPlans ==
    {<<s>> : s \in CriticalSteps} \cup {<<s, t>> : s, t \in CriticalSteps}
       \cup {<<PlanStep("kb", TRUE), PlanStep(t, FALSE)>> : t \in Tools}

AgentsInit == /\ Init /\ ApprovalInit /\ RuntimeInit /\ MemoryInit
              /\ subject \in {"agentic", "approval", "minimal", "memory"}
              /\ subject # "agentic" => state.usage.tokens = 0
AgentsNext ==
    \/ /\ subject = "agentic" /\ Next
       /\ UNCHANGED <<subject, approvalVars, runtimeVars, memoryVars>>
    \/ /\ subject = "approval" /\ ApprovalNext
       /\ UNCHANGED <<subject, vars, runtimeVars, memoryVars>>
    \/ /\ subject = "minimal" /\ RuntimeNext
       /\ UNCHANGED <<subject, vars, approvalVars, memoryVars>>
    \/ /\ subject = "memory" /\ MemoryNext
       /\ UNCHANGED <<subject, vars, approvalVars, runtimeVars>>
AgentsSpec ==
    AgentsInit /\ [][AgentsNext]_<<subject, vars, approvalVars, runtimeVars, memoryVars>>

\* What the runs play.  Nothing is claimed of a thread once two executions have been
\* on it at once, so TLC follows no such behaviour any further.
PlaySpec ==
    AgentsInit
    /\ [][AgentsNext /\ ~overlap]_<<subject, vars, approvalVars, runtimeVars, memoryVars>>

\* The shape of the runtimes', the approval's and the memory's state, of all four.
AgentsTypeOK == TypeOK /\ ApprovalTypeOK /\ RuntimeTypeOK /\ MemoryTypeOK
=============================================================================
