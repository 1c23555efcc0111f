----------------------------- MODULE AgentRuntime -----------------------------
(***************************************************************************)
(* The minimal agent: executions of one thread (run, resume) that drive    *)
(* the graph normalize_input, decide, execute_tool, observe, finish; the   *)
(* retries inside a node; the checkpoint the graph saves behind its steps; *)
(* cancellation, time-outs, the step limit and a crash of the process.     *)
(*                                                                         *)
(* Saving lags: the graph library writes the checkpoint of a step while    *)
(* the next step runs.  An execution that ends waits for what it still has *)
(* to write; one that crashes does not.                                    *)
(***************************************************************************)
EXTENDS Naturals, Sequences, FiniteSets

CONSTANTS
    Executions,       \* calls of run() and resume() on the thread
    Names, Allowed,   \* names the model may choose; those the registry resolves
    Answers,          \* what the model may answer
    MaxGraphSteps, OperationAttempts,   \* RuntimeLimits
    None              \* no checkpoint, no call, no answer

VARIABLES
    saved,      \* the last checkpoint written
    exec,       \* where each execution is
    unsaved,    \* checkpoints the running graph has still to write
    cancelled,  \* executions whose token is set
    effects,    \* history: calls whose tool may have acted
    answers,    \* history: answers returned to a caller
    crashed,    \* history: the process went down during an execution
    overlap     \* history: two executions were on the thread at once

runtimeVars == <<saved, exec, unsaved, cancelled, effects, answers, crashed, overlap>>

\* next is the node to run; a call is the step that chose it and the tool.
Initial  == [next |-> "normalize_input", steps |-> 0, call |-> None, results |-> {},
             answer |-> None]
NotBegun == [pc |-> "idle", kind |-> "run", state |-> Initial, steps |-> 0, attempt |-> 1]

RuntimeInit ==
    /\ saved = None /\ exec = [e \in Executions |-> NotBegun]
    /\ unsaved = [e \in Executions |-> <<>>]
    /\ cancelled = {} /\ effects = {} /\ answers = {}
    /\ crashed = FALSE /\ overlap = FALSE

Active(e)    == exec[e].pc \in {"checked", "running", "ending"}
Running(e)   == exec[e].pc = "running"
Ends(e)      == exec' = [exec EXCEPT ![e].pc = "ending"]
Gone(pc)     == [NotBegun EXCEPT !.pc = pc]   \* its frames are gone
Goes(e, pc)  == exec' = [exec EXCEPT ![e] = Gone(pc)]
History      == <<effects, answers, crashed, overlap>>
\* What the steps of the graph leave alone, besides effects.
Others       == <<saved, cancelled, answers, crashed, overlap>>
-----------------------------------------------------------------------------
(* run() and resume()                                                      *)

\* run() wants no checkpoint, resume() one; what it read is not looked at again.
Load(e, kind) ==
    /\ exec[e].pc = "idle"
    /\ LET here == IF kind = "run" THEN saved = None ELSE saved # None
       IN exec' = [exec EXCEPT ![e] = IF here THEN [@ EXCEPT !.kind = kind, !.pc = "checked"]
                                              ELSE Gone("refused")]
    /\ overlap' = (overlap \/ \E x \in Executions : Active(x))
    /\ UNCHANGED <<saved, unsaved, cancelled, effects, answers, crashed>>

\* Mutant: resume hands the graph the request once more.
InputAgain(kind) == Initial

\* The state the graph starts from: its input, or the checkpoint when it has none.
GraphInput(kind) == IF kind = "run" THEN Initial ELSE saved

Begin(e) ==
    /\ exec[e].pc = "checked"
    /\ IF e \in cancelled
       THEN Ends(e) /\ UNCHANGED unsaved
       ELSE LET state == GraphInput(exec[e].kind)
            IN /\ exec' = [exec EXCEPT ![e].pc = "running", ![e].state = state]
               /\ unsaved' = [unsaved EXCEPT ![e] =
                                  IF exec[e].kind = "run" THEN <<state>> ELSE <<>>]
    /\ UNCHANGED <<saved, cancelled, History>>

Cancel(e) ==
    /\ Active(e) /\ e \notin cancelled
    /\ cancelled' = cancelled \cup {e}
    /\ UNCHANGED <<saved, exec, unsaved, History>>

SaveCheckpoint(e) ==
    /\ unsaved[e] # <<>>
    /\ saved' = Head(unsaved[e])
    /\ unsaved' = [unsaved EXCEPT ![e] = Tail(@)]
    /\ UNCHANGED <<exec, cancelled, History>>
-----------------------------------------------------------------------------
(* The graph                                                               *)

\* The library counts its own first steps in the limit, so a resumed graph gets up
\* to two steps more than MaxGraphSteps, and one that just ended may still be over it.
MayStep(e) == Running(e) /\ exec[e].steps < MaxGraphSteps + 2

At(e, node) == MayStep(e) /\ exec[e].state.next = node

\* A node returned: its state is the graph's, and is queued for the checkpointer.
Completes(e, state) ==
    /\ exec' = [exec EXCEPT ![e].state = state, ![e].steps = @ + 1, ![e].attempt = 1]
    /\ unsaved' = [unsaved EXCEPT ![e] = Append(@, state)]

Normalize(e) ==
    /\ At(e, "normalize_input")
    /\ Completes(e, [exec[e].state EXCEPT !.next = "decide"])
    /\ UNCHANGED <<Others, effects>>

\* run_operation looks at the token before each attempt.
MayAttempt(e) == e \notin cancelled

\* A transient failure is tried again until the attempts are used up.
Retries(e) ==
    /\ IF exec[e].attempt < OperationAttempts
       THEN exec' = [exec EXCEPT ![e].attempt = @ + 1]
       ELSE Ends(e)
    /\ UNCHANGED unsaved

DecideTool(e, t) ==
    /\ At(e, "decide") /\ MayAttempt(e)
    /\ LET s == exec[e].state
       IN Completes(e, [s EXCEPT !.next = "execute_tool", !.steps = @ + 1,
                                 !.call = <<s.steps, t>>])
    /\ UNCHANGED <<Others, effects>>

DecideFinal(e, a) ==
    /\ At(e, "decide") /\ MayAttempt(e)
    /\ Completes(e, [exec[e].state EXCEPT !.next = "finish", !.steps = @ + 1,
                                          !.call = None, !.answer = a])
    /\ UNCHANGED <<Others, effects>>

DecideTransient(e) ==
    /\ At(e, "decide") /\ MayAttempt(e) /\ Retries(e)
    /\ UNCHANGED <<Others, effects>>

\* Mutant: the state keeps the last result only.
LastResult(s) == {s.call}
\* A result is added to those the state holds.
Results(s) == s.results \cup {s.call}

ToolResult(s) == [s EXCEPT !.next = "observe", !.steps = @ + 1, !.results = Results(s)]

\* The registry resolves the tool, unless a result of that very call is there to use
\* again; an invoked tool may act whatever it answers.
Invokes(e) ==
    LET s == exec[e].state
    IN /\ At(e, "execute_tool") /\ MayAttempt(e)
       /\ s.call[2] \in Allowed \/ s.call \in s.results

Acts(e) == IF exec[e].state.call \in exec[e].state.results
           THEN effects ELSE effects \cup {exec[e].state.call}

ToolReturns(e) ==
    /\ Invokes(e)
    /\ effects' = Acts(e)
    /\ Completes(e, ToolResult(exec[e].state))
    /\ UNCHANGED Others

ToolTransient(e) ==
    /\ Invokes(e) /\ Retries(e)
    /\ effects' \in {effects, Acts(e)}
    /\ UNCHANGED Others

\* An unknown or forbidden tool, a permanent error, a node's time-out, the graph's
\* time-out, or the token: whatever a tool has done by then, its result is dropped.
Breaks(e) ==
    /\ Running(e)
    /\ Ends(e) /\ UNCHANGED unsaved
    /\ effects' = effects \/ (Invokes(e) /\ effects' = Acts(e))
    /\ UNCHANGED Others

Observe(e) ==
    /\ At(e, "observe")
    /\ Completes(e, [exec[e].state EXCEPT !.next = "decide", !.steps = @ + 1, !.call = None])
    /\ UNCHANGED <<Others, effects>>

Finish(e) ==
    /\ At(e, "finish")
    /\ Completes(e, [exec[e].state EXCEPT !.next = "end", !.steps = @ + 1])
    /\ UNCHANGED <<Others, effects>>

StepLimit(e) ==
    /\ Running(e) /\ exec[e].steps >= MaxGraphSteps
    /\ Ends(e)
    /\ UNCHANGED <<saved, unsaved, cancelled, History>>
-----------------------------------------------------------------------------
(* The end of an execution                                                 *)

\* The graph is through and all of it is saved: the answer is the checkpoint's.
ReturnAnswer(e) ==
    /\ Running(e) /\ exec[e].state.next = "end" /\ unsaved[e] = <<>>
    /\ e \notin cancelled \/ exec[e].steps = 0
    /\ Goes(e, IF saved.next = "end" THEN "returned" ELSE "raised")
    /\ answers' = IF saved.next = "end" THEN answers \cup {saved.answer} ELSE answers
    /\ UNCHANGED <<saved, unsaved, cancelled, effects, crashed, overlap>>

Raise(e) ==
    /\ exec[e].pc = "ending" /\ unsaved[e] = <<>>
    /\ Goes(e, "raised")
    /\ UNCHANGED <<saved, unsaved, cancelled, History>>

\* Every execution of the process is gone, and what it had not written.
ProcessDies ==
    /\ \E e \in Executions : Active(e)
    /\ exec' = [e \in Executions |-> IF Active(e) THEN Gone("lost") ELSE exec[e]]
    /\ unsaved' = [e \in Executions |-> <<>>]
    /\ crashed' = TRUE
    /\ UNCHANGED <<saved, cancelled, effects, answers, overlap>>

RuntimeNext ==
    \/ \E e \in Executions :
          \/ \E kind \in {"run", "resume"} : Load(e, kind)
          \/ Begin(e) \/ Cancel(e) \/ SaveCheckpoint(e)
          \/ Normalize(e)
          \/ \E t \in Names : DecideTool(e, t)
          \/ \E a \in Answers : DecideFinal(e, a)
          \/ DecideTransient(e) \/ ToolReturns(e) \/ ToolTransient(e)
          \/ Breaks(e) \/ Observe(e) \/ Finish(e) \/ StepLimit(e)
          \/ ReturnAnswer(e) \/ Raise(e)
    \/ ProcessDies

RuntimeSpec == RuntimeInit /\ [][RuntimeNext]_runtimeVars
-----------------------------------------------------------------------------
Calls == (0 .. Cardinality(Executions) * (MaxGraphSteps + 2)) \X Names

States == [next : {"normalize_input", "decide", "execute_tool", "observe", "finish", "end"},
           steps : 0 .. Cardinality(Executions) * (MaxGraphSteps + 2),
           call : Calls \cup {None}, results : SUBSET Calls, answer : Answers \cup {None}]

\* The shape of the state, that a call is pending exactly between its choice and its
\* observation, and that the graph ends only with an answer (validate_terminal_state).
RuntimeTypeOK ==
    /\ \A s \in {exec[e].state : e \in Executions} \cup ({saved} \ {None}) :
          /\ DOMAIN s = {"next", "steps", "call", "results", "answer"}
          /\ s.results \subseteq Calls
          /\ s.call # None <=> s.next \in {"execute_tool", "observe"}
          /\ s.next \in {"finish", "end"} => s.answer \in Answers
    /\ \A e \in Executions : exec[e].attempt \in 1 .. OperationAttempts
    /\ cancelled \subseteq Executions /\ effects \subseteq Calls /\ answers \subseteq Answers

\* What a tool may have done is in the checkpoint, as a result or as the call still
\* pending, once no execution is under way: a resume then never chooses that call
\* anew.  It holds for a thread driven by one execution at a time in a process that
\* stayed up (AgentRuntime._execute, MinimalAgentNodes.execute_tool, _run_once).
EffectsAreRemembered ==
    ~crashed /\ ~overlap /\ (\A e \in Executions : ~Active(e)) =>
        \A c \in effects : saved # None /\ c \in saved.results \cup {saved.call}

\* Whoever runs or resumes a thread gets the same answer, whatever failed, was
\* cancelled or crashed in between, as long as executions do not overlap
\* (AgentRuntime.run, resume: a finished checkpoint is not run again).
AnswersAgree == ~overlap => Cardinality(answers) <= 1
=============================================================================
