----------------------------- MODULE ApprovedCall -----------------------------
(***************************************************************************)
(* What the approval service promises for one tool call, with no request,  *)
(* revision or copy of a row in sight: the call is decided once, executed  *)
(* once and only after an approval, an execution calls the tool no more    *)
(* often than it may, and its run is told of a refusal or a result only    *)
(* what happened.  AgentApproval implements this specification.            *)
(***************************************************************************)
EXTENDS Integers

CONSTANT Limit   \* how often one execution may call the tool

VARIABLES
    status,   \* of the call
    result,   \* what is stored of its execution
    effects,  \* how often the tool had its effect
    told      \* what the run was told last, and of which status of the call

vars == <<status, result, effects, told>>

Init == /\ status = "approval_required" /\ result = "none" /\ effects = 0
        /\ told = [run |-> "waiting", ground |-> "approval_required"]

\* Somebody decides the call, or nobody does in time.
Settle ==
    /\ status = "approval_required"
    /\ status' \in {"approved", "rejected", "expired", "cancelled"}
    /\ UNCHANGED <<result, effects, told>>

Begin ==
    /\ status = "approved"
    /\ status' = "executing"
    /\ UNCHANGED <<result, effects, told>>

Call ==
    /\ status = "executing" /\ effects < Limit
    /\ effects' = effects + 1
    /\ UNCHANGED <<status, result, told>>

\* The execution has a result, good or bad, or has failed for good; a good one had
\* its effect, or is that of an earlier call with the same arguments.
Conclude ==
    /\ status = "executing"
    /\ \/ status' = "failed" /\ result' = "none"
       \/ status' = "succeeded" /\ result' = "failed"
       \/ status' = "succeeded" /\ result' = "reused" /\ effects = 0
       \/ status' = "succeeded" /\ result' = "success" /\ effects > 0
    /\ UNCHANGED <<effects, told>>

\* A run goes on when its call has a good result.  It is cancelled or rejected when
\* the call is, but that the call expired, and so that it is rejected, may be told in
\* doubt, as a failure may.
Tell ==
    /\ told'.run \in {"rejected", "cancelled", "continued", "failed", "exhausted"}
    /\ told'.run \in {"rejected", "cancelled"} =>
          \/ told'.run = status
          \/ told' = [run |-> "rejected", ground |-> "expired"]
    /\ told'.run = "continued" =>
          status = "succeeded" /\ (effects > 0 \/ result = "reused")
    /\ UNCHANGED <<status, result, effects>>

Next == Settle \/ Begin \/ Call \/ Conclude \/ Tell

Spec == Init /\ [][Next]_vars
=============================================================================
