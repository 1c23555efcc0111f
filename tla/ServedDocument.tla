---------------------------- MODULE ServedDocument ----------------------------
(***************************************************************************)
(* What the lifecycle promises for one document, with no store, worker or  *)
(* retry in sight: at every moment the document serves one version, or is  *)
(* hidden and keeps the version it served last, or is erased for good.     *)
(* Cancelling a deletion does not bring the document back; it adds what    *)
(* that deletion had hidden to what a restore may bring back.              *)
(* DocumentLifecycle implements this specification.                        *)
(***************************************************************************)
EXTENDS Integers

CONSTANTS Versions, First, None, Retention

VARIABLES
    phase,     \* "active", "delete_pending" or "deleted"
    shown,     \* the version answers may use, None unless active
    kept,      \* the versions a restore may bring back, none unless hidden
    past,      \* every version that was ever shown
    deadline,  \* until when a hidden document is kept
    now        \* the wall clock

vars == <<phase, shown, kept, past, deadline, now>>

Init ==
    /\ phase = "active" /\ shown = First /\ kept = {}
    /\ past = {First} /\ deadline = 0 /\ now = 0

\* An update or a reparse puts a version in service that never was before.
Publish(v) ==
    /\ phase = "active" /\ v \notin past
    /\ shown' = v /\ past' = past \cup {v}
    /\ UNCHANGED <<phase, kept, deadline, now>>

\* A rollback returns to another version the document once served.
Rollback(v) ==
    /\ phase = "active" /\ v \in past \ {shown}
    /\ shown' = v
    /\ UNCHANGED <<phase, kept, past, deadline, now>>

Hide ==
    /\ phase = "active"
    /\ phase' = "delete_pending" /\ shown' = None /\ kept' = {shown}
    /\ deadline' = now + Retention
    /\ UNCHANGED <<past, now>>

\* An earlier deletion, of v, is cancelled: the deletion that stands now is
\* the last one no longer.
Recall(v) ==
    /\ phase = "delete_pending" /\ v \in past
    /\ kept' = kept \cup {v}
    /\ UNCHANGED <<phase, shown, past, deadline, now>>

\* A restore serves again what the deletion took away, unless one was recalled.
Reveal(v) ==
    /\ phase = "delete_pending" /\ v \in kept
    /\ phase' = "active" /\ shown' = v /\ kept' = {} /\ deadline' = 0
    /\ UNCHANGED <<past, now>>

\* Retention is over; nothing brings the document back.
Erase ==
    /\ phase = "delete_pending" /\ deadline <= now
    /\ phase' = "deleted" /\ kept' = {}
    /\ UNCHANGED <<shown, past, deadline, now>>

Tick == now' = now + 1 /\ UNCHANGED <<phase, shown, kept, past, deadline>>

Next ==
    \/ \E v \in Versions : Publish(v) \/ Rollback(v) \/ Recall(v) \/ Reveal(v)
    \/ Hide \/ Erase \/ Tick

Spec == Init /\ [][Next]_vars
=============================================================================
