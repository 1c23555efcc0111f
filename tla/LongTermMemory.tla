---------------------------- MODULE LongTermMemory ----------------------------
(***************************************************************************)
(* The long-term memory of users: consent, remembering, showing, deleting  *)
(* and the worker's clean-up of what has expired.  A call is several       *)
(* transactions: a revocation saves the consent and then deletes, and      *)
(* remembering and showing decide on a consent they have read before.      *)
(***************************************************************************)
EXTENDS Integers, FiniteSets

CONSTANTS
    Users,    \* pairs of a tenant and a user, the key of every row
    Callers,  \* requests that may be served at the same time
    MaxSaves, \* memories that are stored at all
    MaxTime,
    Ttl,
    Nobody

VARIABLES
    consent,   \* of each user: none, enabled or revoked
    memories,  \* rows: id, user, expires; late: saved after its user had revoked
    calls,     \* of each caller: step, user, the time it has read
    shown,     \* the rows the last list gave
    saves,     \* memories stored so far
    clock,
    abandoned  \* users whose revocation died before it deleted

memoryVars == <<consent, memories, calls, shown, saves, clock, abandoned>>

Idle == [step |-> "idle", user |-> Nobody, now |-> 0]

MemoryInit ==
    /\ consent = [u \in Users |-> "none"]
    /\ memories = {} /\ saves = 0 /\ clock = 0 /\ abandoned = {}
    /\ calls = [c \in Callers |-> Idle]
    /\ shown = {}

Enter(c, step, u) == calls' = [calls EXCEPT ![c] = [step |-> step, user |-> u, now |-> clock]]
Exit(c) == calls' = [calls EXCEPT ![c] = Idle]

Of(u) == {m \in memories : m.user = u}

-----------------------------------------------------------------------------
(* Consent.                                                                  *)

GiveConsent(c, u) ==
    /\ calls[c].step = "idle"
    /\ consent' = [consent EXCEPT ![u] = "enabled"]
    /\ UNCHANGED <<memories, calls, shown, saves, clock, abandoned>>

\* Mutant: the rows are deleted before the consent is saved.
RevokeLast(c, u) ==
    \/ /\ calls[c].step = "idle"
       /\ memories' = memories \ Of(u)
       /\ Enter(c, "delete", u)
       /\ UNCHANGED <<consent, shown, saves, clock, abandoned>>
    \/ /\ calls[c].step = "delete" /\ calls[c].user = u
       /\ consent' = [consent EXCEPT ![u] = "revoked"]
       /\ abandoned' = abandoned \ {u}
       /\ Exit(c)
       /\ UNCHANGED <<memories, shown, saves, clock>>

\* set_consent without consent: saved first, what is remembered deleted then.
Revoke(c, u) ==
    \/ /\ calls[c].step = "idle"
       /\ consent' = [consent EXCEPT ![u] = "revoked"]
       /\ Enter(c, "delete", u)
       /\ UNCHANGED <<memories, shown, saves, clock, abandoned>>
    \/ /\ calls[c].step = "delete" /\ calls[c].user = u
       /\ memories' = memories \ Of(u)
       /\ abandoned' = abandoned \ {u}
       /\ Exit(c)
       /\ UNCHANGED <<consent, shown, saves, clock>>

-----------------------------------------------------------------------------
(* Remembering.  A request that is not explicit, empty, too long or like a   *)
(* secret is refused as one without consent is, and changes nothing.         *)

ReadConsent(c, u) ==
    /\ calls[c].step = "idle" /\ consent[u] = "enabled"
    /\ Enter(c, "save", u)
    /\ UNCHANGED <<consent, memories, shown, saves, clock, abandoned>>

SaveMemory(c) ==
    /\ calls[c].step = "save" /\ saves < MaxSaves
    /\ LET u == calls[c].user
       IN  memories' = memories \cup {[id |-> saves + 1, user |-> u,
                                       expires |-> calls[c].now + Ttl,
                                       late |-> consent[u] # "enabled"]}
    /\ saves' = saves + 1
    /\ Exit(c)
    /\ UNCHANGED <<consent, shown, clock, abandoned>>

-----------------------------------------------------------------------------
(* Showing and deleting.                                                     *)

\* list_active: nothing is read without consent.
BeginList(c, u) ==
    /\ calls[c].step = "idle"
    /\ IF consent[u] = "enabled" THEN Enter(c, "list", u) /\ shown' = shown
       ELSE shown' = {} /\ calls' = calls
    /\ UNCHANGED <<consent, memories, saves, clock, abandoned>>

ListMemories(c) ==
    /\ calls[c].step = "list"
    /\ shown' = {m \in Of(calls[c].user) : m.expires > calls[c].now}
    /\ Exit(c)
    /\ UNCHANGED <<consent, memories, saves, clock, abandoned>>

Delete(c, u, m) ==
    /\ calls[c].step = "idle" /\ m.user = u
    /\ memories' = memories \ {m}
    /\ UNCHANGED <<consent, calls, shown, saves, clock, abandoned>>

\* The worker's schedule.
CleanupExpired ==
    /\ \E m \in memories : m.expires <= clock
    /\ memories' = {m \in memories : m.expires > clock}
    /\ UNCHANGED <<consent, calls, shown, saves, clock, abandoned>>

-----------------------------------------------------------------------------
\* The API process dies, or a transaction fails, between the calls of a request.
Die(c) ==
    /\ calls[c].step # "idle"
    /\ abandoned' = IF calls[c].step = "delete" THEN abandoned \cup {calls[c].user} ELSE abandoned
    /\ Exit(c)
    /\ UNCHANGED <<consent, memories, shown, saves, clock>>

Tick == /\ clock < MaxTime /\ clock' = clock + 1
        /\ UNCHANGED <<consent, memories, calls, shown, saves, abandoned>>

MemoryNext ==
    \/ \E c \in Callers, u \in Users :
          \/ GiveConsent(c, u) \/ Revoke(c, u) \/ ReadConsent(c, u) \/ BeginList(c, u)
          \/ \E m \in memories : Delete(c, u, m)
    \/ \E c \in Callers : SaveMemory(c) \/ ListMemories(c) \/ Die(c)
    \/ CleanupExpired \/ Tick

MemorySpec == MemoryInit /\ [][MemoryNext]_memoryVars

-----------------------------------------------------------------------------
(* Properties.                                                               *)

Rows == [id : 1..MaxSaves, user : Users, expires : 0..(MaxTime + Ttl), late : BOOLEAN]

\* The shape of the state.
MemoryTypeOK ==
    /\ consent \in [Users -> {"none", "enabled", "revoked"}]
    /\ memories \subseteq Rows
    /\ calls \in [Callers -> [step : {"idle", "delete", "save", "list"}, user : Users \cup {Nobody},
                          now : 0..MaxTime]]
    /\ shown \subseteq Rows
    /\ saves \in 0..MaxSaves /\ clock \in 0..MaxTime /\ abandoned \subseteq Users

\* A revocation that is through has forgotten: however consents, requests and
\* crashes interleave, what is left of a user without consent was read under an
\* earlier consent and saved after the revocation, unless the revocation died.
RevokedIsForgotten ==
    \A m \in memories :
        /\ consent[m.user] = "revoked" /\ m.user \notin abandoned
        /\ \A c \in Callers : ~(calls[c].step = "delete" /\ calls[c].user = m.user)
        => m.late
=============================================================================
