------------------------- MODULE MCDocumentLifecycle -------------------------
(***************************************************************************)
(* Instances of DocumentLifecycle for TLC.  A behaviour plays one of these *)
(* scenarios, which says how many requests of each kind there may be and   *)
(* which dispatchers and readers run:                                      *)
(*   "commands"   three commands of any kind and a dispatcher, no deletion *)
(*                being cancelled;                                         *)
(*   "reader"     two commands of any kind, a dispatcher and a retrieval;  *)
(*   "dispatchers" a delete and a restore beside two dispatchers;          *)
(*   "redelete"   two deletes, two restores and an update, the wall clock  *)
(*                standing still.                                          *)
(* Requests are interchangeable, so they are taken up in one order.        *)
(***************************************************************************)
EXTENDS DocumentLifecycleContent

CONSTANTS c1, c2, c3, c4, c5, d1, d2, q1, Scenarios

VARIABLE scenario

Order    == <<c1, c2, c3, c4, c5>>
Requests == {c1, c2, c3, c4, c5}

Total == [commands |-> 3, reader |-> 2, dispatchers |-> 2, redelete |-> 5]
Until == [commands |-> 1, reader |-> 2, dispatchers |-> 2, redelete |-> 0]
OnlyDispatchers ==
    [commands |-> {d1}, reader |-> {d1}, dispatchers |-> {d1, d2}, redelete |-> {}]

OfKind(k) == {c \in Calls : pc[c] # "idle" /\ kind[c] = k}
AtMost(k, n) == Cardinality(OfKind(k)) <= n

Allowed ==
    CASE scenario = "dispatchers" -> AtMost("delete", 1) /\ AtMost("restore", 1)
                                     /\ AtMost("update", 0) /\ AtMost("reparse", 0)
                                     /\ AtMost("rollback", 0)
      [] scenario = "redelete"    -> AtMost("delete", 2) /\ AtMost("restore", 2)
                                     /\ AtMost("update", 1) /\ AtMost("reparse", 0)
                                     /\ AtMost("rollback", 0)
      [] OTHER                    -> TRUE

InTurn(i) ==
    /\ i <= Total[scenario]
    /\ i > 1 => pc[Order[i - 1]] # "idle"
    /\ CommandStep(Order[i]) /\ Allowed'

PlayInit == Init /\ scenario \in Scenarios

PlayNext ==
    /\ UNCHANGED scenario
    /\ \/ \E i \in 1..5 : InTurn(i)
       \/ scenario # "commands" /\ \E c \in Calls : CancelDelete(c)
       \/ \E d \in OnlyDispatchers[scenario] : DispatcherStep(d)
       \/ scenario = "reader" /\ \E q \in Readers : Retrieve(q) \/ Confirm(q)
       \/ clock < Until[scenario] /\ Tick

PlaySpec == PlayInit /\ [][PlayNext]_<<vars, scenario>>
=============================================================================
