---------------------------- MODULE DurableRecord ----------------------------
(***************************************************************************)
(* What a daemon needs of its state file: a record of which it changes one *)
(* field at a time, each change being stored, whole, before the next; when *)
(* the daemon dies the change under way happened or did not, and the next  *)
(* daemon goes by what is stored.                                          *)
(***************************************************************************)
CONSTANTS Field, Fresh, Values(_)

VARIABLES
    stored,   \* the record
    belief,   \* the record that the running daemon goes by
    pending   \* the daemon's last change is not stored yet

vars == <<stored, belief, pending>>

Init == stored = Fresh /\ belief = Fresh /\ pending = FALSE

Change(f, v) ==
    /\ ~pending
    /\ belief' = [belief EXCEPT ![f] = v]
    /\ pending' = TRUE
    /\ UNCHANGED stored

Store ==
    /\ pending
    /\ stored' = belief
    /\ pending' = FALSE
    /\ UNCHANGED belief

Restart ==
    /\ belief' = stored
    /\ pending' = FALSE
    /\ UNCHANGED stored

Next == Store \/ Restart \/ \E f \in Field : \E v \in Values(f) : Change(f, v)

Spec == Init /\ [][Next]_vars

\* Between changes, what the daemon goes by is what its successor will go by.
Current == ~pending => belief = stored

=============================================================================
