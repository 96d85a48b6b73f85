------------------------------ MODULE StatusView ------------------------------
(***************************************************************************)
(* What a user sees of a daemon's status in several programs at once: each *)
(* program may lag behind, and may skip statuses, but it shows only what   *)
(* the daemon's status has been, and never an older one after a newer one. *)
(***************************************************************************)
EXTENDS Naturals

CONSTANT Client  \* the programs

VARIABLES
    status,  \* the daemon's status: the number of its changes
    seen     \* seen[c]: the status that c shows

view == <<status, seen>>

Init ==
    /\ status = 0
    /\ seen = [c \in Client |-> 0]

Change ==
    /\ status' = status + 1
    /\ UNCHANGED seen

Show(c, s) ==
    /\ seen[c] < s /\ s <= status
    /\ seen' = [seen EXCEPT ![c] = s]
    /\ UNCHANGED status

Next == Change \/ \E c \in Client, s \in 1..status : Show(c, s)

Spec == Init /\ [][Next]_view

=============================================================================
