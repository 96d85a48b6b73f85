---------------------------- MODULE StatusExchange ----------------------------
(***************************************************************************)
(* What the clients of a daemon may rely on in what it tells them of its   *)
(* peer, however many links there are: it is always a status that the peer *)
(* has published and that reached the daemon, until contact is lost; then  *)
(* it is what the loss of contact leaves of that status, until something   *)
(* is heard again.  The links together are one channel that may lose,      *)
(* duplicate and reorder.                                                  *)
(***************************************************************************)
CONSTANTS
    Node,         \* the daemons
    Peer(_),      \* the other daemon
    Nothing,      \* what is known of the peer at first
    Received(_),  \* a status as the receiver keeps it
    Stale(_)      \* what is left of it when contact is lost

VARIABLES
    own,   \* own[n]: the status of n, which changes as it will
    wire,  \* wire[n]: the statuses under way to n
    told   \* told[n]: what n last told its clients: whether its peer is reachable, and its status

view == <<wire, told>>

Silent == [reach |-> TRUE, peer |-> Nothing]

Init ==
    /\ wire = [n \in Node |-> {}]
    /\ told = [n \in Node |-> Silent]

Publish(n) ==
    /\ wire' = [wire EXCEPT ![Peer(n)] = @ \cup {own[n]}]
    /\ UNCHANGED told

Drop(n, p) ==
    /\ wire' = [wire EXCEPT ![n] = @ \ {p}]
    /\ UNCHANGED told

Hear(n, p) ==
    /\ p \in wire[n]
    /\ wire' \in {wire, [wire EXCEPT ![n] = @ \ {p}]}
    /\ told' = [told EXCEPT ![n] = [reach |-> TRUE, peer |-> Received(p)]]

\* Contact is lost once, until it is found again.
LoseContact(n) ==
    /\ told[n].reach
    /\ told' = [told EXCEPT ![n] = [reach |-> FALSE, peer |-> Stale(@.peer)]]
    /\ UNCHANGED wire

\* The peer is reachable again, with the status it was left with.
FindContact(n) ==
    /\ ~told[n].reach
    /\ told' = [told EXCEPT ![n] = [reach |-> TRUE, peer |-> @.peer]]
    /\ UNCHANGED wire

Restart(n) ==
    /\ told' = [told EXCEPT ![n] = Silent]
    /\ UNCHANGED wire

Next == \E n \in Node :
    \/ Publish(n)
    \/ LoseContact(n)
    \/ FindContact(n)
    \/ Restart(n)
    \/ \E p \in wire[n] : Drop(n, p) \/ Hear(n, p)

Spec == Init /\ [][Next]_view

=============================================================================
