---------------------------- MODULE MCPingMonitor ----------------------------
(* Instances of PingMonitor for TLC. *)
EXTENDS PingMonitor

CONSTANTS a, b, pub, prv, s1

Idle   == [mysql |-> "down", db |-> "Idle", snapshot |-> NoSnapshot,
           repl |-> 0, audio |-> "Idle", status |-> FALSE]
Master == [mysql |-> "accessible", db |-> "Master", snapshot |-> s1,
           repl |-> 10, audio |-> "Idle", status |-> FALSE]
Syncing == [Master EXCEPT !.status = TRUE]

MCNode == {a, b}
BothLinks == {pub, prv}
OneLink == {pub}
MCSnapshot == {s1}
MCReplTime == {0, 10}
TwoReports == {Idle, Master}
MoreReports == {Idle, Master, Syncing}

\* Bound: a observes b.  Its own status stays the same and b's watchdogs do not expire.
\* All that b learns of a is whether a is there, and what b sends does not depend on it,
\* so what a observes is complete.
Observing ==
    /\ own'[a] = own[a]
    /\ up'[b] => \A l \in Link : armed'[b][l]

ObservedInit == Init /\ own[a] = Idle

ObservedNext == Next /\ Observing

ObservedSpec ==
    /\ ObservedInit
    /\ [][ObservedNext]_vars
    /\ \A n \in Node : Exchanging(n)
=============================================================================
