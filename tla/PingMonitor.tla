----------------------------- MODULE PingMonitor -----------------------------
(***************************************************************************)
(* The status exchange between the two amand(8) daemons of a cluster, as   *)
(* class PingMonitor (src/amand/pingmonitor.cpp) implements it.            *)
(*                                                                         *)
(* Every second each daemon sends one datagram "ping" with its own status  *)
(* over each of the two links.  The receiver caches the status, answers    *)
(* "pong" on the same link and, when a field changed, emits                *)
(* thatStateChanged, upon which the daemon tells its clients.  A watchdog  *)
(* per link, restarted by a pong, declares that link dead.                 *)
(*                                                                         *)
(* Datagrams may be lost, and one link may deliver later than the other.   *)
(* Time is abstracted: a watchdog that runs may expire at any moment.      *)
(***************************************************************************)
EXTENDS Naturals, FiniteSets

CONSTANTS
    Node,        \* the two daemons
    Link,        \* the links between them (the code has a public and a private one)
    Snapshot,    \* names of database snapshots
    NoSnapshot,  \* the empty name, "-" in a ping
    ReplTime,    \* replication times, in milliseconds, that a daemon measures
    Report,      \* the statuses a daemon can be in
    InFlight     \* bound: datagrams of one kind under way to a node on a link

MysqlState   == {"down", "running", "accessible"}
ClusterState == {"Offline", "Idle", "Master", "Slave"}

\* The fields of a ping.  mysql joins the flags "running" and "accessible":
\* CheckLocalState never reports a server that is accessible but not running.
Advert == [mysql : MysqlState, db : ClusterState,
           snapshot : Snapshot \cup {NoSnapshot}, repl : ReplTime,
           audio : {"Idle", "Slave"}, status : BOOLEAN]

ASSUME NodeAssumption == \E a, b \in Node : a # b /\ Node = {a, b}
ASSUME LinkAssumption == IsFiniteSet(Link) /\ Link # {}
ASSUME NameAssumption == NoSnapshot \notin Snapshot
ASSUME TimeAssumption == 0 \in ReplTime /\ ReplTime \subseteq Nat
ASSUME ReportAssumption == Report \subseteq Advert
ASSUME BoundAssumption == InFlight \in Nat \ {0}

Peer(n) == CHOOSE m \in Node : m # n

VARIABLES
    up,     \* up[n]: the daemon of n is running
    own,    \* own[n]: the status n reports of itself (the [Am::This] entries)
    that,   \* that[n]: what n has cached of its peer (the [Am::That] entries)
    reach,  \* reach[n][l]: ping_reachable[l]
    armed,  \* armed[n][l]: ping_watchdog_timer[l] is running
    pings,  \* pings[n][l]: pings under way to n on link l
    pongs,  \* pongs[n][l]: a pong is under way to n on link l
    told    \* told[n]: what n last told its clients about its peer

monitorVars == <<that, reach, armed, told>>
netVars     == <<pings, pongs>>
vars        == <<up, own, monitorVars, netVars>>

\* A received replication time goes through a variable of type bool.
AsBool(t) == IF t = 0 THEN 0 ELSE 1

Cached == [mysql : MysqlState, db : ClusterState,
           snapshot : Snapshot \cup {NoSnapshot}, repl : {0, 1},
           audio : {"Idle", "Slave"}, status : BOOLEAN]

\* The cache of a daemon that has just started.
Blank == [mysql |-> "down", db |-> "Offline", snapshot |-> NoSnapshot,
          repl |-> 0, audio |-> "Idle", status |-> FALSE]

TypeOK ==
    /\ up \in [Node -> BOOLEAN]
    /\ own \in [Node -> Report]
    /\ that \in [Node -> Cached]
    /\ reach \in [Node -> [Link -> BOOLEAN]]
    /\ armed \in [Node -> [Link -> BOOLEAN]]
    /\ pings \in [Node -> [Link -> SUBSET Report]]
    /\ pongs \in [Node -> [Link -> BOOLEAN]]
    /\ told \in [Node -> [reach : BOOLEAN, peer : Cached]]

Init ==
    /\ up = [n \in Node |-> FALSE]
    /\ own \in [Node -> Report]
    /\ that = [n \in Node |-> Blank]
    /\ reach = [n \in Node |-> [l \in Link |-> TRUE]]
    /\ armed = [n \in Node |-> [l \in Link |-> FALSE]]
    /\ pings = [n \in Node |-> [l \in Link |-> {}]]
    /\ pongs = [n \in Node |-> [l \in Link |-> FALSE]]
    /\ told = [n \in Node |-> [reach |-> TRUE, peer |-> Blank]]

Reachable(n) == \E l \in Link : reach[n][l]

\* The peer's database state as the daemon and its clients see it.
ThatDbState(n) ==
    IF Reachable(n) /\ that[n].mysql = "accessible" THEN that[n].db ELSE "Offline"

-----------------------------------------------------------------------------
(* The operations of the monitor.  None says what becomes of own: the        *)
(* daemon's handler of thatStateChanged may change it in the same step.      *)

StartMonitor(n) ==
    /\ ~up[n]
    /\ up' = [up EXCEPT ![n] = TRUE]
    /\ that' = [that EXCEPT ![n] = Blank]
    /\ reach' = [reach EXCEPT ![n] = [l \in Link |-> TRUE]]
    /\ armed' = [armed EXCEPT ![n] = [l \in Link |-> TRUE]]
    /\ told' = [told EXCEPT ![n] = [reach |-> TRUE, peer |-> Blank]]
    /\ UNCHANGED netVars

\* The daemon dies.  What it had in memory is gone; it is written back to the
\* value a start gives it, which nothing reads before.
Crash(n) ==
    /\ up[n]
    /\ up' = [up EXCEPT ![n] = FALSE]
    /\ that' = [that EXCEPT ![n] = Blank]
    /\ reach' = [reach EXCEPT ![n] = [l \in Link |-> TRUE]]
    /\ armed' = [armed EXCEPT ![n] = [l \in Link |-> FALSE]]
    /\ told' = [told EXCEPT ![n] = [reach |-> TRUE, peer |-> Blank]]
    /\ UNCHANGED netVars

\* The same status on every link; a full link loses it.
SendPing(n) ==
    /\ up[n]
    /\ pings' = [pings EXCEPT ![Peer(n)] = [l \in Link |->
                     IF Cardinality(@[l]) < InFlight THEN @[l] \cup {own[n]} ELSE @[l]]]
    /\ UNCHANGED <<up, monitorVars, pongs>>

\* Mutant: the exception for a missing name covers the other fields as well.
MutDiffers(n, p) ==
    /\ p.snapshot # NoSnapshot
    /\ \/ \E f \in {"mysql", "db", "audio", "status"} : p[f] # that[n][f]
       \/ AsBool(p.repl) # that[n].repl
       \/ p.snapshot # that[n].snapshot

\* A ping is news when a field differs from the cache, except that no snapshot
\* name never counts as a difference.
Differs(n, p) ==
    \/ \E f \in {"mysql", "db", "audio", "status"} : p[f] # that[n][f]
    \/ AsBool(p.repl) # that[n].repl
    \/ p.snapshot # NoSnapshot /\ p.snapshot # that[n].snapshot

Learn(p) == [p EXCEPT !.repl = AsBool(@)]

ReceivePing(n, l, p) ==
    /\ up[n]
    /\ p \in pings[n][l]
    /\ pings' = [pings EXCEPT ![n][l] = @ \ {p}]
    /\ reach' = [reach EXCEPT ![n][l] = TRUE]
    /\ IF Differs(n, p)
       THEN /\ that' = [that EXCEPT ![n] = Learn(p)]
            /\ told' = [told EXCEPT ![n] = [reach |-> TRUE, peer |-> Learn(p)]]
       ELSE UNCHANGED <<that, told>>
    /\ pongs' = [pongs EXCEPT ![Peer(n)][l] = TRUE]
    /\ UNCHANGED <<up, armed>>

ReceivePong(n, l) ==
    /\ up[n]
    /\ pongs[n][l]
    /\ pongs' = [pongs EXCEPT ![n][l] = FALSE]
    /\ armed' = [armed EXCEPT ![n][l] = TRUE]
    /\ UNCHANGED <<up, that, reach, told, pings>>

\* Mutant: the links are compared before this one is marked unreachable.
MutLastLink(n, l) == reach[n][l] /\ \A k \in Link \ {l} : reach[n][k]

\* The last link that was still reachable is being lost.
LastLink(n, l) == reach[n][l] /\ \A k \in Link \ {l} : ~reach[n][k]

\* Mutants: the time is not cleared; nothing is.
MutForgetServer(c) == [c EXCEPT !.mysql = "down"]
MutKeep(c) == c

Forget(c) == [c EXCEPT !.mysql = "down", !.repl = 0]

\* Mutant: clients are told before the cache is cleared.
MutWatchdogTimeout(n, l) ==
    /\ up[n]
    /\ armed[n][l]
    /\ armed' = [armed EXCEPT ![n][l] = FALSE]
    /\ reach' = [reach EXCEPT ![n][l] = FALSE]
    /\ IF LastLink(n, l)
       THEN /\ that' = [that EXCEPT ![n] = Forget(@)]
            /\ told' = [told EXCEPT ![n] = [reach |-> FALSE, peer |-> that[n]]]
       ELSE UNCHANGED <<that, told>>
    /\ UNCHANGED <<up, netVars>>

WatchdogTimeout(n, l) ==
    /\ up[n]
    /\ armed[n][l]
    /\ armed' = [armed EXCEPT ![n][l] = FALSE]
    /\ reach' = [reach EXCEPT ![n][l] = FALSE]
    /\ IF LastLink(n, l)
       THEN /\ that' = [that EXCEPT ![n] = Forget(@)]
            /\ told' = [told EXCEPT ![n] = [reach |-> FALSE, peer |-> Forget(that[n])]]
       ELSE UNCHANGED <<that, told>>
    /\ UNCHANGED <<up, netVars>>

\* The network, or the kernel of a node whose daemon is down, drops a datagram.
LosePing(n, l, p) ==
    /\ p \in pings[n][l]
    /\ pings' = [pings EXCEPT ![n][l] = @ \ {p}]
    /\ UNCHANGED <<up, monitorVars, pongs>>

LosePong(n, l) ==
    /\ pongs[n][l]
    /\ pongs' = [pongs EXCEPT ![n][l] = FALSE]
    /\ UNCHANGED <<up, monitorVars, pings>>

-----------------------------------------------------------------------------
(* The monitor in a daemon that may report any status at any time.           *)

Start(n) == StartMonitor(n) /\ UNCHANGED own

SetThisStatus(n, p) ==
    /\ up[n]
    /\ own[n] # p
    /\ own' = [own EXCEPT ![n] = p]
    /\ UNCHANGED <<up, monitorVars, netVars>>

Next == \E n \in Node :
    \/ Start(n)
    \/ Crash(n) /\ UNCHANGED own
    \/ SendPing(n) /\ UNCHANGED own
    \/ \E p \in Report : SetThisStatus(n, p)
    \/ \E l \in Link :
        \/ ReceivePong(n, l) /\ UNCHANGED own
        \/ WatchdogTimeout(n, l) /\ UNCHANGED own
        \/ LosePong(n, l) /\ UNCHANGED own
        \/ \E p \in pings[n][l] :
            \/ ReceivePing(n, l, p) /\ UNCHANGED own
            \/ LosePing(n, l, p) /\ UNCHANGED own

Spec == Init /\ [][Next]_vars

(* Fairness.  A daemon's timers fire and its event loop runs; of the pings that *)
(* are sent every second, some arrive over some link.                          *)

Exchanging(n) ==
    /\ WF_vars(SendPing(n) /\ UNCHANGED own)
    /\ SF_vars(\E l \in Link, p \in Report : ReceivePing(n, l, p) /\ UNCHANGED own)

(* A watchdog that pongs do not go on restarting expires, and a link that keeps *)
(* being tried delivers pongs now and then.                                    *)

Watchdogs(n) == \A l \in Link :
    /\ \/ []<><<ReceivePong(n, l) /\ UNCHANGED own>>_vars
       \/ WF_vars(WatchdogTimeout(n, l) /\ UNCHANGED own)
    /\ SF_vars(ReceivePong(n, l) /\ UNCHANGED own)

FairSpec == Spec /\ \A n \in Node : Exchanging(n) /\ Watchdogs(n)

-----------------------------------------------------------------------------
(* Properties.                                                               *)

\* A daemon that hears nothing from its peer on any link never reports that the
\* peer's database server runs or replicates: StateUpdateArgs sends the cached
\* flags to clients whether or not the peer is reachable, so the cache itself
\* must have been cleared, whichever link failed last.
UnreachableIsDown == \A n \in Node :
    ~Reachable(n) => that[n].mysql = "down" /\ that[n].repl = 0

\* Clients that believe the peer reachable are never left believing it: the loss
\* of the last link is always announced (socketTimeoutData emits).
LossIsAnnounced == \A n \in Node : told[n].reach => Reachable(n)

\* The converse holds only while the peer's database server runs.  A ping that
\* makes a link reachable again is announced only because a field of it differs
\* from the cache, which the loss of the links has set to "down".
RecoveryIsAnnounced == \A n \in Node :
    Reachable(n) /\ that[n].mysql # "down" => told[n].reach

\* What clients are told of the peer follows StatusExchange: it comes from the statuses
\* the peer has sent, over whichever link, and each loss of contact is told once.  A
\* status that is news on one link may still be under way on another.
Wire == [n \in Node |-> UNION {pings[n][l] : l \in Link}]

Exchange == INSTANCE StatusExchange WITH
    Nothing <- Blank,
    Received <- Learn,
    Stale <- Forget,
    wire <- Wire

IsStatusExchange == Exchange!Spec

\* The cache tells the truth about the peer, as far as the protocol carries it.
Agrees(n) ==
    LET p == own[Peer(n)] IN
    /\ \A f \in {"mysql", "db", "audio", "status"} : that[n][f] = p[f]
    /\ that[n].repl = AsBool(p.repl)
    /\ p.snapshot # NoSnapshot => that[n].snapshot = p.snapshot

\* From some time on both daemons run, report the same, and no watchdog expires.
Disturbance == \E n \in Node :
    \/ Start(n)
    \/ Crash(n) /\ UNCHANGED own
    \/ \E p \in Report : SetThisStatus(n, p)
    \/ \E l \in Link : WatchdogTimeout(n, l) /\ UNCHANGED own

Settled == <>[](\A n \in Node : up[n]) /\ <>[][~Disturbance]_vars

\* Once the daemons have settled, each cache comes to agree with the peer and
\* stays so, although pings are lost, carry no sequence number, and arrive out of
\* order between the links (socketReadyData overwrites the cache with each): a status
\* that was sent before the last change may still come, over the other link.
CacheConverges == Settled => <>[](\A n \in Node : Agrees(n))

\* docs/command_protocol.txt, line 25: what clients are told of the peer is its
\* replication time in milliseconds, so a time that a daemon can have measured.
TimeIsPassedOn == \A n \in Node : told[n].peer.repl \in ReplTime

\* docs/command_protocol.txt, line 17: the ping state is the running status of
\* amand(8).  So a daemon that is down for good is finally shown unreachable.
DeathIsNoticed == \A n \in Node :
    <>[](up[n] /\ ~up[Peer(n)]) => <>[]~Reachable(n)

=============================================================================
