-------------------------- MODULE PingMonitor_proofs --------------------------
(***************************************************************************)
(* Proofs about PingMonitor.  The operations leave open what becomes of    *)
(* own, so each lemma about an operation holds in the daemon (Amand) too.  *)
(***************************************************************************)
EXTENDS PingMonitor, TLAPS

LEMMA PeerIsOther == ASSUME NEW n \in Node
                     PROVE  Peer(n) \in Node /\ Peer(n) # n
  BY NodeAssumption DEF Peer

LEMMA BlankIsCached == Blank \in Cached
  BY DEF Blank, Cached, MysqlState, ClusterState

\* What is cached of a ping has the type of the cache: its time is 0 or 1.
LEMMA LearnIsCached == ASSUME NEW p \in Report PROVE Learn(p) \in Cached
<1>1. p \in Advert
  BY ReportAssumption
<1>2. AsBool(p.repl) \in {0, 1}
  BY DEF AsBool
<1> QED
  BY <1>1, <1>2 DEF Learn, Advert, Cached

LEMMA ForgetIsCached == ASSUME NEW c \in Cached PROVE Forget(c) \in Cached
  BY DEF Forget, Cached, MysqlState

-----------------------------------------------------------------------------
(* Types: each operation of the monitor keeps them if own keeps its own.     *)

OwnTyped == own' \in [Node -> Report]

LEMMA StartMonitorTyped ==
    ASSUME TypeOK, OwnTyped, NEW n \in Node, StartMonitor(n) PROVE TypeOK'
  BY BlankIsCached DEF TypeOK, OwnTyped, StartMonitor, netVars

LEMMA CrashTyped ==
    ASSUME TypeOK, OwnTyped, NEW n \in Node, Crash(n) PROVE TypeOK'
  BY BlankIsCached DEF TypeOK, OwnTyped, Crash, netVars

LEMMA SendPingTyped ==
    ASSUME TypeOK, OwnTyped, NEW n \in Node, SendPing(n) PROVE TypeOK'
<1>1. Peer(n) \in Node
  BY PeerIsOther
<1>2. pings' \in [Node -> [Link -> SUBSET Report]]
  BY <1>1 DEF TypeOK, SendPing
<1> QED
  BY <1>2 DEF TypeOK, OwnTyped, SendPing, monitorVars

LEMMA ReceivePingTyped ==
    ASSUME TypeOK, OwnTyped, NEW n \in Node, NEW l \in Link, NEW p, ReceivePing(n, l, p)
    PROVE  TypeOK'
<1>1. p \in Report /\ Peer(n) \in Node
  BY PeerIsOther DEF TypeOK, ReceivePing
<1>2. Learn(p) \in Cached
  BY <1>1, LearnIsCached
<1> DEFINE news == [reach |-> TRUE, peer |-> Learn(p)]
<1>3. that' \in [Node -> Cached] /\ told' \in [Node -> [reach : BOOLEAN, peer : Cached]]
  <2>1. news \in [reach : BOOLEAN, peer : Cached]
    BY <1>2
  <2>2. \/ that' = [that EXCEPT ![n] = Learn(p)] /\ told' = [told EXCEPT ![n] = news]
        \/ UNCHANGED <<that, told>>
    BY DEF ReceivePing
  <2> HIDE DEF news
  <2>3. that' \in [Node -> Cached]
    BY <1>2, <2>2 DEF TypeOK
  <2>4. told' \in [Node -> [reach : BOOLEAN, peer : Cached]]
    BY <2>1, <2>2 DEF TypeOK
  <2> QED
    BY <2>3, <2>4
<1>4. /\ reach' \in [Node -> [Link -> BOOLEAN]]
      /\ pings' \in [Node -> [Link -> SUBSET Report]]
      /\ pongs' \in [Node -> [Link -> BOOLEAN]]
  BY <1>1 DEF TypeOK, ReceivePing
<1> QED
  BY <1>3, <1>4 DEF TypeOK, OwnTyped, ReceivePing

LEMMA ReceivePongTyped ==
    ASSUME TypeOK, OwnTyped, NEW n \in Node, NEW l \in Link, ReceivePong(n, l)
    PROVE  TypeOK'
  BY DEF TypeOK, OwnTyped, ReceivePong

LEMMA WatchdogTimeoutTyped ==
    ASSUME TypeOK, OwnTyped, NEW n \in Node, NEW l \in Link, WatchdogTimeout(n, l)
    PROVE  TypeOK'
<1> DEFINE news == [reach |-> FALSE, peer |-> Forget(that[n])]
<1>1. Forget(that[n]) \in Cached /\ news \in [reach : BOOLEAN, peer : Cached]
  BY ForgetIsCached DEF TypeOK
<1>2. \/ that' = [that EXCEPT ![n] = Forget(that[n])] /\ told' = [told EXCEPT ![n] = news]
      \/ UNCHANGED <<that, told>>
  BY DEF WatchdogTimeout
<1> HIDE DEF news
<1>3. that' \in [Node -> Cached]
  BY <1>1, <1>2 DEF TypeOK
<1>4. told' \in [Node -> [reach : BOOLEAN, peer : Cached]]
  BY <1>1, <1>2 DEF TypeOK
<1> QED
  BY <1>3, <1>4 DEF TypeOK, OwnTyped, WatchdogTimeout, netVars

LEMMA LosePingTyped ==
    ASSUME TypeOK, OwnTyped, NEW n \in Node, NEW l \in Link, NEW p, LosePing(n, l, p)
    PROVE  TypeOK'
  BY DEF TypeOK, OwnTyped, LosePing, monitorVars

LEMMA LosePongTyped ==
    ASSUME TypeOK, OwnTyped, NEW n \in Node, NEW l \in Link, LosePong(n, l)
    PROVE  TypeOK'
  BY DEF TypeOK, OwnTyped, LosePong, monitorVars

LEMMA InitTyped == Init => TypeOK
  BY BlankIsCached DEF Init, TypeOK

LEMMA NextTyped == TypeOK /\ [Next]_vars => TypeOK'
<1> SUFFICES ASSUME TypeOK, [Next]_vars PROVE TypeOK'
  OBVIOUS
<1>1. CASE UNCHANGED vars
  BY <1>1 DEF TypeOK, vars, monitorVars, netVars
<1>2. ASSUME NEW n \in Node, Start(n) PROVE TypeOK'
  BY <1>2, StartMonitorTyped DEF Start, OwnTyped, TypeOK
<1>3. ASSUME NEW n \in Node, Crash(n) /\ UNCHANGED own PROVE TypeOK'
  BY <1>3, CrashTyped DEF OwnTyped, TypeOK
<1>4. ASSUME NEW n \in Node, SendPing(n) /\ UNCHANGED own PROVE TypeOK'
  BY <1>4, SendPingTyped DEF OwnTyped, TypeOK
<1>5. ASSUME NEW n \in Node, NEW p \in Report, SetThisStatus(n, p) PROVE TypeOK'
  BY <1>5 DEF SetThisStatus, TypeOK, monitorVars, netVars
<1>6. ASSUME NEW n \in Node, NEW l \in Link, ReceivePong(n, l) /\ UNCHANGED own PROVE TypeOK'
  BY <1>6, ReceivePongTyped DEF OwnTyped, TypeOK
<1>7. ASSUME NEW n \in Node, NEW l \in Link, WatchdogTimeout(n, l) /\ UNCHANGED own PROVE TypeOK'
  BY <1>7, WatchdogTimeoutTyped DEF OwnTyped, TypeOK
<1>8. ASSUME NEW n \in Node, NEW l \in Link, LosePong(n, l) /\ UNCHANGED own PROVE TypeOK'
  BY <1>8, LosePongTyped DEF OwnTyped, TypeOK
<1>9. ASSUME NEW n \in Node, NEW l \in Link, NEW p \in pings[n][l],
             ReceivePing(n, l, p) /\ UNCHANGED own
      PROVE  TypeOK'
  BY <1>9, ReceivePingTyped DEF OwnTyped, TypeOK
<1>10. ASSUME NEW n \in Node, NEW l \in Link, NEW p \in pings[n][l],
              LosePing(n, l, p) /\ UNCHANGED own
       PROVE  TypeOK'
  BY <1>10, LosePingTyped DEF OwnTyped, TypeOK
<1> QED
  BY <1>1, <1>2, <1>3, <1>4, <1>5, <1>6, <1>7, <1>8, <1>9, <1>10 DEF Next

\* Every variable of the monitor keeps its type: in particular a cached
\* replication time is 0 or 1 (ping_mysql_replication_time[Am::That]).
THEOREM TypeCorrect == Spec => []TypeOK
<1>1. Init => TypeOK
  BY InitTyped
<1>2. TypeOK /\ [Next]_vars => TypeOK'
  BY NextTyped
<1> QED
  BY <1>1, <1>2, PTL DEF Spec

-----------------------------------------------------------------------------
(* What the monitor knows and what it has announced.  The two directions of  *)
(* the announcement need each other's invariant: a link that becomes         *)
(* reachable without a word is covered because the cache is "down" then.     *)

KnowledgeInv == UnreachableIsDown /\ LossIsAnnounced /\ RecoveryIsAnnounced

\* A node whose monitor starts, or is dead, knows nothing and has said nothing.
LEMMA BlankKnowledge ==
    ASSUME KnowledgeInv, TypeOK, NEW n \in Node,
           that' = [that EXCEPT ![n] = Blank],
           reach' = [reach EXCEPT ![n] = [l \in Link |-> TRUE]],
           told' = [told EXCEPT ![n] = [reach |-> TRUE, peer |-> Blank]]
    PROVE  KnowledgeInv'
<1> PICK k \in Link : TRUE
  BY LinkAssumption
<1> SUFFICES ASSUME NEW m \in Node
             PROVE  /\ Reachable(m)' \/ (that'[m].mysql = "down" /\ that'[m].repl = 0)
                    /\ told'[m].reach => Reachable(m)'
                    /\ Reachable(m)' /\ that'[m].mysql # "down" => told'[m].reach
  BY DEF KnowledgeInv, UnreachableIsDown, LossIsAnnounced, RecoveryIsAnnounced
<1>1. CASE m = n
  <2>1. reach'[n] = [l \in Link |-> TRUE] /\ told'[n].reach
    BY DEF TypeOK
  <2> QED
    BY <1>1, <2>1 DEF Reachable
<1>2. CASE m # n
  BY <1>2 DEF TypeOK, KnowledgeInv, UnreachableIsDown, LossIsAnnounced,
              RecoveryIsAnnounced, Reachable
<1> QED
  BY <1>1, <1>2

\* Hearing from the peer makes it reachable; either the cache changes and that is
\* announced, or the cache was up to date, and if it was not "down" the peer was
\* believed reachable before.
LEMMA ReceivePingKnowledge ==
    ASSUME KnowledgeInv, TypeOK, NEW n \in Node, NEW l \in Link, NEW p, ReceivePing(n, l, p)
    PROVE  KnowledgeInv'
<1>1. reach'[n][l] /\ \A m \in Node \ {n} : reach'[m] = reach[m]
  BY DEF TypeOK, ReceivePing
<1> SUFFICES ASSUME NEW m \in Node
             PROVE  /\ Reachable(m)' \/ (that'[m].mysql = "down" /\ that'[m].repl = 0)
                    /\ told'[m].reach => Reachable(m)'
                    /\ Reachable(m)' /\ that'[m].mysql # "down" => told'[m].reach
  BY DEF KnowledgeInv, UnreachableIsDown, LossIsAnnounced, RecoveryIsAnnounced
<1>2. CASE m # n
  <2>1. that'[m] = that[m] /\ told'[m] = told[m]
    BY <1>2 DEF TypeOK, ReceivePing
  <2> QED
    BY <1>1, <1>2, <2>1 DEF KnowledgeInv, UnreachableIsDown, LossIsAnnounced,
                            RecoveryIsAnnounced, Reachable
<1>3. CASE m = n
  <2>1. Reachable(n)'
    BY <1>1 DEF Reachable
  <2>2. CASE Differs(n, p)
    BY <1>3, <2>1, <2>2 DEF TypeOK, ReceivePing
  <2>3. CASE ~Differs(n, p)
    <3>1. that' = that /\ told' = told
      BY <2>3 DEF ReceivePing
    <3>2. that[n].mysql # "down" => told[n].reach
      BY DEF KnowledgeInv, UnreachableIsDown, RecoveryIsAnnounced
    <3> QED
      BY <1>3, <2>1, <3>1, <3>2
  <2> QED
    BY <2>2, <2>3
<1> QED
  BY <1>2, <1>3

\* A watchdog that takes the last link clears the cache and announces it; one that
\* leaves another link reachable leaves the peer reachable.
LEMMA WatchdogTimeoutKnowledge ==
    ASSUME KnowledgeInv, TypeOK, NEW n \in Node, NEW l \in Link, WatchdogTimeout(n, l)
    PROVE  KnowledgeInv'
<1>1. /\ \A k \in Link : reach'[n][k] = (IF k = l THEN FALSE ELSE reach[n][k])
      /\ \A m \in Node \ {n} : reach'[m] = reach[m]
  BY DEF TypeOK, WatchdogTimeout
<1> SUFFICES ASSUME NEW m \in Node
             PROVE  /\ Reachable(m)' \/ (that'[m].mysql = "down" /\ that'[m].repl = 0)
                    /\ told'[m].reach => Reachable(m)'
                    /\ Reachable(m)' /\ that'[m].mysql # "down" => told'[m].reach
  BY DEF KnowledgeInv, UnreachableIsDown, LossIsAnnounced, RecoveryIsAnnounced
<1>2. CASE m # n
  <2>1. that'[m] = that[m] /\ told'[m] = told[m]
    BY <1>2 DEF TypeOK, WatchdogTimeout
  <2> QED
    BY <1>1, <1>2, <2>1 DEF KnowledgeInv, UnreachableIsDown, LossIsAnnounced,
                            RecoveryIsAnnounced, Reachable
<1>3. CASE m = n /\ LastLink(n, l)
  <2>1. ~Reachable(n)'
    BY <1>1, <1>3 DEF Reachable, LastLink
  <2>2. that'[n] = Forget(that[n]) /\ ~told'[n].reach
    BY <1>3 DEF TypeOK, WatchdogTimeout
  <2>3. Forget(that[n]).mysql = "down" /\ Forget(that[n]).repl = 0
    BY DEF TypeOK, Cached, Forget
  <2> QED
    BY <1>3, <2>1, <2>2, <2>3
<1>4. CASE m = n /\ ~LastLink(n, l)
  <2>1. that' = that /\ told' = told
    BY <1>4 DEF WatchdogTimeout
  <2>2. Reachable(n)' = Reachable(n)
    BY <1>1, <1>4 DEF Reachable, LastLink
  <2> QED
    BY <1>4, <2>1, <2>2 DEF KnowledgeInv, UnreachableIsDown, LossIsAnnounced,
                            RecoveryIsAnnounced
<1> QED
  BY <1>2, <1>3, <1>4

LEMMA SameKnowledge ==
    ASSUME KnowledgeInv, UNCHANGED <<that, reach, told>> PROVE KnowledgeInv'
  BY DEF KnowledgeInv, UnreachableIsDown, LossIsAnnounced, RecoveryIsAnnounced, Reachable

LEMMA InitKnowledge == Init => KnowledgeInv
<1> PICK k \in Link : TRUE
  BY LinkAssumption
<1> SUFFICES ASSUME Init PROVE KnowledgeInv
  OBVIOUS
<1>1. \A n \in Node : Reachable(n) /\ told[n].reach
  BY DEF Init, Reachable
<1> QED
  BY <1>1 DEF KnowledgeInv, UnreachableIsDown, LossIsAnnounced, RecoveryIsAnnounced

LEMMA NextKnowledge == TypeOK /\ KnowledgeInv /\ [Next]_vars => KnowledgeInv'
<1> SUFFICES ASSUME TypeOK, KnowledgeInv, [Next]_vars PROVE KnowledgeInv'
  OBVIOUS
<1>1. CASE UNCHANGED vars
  BY <1>1, SameKnowledge DEF vars, monitorVars
<1>2. ASSUME NEW n \in Node, StartMonitor(n) PROVE KnowledgeInv'
  BY <1>2, BlankKnowledge DEF StartMonitor
<1>3. ASSUME NEW n \in Node, Crash(n) PROVE KnowledgeInv'
  BY <1>3, BlankKnowledge DEF Crash
<1>4. ASSUME NEW n \in Node, SendPing(n) PROVE KnowledgeInv'
  BY <1>4, SameKnowledge DEF SendPing, monitorVars
<1>5. ASSUME NEW n \in Node, NEW p \in Report, SetThisStatus(n, p) PROVE KnowledgeInv'
  BY <1>5, SameKnowledge DEF SetThisStatus, monitorVars
<1>6. ASSUME NEW n \in Node, NEW l \in Link, ReceivePong(n, l) PROVE KnowledgeInv'
  BY <1>6, SameKnowledge DEF ReceivePong
<1>7. ASSUME NEW n \in Node, NEW l \in Link, WatchdogTimeout(n, l) PROVE KnowledgeInv'
  BY <1>7, WatchdogTimeoutKnowledge
<1>8. ASSUME NEW n \in Node, NEW l \in Link, LosePong(n, l) PROVE KnowledgeInv'
  BY <1>8, SameKnowledge DEF LosePong, monitorVars
<1>9. ASSUME NEW n \in Node, NEW l \in Link, NEW p \in pings[n][l], ReceivePing(n, l, p)
      PROVE  KnowledgeInv'
  BY <1>9, ReceivePingKnowledge
<1>10. ASSUME NEW n \in Node, NEW l \in Link, NEW p \in pings[n][l], LosePing(n, l, p)
       PROVE  KnowledgeInv'
  BY <1>10, SameKnowledge DEF LosePing, monitorVars
<1> QED
  BY <1>1, <1>2, <1>3, <1>4, <1>5, <1>6, <1>7, <1>8, <1>9, <1>10 DEF Next, Start

LEMMA KnowledgeInvariant == Spec => []KnowledgeInv
<1>1. Init => TypeOK /\ KnowledgeInv
  BY InitTyped, InitKnowledge
<1>2. TypeOK /\ KnowledgeInv /\ [Next]_vars => (TypeOK /\ KnowledgeInv)'
  BY NextTyped, NextKnowledge
<1> QED
  BY <1>1, <1>2, PTL DEF Spec

\* A daemon whose links are all lost never reports a peer whose database runs or
\* replicates, for any number of links (socketTimeoutData clears the cache).
THEOREM UnreachableIsDownHolds == Spec => []UnreachableIsDown
<1>1. KnowledgeInv => UnreachableIsDown
  BY DEF KnowledgeInv
<1> QED
  BY <1>1, KnowledgeInvariant, PTL

\* Clients are always told of the loss of the last link.
THEOREM LossIsAnnouncedHolds == Spec => []LossIsAnnounced
<1>1. KnowledgeInv => LossIsAnnounced
  BY DEF KnowledgeInv
<1> QED
  BY <1>1, KnowledgeInvariant, PTL

\* Clients are told that a peer is reachable again if its database server runs.
THEOREM RecoveryIsAnnouncedHolds == Spec => []RecoveryIsAnnounced
<1>1. KnowledgeInv => RecoveryIsAnnounced
  BY DEF KnowledgeInv
<1> QED
  BY <1>1, KnowledgeInvariant, PTL

-----------------------------------------------------------------------------
(* The monitor implements StatusExchange.  Its clients have always been told   *)
(* of what is cached, except that the peer is reachable again when nothing of   *)
(* it has changed.  Each lemma is about one operation, whatever becomes of own. *)

ToldInv == \A n \in Node :
    /\ told[n].peer = that[n]
    /\ told[n].reach \/ that[n] = Forget(that[n])

LEMMA InitTold == Init => ToldInv
  BY DEF Init, ToldInv

LEMMA SameTold == ASSUME ToldInv, UNCHANGED <<that, told>> PROVE ToldInv'
  BY DEF ToldInv

\* A node tells what it caches in the same step.
LEMMA NewTold ==
    ASSUME TypeOK, ToldInv, NEW n \in Node, NEW c, NEW r,
           that' = [that EXCEPT ![n] = c],
           told' = [told EXCEPT ![n] = [reach |-> r, peer |-> c]],
           r \/ c = Forget(c)
    PROVE  ToldInv'
<1> SUFFICES ASSUME NEW m \in Node
             PROVE  /\ told'[m].peer = that'[m]
                    /\ told'[m].reach \/ that'[m] = Forget(that'[m])
  BY DEF ToldInv
<1>1. CASE m = n
  <2>1. that'[m] = c /\ told'[m] = [reach |-> r, peer |-> c]
    BY <1>1 DEF TypeOK
  <2> QED
    BY <2>1
<1>2. CASE m # n
  <2>1. that'[m] = that[m] /\ told'[m] = told[m]
    BY <1>2 DEF TypeOK
  <2> QED
    BY <2>1 DEF ToldInv
<1> QED
  BY <1>1, <1>2

LEMMA ForgetTwice == ASSUME NEW c \in Cached PROVE Forget(Forget(c)) = Forget(c)
  BY DEF Forget, Cached

LEMMA ReceivePingTold ==
    ASSUME TypeOK, ToldInv, NEW n \in Node, NEW l \in Link, NEW p, ReceivePing(n, l, p)
    PROVE  ToldInv'
<1>1. CASE Differs(n, p)
  BY <1>1, NewTold DEF ReceivePing
<1>2. CASE ~Differs(n, p)
  BY <1>2, SameTold DEF ReceivePing
<1> QED
  BY <1>1, <1>2

LEMMA WatchdogTimeoutTold ==
    ASSUME TypeOK, ToldInv, NEW n \in Node, NEW l \in Link, WatchdogTimeout(n, l)
    PROVE  ToldInv'
<1>1. CASE LastLink(n, l)
  <2>1. Forget(that[n]) = Forget(Forget(that[n]))
    BY ForgetTwice DEF TypeOK
  <2> QED
    BY <1>1, <2>1, NewTold DEF WatchdogTimeout
<1>2. CASE ~LastLink(n, l)
  BY <1>2, SameTold DEF WatchdogTimeout
<1> QED
  BY <1>1, <1>2

LEMMA NextTold == TypeOK /\ ToldInv /\ [Next]_vars => ToldInv'
<1> SUFFICES ASSUME TypeOK, ToldInv, [Next]_vars PROVE ToldInv'
  OBVIOUS
<1>1. ASSUME NEW n \in Node, StartMonitor(n) \/ Crash(n) PROVE ToldInv'
  BY <1>1, NewTold DEF StartMonitor, Crash
<1>2. ASSUME UNCHANGED <<that, told>> PROVE ToldInv'
  BY <1>2, SameTold
<1> QED
  BY <1>1, <1>2, ReceivePingTold, WatchdogTimeoutTold
     DEF Next, Start, SendPing, SetThisStatus, ReceivePong, LosePong, LosePing, vars, monitorVars

\* Two links lose what one of them loses, unless it is on the other as well.
LEMMA WireTaken ==
    ASSUME TypeOK, NEW n \in Node, NEW l \in Link, NEW p,
           pings' = [pings EXCEPT ![n][l] = @ \ {p}]
    PROVE  Wire' = Wire \/ Wire' = [Wire EXCEPT ![n] = @ \ {p}]
<1>1. \A m \in Node \ {n} : pings'[m] = pings[m]
  BY DEF TypeOK
<1>2. \A k \in Link : pings'[n][k] = IF k = l THEN pings[n][l] \ {p} ELSE pings[n][k]
  BY DEF TypeOK
<1>3. \A m \in Node \ {n} : Wire'[m] = Wire[m]
  BY <1>1 DEF Wire
<1>4. CASE \E k \in Link \ {l} : p \in pings[n][k]
  <2>1. Wire'[n] = Wire[n]
    BY <1>2, <1>4 DEF Wire
  <2> QED
    BY <1>3, <2>1 DEF Wire
<1>5. CASE ~ \E k \in Link \ {l} : p \in pings[n][k]
  <2>1. Wire'[n] = Wire[n] \ {p}
    BY <1>2, <1>5 DEF Wire
  <2> QED
    BY <1>3, <2>1 DEF Wire
<1> QED
  BY <1>4, <1>5

\* A ping is under way if a link had room for it.
LEMMA SendPingExchange ==
    ASSUME TypeOK, NEW n \in Node, SendPing(n)
    PROVE  Exchange!Publish(n) \/ UNCHANGED <<Wire, told>>
<1> DEFINE m == Peer(n)
<1>1. m \in Node
  BY PeerIsOther
<1>2. /\ \A k \in Node \ {m} : pings'[k] = pings[k]
      /\ \A l \in Link : pings'[m][l] \in {pings[m][l], pings[m][l] \cup {own[n]}}
  BY <1>1 DEF SendPing, TypeOK
<1>3. UNCHANGED told
  BY DEF SendPing, monitorVars
<1> HIDE DEF m
<1>4. \A k \in Node \ {m} : Wire'[k] = Wire[k]
  BY <1>2 DEF Wire
<1>5. CASE \E l \in Link : own[n] \in pings'[m][l]
  <2>1. Wire'[m] = Wire[m] \cup {own[n]}
    BY <1>1, <1>2, <1>5 DEF Wire
  <2>2. Wire' = [Wire EXCEPT ![m] = @ \cup {own[n]}]
    BY <1>1, <1>4, <2>1 DEF Wire
  <2> QED
    BY <1>3, <2>2 DEF Exchange!Publish, m
<1>6. CASE ~ \E l \in Link : own[n] \in pings'[m][l]
  <2>1. \A l \in Link : pings'[m][l] = pings[m][l]
    BY <1>2, <1>6
  <2>2. Wire'[m] = Wire[m]
    BY <1>1, <2>1 DEF Wire
  <2> QED
    BY <1>3, <1>4, <2>2 DEF Wire
<1> QED
  BY <1>5, <1>6

LEMMA ReceivePingExchange ==
    ASSUME TypeOK, NEW n \in Node, NEW l \in Link, NEW p, ReceivePing(n, l, p)
    PROVE  \/ p \in Wire[n] /\ (Exchange!Hear(n, p) \/ Exchange!Drop(n, p))
           \/ UNCHANGED <<Wire, told>>
<1>1. p \in Wire[n]
  BY DEF ReceivePing, Wire
<1>2. Wire' = Wire \/ Wire' = [Wire EXCEPT ![n] = @ \ {p}]
  BY WireTaken DEF ReceivePing
<1>3. CASE Differs(n, p)
  BY <1>1, <1>2, <1>3 DEF ReceivePing, Exchange!Hear
<1>4. CASE ~Differs(n, p)
  BY <1>1, <1>2, <1>4 DEF ReceivePing, Exchange!Drop
<1> QED
  BY <1>3, <1>4

\* The loss of the last link is told at once.  If clients believe the peer lost
\* already, there is nothing left to forget.
LEMMA WatchdogTimeoutExchange ==
    ASSUME TypeOK, ToldInv, NEW n \in Node, NEW l \in Link, WatchdogTimeout(n, l)
    PROVE  Exchange!LoseContact(n) \/ UNCHANGED <<Wire, told>>
<1>1. UNCHANGED Wire
  BY DEF WatchdogTimeout, netVars, Wire
<1>2. CASE LastLink(n, l)
  <2>1. told' = [told EXCEPT ![n] = [reach |-> FALSE, peer |-> Forget(told[n].peer)]]
    BY <1>2 DEF WatchdogTimeout, ToldInv
  <2>2. CASE told[n].reach
    BY <1>1, <2>1, <2>2 DEF Exchange!LoseContact
  <2>3. CASE ~told[n].reach
    <3>1. told[n] = [reach |-> FALSE, peer |-> Forget(told[n].peer)]
      BY <2>3 DEF ToldInv, TypeOK
    <3>2. UNCHANGED told
      BY <2>1, <3>1 DEF TypeOK
    <3> QED
      BY <1>1, <3>2
  <2> QED
    BY <2>2, <2>3
<1>3. CASE ~LastLink(n, l)
  BY <1>1, <1>3 DEF WatchdogTimeout
<1> QED
  BY <1>2, <1>3

LEMMA RestartExchange ==
    ASSUME NEW n \in Node, StartMonitor(n) \/ Crash(n) PROVE Exchange!Restart(n)
  BY DEF StartMonitor, Crash, netVars, Wire, Exchange!Restart, Exchange!Silent

LEMMA LosePingExchange ==
    ASSUME TypeOK, NEW n \in Node, NEW l \in Link, NEW p, LosePing(n, l, p)
    PROVE  (p \in Wire[n] /\ Exchange!Drop(n, p)) \/ UNCHANGED <<Wire, told>>
<1>1. p \in Wire[n]
  BY DEF LosePing, Wire
<1>2. Wire' = Wire \/ Wire' = [Wire EXCEPT ![n] = @ \ {p}]
  BY WireTaken DEF LosePing
<1> QED
  BY <1>1, <1>2 DEF LosePing, monitorVars, Exchange!Drop

LEMMA InitExchange == Init => Exchange!Init
<1> SUFFICES ASSUME Init PROVE Exchange!Init
  OBVIOUS
<1>1. Wire = [n \in Node |-> {}]
  BY DEF Init, Wire
<1> QED
  BY <1>1 DEF Init, Exchange!Init, Exchange!Silent

LEMMA NextExchange ==
    TypeOK /\ ToldInv /\ [Next]_vars => [Exchange!Next]_(Exchange!view)
<1> SUFFICES ASSUME TypeOK, ToldInv, [Next]_vars PROVE [Exchange!Next]_(Exchange!view)
  OBVIOUS
<1> USE DEF Exchange!view
<1>1. ASSUME UNCHANGED <<pings, told>> PROVE [Exchange!Next]_(Exchange!view)
  BY <1>1 DEF Wire
<1>2. CASE UNCHANGED vars
  BY <1>1, <1>2 DEF vars, monitorVars, netVars
<1>3. ASSUME NEW n \in Node, StartMonitor(n) \/ Crash(n) PROVE Exchange!Next
  BY <1>3, RestartExchange DEF Exchange!Next
<1>4. ASSUME NEW n \in Node, SendPing(n) PROVE [Exchange!Next]_(Exchange!view)
  BY <1>4, SendPingExchange DEF Exchange!Next
<1>5. ASSUME NEW n \in Node, NEW l \in Link,
             WatchdogTimeout(n, l) \/ ReceivePong(n, l) \/ LosePong(n, l)
      PROVE  [Exchange!Next]_(Exchange!view)
  BY <1>1, <1>5, WatchdogTimeoutExchange DEF ReceivePong, LosePong, monitorVars, Exchange!Next
<1>6. ASSUME NEW n \in Node, NEW l \in Link, NEW p \in pings[n][l],
             ReceivePing(n, l, p) \/ LosePing(n, l, p)
      PROVE  [Exchange!Next]_(Exchange!view)
  BY <1>6, ReceivePingExchange, LosePingExchange DEF Exchange!Next
<1>7. ASSUME NEW n \in Node, NEW p \in Report, SetThisStatus(n, p)
      PROVE  [Exchange!Next]_(Exchange!view)
  BY <1>1, <1>7 DEF SetThisStatus, monitorVars, netVars
<1> QED
  BY <1>2, <1>3, <1>4, <1>5, <1>6, <1>7 DEF Next, Start

\* What a daemon tells its clients is what one lossy, reordering channel from its peer
\* would let it tell, for any number of links: every status told was sent by the peer,
\* and a loss of contact is told exactly once until the peer is heard again.
THEOREM ExchangeRefined == Spec => IsStatusExchange
<1>1. Init => TypeOK /\ ToldInv /\ Exchange!Init
  BY InitTyped, InitTold, InitExchange
<1>2. TypeOK /\ ToldInv /\ [Next]_vars => (TypeOK /\ ToldInv)'
  BY NextTyped, NextTold
<1> QED
  BY <1>1, <1>2, NextExchange, PTL DEF Spec, IsStatusExchange, Exchange!Spec

=============================================================================
