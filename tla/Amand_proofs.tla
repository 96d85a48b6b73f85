----------------------------- MODULE Amand_proofs -----------------------------
(***************************************************************************)
(* Proofs about the cluster of two daemons (module Amand).                 *)
(***************************************************************************)
EXTENDS Amand, PingMonitor_proofs

LEMMA PeerOfPeer == ASSUME NEW n \in Node PROVE Peer(Peer(n)) = n
<1>1. PICK x, y \in Node : x # y /\ Node = {x, y}
  BY NodeAssumption
<1>2. \A m \in Node : Peer(m) \in Node /\ Peer(m) # m
  BY PeerIsOther
<1> QED
  BY <1>1, <1>2

-----------------------------------------------------------------------------
(* Types.  The variables split into those of PingMonitor and the daemon's.   *)

Roles == {"Idle", "Master", "Slave"}

DaemonTyped ==
    /\ file \in [Node -> State]
    /\ slave \in [Node -> BOOLEAN]
    /\ mysqld \in [Node -> MysqlState]
    /\ busy \in [Node -> {"no", "snapshot", "naming", "restore", "loading", "started"}]
    /\ request \in [Node -> SUBSET Commands]
    /\ commands \in 0..MaxInputs
    /\ crashes \in 0..MaxCrashes
    /\ losses \in 0..MaxLosses
    /\ late \in [Node -> BOOLEAN]

LEMMA SplitTypes == ClusterTypeOK <=> TypeOK /\ DaemonTyped
  BY DEF ClusterTypeOK, DaemonTyped

LEMMA SplitTypesNext == ClusterTypeOK' <=> TypeOK' /\ DaemonTyped'
  BY DEF ClusterTypeOK, DaemonTyped

LEMMA OwnUpdated ==
    ASSUME TypeOK, NEW n \in Node, NEW r \in Advert, own' = [own EXCEPT ![n] = r]
    PROVE  OwnTyped
  BY StatusAssumption DEF TypeOK, OwnTyped

LEMMA SetDbTyped ==
    ASSUME ClusterTypeOK, NEW n \in Node, NEW role \in Roles, SetDb(n, role)
    PROVE  OwnTyped /\ file' \in [Node -> State]
<1>1. own[n] \in Advert /\ file[n] \in State
  BY StatusAssumption DEF ClusterTypeOK, TypeOK
<1>2. [own[n] EXCEPT !.db = role] \in Advert
  BY <1>1 DEF Advert, ClusterState, Roles
<1>3. [file[n] EXCEPT !.db = role] \in State
  BY <1>1 DEF State, Roles
<1>4. own' = [own EXCEPT ![n] = [own[n] EXCEPT !.db = role]]
  BY DEF SetDb
<1>5. file' = [file EXCEPT ![n] = [file[n] EXCEPT !.db = role]]
  BY DEF SetDb
<1>6. OwnTyped
  BY <1>2, <1>4, OwnUpdated DEF ClusterTypeOK
<1>7. file' \in [Node -> State]
  BY <1>3, <1>5 DEF ClusterTypeOK
<1> QED
  BY <1>6, <1>7

LEMMA BootStatusTyped == ASSUME NEW s \in State PROVE BootStatus(s) \in Advert
  BY TimeAssumption DEF BootStatus, State, Advert, MysqlState, ClusterState

\* A handler that leaves the network and the cache alone.
LEMMA LocalTyped ==
    ASSUME TypeOK, OwnTyped, NEW n \in Node,
           UNCHANGED <<up, that, reach, armed, netVars>>, Broadcast(n) \/ UNCHANGED told
    PROVE  TypeOK'
<1> DEFINE news == [reach |-> Reachable(n), peer |-> that[n]]
<1>1. Reachable(n) \in BOOLEAN
  BY DEF Reachable
<1>2. news \in [reach : BOOLEAN, peer : Cached]
  BY <1>1 DEF TypeOK
<1>3. told' = [told EXCEPT ![n] = news] \/ told' = told
  BY DEF Broadcast
<1> HIDE DEF news
<1>4. told' \in [Node -> [reach : BOOLEAN, peer : Cached]]
  BY <1>2, <1>3 DEF TypeOK
<1> QED
  BY <1>4 DEF TypeOK, OwnTyped, netVars

LEMMA OwnUnchanged == ASSUME TypeOK, UNCHANGED own PROVE OwnTyped
  BY DEF TypeOK, OwnTyped

LEMMA ThatStateChangedTyped ==
    ASSUME ClusterTypeOK, NEW n \in Node, NEW r \in Cached, ThatStateChanged(n, r)
    PROVE  OwnTyped /\ file' \in [Node -> State]
<1> DEFINE kept == [file[n] EXCEPT !.that =
                      IF r.snapshot = NoSnapshot THEN file[n].that ELSE r.snapshot]
           idle == [kept EXCEPT !.db = "Idle"]
<1>1. own[n] \in Advert /\ file[n] \in State
  BY StatusAssumption DEF ClusterTypeOK, TypeOK
<1>2. kept \in State
  BY <1>1 DEF State, Cached
<1>3. idle \in State
  BY <1>2 DEF State
<1>4. [own[n] EXCEPT !.db = "Idle"] \in Advert
  BY <1>1 DEF Advert, ClusterState
<1>5. CASE Demoted(n, r)
  <2>1. file' = [file EXCEPT ![n] = idle]
    BY <1>5 DEF ThatStateChanged
  <2>2. own' = [own EXCEPT ![n] = [own[n] EXCEPT !.db = "Idle"]]
    BY <1>5 DEF ThatStateChanged
  <2>3. OwnTyped
    BY <1>4, <2>2, OwnUpdated DEF ClusterTypeOK
  <2> HIDE DEF kept, idle
  <2>4. file' \in [Node -> State]
    BY <1>3, <2>1 DEF ClusterTypeOK
  <2> QED
    BY <2>3, <2>4
<1>6. CASE ~Demoted(n, r)
  <2>1. file' = [file EXCEPT ![n] = kept]
    BY <1>6 DEF ThatStateChanged
  <2>2. OwnTyped
    BY <1>6, OwnUnchanged DEF ThatStateChanged, ClusterTypeOK
  <2> HIDE DEF kept, idle
  <2>3. file' \in [Node -> State]
    BY <1>2, <2>1 DEF ClusterTypeOK
  <2> QED
    BY <2>2, <2>3
<1> QED
  BY <1>5, <1>6

LEMMA InitClusterTyped == ClusterInit => ClusterTypeOK
<1> SUFFICES ASSUME ClusterInit PROVE ClusterTypeOK
  OBVIOUS
<1>1. TypeOK
  BY InitTyped DEF ClusterInit
<1>2. FreshState \in State
  BY DEF FreshState, State
<1>3. DaemonTyped
  BY <1>2, CountAssumption DEF ClusterInit, DaemonTyped, MysqlState
<1> QED
  BY <1>1, <1>3, SplitTypes

LEMMA ExecuteTyped ==
    ASSUME ClusterTypeOK, NEW n \in Node, Execute(n) PROVE ClusterTypeOK'
<1> USE SplitTypes, SplitTypesNext
<1>1. CASE BeginMakeMaster(n)
  <2>1. TypeOK'
    BY <1>1 DEF BeginMakeMaster, TypeOK, vars, monitorVars, netVars
  <2>2. DaemonTyped'
    BY <1>1 DEF BeginMakeMaster, Take, StopSlaves, DaemonTyped, boundVars
  <2> QED
    BY <2>1, <2>2
<1>2. CASE BeginMakeSlave(n)
  <2>1. TypeOK'
    BY <1>2 DEF BeginMakeSlave, TypeOK, vars, monitorVars, netVars
  <2>2. DaemonTyped'
    BY <1>2 DEF BeginMakeSlave, Take, DaemonTyped, boundVars
  <2> QED
    BY <2>1, <2>2
<1>3. CASE MakeIdle(n)
  <2>1. OwnTyped /\ file' \in [Node -> State]
    BY <1>3, SetDbTyped DEF MakeIdle, Roles
  <2>2. TypeOK'
    BY <1>3, <2>1, LocalTyped DEF MakeIdle
  <2>3. DaemonTyped'
    BY <1>3, <2>1 DEF MakeIdle, Take, StopSlaves, DaemonTyped, boundVars
  <2> QED
    BY <2>2, <2>3
<1>4. CASE SetMetadata(n)
  <2>1. OwnTyped /\ file' \in [Node -> State]
    BY <1>4, SetDbTyped DEF SetMetadata, Roles
  <2>2. TypeOK'
    BY <1>4, <2>1, LocalTyped DEF SetMetadata
  <2>3. slave' \in [Node -> BOOLEAN]
    BY <1>4 DEF SetMetadata, DaemonTyped
  <2>4. DaemonTyped'
    BY <1>4, <2>1, <2>3 DEF SetMetadata, Take, DaemonTyped, boundVars
  <2> QED
    BY <2>2, <2>4
<1>5. CASE MetadataFails(n)
  <2>1. TypeOK'
    BY <1>5, OwnUnchanged, LocalTyped DEF MetadataFails
  <2>2. DaemonTyped'
    BY <1>5 DEF MetadataFails, Take, StopSlaves, DaemonTyped, boundVars
  <2> QED
    BY <2>1, <2>2
<1>6. ASSUME NEW role \in {"Idle", "Slave"}, SetAudio(n, role)
      PROVE  OwnTyped /\ file' \in [Node -> State]
  <2>1. own[n] \in Advert /\ file[n] \in State
    BY StatusAssumption DEF ClusterTypeOK, TypeOK
  <2>2. PICK s \in BOOLEAN :
            own' = [own EXCEPT ![n] = [own[n] EXCEPT !.audio = role, !.status = s]]
    <3>1. own[n].status \in BOOLEAN
      BY <2>1 DEF Advert
    <3> QED
      BY <1>6, <3>1 DEF SetAudio
  <2>3. [own[n] EXCEPT !.audio = role, !.status = s] \in Advert
    BY <2>1 DEF Advert
  <2>4. OwnTyped
    BY <2>2, <2>3, OwnUpdated
  <2>5. [file[n] EXCEPT !.audio = role] \in State
    BY <2>1 DEF State
  <2>6. file' \in [Node -> State]
    BY <1>6, <2>5 DEF SetAudio, DaemonTyped
  <2> QED
    BY <2>4, <2>6
<1>7. CASE StartAudio(n)
  <2>1. OwnTyped /\ file' \in [Node -> State]
    <3>1. CASE SetAudio(n, "Slave")
      BY <3>1, <1>6
    <3>2. CASE UNCHANGED <<file, own>>
      BY <3>2, OwnUnchanged DEF DaemonTyped
    <3> QED
      BY <1>7, <3>1, <3>2 DEF StartAudio
  <2>2. TypeOK'
    BY <1>7, <2>1, LocalTyped DEF StartAudio
  <2>3. DaemonTyped'
    BY <1>7, <2>1 DEF StartAudio, Take, DaemonTyped, boundVars
  <2> QED
    BY <2>2, <2>3
<1>8. CASE StopAudio(n)
  <2>1. OwnTyped /\ file' \in [Node -> State]
    BY <1>8, <1>6 DEF StopAudio
  <2>2. TypeOK'
    BY <1>8, <2>1, LocalTyped DEF StopAudio
  <2>3. DaemonTyped'
    BY <1>8, <2>1 DEF StopAudio, Take, DaemonTyped, boundVars
  <2> QED
    BY <2>2, <2>3
<1> QED
  BY <1>1, <1>2, <1>3, <1>4, <1>5, <1>7, <1>8 DEF Execute

LEMMA LongHandlerTyped ==
    ASSUME ClusterTypeOK, NEW n \in Node, LongHandler(n) PROVE ClusterTypeOK'
<1> USE SplitTypes, SplitTypesNext
<1>1. CASE SnapshotTaken(n)
  <2>1. OwnTyped /\ file' \in [Node -> State]
    BY <1>1, SetDbTyped DEF SnapshotTaken, Roles
  <2>2. TypeOK'
    BY <1>1, <2>1, LocalTyped DEF SnapshotTaken, monitorVars
  <2>3. DaemonTyped'
    BY <1>1, <2>1 DEF SnapshotTaken, DaemonTyped, boundVars
  <2> QED
    BY <2>2, <2>3
<1>2. CASE NameSnapshot(n)
  <2>0. PICK s \in Snapshot : /\ file' = [file EXCEPT ![n].this = s]
                             /\ own' = [own EXCEPT ![n].snapshot = s]
    BY <1>2 DEF NameSnapshot, NewName
  <2>1. own[n] \in Advert /\ file[n] \in State
    BY StatusAssumption DEF ClusterTypeOK, TypeOK
  <2>2. [own[n] EXCEPT !.snapshot = s] \in Advert
    BY <2>1 DEF Advert
  <2>3. [file[n] EXCEPT !.this = s] \in State
    BY <2>1 DEF State
  <2>4. own' = [own EXCEPT ![n] = [own[n] EXCEPT !.snapshot = s]]
    BY <2>0
  <2>5. OwnTyped
    BY <2>2, <2>4, OwnUpdated
  <2>6. file' = [file EXCEPT ![n] = [file[n] EXCEPT !.this = s]]
    BY <2>0
  <2>7. TypeOK'
    BY <1>2, <2>5, LocalTyped DEF NameSnapshot
  <2>8. DaemonTyped'
    BY <1>2, <2>3, <2>6 DEF NameSnapshot, DaemonTyped, boundVars
  <2> QED
    BY <2>7, <2>8
<1>3. CASE SnapshotFails(n)
  <2>1. TypeOK'
    BY <1>3, OwnUnchanged, LocalTyped DEF SnapshotFails
  <2>2. DaemonTyped'
    BY <1>3 DEF SnapshotFails, DaemonTyped, boundVars
  <2> QED
    BY <2>1, <2>2
<1>4. CASE SnapshotRestored(n)
  <2>1. OwnTyped /\ file' \in [Node -> State]
    BY <1>4, SetDbTyped DEF SnapshotRestored, Roles
  <2>2. TypeOK'
    BY <1>4, <2>1, LocalTyped DEF SnapshotRestored
  <2>3. DaemonTyped'
    BY <1>4, <2>1 DEF SnapshotRestored, DaemonTyped, MysqlState, boundVars
  <2> QED
    BY <2>2, <2>3
<1>5. CASE ReplicationStarts(n)
  <2>1. TypeOK'
    BY <1>5 DEF ReplicationStarts, TypeOK, vars, monitorVars, netVars
  <2>2. DaemonTyped'
    BY <1>5 DEF ReplicationStarts, DaemonTyped, MysqlState, boundVars
  <2> QED
    BY <2>1, <2>2
<1>7. CASE RestoreFails(n)
  <2>1. TypeOK'
    BY <1>7, OwnUnchanged, LocalTyped DEF RestoreFails
  <2>2. mysqld' \in [Node -> MysqlState]
    BY <1>7 DEF RestoreFails, DaemonTyped, MysqlState
  <2>3. DaemonTyped'
    BY <1>7, <2>2 DEF RestoreFails, DaemonTyped, boundVars
  <2> QED
    BY <2>1, <2>3
<1>6. CASE ReplaceDatabase(n)
  <2>1. TypeOK'
    BY <1>6 DEF ReplaceDatabase, TypeOK, vars, monitorVars, netVars
  <2>2. DaemonTyped'
    BY <1>6 DEF ReplaceDatabase, DaemonTyped, MysqlState, boundVars
  <2> QED
    BY <2>1, <2>2
<1> QED
  BY <1>1, <1>2, <1>3, <1>4, <1>5, <1>6, <1>7 DEF LongHandler

LEMMA LocalStepTyped ==
    ASSUME ClusterTypeOK, NEW n \in Node, Local(n) PROVE ClusterTypeOK'
<1> USE SplitTypes, SplitTypesNext
<1>0. own[n] \in Advert
  BY StatusAssumption DEF ClusterTypeOK, TypeOK
<1>1. CASE CheckStatus(n)
  <2>1. [own[n] EXCEPT !.mysql = mysqld[n]] \in Advert
    BY <1>0 DEF DaemonTyped, Advert
  <2>2. OwnTyped
    BY <1>1, <2>1, OwnUpdated DEF CheckStatus
  <2>3. TypeOK'
    BY <1>1, <2>2, LocalTyped DEF CheckStatus
  <2>4. DaemonTyped'
    BY <1>1 DEF CheckStatus, DaemonTyped, daemonVars, boundVars
  <2> QED
    BY <2>3, <2>4
<1>2. ASSUME NEW t \in ReplTime, ReplicationTestComplete(n, t) PROVE ClusterTypeOK'
  <2>1. [own[n] EXCEPT !.repl = t] \in Advert
    BY <1>0 DEF Advert
  <2>2. OwnTyped
    BY <1>2, <2>1, OwnUpdated DEF ReplicationTestComplete
  <2>3. TypeOK'
    BY <1>2, <2>2, LocalTyped DEF ReplicationTestComplete
  <2>4. DaemonTyped'
    BY <1>2 DEF ReplicationTestComplete, DaemonTyped, daemonVars, boundVars
  <2> QED
    BY <2>3, <2>4
<1>3. ASSUME NEW s \in BOOLEAN, SetAudioStatus(n, s) PROVE ClusterTypeOK'
  <2>1. [own[n] EXCEPT !.status = s] \in Advert
    BY <1>0 DEF Advert
  <2>2. OwnTyped
    BY <1>3, <2>1, OwnUpdated DEF SetAudioStatus
  <2>3. TypeOK'
    BY <1>3, <2>2, LocalTyped DEF SetAudioStatus
  <2>4. DaemonTyped'
    BY <1>3 DEF SetAudioStatus, DaemonTyped, daemonVars, boundVars
  <2> QED
    BY <2>3, <2>4
<1> QED
  BY <1>1, <1>2, <1>3 DEF Local

\* A node that dies leaves a name of its peer's snapshot that it had stored or heard.
LEMMA HalfHeardTyped ==
    ASSUME ClusterTypeOK, NEW n \in Node, Die(n)
    PROVE  \E s \in Snapshot \cup {NoSnapshot} : file' = [file EXCEPT ![n] = [file[n] EXCEPT !.that = s]]
<1>1. file[n] \in State
  BY DEF ClusterTypeOK
<1>2. file[n].that \in Snapshot \cup {NoSnapshot}
  BY <1>1 DEF State
<1>3. HalfHeard(n) \subseteq Snapshot \cup {NoSnapshot}
  BY StatusAssumption DEF HalfHeard, ClusterTypeOK, TypeOK, Advert
<1>4. PICK s \in HalfHeard(n) \cup {file[n].that} : file' = [file EXCEPT ![n].that = s]
  BY DEF Die
<1>5. file' = [file EXCEPT ![n] = [file[n] EXCEPT !.that = s]]
  BY <1>4
<1> QED
  BY <1>2, <1>3, <1>5

\* The steps that the network, the environment and the clients take.
LEMMA OuterTyped ==
    ASSUME ClusterTypeOK, NEW n \in Node,
           \/ \E c \in Commands : Request(n, c)
           \/ \E m \in {"down", "accessible"} : MysqlChanges(n, m)
           \/ Boot(n) \/ Die(n) \/ Send(n)
           \/ \E l \in Link : HearPong(n, l) \/ Drop(n, l)
    PROVE  ClusterTypeOK'
<1> USE SplitTypes, SplitTypesNext
<1>1. ASSUME NEW c \in Commands, Request(n, c) PROVE ClusterTypeOK'
  <2>1. TypeOK'
    BY <1>1 DEF Request, TypeOK, vars, monitorVars, netVars
  <2>2. DaemonTyped'
    BY <1>1, CountAssumption DEF Request, DaemonTyped
  <2> QED
    BY <2>1, <2>2
<1>2. ASSUME NEW m \in {"down", "accessible"}, MysqlChanges(n, m) PROVE ClusterTypeOK'
  <2>1. TypeOK'
    BY <1>2 DEF MysqlChanges, TypeOK, vars, monitorVars, netVars
  <2>2. DaemonTyped'
    BY <1>2, CountAssumption DEF MysqlChanges, DaemonTyped, MysqlState
  <2> QED
    BY <2>1, <2>2
<1>3. BootStatus(file[n]) \in Advert
  BY BootStatusTyped DEF DaemonTyped
<1>4. CASE Boot(n)
  <2>1. TypeOK'
    BY <1>3, <1>4, OwnUpdated, StartMonitorTyped DEF Boot
  <2>2. DaemonTyped'
    BY <1>4 DEF Boot, DaemonTyped, daemonVars, boundVars
  <2> QED
    BY <2>1, <2>2
<1>5. CASE Die(n)
  <2>1. TypeOK'
    BY <1>3, <1>5, OwnUpdated, CrashTyped DEF Die
  <2>2. DaemonTyped'
    <3>1. PICK s \in Snapshot \cup {NoSnapshot} : file' = [file EXCEPT ![n] = [file[n] EXCEPT !.that = s]]
      BY <1>5, HalfHeardTyped
    <3>2. [file[n] EXCEPT !.that = s] \in State
      BY DEF DaemonTyped, State
    <3>3. file' \in [Node -> State]
      BY <3>1, <3>2 DEF DaemonTyped
    <3> QED
      BY <1>5, <3>3, CountAssumption DEF Die, DaemonTyped
  <2> QED
    BY <2>1, <2>2
<1>6. CASE Send(n)
  <2>1. TypeOK'
    BY <1>6, OwnUnchanged, SendPingTyped DEF Send
  <2>2. DaemonTyped'
    BY <1>6 DEF Send, DaemonTyped, daemonVars, boundVars
  <2> QED
    BY <2>1, <2>2
<1>7. ASSUME NEW l \in Link, HearPong(n, l) PROVE ClusterTypeOK'
  <2>1. TypeOK'
    BY <1>7, OwnUnchanged, ReceivePongTyped DEF HearPong
  <2>2. DaemonTyped'
    BY <1>7 DEF HearPong, DaemonTyped, daemonVars, boundVars
  <2> QED
    BY <2>1, <2>2
<1>8. ASSUME NEW l \in Link, Drop(n, l) PROVE ClusterTypeOK'
  <2>1. TypeOK'
    BY <1>8, OwnUnchanged, LosePingTyped, LosePongTyped DEF Drop
  <2>2. DaemonTyped'
    BY <1>8 DEF Drop, DaemonTyped, daemonVars, boundVars
  <2> QED
    BY <2>1, <2>2
<1> QED
  BY <1>1, <1>2, <1>4, <1>5, <1>6, <1>7, <1>8

LEMMA HearPingTyped ==
    ASSUME ClusterTypeOK, NEW n \in Node, NEW l \in Link, NEW p, HearPing(n, l, p)
    PROVE  ClusterTypeOK'
<1> USE SplitTypes, SplitTypesNext
<1>1. p \in Report
  BY DEF HearPing, ReceivePing, TypeOK
<1>2. OwnTyped /\ file' \in [Node -> State]
  <2>1. CASE Differs(n, p)
    BY <1>1, <2>1, LearnIsCached, ThatStateChangedTyped DEF HearPing
  <2>2. CASE ~Differs(n, p)
    BY <2>2, OwnUnchanged DEF HearPing, DaemonTyped
  <2> QED
    BY <2>1, <2>2
<1>3. TypeOK'
  BY <1>2, ReceivePingTyped DEF HearPing
<1>4. DaemonTyped'
  BY <1>2 DEF HearPing, DaemonTyped, boundVars
<1> QED
  BY <1>3, <1>4

LEMMA LoseLinkTyped ==
    ASSUME ClusterTypeOK, NEW n \in Node, NEW l \in Link, LoseLink(n, l)
    PROVE  ClusterTypeOK'
<1> USE SplitTypes, SplitTypesNext
<1>1. Forget(that[n]) \in Cached
  BY ForgetIsCached DEF TypeOK
<1>2. OwnTyped /\ file' \in [Node -> State]
  <2>1. CASE LastLink(n, l)
    BY <1>1, <2>1, ThatStateChangedTyped DEF LoseLink
  <2>2. CASE ~LastLink(n, l)
    BY <2>2, OwnUnchanged DEF LoseLink, DaemonTyped
  <2> QED
    BY <2>1, <2>2
<1>3. TypeOK'
  BY <1>2, WatchdogTimeoutTyped DEF LoseLink
<1>4. DaemonTyped'
  BY <1>2, CountAssumption DEF LoseLink, DaemonTyped
<1> QED
  BY <1>3, <1>4

LEMMA ClusterNextTyped == ClusterTypeOK /\ [ClusterNext]_allVars => ClusterTypeOK'
<1> SUFFICES ASSUME ClusterTypeOK, [ClusterNext]_allVars PROVE ClusterTypeOK'
  OBVIOUS
<1>1. CASE UNCHANGED allVars
  <2>1. TypeOK'
    BY <1>1 DEF allVars, vars, monitorVars, netVars, ClusterTypeOK, TypeOK
  <2>2. DaemonTyped'
    BY <1>1, SplitTypes DEF allVars, daemonVars, boundVars, DaemonTyped
  <2> QED
    BY <2>1, <2>2, SplitTypesNext
<1>2. CASE ClusterNext
  BY <1>2, OuterTyped, ExecuteTyped, LongHandlerTyped, LocalStepTyped,
     HearPingTyped, LoseLinkTyped DEF ClusterNext
<1> QED
  BY <1>1, <1>2

\* Every variable of the cluster keeps its type: in particular the state file
\* never says OFFLINE, the role of a node that cannot be seen.
THEOREM ClusterTypeCorrect == ClusterSpec => []ClusterTypeOK
<1>1. ClusterInit => ClusterTypeOK
  BY InitClusterTyped
<1>2. ClusterTypeOK /\ [ClusterNext]_allVars => ClusterTypeOK'
  BY ClusterNextTyped
<1> QED
  BY <1>1, <1>2, PTL DEF ClusterSpec

=============================================================================
