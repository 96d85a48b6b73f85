-------------------------- MODULE AmandDurable_proofs --------------------------
(***************************************************************************)
(* Proofs about the cluster: what a daemon advertises is on disk, the      *)
(* snapshot to restore is the peer's, what clients are told of the peer is *)
(* a status that it sent, two masters never know of each other, and roles  *)
(* agree with replication.                                                 *)
(***************************************************************************)
EXTENDS Amand_proofs

-----------------------------------------------------------------------------
(* Advertised roles.  The invariant also covers a daemon that is down: what  *)
(* its next start will advertise agrees with the file.                       *)

DurableAt(r, s) ==
    /\ r.db = s.db
    /\ r.audio = s.audio
    /\ r.snapshot \in {NoSnapshot, s.this}

DurableInv == \A n \in Node : DurableAt(own[n], file[n])

LEMMA SameDurable == ASSUME DurableInv, UNCHANGED <<own, file>> PROVE DurableInv'
  BY DEF DurableInv, DurableAt

\* A step that gives n a new status and a new file keeps the invariant when the
\* two agree.
LEMMA DurableUpdate ==
    ASSUME ClusterTypeOK, DurableInv, NEW n \in Node, NEW r, NEW s,
           own' = [own EXCEPT ![n] = r], file' = [file EXCEPT ![n] = s], DurableAt(r, s)
    PROVE  DurableInv'
<1> SUFFICES ASSUME NEW m \in Node PROVE DurableAt(own'[m], file'[m])
  BY DEF DurableInv
<1>1. own'[m] = (IF m = n THEN r ELSE own[m]) /\ file'[m] = (IF m = n THEN s ELSE file[m])
  BY DEF ClusterTypeOK, TypeOK
<1> QED
  BY <1>1 DEF DurableInv

\* The same for a step that leaves the file alone.
LEMMA OwnDurable ==
    ASSUME ClusterTypeOK, DurableInv, NEW n \in Node, NEW r,
           own' = [own EXCEPT ![n] = r], UNCHANGED file, DurableAt(r, file[n])
    PROVE  DurableInv'
<1>1. file' = [file EXCEPT ![n] = file[n]]
  BY DEF ClusterTypeOK
<1> QED
  BY <1>1, DurableUpdate

LEMMA Typed == ASSUME ClusterTypeOK, NEW n \in Node
               PROVE  own[n] \in Advert /\ file[n] \in State /\ that[n] \in Cached
  BY StatusAssumption DEF ClusterTypeOK, TypeOK

LEMMA SetDbDurable ==
    ASSUME ClusterTypeOK, DurableInv, NEW n \in Node, NEW role, SetDb(n, role)
    PROVE  DurableInv'
<1> DEFINE r == [own[n] EXCEPT !.db = role]
           s == [file[n] EXCEPT !.db = role]
<1>1. own' = [own EXCEPT ![n] = r] /\ file' = [file EXCEPT ![n] = s]
  BY DEF SetDb
<1>2. DurableAt(r, s)
  BY Typed DEF DurableInv, DurableAt, Advert, State
<1> HIDE DEF r, s
<1> QED
  BY <1>1, <1>2, DurableUpdate

LEMMA SetAudioDurable ==
    ASSUME ClusterTypeOK, DurableInv, NEW n \in Node, NEW role \in {"Idle", "Slave"},
           SetAudio(n, role)
    PROVE  DurableInv'
<1> DEFINE s == [file[n] EXCEPT !.audio = role]
<1>1. PICK v \in BOOLEAN :
          own' = [own EXCEPT ![n] = [own[n] EXCEPT !.audio = role, !.status = v]]
  <2>1. own[n].status \in BOOLEAN
    BY Typed DEF Advert
  <2> QED
    BY <2>1 DEF SetAudio
<1> DEFINE r == [own[n] EXCEPT !.audio = role, !.status = v]
<1>2. file' = [file EXCEPT ![n] = s]
  BY DEF SetAudio
<1>3. DurableAt(r, s)
  BY Typed DEF DurableInv, DurableAt, Advert, State
<1> HIDE DEF r, s
<1>4. own' = [own EXCEPT ![n] = r]
  BY <1>1 DEF r
<1> QED
  BY <1>2, <1>3, <1>4, DurableUpdate

LEMMA ThatStateChangedDurable ==
    ASSUME ClusterTypeOK, DurableInv, NEW n \in Node, NEW c, ThatStateChanged(n, c)
    PROVE  DurableInv'
<1> DEFINE kept == [file[n] EXCEPT !.that =
                      IF c.snapshot = NoSnapshot THEN file[n].that ELSE c.snapshot]
           idle == [kept EXCEPT !.db = "Idle"]
           r == [own[n] EXCEPT !.db = "Idle"]
<1>1. DurableAt(own[n], kept) /\ DurableAt(r, idle)
  BY Typed DEF DurableInv, DurableAt, Advert, State
<1>2. CASE Demoted(n, c)
  <2>1. file' = [file EXCEPT ![n] = idle] /\ own' = [own EXCEPT ![n] = r]
    BY <1>2 DEF ThatStateChanged
  <2> HIDE DEF idle, r
  <2> QED
    BY <1>1, <2>1, DurableUpdate
<1>3. CASE ~Demoted(n, c)
  <2>1. file' = [file EXCEPT ![n] = kept] /\ own' = own
    BY <1>3 DEF ThatStateChanged
  <2>2. own' = [own EXCEPT ![n] = own[n]]
    BY <2>1 DEF ClusterTypeOK, TypeOK
  <2> HIDE DEF kept
  <2> QED
    BY <1>1, <2>1, <2>2, DurableUpdate
<1> QED
  BY <1>2, <1>3

\* A daemon that starts leaves its state file alone; one that dies may have stored a
\* name it was just hearing.
LEMMA BootFile ==
    ASSUME ClusterTypeOK, NEW n \in Node, Boot(n) \/ Die(n)
    PROVE  /\ own' = [own EXCEPT ![n] = BootStatus(file[n])]
           /\ \E x \in HalfHeard(n) \cup {file[n].that} :
                file' = [file EXCEPT ![n] = [file[n] EXCEPT !.that = x]]
<1>1. CASE Boot(n)
  <2>1. file' = [file EXCEPT ![n] = [file[n] EXCEPT !.that = file[n].that]]
    BY <1>1 DEF Boot, daemonVars, ClusterTypeOK, State
  <2> QED
    BY <1>1, <2>1 DEF Boot
<1>2. CASE Die(n)
  BY <1>2 DEF Die
<1> QED
  BY <1>1, <1>2

LEMMA BootDurable ==
    ASSUME ClusterTypeOK, DurableInv, NEW n \in Node, NEW x,
           file' = [file EXCEPT ![n] = [file[n] EXCEPT !.that = x]],
           own' = [own EXCEPT ![n] = BootStatus(file[n])]
    PROVE  DurableInv'
<1>1. DurableAt(BootStatus(file[n]), [file[n] EXCEPT !.that = x])
  BY Typed DEF DurableAt, BootStatus, State
<1> QED
  BY <1>1, DurableUpdate

LEMMA ExecuteDurable ==
    ASSUME ClusterTypeOK, DurableInv, NEW n \in Node, Execute(n) PROVE DurableInv'
<1>1. CASE BeginMakeMaster(n) \/ BeginMakeSlave(n) \/ MetadataFails(n)
  BY <1>1, SameDurable DEF BeginMakeMaster, BeginMakeSlave, MetadataFails, vars
<1>2. CASE MakeIdle(n)
  BY <1>2, SetDbDurable DEF MakeIdle
<1>3. CASE SetMetadata(n)
  BY <1>3, SetDbDurable DEF SetMetadata
<1>4. CASE StartAudio(n)
  BY <1>4, SetAudioDurable, SameDurable DEF StartAudio
<1>5. CASE StopAudio(n)
  BY <1>5, SetAudioDurable DEF StopAudio
<1> QED
  BY <1>1, <1>2, <1>3, <1>4, <1>5 DEF Execute

LEMMA LongHandlerDurable ==
    ASSUME ClusterTypeOK, DurableInv, NEW n \in Node, LongHandler(n) PROVE DurableInv'
<1>1. CASE SnapshotTaken(n)
  BY <1>1, SetDbDurable DEF SnapshotTaken
<1>2. CASE NameSnapshot(n)
  <2>0. PICK x \in NewName(n) : /\ own' = [own EXCEPT ![n].snapshot = x]
                                /\ file' = [file EXCEPT ![n].this = x]
    BY <1>2 DEF NameSnapshot
  <2> DEFINE r == [own[n] EXCEPT !.snapshot = x]
             s == [file[n] EXCEPT !.this = x]
  <2>1. own' = [own EXCEPT ![n] = r] /\ file' = [file EXCEPT ![n] = s]
    BY <2>0
  <2>2. DurableAt(r, s)
    BY Typed DEF DurableInv, DurableAt, Advert, State
  <2> HIDE DEF r, s
  <2> QED
    BY <2>1, <2>2, DurableUpdate
<1>3. CASE SnapshotFails(n) \/ ReplaceDatabase(n) \/ ReplicationStarts(n) \/ RestoreFails(n)
  BY <1>3, SameDurable DEF SnapshotFails, ReplaceDatabase, ReplicationStarts, RestoreFails, vars
<1>4. CASE SnapshotRestored(n)
  BY <1>4, SetDbDurable DEF SnapshotRestored
<1> QED
  BY <1>1, <1>2, <1>3, <1>4 DEF LongHandler

LEMMA LocalDurable ==
    ASSUME ClusterTypeOK, DurableInv, NEW n \in Node, Local(n) PROVE DurableInv'
<1>1. ASSUME NEW f \in {"mysql", "repl", "status"}, NEW v,
             own' = [own EXCEPT ![n] = [own[n] EXCEPT ![f] = v]], UNCHANGED file
      PROVE  DurableInv'
  <2>1. DurableAt([own[n] EXCEPT ![f] = v], file[n])
    BY Typed DEF DurableInv, DurableAt, Advert
  <2> QED
    BY <1>1, <2>1, OwnDurable
<1>2. CASE CheckStatus(n)
  <2>1. own' = [own EXCEPT ![n] = [own[n] EXCEPT !["mysql"] = mysqld[n]]] /\ file' = file
    BY <1>2 DEF CheckStatus, daemonVars
  <2> QED
    BY <1>1, <2>1
<1>3. ASSUME NEW t \in ReplTime, ReplicationTestComplete(n, t) PROVE DurableInv'
  <2>1. own' = [own EXCEPT ![n] = [own[n] EXCEPT !["repl"] = t]] /\ file' = file
    BY <1>3 DEF ReplicationTestComplete, daemonVars
  <2> QED
    BY <1>1, <2>1
<1>4. ASSUME NEW s \in BOOLEAN, SetAudioStatus(n, s) PROVE DurableInv'
  <2>1. own' = [own EXCEPT ![n] = [own[n] EXCEPT !["status"] = s]] /\ file' = file
    BY <1>4 DEF SetAudioStatus, daemonVars
  <2> QED
    BY <1>1, <2>1
<1> QED
  BY <1>2, <1>3, <1>4 DEF Local

LEMMA NextDurable ==
    ClusterTypeOK /\ DurableInv /\ [ClusterNext]_allVars => DurableInv'
<1> SUFFICES ASSUME ClusterTypeOK, DurableInv, [ClusterNext]_allVars PROVE DurableInv'
  OBVIOUS
<1>1. CASE UNCHANGED allVars
  BY <1>1, SameDurable DEF allVars, vars, daemonVars
<1>2. ASSUME NEW n \in Node,
             \/ \E c \in Commands : Request(n, c)
             \/ \E m \in {"down", "accessible"} : MysqlChanges(n, m)
             \/ Send(n)
             \/ \E l \in Link : HearPong(n, l) \/ Drop(n, l)
      PROVE  DurableInv'
  BY <1>2, SameDurable DEF Request, MysqlChanges, Send, HearPong, Drop, vars, daemonVars
<1>3. ASSUME NEW n \in Node, Boot(n) \/ Die(n) PROVE DurableInv'
  BY <1>3, BootFile, BootDurable
<1>4. ASSUME NEW n \in Node, NEW l \in Link, NEW p \in pings[n][l], HearPing(n, l, p)
      PROVE  DurableInv'
  BY <1>4, SameDurable, ThatStateChangedDurable DEF HearPing
<1>5. ASSUME NEW n \in Node, NEW l \in Link, LoseLink(n, l) PROVE DurableInv'
  BY <1>5, SameDurable, ThatStateChangedDurable DEF LoseLink
<1> QED
  BY <1>1, <1>2, <1>3, <1>4, <1>5, ExecuteDurable, LongHandlerDurable, LocalDurable
     DEF ClusterNext

\* What a daemon advertises survives its restart: every handler that changes a role
\* changes the state file and the monitor alike, in any interleaving of commands,
\* pings, crashes and failures.
THEOREM AdvertisedIsDurableHolds == ClusterSpec => []AdvertisedIsDurable
<1>1. ClusterInit => ClusterTypeOK /\ DurableInv
  BY InitClusterTyped DEF ClusterInit, DurableInv, DurableAt, BootStatus, FreshState
<1>2. ClusterTypeOK /\ DurableInv /\ [ClusterNext]_allVars => (ClusterTypeOK /\ DurableInv)'
  BY ClusterNextTyped, NextDurable
<1>3. DurableInv => AdvertisedIsDurable
  BY DEF DurableInv, DurableAt, AdvertisedIsDurable
<1> QED
  BY <1>1, <1>2, <1>3, PTL DEF ClusterSpec

-----------------------------------------------------------------------------
(* Where snapshot names come from.  A name that n made is found at n as its   *)
(* own and at the peer as the peer's, on every station of its way.            *)

Mine(n) == {s \in Snapshot : s.host = n /\ s.time <= LastTime(n)} \cup {NoSnapshot}

OwnNames   == \A n \in Node : own[n].snapshot \in Mine(n) /\ file[n].this \in Mine(n)
PeerNames  == \A n \in Node : that[n].snapshot \in Mine(Peer(n)) /\ file[n].that \in Mine(Peer(n))
NamesSent  == \A n \in Node : \A l \in Link : \A p \in pings[n][l] : p.snapshot \in Mine(Peer(n))
LineageInv == OwnNames /\ PeerNames /\ NamesSent

\* Names are never taken back.
Growing == \A n \in Node : Mine(n) \subseteq Mine(n)'

LEMMA SameMine == ASSUME \A n \in Node : file'[n].this = file[n].this PROVE Growing
  BY DEF Growing, Mine, LastTime

LEMMA ThisUnchanged ==
    ASSUME ClusterTypeOK, NEW n \in Node, NEW s, file' = [file EXCEPT ![n] = s],
           s.this = file[n].this
    PROVE  Growing
  BY SameMine DEF ClusterTypeOK

\* A node's own names after a step that changes its status or its file.
LEMMA OwnNamesUpdate ==
    ASSUME ClusterTypeOK, OwnNames, Growing, NEW n \in Node, NEW r, NEW s,
           own' = [own EXCEPT ![n] = r], file' = [file EXCEPT ![n] = s],
           r.snapshot \in Mine(n)', s.this \in Mine(n)'
    PROVE  OwnNames'
<1> SUFFICES ASSUME NEW m \in Node
             PROVE  own'[m].snapshot \in Mine(m)' /\ file'[m].this \in Mine(m)'
  BY DEF OwnNames
<1>1. own'[m] = (IF m = n THEN r ELSE own[m]) /\ file'[m] = (IF m = n THEN s ELSE file[m])
  BY DEF ClusterTypeOK, TypeOK
<1> QED
  BY <1>1 DEF OwnNames, Growing

LEMMA PeerNamesUpdate ==
    ASSUME ClusterTypeOK, PeerNames, Growing, NEW n \in Node, NEW c, NEW s,
           that' = [that EXCEPT ![n] = c], file' = [file EXCEPT ![n] = s],
           c.snapshot \in Mine(Peer(n)), s.that \in Mine(Peer(n))
    PROVE  PeerNames'
<1> SUFFICES ASSUME NEW m \in Node
             PROVE  that'[m].snapshot \in Mine(Peer(m))' /\ file'[m].that \in Mine(Peer(m))'
  BY DEF PeerNames, Peer
<1>1. that'[m] = (IF m = n THEN c ELSE that[m]) /\ file'[m] = (IF m = n THEN s ELSE file[m])
  BY DEF ClusterTypeOK, TypeOK
<1> QED
  BY <1>1, PeerIsOther DEF PeerNames, Growing

LEMMA SameSent ==
    ASSUME NamesSent, Growing,
           \A n \in Node : \A l \in Link : pings'[n][l] \subseteq pings[n][l]
    PROVE  NamesSent'
<1> SUFFICES ASSUME NEW n \in Node, NEW l \in Link, NEW p \in pings'[n][l]
             PROVE  p.snapshot \in Mine(Peer(n))'
  BY DEF NamesSent, Peer
<1> QED
  BY PeerIsOther DEF NamesSent, Growing

\* Most handlers change no name at all.
LEMMA SameNames ==
    ASSUME ClusterTypeOK, LineageInv, NEW n \in Node, NEW r, NEW s,
           own' = [own EXCEPT ![n] = r], file' = [file EXCEPT ![n] = s],
           UNCHANGED <<that, netVars>>,
           r.snapshot \in {NoSnapshot, own[n].snapshot},
           s.this = file[n].this, s.that = file[n].that
    PROVE  LineageInv'
<1> USE DEF LineageInv
<1>0. Growing
  BY ThisUnchanged
<1>1. OwnNames'
  <2>1. r.snapshot \in Mine(n) /\ s.this \in Mine(n)
    BY DEF OwnNames, Mine
  <2> QED
    BY <1>0, <2>1, OwnNamesUpdate DEF Growing
<1>2. that' = [that EXCEPT ![n] = that[n]]
  BY DEF ClusterTypeOK, TypeOK
<1>3. PeerNames'
  BY <1>0, <1>2, PeerNamesUpdate DEF PeerNames
<1>4. NamesSent'
  BY <1>0, SameSent DEF netVars
<1> QED
  BY <1>1, <1>3, <1>4

LEMMA NoNames ==
    ASSUME LineageInv, UNCHANGED <<own, file, that, pings>> PROVE LineageInv'
  BY DEF LineageInv, OwnNames, PeerNames, NamesSent, Mine, LastTime, Peer

LEMMA SetDbNames ==
    ASSUME ClusterTypeOK, LineageInv, NEW n \in Node, NEW role, SetDb(n, role),
           UNCHANGED <<that, netVars>>
    PROVE  LineageInv'
<1> DEFINE r == [own[n] EXCEPT !.db = role]
           s == [file[n] EXCEPT !.db = role]
<1>1. own' = [own EXCEPT ![n] = r] /\ file' = [file EXCEPT ![n] = s]
  BY DEF SetDb
<1>2. r.snapshot = own[n].snapshot /\ s.this = file[n].this /\ s.that = file[n].that
  BY Typed DEF Advert, State
<1> HIDE DEF r, s
<1> QED
  BY <1>1, <1>2, SameNames

LEMMA SetAudioNames ==
    ASSUME ClusterTypeOK, LineageInv, NEW n \in Node, NEW role \in {"Idle", "Slave"},
           SetAudio(n, role), UNCHANGED <<that, netVars>>
    PROVE  LineageInv'
<1> DEFINE s == [file[n] EXCEPT !.audio = role]
<1>1. PICK v \in BOOLEAN :
          own' = [own EXCEPT ![n] = [own[n] EXCEPT !.audio = role, !.status = v]]
  <2>1. own[n].status \in BOOLEAN
    BY Typed DEF Advert
  <2> QED
    BY <2>1 DEF SetAudio
<1> DEFINE r == [own[n] EXCEPT !.audio = role, !.status = v]
<1>2. file' = [file EXCEPT ![n] = s]
  BY DEF SetAudio
<1>3. r.snapshot = own[n].snapshot /\ s.this = file[n].this /\ s.that = file[n].that
  BY Typed DEF Advert, State
<1> HIDE DEF r, s
<1>4. own' = [own EXCEPT ![n] = r]
  BY <1>1 DEF r
<1> QED
  BY <1>2, <1>3, <1>4, SameNames

\* What thatStateChanged does to the names: the one in c, if any, is stored.
LEMMA ThatStateChangedNames ==
    ASSUME ClusterTypeOK, LineageInv, NEW n \in Node, NEW c, ThatStateChanged(n, c),
           c.snapshot \in Mine(Peer(n)), that' = [that EXCEPT ![n] = c]
    PROVE  OwnNames' /\ PeerNames' /\ Growing
<1> USE DEF LineageInv
<1> DEFINE kept == [file[n] EXCEPT !.that =
                      IF c.snapshot = NoSnapshot THEN file[n].that ELSE c.snapshot]
           idle == [kept EXCEPT !.db = "Idle"]
           r == [own[n] EXCEPT !.db = "Idle"]
<1>1. /\ kept.this = file[n].this /\ idle.this = file[n].this
      /\ kept.that \in {file[n].that, c.snapshot} /\ idle.that = kept.that
      /\ r.snapshot = own[n].snapshot
  BY Typed DEF Advert, State
<1>2. PICK r1, s1 : /\ own' = [own EXCEPT ![n] = r1] /\ file' = [file EXCEPT ![n] = s1]
                    /\ r1 \in {own[n], r} /\ s1 \in {kept, idle}
  <2>1. CASE Demoted(n, c)
    <3>1. file' = [file EXCEPT ![n] = idle] /\ own' = [own EXCEPT ![n] = r]
      BY <2>1 DEF ThatStateChanged
    <3> QED
      BY <3>1
  <2>2. CASE ~Demoted(n, c)
    <3>1. file' = [file EXCEPT ![n] = kept] /\ own' = own
      BY <2>2 DEF ThatStateChanged
    <3>2. own' = [own EXCEPT ![n] = own[n]]
      BY <3>1 DEF ClusterTypeOK, TypeOK
    <3> QED
      BY <3>1, <3>2
  <2> QED
    BY <2>1, <2>2
<1> HIDE DEF kept, idle, r
<1>3. r1.snapshot \in Mine(n) /\ s1.this \in Mine(n) /\ s1.that \in Mine(Peer(n))
  BY <1>1, <1>2 DEF OwnNames, PeerNames
<1>6. Growing
  BY <1>1, <1>2, ThisUnchanged
<1>4. OwnNames'
  BY <1>2, <1>3, <1>6, OwnNamesUpdate DEF Growing
<1>5. PeerNames'
  BY <1>2, <1>3, <1>6, PeerNamesUpdate
<1> QED
  BY <1>4, <1>5, <1>6

LEMMA HearPingNames ==
    ASSUME ClusterTypeOK, LineageInv, NEW n \in Node, NEW l \in Link, NEW p, HearPing(n, l, p)
    PROVE  LineageInv'
<1> USE DEF LineageInv
<1>1. p \in Advert /\ p.snapshot \in Mine(Peer(n))
  BY StatusAssumption DEF HearPing, ReceivePing, NamesSent, ClusterTypeOK, TypeOK
<1>2. \A m \in Node : \A k \in Link : pings'[m][k] \subseteq pings[m][k]
  BY DEF HearPing, ReceivePing, ClusterTypeOK, TypeOK
<1>3. CASE Differs(n, p)
  <2>1. Learn(p).snapshot = p.snapshot
    BY <1>1 DEF Learn, Advert
  <2>2. ThatStateChanged(n, Learn(p)) /\ that' = [that EXCEPT ![n] = Learn(p)]
    BY <1>3 DEF HearPing, ReceivePing
  <2> QED
    BY <1>1, <1>2, <2>1, <2>2, ThatStateChangedNames, SameSent
<1>4. CASE ~Differs(n, p)
  <2>1. UNCHANGED <<own, file, that>>
    BY <1>4 DEF HearPing, ReceivePing
  <2>2. NamesSent'
    BY <1>2, <2>1, SameMine, SameSent
  <2> QED
    BY <2>1, <2>2 DEF OwnNames, PeerNames, Mine, LastTime, Peer
<1> QED
  BY <1>3, <1>4

LEMMA LoseLinkNames ==
    ASSUME ClusterTypeOK, LineageInv, NEW n \in Node, NEW l \in Link, LoseLink(n, l)
    PROVE  LineageInv'
<1> USE DEF LineageInv
<1>1. UNCHANGED pings
  BY DEF LoseLink, WatchdogTimeout, netVars
<1>2. CASE LastLink(n, l)
  <2>1. Forget(that[n]).snapshot = that[n].snapshot
    BY Typed DEF Forget, Cached
  <2>2. ThatStateChanged(n, Forget(that[n])) /\ that' = [that EXCEPT ![n] = Forget(that[n])]
    BY <1>2 DEF LoseLink, WatchdogTimeout
  <2>3. Forget(that[n]).snapshot \in Mine(Peer(n))
    BY <2>1 DEF PeerNames
  <2> QED
    BY <1>1, <2>2, <2>3, ThatStateChangedNames, SameSent
<1>3. CASE ~LastLink(n, l)
  BY <1>1, <1>3, NoNames DEF LoseLink, WatchdogTimeout
<1> QED
  BY <1>2, <1>3

\* A ping carries the sender's own name to the node whose peer the sender is.
LEMMA SendNames ==
    ASSUME ClusterTypeOK, LineageInv, NEW n \in Node, Send(n) PROVE LineageInv'
<1> USE DEF LineageInv
<1>0. UNCHANGED <<own, file, that>>
  BY DEF Send, SendPing, monitorVars, daemonVars
<1>1. NamesSent'
  <2> SUFFICES ASSUME NEW m \in Node, NEW l \in Link, NEW p \in pings'[m][l]
               PROVE  p.snapshot \in Mine(Peer(m))
    BY <1>0 DEF NamesSent, Mine, LastTime, Peer
  <2>1. p \in pings[m][l] \/ (m = Peer(n) /\ p = own[n])
    BY PeerIsOther DEF Send, SendPing, ClusterTypeOK, TypeOK
  <2> QED
    BY <2>1, PeerOfPeer DEF NamesSent, OwnNames
<1>2. OwnNames' /\ PeerNames'
  BY <1>0 DEF OwnNames, PeerNames, Mine, LastTime, Peer
<1> QED
  BY <1>1, <1>2

\* A daemon that starts or dies: its cache and its advertised name are empty.
LEMMA BootNames ==
    ASSUME ClusterTypeOK, LineageInv, NEW n \in Node, Boot(n) \/ Die(n) PROVE LineageInv'
<1> USE DEF LineageInv
<1>0. PICK x \in HalfHeard(n) \cup {file[n].that} :
          /\ own' = [own EXCEPT ![n] = BootStatus(file[n])]
          /\ file' = [file EXCEPT ![n] = [file[n] EXCEPT !.that = x]]
  BY BootFile
<1> DEFINE s == [file[n] EXCEPT !.that = x]
<1>1. that' = [that EXCEPT ![n] = Blank] /\ UNCHANGED netVars
  BY DEF Boot, Die, StartMonitor, Crash
<1>2. s.this = file[n].this /\ s.that = x
  BY Typed DEF State
<1>3. x \in Mine(Peer(n))
  BY DEF HalfHeard, NamesSent, PeerNames
<1>4. BootStatus(file[n]).snapshot \in Mine(n)' /\ Blank.snapshot \in Mine(Peer(n))
  BY DEF BootStatus, Blank, Mine
<1> HIDE DEF s
<1>5. file' = [file EXCEPT ![n] = s]
  BY <1>0 DEF s
<1>6. Growing
  BY <1>2, <1>5, ThisUnchanged
<1>7. OwnNames'
  BY <1>0, <1>2, <1>4, <1>5, <1>6, OwnNamesUpdate DEF OwnNames, Growing
<1>8. PeerNames'
  BY <1>1, <1>2, <1>3, <1>4, <1>5, <1>6, PeerNamesUpdate
<1>9. NamesSent'
  BY <1>1, <1>6, SameSent DEF netVars
<1> QED
  BY <1>7, <1>8, <1>9

LEMMA ExecuteNames ==
    ASSUME ClusterTypeOK, LineageInv, NEW n \in Node, Execute(n) PROVE LineageInv'
<1>1. CASE BeginMakeMaster(n) \/ BeginMakeSlave(n) \/ MetadataFails(n)
  BY <1>1, NoNames DEF BeginMakeMaster, BeginMakeSlave, MetadataFails, vars, monitorVars, netVars
<1>2. CASE MakeIdle(n)
  BY <1>2, SetDbNames DEF MakeIdle
<1>3. CASE SetMetadata(n)
  BY <1>3, SetDbNames DEF SetMetadata
<1>4. CASE StartAudio(n)
  BY <1>4, SetAudioNames, NoNames DEF StartAudio, netVars
<1>5. CASE StopAudio(n)
  BY <1>5, SetAudioNames DEF StopAudio
<1> QED
  BY <1>1, <1>2, <1>3, <1>4, <1>5 DEF Execute

\* A new name is later than all that n has given.
LEMMA NewNameIsLater ==
    ASSUME ClusterTypeOK, NEW n \in Node, NEW x \in NewName(n)
    PROVE  /\ x \in Snapshot /\ x # NoSnapshot /\ x.host = n
           /\ LastTime(n) \in Nat /\ x.time = LastTime(n) + 1
           /\ x \notin Mine(n)
<1>1. LastTime(n) \in Nat
  BY Typed, SnapshotAssumption DEF LastTime, State
<1> QED
  BY <1>1, NameAssumption DEF NewName, Mine

LEMMA NameSnapshotNames ==
    ASSUME ClusterTypeOK, LineageInv, NEW n \in Node, NameSnapshot(n) PROVE LineageInv'
<1> USE DEF LineageInv
<1>0. PICK x \in NewName(n) : /\ own' = [own EXCEPT ![n].snapshot = x]
                              /\ file' = [file EXCEPT ![n].this = x]
  BY DEF NameSnapshot
<1> DEFINE r == [own[n] EXCEPT !.snapshot = x]
           s == [file[n] EXCEPT !.this = x]
<1>1. own' = [own EXCEPT ![n] = r] /\ file' = [file EXCEPT ![n] = s]
  BY <1>0
<1>2. r.snapshot = x /\ s.this = x /\ s.that = file[n].that
  BY Typed DEF Advert, State
<1> HIDE DEF r, s
<1>3. /\ file'[n].this = x
      /\ \A m \in Node \ {n} : file'[m].this = file[m].this
  BY <1>1, <1>2 DEF ClusterTypeOK
<1>4. LastTime(n)' = x.time
  BY <1>3, NewNameIsLater DEF LastTime
<1>5. Growing
  <2> SUFFICES ASSUME NEW m \in Node, NEW y \in Mine(m) PROVE y \in Mine(m)'
    BY DEF Growing
  <2>1. CASE m = n /\ y # NoSnapshot
    <3>1. y.time \in Nat /\ y.time <= LastTime(n) /\ y.host = n /\ y \in Snapshot
      BY <2>1, SnapshotAssumption DEF Mine
    <3>2. y.time <= LastTime(n)'
      BY <1>4, <3>1, NewNameIsLater
    <3> QED
      BY <2>1, <3>1, <3>2 DEF Mine
  <2>2. CASE m # n
    BY <1>3, <2>2 DEF Mine, LastTime
  <2> QED
    BY <2>1, <2>2 DEF Mine
<1>6. x \in Mine(n)'
  BY <1>4, NewNameIsLater DEF Mine
<1>7. OwnNames'
  BY <1>1, <1>2, <1>5, <1>6, OwnNamesUpdate
<1>8. that' = [that EXCEPT ![n] = that[n]]
  BY DEF NameSnapshot, ClusterTypeOK, TypeOK
<1>9. PeerNames'
  BY <1>1, <1>2, <1>5, <1>8, PeerNamesUpdate DEF PeerNames
<1>10. NamesSent'
  BY <1>5, SameSent DEF NameSnapshot, netVars
<1> QED
  BY <1>7, <1>9, <1>10

LEMMA LongHandlerNames ==
    ASSUME ClusterTypeOK, LineageInv, NEW n \in Node, LongHandler(n) PROVE LineageInv'
<1>1. CASE SnapshotTaken(n)
  BY <1>1, SetDbNames DEF SnapshotTaken, monitorVars
<1>2. CASE NameSnapshot(n)
  BY <1>2, NameSnapshotNames
<1>3. CASE SnapshotFails(n) \/ ReplaceDatabase(n) \/ ReplicationStarts(n) \/ RestoreFails(n)
  BY <1>3, NoNames DEF SnapshotFails, ReplaceDatabase, ReplicationStarts, RestoreFails, vars,
     monitorVars, netVars
<1>4. CASE SnapshotRestored(n)
  BY <1>4, SetDbNames DEF SnapshotRestored
<1> QED
  BY <1>1, <1>2, <1>3, <1>4 DEF LongHandler

LEMMA LocalNames ==
    ASSUME ClusterTypeOK, LineageInv, NEW n \in Node, Local(n) PROVE LineageInv'
<1>1. ASSUME NEW f \in {"mysql", "repl", "status"}, NEW v,
             own' = [own EXCEPT ![n] = [own[n] EXCEPT ![f] = v]], UNCHANGED <<file, that, netVars>>
      PROVE  LineageInv'
  <2> DEFINE r == [own[n] EXCEPT ![f] = v]
  <2>1. r.snapshot = own[n].snapshot
    BY Typed DEF Advert
  <2>2. own' = [own EXCEPT ![n] = r] /\ file' = [file EXCEPT ![n] = file[n]]
    BY <1>1 DEF ClusterTypeOK
  <2> HIDE DEF r
  <2> QED
    BY <1>1, <2>1, <2>2, SameNames
<1>2. CASE CheckStatus(n)
  <2>1. own' = [own EXCEPT ![n] = [own[n] EXCEPT !["mysql"] = mysqld[n]]]
    BY <1>2 DEF CheckStatus
  <2> QED
    BY <1>1, <1>2, <2>1 DEF CheckStatus, daemonVars
<1>3. ASSUME NEW t \in ReplTime, ReplicationTestComplete(n, t) PROVE LineageInv'
  <2>1. own' = [own EXCEPT ![n] = [own[n] EXCEPT !["repl"] = t]]
    BY <1>3 DEF ReplicationTestComplete
  <2> QED
    BY <1>1, <1>3, <2>1 DEF ReplicationTestComplete, daemonVars
<1>4. ASSUME NEW s \in BOOLEAN, SetAudioStatus(n, s) PROVE LineageInv'
  <2>1. own' = [own EXCEPT ![n] = [own[n] EXCEPT !["status"] = s]]
    BY <1>4 DEF SetAudioStatus
  <2> QED
    BY <1>1, <1>4, <2>1 DEF SetAudioStatus, daemonVars
<1> QED
  BY <1>2, <1>3, <1>4 DEF Local

LEMMA NextNames ==
    ClusterTypeOK /\ LineageInv /\ [ClusterNext]_allVars => LineageInv'
<1> SUFFICES ASSUME ClusterTypeOK, LineageInv, [ClusterNext]_allVars PROVE LineageInv'
  OBVIOUS
<1>1. CASE UNCHANGED allVars
  BY <1>1, NoNames DEF allVars, vars, monitorVars, netVars, daemonVars
<1>2. ASSUME NEW n \in Node,
             \/ \E c \in Commands : Request(n, c)
             \/ \E m \in {"down", "accessible"} : MysqlChanges(n, m)
      PROVE  LineageInv'
  BY <1>2, NoNames DEF Request, MysqlChanges, vars, monitorVars, netVars, daemonVars
<1>3. ASSUME NEW n \in Node, NEW l \in Link, HearPong(n, l) PROVE LineageInv'
  BY <1>3, NoNames DEF HearPong, ReceivePong, daemonVars
<1>4. ASSUME NEW n \in Node, NEW l \in Link, Drop(n, l) PROVE LineageInv'
  <2>1. /\ UNCHANGED <<own, file, that>>
        /\ \A m \in Node : \A k \in Link : pings'[m][k] \subseteq pings[m][k]
    <3>1. CASE LosePong(n, l)
      BY <1>4, <3>1 DEF Drop, LosePong, monitorVars, daemonVars
    <3>2. ASSUME NEW p, LosePing(n, l, p)
          PROVE  /\ UNCHANGED that
                 /\ \A m \in Node : \A k \in Link : pings'[m][k] \subseteq pings[m][k]
      BY <3>2 DEF LosePing, monitorVars, ClusterTypeOK, TypeOK
    <3>3. UNCHANGED <<own, file>>
      BY <1>4 DEF Drop, daemonVars
    <3> QED
      BY <1>4, <3>1, <3>2, <3>3 DEF Drop
  <2>2. NamesSent'
    BY <2>1, SameMine, SameSent DEF LineageInv
  <2> QED
    BY <2>1, <2>2 DEF LineageInv, OwnNames, PeerNames, Mine, LastTime, Peer
<1>5. ASSUME NEW n \in Node, Boot(n) \/ Die(n) PROVE LineageInv'
  BY <1>5, BootNames
<1> QED
  BY <1>1, <1>2, <1>3, <1>4, <1>5, SendNames, ExecuteNames, LongHandlerNames, LocalNames,
     HearPingNames, LoseLinkNames DEF ClusterNext

LEMMA InitLineage == ClusterInit => LineageInv
  BY DEF ClusterInit, Init, LineageInv, OwnNames, PeerNames, NamesSent, Mine,
         BootStatus, FreshState, Blank

\* Make Slave restores a snapshot that the peer made, stored the name of and advertised,
\* never one of the node's own nor a name that was never given: through any loss, delay,
\* crash and restart, also one between the two writes with which a name is stored.
THEOREM RestoresPeersSnapshotHolds == ClusterSpec => []RestoresPeersSnapshot
<1>1. ClusterInit => ClusterTypeOK /\ LineageInv
  BY InitClusterTyped, InitLineage
<1>2. ClusterTypeOK /\ LineageInv /\ [ClusterNext]_allVars => (ClusterTypeOK /\ LineageInv)'
  BY ClusterNextTyped, NextNames
<1>3. LineageInv => RestoresPeersSnapshot
  BY DEF LineageInv, PeerNames, Mine, RestoresPeersSnapshot
<1> QED
  BY <1>1, <1>2, <1>3, PTL DEF ClusterSpec

-----------------------------------------------------------------------------
(* What the monitor guarantees by itself it also guarantees in the daemon,   *)
(* whose handlers announce the cache at moments of their own.                *)

LEMMA BroadcastKnowledge ==
    ASSUME ClusterTypeOK, KnowledgeInv, NEW n \in Node, Broadcast(n), UNCHANGED <<that, reach>>
    PROVE  KnowledgeInv'
<1> SUFFICES ASSUME NEW m \in Node
             PROVE  /\ Reachable(m) \/ (that[m].mysql = "down" /\ that[m].repl = 0)
                    /\ told'[m].reach => Reachable(m)
                    /\ Reachable(m) /\ that[m].mysql # "down" => told'[m].reach
  BY DEF KnowledgeInv, UnreachableIsDown, LossIsAnnounced, RecoveryIsAnnounced, Reachable
<1>1. told'[m].reach = (IF m = n THEN Reachable(n) ELSE told[m].reach)
  BY DEF Broadcast, ClusterTypeOK, TypeOK
<1> QED
  BY <1>1 DEF KnowledgeInv, UnreachableIsDown, LossIsAnnounced, RecoveryIsAnnounced

LEMMA ClusterNextKnowledge ==
    ClusterTypeOK /\ KnowledgeInv /\ [ClusterNext]_allVars => KnowledgeInv'
<1> SUFFICES ASSUME ClusterTypeOK, KnowledgeInv, [ClusterNext]_allVars PROVE KnowledgeInv'
  OBVIOUS
<1>0. TypeOK
  BY DEF ClusterTypeOK
<1>1. CASE UNCHANGED allVars
  BY <1>1, SameKnowledge DEF allVars, vars, monitorVars
<1>2. ASSUME NEW n \in Node,
             \/ \E c \in Commands : Request(n, c)
             \/ \E m \in {"down", "accessible"} : MysqlChanges(n, m)
             \/ Send(n)
             \/ \E l \in Link : HearPong(n, l) \/ Drop(n, l)
      PROVE  KnowledgeInv'
  BY <1>2, SameKnowledge DEF Request, MysqlChanges, Send, SendPing, HearPong, ReceivePong,
     Drop, LosePing, LosePong, vars, monitorVars
<1>3. ASSUME NEW n \in Node, Execute(n) PROVE KnowledgeInv'
  BY <1>3, SameKnowledge, BroadcastKnowledge DEF Execute, BeginMakeMaster, BeginMakeSlave,
     MakeIdle, SetMetadata, MetadataFails, StartAudio, StopAudio, vars, monitorVars
<1>4. ASSUME NEW n \in Node, LongHandler(n) PROVE KnowledgeInv'
  BY <1>4, SameKnowledge, BroadcastKnowledge DEF LongHandler, SnapshotTaken, NameSnapshot,
     SnapshotFails, ReplaceDatabase, ReplicationStarts, SnapshotRestored, RestoreFails, vars,
     monitorVars
<1>5. ASSUME NEW n \in Node, Local(n) PROVE KnowledgeInv'
  BY <1>5, BroadcastKnowledge DEF Local, CheckStatus, ReplicationTestComplete, SetAudioStatus
<1>6. ASSUME NEW n \in Node, Boot(n) \/ Die(n) PROVE KnowledgeInv'
  BY <1>0, <1>6, BlankKnowledge DEF Boot, Die, StartMonitor, Crash
<1>7. ASSUME NEW n \in Node, NEW l \in Link, NEW p \in pings[n][l], HearPing(n, l, p)
      PROVE  KnowledgeInv'
  BY <1>0, <1>7, ReceivePingKnowledge DEF HearPing
<1>8. ASSUME NEW n \in Node, NEW l \in Link, LoseLink(n, l) PROVE KnowledgeInv'
  BY <1>0, <1>8, WatchdogTimeoutKnowledge DEF LoseLink
<1> QED
  BY <1>1, <1>2, <1>3, <1>4, <1>5, <1>6, <1>7, <1>8 DEF ClusterNext

LEMMA ClusterKnowledge == ClusterSpec => []KnowledgeInv
<1>1. ClusterInit => ClusterTypeOK /\ KnowledgeInv
  BY InitClusterTyped, InitKnowledge DEF ClusterInit
<1>2. ClusterTypeOK /\ KnowledgeInv /\ [ClusterNext]_allVars => (ClusterTypeOK /\ KnowledgeInv)'
  BY ClusterNextTyped, ClusterNextKnowledge
<1> QED
  BY <1>1, <1>2, PTL DEF ClusterSpec

\* Clients connected to a daemon never go on believing an unreachable peer
\* reachable, whichever handler was the last to send them a status.
THEOREM ClusterAnnouncesLoss == ClusterSpec => []LossIsAnnounced
<1>1. KnowledgeInv => LossIsAnnounced
  BY DEF KnowledgeInv
<1> QED
  BY <1>1, ClusterKnowledge, PTL

\* Nor do they go on believing it unreachable when it is heard of again and its database
\* server runs.
THEOREM ClusterAnnouncesRecovery == ClusterSpec => []RecoveryIsAnnounced
<1>1. KnowledgeInv => RecoveryIsAnnounced
  BY DEF KnowledgeInv
<1> QED
  BY <1>1, ClusterKnowledge, PTL

\* What aman(1) and amanctl(1) decide on: the cached status of a peer that nothing is
\* heard of never shows a database server that runs.
THEOREM ClusterUnreachableIsDown == ClusterSpec => []UnreachableIsDown
<1>1. KnowledgeInv => UnreachableIsDown
  BY DEF KnowledgeInv
<1> QED
  BY <1>1, ClusterKnowledge, PTL

-----------------------------------------------------------------------------
(* The daemons implement StatusExchange.  A handler that tells its clients     *)
(* everything may be the first to tell them that the peer is reachable again.  *)

LEMMA BroadcastTold ==
    ASSUME ClusterTypeOK, KnowledgeInv, ToldInv, NEW n \in Node, Broadcast(n), UNCHANGED that
    PROVE  ToldInv'
<1>1. that[n] \in Cached /\ that' = [that EXCEPT ![n] = that[n]]
  BY DEF ClusterTypeOK, TypeOK
<1>2. Reachable(n) \/ that[n] = Forget(that[n])
  BY <1>1 DEF KnowledgeInv, UnreachableIsDown, Forget, Cached
<1> QED
  BY <1>1, <1>2, NewTold DEF Broadcast, ClusterTypeOK

LEMMA BroadcastExchange ==
    ASSUME ClusterTypeOK, KnowledgeInv, ToldInv, NEW n \in Node, Broadcast(n), UNCHANGED pings
    PROVE  Exchange!FindContact(n) \/ UNCHANGED <<Wire, told>>
<1>1. UNCHANGED Wire
  BY DEF Wire
<1>2. /\ told[n] = [reach |-> told[n].reach, peer |-> that[n]]
      /\ told[n].reach \in BOOLEAN
  BY DEF ClusterTypeOK, TypeOK, ToldInv
<1>3. told[n].reach => Reachable(n)
  BY DEF KnowledgeInv, LossIsAnnounced
<1>4. CASE Reachable(n) = told[n].reach
  <2>1. told' = told
    BY <1>2, <1>4 DEF Broadcast, ClusterTypeOK, TypeOK
  <2> QED
    BY <1>1, <2>1
<1>5. CASE Reachable(n) # told[n].reach
  <2>1. ~told[n].reach /\ Reachable(n) = TRUE
    BY <1>2, <1>3, <1>5 DEF Reachable
  <2>2. told' = [told EXCEPT ![n] = [reach |-> TRUE, peer |-> told[n].peer]]
    BY <2>1 DEF Broadcast, ToldInv
  <2> QED
    BY <1>1, <2>1, <2>2 DEF Exchange!FindContact
<1> QED
  BY <1>4, <1>5

\* What each step of the cluster is to the clients and to the channel.
ExchangeStep == ToldInv' /\ [Exchange!Next]_(Exchange!view)

LEMMA ClusterNextExchange ==
    ASSUME ClusterTypeOK, KnowledgeInv, ToldInv, [ClusterNext]_allVars
    PROVE  ExchangeStep
<1>0. TypeOK
  BY DEF ClusterTypeOK
<1>1. ASSUME UNCHANGED <<that, told, pings>> PROVE ExchangeStep
  BY <1>1, SameTold DEF ExchangeStep, Exchange!view, Wire
<1>2. ASSUME NEW n \in Node, Broadcast(n), UNCHANGED <<that, pings>>
      PROVE  ExchangeStep
  BY <1>2, BroadcastTold, BroadcastExchange DEF ExchangeStep, Exchange!view, Exchange!Next
<1>3. CASE UNCHANGED allVars
  BY <1>1, <1>3 DEF allVars, vars, monitorVars, netVars
<1>4. ASSUME NEW n \in Node,
             \/ \E c \in Commands : Request(n, c)
             \/ \E m \in {"down", "accessible"} : MysqlChanges(n, m)
      PROVE  ExchangeStep
  BY <1>1, <1>4 DEF Request, MysqlChanges, vars, monitorVars, netVars
<1>5. ASSUME NEW n \in Node, Execute(n)
      PROVE  ExchangeStep
  BY <1>1, <1>2, <1>5 DEF Execute, BeginMakeMaster, BeginMakeSlave, MakeIdle, SetMetadata,
     MetadataFails, StartAudio, StopAudio, vars, monitorVars, netVars
<1>6. ASSUME NEW n \in Node, LongHandler(n)
      PROVE  ExchangeStep
  BY <1>1, <1>2, <1>6 DEF LongHandler, SnapshotTaken, NameSnapshot, SnapshotFails,
     ReplaceDatabase, ReplicationStarts, SnapshotRestored, RestoreFails, vars, monitorVars, netVars
<1>7. ASSUME NEW n \in Node, Local(n)
      PROVE  ExchangeStep
  BY <1>2, <1>7 DEF Local, CheckStatus, ReplicationTestComplete, SetAudioStatus, netVars
<1>8. ASSUME NEW n \in Node, Boot(n) \/ Die(n)
      PROVE  ExchangeStep
  <2>1. StartMonitor(n) \/ Crash(n)
    BY <1>8 DEF Boot, Die
  <2>2. ToldInv'
    BY <1>0, <2>1, NewTold DEF StartMonitor, Crash
  <2> QED
    BY <2>1, <2>2, RestartExchange DEF ExchangeStep, Exchange!view, Exchange!Next
<1>9. ASSUME NEW n \in Node, Send(n)
      PROVE  ExchangeStep
  BY <1>0, <1>9, SameTold, SendPingExchange DEF ExchangeStep, Exchange!view, Send, SendPing,
     monitorVars, Exchange!Next
<1>10. ASSUME NEW n \in Node, NEW l \in Link, NEW p \in pings[n][l],
              HearPing(n, l, p) \/ LosePing(n, l, p)
       PROVE  ExchangeStep
  <2>1. ToldInv'
    BY <1>0, <1>10, SameTold, ReceivePingTold DEF HearPing, LosePing, monitorVars
  <2> QED
    BY <1>0, <1>10, <2>1, ReceivePingExchange, LosePingExchange
       DEF ExchangeStep, Exchange!view, HearPing, Exchange!Next
<1>11. ASSUME NEW n \in Node, NEW l \in Link, LoseLink(n, l)
       PROVE  ExchangeStep
  BY <1>0, <1>11, WatchdogTimeoutTold, WatchdogTimeoutExchange
     DEF ExchangeStep, Exchange!view, LoseLink, Exchange!Next
<1>12. ASSUME NEW n \in Node, NEW l \in Link, HearPong(n, l) \/ Drop(n, l)
       PROVE  ExchangeStep
  BY <1>1, <1>10, <1>12 DEF HearPong, ReceivePong, Drop, LosePong, monitorVars
<1>13. ASSUME NEW n \in Node, NEW l \in Link,
              \/ HearPong(n, l) \/ LoseLink(n, l) \/ Drop(n, l)
              \/ \E p \in pings[n][l] : HearPing(n, l, p)
       PROVE  ExchangeStep
  BY <1>10, <1>11, <1>12, <1>13
<1>14. CASE ClusterNext
  BY <1>4, <1>5, <1>6, <1>7, <1>8, <1>9, <1>13, <1>14 DEF ClusterNext
<1> QED
  BY <1>3, <1>14

\* The whole cluster keeps the promise of its monitors: whichever handler of a daemon
\* speaks to clients, what it says of the peer is what one lossy, reordering channel
\* would let it say.
THEOREM ClusterExchangeRefined == ClusterSpec => IsStatusExchange
<1>1. ClusterInit => ClusterTypeOK /\ KnowledgeInv /\ ToldInv /\ Exchange!Init
  BY InitClusterTyped, InitKnowledge, InitTold, InitExchange DEF ClusterInit
<1>2. ClusterTypeOK /\ KnowledgeInv /\ ToldInv /\ [ClusterNext]_allVars
      => /\ (ClusterTypeOK /\ KnowledgeInv /\ ToldInv)'
         /\ [Exchange!Next]_(Exchange!view)
  BY ClusterNextTyped, ClusterNextKnowledge, ClusterNextExchange DEF ExchangeStep
<1> QED
  BY <1>1, <1>2, PTL DEF ClusterSpec, IsStatusExchange, Exchange!Spec

-----------------------------------------------------------------------------
(* Two masters.  The second Make Master is news to the other node until it has  *)
(* heard its name, and a master that hears it is demoted.  The name is new: the *)
(* cache of the peer holds one that n gave before.                              *)

\* A step that makes no master, and after which no node knows of a master that did not
\* before, is harmless.
LEMMA NoNewMaster ==
    ASSUME ConflictIsNews,
           \A m \in Node : IsMaster(m)' => IsMaster(m),
           \A m \in Node : KnowsMaster(m)' => KnowsMaster(m)
    PROVE  ConflictIsNews'
  BY DEF ConflictIsNews, DualMaster

\* Nor is one after which some node does not know of a master.
LEMMA SomeUnaware ==
    ASSUME NEW n \in Node, ~KnowsMaster(n)' PROVE ConflictIsNews'
  BY DEF ConflictIsNews

\* What a node knows of its peer depends on no more than this.
LEMMA SameKnown ==
    ASSUME UNCHANGED that,
           \A m \in Node : own'[m].snapshot = own[m].snapshot,
           \A m \in Node : busy'[m] = "naming" <=> busy[m] = "naming"
    PROVE  \A m \in Node : KnowsMaster(m)' => KnowsMaster(m)
<1> SUFFICES ASSUME NEW m \in Node PROVE KnowsMaster(m)' => KnowsMaster(m)
  OBVIOUS
<1>1. Peer(m)' = Peer(m)
  BY DEF Peer
<1> QED
  BY <1>1, PeerIsOther DEF KnowsMaster

\* SetDb changes neither names nor caches.
LEMMA SetDbKeepsName ==
    ASSUME ClusterTypeOK, NEW n \in Node, NEW role, SetDb(n, role)
    PROVE  /\ \A m \in Node : own'[m].snapshot = own[m].snapshot
           /\ \A m \in Node \ {n} : file'[m] = file[m]
           /\ file'[n].db = role
  BY Typed DEF SetDb, ClusterTypeOK, TypeOK, Advert, State

LEMMA SetAudioKeepsName ==
    ASSUME ClusterTypeOK, NEW n \in Node, NEW role, SetAudio(n, role)
    PROVE  /\ \A m \in Node : own'[m].snapshot = own[m].snapshot
           /\ \A m \in Node : file'[m].db = file[m].db
<1>1. \A m \in Node : file'[m].db = file[m].db
  BY Typed DEF SetAudio, ClusterTypeOK, State
<1>2. PICK s : own' = [own EXCEPT ![n] = [own[n] EXCEPT !.audio = role, !.status = s]]
  BY DEF SetAudio
<1>3. \A m \in Node : own'[m].snapshot = own[m].snapshot
  BY <1>2, Typed DEF ClusterTypeOK, TypeOK, Advert
<1> QED
  BY <1>1, <1>3

LEMMA ExecuteConflict ==
    ASSUME ClusterTypeOK, ConflictIsNews, "SM" \notin Commands, NEW n \in Node, Execute(n)
    PROVE  ConflictIsNews'
<1>0. UNCHANGED that
  BY DEF Execute, BeginMakeMaster, BeginMakeSlave, MakeIdle, SetMetadata, MetadataFails,
         StartAudio, StopAudio, vars, monitorVars
<1>1. CASE BeginMakeMaster(n) \/ BeginMakeSlave(n)
  <2>1. /\ UNCHANGED <<own, file>>
        /\ \A m \in Node : busy'[m] = "naming" <=> busy[m] = "naming"
    BY <1>1 DEF BeginMakeMaster, BeginMakeSlave, Take, Free, ClusterTypeOK, vars
  <2> QED
    BY <1>0, <2>1, SameKnown, NoNewMaster DEF IsMaster
<1>2. CASE MakeIdle(n)
  <2>1. UNCHANGED busy /\ SetDb(n, "Idle")
    BY <1>2 DEF MakeIdle
  <2> QED
    BY <1>0, <2>1, SetDbKeepsName, SameKnown, NoNewMaster DEF IsMaster
<1>3. CASE SetMetadata(n) \/ MetadataFails(n)
  BY <1>3 DEF SetMetadata, MetadataFails, Take, ClusterTypeOK
<1>4. CASE StartAudio(n) \/ StopAudio(n)
  <2>1. /\ UNCHANGED busy
        /\ SetAudio(n, "Slave") \/ SetAudio(n, "Idle") \/ UNCHANGED <<own, file>>
    BY <1>4 DEF StartAudio, StopAudio
  <2> QED
    BY <1>0, <2>1, SetAudioKeepsName, SameKnown, NoNewMaster DEF IsMaster
<1> QED
  BY <1>1, <1>2, <1>3, <1>4 DEF Execute

\* The moments that matter: a node becomes master, and gives the name that tells.
LEMMA LongHandlerConflict ==
    ASSUME ClusterTypeOK, LineageInv, ConflictIsNews, NEW n \in Node, LongHandler(n)
    PROVE  ConflictIsNews'
<1>1. CASE SnapshotTaken(n)
  <2>1. busy'[n] = "naming"
    BY <1>1 DEF SnapshotTaken, ClusterTypeOK
  <2>2. ~KnowsMaster(Peer(n))'
    BY <2>1, PeerOfPeer DEF KnowsMaster, Peer
  <2> QED
    BY <2>2, PeerIsOther, SomeUnaware
<1>2. CASE NameSnapshot(n)
  <2>1. PICK x \in NewName(n) : own' = [own EXCEPT ![n].snapshot = x]
    BY <1>2 DEF NameSnapshot
  <2>2. own'[n].snapshot = x /\ UNCHANGED that
    BY <1>2, <2>1, Typed DEF NameSnapshot, ClusterTypeOK, TypeOK, Advert
  <2>3. that[Peer(n)].snapshot \in Mine(n) /\ x \notin Mine(n)
    BY PeerIsOther, PeerOfPeer, NewNameIsLater DEF LineageInv, PeerNames
  <2>4. x \notin {that[Peer(n)].snapshot, NoSnapshot}
    BY <2>3 DEF Mine
  <2>5. Peer(Peer(n))' = n /\ Peer(n)' = Peer(n)
    BY PeerOfPeer DEF Peer
  <2>6. ~KnowsMaster(Peer(n))'
    BY <2>2, <2>4, <2>5 DEF KnowsMaster
  <2> QED
    BY <2>6, PeerIsOther, SomeUnaware
<1>3. CASE \/ SnapshotFails(n) \/ ReplaceDatabase(n) \/ ReplicationStarts(n) \/ RestoreFails(n)
  <2>1. /\ UNCHANGED <<own, file, that>>
        /\ \A m \in Node : busy'[m] = "naming" <=> busy[m] = "naming"
    BY <1>3 DEF SnapshotFails, ReplaceDatabase, ReplicationStarts, RestoreFails, ClusterTypeOK,
                vars, monitorVars
  <2> QED
    BY <2>1, SameKnown, NoNewMaster DEF IsMaster
<1>4. CASE SnapshotRestored(n)
  <2>1. /\ SetDb(n, "Slave") /\ UNCHANGED that
        /\ \A m \in Node : busy'[m] = "naming" <=> busy[m] = "naming"
    BY <1>4 DEF SnapshotRestored, ClusterTypeOK
  <2> QED
    BY <2>1, SetDbKeepsName, SameKnown, NoNewMaster DEF IsMaster
<1> QED
  BY <1>1, <1>2, <1>3, <1>4 DEF LongHandler

\* thatStateChanged never makes a master, and demotes one that hears of another.
LEMMA ThatStateChangedMaster ==
    ASSUME ClusterTypeOK, NEW n \in Node, NEW r, ThatStateChanged(n, r)
    PROVE  /\ \A m \in Node : IsMaster(m)' => IsMaster(m)
           /\ \A m \in Node : own'[m].snapshot = own[m].snapshot
           /\ IsMaster(n)' => r.db # "Master"
<1>1. file[n] \in State /\ file \in [Node -> State]
  BY DEF ClusterTypeOK
<1> DEFINE name == IF r.snapshot = NoSnapshot THEN file[n].that ELSE r.snapshot
           kept == [file[n] EXCEPT !.that = name]
           idle == [kept EXCEPT !.db = "Idle"]
<1>2. kept.db = file[n].db /\ idle.db = "Idle"
  BY <1>1 DEF State
<1>3. \/ Demoted(n, r) /\ file' = [file EXCEPT ![n] = idle]
      \/ ~Demoted(n, r) /\ file' = [file EXCEPT ![n] = kept]
  BY DEF ThatStateChanged
<1>4. \A m \in Node : own'[m].snapshot = own[m].snapshot
  <2>1. own' = [own EXCEPT ![n] = [own[n] EXCEPT !.db = "Idle"]] \/ own' = own
    BY DEF ThatStateChanged
  <2>2. [own[n] EXCEPT !.db = "Idle"].snapshot = own[n].snapshot
    BY Typed DEF Advert
  <2> QED
    BY <2>1, <2>2 DEF ClusterTypeOK, TypeOK
<1> HIDE DEF kept, idle
<1> QED
  BY <1>1, <1>2, <1>3, <1>4 DEF Demoted, IsMaster

\* A master that hears of another is demoted, if the status is news; and if it is not,
\* nothing is learned.
LEMMA HearPingConflict ==
    ASSUME ClusterTypeOK, ConflictIsNews, NEW n \in Node, NEW l \in Link, NEW p, HearPing(n, l, p)
    PROVE  ConflictIsNews'
<1>0. UNCHANGED busy
  BY DEF HearPing
<1>1. CASE Differs(n, p)
  <2>1. /\ ThatStateChanged(n, Learn(p))
        /\ \A m \in Node : that'[m] = IF m = n THEN Learn(p) ELSE that[m]
    BY <1>1 DEF HearPing, ReceivePing, ClusterTypeOK, TypeOK
  <2>2. IsMaster(n)' => ~KnowsMaster(n)'
    BY <2>1, ThatStateChangedMaster DEF KnowsMaster
  <2>3. CASE IsMaster(n)'
    BY <2>2, <2>3, SomeUnaware
  <2>4. CASE ~IsMaster(n)'
    BY <2>4 DEF ConflictIsNews, DualMaster
  <2> QED
    BY <2>3, <2>4
<1>2. CASE ~Differs(n, p)
  <2>1. UNCHANGED <<own, file, that>>
    BY <1>2 DEF HearPing, ReceivePing
  <2> QED
    BY <1>0, <2>1, SameKnown, NoNewMaster DEF IsMaster
<1> QED
  BY <1>1, <1>2

LEMMA LoseLinkConflict ==
    ASSUME ClusterTypeOK, ConflictIsNews, NEW n \in Node, NEW l \in Link, LoseLink(n, l)
    PROVE  ConflictIsNews'
<1>0. UNCHANGED busy
  BY DEF LoseLink
<1>1. CASE LastLink(n, l)
  <2>1. /\ ThatStateChanged(n, Forget(that[n]))
        /\ that' = [that EXCEPT ![n] = Forget(that[n])]
    BY <1>1 DEF LoseLink, WatchdogTimeout
  <2>2. Forget(that[n]).db = that[n].db /\ Forget(that[n]).snapshot = that[n].snapshot
    BY Typed DEF Forget, Cached
  <2>3. \A m \in Node : that'[m].db = that[m].db /\ that'[m].snapshot = that[m].snapshot
    BY <2>1, <2>2 DEF ClusterTypeOK, TypeOK
  <2>4. \A m \in Node : own'[m].snapshot = own[m].snapshot
    BY <2>1, ThatStateChangedMaster
  <2>5. \A m \in Node : KnowsMaster(m)' => KnowsMaster(m)
    <3> SUFFICES ASSUME NEW m \in Node PROVE KnowsMaster(m)' => KnowsMaster(m)
      OBVIOUS
    <3>1. Peer(m)' = Peer(m)
      BY DEF Peer
    <3> QED
      BY <1>0, <2>3, <2>4, <3>1, PeerIsOther DEF KnowsMaster
  <2> QED
    BY <2>1, <2>5, ThatStateChangedMaster, NoNewMaster
<1>2. CASE ~LastLink(n, l)
  <2>1. UNCHANGED <<own, file, that>>
    BY <1>2 DEF LoseLink, WatchdogTimeout
  <2> QED
    BY <1>0, <2>1, SameKnown, NoNewMaster DEF IsMaster
<1> QED
  BY <1>1, <1>2

\* A daemon that dies or starts knows of no master.
LEMMA RestartConflict ==
    ASSUME ClusterTypeOK, NEW n \in Node, Boot(n) \/ Die(n) PROVE ConflictIsNews'
<1>1. that'[n] = Blank
  BY DEF Boot, Die, StartMonitor, Crash, ClusterTypeOK, TypeOK
<1> QED
  BY <1>1, SomeUnaware DEF KnowsMaster, Blank

LEMMA LocalConflict ==
    ASSUME ClusterTypeOK, ConflictIsNews, NEW n \in Node, Local(n) PROVE ConflictIsNews'
<1>1. UNCHANGED <<file, that, busy>>
  BY DEF Local, CheckStatus, ReplicationTestComplete, SetAudioStatus, daemonVars
<1>2. PICK f \in {"mysql", "repl", "status"} : \E v : own' = [own EXCEPT ![n] = [own[n] EXCEPT ![f] = v]]
  <2>1. CASE CheckStatus(n)
    <3>1. own' = [own EXCEPT ![n] = [own[n] EXCEPT !["mysql"] = mysqld[n]]]
      BY <2>1 DEF CheckStatus
    <3> QED
      BY <3>1
  <2>2. ASSUME NEW t \in ReplTime, ReplicationTestComplete(n, t)
        PROVE  own' = [own EXCEPT ![n] = [own[n] EXCEPT !["repl"] = t]]
    BY <2>2 DEF ReplicationTestComplete
  <2>3. ASSUME NEW s \in BOOLEAN, SetAudioStatus(n, s)
        PROVE  own' = [own EXCEPT ![n] = [own[n] EXCEPT !["status"] = s]]
    BY <2>3 DEF SetAudioStatus
  <2> QED
    BY <2>1, <2>2, <2>3 DEF Local
<1>3. \A m \in Node : own'[m].snapshot = own[m].snapshot
  BY <1>2, Typed DEF ClusterTypeOK, TypeOK, Advert
<1> QED
  BY <1>1, <1>3, SameKnown, NoNewMaster DEF IsMaster

LEMMA ClusterNextConflict ==
    ClusterTypeOK /\ LineageInv /\ ConflictIsNews /\ "SM" \notin Commands /\ [ClusterNext]_allVars
    => ConflictIsNews'
<1> SUFFICES ASSUME ClusterTypeOK, LineageInv, ConflictIsNews, "SM" \notin Commands,
                    [ClusterNext]_allVars
             PROVE  ConflictIsNews'
  OBVIOUS
<1>1. ASSUME UNCHANGED <<own, that, file, busy>> PROVE ConflictIsNews'
  BY <1>1, SameKnown, NoNewMaster DEF IsMaster
<1>2. CASE UNCHANGED allVars
  BY <1>1, <1>2 DEF allVars, vars, monitorVars, daemonVars
<1>3. ASSUME NEW n \in Node,
             \/ \E c \in Commands : Request(n, c)
             \/ \E m \in {"down", "accessible"} : MysqlChanges(n, m)
             \/ Send(n)
             \/ \E l \in Link : HearPong(n, l) \/ Drop(n, l)
      PROVE  ConflictIsNews'
  BY <1>1, <1>3 DEF Request, MysqlChanges,
     Send, SendPing, HearPong, ReceivePong, Drop, LosePing, LosePong, vars, monitorVars, daemonVars
<1> QED
  BY <1>2, <1>3, ExecuteConflict, LongHandlerConflict, LocalConflict, HearPingConflict,
     LoseLinkConflict, RestartConflict DEF ClusterNext

\* Two masters never both know of each other: as soon as one of the two hears a status
\* that the other has sent since its last Make Master, it is demoted.  The commands may
\* come from any client, race with pings and with each other, and the daemons, the links
\* and the databases may fail at any time; only SM, which makes a master without a new
\* snapshot name, is left out.
THEOREM ConflictIsNewsHolds ==
    ASSUME "SM" \notin Commands PROVE ClusterSpec => []ConflictIsNews
<1>1. ClusterInit => ClusterTypeOK /\ LineageInv /\ ConflictIsNews
  <2> SUFFICES ASSUME ClusterInit PROVE ConflictIsNews
    BY InitClusterTyped, InitLineage
  <2>1. PICK n \in Node : TRUE
    BY NodeAssumption
  <2>2. ~KnowsMaster(n)
    BY DEF ClusterInit, Init, KnowsMaster, Blank
  <2> QED
    BY <2>2 DEF ConflictIsNews
<1>2. ClusterTypeOK /\ LineageInv /\ ConflictIsNews /\ [ClusterNext]_allVars
      => (ClusterTypeOK /\ LineageInv /\ ConflictIsNews)'
  BY ClusterNextTyped, NextNames, ClusterNextConflict
<1> QED
  BY <1>1, <1>2, PTL DEF ClusterSpec

-----------------------------------------------------------------------------
(* Roles and replication.  Where nothing fails, replication is off from the     *)
(* beginning of a Make Master and while a database is replaced, on from the end *)
(* of a restore, and a Make Master or Make Slave that has stopped it goes on to *)
(* the new role.                                                                *)

ReplInv == \A n \in Node :
    /\ file[n].db = "Master" /\ busy[n] # "started" => ~slave[n]
    /\ file[n].db = "Slave" /\ busy[n] \in {"no", "restore", "started"} => slave[n]
    /\ busy[n] \in {"snapshot", "loading", "naming"} => ~slave[n]
    /\ busy[n] = "started" => slave[n]
    /\ busy[n] = "naming" => file[n].db = "Master"
    /\ mysqld[n] # "accessible" => busy[n] = "loading"

LEMMA SameRepl ==
    ASSUME ReplInv, UNCHANGED <<file, slave, mysqld, busy>> PROVE ReplInv'
  BY DEF ReplInv

\* thatStateChanged, in a free daemon, leaves a role alone or makes it Idle.
LEMMA ThatStateChangedRepl ==
    ASSUME ClusterTypeOK, ReplInv, NEW n \in Node, NEW r, ThatStateChanged(n, r),
           busy[n] = "no", UNCHANGED <<slave, mysqld, busy>>
    PROVE  ReplInv'
<1> DEFINE kept == [file[n] EXCEPT !.that =
                      IF r.snapshot = NoSnapshot THEN file[n].that ELSE r.snapshot]
           idle == [kept EXCEPT !.db = "Idle"]
<1>1. kept.db = file[n].db /\ idle.db = "Idle"
  BY DEF ClusterTypeOK, State
<1>2. file' = [file EXCEPT ![n] = idle] \/ file' = [file EXCEPT ![n] = kept]
  BY DEF ThatStateChanged
<1> HIDE DEF kept, idle
<1>3. /\ \A m \in Node \ {n} : file'[m].db = file[m].db
      /\ file'[n].db \in {file[n].db, "Idle"}
  BY <1>1, <1>2 DEF ClusterTypeOK
<1> QED
  BY <1>3 DEF ReplInv

LEMMA ExecuteRepl ==
    ASSUME ClusterTypeOK, ReplInv, ~MayFail, "SM" \notin Commands, NEW n \in Node, Execute(n)
    PROVE  ReplInv'
<1>0. ASSUME busy[n] = "no", StopSlaves(n)
      PROVE  ~slave'[n] /\ \A m \in Node \ {n} : slave'[m] = slave[m]
  <2>1. mysqld[n] = "accessible"
    BY <1>0 DEF ReplInv
  <2> QED
    BY <1>0, <2>1 DEF StopSlaves, ClusterTypeOK
<1>1. CASE BeginMakeMaster(n)
  <2>1. /\ \A m \in Node \ {n} : slave'[m] = slave[m] /\ busy'[m] = busy[m]
        /\ ~slave'[n] /\ busy[n] = "no" /\ busy'[n] = "snapshot" /\ UNCHANGED <<file, mysqld>>
    BY <1>0, <1>1 DEF BeginMakeMaster, Take, Free, ClusterTypeOK
  <2> QED
    BY <2>1 DEF ReplInv
<1>2. CASE BeginMakeSlave(n)
  <2>1. /\ \A m \in Node \ {n} : busy'[m] = busy[m]
        /\ busy[n] = "no" /\ busy'[n] = "restore" /\ UNCHANGED <<file, slave, mysqld>>
    BY <1>2 DEF BeginMakeSlave, Take, Free, ClusterTypeOK
  <2> QED
    BY <2>1 DEF ReplInv
<1>3. CASE MakeIdle(n)
  <2>1. /\ \A m \in Node \ {n} : slave'[m] = slave[m] /\ file'[m] = file[m]
        /\ file'[n].db = "Idle" /\ ~slave'[n] /\ busy[n] = "no" /\ UNCHANGED <<busy, mysqld>>
    BY <1>0, <1>3, SetDbKeepsName DEF MakeIdle, Take, Free
  <2> QED
    BY <2>1 DEF ReplInv
<1>4. CASE StartAudio(n) \/ StopAudio(n)
  <2>1. /\ \A m \in Node : file'[m].db = file[m].db
        /\ UNCHANGED <<slave, mysqld, busy>>
    BY <1>4, SetAudioKeepsName DEF StartAudio, StopAudio
  <2> QED
    BY <2>1 DEF ReplInv
<1>5. CASE SetMetadata(n) \/ MetadataFails(n)
  BY <1>5 DEF SetMetadata, MetadataFails, Take, ClusterTypeOK
<1> QED
  BY <1>1, <1>2, <1>3, <1>4, <1>5 DEF Execute

LEMMA LongHandlerRepl ==
    ASSUME ClusterTypeOK, ReplInv, ~MayFail, NEW n \in Node, LongHandler(n) PROVE ReplInv'
<1>1. CASE SnapshotTaken(n)
  <2>1. /\ \A m \in Node \ {n} : file'[m] = file[m] /\ busy'[m] = busy[m]
        /\ file'[n].db = "Master" /\ busy'[n] = "naming" /\ UNCHANGED <<slave, mysqld>>
        /\ ~slave[n] /\ mysqld[n] = "accessible"
    BY <1>1, SetDbKeepsName DEF SnapshotTaken, ReplInv, ClusterTypeOK
  <2> QED
    BY <2>1 DEF ReplInv
<1>2. CASE NameSnapshot(n)
  <2>1. \A m \in Node : file'[m].db = file[m].db
    BY <1>2 DEF NameSnapshot, ClusterTypeOK, State
  <2>2. /\ \A m \in Node \ {n} : busy'[m] = busy[m]
        /\ busy[n] = "naming" /\ busy'[n] = "no" /\ UNCHANGED <<slave, mysqld>>
    BY <1>2 DEF NameSnapshot, ClusterTypeOK
  <2> QED
    BY <2>1, <2>2 DEF ReplInv
<1>3. CASE SnapshotFails(n)
  BY <1>3 DEF SnapshotFails, ReplInv
<1>4. CASE ReplaceDatabase(n)
  <2>1. /\ \A m \in Node \ {n} : slave'[m] = slave[m] /\ mysqld'[m] = mysqld[m] /\ busy'[m] = busy[m]
        /\ ~slave'[n] /\ busy'[n] = "loading" /\ UNCHANGED file
    BY <1>4 DEF ReplaceDatabase, ClusterTypeOK
  <2> QED
    BY <2>1 DEF ReplInv
<1>5. CASE ReplicationStarts(n)
  <2>1. /\ \A m \in Node \ {n} : slave'[m] = slave[m] /\ mysqld'[m] = mysqld[m] /\ busy'[m] = busy[m]
        /\ slave'[n] /\ busy'[n] = "started" /\ mysqld'[n] = "accessible" /\ UNCHANGED file
    BY <1>5 DEF ReplicationStarts, ClusterTypeOK, MysqlState
  <2> QED
    BY <2>1 DEF ReplInv
<1>6. CASE SnapshotRestored(n)
  <2>1. /\ \A m \in Node \ {n} : busy'[m] = busy[m] /\ file'[m] = file[m]
        /\ busy[n] = "started" /\ busy'[n] = "no" /\ file'[n].db = "Slave" /\ UNCHANGED <<slave, mysqld>>
    BY <1>6, SetDbKeepsName DEF SnapshotRestored, ClusterTypeOK
  <2> QED
    BY <2>1 DEF ReplInv
<1>7. CASE RestoreFails(n)
  <2>1. /\ \A m \in Node \ {n} : busy'[m] = busy[m]
        /\ busy[n] = "restore" /\ busy'[n] = "no" /\ UNCHANGED <<file, slave, mysqld>>
    BY <1>7 DEF RestoreFails, ClusterTypeOK
  <2> QED
    BY <2>1 DEF ReplInv
<1> QED
  BY <1>1, <1>2, <1>3, <1>4, <1>5, <1>6, <1>7 DEF LongHandler

\* The premise: nothing fails and replication is not configured by hand.
Working == ~Outages /\ ~MayFail /\ MaxCrashes = 0 /\ "SM" \notin Commands

LEMMA ClusterNextRepl ==
    ClusterTypeOK /\ ReplInv /\ Working /\ [ClusterNext]_allVars => ReplInv'
<1> SUFFICES ASSUME ClusterTypeOK, ReplInv, Working, [ClusterNext]_allVars
             PROVE  ReplInv'
  OBVIOUS
<1>0. ~Outages /\ ~MayFail /\ MaxCrashes = 0 /\ "SM" \notin Commands
  BY DEF Working
<1>1. CASE UNCHANGED allVars
  BY <1>1, SameRepl DEF allVars, daemonVars
<1>2. ASSUME NEW n \in Node,
             \/ \E c \in Commands : Request(n, c)
             \/ Local(n)
             \/ Boot(n) \/ Send(n)
             \/ \E l \in Link : HearPong(n, l) \/ Drop(n, l)
      PROVE  ReplInv'
  BY <1>2, SameRepl DEF Request, Local, CheckStatus, ReplicationTestComplete, SetAudioStatus,
     Boot, Send, HearPong, Drop, daemonVars
<1>3. ASSUME NEW n \in Node, NEW m \in {"down", "accessible"} PROVE ~MysqlChanges(n, m)
  BY <1>0 DEF MysqlChanges
<1>4. ASSUME NEW n \in Node, NEW l \in Link, NEW p \in pings[n][l], HearPing(n, l, p)
      PROVE  ReplInv'
  BY <1>4, SameRepl, ThatStateChangedRepl DEF HearPing, Free
<1>5. ASSUME NEW n \in Node, NEW l \in Link, LoseLink(n, l) PROVE ReplInv'
  BY <1>5, SameRepl, ThatStateChangedRepl DEF LoseLink, Free
<1>6. ASSUME NEW n \in Node PROVE ~Die(n)
  BY <1>0 DEF Die, ClusterTypeOK
<1> QED
  BY <1>0, <1>1, <1>2, <1>3, <1>4, <1>5, <1>6, ExecuteRepl, LongHandlerRepl DEF ClusterNext

\* The role of each node says what its database server does, whatever commands come from
\* whatever clients and race with the pings that demote a node and leave its replication
\* on.  The hypotheses are what the code needs: no operation on a database fails (no
\* caller of StopSlaves looks), no server goes down by itself, no daemon dies between the
\* start of replication and the change of the role, and SM is not given.
THEOREM RoleIsReplicationHolds ==
    ASSUME ~Outages, ~MayFail, MaxCrashes = 0, "SM" \notin Commands
    PROVE  ClusterSpec => []RoleIsReplication
<1>1. ClusterInit => ClusterTypeOK /\ ReplInv
  BY InitClusterTyped DEF ClusterInit, FreshState, ReplInv
<1>2. ClusterTypeOK /\ ReplInv /\ [ClusterNext]_allVars => (ClusterTypeOK /\ ReplInv)'
  BY ClusterNextTyped, ClusterNextRepl DEF Working
<1>3. ReplInv => RoleIsReplication
  BY DEF ReplInv, RoleIsReplication
<1> QED
  BY <1>1, <1>2, <1>3, PTL DEF ClusterSpec

=============================================================================
