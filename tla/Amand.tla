-------------------------------- MODULE Amand --------------------------------
(***************************************************************************)
(* The two amand(8) daemons of a cluster: class MainObject of              *)
(* src/amand/amand.cpp with the state file it keeps (class AMState) and    *)
(* the PingMonitor it owns.                                                *)
(*                                                                         *)
(* A daemon runs one event loop, so a handler runs to its end before the   *)
(* next event of that node.  The handlers of Make Master and Make Slave    *)
(* copy a whole database and take minutes; they are split where a crash    *)
(* can separate two effects, and meanwhile (busy) the node handles no      *)
(* event, while the peer goes on.                                          *)
(***************************************************************************)
EXTENDS PingMonitor

CONSTANTS
    Clients,      \* the programs that give commands: "aman", "amanctl", "raw"
    Commands,     \* the commands they give
    MayFail,      \* whether operations on a working database may fail
    Outages,      \* whether database servers go down and come up by themselves
    MaxInputs,    \* bound: commands given, watchdogs expired and servers gone down in a behaviour
    MaxCrashes,   \* bound: daemon crashes in a behaviour
    MaxLosses     \* bound: watchdogs that expire in a behaviour

Command == {"MM", "MS", "MI", "SM", "AS", "AI"}

ASSUME CommandAssumption == Commands \subseteq Command
ASSUME ModeAssumption == MayFail \in BOOLEAN /\ Outages \in BOOLEAN
\* The name of a snapshot is the host that made it and the time.
ASSUME SnapshotAssumption == Snapshot \subseteq [host : Node, time : Nat \ {0}]
ASSUME StatusAssumption == Report = Advert
ASSUME CountAssumption == MaxInputs \in Nat /\ MaxCrashes \in Nat /\ MaxLosses \in Nat

VARIABLES
    file,      \* file[n]: the contents of /var/aman/state
    slave,     \* slave[n]: the database server of n replicates from the peer's
    mysqld,    \* mysqld[n]: the condition of the database server of n
    busy,      \* busy[n]: the long handler that n is executing
    request,   \* request[n]: the commands on their way from clients to n
    commands,  \* the number of commands given and of servers gone down so far
    crashes,   \* the number of crashes so far
    losses,    \* the number of watchdogs that have expired so far
    late       \* history: late[n]: n began its last Make Slave when its peer was idle, and
               \*   Make Master has not made the peer a master since

daemonVars == <<file, slave, mysqld, busy, request>>
boundVars  == <<commands, crashes, losses, late>>
allVars    == <<vars, daemonVars, boundVars>>

State == [db : {"Idle", "Master", "Slave"}, audio : {"Idle", "Slave"},
          this : Snapshot \cup {NoSnapshot}, that : Snapshot \cup {NoSnapshot}]

ClusterTypeOK ==
    /\ TypeOK
    /\ file \in [Node -> State]
    /\ slave \in [Node -> BOOLEAN]
    /\ mysqld \in [Node -> MysqlState]
    /\ busy \in [Node -> {"no", "snapshot", "naming", "restore", "loading", "started"}]
    /\ request \in [Node -> SUBSET Commands]
    /\ commands \in 0..MaxInputs
    /\ crashes \in 0..MaxCrashes
    /\ losses \in 0..MaxLosses
    /\ late \in [Node -> BOOLEAN]

FreshState == [db |-> "Idle", audio |-> "Idle", this |-> NoSnapshot, that |-> NoSnapshot]

\* The status of a daemon that has just started: the roles of the state file,
\* but not the name of its snapshot.
BootStatus(s) == [mysql |-> "down", db |-> s.db, snapshot |-> NoSnapshot,
                  repl |-> 0, audio |-> s.audio, status |-> FALSE]

ClusterInit ==
    /\ Init
    /\ own = [n \in Node |-> BootStatus(FreshState)]
    /\ file = [n \in Node |-> FreshState]
    /\ slave = [n \in Node |-> FALSE]
    /\ mysqld = [n \in Node |-> "accessible"]
    /\ busy = [n \in Node |-> "no"]
    /\ request = [n \in Node |-> {}]
    /\ commands = 0
    /\ crashes = 0
    /\ losses = 0
    /\ late = [n \in Node |-> FALSE]

\* The event loop of n is free to take an event.
Free(n) == up[n] /\ busy[n] = "no"

\* sendCommand(StateCommand, StateUpdateArgs()): every client is told.
Broadcast(n) == told' = [told EXCEPT ![n] = [reach |-> Reachable(n), peer |-> that[n]]]

\* Mutant: the state is stored as clients are shown it.
MutStoreShown(n, role) ==
    LET shown == IF own[n].mysql = "accessible" THEN role ELSE "Offline" IN
    /\ file' = [file EXCEPT ![n].db = shown]
    /\ own' = [own EXCEPT ![n].db = role]

SetDb(n, role) ==
    /\ file' = [file EXCEPT ![n].db = role]
    /\ own' = [own EXCEPT ![n].db = role]

-----------------------------------------------------------------------------
(* Clients.                                                                  *)

\* The database state of m in the answer of v to a status request.
Shown(v, m) ==
    IF v # m THEN ThatDbState(v)
    ELSE IF own[m].mysql = "accessible" THEN own[m].db ELSE "Offline"

\* The buttons that aman(1) enables when it runs on v.
AmanOffers(v, n, c) ==
    LET mine == Shown(v, n)
        other == Shown(v, Peer(n))
    IN
    \/ c = "MM" /\ mine = "Idle" /\ other # "Master"
    \/ c = "MS" /\ mine = "Idle" /\ other = "Master"
    \/ c = "MI" /\ mine \in {"Master", "Slave"}

\* The commands that amanctl(1) sends to n after it has asked n for its status.
AmanctlOffers(n, c) ==
    /\ Reachable(n)
    /\ own[n].mysql = "accessible"
    /\ that[n].mysql = "accessible"
    /\ \/ c = "MM" /\ Shown(n, Peer(n)) # "Master"
       \/ c = "MS" /\ Shown(n, Peer(n)) = "Master"
       \/ c = "MI" /\ (own[n].db = "Master" => Shown(n, Peer(n)) = "Idle")
       \/ c = "AS" /\ that[n].audio # "Slave"
       \/ c = "AI"

\* A client asks for a status, finds the command acceptable and sends it.
Request(n, c) ==
    /\ up[n]
    /\ commands + losses < MaxInputs
    /\ \/ "aman" \in Clients /\ \E v \in Node : up[v] /\ AmanOffers(v, n, c)
       \/ "amanctl" \in Clients /\ Free(n) /\ AmanctlOffers(n, c)
       \/ "raw" \in Clients
    /\ request' = [request EXCEPT ![n] = @ \cup {c}]
    /\ commands' = commands + 1
    /\ UNCHANGED <<vars, file, slave, mysqld, busy, crashes, losses, late>>

Take(n, c) ==
    /\ Free(n)
    /\ c \in request[n]
    /\ request' = [request EXCEPT ![n] = @ \ {c}]

-----------------------------------------------------------------------------
(* commandReceivedData: one action per command, or per part of a long one.   *)

\* StopSlaves needs a server that can be opened and takes the query.  No caller looks
\* whether it succeeded.
StopSlaves(n) ==
    \/ mysqld[n] = "accessible" /\ slave' = [slave EXCEPT ![n] = FALSE]
    \/ (MayFail \/ mysqld[n] # "accessible") /\ UNCHANGED slave

BeginMakeMaster(n) ==
    /\ Take(n, "MM")
    /\ StopSlaves(n)
    /\ busy' = [busy EXCEPT ![n] = "snapshot"]
    /\ UNCHANGED <<vars, file, mysqld, boundVars>>

SnapshotTaken(n) ==
    /\ busy[n] = "snapshot"
    /\ mysqld[n] = "accessible"
    /\ SetDb(n, "Master")
    /\ busy' = [busy EXCEPT ![n] = "naming"]
    /\ late' = [late EXCEPT ![Peer(n)] = FALSE]
    /\ UNCHANGED <<up, monitorVars, netVars, slave, mysqld, request, commands, crashes, losses>>

\* The time of the last name that n has given; the next one bears a later time.
LastTime(n) == IF file[n].this = NoSnapshot THEN 0 ELSE file[n].this.time

\* Mutant: the time is not part of the name.
MutNewName(n) == {s \in Snapshot : s.host = n /\ s.time = 1}

NewName(n) == {s \in Snapshot : s.host = n /\ s.time = LastTime(n) + 1}

\* Mutant: the name is stored as that of the peer's snapshot.
MutNameSnapshot(n) ==
    /\ busy[n] = "naming"
    /\ \E s \in NewName(n) :
        /\ file' = [file EXCEPT ![n].that = s]
        /\ own' = [own EXCEPT ![n].snapshot = s]
    /\ busy' = [busy EXCEPT ![n] = "no"]
    /\ Broadcast(n)
    /\ UNCHANGED <<up, that, reach, armed, netVars, slave, mysqld, request, boundVars>>

NameSnapshot(n) ==
    /\ busy[n] = "naming"
    /\ \E s \in NewName(n) :
        /\ file' = [file EXCEPT ![n].this = s]
        /\ own' = [own EXCEPT ![n].snapshot = s]
    /\ busy' = [busy EXCEPT ![n] = "no"]
    /\ Broadcast(n)
    /\ UNCHANGED <<up, that, reach, armed, netVars, slave, mysqld, request, boundVars>>

\* Mutant: the monitor is told of the new role before the outcome is known.
MutSnapshotFails(n) ==
    /\ busy[n] = "snapshot"
    /\ MayFail \/ mysqld[n] # "accessible"
    /\ own' = [own EXCEPT ![n].db = "Master"]
    /\ busy' = [busy EXCEPT ![n] = "no"]
    /\ Broadcast(n)
    /\ UNCHANGED <<up, that, reach, armed, netVars, file, slave, mysqld, request, boundVars>>

SnapshotFails(n) ==
    /\ busy[n] = "snapshot"
    /\ MayFail \/ mysqld[n] # "accessible"
    /\ busy' = [busy EXCEPT ![n] = "no"]
    /\ Broadcast(n)
    /\ UNCHANGED <<up, own, that, reach, armed, netVars, file, slave, mysqld, request, boundVars>>

BeginMakeSlave(n) ==
    /\ Take(n, "MS")
    /\ busy' = [busy EXCEPT ![n] = "restore"]
    /\ late' = [late EXCEPT ![n] = file[Peer(n)].db = "Idle"]
    /\ UNCHANGED <<vars, file, slave, mysqld, commands, crashes, losses>>

\* The archive is unpacked, replication stopped and the server shut down for its
\* database to be replaced.
ReplaceDatabase(n) ==
    /\ busy[n] = "restore"
    /\ file[n].that # NoSnapshot
    /\ mysqld[n] = "accessible"
    /\ slave' = [slave EXCEPT ![n] = FALSE]
    /\ mysqld' = [mysqld EXCEPT ![n] = "down"]
    /\ busy' = [busy EXCEPT ![n] = "loading"]
    /\ UNCHANGED <<vars, file, request, boundVars>>

\* Mutant: the slave threads are not started.
MutReplicationStarts(n) ==
    /\ busy[n] = "loading"
    /\ mysqld' = [mysqld EXCEPT ![n] = "accessible"]
    /\ busy' = [busy EXCEPT ![n] = "started"]
    /\ UNCHANGED <<vars, file, slave, request, boundVars>>

\* The database is replaced, the server started, and replication with it.
ReplicationStarts(n) ==
    /\ busy[n] = "loading"
    /\ slave' = [slave EXCEPT ![n] = TRUE]
    /\ mysqld' = [mysqld EXCEPT ![n] = "accessible"]
    /\ busy' = [busy EXCEPT ![n] = "started"]
    /\ UNCHANGED <<vars, file, request, boundVars>>

SnapshotRestored(n) ==
    /\ busy[n] = "started"
    /\ SetDb(n, "Slave")
    /\ busy' = [busy EXCEPT ![n] = "no"]
    /\ Broadcast(n)
    /\ UNCHANGED <<up, that, reach, armed, netVars, slave, mysqld, request, boundVars>>

\* The restore gives up: before it has changed anything, or later, when the server
\* may have been started again or not.
RestoreFails(n) ==
    /\ \/ /\ busy[n] = "restore"
          /\ MayFail \/ file[n].that = NoSnapshot \/ mysqld[n] # "accessible"
          /\ UNCHANGED mysqld
       \/ /\ busy[n] = "loading"
          /\ MayFail
          /\ \E m \in {"accessible", "down"} : mysqld' = [mysqld EXCEPT ![n] = m]
    /\ busy' = [busy EXCEPT ![n] = "no"]
    /\ Broadcast(n)
    /\ UNCHANGED <<up, own, that, reach, armed, netVars, file, slave, request, boundVars>>

MakeIdle(n) ==
    /\ Take(n, "MI")
    /\ StopSlaves(n)
    /\ SetDb(n, "Idle")
    /\ Broadcast(n)
    /\ UNCHANGED <<up, that, reach, armed, netVars, mysqld, busy, boundVars>>

\* SetMysqlMetadata starts the slave threads, and does not look whether they do.
SetMetadata(n) ==
    /\ Take(n, "SM")
    /\ mysqld[n] = "accessible"
    /\ \E s \in (IF MayFail THEN BOOLEAN ELSE {TRUE}) : slave' = [slave EXCEPT ![n] = s]
    /\ SetDb(n, "Master")
    /\ Broadcast(n)
    /\ UNCHANGED <<up, that, reach, armed, netVars, mysqld, busy, boundVars>>

MetadataFails(n) ==
    /\ Take(n, "SM")
    /\ MayFail \/ mysqld[n] # "accessible"
    /\ StopSlaves(n)
    /\ Broadcast(n)
    /\ UNCHANGED <<up, own, that, reach, armed, netVars, file, mysqld, busy, boundVars>>

\* Mutant: the state file is not written.
MutSetAudio(n, role) ==
    /\ own' = [own EXCEPT ![n].audio = role]
    /\ UNCHANGED file

SetAudio(n, role) ==
    /\ file' = [file EXCEPT ![n].audio = role]
    /\ \E s \in (IF role = "Idle" THEN {FALSE, own[n].status} ELSE {own[n].status}) :
         own' = [own EXCEPT ![n].audio = role, ![n].status = s]

StartAudio(n) ==
    /\ Take(n, "AS")
    /\ IF own[n].audio # "Slave" /\ that[n].audio # "Slave"
       THEN SetAudio(n, "Slave")
       ELSE UNCHANGED <<file, own>>
    /\ Broadcast(n)
    /\ UNCHANGED <<up, that, reach, armed, netVars, slave, mysqld, busy, boundVars>>

\* StopAudioCopy clears the status only when an rsync process runs.
StopAudio(n) ==
    /\ Take(n, "AI")
    /\ SetAudio(n, "Idle")
    /\ Broadcast(n)
    /\ UNCHANGED <<up, that, reach, armed, netVars, slave, mysqld, busy, boundVars>>

-----------------------------------------------------------------------------
(* Events from the monitor, the timers and the environment.                  *)

\* thatStateChangedData: r is the record the monitor has just cached.  A slave
\* whose peer went idle, and a master whose peer is master too, become idle.
\* Mutants: one of the two cases is missing.
MutDemotedMaster(n, r) == file[n].db = "Slave" /\ r.db = "Idle"
MutDemotedSlave(n, r) == file[n].db = "Master" /\ r.db = "Master"

Demoted(n, r) ==
    \/ file[n].db = "Slave" /\ r.db = "Idle"
    \/ file[n].db = "Master" /\ r.db = "Master"

ThatStateChanged(n, r) ==
    LET kept == [file[n] EXCEPT !.that = IF r.snapshot = NoSnapshot THEN @ ELSE r.snapshot] IN
    IF Demoted(n, r)
    THEN /\ file' = [file EXCEPT ![n] = [kept EXCEPT !.db = "Idle"]]
         /\ own' = [own EXCEPT ![n].db = "Idle"]
    ELSE /\ file' = [file EXCEPT ![n] = kept]
         /\ UNCHANGED own

HearPing(n, l, p) ==
    /\ Free(n)
    /\ ReceivePing(n, l, p)
    /\ IF Differs(n, p) THEN ThatStateChanged(n, Learn(p)) ELSE UNCHANGED <<own, file>>
    /\ UNCHANGED <<slave, mysqld, busy, request, boundVars>>

HearPong(n, l) ==
    /\ Free(n)
    /\ ReceivePong(n, l)
    /\ UNCHANGED <<own, daemonVars, boundVars>>

LoseLink(n, l) ==
    /\ losses < MaxLosses /\ commands + losses < MaxInputs
    /\ losses' = losses + 1
    /\ Free(n)
    /\ WatchdogTimeout(n, l)
    /\ IF LastLink(n, l) THEN ThatStateChanged(n, Forget(that[n])) ELSE UNCHANGED <<own, file>>
    /\ UNCHANGED <<slave, mysqld, busy, request, commands, crashes, late>>

Send(n) ==
    /\ Free(n)
    /\ SendPing(n)
    /\ UNCHANGED <<own, daemonVars, boundVars>>

Drop(n, l) ==
    /\ LosePong(n, l) \/ \E p \in pings[n][l] : LosePing(n, l, p)
    /\ UNCHANGED <<own, daemonVars, boundVars>>

CheckStatus(n) ==
    /\ Free(n)
    /\ own[n].mysql # mysqld[n]
    /\ own' = [own EXCEPT ![n].mysql = mysqld[n]]
    /\ Broadcast(n)
    /\ UNCHANGED <<up, that, reach, armed, netVars, daemonVars, boundVars>>

\* A replication test ends: t is the time it measured, 0 when it failed.
ReplicationTestComplete(n, t) ==
    /\ Free(n)
    /\ own[n].repl # t
    /\ own' = [own EXCEPT ![n].repl = t]
    /\ Broadcast(n)
    /\ UNCHANGED <<up, that, reach, armed, netVars, daemonVars, boundVars>>

\* The audio copy, which runs only on an audio slave, finds the master ready or fails.
SetAudioStatus(n, s) ==
    /\ Free(n)
    /\ own[n].status # s
    /\ file[n].audio = "Slave"
    /\ own' = [own EXCEPT ![n].status = s]
    /\ Broadcast(n)
    /\ UNCHANGED <<up, that, reach, armed, netVars, daemonVars, boundVars>>

MysqlChanges(n, m) ==
    /\ Outages
    /\ mysqld[n] # m
    /\ mysqld' = [mysqld EXCEPT ![n] = m]
    /\ \/ m = "accessible" /\ UNCHANGED commands
       \/ /\ m = "down"
          /\ commands + losses < MaxInputs
          /\ commands' = commands + 1
    /\ UNCHANGED <<vars, file, slave, busy, request, crashes, losses, late>>

Boot(n) ==
    /\ StartMonitor(n)
    /\ own' = [own EXCEPT ![n] = BootStatus(file[n])]
    /\ UNCHANGED <<daemonVars, boundVars>>

\* thatStateChangedData stores the peer's snapshot name before the role it may change:
\* the names that a crash between the two leaves in the state file.
HalfHeard(n) ==
    IF Free(n)
    THEN {p.snapshot : p \in {q \in UNION {pings[n][l] : l \in Link} : Differs(n, q)}} \ {NoSnapshot}
    ELSE {}

Die(n) ==
    /\ crashes < MaxCrashes
    /\ Crash(n)
    /\ \E s \in HalfHeard(n) \cup {file[n].that} : file' = [file EXCEPT ![n].that = s]
    /\ own' = [own EXCEPT ![n] = BootStatus(file[n])]
    /\ busy' = [busy EXCEPT ![n] = "no"]
    /\ request' = [request EXCEPT ![n] = {}]
    /\ crashes' = crashes + 1
    /\ UNCHANGED <<slave, mysqld, commands, losses, late>>

-----------------------------------------------------------------------------
LongHandler(n) ==
    \/ SnapshotTaken(n)
    \/ NameSnapshot(n)
    \/ SnapshotFails(n)
    \/ ReplaceDatabase(n)
    \/ ReplicationStarts(n)
    \/ SnapshotRestored(n)
    \/ RestoreFails(n)

Execute(n) ==
    \/ BeginMakeMaster(n)
    \/ BeginMakeSlave(n)
    \/ MakeIdle(n)
    \/ SetMetadata(n)
    \/ MetadataFails(n)
    \/ StartAudio(n)
    \/ StopAudio(n)

Local(n) ==
    \/ CheckStatus(n)
    \/ \E t \in ReplTime : ReplicationTestComplete(n, t)
    \/ \E s \in BOOLEAN : SetAudioStatus(n, s)

ClusterNext == \E n \in Node :
    \/ \E c \in Commands : Request(n, c)
    \/ Execute(n)
    \/ LongHandler(n)
    \/ Local(n)
    \/ \E m \in {"down", "accessible"} : MysqlChanges(n, m)
    \/ Boot(n)
    \/ Die(n)
    \/ Send(n)
    \/ \E l \in Link :
        \/ HearPong(n, l)
        \/ LoseLink(n, l)
        \/ Drop(n, l)
        \/ \E p \in pings[n][l] : HearPing(n, l, p)

ClusterSpec == ClusterInit /\ [][ClusterNext]_allVars

(* Fairness: the event loop takes every kind of event in turn, a long handler *)
(* ends, systemd restarts a daemon (Restart=always), and a link that keeps    *)
(* being tried delivers now and then.  Commands, crashes, failures and        *)
(* watchdogs that expire are never forced.                                    *)
ClusterFairness == \A n \in Node :
    /\ WF_allVars(Execute(n))
    /\ WF_allVars(LongHandler(n))
    /\ WF_allVars(CheckStatus(n))
    /\ WF_allVars(Boot(n))
    /\ WF_allVars(Send(n))
    /\ \A l \in Link : SF_allVars(\E p \in pings[n][l] : HearPing(n, l, p))

ClusterFairSpec == ClusterSpec /\ ClusterFairness

-----------------------------------------------------------------------------
(* Properties.                                                               *)

\* What a daemon tells its peer and its clients of itself is what it will still
\* say after a restart: every handler that changes a role changes both the state
\* file and the monitor, also the one that runs inside the monitor's own signal.
\* A snapshot name that is advertised is the one on disk.
AdvertisedIsDurable == \A n \in Node : up[n] =>
    /\ own[n].db = file[n].db
    /\ own[n].audio = file[n].audio
    /\ own[n].snapshot \in {NoSnapshot, file[n].this}

\* The snapshot that Make Slave restores is one that the peer made and has stored the
\* name of, never one of the node's own: names travel MakeMaster -> monitor -> ping ->
\* cache -> state file, and survive restarts of either side and pings that arrive late.
RestoresPeersSnapshot == \A n \in Node : file[n].that # NoSnapshot =>
    /\ file[n].that.host = Peer(n)
    /\ file[n].that.time <= LastTime(Peer(n))

IsMaster(n) == file[n].db = "Master"

DualMaster == \A n \in Node : IsMaster(n)

\* From some time on the daemons and the database servers run (crashes and
\* expired watchdogs are bounded, so they end).
Healthy == <>[](\A n \in Node : up[n] /\ mysqld[n] = "accessible")

\* Two masters never last.  A daemon only notices a second master when a status it
\* receives differs from the one before, so a conflict that was never seen as a
\* change would stay for good, whatever pings the commands have raced with.
DualMasterResolves == Healthy => <>[]~DualMaster

\* What makes them end: a conflict is still news to one of the two, so the next ping
\* it hears will demote it.  Neither checks its own cache against its role otherwise.
\* The role alone would not tell: n may have known its peer as a master before it became
\* one itself.  It is the new name of each Make Master that does.
KnowsMaster(n) ==
    /\ that[n].db = "Master"
    /\ own[Peer(n)].snapshot \in {that[n].snapshot, NoSnapshot}
    /\ busy[Peer(n)] # "naming"

ConflictIsNews == DualMaster => \E n \in Node : ~KnowsMaster(n)

\* The role of a node says what its database server does.  A demotion leaves
\* replication running, so a node goes from Slave to Idle to Master with it on, and
\* only the Make Master stops it; a restore stops it long before it starts it anew.
\* It needs that no operation fails between the two, and that no daemon dies between
\* the start of replication and the change of the role.
RoleIsReplication == \A n \in Node : busy[n] = "no" =>
    /\ file[n].db = "Master" => ~slave[n]
    /\ file[n].db = "Slave" => slave[n]

\* A slave whose peer goes idle becomes idle too, also when the peer does so while the
\* slave restores its snapshot.  The exception is a slave whose peer was idle before its
\* Make Slave began: it may have heard so already, and no later ping is news.
\* It needs that the peer does not die after it was made idle: it would start without a
\* snapshot name, and be taken for what it was before.
SlaveHasMaster == Healthy => <>[](\A n \in Node :
    file[n].db = "Slave" /\ file[Peer(n)].db = "Idle" => late[n])

=============================================================================
