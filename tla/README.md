# Aman, specified in TLA+

Aman keeps two Rivendell servers, A and B, as a redundant pair: the MySQL
database of one (the *master*) is replicated to the other (the *slave*), and
their audio stores are kept alike by rsync.  This directory holds a formal
model of the daemon that does it, the TLC runs that check it and the TLAPS
proofs about it.

## 1. The system

A cluster is two hosts.  On each runs one amand(8) daemon, a single process with
one Qt event loop, next to a MySQL server.  The daemons exchange their status
over UDP on two links, *public* and *private*.  Programs (aman, amanctl,
amanrmt) connect to a daemon by TCP, read its status and give it commands.

| Part | Source | State | Operations | Meets the others through |
|---|---|---|---|---|
| Ping monitor | `amand/pingmonitor.cpp` | own status, cache of the peer's, `ping_reachable[2]`, two watchdogs, a send timer | `start`, `socketSendData`, `socketReadyData`, `socketTimeoutData`, setters | UDP pings and pongs; signal `thatStateChanged` |
| Main object | `amand/amand.cpp` | role of the database, role of the audio store (in the state file and in the monitor), health of MySQL | commands MM, MS, MI, SM, AS, AI, ST, GS, LS, PG; `thatStateChangedData`, `checkStatusData`, `replicationTestCompleteData` | everything below |
| State file | `lib/amstate.cpp`, `lib/amprofile.cpp` | `/var/aman/state`: two roles, two snapshot names | getters that read, setters that write all, `purgeSnapshots` | file system |
| Snapshots | `amand/generate_snapshot.cpp`, `restore_snapshot.cpp`, `set_metadata.cpp` | archives, replication position of the server | make an archive and push it to the peer; unpack one, replace the database, start replication | MySQL, `tar`, `ssh`, `service` |
| Audio store | `amand/audiostore.cpp` | rsync process, two timers, `audioStatus` | start, check of the master, copy, stop | rsync; the monitor |
| Replication test | `amand/replicationtest.cpp` | value written, ticks waited | write a value at the master, wait until it is read at the slave | both MySQL servers |
| Binary logs | `amand/auto_rotate.cpp` | rotation timer | new snapshot, purge old logs | MySQL |
| Command server | `amand/streamcmdserver.cpp` | connections, read buffers, garbage timer | accept, parse, dispatch, broadcast | TCP |
| Client connection | `lib/amconnection.cpp` | socket, hold-off and watchdog timers | connect, reconnect, parse, send | TCP |
| aman, amanctl | `aman/aman.cpp`, `amanctl/amanctl.cpp` | last status heard | decide from it whether a command may be given | TCP |
| amanrmt | `amanrmt/amanrmt.cpp` | two connections, a snapshot being fetched | follow the master with a third copy | TCP, MySQL |

What is hard about it: two event loops and two database servers run
concurrently, the status of the peer is always a message old, pings carry no
number and travel on two links, handlers of MM and MS block the event loop for
minutes, a daemon may die between two writes of its state file, and each step of
a snapshot may fail.  `PROJECT.json` lists the hazards one by one with their
source lines.

What makes each part correct:

* *Ping monitor*: the cache comes to agree with the peer; a lost peer is shown
  as down, and both its loss and its return are announced to clients.
* *Main object*: what a node says of itself survives a restart; two masters do
  not last; a slave does not outlast its master; only the peer's snapshots are restored.
* *State file*: each change is stored, whole, before the next; nothing is lost
  without a word in the log; no role appears that nobody asked for.
* *Snapshots*: the archive of a node's own name exists as long as the name is in use.
* *Audio store, replication test*: a slave always has a copy under way or one to come,
  an idle node has none; a stop is shown, and mailed.
* *Binary logs*: no log is purged that a snapshot in use or a slave still reads.
* *Command server, client connection*: commands of two clients are not mixed up; a
  client that is connected comes to show what the daemon announced last; a lost connection is retried.
* *amanrmt*: the third copy replicates from the server whose snapshot it holds; its copy
  of the audio store goes on while it is active and ends when it is not; a stop is shown.

## 2. Modules

```
StatusExchange <=implemented= PingMonitor --- Amand

                               AudioStore  ReplicationTest     Tcp
                                       \    /               /     \
DurableRecord <=implemented= AMState    Jobs   StreamCmdServer  AMConnection
                                                            \     /
Snapshots                       RemoteSources               Channel =implements=> StatusView
                                 /         \
                             RemoteDb   RemoteAudio
                                 \         /
                                   AmanRmt
```

Downwards (and from `PingMonitor` to `Amand`) is EXTENDS.  `MCx` instantiates `x` for
TLC, `x_proofs` holds the theorems about it; `AmandDurable_proofs` continues
`Amand_proofs`, which continues `PingMonitor_proofs`.

Four compositions stand for four ways in which the parts meet:

* `Amand` composes the monitors of both hosts with the rest of the daemons: the
  monitor's actions leave open what becomes of `own`, so that the handler of
  `thatStateChanged`, which Qt calls inside the monitor's own function, changes it in
  the same step.  `AMState` models one daemon's state file call by call; `Amand` uses it
  as a record that a setter replaces at once, which is what the refinement of
  `DurableRecord` justifies.
* `Jobs` composes the two jobs that one daemon repeats for ever; one crash ends both.
* `Channel` composes the command server of a daemon with its clients over `Tcp`.
* `AmanRmt` composes the two halves of amanrmt over one choice of the master.

`Snapshots` looks at both hosts again, at the level of archives and binary logs, with
the daemons' message exchange reduced to the status last heard.

### PingMonitor

| Code | Model |
|---|---|
| `ping_*[Am::This]` | `own[n]`, a record of `Advert`.  `ping_mysql_running` and `ping_mysql_accessible` are one field `mysql` of three values: `CheckLocalState` never reports accessible without running. |
| `ping_*[Am::That]` | `that[n]` |
| `ping_reachable[i]`, `ping_watchdog_timer[i]->isActive()` | `reach[n][l]`, `armed[n][l]` |
| datagrams | `pings[n][l]` (a set: reordering), `pongs[n][l]` |
| the last ST line sent because of the monitor | `told[n]` |
| `socketSendData`, `socketReadyData`, `socketTimeoutData`, constructor and `start` | `SendPing`, `ReceivePing` and `ReceivePong`, `WatchdogTimeout`, `StartMonitor` |
| the peer's replication time, received into a `bool` | `AsBool`, in `Learn` and `Differs` |

Time is abstracted: a running watchdog may expire at any moment.  This covers
long handlers, which keep a daemon from answering for minutes.

### Amand

| Code | Model |
|---|---|
| `/var/aman/state` | `file[n]` |
| slave threads of MySQL | `slave[n]` |
| condition of MySQL, what `CheckLocalState` would find | `mysqld[n]` |
| what the blocked event loop is in | `busy[n]`: the actions `BeginMakeMaster`, `SnapshotTaken`, `NameSnapshot` and `SnapshotFails` are the handler of MM, split where a crash separates two effects; `BeginMakeSlave`, `ReplaceDatabase`, `ReplicationStarts`, `SnapshotRestored` and `RestoreFails` that of MS |
| `MakeSnapshotName` | `NewName`: the host and a time that is later than that of its last name |
| `StopSlaves`, whose failure no caller looks at | `StopSlaves` |
| commands under way | `request[n]` |
| conditions in aman and amanctl | `AmanOffers`, `AmanctlOffers`; `"raw"` stands for any other client of the protocol |
| `thatStateChangedData` | `ThatStateChanged`, called by `HearPing` and `LoseLink`; a death between its two writes of the state file is in `Die` (`HalfHeard`) |

`slave` and `mysqld` are MySQL's and survive the daemon's death.  A boot takes the
roles from the file but not the snapshot name, as the constructor does.

A command is executed some time after its client has looked at the status, and pings
may be heard in between.  `MayFail` and `Outages` let the steps of MM and MS, and
`StopSlaves`, fail and the servers go up and down.  `late[n]` is history: n began its last
Make Slave when its peer was idle already.

### AMState and DurableRecord

`mem` is the object, `disk` the file, `temp` the temporary file; a setter is
`Set`, `CloseTemp`, `Rename` (or a failure of one of them), with `Die` between any two.
A file is represented by what `ReadState` makes of it, so a truncated file is the
record in which the missing lines have their defaults (`Cut`), or a name that was
cut off (`Stump`).  `asked` is a history variable: the roles that were ever set.
`Faults` names the calls that may fail.

### AudioStore, ReplicationTest, Jobs

| Code | Model |
|---|---|
| `main_audio_holdoff_timer` | `holdoff`: off, or the interval it was started with |
| `main_audio_process` | `copy`; `"stopping"` after SIGTERM |
| `startAudioCopy` | `CopyNotWanted`, `MasterReady`, `MasterNotReady`, by the outcome of the check (`waitForFinished` blocks, so the check is part of the step) |
| `rsyncFinishedData` | `RsyncCrashes`, `RsyncEnds`, `RsyncFails` |
| `StartAudioSlave`, `StopAudioSlave`, `StopAudioCopy` | the actions of these names |
| `SetAudioStatus`, `SetAudioState` | `status`, `audio`, and `mailed` for the alert |
| `ReplicationTest::startTest`, `tryResultData` | `CheckStatus` (with `checkStatusData`, which calls it), `TryResult` |
| `replicationTestCompleteData` | `TestComplete` |
| the two MySQL servers | `accessible`, `peerOpen`, `flowing`, `arrived`, changed by `WorldChanges` and `Replicate` |

`stalled`, `silent`, `mailed` and `dbMailed` are history: they say what was told to the
administrators, and which excuse there is when nothing was.

### Snapshots

| Code | Model |
|---|---|
| `current_snapshot[This]`, `[That]` of the state file | `this[n]`, `that[n]` |
| the name in pings; role and name last heard | `said[n]`, `heard[n]` |
| `/var/aman/snapshots` | `store[n]` |
| the position in an archive's metadata | `start[s]`, the number of a binary log |
| binary logs of a server, slave position | `first[n]..log[n]`, `at[n]`, `on[n]` |
| `GenerateMysqlSnapshot` and the handlers of MM and GS | `Begin`, `Generate`, `GenerateFails`, `Push`, `BecomeMaster`, `NameSnapshot` |
| `RestoreMysqlSnapshot` and the handler of MS | `BeginMakeSlave`, `Restore` (with `ResetLogs`, `SetPosition`, `StartSlave`), `RestoreFails`; how far one that breaks off or dies has come is `BrokenOff` |
| `StopSlaves`, which may fail | `StopSlaves` |
| `autoRotateData`, `PurgeBinlogs`, `purgeSnapshots`, PG | `PurgeSnapshots`, `BeginPurge`, `DecidePurge`, `DeleteLogs` |

A job holds the event loop from its first step to its last, which is why a node hears
nothing while `busy`; its steps are split where the peer's server, a failure or a crash
can come in between.  `packed` and `late` are history: the snapshots whose archive was
written (tar that cannot be run has the exit code of a success), and the nodes that began
to replicate during the purge which their peer executes.

### Tcp, StreamCmdServer, AMConnection, Channel

| Code | Model |
|---|---|
| a TCP connection | `far[k]`, `line[c]`, `cut[k]`, `toServer[k]`, `toClient[k]`; a message travels in two halves so that it may be read in two parts |
| `cmd_sockets`, `cmd_recv_buffers` | `sockets`, `received`, keyed by descriptor; `NULL` and "no entry" are different |
| `newConnectionData`, `readyReadData` with `ProcessCommand`, `sendCommand` to all with `closeConnection`, `collectGarbageData` | `Accept`, `ReadPart` and `ReadCommand`, `Broadcast`, `CollectGarbage` |
| `conn_socket`, `conn_watchdog_timer`, `conn_status`, `conn_buffer` | `socket`, `watchdog`, `seen`, `buffer` |
| `connectedData`, `errorData`, `watchdogData`, `disconnectedData`, `readyReadData`, `ProcessMessage` | `Connect`, `Refused` and `Fails`, `WatchdogData`, `Disconnect`, `Read` |

| the status last broadcast | `announced`; `StatusChanges` and `ReadCommand` change the status and announce it, `LinkIsBack` changes it alone, as a ping does that makes the peer reachable and says nothing new |

Commands are ST (asks) and MI (stands for every command that may change the status).
The status is a counter of its changes, so that two different ones are never confused;
zero is what a client shows before it has heard anything.

### RemoteSources, RemoteDb, RemoteAudio, AmanRmt

| Code | Model |
|---|---|
| `am_connection[i]`: connected, `conn_status`, messages not yet read | `linked[i]`, `seen[i]`, `inbox[i]` |
| `GetMasterServerId` | the operator of this name |
| `makeDbSlaveData`, `makeDbIdleData`, `statusChangedData`, `snapshotGeneratedData` with `RestoreMysqlSnapshot` | `MakeDbSlave`, `MakeDbIdle`, `StatusChanged`, `SnapshotGenerated` |
| `checkDbReplicationData` | `Check`, once a second |
| `RestoreMysqlSnapshot` of amanrmt | `Restore`: complete, broken off at any step (`BreakOff`), or ending the program (`MakeTempDir` calls `exit(1)`) |
| the program's connection to the local database | `open`: broken with the server that a restore stops, opened again by its `OpenDb` |
| `am_audio_active`, `am_audio_timer`, `am_audio_process` | `audioActive`, `timer`, `current` (`"starting"` is `QProcess::Starting`, `"failed"` a process that could not be run); processes that the pointer no longer points to are counted in `older` |
| `startAudioData`, `stopAudioData`, `startAudioProcessData`, `audioProcessFinishedData`, `closeEvent` | `StartAudio`, `StopAudio`, `CopyTimer`, `Started`, `CopyEnds` to `OlderCrashes`, `Close` |
| a NULL or deleted object used | `program = "dead"`; a use that need not kill (an address before an array, a deleted process) may also go well |

### The abstract specifications

* `DurableRecord`: a record whose fields are changed one at a time and survive a crash.
* `StatusExchange`: what clients of a daemon are told of its peer.  It knows no links,
  watchdogs or caches: a status that was sent, or what the loss of contact leaves of it.
  `PingMonitor` implements it with all its links as one channel (`Wire`); so does `Amand`,
  whose handlers change `own` in steps of the monitor and broadcast in steps of their own.
* `StatusView`: what several programs show of one daemon.  It knows no connections: each
  program may lag behind and skip statuses, but never shows one that was not, or goes back.

## 3. Runs

| Run | Specification and bounds | Shows |
|---|---|---|
| `ping` | fair; two links, two statuses, one ping under way per link, crashes and losses without bound; a observes b (`Observing`) | `UnreachableIsDown`, `LossIsAnnounced`, `RecoveryIsAnnounced`; the refinement `IsStatusExchange`; fair: `CacheConverges` |
| `ping_death` | fair; one link | finding: `DeathIsNoticed` is violated |
| `ping_time` | one link, replication times of 0 and 10 ms | finding: `TimeIsPassedOn` is violated |
| `amand_safety` | MM, MS, MI by any client, 2 inputs (commands, and at most 1 expired watchdog), 1 crash, failures and outages | `ClusterTypeOK`, `AdvertisedIsDurable`, `RestoresPeersSnapshot` |
| `amand_audio` | SM, AS, AI, 1 input, failures and outages, replication tests of 0 and 10 ms | `AdvertisedIsDurable` for the other handlers and their error paths |
| `amand_settle` | fair; MM, MS, MI by aman and amanctl, 3 inputs (commands, and at most 1 expired watchdog), 3 names for each host | `ConflictIsNews`, `RoleIsReplication`; fair: `DualMasterResolves`, `SlaveHasMaster` |
| `state_atomic` | no fault but the death of the process, two names | `IsDurableRecord` |
| `state_faults` | every fault, two names | `NoSilentLoss`, `NoPhantomRole` |
| `jobs` | fair; tests of at most 3 looks (`TickInterval` 10, `ConfTimeout` 30); commands, restarts, outages and every end of check and rsync without bound | `SlaveIsScheduled`, `IdleCopiesNothing`, `FailureIsMailed`, `IdleStaysIdle`; fair: `SlaveKeepsCopying`, `StopIsShown`, `StopIsMailed` |
| `snapshots` | both hosts, 2 names, logs up to 3, every job, every failure, 1 crash | `SnapTypeOK`, `OwnSnapshotKept`, `SnapshotUsable`, `SlaveNotCutOff` |
| `channel` | fair; 2 clients, 3 connections and descriptors, 1 change of status, 1 death of the daemon, 1 lost connection, failed attempt or command | `UpToDate`, `CommandsAreKnown`, `RetryIsScheduled`; fair: `CatchesUp`; the refinement `IsStatusView` |
| `remote` | fair; 4 events (changes of a role, lost connections, requests for a snapshot, starts of audio replication) | `FollowsItsSnapshot`, `ActiveIsScheduled`, `IdleCopiesOnce`, `ClosedCopiesNothing`, `DiesOfChangesOnly`; fair: `RemoteStopIsShown` |

Why the bounds are enough.

* `ping`: the properties concern one observer and its two links.  `Observing` keeps the
  observer's own status constant and the peer's watchdogs running: all that the peer
  learns of the observer is that it is there, and what the peer sends does not depend on
  that.  Two statuses suffice to tell a change from no change, and one ping under way on
  each link to let an older status come after a newer one.
* `amand_*`: a conflict of two masters takes two commands (before the daemons have heard
  each other, or both at once); the third input, a command or a lost link, lets one of
  them be made idle again meanwhile or makes its information out of date.  Three names
  for each host are one for each Make Master that three inputs allow.
  `amand_settle` has no crash: with one, and five commands, `SlaveHasMaster` fails
  (section 6).  `ConflictIsNews` and `RoleIsReplication` are checked in this run, where
  clients are cautious and nothing fails, and proved for every number of inputs and any
  clients; the first also with crashes, outages and failures.
* `jobs`: nothing is bounded but the length of a test; three looks have a first, a
  middle and a last one.
* `snapshots`: two names are an old and a new one, which is what a generation that
  fails, a purge, and a restore from an out-of-date archive need; with more, the first
  is only purged later.  Three logs are the one before a snapshot, the one it starts
  from and the one after.
* `channel`: a descriptor that is given out again needs one client that leaves and one
  that comes while a third connection may be in use.  `CHECK_DEADLOCK FALSE`: with no
  event left and everyone up to date nothing more has to happen.
* `remote`: a change of the master between request and answer takes a role change of
  each server (2), the request (3) and a second request (4).  `CHECK_DEADLOCK FALSE`:
  the program may be closed or dead.

The bounds are constants (`InFlight`, `MaxInputs`, `MaxCrashes`, `MaxLosses`, `MaxLog`,
`MaxStatus`, `MaxEvents`); the theorems below hold for all their values.  Exchanging the
two daemons (with their snapshots), the two links or the names are symmetries of the
instances, used only where no liveness is checked.

Each property of a passing run has a mutant: an operator `Mut...` next to the definition
that it replaces, in which the code has a plausible bug, and under which TLC finds the
property violated.  No specification uses these operators.  The type invariants of
`PingMonitor`, `AMState`, `Jobs`, `Channel` and `AmanRmt`, and `CommandsAreWhole`, on which `CommandsAreKnown`
rests, are proved (section 5) and are not among the properties of the runs.

## 4. Fairness

* `SendPing`, `CheckStatus` (also of `Jobs`), the copy timer, `TryResult`, the
  one-second `Check` of amanrmt, the watchdogs of AMConnection: QTimers of a running
  event loop (weak).
* `WatchdogTimeout` in `ping_death`: a single-shot timer expires (weak) unless
  pongs go on restarting it.  The exception matters: a plain weak fairness would
  force a healthy watchdog to expire.  Elsewhere it is not forced: `CacheConverges`
  assumes that it comes to an end.
* `Execute`, `LongHandler`: a command that has arrived is executed, and the
  external programs a handler waits for end (weak).  `RsyncExits`: so does rsync,
  which is an assumption about it, as it is given no time limit.
* `Boot`: `systemd/aman.service` has `Restart=always` (weak).  `PingMonitor` alone
  does not assume it.
* `Exchanging`: of the pings that come every second over the links, some arrive over some
  link (strong, for all links together: a link of its own may never deliver again).
* `Watchdogs`, in `ping_death` only: a link that keeps being tried also delivers a pong
  now and then (strong), unless its watchdog expires.
* `Channel`: TCP delivers what it has taken, an end that shows is seen, an attempt to
  connect succeeds or is refused (weak, for each connection, descriptor and client).
  A silent loss is not forced to show.

Nobody is forced to give a command, to crash, to lose a datagram, to replicate or to
change status.  Liveness properties assume of the rest that it comes to an end, in
their own text (`Settled`, `Healthy`, `StaysUp`, `Stopped`, `NumberStays`, ...).

## 5. Proofs

Every theorem holds for all values of the constants under the ASSUMEs of the
modules: two nodes, a finite non-empty set of links (one, two or more), any sets of
snapshots, times, commands, jobs, clients, connections and descriptors, any bounds, any
interval and time-out.

* `PingMonitor_proofs`: `TypeCorrect`, and `UnreachableIsDownHolds`,
  `LossIsAnnouncedHolds`, `RecoveryIsAnnouncedHolds` from one invariant,
  `KnowledgeInv`.  It joins the three properties, which are not inductive alone:
  that a regained link is announced depends on the cache having been cleared when
  the last one was lost.
  `ExchangeRefined`: the monitor implements `StatusExchange`, step by step.  It needs
  `ToldInv`: clients were told everything that is cached, except that a link came back
  with nothing new on it, which can only be if the cache is what the loss had left.
* `Amand_proofs`: `ClusterTypeCorrect`.  The lemmas of `PingMonitor_proofs` leave
  `own` open and are used again.
* `AmandDurable_proofs`:
  `AdvertisedIsDurableHolds` from `DurableInv`, which also covers a node whose
  daemon is down (what its next start will advertise);
  `RestoresPeersSnapshotHolds` from `LineageInv`, which follows a name from the
  state file where it was made (`OwnNames`), through the pings under way
  (`NamesSent`), to the peer's cache and file (`PeerNames`), including pings sent
  by an earlier life of the daemon;
  `ClusterAnnouncesLoss`, `ClusterAnnouncesRecovery`, `ClusterUnreachableIsDown` and
  `ClusterExchangeRefined`, which carry the monitor's properties and its refinement over
  to the whole daemon, whose handlers broadcast at other times too;
  `ConflictIsNewsHolds`, for any clients, if SM is not given.  It rests on `LineageInv`: no
  name in a ping, a cache or a file is later than the last that its host has stored, so
  the name of a Make Master is new to the peer, whatever the peer has heard before, and
  the peer is the one that does not know.  Crashes, outages and failures change nothing
  in that, because they take away knowledge only;
  `RoleIsReplicationHolds` from `ReplInv`, which says for each step of Make Master and Make
  Slave whether the server replicates.  Its hypotheses are `~MayFail`, `~Outages`, no
  crash and no SM, for section 6 has nodes whose role says otherwise without them.
* `AMState_proofs`: `StateTypeCorrect`, `NoPhantomRoleHolds`, `NoSilentLossHolds`
  (with `StoredInv`: what waits in the temporary file is the record or what a full
  disk left of it) and `StateIsDurableRecord`, the refinement, under
  `Faults = {}` and with `RecordInv`: a daemon that has not read its roles writes
  at most the first, empty file.
* `Jobs_proofs`: `JobsTypeCorrect` (for every
  time-out, also those that the division makes 0), `SlaveIsScheduledHolds`,
  `IdleCopiesNothingHolds`, `FailureIsMailedHolds` and the action property
  `IdleStaysIdleHolds`.
* `Snapshots_proofs`: `SnapTypeCorrect`; `OwnSnapshotKeptHolds` and
  `SnapshotUsableHolds` from `KeptInv`, whose parts say what each job holds at each of
  its steps (`JobInv`: the archive it will name, if it was written, is in the store, and
  starts at the log that is written);
  `SlaveNotCutOffHolds` from `PurgeInv`: what a master has decided to delete ends
  before the log its peer reads.  This is what the time between the decision and the
  deletion could break: a slave that was there may only move on meanwhile; one that
  comes in between is `late`, and nothing is said of it.
* `AmanRmt_proofs`: `RmtTypeCorrect`; `ActiveIsScheduledHolds`, `IdleCopiesOnceHolds`,
  `ClosedCopiesNothingHolds` from `CopyInv` (a timer or an active flag means that no
  copy was begun since replication was made idle; a copy that runs was begun by an
  active site), with the exceptions that the properties name; `FollowsItsSnapshotHolds`, `DiesOfChangesOnlyHolds` from `SourceInv`,
  with `AskedInv`: as long as the master has not changed, the answer that is awaited
  comes from it, and there is an active connection; and `OpenInv`: where the connection
  to the database is broken nothing replicates.
* `Channel_proofs`: `ChannelTypeCorrect` (with `LineInv`: a connection has one client at
  most); `CommandsAreWholeHolds` from `TableInv` (every open connection is in the table
  of sockets exactly once) and `WholeInv` (first halves and ends alternate on the way to
  the server, and the buffer of an open connection holds the first half whose end comes
  next, so a buffer is always given to a connection empty); `UpToDateHolds` from
  `ReadInv`, the same for the way to the clients, and `FreshInv`: until the daemon has
  answered a connection's `ST`, the `ST` is under way, and from then on the last status
  on its way to the client, or seen by it, is the one announced last.
  `CommandsAreKnownHolds` is `WholeInv` once more: what is put together was sent as one.
  `RetryIsScheduledHolds` follows from an invariant of its own and `LineInv`.
  `StatusViewRefined`: the clients implement `StatusView`, by `OrderInv`: the statuses
  under way to a client come in the order in which the daemon had them, and none is older
  than what the client shows or has read the first half of.  A new connection begins
  with nothing under way, so nothing of the one before can come after it.

Only model-checked: the liveness properties (`CacheConverges`, `DualMasterResolves`,
`SlaveHasMaster`, `SlaveKeepsCopying`, `StopIsShown`, `StopIsMailed`, `CatchesUp`,
`RemoteStopIsShown`), because liveness under fairness is beyond the prover.

## 6. Findings and limits of the code

Two properties taken from the documentation are shown not to hold (`PROJECT.json`,
findings).

* *A dead daemon may be shown as running for ever* (`ping_death`).  `ping_reachable` is set
  by pings, the watchdog restarted by pongs only.  After a watchdog has expired, a ping
  that arrives without a pong makes the link reachable with no timer behind it.
* *The replication time of the peer is 0 or 1* (`ping_time`).  It is received into a `bool`
  (`pingmonitor.cpp:227`, 241), where `docs/command_protocol.txt:25` has milliseconds.

What follows was met while modelling.  The models do what the code does; the properties
name these cases as exceptions where they touch them.

Status and roles:

* A link that comes back is announced only if the ping says something new
  (`pingmonitor.cpp:235`).  Otherwise clients go on showing the peer as unreachable until
  something else changes (`LinkIsBack`).
* An idle node may go on replicating: a slave demoted because its peer went idle does not
  stop its slave threads (`amand.cpp:423`; README:109 defines idle otherwise).
* A slave may not replicate: a Make Slave that fails on a slave has stopped the threads
  (`amand.cpp:364`, `restore_snapshot.cpp:86`).
* `StopSlaves` may fail, and nobody looks (`amand.cpp:598-628`): an idle node, and a master
  too, may go on replicating.  A daemon that dies between "start slave" and the change of
  its role leaves a node that replicates under its old role.
* SM makes a master without a new snapshot name, so a peer that is master may not
  notice; `ConflictIsNews` leaves it out.
* A Make Slave that was checked on old information and begins when the peer is idle
  already makes a slave of an idle node, which stays one (`late`): the peer's role is no
  news any more.
* MM and MS block the event loop; the peer sees the daemon vanish after ten
  seconds, although it works.
* Two nodes can both become audio slaves; nothing resolves it.
* A slave can stay a slave of an idle node that crashed.  Node a knows b as idle.  b is
  made master, under a new snapshot name, and a a slave by an aman(1) that is connected
  to b, while all the pings that would tell a of it are lost.  b is made idle.  If a hears
  that now, the new name makes it news, and a is demoted; but if b dies before, it starts
  again without a name, and a's cache finds nothing new (`pingmonitor.cpp:219-251`).

Jobs:

* rsync that cannot be run is never scheduled again (`stalled`); one that crashes leaves
  the status on; StopAudioCopy and a restart clear it without a mail.
* A check that is not done after 30 s is read as a success.
* The time-out is divided by the tick interval (`amconfig.cpp:252`), although the sample
  configuration (`conf/aman.conf-sample:23-26`) gives it in ticks: the default of 10 is one
  look.
* When the own server goes away, the last time measured stays on display.
* `MirrorDeleteAudio` is true when it is not set (`amconfig.cpp:257`: its default is a
  string).
* The mail that replication stopped is not sent, and the flag cleared, if the peer is not
  seen as a slave at the moment of the test.

Snapshots and logs:

* A rotation whose snapshot failed purges logs all the same, also the ones the snapshot
  in use starts from; so does PG.
* A restore begins the node's own logs anew ("reset master") before it can still fail, so
  the node's own named snapshot points to a log that is gone, also where the restore
  failed or the daemon died in it.
* A master asks the slave where it is, archives, and then purges: a slave that is restored
  in between may be cut off (`late` in `Snapshots`).
* tar that cannot be run has exit code 0: a snapshot without an archive is named.
* Both daemons rotate at the configured time, whatever their roles (the sample
  configuration speaks of the master).  Each purges archives that it has received and
  whose name it has not heard yet.
* The purge of a slave can cut off a peer that replicates from it.
* Log numbers are unsigned: one less than log 0 or 1 wraps and names no log; `f1[1]` is
  read when the name of a relay log has no dot (`auto_rotate.cpp:161`).  The name of a relay log is given
  to "purge binary logs".
* Both `restore_snapshot.cpp` unlink relative names.

Command protocol:

* LS always fails: the table allows it one argument (`amand.cpp:160-162`), its handler
  reads two.
* DC leaves a NULL socket behind for the commands of the same read.
* `collectGarbageData` erases from the map it iterates over.
* A client does not notice a connection lost silently, ignores errors other than refusal
  and time-out, and drops commands when it is not connected.

amanrmt:

* The master is looked up again when a snapshot has arrived; if it changed, replication
  starts in the logs of one server with the position of the other, or the address of
  server -1 is read.
* Two requests, the second without a master, leave the first answer with no active
  connection.  A snapshot that failed is downloaded under the name "-".
* The slot of the audio timer does not ask whether replication is active, and overwrites
  the process pointer; a crashed process is used after it was deleted.
* rsync that cannot be run is not noticed: the display says SLAVE, and nothing copies or
  tries again.  (The check with exit code 0 may be one that could not be run either.)
* A copy that is still starting is not ended by closing the program.  `exit(1)` for want of a
  directory (`amanrmt.cpp:828-834`) leaves any copy running.
* After a restore that breaks off with the server stopped the program's connection to
  its database stays broken, also when the server is started: both buttons are disabled.
* The monitor compares with 0 after there was no master, and shows RESUMED although
  nothing changed; a light that goes on has a mail that says STOPPED.
* The idle button follows the role of server A, whichever server is the master.

## 7. What is not modelled

* DC and LS: no client of the repository sends the first, and the second never succeeds.
* The number of arguments of a command, and answers that are only shown to a user.
* The text of mails, the command line, widgets and displays, parsing of the
  configuration, the Perl scripts, packaging and the load generator in `tests/`: they
  keep no state that the protocol depends on.
* The timer of the rotation: a rotation comes at any time.
* Lost datagrams in `Snapshots` (its `Hear` is the outcome of the exchange that
  `PingMonitor` models), and the contents of databases and audio stores.
* Refused binds at the start of the monitor, which end the daemon, are covered by `Crash`.
* The download of an archive by amanrmt, which succeeds or fails as a whole.
