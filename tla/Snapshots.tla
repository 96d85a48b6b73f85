------------------------------ MODULE Snapshots ------------------------------
(***************************************************************************)
(* Snapshots of the two databases and the binary logs they start from:     *)
(* src/amand/generate_snapshot.cpp, restore_snapshot.cpp, auto_rotate.cpp  *)
(* and AMState::purgeSnapshots.  An archive is made, pushed to the peer    *)
(* and only then named in the state file and in pings; what is not named   *)
(* is purged.  All of it blocks the daemon's event loop, so the peer hears *)
(* a name only when both have come back to theirs.                         *)
(***************************************************************************)
EXTENDS Integers, FiniteSets

CONSTANTS
    Node,        \* the two hosts
    Snapshot,    \* names of snapshots; each is given once (it holds the time)
    NoSnapshot,  \* the empty name
    Given,       \* the jobs that come: "MM", "MS", "MI", "GS", "PG", and "AR" of the timer
    MayFail,     \* whether the steps of a job may fail
    MaxLog,      \* bound: the number of a binary log
    MaxCrashes   \* bound: deaths of a daemon

ASSUME SnapNodeAssumption == \E m, n \in Node : m # n /\ Node = {m, n}
ASSUME SnapNameAssumption == NoSnapshot \notin Snapshot
ASSUME SnapJobAssumption == Given \subseteq {"MM", "MS", "MI", "GS", "PG", "AR"}
ASSUME SnapBoundAssumption ==
    MayFail \in BOOLEAN /\ MaxLog \in Nat \ {0} /\ MaxCrashes \in Nat

Name == Snapshot \cup {NoSnapshot}
Role == {"Idle", "Master", "Slave"}
Other(n) == CHOOSE m \in Node : m # n

VARIABLES
    role,    \* role[n]: the role of the database, in the state file and the monitor
    this,    \* this[n]: current_snapshot[This] of the state file
    that,    \* that[n]: current_snapshot[That]
    said,    \* said[n]: the name in the pings of n
    heard,   \* heard[n]: role and name in the last ping that n took
    store,   \* store[n]: the archives in /var/aman/snapshots
    start,   \* start[s]: the log of its host that snapshot s points to
    log,     \* log[n]: the number of the binary log that is written
    first,   \* first[n]: the number of the oldest one that exists
    at,      \* at[n]: Master_Log_File of the slave threads of n, 0 if not configured
    on,      \* on[n]: whether they run
    busy,    \* busy[n]: the job that n executes
    crashes, \* the number of crashes so far
    packed,  \* history: the snapshots whose archive was written
    late     \* history: n began to replicate during the purge that its peer executes

roleVars == <<role, this, that, said, heard>>
dbVars == <<log, first, at, on>>
snapVars == <<roleVars, store, start, dbVars, busy, crashes, packed, late>>

Free == [job |-> "none", step |-> "none", snap |-> NoSnapshot, good |-> FALSE, purge |-> 0]
Working == [job : {"MM", "MS", "GS", "PG", "AR"},
            step : {"generate", "push", "role", "name", "purge", "decide", "delete", "load"},
            snap : Name, good : BOOLEAN, purge : Nat]

SnapTypeOK ==
    /\ role \in [Node -> Role]
    /\ this \in [Node -> Name] /\ that \in [Node -> Name] /\ said \in [Node -> Name]
    /\ heard \in [Node -> [role : Role, snap : Name]]
    /\ store \in [Node -> SUBSET Snapshot]
    /\ start \in [Snapshot -> Nat]
    /\ log \in [Node -> Nat \ {0}] /\ first \in [Node -> Nat \ {0}]
    /\ at \in [Node -> Nat] /\ on \in [Node -> BOOLEAN]
    /\ busy \in [Node -> Working \cup {Free}]
    /\ crashes \in 0..MaxCrashes
    /\ packed \subseteq Snapshot
    /\ late \in [Node -> BOOLEAN]

SnapInit ==
    /\ role = [n \in Node |-> "Idle"]
    /\ this = [n \in Node |-> NoSnapshot]
    /\ that = [n \in Node |-> NoSnapshot]
    /\ said = [n \in Node |-> NoSnapshot]
    /\ heard = [n \in Node |-> [role |-> "Idle", snap |-> NoSnapshot]]
    /\ store = [n \in Node |-> {}]
    /\ start = [s \in Snapshot |-> 0]
    /\ log = [n \in Node |-> 1]
    /\ first = [n \in Node |-> 1]
    /\ at = [n \in Node |-> 0]
    /\ on = [n \in Node |-> FALSE]
    /\ busy = [n \in Node |-> Free]
    /\ crashes = 0
    /\ packed = {}
    /\ late = [n \in Node |-> FALSE]

Step(n, step) == busy' = [busy EXCEPT ![n].step = step]

\* Mutant: the job is ended and not cleared.
MutDone(n) == busy' = [busy EXCEPT ![n].step = "none"]

Done(n) == busy' = [busy EXCEPT ![n] = Free]

-----------------------------------------------------------------------------
(* GenerateMysqlSnapshot, for Make Master, Generate Snapshot, auto rotation. *)

\* StopSlaves may fail, and no caller looks.
StopSlaves(n) == \E running \in (IF MayFail THEN {FALSE, on[n]} ELSE {FALSE}) :
    on' = [on EXCEPT ![n] = running]

\* Make Master stops the slave threads first.
Begin(n, job) ==
    /\ busy[n] = Free
    /\ job \in Given \cap {"MM", "GS", "AR"}
    /\ busy' = [busy EXCEPT ![n] = [Free EXCEPT !.job = job, !.step = "generate"]]
    /\ IF job = "MM" THEN StopSlaves(n) ELSE UNCHANGED on
    /\ UNCHANGED <<roleVars, store, start, log, first, at, crashes, packed, late>>

\* Mutant: the position is read before the log is changed.
MutGenerate(n, s) ==
    /\ busy[n].step = "generate"
    /\ start[s] = 0 /\ log[n] < MaxLog
    /\ log' = [log EXCEPT ![n] = @ + 1]
    /\ start' = [start EXCEPT ![s] = log[n]]
    /\ busy' = [busy EXCEPT ![n].step = "push", ![n].snap = s, ![n].good = TRUE]
    /\ store' = [store EXCEPT ![n] = @ \cup {s}]
    /\ packed' = packed \cup {s}
    /\ UNCHANGED <<roleVars, first, at, on, crashes, late>>

\* The log is changed, the database copied and packed.
Generate(n, s) ==
    /\ busy[n].step = "generate"
    /\ start[s] = 0 /\ log[n] < MaxLog
    /\ log' = [log EXCEPT ![n] = @ + 1]
    /\ start' = [start EXCEPT ![s] = log[n] + 1]
    /\ \E good, kept \in (IF MayFail THEN BOOLEAN ELSE {TRUE}) :
         \* A copy that tar found changing is packed and pushed, and counts as failed; a tar
         \* that cannot be run leaves no archive, and has the exit code of a success.
         /\ busy' = [busy EXCEPT ![n].step = "push", ![n].snap = s, ![n].good = good]
         /\ store' = [store EXCEPT ![n] = IF kept THEN @ \cup {s} ELSE @]
         /\ packed' = IF kept THEN packed \cup {s} ELSE packed
    /\ UNCHANGED <<roleVars, first, at, on, crashes, late>>

\* What becomes of a job whose snapshot failed, or was not to be named: an auto rotation
\* goes on to purge, the others answer their client.
GiveUp(n) == IF busy[n].job = "AR" THEN Step(n, "purge") ELSE Done(n)

\* An early return: no directory, no connection, a wrong engine, no lock.  (Also where the
\* instance has no name or no number left.)
GenerateFails(n) ==
    /\ busy[n].step = "generate"
    /\ MayFail \/ log[n] = MaxLog \/ \A s \in Snapshot : start[s] # 0
    /\ GiveUp(n)
    /\ UNCHANGED <<roleVars, store, start, dbVars, crashes, packed, late>>

\* scp over one link or the other; that both fail is only logged.
Push(n) ==
    /\ busy[n].step = "push"
    /\ \E ok \in (IF MayFail THEN BOOLEAN ELSE {TRUE}) :
         store' = [store EXCEPT ![Other(n)] =
                     IF ok /\ busy[n].snap \in store[n] THEN @ \cup {busy[n].snap} ELSE @]
    /\ IF busy[n].good /\ busy[n].job # "GS"
       THEN Step(n, IF busy[n].job = "MM" THEN "role" ELSE "name")
       ELSE GiveUp(n)
    /\ UNCHANGED <<roleVars, start, dbVars, crashes, packed, late>>

BecomeMaster(n) ==
    /\ busy[n].step = "role"
    /\ role' = [role EXCEPT ![n] = "Master"]
    /\ Step(n, "name")
    /\ UNCHANGED <<this, that, said, heard, store, start, dbVars, crashes, packed, late>>

NameSnapshot(n) ==
    /\ busy[n].step = "name"
    /\ this' = [this EXCEPT ![n] = busy[n].snap]
    /\ said' = [said EXCEPT ![n] = busy[n].snap]
    /\ GiveUp(n)
    /\ UNCHANGED <<role, that, heard, store, start, dbVars, crashes, packed, late>>

-----------------------------------------------------------------------------
(* purgeSnapshots and PurgeBinlogs.                                          *)

\* Mutant: only the peer's snapshot is kept.
MutInUse(n) == {that[n]}

InUse(n) == {this[n], that[n]}

PurgeSnapshots(n) ==
    /\ busy[n].step = "purge"
    /\ store' = [store EXCEPT ![n] = @ \cap InUse(n)]
    /\ Step(n, "decide")
    /\ UNCHANGED <<roleVars, start, dbVars, crashes, packed, late>>

BeginPurge(n) ==
    /\ busy[n] = Free
    /\ "PG" \in Given
    /\ busy' = [busy EXCEPT ![n] = [Free EXCEPT !.job = "PG", !.step = "decide"]]
    /\ UNCHANGED <<roleVars, store, start, dbVars, crashes, packed, late>>

Least(i, j) == IF i <= j THEN i ELSE j

\* Mutant: the master does not ask where the slave is.
MutMasterPurgesTo(n) == IF role[n] = "Master" /\ heard[n].role = "Slave" THEN log[n] ELSE 0

\* A master asks the slave's server, which does not answer during a restore and has no
\* log file in its slave status when it is not configured.
MasterPurgesTo(n) ==
    IF /\ role[n] = "Master" /\ heard[n].role = "Slave"
       /\ busy[Other(n)].step # "load" /\ at[Other(n)] # 0
    THEN Least(log[n], at[Other(n)])
    ELSE 0

\* A slave keeps one log before its last: nobody is expected to read them.  (It also
\* gives the name of a relay log to "purge binary logs", which the server refuses.)
SlavePurgesTo(n) ==
    IF role[n] = "Slave" /\ heard[n].role = "Master" THEN log[n] - 1 ELSE 0

\* The logs to be deleted are copied to the archive directory before that, which takes
\* its time.  A rotation purges only if AutoPurgeBinlogs says so.
DecidePurge(n) ==
    /\ busy[n].step = "decide"
    /\ \/ /\ busy' = [busy EXCEPT ![n].step = "delete",
                                  ![n].purge = IF role[n] = "Master" THEN MasterPurgesTo(n)
                                               ELSE SlavePurgesTo(n)]
       \/ busy[n].job = "AR" /\ Done(n)
    /\ UNCHANGED <<roleVars, store, start, dbVars, crashes, packed, late>>

\* "purge binary logs to", an error if there is no such log.
DeleteLogs(n) ==
    /\ busy[n].step = "delete"
    /\ LET to == busy[n].purge IN
         first' = [first EXCEPT ![n] = IF to \in @..log[n] THEN to ELSE @]
    /\ late' = [late EXCEPT ![Other(n)] = FALSE]
    /\ Done(n)
    /\ UNCHANGED <<roleVars, store, start, log, at, on, crashes, packed>>

-----------------------------------------------------------------------------
(* Make Slave and Make Idle.                                                 *)

\* The archive is unpacked, replication reset, the server stopped.  Without an archive
\* the command fails and changes nothing.  (Where tar cannot be run, that is not noticed:
\* the restore goes on and breaks off for want of the metadata, as RestoreFails does.)
BeginMakeSlave(n) ==
    /\ busy[n] = Free
    /\ "MS" \in Given
    /\ that[n] \in store[n]
    /\ busy' = [busy EXCEPT ![n] = [Free EXCEPT !.job = "MS", !.step = "load", !.snap = that[n]]]
    /\ on' = [on EXCEPT ![n] = FALSE]
    /\ at' = [at EXCEPT ![n] = 0]
    /\ UNCHANGED <<roleVars, store, start, log, first, crashes, packed, late>>

\* "reset master": the node's own logs begin anew.
ResetLogs(n) ==
    /\ log' = [log EXCEPT ![n] = 1]
    /\ first' = [first EXCEPT ![n] = 1]

\* "change master", to the log that the archive names.
SetPosition(n) ==
    /\ busy[n].snap \in store[n]
    /\ at' = [at EXCEPT ![n] = start[busy[n].snap]]

\* "start slave".
StartSlave(n) ==
    /\ on' = [on EXCEPT ![n] = TRUE]
    /\ late' = [late EXCEPT ![n] = busy[Other(n)].step = "delete"]

Restore(n) ==
    /\ busy[n].step = "load"
    /\ ResetLogs(n)
    /\ SetPosition(n)
    /\ StartSlave(n)
    /\ role' = [role EXCEPT ![n] = "Slave"]
    /\ Done(n)
    /\ UNCHANGED <<this, that, said, heard, store, start, crashes, packed>>

\* How far a restore has come that is broken off before "start slave".
BrokenOff(n) ==
    /\ \/ UNCHANGED <<log, first, at>>
       \/ ResetLogs(n) /\ (SetPosition(n) \/ UNCHANGED at)
    /\ UNCHANGED on

RestoreFails(n) ==
    /\ busy[n].step = "load"
    /\ MayFail
    /\ BrokenOff(n)
    /\ Done(n)
    /\ UNCHANGED <<roleVars, store, start, crashes, packed, late>>

MakeIdle(n) ==
    /\ busy[n] = Free
    /\ "MI" \in Given
    /\ StopSlaves(n)
    /\ role' = [role EXCEPT ![n] = "Idle"]
    /\ UNCHANGED <<this, that, said, heard, store, start, log, first, at, busy, crashes, packed, late>>

-----------------------------------------------------------------------------
(* The daemons hear each other, the servers replicate, daemons die.          *)

\* thatStateChangedData, on a ping that differs from the last.  A peer in a job sends no
\* ping, but one that it sent before may come in until the job changes what it says.
Hear(n) ==
    LET now == [role |-> role[Other(n)], snap |-> said[Other(n)]] IN
    /\ busy[n] = Free
    /\ busy[Other(n)].step \notin {"name", "purge", "decide", "delete"}
    /\ heard[n] # now
    /\ heard' = [heard EXCEPT ![n] = now]
    /\ that' = [that EXCEPT ![n] = IF now.snap = NoSnapshot THEN @ ELSE now.snap]
    /\ role' = [role EXCEPT ![n] = IF \/ @ = "Slave" /\ now.role = "Idle"
                                      \/ @ = "Master" /\ now.role = "Master"
                                   THEN "Idle" ELSE @]
    /\ UNCHANGED <<this, said, store, start, dbVars, busy, crashes, packed, late>>

\* The slave threads of n finish a log of the master and go on to the next.
Replicate(n) ==
    /\ on[n]
    /\ at[n] \in first[Other(n)]..log[Other(n)]-1
    /\ at' = [at EXCEPT ![n] = @ + 1]
    /\ UNCHANGED <<roleVars, store, start, log, first, on, busy, crashes, packed, late>>

\* A daemon dies, also in the middle of a restore or between "start slave" and the change
\* of its role.
Crash(n) ==
    /\ crashes < MaxCrashes
    /\ crashes' = crashes + 1
    /\ Done(n)
    /\ said' = [said EXCEPT ![n] = NoSnapshot]
    /\ heard' = [heard EXCEPT ![n] = [role |-> "Idle", snap |-> NoSnapshot]]
    /\ \/ busy[n].step # "load" /\ UNCHANGED dbVars /\ late' = [late EXCEPT ![Other(n)] = FALSE]
       \/ busy[n].step = "load" /\ BrokenOff(n) /\ UNCHANGED late
       \/ busy[n].step = "load" /\ ResetLogs(n) /\ SetPosition(n) /\ StartSlave(n)
    /\ UNCHANGED <<role, this, that, store, start, packed>>

-----------------------------------------------------------------------------
SnapNext == \E n \in Node :
    \/ \E job \in {"MM", "GS", "AR"} : Begin(n, job)
    \/ \E s \in Snapshot : Generate(n, s)
    \/ GenerateFails(n)
    \/ Push(n)
    \/ BecomeMaster(n)
    \/ NameSnapshot(n)
    \/ PurgeSnapshots(n)
    \/ BeginPurge(n)
    \/ DecidePurge(n)
    \/ DeleteLogs(n)
    \/ BeginMakeSlave(n)
    \/ Restore(n)
    \/ RestoreFails(n)
    \/ MakeIdle(n)
    \/ Hear(n)
    \/ Replicate(n)
    \/ Crash(n)

SnapSpec == SnapInit /\ [][SnapNext]_snapVars

-----------------------------------------------------------------------------
(* Properties.                                                               *)

\* The archive of a node's own current snapshot, if it was written, still exists, whatever
\* step of a later generation fails or is cut short by a crash, and whatever a rotation
\* purges.  (That it was written the daemon takes from an exit code, which does not tell
\* when tar could not be run.)
OwnSnapshotKept == \A n \in Node : this[n] \in packed => this[n] \in store[n]

\* A peer that replicates when the master asks for its position is not cut off by the
\* purge that follows, although the master asks long before it deletes and goes by a role
\* of the peer that may be out of date.  A peer that begins to replicate between the
\* question and the deletion (late) is not covered: it may well be cut off.
SlaveNotCutOff == [][\A n \in Node : LET m == Other(n) IN
    /\ role[m] = "Master" /\ on[n] /\ at[n] >= first[m] /\ ~late[n]
    /\ on'[n]
    => at'[n] >= first'[m]]_snapVars

\* The snapshot a node has named can be replicated from: the log that it points to exists.
Usable(n) == this[n] # NoSnapshot => start[this[n]] \in first[n]..log[n]

\* It stops to be so in two cases only: a purge that no new snapshot went before (PG, or a
\* rotation whose snapshot failed, which purges all the same), and a restore over the
\* database it was made of, which begins the logs anew, also when it fails or its daemon
\* dies in it.  In particular a rotation never purges the log of the snapshot it has named,
\* and a snapshot is usable when it is named.
SnapshotUsable == [][\A n \in Node : Usable(n) /\ ~Usable(n)'
    => \/ busy[n].step = "delete" /\ ~busy[n].good
       \/ busy[n].step = "load"]_snapVars

=============================================================================
