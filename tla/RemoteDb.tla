------------------------------- MODULE RemoteDb -------------------------------
(***************************************************************************)
(* The database of a remote site under amanrmt(1): a snapshot of the       *)
(* master is asked for, downloaded and restored, and replication started;  *)
(* once a second the local server is asked whether it replicates.          *)
(* src/amanrmt/amanrmt.cpp and src/amanrmt/restore_snapshot.cpp.           *)
(***************************************************************************)
EXTENDS RemoteSources

VARIABLES
    active,     \* am_active_connection, NoServer for NULL
    data,       \* what the local database holds: its own, a snapshot of a server,
                \* or "down" when a restore broke off with the server stopped
    follow,     \* the server that the slave threads replicate from, NoServer if none
    slaveOn,    \* whether am_db_slave_button is enabled
    idleOn,     \* whether am_db_idle_button is enabled
    open,       \* whether the connection of the program to its database works
    fresh,      \* whether the number in the master's ping table differs from
                \* am_check_db_prev_ping
    dbLight,    \* am_dst_db_replicating_light
    swapped     \* history: changed, when replication was set up last

dbVars == <<active, data, follow, open, slaveOn, idleOn, fresh, dbLight, swapped>>

DbTypeOK ==
    /\ active \in Server \cup {NoServer}
    /\ data \in {"own", "down", "snapshot of 0", "snapshot of 1"}
    /\ follow \in Server \cup {NoServer}
    /\ slaveOn \in BOOLEAN /\ idleOn \in BOOLEAN
    /\ open \in BOOLEAN /\ fresh \in BOOLEAN
    /\ dbLight \in BOOLEAN /\ swapped \in BOOLEAN

DbInit ==
    /\ active = NoServer
    /\ data = "own"
    /\ follow = NoServer
    /\ open = TRUE
    /\ slaveOn = FALSE /\ idleOn = FALSE
    /\ fresh = TRUE
    /\ dbLight = FALSE
    /\ swapped = FALSE

Of(i) == IF i = 0 THEN "snapshot of 0" ELSE "snapshot of 1"

-----------------------------------------------------------------------------
\* Mutant: the connection that is asked is not remembered.
MutMakeDbSlave ==
    /\ slaveOn
    /\ IF GetMasterServerId # NoServer THEN Ask(GetMasterServerId) ELSE UNCHANGED sourceVars
    /\ UNCHANGED dbVars

\* makeDbSlaveData.
MakeDbSlave ==
    /\ slaveOn
    /\ active' = GetMasterServerId
    /\ IF GetMasterServerId # NoServer THEN Ask(GetMasterServerId) ELSE UNCHANGED sourceVars
    /\ UNCHANGED <<data, follow, open, slaveOn, idleOn, fresh, dbLight, swapped>>

\* What "stop slave" leaves.  Nobody looks whether it was executed.
StopSlave == IF open THEN NoServer ELSE follow

\* makeDbIdleData.
MakeDbIdle ==
    /\ idleOn
    /\ follow' = StopSlave
    /\ slaveOn' = TRUE /\ idleOn' = FALSE
    /\ UNCHANGED <<sourceVars, active, data, open, fresh, dbLight, swapped>>

\* statusChangedData.  (The idle button follows the role of server A.)
StatusChanged(i) ==
    /\ TakeStatus(i)
    /\ slaveOn' = \E j \in Server : seen'[i][j] = "Master"
    /\ idleOn' = (seen'[i][0] = "Slave")
    /\ UNCHANGED <<active, data, follow, open, fresh, dbLight, swapped>>

\* The address of server -1 is read from before the array, after replication was stopped.
Stray ==
    /\ \/ program' = "dead"
       \/ UNCHANGED program
    /\ follow' = NoServer
    /\ UNCHANGED <<swapped, slaveOn, idleOn>>

\* Mutant: replication is set up with server A.
MutReplicateFrom == IF GetMasterServerId = NoServer THEN NoServer ELSE 0

\* The source is looked up again when the snapshot is there.
ReplicateFrom == GetMasterServerId

\* A step after "stop slave" fails.  The connection breaks with the server that is stopped,
\* and is opened again when the snapshot is in place and the server has started.
BreakOff(i) ==
    /\ data' \in {data, Of(i), "down"}
    /\ open' \in BOOLEAN
    /\ open' => data' # "down" /\ (open \/ data' = Of(i))
    /\ fresh' \in BOOLEAN
    /\ follow' = StopSlave
    /\ UNCHANGED <<program, slaveOn, idleOn, swapped>>

\* RestoreMysqlSnapshot of a snapshot of i, with all that can fail on the way.  The ping
\* table in it holds the number that is known, or another.
Restore(i) ==
    \/ \* No directory can be made for the archive, which ends the program, or the archive
       \* cannot be unpacked.
       /\ program' \in {program, "exited"}
       /\ UNCHANGED <<data, follow, open, slaveOn, idleOn, fresh, swapped>>
    \/ BreakOff(i)
    \/ /\ data' = Of(i)
       /\ open' = TRUE
       /\ fresh' \in BOOLEAN
       /\ IF ReplicateFrom = NoServer
          THEN Stray
          ELSE /\ follow' = ReplicateFrom
               /\ swapped' = changed
               /\ slaveOn' = FALSE /\ idleOn' = TRUE
               /\ UNCHANGED program

\* ProcessMessage, on GS, and snapshotGeneratedData.  A snapshot of i is also on its
\* peer, so it can be downloaded from the active connection, whichever that is.  A failed
\* one is reported and then downloaded under the name "-", which fails again.
SnapshotGenerated(i) ==
    /\ inbox[i] # <<>> /\ Head(inbox[i]).kind = "GS"
    /\ inbox' = [inbox EXCEPT ![i] = Tail(@)]
    /\ IF active = NoServer
       THEN program' = "dead" /\ UNCHANGED <<data, follow, open, slaveOn, idleOn, fresh, swapped>>
       ELSE \/ UNCHANGED <<program, data, follow, open, slaveOn, idleOn, fresh, swapped>>
            \/ Head(inbox[i]).good /\ Restore(i)
    /\ UNCHANGED <<role, linked, seen, asked, changed, events, active, dbLight>>

-----------------------------------------------------------------------------
\* Mutant: a light that is lit stays lit for as long as the table can be read.
MutCheckPing(readable) ==
    IF GetMasterServerId # NoServer /\ readable
    THEN dbLight' = (dbLight \/ fresh) /\ fresh' = FALSE
    ELSE dbLight' = FALSE /\ fresh' = TRUE

\* The confidence monitor: the light is on if the number changed since the last check.
\* After a check without a master or a table any number counts as a change.
CheckPing(readable) ==
    IF GetMasterServerId # NoServer /\ readable
    THEN dbLight' = fresh /\ fresh' = FALSE
    ELSE dbLight' = FALSE /\ fresh' = TRUE

\* checkDbReplicationData, its parts about the database.
CheckDb ==
    /\ slaveOn' = (open /\ follow = NoServer)
    /\ idleOn' = (open /\ follow # NoServer)
    /\ CheckPing(open)
    /\ UNCHANGED <<sourceVars, active, data, follow, open, swapped>>

\* The master's daemon writes another number, and it is replicated.
PingArrives ==
    /\ follow # NoServer /\ ~fresh
    /\ fresh' = TRUE
    /\ UNCHANGED <<sourceVars, active, data, follow, open, slaveOn, idleOn, dbLight, swapped>>

\* The administrator starts the server that a failed restore left stopped.  The connection
\* stays broken until a restore opens another, and both buttons stay disabled but for the
\* moments after a status.
DbStarts ==
    /\ data = "down"
    /\ data' = "own"
    /\ UNCHANGED <<sourceVars, active, follow, open, slaveOn, idleOn, fresh, dbLight, swapped>>

DbNext ==
    \/ MakeDbSlave
    \/ MakeDbIdle
    \/ \E i \in Server : StatusChanged(i) \/ SnapshotGenerated(i)
    \/ PingArrives
    \/ DbStarts

-----------------------------------------------------------------------------
(* Properties.                                                               *)

\* A site replicates from the server whose snapshot it holds, with the position in the
\* logs of that server.  The program looks up the master when it asks for the snapshot
\* and again when it sets up replication; only a change of the master between the two
\* makes it start in the logs of one server at a position in those of the other.
FollowsItsSnapshot == follow # NoServer /\ ~swapped => data = Of(follow)

=============================================================================
