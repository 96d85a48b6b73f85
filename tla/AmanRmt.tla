------------------------------- MODULE AmanRmt -------------------------------
(***************************************************************************)
(* amanrmt(1), the server manager of a remote site: its database and its   *)
(* audio store, over the same two connections and in one event loop.       *)
(***************************************************************************)
EXTENDS RemoteDb, RemoteAudio

rmtVars == <<sourceVars, dbVars, audioVars>>

RmtTypeOK == SourceTypeOK /\ DbTypeOK /\ RemoteAudioTypeOK

RmtInit == SourceInit /\ DbInit /\ RemoteAudioInit

\* checkDbReplicationData, once a second.
Check == CheckDb /\ CheckAudio

RmtNext ==
    /\ program = "running"
    /\ \/ World /\ UNCHANGED <<dbVars, audioVars>>
       \/ DbNext /\ UNCHANGED audioVars
       \/ AudioNext /\ UNCHANGED dbVars
       \/ Check

RmtSpec == RmtInit /\ [][RmtNext]_rmtVars

(* The event loop runs; nothing else is forced. *)
RmtFairness == WF_rmtVars(program = "running" /\ Check)

RmtFairSpec == RmtSpec /\ RmtFairness

-----------------------------------------------------------------------------

\* The program does not use a connection or a process that is not there, unless the
\* master changed while a snapshot was awaited (Make Slave is refused then, and the answer
\* to the first one finds no active connection), a process was lost, or rsync crashed.
DiesOfChangesOnly == program = "dead" => changed \/ lost

\* Replication of the database that has stopped is shown as stopped, if the master does
\* not come and go: each time it comes, a number that never changes counts as a change.
NumberStays == ~PingArrives /\ GetMasterServerId' = GetMasterServerId

RemoteStopIsShown == <>[][NumberStays]_rmtVars => <>[](~dbLight) \/ <>(program # "running")

=============================================================================
