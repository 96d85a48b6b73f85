--------------------------------- MODULE Jobs ---------------------------------
(***************************************************************************)
(* The two jobs that an amand(8) daemon repeats for ever, the copy of the  *)
(* audio store and the test of the database replication, in one process:   *)
(* their handlers are steps of one event loop, and one crash ends both.    *)
(***************************************************************************)
EXTENDS AudioStore, ReplicationTest

jobVars == <<audioVars, replVars>>

JobsTypeOK == AudioTypeOK /\ ReplTypeOK

JobsInit == AudioInit /\ ReplInit

Restart == AudioRestart /\ ReplRestart

JobsNext ==
    \/ AudioNext /\ UNCHANGED replVars
    \/ ReplNext /\ UNCHANGED audioVars
    \/ Restart

JobsSpec == JobsInit /\ [][JobsNext]_jobVars

(* The event loop runs: timers fire and rsync processes end.  Commands, crashes *)
(* and changes of the servers are never forced, and neither is replication.     *)
JobsFairness ==
    /\ WF_jobVars(CopyTimer /\ UNCHANGED replVars)
    /\ WF_jobVars(RsyncExits /\ UNCHANGED replVars)
    /\ WF_jobVars(CheckStatus /\ UNCHANGED audioVars)
    /\ WF_jobVars(TryResult /\ UNCHANGED audioVars)

JobsFairSpec == JobsSpec /\ JobsFairness

-----------------------------------------------------------------------------

\* The daemon does not crash for ever.
StaysUp == <>[][~Restart]_jobVars

\* An audio slave that stays one, and whose rsync can be run, copies or reports a
\* failure again and again, however commands and crashes fell before.
SlaveKeepsCopying ==
    StaysUp /\ <>[](audio = "Slave" /\ ~stalled) => []<>(copy = "running" \/ holdoff = "error")

\* Administrators whose last mail said RESUMED get another one when replication stops
\* for good, also when the daemon was restarted meanwhile, if after the mail the peer does
\* not cease to be seen as a slave.  (If it does, the flag is cleared without a mail: the
\* peer's own notice that its server is down races with the test.)
StopIsMailed ==
    StaysUp /\ <>[]Stopped /\ [](dbMailed = "RESUMED" => peerSlave)
        => <>[](dbMailed # "RESUMED")

=============================================================================
