------------------------------ MODULE AudioStore ------------------------------
(***************************************************************************)
(* The copy loop of an audio slave: src/amand/audiostore.cpp.  A single-   *)
(* shot timer starts a check of the peer's rsync service and then rsync    *)
(* itself; the end of rsync starts the timer again.  Commands to start and *)
(* to stop come in at any point of the loop.                               *)
(***************************************************************************)
EXTENDS Naturals

VARIABLES
    audio,     \* audioState: the role, in the state file and in the monitor
    status,    \* audioStatus(This): what clients and the peer are shown
    holdoff,   \* main_audio_holdoff_timer: "off", or the interval it was started with
    copy,      \* main_audio_process: "none", "running", "stopping" (sent SIGTERM)
    stalled,   \* history: rsync failed to start, and nothing was scheduled since
    mailed,    \* history: the last alert about audio replication
    silent     \* history: the status went off without an alert since the last alert

audioVars == <<audio, status, holdoff, copy, stalled, mailed, silent>>

AudioTypeOK ==
    /\ audio \in {"Idle", "Slave"}
    /\ status \in BOOLEAN
    /\ holdoff \in {"off", "now", "pause", "error"}
    /\ copy \in {"none", "running", "stopping"}
    /\ stalled \in BOOLEAN
    /\ mailed \in {"nothing", "RESUMED", "STOPPED"}
    /\ silent \in BOOLEAN

AudioInit ==
    /\ audio = "Idle"
    /\ status = FALSE
    /\ holdoff = "off"
    /\ copy = "none"
    /\ stalled = FALSE
    /\ mailed = "nothing"
    /\ silent = FALSE

\* Mutant: only good news is mailed.
MutSetAudioStatus(s) ==
    /\ status' = s
    /\ mailed' = IF s /\ s # status THEN "RESUMED" ELSE mailed
    /\ UNCHANGED silent

\* SetAudioStatus: a change is mailed (and broadcast).
SetAudioStatus(s) ==
    /\ status' = s
    /\ mailed' = IF s = status THEN mailed ELSE IF s THEN "RESUMED" ELSE "STOPPED"
    /\ silent' = (silent /\ s = status)

\* Mutant: only an idle node is scheduled.
MutScheduleAudioCopy(interval) ==
    IF audio = "Idle"
    THEN holdoff' = interval /\ stalled' = FALSE
    ELSE UNCHANGED <<holdoff, stalled>>

ScheduleAudioCopy(interval) ==
    IF audio = "Slave"
    THEN holdoff' = interval /\ stalled' = FALSE
    ELSE UNCHANGED <<holdoff, stalled>>

-----------------------------------------------------------------------------
(* startAudioCopy, the slot of the timer.                                    *)

\* Mutant: the role is not looked at.
MutSlaveHere == TRUE

SlaveHere == audio = "Slave"

\* The timer fires on a node that was made idle meanwhile.
CopyNotWanted ==
    /\ holdoff # "off"
    /\ audio # "Slave"
    /\ holdoff' = "off"
    /\ UNCHANGED <<audio, status, copy, stalled, mailed, silent>>

\* The check has read the peer's repl.chk, or has not ended after 30 s, or could
\* not be run: each time its exit code is 0.  QProcess::start does nothing when an
\* earlier rsync is still ending, and reports an error when rsync cannot be run.
MasterReady(starts) ==
    /\ holdoff # "off"
    /\ SlaveHere
    /\ holdoff' = "off"
    /\ SetAudioStatus(TRUE)
    /\ IF copy = "none"
       THEN /\ copy' = IF starts THEN "running" ELSE "none"
            /\ stalled' = ~starts
       ELSE UNCHANGED <<copy, stalled>>
    /\ UNCHANGED audio

\* The check fails, with whatever exit code.
MasterNotReady ==
    /\ holdoff # "off"
    /\ SlaveHere
    /\ SetAudioStatus(FALSE)
    /\ ScheduleAudioCopy("error")
    /\ UNCHANGED <<audio, copy>>

-----------------------------------------------------------------------------
(* rsyncFinishedData.  The timer is started again whatever the role is,      *)
(* except after a crash of rsync.                                            *)

\* Mutant: a copy that crashed is not tried again.
MutRsyncCrashes ==
    /\ copy # "none"
    /\ copy' = "none"
    /\ UNCHANGED <<audio, status, holdoff, stalled, mailed, silent>>

RsyncCrashes ==
    /\ copy # "none"
    /\ copy' = "none"
    /\ ScheduleAudioCopy("error")
    /\ UNCHANGED <<audio, status, mailed, silent>>

\* Exit codes 0, 20, 23 and 24.
RsyncEnds ==
    /\ copy # "none"
    /\ copy' = "none"
    /\ holdoff' = "pause"
    /\ stalled' = FALSE
    /\ UNCHANGED <<audio, status, mailed, silent>>

\* Any other exit code.
RsyncFails ==
    /\ copy # "none"
    /\ copy' = "none"
    /\ SetAudioStatus(FALSE)
    /\ holdoff' = "error"
    /\ stalled' = FALSE
    /\ UNCHANGED audio

-----------------------------------------------------------------------------
(* The commands.  that is the peer's audio role in the monitor's cache.      *)

StartAudioSlave(that) ==
    /\ audio # "Slave" /\ that # "Slave"
    /\ audio' = "Slave"
    /\ holdoff' = "now"
    /\ stalled' = FALSE
    /\ UNCHANGED <<status, copy, mailed, silent>>

\* Mutant: the process is not told to stop.
MutStopAudioCopy == UNCHANGED <<copy, status, mailed, silent>>

\* The timer goes on, and without a process so does the status.
StopAudioCopy ==
    IF copy # "none"
    THEN /\ copy' = "stopping"
         /\ status' = FALSE
         /\ silent' = (silent \/ status)
         /\ UNCHANGED mailed
    ELSE UNCHANGED <<copy, status, mailed, silent>>

StopAudioSlave ==
    /\ StopAudioCopy
    /\ audio' = "Idle"
    /\ UNCHANGED <<holdoff, stalled>>

\* The daemon dies, its rsync with it (systemd ends the whole control group), and is
\* started again: it reads its role and schedules a copy at once.
AudioRestart ==
    /\ status' = FALSE
    /\ silent' = (silent \/ status)
    /\ copy' = "none"
    /\ holdoff' = IF audio = "Slave" THEN "now" ELSE "off"
    /\ stalled' = FALSE
    /\ UNCHANGED <<audio, mailed>>

-----------------------------------------------------------------------------
CopyTimer ==
    \/ CopyNotWanted
    \/ \E starts \in BOOLEAN : MasterReady(starts)
    \/ MasterNotReady

RsyncExits == RsyncCrashes \/ RsyncEnds \/ RsyncFails

AudioCommand ==
    \/ \E that \in {"Idle", "Slave"} : StartAudioSlave(that)
    \/ StopAudioSlave

AudioNext == CopyTimer \/ RsyncExits \/ AudioCommand

-----------------------------------------------------------------------------
(* Properties.                                                               *)

\* An audio slave always has a copy under way or a timer that will start one,
\* whichever way checks and copies end and however commands and restarts fall in
\* between.  The one exception is a copy whose rsync could not be run at all: QProcess
\* then reports an error and never that the process finished, and rsyncErrorData only
\* writes to the log.
SlaveIsScheduled == audio = "Slave" => holdoff # "off" \/ copy # "none" \/ stalled

\* Stop Audio Slave leaves the timer running and the process ending.  Still no rsync
\* copies into the audio store of an idle node: one that was running has been told to
\* stop, and the timer that fires later starts none.
IdleCopiesNothing == copy = "running" => audio = "Slave"

\* The mail that administrators get and the status that clients see agree: when
\* replication was last reported RESUMED and is not active, it was a command or a
\* restart of the daemon that ended it.
FailureIsMailed == mailed = "RESUMED" /\ ~status => silent

\* On an idle node the pending timer and the ends of an old copy never turn the status
\* on again, nor do they bring a copy back.
IdleStaysIdle ==
    [][audio = "Idle" /\ audio' = "Idle" => (status' => status) /\ copy' \in {copy, "stopping", "none"}]_audioVars

=============================================================================
