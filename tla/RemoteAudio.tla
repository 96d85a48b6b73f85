----------------------------- MODULE RemoteAudio -----------------------------
(***************************************************************************)
(* The copy of the audio store at a remote site: the timer, the rsync      *)
(* process and the buttons of amanrmt(1), src/amanrmt/amanrmt.cpp.         *)
(***************************************************************************)
EXTENDS RemoteSources

VARIABLES
    audioActive, \* am_audio_active
    timer,       \* whether am_audio_timer runs
    current,     \* am_audio_process: "none", "starting" until the event loop learns whether
                 \* rsync runs, "running", "ending" (sent SIGTERM), or "failed" (could not
                 \* be run, which nobody is told)
    older,       \* rsync processes that still run and that the pointer lost
    startOn,     \* whether am_audio_slave_button is enabled
    stopOn,      \* whether am_audio_idle_button is enabled
    lost,        \* history: a process was lost, or rsync crashed
    late         \* history: copies begun since replication was last made idle

audioVars == <<audioActive, timer, current, older, startOn, stopOn, lost, late>>

RemoteAudioTypeOK ==
    /\ audioActive \in BOOLEAN
    /\ timer \in BOOLEAN
    /\ current \in {"none", "starting", "running", "ending", "failed"}
    /\ older \in Nat
    /\ startOn \in BOOLEAN /\ stopOn \in BOOLEAN
    /\ lost \in BOOLEAN
    /\ late \in Nat

RemoteAudioInit ==
    /\ audioActive = FALSE
    /\ timer = FALSE
    /\ current = "none"
    /\ older = 0
    /\ startOn = FALSE /\ stopOn = FALSE
    /\ lost = FALSE
    /\ late = 0

Cleared == "none"

Alive == current \in {"starting", "running", "ending"}

-----------------------------------------------------------------------------
\* startAudioData.
StartAudio ==
    /\ startOn
    /\ events < MaxEvents
    /\ events' = events + 1
    /\ timer' = TRUE
    /\ audioActive' = TRUE
    /\ late' = 0
    /\ UNCHANGED <<program, role, linked, seen, asked, inbox, changed>>
    /\ UNCHANGED <<current, older, startOn, stopOn, lost>>

\* stopAudioData: the timer goes on.
StopAudio ==
    /\ stopOn
    /\ audioActive' = FALSE
    /\ CASE current = "starting" -> current' \in {"ending", "failed"}
         [] current = "running"  -> current' = "ending"
         [] OTHER                -> UNCHANGED current
    /\ UNCHANGED <<sourceVars, timer, older, startOn, stopOn, lost, late>>

\* checkDbReplicationData, its part about the buttons of the audio store.
CheckAudio ==
    /\ startOn' = ~audioActive
    /\ stopOn' = audioActive
    /\ UNCHANGED <<sourceVars, audioActive, timer, current, older, lost, late>>

-----------------------------------------------------------------------------
(* startAudioProcessData, the slot of the timer: it does not ask whether     *)
(* replication is still active.                                              *)

AwaitMaster ==
    /\ timer
    /\ GetMasterServerId = NoServer
    /\ UNCHANGED <<sourceVars, audioVars>>

\* The pointer is given the process of the check, whatever it points to.
Overwrite ==
    /\ older' = IF Alive THEN older + 1 ELSE older
    /\ lost' = (lost \/ Alive)

\* The check has succeeded, or has not ended after 30 s.
Copy ==
    /\ timer /\ GetMasterServerId # NoServer
    /\ Overwrite
    /\ timer' = FALSE
    /\ current' = "starting"
    /\ late' = IF audioActive THEN late ELSE late + 1
    /\ UNCHANGED <<sourceVars, audioActive, startOn, stopOn>>

\* Exit codes 23, 30 and 35 of the check.
Defer ==
    /\ timer /\ GetMasterServerId # NoServer
    /\ Overwrite
    /\ current' = "none"
    /\ UNCHANGED <<sourceVars, audioActive, timer, startOn, stopOn, late>>

\* Any other exit code.
CheckFails ==
    /\ timer /\ GetMasterServerId # NoServer
    /\ Overwrite
    /\ timer' = FALSE
    /\ current' = "none"
    /\ audioActive' = FALSE
    /\ UNCHANGED <<sourceVars, startOn, stopOn, late>>

\* The event loop learns what became of the start, or that rsync ran.
Started ==
    /\ current = "starting"
    /\ current' \in {"running", "failed"}
    /\ UNCHANGED <<sourceVars, audioActive, timer, older, startOn, stopOn, lost, late>>

-----------------------------------------------------------------------------
(* audioProcessFinishedData.                                                 *)

\* Mutants: a copy is repeated whether or not replication is active; never after an error.
MutRepeat == timer' = TRUE
MutNoRepeat == UNCHANGED timer

Repeat == timer' = (timer \/ audioActive)

Ran == current \in {"running", "ending"}

\* Exit codes 0, 10, 20, 23 and 24.
CopyEnds ==
    /\ Ran
    /\ current' = Cleared
    /\ Repeat
    /\ UNCHANGED <<sourceVars, audioActive, older, startOn, stopOn, lost, late>>

CopyFails ==
    /\ Ran
    /\ current' = Cleared
    /\ audioActive' = FALSE
    /\ UNCHANGED <<sourceVars, timer, older, startOn, stopOn, lost, late>>

\* The process is deleted, and then used once more.
UseDeleted ==
    /\ \/ program' = "dead"
       \/ UNCHANGED program
    /\ current' = "none"
    /\ audioActive' = FALSE
    /\ UNCHANGED <<role, linked, seen, asked, inbox, changed, events, timer, startOn, stopOn, late>>

CopyCrashes ==
    /\ Ran
    /\ UseDeleted
    /\ lost' = TRUE
    /\ UNCHANGED older

\* The end of an older process is handled as one of the current.  Without a current one
\* the pointer is NULL.  The exit code of one that runs reads as 0; it is deleted and thereby
\* killed, which is handled as a crash in turn, when the pointer is NULL already.
OlderEnds ==
    /\ older > 0
    /\ older' = older - 1
    /\ IF current = "none"
       THEN program' = "dead" /\ UNCHANGED <<timer, audioActive>>
       ELSE /\ Repeat
            /\ audioActive' = (audioActive /\ ~Alive)
            /\ UNCHANGED program
    /\ current' = "none"
    /\ UNCHANGED <<role, linked, seen, asked, inbox, changed, events, startOn, stopOn, lost, late>>

OlderCrashes ==
    /\ older > 0
    /\ older' = older - 1
    /\ UseDeleted
    /\ UNCHANGED lost

\* Mutant: the copy is left alone.
MutEndCopy == current

\* A process that is starting is left alone.
EndCopy == IF audioActive /\ current = "running" THEN "ending" ELSE current

\* closeEvent, when the user confirms.
Close ==
    /\ program' = "closed"
    /\ current' = EndCopy
    /\ UNCHANGED <<role, linked, seen, asked, inbox, changed, events>>
    /\ UNCHANGED <<audioActive, timer, older, startOn, stopOn, lost, late>>

CopyTimer == AwaitMaster \/ Copy \/ Defer \/ CheckFails

AudioNext ==
    \/ StartAudio
    \/ StopAudio
    \/ CopyTimer
    \/ Started
    \/ CopyEnds
    \/ CopyFails
    \/ CopyCrashes
    \/ OlderEnds
    \/ OlderCrashes
    \/ Close

-----------------------------------------------------------------------------
(* Properties.                                                               *)

\* rsync could not be run.  No signal that the program listens to tells of it: the display
\* says "SLAVE", nothing copies, and no timer will try again.
NotRun == current = "failed"

\* Active audio replication has a timer that runs or a copy that runs: no end of a check or
\* of a copy, and no end of an older process that is taken for the current one, leaves the
\* site with "SLAVE" on its display and nothing that copies.  Only a copy that could not be
\* run does.
ActiveIsScheduled == program = "running" /\ audioActive => timer \/ Alive \/ NotRun

\* Make Idle does not stop the timer, which goes on while there is no master, and may
\* start a copy on the idle site.  It is one copy at most.
IdleCopiesOnce == late <= 1

Copies == current \in {"starting", "running"}

\* A program that its user closes leaves no rsync behind that goes on copying, except for
\* one that was begun on an idle site, one that the program had lost, and one that the
\* event loop did not know to run yet (begun while the question was on the screen).
ClosedCopiesNothing ==
    program = "closed" /\ late = 0 /\ ~lost /\ current # "starting" => ~Copies

=============================================================================
