------------------------------ MODULE Jobs_proofs ------------------------------
(***************************************************************************)
(* Proofs about the jobs that an amand(8) daemon repeats (module Jobs).    *)
(***************************************************************************)
EXTENDS Jobs, TLAPS

\* The time-out in ticks is a number, whatever the configuration says: a quotient
\* of naturals.
LEMMA TimeoutIsNat == Timeout \in Nat
  BY TickAssumption DEF Timeout

LEMMA MaxTicksIsPositive == MaxTicks \in Nat \ {0}
  BY TimeoutIsNat DEF MaxTicks

-----------------------------------------------------------------------------
(* The types of the audio store.                                             *)

LEMMA AudioStatusTyped ==
    ASSUME AudioTypeOK, NEW s \in BOOLEAN, SetAudioStatus(s)
    PROVE  status' \in BOOLEAN /\ mailed' \in {"nothing", "RESUMED", "STOPPED"} /\ silent' \in BOOLEAN
  BY DEF AudioTypeOK, SetAudioStatus

LEMMA ScheduleTyped ==
    ASSUME AudioTypeOK, NEW i \in {"now", "pause", "error"}, ScheduleAudioCopy(i)
    PROVE  holdoff' \in {"off", "now", "pause", "error"} /\ stalled' \in BOOLEAN
  BY DEF AudioTypeOK, ScheduleAudioCopy

LEMMA CopyTimerTyped == ASSUME AudioTypeOK, CopyTimer PROVE AudioTypeOK'
<1>1. CASE CopyNotWanted
  BY <1>1 DEF CopyNotWanted, AudioTypeOK
<1>2. ASSUME NEW starts \in BOOLEAN, MasterReady(starts) PROVE AudioTypeOK'
  <2>1. status' \in BOOLEAN /\ mailed' \in {"nothing", "RESUMED", "STOPPED"} /\ silent' \in BOOLEAN
    BY <1>2, AudioStatusTyped DEF MasterReady
  <2>2. copy' \in {"none", "running", "stopping"} /\ stalled' \in BOOLEAN
    BY <1>2 DEF MasterReady, AudioTypeOK
  <2>3. audio' = audio /\ holdoff' = "off"
    BY <1>2 DEF MasterReady
  <2> QED
    BY <2>1, <2>2, <2>3 DEF AudioTypeOK
<1>3. CASE MasterNotReady
  <2>1. status' \in BOOLEAN /\ mailed' \in {"nothing", "RESUMED", "STOPPED"} /\ silent' \in BOOLEAN
    BY <1>3, AudioStatusTyped DEF MasterNotReady
  <2>2. holdoff' \in {"off", "now", "pause", "error"} /\ stalled' \in BOOLEAN
    BY <1>3, ScheduleTyped DEF MasterNotReady
  <2> QED
    BY <1>3, <2>1, <2>2 DEF MasterNotReady, AudioTypeOK
<1> QED
  BY <1>1, <1>2, <1>3 DEF CopyTimer

LEMMA RsyncExitsTyped == ASSUME AudioTypeOK, RsyncExits PROVE AudioTypeOK'
<1>1. CASE RsyncCrashes
  <2>1. holdoff' \in {"off", "now", "pause", "error"} /\ stalled' \in BOOLEAN
    BY <1>1, ScheduleTyped DEF RsyncCrashes
  <2> QED
    BY <1>1, <2>1 DEF RsyncCrashes, AudioTypeOK
<1>2. CASE RsyncEnds
  BY <1>2 DEF RsyncEnds, AudioTypeOK
<1>3. CASE RsyncFails
  <2>1. status' \in BOOLEAN /\ mailed' \in {"nothing", "RESUMED", "STOPPED"} /\ silent' \in BOOLEAN
    BY <1>3, AudioStatusTyped DEF RsyncFails
  <2> QED
    BY <1>3, <2>1 DEF RsyncFails, AudioTypeOK
<1> QED
  BY <1>1, <1>2, <1>3 DEF RsyncExits

LEMMA AudioCommandTyped == ASSUME AudioTypeOK, AudioCommand PROVE AudioTypeOK'
<1>1. ASSUME NEW that \in {"Idle", "Slave"}, StartAudioSlave(that) PROVE AudioTypeOK'
  BY <1>1 DEF StartAudioSlave, AudioTypeOK
<1>2. CASE StopAudioSlave
  BY <1>2 DEF StopAudioSlave, StopAudioCopy, AudioTypeOK
<1> QED
  BY <1>1, <1>2 DEF AudioCommand

-----------------------------------------------------------------------------
(* The types of the replication test.                                        *)

TestTyped ==
    /\ repl' \in {k * TickInterval : k \in 0..MaxTicks}
    /\ working' \in BOOLEAN
    /\ dbMailed' \in {"nothing", "RESUMED", "STOPPED"}

\* A test that ends leaves a time of at most MaxTicks ticks.
LEMMA TestCompleteTyped ==
    ASSUME ReplTypeOK, NEW s \in BOOLEAN, NEW k \in 0..MaxTicks, TestComplete(s, k)
    PROVE  TestTyped
<1>1. 0 * TickInterval = 0 /\ 0 \in 0..MaxTicks
  BY TickAssumption, MaxTicksIsPositive
<1>2. repl' = k * TickInterval \/ repl' = 0 * TickInterval
  BY <1>1 DEF TestComplete
<1>3. repl' \in {j * TickInterval : j \in 0..MaxTicks}
  BY <1>1, <1>2
<1> QED
  BY <1>3 DEF TestComplete, ReplTypeOK, TestTyped

LEMMA TestUnchangedTyped ==
    ASSUME ReplTypeOK, UNCHANGED <<repl, working, dbMailed>> PROVE TestTyped
  BY DEF ReplTypeOK, TestTyped

LEMMA CheckStatusTyped == ASSUME ReplTypeOK, CheckStatus PROVE ReplTypeOK'
<1>1. TestTyped
  <2>1. 0 \in 0..MaxTicks
    BY MaxTicksIsPositive
  <2>2. CASE accessible /\ ~peerOpen
    <3>1. TestComplete(FALSE, 0)
      BY <2>2 DEF CheckStatus
    <3> QED
      BY <2>1, <3>1, TestCompleteTyped
  <2>3. CASE accessible /\ peerOpen
    BY <2>3, TestUnchangedTyped DEF CheckStatus
  <2>4. CASE ~accessible
    BY <2>4, TestUnchangedTyped DEF CheckStatus
  <2> QED
    BY <2>2, <2>3, <2>4 DEF ReplTypeOK
<1>2. ticks' \in {NoTest} \cup 0..MaxTicks-1
  <2>1. ticks' = 0 \/ ticks' = NoTest
    <3>1. CASE accessible /\ peerOpen
      BY <3>1 DEF CheckStatus
    <3>2. CASE ~(accessible /\ peerOpen)
      BY <3>2 DEF CheckStatus
    <3> QED
      BY <3>1, <3>2
  <2> QED
    BY <2>1, MaxTicksIsPositive
<1>3. arrived' \in BOOLEAN /\ mysql' \in BOOLEAN
  BY DEF CheckStatus, ReplTypeOK
<1> QED
  BY <1>1, <1>2, <1>3 DEF CheckStatus, ReplTypeOK, TestTyped, worldVars

LEMMA TryResultTyped == ASSUME ReplTypeOK, TryResult PROVE ReplTypeOK'
<1>1. ticks \in 0..MaxTicks-1 /\ ticks + 1 \in 0..MaxTicks /\ 0 \in 0..MaxTicks
  BY MaxTicksIsPositive DEF TryResult, ReplTypeOK
<1>2. TestTyped
  <2>1. TestComplete(TRUE, ticks + 1) \/ TestComplete(FALSE, 0) \/ UNCHANGED <<repl, working, dbMailed>>
    BY DEF TryResult
  <2> QED
    BY <1>1, <2>1, TestCompleteTyped, TestUnchangedTyped
<1>3. ticks' \in {NoTest} \cup 0..MaxTicks-1
  <2>1. CASE ticks' = NoTest
    BY <2>1
  <2>2. CASE ticks' # NoTest
    <3>1. ~Expired /\ ticks' = ticks + 1
      BY <2>2 DEF TryResult
    <3>2. ticks + 1 < Timeout
      BY <1>1, <3>1, TimeoutIsNat, MaxTicksIsPositive DEF Expired
    <3> QED
      BY <1>1, <3>1, <3>2, TimeoutIsNat DEF MaxTicks
  <2> QED
    BY <2>1, <2>2
<1> QED
  BY <1>2, <1>3 DEF TryResult, ReplTypeOK, TestTyped, worldVars

LEMMA ReplNextTyped == ASSUME ReplTypeOK, ReplNext PROVE ReplTypeOK'
<1>1. CASE Replicate
  BY <1>1 DEF Replicate, ReplTypeOK, worldVars
<1>2. CASE WorldChanges
  <2>1. accessible' \in BOOLEAN /\ peerOpen' \in BOOLEAN /\ flowing' \in BOOLEAN /\ peerSlave' \in BOOLEAN
    BY <1>2 DEF WorldChanges, ReplTypeOK
  <2> QED
    BY <1>2, <2>1 DEF WorldChanges, ReplTypeOK, testVars
<1> QED
  BY <1>1, <1>2, CheckStatusTyped, TryResultTyped DEF ReplNext

-----------------------------------------------------------------------------
LEMMA InitTyped == JobsInit => JobsTypeOK
<1> SUFFICES ASSUME JobsInit PROVE JobsTypeOK
  OBVIOUS
<1>1. AudioTypeOK
  BY DEF JobsInit, AudioInit, AudioTypeOK
<1>2. 0 = 0 * TickInterval /\ 0 \in 0..MaxTicks
  BY TickAssumption, MaxTicksIsPositive
<1>3. repl \in {k * TickInterval : k \in 0..MaxTicks}
  BY <1>2 DEF JobsInit, ReplInit
<1>4. ReplTypeOK
  BY <1>3 DEF JobsInit, ReplInit, ReplTypeOK, WorkingAtBoot
<1> QED
  BY <1>1, <1>4 DEF JobsTypeOK

LEMMA NextTyped == JobsTypeOK /\ [JobsNext]_jobVars => JobsTypeOK'
<1> SUFFICES ASSUME JobsTypeOK, [JobsNext]_jobVars PROVE JobsTypeOK'
  OBVIOUS
<1> USE DEF JobsTypeOK
<1>a. UNCHANGED audioVars => AudioTypeOK'
  BY DEF audioVars, AudioTypeOK
<1>r. UNCHANGED replVars => ReplTypeOK'
  BY DEF replVars, testVars, worldVars, ReplTypeOK
<1>1. CASE AudioNext /\ UNCHANGED replVars
  BY <1>1, <1>r, CopyTimerTyped, RsyncExitsTyped, AudioCommandTyped DEF AudioNext
<1>2. CASE ReplNext /\ UNCHANGED audioVars
  BY <1>2, <1>a, ReplNextTyped
<1>3. CASE Restart
  <2>1. AudioTypeOK'
    BY <1>3 DEF Restart, AudioRestart, AudioTypeOK
  <2>2. 0 = 0 * TickInterval /\ 0 \in 0..MaxTicks
    BY TickAssumption, MaxTicksIsPositive
  <2>3. repl' \in {k * TickInterval : k \in 0..MaxTicks}
    BY <1>3, <2>2 DEF Restart, ReplRestart
  <2>4. ReplTypeOK'
    BY <1>3, <2>3 DEF Restart, ReplRestart, ReplTypeOK, WorkingAtBoot, worldVars
  <2> QED
    BY <2>1, <2>4
<1>4. CASE UNCHANGED jobVars
  BY <1>4, <1>a, <1>r DEF jobVars
<1> QED
  BY <1>1, <1>2, <1>3, <1>4 DEF JobsNext

\* Every variable keeps its type, for every tick interval and every configured
\* time-out, also one that is shorter than a tick: the time that a test reports is a
\* whole number of ticks, and never more of them than the time-out has.
THEOREM JobsTypeCorrect == JobsSpec => []JobsTypeOK
  BY InitTyped, NextTyped, PTL DEF JobsSpec
-----------------------------------------------------------------------------
(* The copy loop.  With the types each property is inductive; the steps of   *)
(* the replication test do not touch it.                                     *)

\* An audio slave always has a copy under way or a timer that will start one, unless
\* rsync could not be run.
THEOREM SlaveIsScheduledHolds == JobsSpec => []SlaveIsScheduled
<1>1. JobsInit => SlaveIsScheduled
  BY DEF JobsInit, AudioInit, SlaveIsScheduled
<1>2. JobsTypeOK /\ SlaveIsScheduled /\ [JobsNext]_jobVars => SlaveIsScheduled'
  <2> SUFFICES ASSUME JobsTypeOK, SlaveIsScheduled, [JobsNext]_jobVars PROVE SlaveIsScheduled'
    OBVIOUS
  <2> USE DEF SlaveIsScheduled
  <2>1. CASE UNCHANGED audioVars
    BY <2>1 DEF audioVars
  <2>2. CASE CopyTimer
    <3>1. CASE CopyNotWanted
      BY <3>1 DEF CopyNotWanted
    <3>2. ASSUME NEW starts \in BOOLEAN, MasterReady(starts) PROVE SlaveIsScheduled'
      BY <3>2 DEF MasterReady, SetAudioStatus
    <3>3. CASE MasterNotReady
      BY <3>3 DEF MasterNotReady, ScheduleAudioCopy, SlaveHere
    <3> QED
      BY <2>2, <3>1, <3>2, <3>3 DEF CopyTimer
  <2>3. CASE RsyncExits
    BY <2>3 DEF RsyncExits, RsyncCrashes, RsyncEnds, RsyncFails, ScheduleAudioCopy
  <2>4. CASE AudioCommand
    BY <2>4 DEF AudioCommand, StartAudioSlave, StopAudioSlave
  <2>5. CASE Restart
    BY <2>5 DEF Restart, AudioRestart
  <2> QED
    BY <2>1, <2>2, <2>3, <2>4, <2>5 DEF JobsNext, AudioNext, jobVars
<1> QED
  BY <1>1, <1>2, JobsTypeCorrect, PTL DEF JobsSpec

\* No rsync copies into the audio store of a node that is idle.
THEOREM IdleCopiesNothingHolds == JobsSpec => []IdleCopiesNothing
<1>1. JobsInit => IdleCopiesNothing
  BY DEF JobsInit, AudioInit, IdleCopiesNothing
<1>2. IdleCopiesNothing /\ [JobsNext]_jobVars => IdleCopiesNothing'
  <2> SUFFICES ASSUME IdleCopiesNothing, [JobsNext]_jobVars PROVE IdleCopiesNothing'
    OBVIOUS
  <2> USE DEF IdleCopiesNothing
  <2>1. CASE UNCHANGED audioVars
    BY <2>1 DEF audioVars
  <2>2. CASE CopyTimer
    BY <2>2 DEF CopyTimer, CopyNotWanted, MasterReady, MasterNotReady, SlaveHere
  <2>3. CASE RsyncExits
    BY <2>3 DEF RsyncExits, RsyncCrashes, RsyncEnds, RsyncFails
  <2>4. CASE AudioCommand
    BY <2>4 DEF AudioCommand, StartAudioSlave, StopAudioSlave, StopAudioCopy
  <2>5. CASE Restart
    BY <2>5 DEF Restart, AudioRestart
  <2> QED
    BY <2>1, <2>2, <2>3, <2>4, <2>5 DEF JobsNext, AudioNext, jobVars
<1> QED
  BY <1>1, <1>2, PTL DEF JobsSpec

\* When audio replication was last reported RESUMED and is not active, a command or a
\* restart ended it.
THEOREM FailureIsMailedHolds == JobsSpec => []FailureIsMailed
<1>1. JobsInit => FailureIsMailed
  BY DEF JobsInit, AudioInit, FailureIsMailed
<1>2. JobsTypeOK /\ FailureIsMailed /\ [JobsNext]_jobVars => FailureIsMailed'
  <2> SUFFICES ASSUME JobsTypeOK, FailureIsMailed, [JobsNext]_jobVars PROVE FailureIsMailed'
    OBVIOUS
  <2> USE DEF FailureIsMailed
  <2>a. AudioTypeOK
    BY DEF JobsTypeOK
  <2>b. ASSUME NEW s \in BOOLEAN, SetAudioStatus(s) PROVE FailureIsMailed'
    BY <2>a, <2>b DEF SetAudioStatus, AudioTypeOK
  <2>1. CASE UNCHANGED audioVars
    BY <2>1 DEF audioVars
  <2>2. CASE CopyTimer
    BY <2>2, <2>b DEF CopyTimer, CopyNotWanted, MasterReady, MasterNotReady
  <2>3. CASE RsyncExits
    BY <2>3, <2>b DEF RsyncExits, RsyncCrashes, RsyncEnds, RsyncFails
  <2>4. CASE AudioCommand
    BY <2>a, <2>4 DEF AudioCommand, StartAudioSlave, StopAudioSlave, StopAudioCopy, AudioTypeOK
  <2>5. CASE Restart
    BY <2>a, <2>5 DEF Restart, AudioRestart, AudioTypeOK
  <2> QED
    BY <2>1, <2>2, <2>3, <2>4, <2>5 DEF JobsNext, AudioNext, jobVars
<1> QED
  BY <1>1, <1>2, JobsTypeCorrect, PTL DEF JobsSpec

\* On an idle node no step turns the audio status on or brings a copy back.
THEOREM IdleStaysIdleHolds == JobsSpec => IdleStaysIdle
<1> DEFINE Kept == audio = "Idle" /\ audio' = "Idle" =>
                     (status' => status) /\ copy' \in {copy, "stopping", "none"}
<1>1. JobsTypeOK /\ [JobsNext]_jobVars => [Kept]_audioVars
  <2> SUFFICES ASSUME JobsTypeOK, [JobsNext]_jobVars, audio = "Idle", audio' = "Idle",
                      ~UNCHANGED audioVars
               PROVE  (status' => status) /\ copy' \in {copy, "stopping", "none"}
    OBVIOUS
  <2>1. CASE CopyTimer
    <3>1. CASE CopyNotWanted
      BY <3>1 DEF CopyNotWanted
    <3>2. ~MasterNotReady /\ \A starts \in BOOLEAN : ~MasterReady(starts)
      BY DEF MasterNotReady, MasterReady, SlaveHere
    <3> QED
      BY <2>1, <3>1, <3>2 DEF CopyTimer
  <2>2. CASE RsyncExits
    BY <2>2 DEF RsyncExits, RsyncCrashes, RsyncEnds, RsyncFails, SetAudioStatus
  <2>3. CASE AudioCommand
    BY <2>3 DEF AudioCommand, StartAudioSlave, StopAudioSlave, StopAudioCopy
  <2>4. CASE Restart
    BY <2>4 DEF Restart, AudioRestart
  <2> QED
    BY <2>1, <2>2, <2>3, <2>4 DEF JobsNext, AudioNext, jobVars
<1> QED
  BY <1>1, JobsTypeCorrect, PTL DEF JobsSpec, IdleStaysIdle

=============================================================================
