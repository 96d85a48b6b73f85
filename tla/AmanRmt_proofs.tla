---------------------------- MODULE AmanRmt_proofs ----------------------------
(***************************************************************************)
(* Proofs about the manager of a remote site (module AmanRmt).             *)
(***************************************************************************)
EXTENDS AmanRmt, TLAPS

-----------------------------------------------------------------------------
(* Types.                                                                    *)

Message == Status \cup Answer

LEMMA ServersAreTwo ==
    /\ \A i \in Server : 1 - i \in Server
    /\ NoServer \notin Server
    /\ GetMasterServerId \in Server \cup {NoServer}
  BY DEF Server, NoServer, GetMasterServerId

LEMMA StatusesTyped ==
    ASSUME SourceTypeOK, NEW i \in Server, NEW r \in Role, NEW message \in Statuses(i, r)
    PROVE  message \in Message
<1>1. PICK known \in {role[1 - i], "Idle"} :
        message = [kind |-> "ST", roles |-> [j \in Server |-> IF j = i THEN r ELSE known]]
  BY DEF Statuses
<1>2. known \in Role
  BY <1>1, ServersAreTwo DEF SourceTypeOK, Role
<1>3. [j \in Server |-> IF j = i THEN r ELSE known] \in [Server -> Role]
  BY <1>2
<1> QED
  BY <1>1, <1>3 DEF Message, Status

\* What a server sends is added at the end of what has not been read.
LEMMA InboxTyped ==
    ASSUME SourceTypeOK, NEW i \in Server, NEW s \in Seq(Message),
           inbox' = [inbox EXCEPT ![i] = s]
    PROVE  inbox' \in [Server -> Seq(Message)]
  BY DEF SourceTypeOK, Message

LEMMA AskTyped == ASSUME SourceTypeOK, NEW i \in Server, Ask(i) PROVE SourceTypeOK'
<1>1. asked' \in [Server -> Nat]
  BY DEF Ask, SourceTypeOK
<1>2. changed' \in BOOLEAN
  BY DEF Ask, SourceTypeOK, Awaited
<1>3. events' \in 0..MaxEvents
  BY EventsAssumption DEF Ask, SourceTypeOK
<1> QED
  BY <1>1, <1>2, <1>3 DEF Ask, SourceTypeOK

LEMMA RoleChangesTyped == ASSUME SourceTypeOK, NEW i \in Server, RoleChanges(i) PROVE SourceTypeOK'
<1>0. PICK r \in Role :
        /\ role' = [role EXCEPT ![i] = r]
        /\ \E message \in Statuses(i, r) :
             inbox' = [inbox EXCEPT ![i] = IF linked[i] THEN Append(@, message) ELSE @]
  BY DEF RoleChanges
<1>1. PICK message \in Statuses(i, r) :
        inbox' = [inbox EXCEPT ![i] = IF linked[i] THEN Append(@, message) ELSE @]
  BY <1>0
<1>2. message \in Message
  BY StatusesTyped
<1>3. Append(inbox[i], message) \in Seq(Message) /\ inbox[i] \in Seq(Message)
  BY <1>2 DEF SourceTypeOK, Message
<1>4. inbox' \in [Server -> Seq(Message)]
  BY <1>1, <1>3, InboxTyped
<1>5. role' \in [Server -> Role]
  BY <1>0 DEF SourceTypeOK
<1>6. events' \in 0..MaxEvents
  BY EventsAssumption DEF RoleChanges, SourceTypeOK
<1> QED
  BY <1>4, <1>5, <1>6 DEF RoleChanges, SourceTypeOK, Message

LEMMA AnswerGSTyped == ASSUME SourceTypeOK, NEW i \in Server, AnswerGS(i) PROVE SourceTypeOK'
<1>1. PICK good \in BOOLEAN, message \in Statuses(i, role[i]) :
        inbox' = [inbox EXCEPT ![i] = @ \o <<[kind |-> "GS", good |-> good], message>>]
  BY DEF AnswerGS
<1>2. role[i] \in Role
  BY DEF SourceTypeOK
<1>3. message \in Message
  BY <1>2, StatusesTyped
<1>4. [kind |-> "GS", good |-> good] \in Message
  BY DEF Message, Answer
<1>5. <<[kind |-> "GS", good |-> good], message>> \in Seq(Message)
  BY <1>3, <1>4
<1>6. inbox[i] \o <<[kind |-> "GS", good |-> good], message>> \in Seq(Message)
  BY <1>5 DEF SourceTypeOK, Message
<1>7. inbox' \in [Server -> Seq(Message)]
  BY <1>1, <1>6, InboxTyped
<1>8. asked' \in [Server -> Nat]
  BY DEF AnswerGS, SourceTypeOK
<1> QED
  BY <1>7, <1>8 DEF AnswerGS, SourceTypeOK, Message

LEMMA MasterMayChangeTyped == ASSUME SourceTypeOK, MasterMayChange PROVE changed' \in BOOLEAN
  BY DEF MasterMayChange, SourceTypeOK, Awaited

LEMMA UnlinkTyped == ASSUME SourceTypeOK, NEW i \in Server, Unlink(i) PROVE SourceTypeOK'
<1>1. <<>> \in Seq(Message)
  OBVIOUS
<1>2. inbox' \in [Server -> Seq(Message)]
  BY <1>1, InboxTyped DEF Unlink
<1>3. asked' \in [Server -> Nat] /\ linked' \in [Server -> BOOLEAN]
  BY DEF Unlink, SourceTypeOK
<1>4. events' \in 0..MaxEvents
  BY EventsAssumption DEF Unlink, SourceTypeOK
<1>5. changed' \in BOOLEAN
  BY MasterMayChangeTyped DEF Unlink
<1> QED
  BY <1>2, <1>3, <1>4, <1>5 DEF Unlink, SourceTypeOK, Message

LEMMA LinkTyped == ASSUME SourceTypeOK, NEW i \in Server, Link(i) PROVE SourceTypeOK'
<1>1. PICK message \in Statuses(i, role[i]) : inbox' = [inbox EXCEPT ![i] = <<message>>]
  BY DEF Link
<1>2. role[i] \in Role
  BY DEF SourceTypeOK
<1>3. <<message>> \in Seq(Message)
  BY <1>2, StatusesTyped
<1>4. inbox' \in [Server -> Seq(Message)]
  BY <1>1, <1>3, InboxTyped
<1>5. linked' \in [Server -> BOOLEAN]
  BY DEF Link, SourceTypeOK
<1>6. changed' \in BOOLEAN
  BY MasterMayChangeTyped DEF Link
<1> QED
  BY <1>4, <1>5, <1>6 DEF Link, SourceTypeOK, Message

\* Taking the first message off leaves a shorter sequence of messages.
LEMMA HeadAndTail ==
    ASSUME NEW s \in Seq(Message), s # <<>>
    PROVE  Head(s) \in Message /\ Tail(s) \in Seq(Message)
  OBVIOUS

LEMMA TakeStatusTyped == ASSUME SourceTypeOK, NEW i \in Server, TakeStatus(i) PROVE SourceTypeOK'
<1>1. inbox[i] \in Seq(Message) /\ inbox[i] # <<>>
  BY DEF TakeStatus, SourceTypeOK, Message
<1>2. Head(inbox[i]) \in Message /\ Tail(inbox[i]) \in Seq(Message)
  BY <1>1, HeadAndTail
<1>3. Head(inbox[i]).roles \in [Server -> Role]
  BY <1>2 DEF TakeStatus, Message, Status, Answer
<1>4. seen' \in [Server -> [Server -> Role]]
  BY <1>3 DEF TakeStatus, SourceTypeOK
<1>5. inbox' \in [Server -> Seq(Message)]
  BY <1>2, InboxTyped DEF TakeStatus
<1>6. changed' \in BOOLEAN
  BY MasterMayChangeTyped DEF TakeStatus
<1> QED
  BY <1>4, <1>5, <1>6 DEF TakeStatus, SourceTypeOK, Message
LEMMA WorldTyped == ASSUME SourceTypeOK, World PROVE SourceTypeOK'
  BY RoleChangesTyped, AnswerGSTyped, UnlinkTyped, LinkTyped DEF World

LEMMA SourcesUnchanged == ASSUME SourceTypeOK, UNCHANGED sourceVars PROVE SourceTypeOK'
  BY DEF SourceTypeOK, sourceVars

LEMMA DbUnchanged == ASSUME DbTypeOK, UNCHANGED dbVars PROVE DbTypeOK'
  BY DEF DbTypeOK, dbVars

LEMMA AudioUnchanged == ASSUME RemoteAudioTypeOK, UNCHANGED audioVars PROVE RemoteAudioTypeOK'
  BY DEF RemoteAudioTypeOK, audioVars

\* A message that is read by the snapshot handler.
LEMMA SnapshotGeneratedTyped ==
    ASSUME SourceTypeOK, DbTypeOK, NEW i \in Server, SnapshotGenerated(i)
    PROVE  SourceTypeOK' /\ DbTypeOK'
<1>1. inbox[i] \in Seq(Message) /\ inbox[i] # <<>>
  BY DEF SnapshotGenerated, SourceTypeOK, Message
<1>2. inbox' \in [Server -> Seq(Message)]
  BY <1>1, HeadAndTail, InboxTyped DEF SnapshotGenerated
<1>3. /\ program' \in {program, "dead", "exited"}
      /\ open' \in BOOLEAN /\ fresh' \in BOOLEAN
      /\ data' \in {data, Of(i), "down"}
      /\ follow' \in {follow, NoServer, GetMasterServerId}
      /\ slaveOn' \in {slaveOn, FALSE} /\ idleOn' \in {idleOn, TRUE}
      /\ swapped' \in {swapped, changed}
  <2>1. CASE active = NoServer
    BY <2>1 DEF SnapshotGenerated, DbTypeOK
  <2>2. CASE UNCHANGED <<program, data, follow, open, slaveOn, idleOn, fresh, swapped>>
    BY <2>2 DEF DbTypeOK
  <2>3. CASE Restore(i)
    BY <2>3 DEF Restore, BreakOff, StopSlave, Stray, ReplicateFrom, DbTypeOK
  <2> QED
    BY <2>1, <2>2, <2>3 DEF SnapshotGenerated
<1>4. SourceTypeOK'
  BY <1>2, <1>3 DEF SnapshotGenerated, SourceTypeOK, Message
<1>5. DbTypeOK'
  <2>1. data' \in {"own", "down", "snapshot of 0", "snapshot of 1"}
    BY <1>3 DEF DbTypeOK, Of
  <2>2. follow' \in Server \cup {NoServer}
    BY <1>3, ServersAreTwo DEF DbTypeOK
  <2>3. slaveOn' \in BOOLEAN /\ idleOn' \in BOOLEAN /\ swapped' \in BOOLEAN
    BY <1>3 DEF DbTypeOK, SourceTypeOK
  <2>4. UNCHANGED <<active, dbLight>>
    BY DEF SnapshotGenerated
  <2> QED
    BY <1>3, <2>1, <2>2, <2>3, <2>4 DEF DbTypeOK
<1> QED
  BY <1>4, <1>5

LEMMA DbNextTyped == ASSUME SourceTypeOK, DbTypeOK, DbNext PROVE SourceTypeOK' /\ DbTypeOK'
<1>1. CASE MakeDbSlave
  <2>1. SourceTypeOK'
    BY <1>1, AskTyped, SourcesUnchanged, ServersAreTwo DEF MakeDbSlave
  <2> QED
    BY <1>1, <2>1, ServersAreTwo DEF MakeDbSlave, DbTypeOK
<1>2. CASE MakeDbIdle
  BY <1>2, SourcesUnchanged DEF MakeDbIdle, StopSlave, DbTypeOK
<1>3. ASSUME NEW i \in Server, StatusChanged(i) PROVE SourceTypeOK' /\ DbTypeOK'
  <2>1. SourceTypeOK'
    BY <1>3, TakeStatusTyped DEF StatusChanged
  <2> QED
    BY <1>3, <2>1 DEF StatusChanged, DbTypeOK
<1>4. ASSUME NEW i \in Server, SnapshotGenerated(i) PROVE SourceTypeOK' /\ DbTypeOK'
  BY <1>4, SnapshotGeneratedTyped
<1>5. CASE PingArrives \/ DbStarts
  BY <1>5, SourcesUnchanged DEF PingArrives, DbStarts, DbTypeOK
<1> QED
  BY <1>1, <1>2, <1>3, <1>4, <1>5 DEF DbNext

LEMMA CheckTyped ==
    ASSUME RmtTypeOK, Check PROVE RmtTypeOK'
<1>1. SourceTypeOK'
  BY SourcesUnchanged DEF RmtTypeOK, Check, CheckDb
<1>2. DbTypeOK'
  BY DEF RmtTypeOK, Check, CheckDb, CheckPing, DbTypeOK
<1>3. RemoteAudioTypeOK'
  BY DEF RmtTypeOK, Check, CheckAudio, RemoteAudioTypeOK
<1> QED
  BY <1>1, <1>2, <1>3 DEF RmtTypeOK

\* Steps of the copy that leave the connections alone, but for the program and the events.
LEMMA SourcesKept ==
    ASSUME SourceTypeOK, UNCHANGED <<role, linked, seen, asked, inbox, changed>>,
           program' \in {program, "dead", "closed"}, events' \in 0..MaxEvents
    PROVE  SourceTypeOK'
  BY DEF SourceTypeOK

LEMMA EventsKept == ASSUME SourceTypeOK, UNCHANGED events PROVE events' \in 0..MaxEvents
  BY DEF SourceTypeOK

LEMMA OverwriteTyped ==
    ASSUME RemoteAudioTypeOK, Overwrite PROVE older' \in Nat /\ lost' \in BOOLEAN
<1>1. CASE Alive
  BY <1>1 DEF RemoteAudioTypeOK, Overwrite
<1>2. CASE ~Alive
  BY <1>2 DEF RemoteAudioTypeOK, Overwrite
<1> QED
  BY <1>1, <1>2

LEMMA AudioNextTyped ==
    ASSUME SourceTypeOK, RemoteAudioTypeOK, AudioNext
    PROVE  SourceTypeOK' /\ RemoteAudioTypeOK'
<1> USE DEF RemoteAudioTypeOK
<1>1. CASE StartAudio
  <2>1. events' \in 0..MaxEvents
    BY <1>1, EventsAssumption DEF StartAudio, SourceTypeOK
  <2> QED
    BY <1>1, <2>1, SourcesKept DEF StartAudio
<1>2. CASE StopAudio
  BY <1>2, SourcesUnchanged DEF StopAudio
<1>3. CASE CopyTimer
  <2>1. CASE AwaitMaster
    BY <2>1, SourcesUnchanged, AudioUnchanged DEF AwaitMaster
  <2>2. CASE Copy
    <3>1. older' \in Nat /\ lost' \in BOOLEAN
      BY <2>2, OverwriteTyped DEF Copy
    <3> QED
      <4>1. late' \in Nat
        <5>1. CASE audioActive
          BY <2>2, <5>1 DEF Copy
        <5>2. CASE ~audioActive
          BY <2>2, <5>2 DEF Copy
        <5> QED
          BY <5>1, <5>2
      <4>2. current' \in {"none", "starting", "running", "ending", "failed"}
        BY <2>2 DEF Copy
      <4>3. UNCHANGED <<sourceVars, audioActive, startOn, stopOn>> /\ timer' = FALSE
        BY <2>2 DEF Copy
      <4> QED
        BY <3>1, <4>1, <4>2, <4>3, SourcesUnchanged
  <2>3. CASE Defer \/ CheckFails
    <3>1. older' \in Nat /\ lost' \in BOOLEAN
      BY <2>3, OverwriteTyped DEF Defer, CheckFails
    <3> QED
      BY <2>3, <3>1, SourcesUnchanged DEF Defer, CheckFails
  <2> QED
    BY <1>3, <2>1, <2>2, <2>3 DEF CopyTimer
<1>4. CASE CopyEnds \/ CopyFails \/ Started
  BY <1>4, SourcesUnchanged DEF CopyEnds, CopyFails, Started, Repeat, Cleared
<1>5. CASE CopyCrashes \/ OlderCrashes
  <2>1. SourceTypeOK'
    BY <1>5, SourcesKept, EventsKept DEF CopyCrashes, OlderCrashes, UseDeleted
  <2>2. older' \in Nat /\ lost' \in BOOLEAN
    <3>1. CASE CopyCrashes
      BY <3>1 DEF CopyCrashes
    <3>2. CASE OlderCrashes
      BY <3>2 DEF OlderCrashes
    <3> QED
      BY <1>5, <3>1, <3>2
  <2>3. UseDeleted
    BY <1>5 DEF CopyCrashes, OlderCrashes
  <2> QED
    BY <2>1, <2>2, <2>3 DEF UseDeleted
<1>6. CASE OlderEnds
  <2>1. SourceTypeOK'
    BY <1>6, SourcesKept, EventsKept DEF OlderEnds
  <2>2. timer' \in BOOLEAN /\ audioActive' \in BOOLEAN
    BY <1>6 DEF OlderEnds, Repeat, Alive
  <2> QED
    BY <1>6, <2>1, <2>2 DEF OlderEnds
<1>7. CASE Close
  <2>1. SourceTypeOK'
    BY <1>7, SourcesKept, EventsKept DEF Close
  <2> QED
    BY <1>7, <2>1 DEF Close, EndCopy
<1> QED
  BY <1>1, <1>2, <1>3, <1>4, <1>5, <1>6, <1>7 DEF AudioNext

LEMMA InitTyped == RmtInit => RmtTypeOK
<1> SUFFICES ASSUME RmtInit PROVE RmtTypeOK
  OBVIOUS
<1>0. <<>> \in Seq(Message)
  OBVIOUS
<1>1. SourceTypeOK
  <2>1. inbox \in [Server -> Seq(Message)]
    BY <1>0 DEF RmtInit, SourceInit
  <2>2. asked \in [Server -> Nat] /\ linked \in [Server -> BOOLEAN] /\ role \in [Server -> Role]
    BY DEF RmtInit, SourceInit, Role
  <2>3. seen \in [Server -> [Server -> Role]]
    BY DEF RmtInit, SourceInit, Role
  <2>4. events \in 0..MaxEvents
    BY EventsAssumption DEF RmtInit, SourceInit
  <2> QED
    BY <2>1, <2>2, <2>3, <2>4 DEF RmtInit, SourceInit, SourceTypeOK, Message
<1>2. DbTypeOK /\ RemoteAudioTypeOK
  BY DEF RmtInit, DbInit, DbTypeOK, RemoteAudioInit, RemoteAudioTypeOK
<1> QED
  BY <1>1, <1>2 DEF RmtTypeOK

LEMMA NextTyped == RmtTypeOK /\ [RmtNext]_rmtVars => RmtTypeOK'
<1> SUFFICES ASSUME RmtTypeOK, [RmtNext]_rmtVars PROVE RmtTypeOK'
  OBVIOUS
<1>1. CASE World /\ UNCHANGED <<dbVars, audioVars>>
  BY <1>1, WorldTyped, DbUnchanged, AudioUnchanged DEF RmtTypeOK
<1>2. CASE DbNext /\ UNCHANGED audioVars
  BY <1>2, DbNextTyped, AudioUnchanged DEF RmtTypeOK
<1>3. CASE AudioNext /\ UNCHANGED dbVars
  BY <1>3, AudioNextTyped, DbUnchanged DEF RmtTypeOK
<1>4. CASE Check
  BY <1>4, CheckTyped
<1>5. CASE UNCHANGED rmtVars
  BY <1>5, SourcesUnchanged, DbUnchanged, AudioUnchanged DEF RmtTypeOK, rmtVars
<1> QED
  BY <1>1, <1>2, <1>3, <1>4, <1>5 DEF RmtNext

\* Every variable keeps its type, for any number of events.
THEOREM RmtTypeCorrect == RmtSpec => []RmtTypeOK
  BY InitTyped, NextTyped, PTL DEF RmtSpec
-----------------------------------------------------------------------------
(* The copy of the audio store.                                              *)

\* While the timer runs or replication is active, no copy was begun on an idle site; so
\* the one that the timer begins there is the first, and it does not start the timer again.
LateInv == late \in {0, 1} /\ (timer \/ audioActive => late = 0)

\* A copy that runs belongs to an active replication, but for the late one and for those
\* that the program has lost.
RunningInv == Copies /\ late = 0 /\ ~lost => audioActive

CopyInv == LateInv /\ (program = "running" => RunningInv) /\ ActiveIsScheduled /\ ClosedCopiesNothing

LEMMA CopyInvInit == RmtInit => CopyInv
  BY DEF RmtInit, SourceInit, RemoteAudioInit, CopyInv, LateInv, RunningInv,
         ActiveIsScheduled, ClosedCopiesNothing, Copies, Alive, NotRun

\* Steps that do not concern the copy, but may end the program.
LEMMA CopyUntouched ==
    ASSUME CopyInv, UNCHANGED audioVars, program = "running", program' \in {"running", "dead", "exited"}
    PROVE  CopyInv'
  BY DEF CopyInv, LateInv, RunningInv, ActiveIsScheduled, ClosedCopiesNothing, audioVars,
         Copies, Alive, NotRun

LEMMA OthersEndIt ==
    ASSUME program = "running", World \/ DbNext \/ Check
    PROVE  program' \in {"running", "dead", "exited"}
<1>1. CASE World
  BY <1>1 DEF World, RoleChanges, AnswerGS, Unlink, Link
<1>2. CASE MakeDbSlave
  BY <1>2 DEF MakeDbSlave, Ask, sourceVars
<1>3. CASE MakeDbIdle \/ PingArrives \/ DbStarts \/ Check
  BY <1>3 DEF MakeDbIdle, PingArrives, DbStarts, Check, CheckDb, sourceVars
<1>4. ASSUME NEW i \in Server, StatusChanged(i) PROVE program' = program
  BY <1>4 DEF StatusChanged, TakeStatus
<1>5. ASSUME NEW i \in Server, SnapshotGenerated(i) PROVE program' \in {"running", "dead", "exited"}
  <2>1. CASE Restore(i)
    BY <2>1 DEF Restore, BreakOff, Stray
  <2> QED
    BY <1>5, <2>1 DEF SnapshotGenerated
<1> QED
  BY <1>1, <1>2, <1>3, <1>4, <1>5 DEF DbNext

LEMMA CopyInvCopy ==
    ASSUME RemoteAudioTypeOK, CopyInv, program = "running", AudioNext
    PROVE  CopyInv'
<1> USE DEF CopyInv, LateInv, RunningInv, ActiveIsScheduled, ClosedCopiesNothing, RemoteAudioTypeOK,
            Copies, Alive, NotRun
<1>1. CASE StartAudio
  BY <1>1 DEF StartAudio
<1>2. CASE StopAudio
  BY <1>2 DEF StopAudio, sourceVars
<1>3. CASE CopyTimer
  <2>1. CASE AwaitMaster
    BY <2>1 DEF AwaitMaster, sourceVars, audioVars
  <2>2. CASE Copy
    <3>1. program' = "running" /\ audioActive' = audioActive /\ ~timer' /\ timer
      BY <2>2 DEF Copy, sourceVars
    <3>2. CASE audioActive
      BY <2>2, <3>1, <3>2 DEF Copy
    <3>3. CASE ~audioActive
      BY <2>2, <3>1, <3>3 DEF Copy
    <3> QED
      BY <3>2, <3>3
  <2>3. CASE Defer
    BY <2>3 DEF Defer, sourceVars
  <2>4. CASE CheckFails
    BY <2>4 DEF CheckFails, sourceVars
  <2> QED
    BY <1>3, <2>1, <2>2, <2>3, <2>4 DEF CopyTimer
<1>4. CASE CopyEnds
  BY <1>4 DEF CopyEnds, Repeat, Cleared, sourceVars
<1>9. CASE Started
  BY <1>9 DEF Started, sourceVars
<1>5. CASE CopyFails
  BY <1>5 DEF CopyFails, Cleared, sourceVars
<1>6. CASE CopyCrashes \/ OlderCrashes
  BY <1>6 DEF CopyCrashes, OlderCrashes, UseDeleted
<1>7. CASE OlderEnds
  <2>1. CASE current = "none"
    BY <1>7, <2>1 DEF OlderEnds
  <2>2. CASE current # "none"
    BY <1>7, <2>2 DEF OlderEnds, Repeat
  <2> QED
    BY <2>1, <2>2
<1>8. CASE Close
  BY <1>8 DEF Close, EndCopy
<1> QED
  BY <1>1, <1>2, <1>3, <1>4, <1>5, <1>6, <1>7, <1>8, <1>9 DEF AudioNext

LEMMA CopyInvHolds == RmtSpec => []CopyInv
<1>1. RmtTypeOK /\ CopyInv /\ [RmtNext]_rmtVars => CopyInv'
  <2> SUFFICES ASSUME RmtTypeOK, CopyInv, [RmtNext]_rmtVars PROVE CopyInv'
    OBVIOUS
  <2>1. CASE program = "running" /\ AudioNext
    BY <2>1, CopyInvCopy DEF RmtTypeOK
  <2>2. CASE program = "running" /\ (World \/ DbNext \/ Check) /\ UNCHANGED audioVars
    BY <2>2, CopyUntouched, OthersEndIt
  <2>3. CASE program = "running" /\ Check
    <3>1. program' = "running"
      BY <2>3 DEF Check, CheckDb, sourceVars
    <3> QED
      BY <2>3, <3>1 DEF Check, CheckAudio, CopyInv, LateInv, RunningInv, ActiveIsScheduled, ClosedCopiesNothing,
                          Copies, Alive, NotRun
  <2>4. CASE UNCHANGED rmtVars
    BY <2>4 DEF rmtVars, sourceVars, audioVars, CopyInv, LateInv, RunningInv, ActiveIsScheduled,
                ClosedCopiesNothing, Copies, Alive, NotRun
  <2> QED
    BY <2>1, <2>2, <2>3, <2>4 DEF RmtNext
<1> QED
  BY <1>1, CopyInvInit, RmtTypeCorrect, PTL DEF RmtSpec

\* Active audio replication has a timer that runs or a copy that runs, unless rsync could
\* not be run.
THEOREM ActiveIsScheduledHolds == RmtSpec => []ActiveIsScheduled
<1>1. CopyInv => ActiveIsScheduled
  BY DEF CopyInv
<1> QED
  BY <1>1, CopyInvHolds, PTL

\* At most one copy is begun on a site whose replication was made idle.
THEOREM IdleCopiesOnceHolds == RmtSpec => []IdleCopiesOnce
<1>1. CopyInv => IdleCopiesOnce
  BY DEF CopyInv, LateInv, IdleCopiesOnce
<1> QED
  BY <1>1, CopyInvHolds, PTL

\* A program that its user closes leaves no rsync behind that goes on copying, but for the
\* late and the lost ones and one that is starting.
THEOREM ClosedCopiesNothingHolds == RmtSpec => []ClosedCopiesNothing
<1>1. CopyInv => ClosedCopiesNothing
  BY DEF CopyInv
<1> QED
  BY <1>1, CopyInvHolds, PTL
-----------------------------------------------------------------------------
(* The database.                                                             *)

HasAnswer(s) == \E m \in 1..Len(s) : s[m].kind = "GS"

\* A snapshot of i is being made, or its name is on the way.
Pending(i) == asked[i] > 0 \/ HasAnswer(inbox[i])

LEMMA AwaitedIsPending == Awaited <=> \E i \in Server : Pending(i)
  BY DEF Awaited, Pending, HasAnswer

LEMMA StatusIsNoAnswer ==
    ASSUME NEW s \in Seq(Message), NEW e, e.kind = "ST", HasAnswer(Append(s, e))
    PROVE  HasAnswer(s)
<1>1. PICK m \in 1..Len(Append(s, e)) : Append(s, e)[m].kind = "GS"
  BY DEF HasAnswer
<1>2. Len(Append(s, e)) = Len(s) + 1 /\ Append(s, e)[Len(s) + 1] = e
  OBVIOUS
<1>3. m # Len(s) + 1
  BY <1>1, <1>2
<1>4. m \in 1..Len(s) /\ Append(s, e)[m] = s[m]
  BY <1>1, <1>2, <1>3
<1> QED
  BY <1>1, <1>4 DEF HasAnswer

LEMMA TailHasNoMore ==
    ASSUME NEW s \in Seq(Message), s # <<>>, HasAnswer(Tail(s))
    PROVE  HasAnswer(s)
<1>1. PICK m \in 1..Len(Tail(s)) : Tail(s)[m].kind = "GS"
  BY DEF HasAnswer
<1>2. Len(Tail(s)) = Len(s) - 1 /\ Len(s) \in Nat
  OBVIOUS
<1>3. Tail(s)[m] = s[m + 1] /\ m + 1 \in 1..Len(s)
  BY <1>1, <1>2
<1> QED
  BY <1>1, <1>3 DEF HasAnswer

LEMMA HeadIsAnswer ==
    ASSUME NEW s \in Seq(Message), s # <<>>, Head(s).kind = "GS" PROVE HasAnswer(s)
<1>1. 1 \in 1..Len(s) /\ s[1] = Head(s)
  OBVIOUS
<1> QED
  BY <1>1 DEF HasAnswer

LEMMA StatusKind ==
    ASSUME NEW i \in Server, NEW r, NEW e \in Statuses(i, r) PROVE e.kind = "ST"
  BY DEF Statuses

\* The inductive invariant: as long as the master has not changed, a snapshot that is
\* awaited is one of the master, and the connection it came from is remembered.
AskedInv == ~changed => \A i \in Server : Pending(i) => GetMasterServerId = i /\ active # NoServer

\* A restore that loses the connection has stopped the slave before.
OpenInv == ~open => follow = NoServer

SourceInv == AskedInv /\ FollowsItsSnapshot /\ DiesOfChangesOnly /\ OpenInv /\ (older > 0 => lost)

LEMMA SourceInvInit == RmtInit => SourceInv
  BY DEF RmtInit, SourceInit, DbInit, RemoteAudioInit, SourceInv, AskedInv, Pending, HasAnswer,
         FollowsItsSnapshot, DiesOfChangesOnly, OpenInv, NoServer

\* A step that makes nothing pending, and that notices when the master changes.
LEMMA AskedInvKept ==
    ASSUME AskedInv, \A j \in Server : Pending(j)' => Pending(j),
           changed => changed', UNCHANGED active,
           Awaited => changed' \/ GetMasterServerId' = GetMasterServerId
    PROVE  AskedInv'
  BY AwaitedIsPending DEF AskedInv

LEMMA SourcesKeepAsked ==
    ASSUME AskedInv, UNCHANGED <<sourceVars, active>> PROVE AskedInv'
  BY DEF AskedInv, Pending, HasAnswer, GetMasterServerId, sourceVars

LEMMA WorldKeepsAsked == ASSUME SourceTypeOK, AskedInv, World, UNCHANGED active PROVE AskedInv'
<1> USE DEF Pending
<1>0. \A j \in Server : inbox[j] \in Seq(Message) /\ asked[j] \in Nat
  BY DEF SourceTypeOK, Message
<1>1. ASSUME NEW i \in Server, RoleChanges(i) PROVE AskedInv'
  <2>1. GetMasterServerId' = GetMasterServerId
    BY <1>1 DEF RoleChanges, GetMasterServerId
  <2>2. PICK r \in Role : \E message \in Statuses(i, r) :
          inbox' = [inbox EXCEPT ![i] = IF linked[i] THEN Append(@, message) ELSE @]
    BY <1>1 DEF RoleChanges
  <2>3. PICK message \in Statuses(i, r) :
          inbox' = [inbox EXCEPT ![i] = IF linked[i] THEN Append(@, message) ELSE @]
    BY <2>2
  <2>4. \A j \in Server : inbox'[j] = inbox[j] \/ inbox'[j] = Append(inbox[j], message)
    BY <2>3 DEF SourceTypeOK
  <2>5. \A j \in Server : Pending(j)' => Pending(j)
    BY <1>0, <1>1, <2>4, StatusKind, StatusIsNoAnswer DEF RoleChanges
  <2> QED
    BY <1>1, <2>1, <2>5, AskedInvKept DEF RoleChanges
<1>2. ASSUME NEW i \in Server, AnswerGS(i) PROVE AskedInv'
  <2>1. GetMasterServerId' = GetMasterServerId
    BY <1>2 DEF AnswerGS, GetMasterServerId
  <2>2. \A j \in Server : j # i => inbox'[j] = inbox[j] /\ asked'[j] = asked[j]
    BY <1>2 DEF AnswerGS, SourceTypeOK
  <2>3. Pending(i)
    BY <1>2 DEF AnswerGS
  <2> QED
    BY <1>2, <2>1, <2>2, <2>3, AskedInvKept DEF AnswerGS
<1>3. ASSUME NEW i \in Server, Unlink(i) PROVE AskedInv'
  <2>1. \A j \in Server : \/ inbox'[j] = inbox[j] /\ asked'[j] = asked[j]
                          \/ inbox'[j] = <<>> /\ asked'[j] = 0
    BY <1>3 DEF Unlink, SourceTypeOK
  <2>2. ~HasAnswer(<<>>)
    BY DEF HasAnswer
  <2>3. \A j \in Server : Pending(j)' => Pending(j)
    BY <2>1, <2>2
  <2> QED
    BY <1>3, <2>3, AskedInvKept DEF Unlink, MasterMayChange
<1>4. ASSUME NEW i \in Server, Link(i) PROVE AskedInv'
  <2>1. PICK message \in Statuses(i, role[i]) : inbox' = [inbox EXCEPT ![i] = <<message>>]
    BY <1>4 DEF Link
  <2>2. \A j \in Server : inbox'[j] = inbox[j] \/ inbox'[j] = <<message>>
    BY <2>1 DEF SourceTypeOK
  <2>3. ~HasAnswer(<<message>>)
    BY StatusKind DEF HasAnswer
  <2>4. \A j \in Server : Pending(j)' => Pending(j)
    BY <1>4, <2>2, <2>3 DEF Link
  <2> QED
    BY <1>4, <2>4, AskedInvKept DEF Link, MasterMayChange
<1> QED
  BY <1>1, <1>2, <1>3, <1>4 DEF World
LEMMA AskKeepsAsked ==
    ASSUME SourceTypeOK, AskedInv, MakeDbSlave PROVE AskedInv'
<1> USE DEF Pending
<1>1. CASE GetMasterServerId = NoServer
  <2>1. \A j \in Server : GetMasterServerId # j
    BY <1>1, ServersAreTwo
  <2>2. UNCHANGED sourceVars
    BY <1>1 DEF MakeDbSlave
  <2> QED
    BY <2>1, <2>2 DEF AskedInv, sourceVars, HasAnswer, GetMasterServerId
<1>2. CASE GetMasterServerId # NoServer
  <2> DEFINE i == GetMasterServerId
  <2>0. i \in Server /\ Ask(i) /\ active' = i
    BY <1>2, ServersAreTwo DEF MakeDbSlave
  <2>1. GetMasterServerId' = i
    BY <2>0 DEF Ask, GetMasterServerId
  <2> HIDE DEF i
  <2>2. \A j \in Server : j # i => asked'[j] = asked[j] /\ inbox'[j] = inbox[j]
    BY <2>0 DEF Ask, SourceTypeOK
  <2>3. ASSUME ~changed', NEW j \in Server, Pending(j)' PROVE j = i
    <3>1. CASE Awaited
      <4>1. ~changed
        BY <2>0, <2>3, <3>1 DEF Ask
      <4> QED
        BY <2>2, <2>3, <4>1 DEF AskedInv, i
    <3>2. CASE ~Awaited
      BY <2>2, <2>3, <3>2, AwaitedIsPending
    <3> QED
      BY <3>1, <3>2
  <2>4. active' # NoServer
    BY <1>2, <2>0 DEF i
  <2> QED
    BY <2>1, <2>3, <2>4 DEF AskedInv
<1> QED
  BY <1>1, <1>2

LEMMA StatusKeepsAsked ==
    ASSUME SourceTypeOK, AskedInv, NEW i \in Server, StatusChanged(i) PROVE AskedInv'
<1>1. \A j \in Server : inbox[j] \in Seq(Message)
  BY DEF SourceTypeOK, Message
<1>2. \A j \in Server : inbox'[j] = inbox[j] \/ (inbox[j] # <<>> /\ inbox'[j] = Tail(inbox[j]))
  BY DEF StatusChanged, TakeStatus, SourceTypeOK
<1>3. \A j \in Server : Pending(j)' => Pending(j)
  BY <1>1, <1>2, TailHasNoMore DEF Pending, StatusChanged, TakeStatus
<1> QED
  BY <1>3, AskedInvKept DEF StatusChanged, TakeStatus, MasterMayChange

LEMMA SnapshotKeepsAsked ==
    ASSUME SourceTypeOK, AskedInv, NEW i \in Server, SnapshotGenerated(i) PROVE AskedInv'
<1>1. \A j \in Server : inbox[j] \in Seq(Message)
  BY DEF SourceTypeOK, Message
<1>2. \A j \in Server : inbox'[j] = inbox[j] \/ (inbox[j] # <<>> /\ inbox'[j] = Tail(inbox[j]))
  BY DEF SnapshotGenerated, SourceTypeOK
<1>3. \A j \in Server : Pending(j)' => Pending(j)
  BY <1>1, <1>2, TailHasNoMore DEF Pending, SnapshotGenerated
<1>4. GetMasterServerId' = GetMasterServerId
  BY DEF SnapshotGenerated, GetMasterServerId
<1> QED
  BY <1>3, <1>4, AskedInvKept DEF SnapshotGenerated

\* The snapshot that arrives is the master's own, unless the master has changed.
LEMMA AnswerIsMasters ==
    ASSUME SourceTypeOK, AskedInv, NEW i \in Server, SnapshotGenerated(i), ~changed
    PROVE  GetMasterServerId = i /\ GetMasterServerId # NoServer /\ active # NoServer
<1>1. inbox[i] \in Seq(Message)
  BY DEF SourceTypeOK, Message
<1>2. Pending(i)
  BY <1>1, HeadIsAnswer DEF SnapshotGenerated, Pending
<1> QED
  BY <1>2, ServersAreTwo DEF AskedInv

LEMMA SnapshotKeepsRest ==
    ASSUME SourceTypeOK, SourceInv, program = "running", NEW i \in Server, SnapshotGenerated(i)
    PROVE  FollowsItsSnapshot' /\ DiesOfChangesOnly' /\ OpenInv'
<1> USE DEF SourceInv, FollowsItsSnapshot, DiesOfChangesOnly, OpenInv
<1>0. changed' = changed
  BY DEF SnapshotGenerated
<1>1. CASE active = NoServer
  <2>1. changed
    BY <1>1, AnswerIsMasters DEF SourceInv
  <2> QED
    BY <1>1, <2>1 DEF SnapshotGenerated, Of
<1>2. CASE UNCHANGED <<program, data, follow, open, slaveOn, idleOn, fresh, swapped>>
  BY <1>2 DEF SnapshotGenerated, Of
<1>3. CASE Restore(i)
  <2>1. CASE BreakOff(i)
    <3>1. follow' = NoServer /\ program' = program
      BY <2>1 DEF BreakOff, StopSlave
    <3> QED
      BY <1>0, <3>1
  <2>4. CASE program' \in {program, "exited"} /\ UNCHANGED <<data, follow, open, swapped>>
    BY <1>0, <2>4 DEF Of
  <2>2. CASE Stray /\ ReplicateFrom = NoServer /\ open' = TRUE
    <3>1. changed
      BY <2>2, AnswerIsMasters DEF ReplicateFrom
    <3> QED
      BY <1>0, <1>3, <2>2, <3>1 DEF Stray
  <2>3. CASE /\ data' = Of(i) /\ follow' = ReplicateFrom /\ open' = TRUE
             /\ swapped' = changed /\ program' = program
    BY <2>3, AnswerIsMasters DEF ReplicateFrom, Of
  <2> QED
    BY <1>3, <2>1, <2>2, <2>3, <2>4 DEF Restore
<1> QED
  BY <1>1, <1>2, <1>3 DEF SnapshotGenerated
LEMMA DbKeepsRest ==
    ASSUME SourceTypeOK, SourceInv, program = "running", DbNext
    PROVE  FollowsItsSnapshot' /\ DiesOfChangesOnly' /\ OpenInv'
<1> USE DEF SourceInv, FollowsItsSnapshot, DiesOfChangesOnly, OpenInv, Of
<1>1. CASE MakeDbSlave
  BY <1>1 DEF MakeDbSlave, Ask, sourceVars
<1>2. CASE MakeDbIdle \/ PingArrives
  BY <1>2 DEF MakeDbIdle, StopSlave, PingArrives, sourceVars
<1>3. CASE DbStarts
  BY <1>3 DEF DbStarts, sourceVars
<1>4. ASSUME NEW i \in Server, StatusChanged(i) PROVE FollowsItsSnapshot' /\ DiesOfChangesOnly' /\ OpenInv'
  BY <1>4 DEF StatusChanged, TakeStatus
<1>5. ASSUME NEW i \in Server, SnapshotGenerated(i) PROVE FollowsItsSnapshot' /\ DiesOfChangesOnly' /\ OpenInv'
  BY <1>5, SnapshotKeepsRest
<1> QED
  BY <1>1, <1>2, <1>3, <1>4, <1>5 DEF DbNext

LEMMA DbKeepsAsked == ASSUME SourceTypeOK, AskedInv, DbNext PROVE AskedInv'
<1>1. CASE MakeDbIdle \/ PingArrives \/ DbStarts
  BY <1>1, SourcesKeepAsked DEF MakeDbIdle, PingArrives, DbStarts
<1> QED
  BY <1>1, AskKeepsAsked, StatusKeepsAsked, SnapshotKeepsAsked DEF DbNext

\* The copy of the audio store leaves the connections alone, and dies of what it lost.
LEMMA AudioKeepsSources ==
    ASSUME RmtTypeOK, SourceInv, program = "running", AudioNext, UNCHANGED dbVars
    PROVE  SourceInv'
<1>1. UNCHANGED <<role, linked, seen, asked, inbox, changed>>
  <2>1. CASE CopyTimer
    BY <2>1 DEF CopyTimer, AwaitMaster, Copy, Defer, CheckFails, sourceVars
  <2>2. CASE StartAudio \/ StopAudio \/ Started \/ Close
    BY <2>2 DEF StartAudio, StopAudio, Started, Close, sourceVars
  <2>3. CASE CopyEnds \/ CopyFails \/ CopyCrashes \/ OlderEnds \/ OlderCrashes
    BY <2>3 DEF CopyEnds, CopyFails, CopyCrashes, OlderEnds, OlderCrashes, UseDeleted, sourceVars
  <2> QED
    BY <2>1, <2>2, <2>3 DEF AudioNext
<1>2. AskedInv'
  BY <1>1 DEF SourceInv, AskedInv, Pending, HasAnswer, GetMasterServerId, dbVars
<1>3. FollowsItsSnapshot' /\ OpenInv'
  BY DEF SourceInv, OpenInv, FollowsItsSnapshot, Of, dbVars
<1>4. (older' > 0 => lost') /\ (program' = "dead" => lost')
  <2> USE DEF SourceInv, RmtTypeOK, RemoteAudioTypeOK
  <2>1. CASE CopyTimer
    <3>1. CASE AwaitMaster
      BY <3>1 DEF AwaitMaster, sourceVars, audioVars
    <3>2. CASE ~AwaitMaster
      <4>1. Overwrite /\ program' = program
        BY <2>1, <3>2 DEF CopyTimer, Copy, Defer, CheckFails, sourceVars
      <4>2. CASE Alive
        BY <4>1, <4>2 DEF Overwrite
      <4>3. CASE ~Alive
        BY <4>1, <4>3 DEF Overwrite
      <4> QED
        BY <4>2, <4>3
    <3> QED
      BY <3>1, <3>2
  <2>2. CASE StartAudio \/ StopAudio \/ Started \/ Close
    BY <2>2 DEF StartAudio, StopAudio, Started, Close, sourceVars
  <2>3. CASE CopyEnds \/ CopyFails
    BY <2>3 DEF CopyEnds, CopyFails, sourceVars
  <2>4. CASE CopyCrashes
    BY <2>4 DEF CopyCrashes
  <2>5. CASE OlderEnds \/ OlderCrashes
    BY <2>5 DEF OlderEnds, OlderCrashes
  <2> QED
    BY <2>1, <2>2, <2>3, <2>4, <2>5 DEF AudioNext
<1> QED
  BY <1>2, <1>3, <1>4 DEF SourceInv, DiesOfChangesOnly

LEMMA SourceInvHolds == RmtSpec => []SourceInv
<1>1. RmtTypeOK /\ SourceInv /\ [RmtNext]_rmtVars => SourceInv'
  <2> SUFFICES ASSUME RmtTypeOK, SourceInv, [RmtNext]_rmtVars PROVE SourceInv'
    OBVIOUS
  <2>1. CASE program = "running" /\ World /\ UNCHANGED <<dbVars, audioVars>>
    <3>1. AskedInv'
      BY <2>1, WorldKeepsAsked DEF RmtTypeOK, SourceInv, dbVars
    <3>2. UNCHANGED program
      BY <2>1 DEF World, RoleChanges, AnswerGS, Unlink, Link
    <3> QED
      BY <2>1, <3>1, <3>2 DEF SourceInv, FollowsItsSnapshot, DiesOfChangesOnly, OpenInv, Of, dbVars, audioVars
  <2>2. CASE program = "running" /\ DbNext /\ UNCHANGED audioVars
    BY <2>2, DbKeepsRest, DbKeepsAsked DEF RmtTypeOK, SourceInv, audioVars
  <2>3. CASE program = "running" /\ AudioNext /\ UNCHANGED dbVars
    BY <2>3, AudioKeepsSources
  <2>4. CASE Check
    <3>1. UNCHANGED <<sourceVars, active, data, follow, open, swapped, older, lost>>
      BY <2>4 DEF Check, CheckDb, CheckAudio
    <3> QED
      BY <3>1, SourcesKeepAsked DEF SourceInv, FollowsItsSnapshot, DiesOfChangesOnly, OpenInv, Of, sourceVars
  <2>5. CASE UNCHANGED rmtVars
    BY <2>5, SourcesKeepAsked DEF SourceInv, FollowsItsSnapshot, DiesOfChangesOnly, OpenInv, Of,
                                  rmtVars, sourceVars, dbVars, audioVars
  <2> QED
    BY <2>1, <2>2, <2>3, <2>4, <2>5 DEF RmtNext
<1> QED
  BY <1>1, SourceInvInit, RmtTypeCorrect, PTL DEF RmtSpec

\* A site replicates from the server whose snapshot it holds, unless the master changed
\* while the snapshot was awaited: for any number of requests, changes and lost connections.
THEOREM FollowsItsSnapshotHolds == RmtSpec => []FollowsItsSnapshot
<1>1. SourceInv => FollowsItsSnapshot
  BY DEF SourceInv
<1> QED
  BY <1>1, SourceInvHolds, PTL

\* The program dies only of a master that changed or of an rsync process that it lost.
THEOREM DiesOfChangesOnlyHolds == RmtSpec => []DiesOfChangesOnly
<1>1. SourceInv => DiesOfChangesOnly
  BY DEF SourceInv
<1> QED
  BY <1>1, SourceInvHolds, PTL
=============================================================================
