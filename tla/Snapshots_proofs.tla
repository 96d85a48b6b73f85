--------------------------- MODULE Snapshots_proofs ---------------------------
(***************************************************************************)
(* Proofs about snapshots and binary logs (module Snapshots).              *)
(***************************************************************************)
EXTENDS Snapshots, TLAPS

LEMMA OtherIsOther == ASSUME NEW n \in Node PROVE Other(n) \in Node /\ Other(n) # n
<1>1. \E m \in Node : m # n
  BY SnapNodeAssumption
<1> QED
  BY <1>1 DEF Other

LEMMA OtherOfOther == ASSUME NEW n \in Node, NEW m \in Node, m # n PROVE Other(n) = m
<1>1. PICK x, y \in Node : x # y /\ Node = {x, y}
  BY SnapNodeAssumption
<1>2. Other(n) \in Node /\ Other(n) # n
  BY OtherIsOther
<1> QED
  BY <1>1, <1>2

-----------------------------------------------------------------------------
(* Types.                                                                    *)

JobSteps == {"generate", "push", "role", "name", "purge", "decide", "delete", "load"}

\* A node that executes a step of a job does not rest.
LEMMA JobIsWorking ==
    ASSUME SnapTypeOK, NEW n \in Node, busy[n].step \in JobSteps PROVE busy[n] \in Working
<1>1. busy[n] # Free
  BY DEF Free, JobSteps
<1> QED
  BY <1>1 DEF SnapTypeOK

\* What a step makes of the job of its node.
LEMMA StepGoesOn ==
    ASSUME SnapTypeOK, NEW n \in Node, NEW s, Step(n, s)
    PROVE  /\ busy'[n] = [busy[n] EXCEPT !.step = s]
           /\ \A k \in Node \ {n} : busy'[k] = busy[k]
  BY DEF Step, SnapTypeOK

LEMMA DoneEnds ==
    ASSUME SnapTypeOK, NEW n \in Node, Done(n)
    PROVE  busy'[n] = Free /\ \A k \in Node \ {n} : busy'[k] = busy[k]
  BY DEF Done, SnapTypeOK

LEMMA StepTyped ==
    ASSUME SnapTypeOK, NEW n \in Node, NEW s \in JobSteps,
           busy[n].step \in JobSteps, Step(n, s)
    PROVE  busy' \in [Node -> Working \cup {Free}]
<1>1. busy[n] \in Working
  BY JobIsWorking
<1>2. [busy[n] EXCEPT !.step = s] \in Working
  BY <1>1 DEF Working, JobSteps
<1>3. busy' = [busy EXCEPT ![n] = [busy[n] EXCEPT !.step = s]]
  BY DEF Step
<1> QED
  BY <1>2, <1>3 DEF SnapTypeOK

LEMMA DoneTyped ==
    ASSUME SnapTypeOK, NEW n \in Node, Done(n) PROVE busy' \in [Node -> Working \cup {Free}]
  BY DEF SnapTypeOK, Done

LEMMA GiveUpTyped ==
    ASSUME SnapTypeOK, NEW n \in Node, busy[n].step \in JobSteps, GiveUp(n)
    PROVE  busy' \in [Node -> Working \cup {Free}]
<1>1. CASE busy[n].job = "AR"
  BY <1>1, StepTyped DEF GiveUp, JobSteps
<1>2. CASE busy[n].job # "AR"
  BY <1>2, DoneTyped DEF GiveUp
<1> QED
  BY <1>1, <1>2

\* A job that begins has no snapshot yet.
LEMMA NewJobTyped ==
    ASSUME SnapTypeOK, NEW n \in Node,
           NEW job \in {"MM", "MS", "GS", "PG", "AR"}, NEW s \in JobSteps, NEW t \in Name,
           busy' = [busy EXCEPT ![n] = [Free EXCEPT !.job = job, !.step = s, !.snap = t]]
    PROVE  busy' \in [Node -> Working \cup {Free}]
<1>1. [Free EXCEPT !.job = job, !.step = s, !.snap = t] \in Working
  BY DEF Free, Working, JobSteps
<1> QED
  BY <1>1 DEF SnapTypeOK

LEMMA StopSlavesTyped ==
    ASSUME SnapTypeOK, NEW n \in Node, StopSlaves(n) \/ UNCHANGED on
    PROVE  on' \in [Node -> BOOLEAN] /\ \A k \in Node : on'[k] => on[k]
<1>1. CASE StopSlaves(n)
  <2>1. PICK running \in {FALSE, on[n]} : on' = [on EXCEPT ![n] = running]
    BY <1>1 DEF StopSlaves
  <2> QED
    BY <2>1 DEF SnapTypeOK
<1> QED
  BY <1>1 DEF SnapTypeOK

LEMMA BeginTyped ==
    ASSUME SnapTypeOK, NEW n \in Node, NEW job \in {"MM", "GS", "AR"}, Begin(n, job)
    PROVE  SnapTypeOK'
<1>1. [Free EXCEPT !.job = job, !.step = "generate"] \in Working
  BY DEF Free, Working, Name
<1>2. busy' \in [Node -> Working \cup {Free}]
  BY <1>1 DEF Begin, SnapTypeOK
<1>3. on' \in [Node -> BOOLEAN]
  BY StopSlavesTyped DEF Begin
<1> QED
  BY <1>2, <1>3 DEF Begin, SnapTypeOK, roleVars

LEMMA GenerateTyped ==
    ASSUME SnapTypeOK, NEW n \in Node, NEW s \in Snapshot, Generate(n, s) PROVE SnapTypeOK'
<1>1. PICK good \in BOOLEAN, kept \in BOOLEAN :
        /\ busy' = [busy EXCEPT ![n].step = "push", ![n].snap = s, ![n].good = good]
        /\ store' = [store EXCEPT ![n] = IF kept THEN @ \cup {s} ELSE @]
        /\ packed' = IF kept THEN packed \cup {s} ELSE packed
  BY DEF Generate
<1>2. busy[n] \in Working
  BY JobIsWorking DEF Generate, JobSteps
<1>3. [busy[n] EXCEPT !.step = "push", !.snap = s, !.good = good] \in Working
  BY <1>2 DEF Working, Name
<1>4. busy' = [busy EXCEPT ![n] = [busy[n] EXCEPT !.step = "push", !.snap = s, !.good = good]]
  BY <1>1 DEF SnapTypeOK
<1>5. busy' \in [Node -> Working \cup {Free}]
  BY <1>3, <1>4 DEF SnapTypeOK
<1>6. store' \in [Node -> SUBSET Snapshot] /\ packed' \subseteq Snapshot
  BY <1>1 DEF SnapTypeOK
<1>7. log' \in [Node -> Nat \ {0}] /\ start' \in [Snapshot -> Nat]
  BY DEF Generate, SnapTypeOK
<1> QED
  BY <1>5, <1>6, <1>7 DEF Generate, SnapTypeOK, roleVars

LEMMA PushTyped == ASSUME SnapTypeOK, NEW n \in Node, Push(n) PROVE SnapTypeOK'
<1>1. busy[n].step \in JobSteps
  BY DEF Push, JobSteps
<1>2. busy' \in [Node -> Working \cup {Free}]
  <2>1. GiveUp(n) \/ \E s \in {"role", "name"} : Step(n, s)
    BY DEF Push
  <2> QED
    BY <1>1, <2>1, StepTyped, GiveUpTyped DEF JobSteps
<1>3. store' \in [Node -> SUBSET Snapshot]
  <2>1. PICK ok \in BOOLEAN :
          store' = [store EXCEPT ![Other(n)] =
                     IF ok /\ busy[n].snap \in store[n] THEN @ \cup {busy[n].snap} ELSE @]
    BY DEF Push
  <2>2. busy[n].snap \in store[n] => busy[n].snap \in Snapshot
    BY DEF SnapTypeOK
  <2> QED
    BY <2>1, <2>2, OtherIsOther DEF SnapTypeOK
<1> QED
  BY <1>2, <1>3 DEF Push, SnapTypeOK, roleVars, dbVars

LEMMA NamingTyped ==
    ASSUME SnapTypeOK, NEW n \in Node, BecomeMaster(n) \/ NameSnapshot(n) PROVE SnapTypeOK'
<1>1. busy[n].step \in JobSteps
  BY DEF BecomeMaster, NameSnapshot, JobSteps
<1>2. CASE BecomeMaster(n)
  <2>1. busy' \in [Node -> Working \cup {Free}]
    BY <1>1, <1>2, StepTyped DEF BecomeMaster, JobSteps
  <2>2. role' \in [Node -> Role]
    BY <1>2 DEF BecomeMaster, SnapTypeOK, Role
  <2> QED
    BY <1>2, <2>1, <2>2 DEF BecomeMaster, SnapTypeOK, dbVars
<1>3. CASE NameSnapshot(n)
  <2>1. busy' \in [Node -> Working \cup {Free}]
    BY <1>1, <1>3, GiveUpTyped DEF NameSnapshot
  <2>2. busy[n].snap \in Name
    BY <1>1, JobIsWorking DEF Working
  <2>3. this' \in [Node -> Name] /\ said' \in [Node -> Name]
    BY <1>3, <2>2 DEF NameSnapshot, SnapTypeOK
  <2> QED
    BY <1>3, <2>1, <2>3 DEF NameSnapshot, SnapTypeOK, dbVars
<1> QED
  BY <1>2, <1>3

\* A purge goes to a number, also when a slave has written one log only.
LEMMA PurgesToNat ==
    ASSUME SnapTypeOK, NEW n \in Node PROVE MasterPurgesTo(n) \in Nat /\ SlavePurgesTo(n) \in Nat
<1>1. log[n] \in Nat \ {0} /\ at[Other(n)] \in Nat
  BY OtherIsOther DEF SnapTypeOK
<1> QED
  BY <1>1 DEF MasterPurgesTo, SlavePurgesTo, Least

LEMMA PurgingTyped ==
    ASSUME SnapTypeOK, NEW n \in Node,
           PurgeSnapshots(n) \/ BeginPurge(n) \/ DecidePurge(n) \/ DeleteLogs(n)
    PROVE  SnapTypeOK'
<1>1. CASE PurgeSnapshots(n)
  <2>1. busy' \in [Node -> Working \cup {Free}]
    BY <1>1, StepTyped DEF PurgeSnapshots, JobSteps
  <2>2. store' \in [Node -> SUBSET Snapshot]
    BY <1>1 DEF PurgeSnapshots, SnapTypeOK
  <2> QED
    BY <1>1, <2>1, <2>2 DEF PurgeSnapshots, SnapTypeOK, roleVars, dbVars
<1>2. CASE BeginPurge(n)
  <2>1. [Free EXCEPT !.job = "PG", !.step = "decide"] \in Working
    BY DEF Free, Working, Name
  <2>2. busy' \in [Node -> Working \cup {Free}]
    BY <1>2, <2>1 DEF BeginPurge, SnapTypeOK
  <2> QED
    BY <1>2, <2>2 DEF BeginPurge, SnapTypeOK, roleVars, dbVars
<1>3. CASE DecidePurge(n)
  <2> DEFINE to == IF role[n] = "Master" THEN MasterPurgesTo(n) ELSE SlavePurgesTo(n)
             job == [busy[n] EXCEPT !.step = "delete", !.purge = to]
  <2>1. to \in Nat
    BY PurgesToNat
  <2>2. busy[n] \in Working
    BY <1>3, JobIsWorking DEF DecidePurge, JobSteps
  <2>3. Done(n) \/ busy' = [busy EXCEPT ![n].step = "delete", ![n].purge = to]
    BY <1>3 DEF DecidePurge
  <2> HIDE DEF to
  <2>4. job \in Working
    BY <2>1, <2>2 DEF Working
  <2>5. Done(n) \/ busy' = [busy EXCEPT ![n] = job]
    BY <2>3 DEF SnapTypeOK
  <2> HIDE DEF job
  <2>6. busy' \in [Node -> Working \cup {Free}]
    BY <2>4, <2>5, DoneTyped DEF SnapTypeOK
  <2> QED
    BY <1>3, <2>6 DEF DecidePurge, SnapTypeOK, roleVars, dbVars
<1>4. CASE DeleteLogs(n)
  <2>1. busy' \in [Node -> Working \cup {Free}]
    BY <1>4, DoneTyped DEF DeleteLogs
  <2>2. first' \in [Node -> Nat \ {0}] /\ late' \in [Node -> BOOLEAN]
    <3> DEFINE to == busy[n].purge
    <3>1. CASE to \in first[n]..log[n]
      <4>1. busy[n] \in Working
        BY <1>4, JobIsWorking DEF DeleteLogs, JobSteps
      <4>2. to \in Nat \ {0}
        BY <3>1, <4>1 DEF SnapTypeOK, Working
      <4>3. first' = [first EXCEPT ![n] = to] /\ late' = [late EXCEPT ![Other(n)] = FALSE]
        BY <1>4, <3>1 DEF DeleteLogs, SnapTypeOK
      <4> QED
        BY <4>2, <4>3 DEF SnapTypeOK
    <3>2. CASE to \notin first[n]..log[n]
      BY <1>4, <3>2 DEF DeleteLogs, SnapTypeOK
    <3> QED
      BY <3>1, <3>2
  <2> QED
    BY <1>4, <2>1, <2>2 DEF DeleteLogs, SnapTypeOK, roleVars
<1> QED
  BY <1>1, <1>2, <1>3, <1>4

\* What is being loaded is an archive, and the slave threads are stopped for it.
LoadInv == \A n \in Node : busy[n].step = "load" => busy[n].snap \in Snapshot /\ ~on[n]

\* The parts of a restore.
LEMMA LoadingTyped ==
    ASSUME SnapTypeOK, NEW n \in Node, busy[n].step = "load"
    PROVE  /\ ResetLogs(n) => log' \in [Node -> Nat \ {0}] /\ first' \in [Node -> Nat \ {0}]
           /\ SetPosition(n) => at' \in [Node -> Nat]
           /\ StartSlave(n) => on' \in [Node -> BOOLEAN] /\ late' \in [Node -> BOOLEAN]
           /\ BrokenOff(n) => /\ log' \in [Node -> Nat \ {0}] /\ first' \in [Node -> Nat \ {0}]
                              /\ at' \in [Node -> Nat] /\ on' = on
<1>1. ResetLogs(n) => log' \in [Node -> Nat \ {0}] /\ first' \in [Node -> Nat \ {0}]
  BY DEF ResetLogs, SnapTypeOK
<1>2. SetPosition(n) => at' \in [Node -> Nat]
  BY DEF SetPosition, SnapTypeOK
<1>3. StartSlave(n) => on' \in [Node -> BOOLEAN] /\ late' \in [Node -> BOOLEAN]
  BY DEF StartSlave, SnapTypeOK
<1> QED
  BY <1>1, <1>2, <1>3 DEF BrokenOff, SnapTypeOK

LEMMA RestoringTyped ==
    ASSUME SnapTypeOK, LoadInv, NEW n \in Node,
           BeginMakeSlave(n) \/ Restore(n) \/ RestoreFails(n) \/ MakeIdle(n)
    PROVE  SnapTypeOK'
<1>1. CASE BeginMakeSlave(n)
  <2>1. busy' \in [Node -> Working \cup {Free}]
    BY <1>1, NewJobTyped DEF BeginMakeSlave, SnapTypeOK, JobSteps
  <2>2. on' \in [Node -> BOOLEAN] /\ at' \in [Node -> Nat]
    BY <1>1 DEF BeginMakeSlave, SnapTypeOK
  <2> QED
    BY <1>1, <2>1, <2>2 DEF BeginMakeSlave, SnapTypeOK, roleVars
<1>2. CASE Restore(n)
  <2>1. busy' \in [Node -> Working \cup {Free}]
    BY <1>2, DoneTyped DEF Restore
  <2>2. role' \in [Node -> Role]
    BY <1>2 DEF Restore, SnapTypeOK, Role
  <2> QED
    BY <1>2, <2>1, <2>2, LoadingTyped DEF Restore, SnapTypeOK
<1>3. CASE RestoreFails(n)
  BY <1>3, DoneTyped, LoadingTyped DEF RestoreFails, SnapTypeOK, roleVars
<1>4. CASE MakeIdle(n)
  <2>1. role' \in [Node -> Role]
    BY <1>4 DEF MakeIdle, SnapTypeOK, Role
  <2> QED
    BY <1>4, <2>1, StopSlavesTyped DEF MakeIdle, SnapTypeOK
<1> QED
  BY <1>1, <1>2, <1>3, <1>4

LEMMA OutsideTyped ==
    ASSUME SnapTypeOK, NEW n \in Node, Hear(n) \/ Replicate(n) \/ Crash(n) PROVE SnapTypeOK'
<1>1. CASE Hear(n)
  <2> DEFINE now == [role |-> role[Other(n)], snap |-> said[Other(n)]]
  <2>1. now \in [role : Role, snap : Name]
    BY OtherIsOther DEF SnapTypeOK
  <2>2. heard' = [heard EXCEPT ![n] = now]
    BY <1>1 DEF Hear
  <2>3. that' \in [Node -> Name]
    BY <1>1, <2>1 DEF Hear, SnapTypeOK
  <2>4. role' \in [Node -> Role]
    BY <1>1 DEF Hear, SnapTypeOK, Role
  <2> HIDE DEF now
  <2>5. heard' \in [Node -> [role : Role, snap : Name]]
    BY <2>1, <2>2 DEF SnapTypeOK
  <2> QED
    BY <1>1, <2>3, <2>4, <2>5 DEF Hear, SnapTypeOK, dbVars
<1>2. CASE Replicate(n)
  <2>1. at' \in [Node -> Nat]
    BY <1>2 DEF Replicate, SnapTypeOK
  <2> QED
    BY <1>2, <2>1 DEF Replicate, SnapTypeOK, roleVars
<1>3. CASE Crash(n)
  <2>1. busy' \in [Node -> Working \cup {Free}]
    BY <1>3, DoneTyped DEF Crash
  <2>2. crashes' \in 0..MaxCrashes
    BY <1>3, SnapBoundAssumption DEF Crash, SnapTypeOK
  <2>3. said' \in [Node -> Name] /\ heard' \in [Node -> [role : Role, snap : Name]]
    BY <1>3 DEF Crash, SnapTypeOK, Role, Name
  <2>4. CASE busy[n].step # "load" /\ UNCHANGED dbVars /\ late' = [late EXCEPT ![Other(n)] = FALSE]
    BY <1>3, <2>1, <2>2, <2>3, <2>4 DEF Crash, SnapTypeOK, dbVars
  <2>5. CASE busy[n].step = "load" /\ BrokenOff(n) /\ UNCHANGED late
    BY <1>3, <2>1, <2>2, <2>3, <2>5, LoadingTyped DEF Crash, SnapTypeOK
  <2>6. CASE busy[n].step = "load" /\ ResetLogs(n) /\ SetPosition(n) /\ StartSlave(n)
    BY <1>3, <2>1, <2>2, <2>3, <2>6, LoadingTyped DEF Crash, SnapTypeOK
  <2> QED
    BY <1>3, <2>4, <2>5, <2>6 DEF Crash
<1> QED
  BY <1>1, <1>2, <1>3

\* One step of node n.
NodeStep(n) ==
    \/ \E job \in {"MM", "GS", "AR"} : Begin(n, job)
    \/ \E s \in Snapshot : Generate(n, s)
    \/ GenerateFails(n)
    \/ Push(n)
    \/ BecomeMaster(n)
    \/ NameSnapshot(n)
    \/ PurgeSnapshots(n)
    \/ BeginPurge(n)
    \/ DecidePurge(n)
    \/ DeleteLogs(n)
    \/ BeginMakeSlave(n)
    \/ Restore(n)
    \/ RestoreFails(n)
    \/ MakeIdle(n)
    \/ Hear(n)
    \/ Replicate(n)
    \/ Crash(n)

LEMMA NextIsNodeStep == SnapNext <=> \E n \in Node : NodeStep(n)
  BY DEF SnapNext, NodeStep

LEMMA NodeStepTyped ==
    ASSUME SnapTypeOK, LoadInv, NEW n \in Node, NodeStep(n) PROVE SnapTypeOK'
<1>1. CASE GenerateFails(n)
  <2>1. busy' \in [Node -> Working \cup {Free}]
    BY <1>1, GiveUpTyped DEF GenerateFails, JobSteps
  <2> QED
    BY <1>1, <2>1 DEF GenerateFails, SnapTypeOK, roleVars, dbVars
<1> QED
  BY <1>1, BeginTyped, GenerateTyped, PushTyped, NamingTyped, PurgingTyped, RestoringTyped,
     OutsideTyped DEF NodeStep

\* The slave threads are started at the end of a job only.
LEMMA NodeStepStarts ==
    ASSUME SnapTypeOK, NEW n \in Node, NodeStep(n), NEW k \in Node, on'[k]
    PROVE  on[k] \/ (k = n /\ busy[n].step = "load" /\ Done(n))
<1>1. CASE Restore(n)
  BY <1>1 DEF Restore, StartSlave, SnapTypeOK
<1>2. CASE Crash(n)
  BY <1>2 DEF Crash, BrokenOff, StartSlave, SnapTypeOK, dbVars
<1>3. CASE MakeIdle(n) \/ \E job \in {"MM", "GS", "AR"} : Begin(n, job)
  BY <1>3, StopSlavesTyped DEF MakeIdle, Begin
<1>4. CASE BeginMakeSlave(n)
  BY <1>4 DEF BeginMakeSlave, SnapTypeOK
<1>5. \/ Restore(n) \/ Crash(n) \/ MakeIdle(n) \/ BeginMakeSlave(n) \/ UNCHANGED on
      \/ \E job \in {"MM", "GS", "AR"} : Begin(n, job)
  BY DEF NodeStep, Generate, GenerateFails, Push, BecomeMaster, NameSnapshot, PurgeSnapshots,
     BeginPurge, DecidePurge, DeleteLogs, RestoreFails, BrokenOff, Hear, Replicate, dbVars
<1> QED
  BY <1>1, <1>2, <1>3, <1>4, <1>5

\* Only Make Slave begins to load.
LEMMA NodeStepLoads ==
    ASSUME SnapTypeOK, LoadInv, NEW n \in Node, NodeStep(n) PROVE LoadInv'
<1> DEFINE SnapsOK == \A k \in Node : busy'[k].step = "load" =>
             \/ busy'[k] = busy[k]
             \/ busy'[k].snap \in Snapshot /\ ~on'[k]
<1>0. SnapsOK => LoadInv'
  <2> SUFFICES ASSUME SnapsOK, NEW k \in Node, busy'[k].step = "load"
               PROVE  busy'[k].snap \in Snapshot /\ ~on'[k]
    BY DEF LoadInv
  <2>1. CASE busy'[k] = busy[k]
    <3>1. ~(k = n /\ Done(n))
      BY <2>1, DoneEnds DEF Free
    <3> QED
      BY <2>1, <3>1, NodeStepStarts DEF LoadInv
  <2> QED
    BY <2>1
<1> HIDE DEF SnapsOK
<1>1. ASSUME Done(n) \/ (\E s \in JobSteps \ {"load"} : Step(n, s)) \/ GiveUp(n) \/ UNCHANGED busy
      PROVE  SnapsOK
  <2>1. CASE Done(n)
    BY <2>1 DEF Done, Free, SnapsOK, SnapTypeOK
  <2>2. ASSUME NEW s \in JobSteps \ {"load"}, Step(n, s) PROVE SnapsOK
    BY <2>2 DEF Step, SnapsOK, SnapTypeOK
  <2>3. CASE GiveUp(n)
    <3>1. Done(n) \/ Step(n, "purge")
      BY <2>3 DEF GiveUp
    <3> QED
      BY <2>1, <2>2, <3>1 DEF JobSteps
  <2>4. CASE UNCHANGED busy
    BY <2>4 DEF SnapsOK
  <2> QED
    BY <1>1, <2>1, <2>2, <2>3, <2>4
<1>2. CASE GenerateFails(n) \/ Push(n) \/ BecomeMaster(n) \/ NameSnapshot(n) \/ PurgeSnapshots(n)
  BY <1>0, <1>1, <1>2 DEF GenerateFails, Push, BecomeMaster, NameSnapshot, PurgeSnapshots, JobSteps
<1>3. CASE DeleteLogs(n) \/ Restore(n) \/ RestoreFails(n) \/ MakeIdle(n) \/ Hear(n) \/ Replicate(n) \/ Crash(n)
  BY <1>0, <1>1, <1>3 DEF DeleteLogs, Restore, RestoreFails, MakeIdle, Hear, Replicate, Crash
<1>4. ASSUME NEW job \in {"MM", "GS", "AR"}, Begin(n, job) PROVE SnapsOK
  BY <1>4 DEF Begin, SnapsOK, SnapTypeOK, Free
<1>5. ASSUME NEW s \in Snapshot, Generate(n, s) PROVE SnapsOK
  <2>1. PICK good : busy' = [busy EXCEPT ![n].step = "push", ![n].snap = s, ![n].good = good]
    BY <1>5 DEF Generate
  <2>2. busy[n] \in Working
    BY <1>5, JobIsWorking DEF Generate, JobSteps
  <2> QED
    BY <2>1, <2>2 DEF SnapsOK, SnapTypeOK, Working
<1>6. CASE BeginPurge(n)
  BY <1>0, <1>6 DEF BeginPurge, SnapsOK, SnapTypeOK, Free
<1>7. CASE DecidePurge(n)
  <2>1. CASE Done(n)
    BY <1>0, <1>1, <2>1
  <2>2. CASE ~Done(n)
    <3>1. \E to : busy' = [busy EXCEPT ![n].step = "delete", ![n].purge = to]
      BY <1>7, <2>2 DEF DecidePurge
    <3>2. busy[n] \in Working
      BY <1>7, JobIsWorking DEF DecidePurge, JobSteps
    <3> QED
      BY <1>0, <3>1, <3>2 DEF SnapsOK, SnapTypeOK, Working
  <2> QED
    BY <2>1, <2>2
<1>8. CASE BeginMakeSlave(n)
  <2>1. that[n] \in Snapshot /\ ~on'[n]
    BY <1>8 DEF BeginMakeSlave, SnapTypeOK
  <2>2. busy' = [busy EXCEPT ![n] = [Free EXCEPT !.job = "MS", !.step = "load", !.snap = that[n]]]
    BY <1>8 DEF BeginMakeSlave
  <2> QED
    BY <1>0, <2>1, <2>2 DEF SnapsOK, SnapTypeOK, Free
<1> QED
  BY <1>0, <1>2, <1>3, <1>4, <1>5, <1>6, <1>7, <1>8 DEF NodeStep

LEMMA InitTyped == SnapInit => SnapTypeOK /\ LoadInv
  BY SnapBoundAssumption DEF SnapInit, SnapTypeOK, LoadInv, Free, Role, Name

LEMMA StutterTyped == SnapTypeOK /\ LoadInv /\ UNCHANGED snapVars => SnapTypeOK' /\ LoadInv'
  BY DEF SnapTypeOK, LoadInv, snapVars, roleVars, dbVars

LEMMA TypesHold == SnapSpec => [](SnapTypeOK /\ LoadInv)
<1>1. SnapTypeOK /\ LoadInv /\ [SnapNext]_snapVars => SnapTypeOK' /\ LoadInv'
  BY NextIsNodeStep, NodeStepTyped, NodeStepLoads, StutterTyped
<1> QED
  BY <1>1, InitTyped, PTL DEF SnapSpec

\* Every variable keeps its type, for any number of names, logs and crashes: the number
\* that a purge goes to is a natural number, since the first log has number 1.
THEOREM SnapTypeCorrect == SnapSpec => []SnapTypeOK
  BY TypesHold, PTL
-----------------------------------------------------------------------------
(* The archive of a node's own snapshot, and the logs it starts from.        *)

\* A snapshot that has been made well points to the log that is written; its archive, if
\* it was written, is in the store until it is named, and the node's own from then on.
JobKept(n) == LET job == busy[n] IN
    /\ job.step \in {"role", "name"} => job.good
    /\ job.step \in {"generate", "load"} => ~job.good
    /\ job.good => job.snap \in Snapshot /\ start[job.snap] = log[n]
    /\ job.good /\ job.step \in {"push", "role", "name"} /\ job.snap \in packed
       => job.snap \in store[n]
    /\ job.good /\ job.step \in {"purge", "decide", "delete"} => this[n] = job.snap

JobInv == \A n \in Node : JobKept(n)

\* A name that is in the state file was given to a snapshot, and is not given again.
NamedInv ==
    /\ \A s \in packed : start[s] # 0
    /\ \A n \in Node :
         /\ first[n] <= log[n]
         /\ this[n] # NoSnapshot => this[n] \in Snapshot /\ start[this[n]] # 0

KeptInv == SnapTypeOK /\ LoadInv /\ JobInv /\ NamedInv /\ OwnSnapshotKept

LEMMA KeptInvInit == SnapInit => JobInv /\ NamedInv /\ OwnSnapshotKept
  BY SnapNameAssumption DEF SnapInit, JobInv, JobKept, NamedInv, OwnSnapshotKept, Free

\* A step that leaves logs, names and archives alone and goes on with the job, or ends it.
LEMMA QuietStep ==
    ASSUME KeptInv, NEW n \in Node,
           UNCHANGED <<this, start, log, first, packed>>,
           \A k \in Node : store[k] \subseteq store'[k],
           \A k \in Node \ {n} : busy'[k] = busy[k],
           \/ busy'[n] = busy[n]
           \/ busy'[n] = Free
           \/ /\ busy'[n].good => busy[n].good
              /\ busy'[n].snap = busy[n].snap
              /\ \/ /\ busy[n].step = "push" /\ busy[n].good /\ busy'[n].good
                    /\ busy'[n].step \in {"role", "name"}
                 \/ busy[n].step = "role" /\ busy'[n].good /\ busy'[n].step = "name"
                 \/ busy[n].step \in {"generate", "push"} /\ ~busy'[n].good /\ busy'[n].step = "purge"
                 \/ busy[n].step \in {"purge", "decide"} /\ busy'[n].step \in {"decide", "delete"}
           \/ ~busy'[n].good /\ busy'[n].step \in {"generate", "load", "decide"}
    PROVE  JobInv' /\ NamedInv' /\ OwnSnapshotKept'
<1> USE DEF KeptInv
<1>1. JobInv'
  <2> SUFFICES ASSUME NEW k \in Node
               PROVE  JobKept(k)'
    BY DEF JobInv
  <2> USE DEF JobKept
  <2>1. CASE busy'[k] = busy[k]
    BY <2>1 DEF JobInv
  <2>2. CASE busy'[k] = Free
    BY <2>2 DEF Free
  <2>3. CASE k = n /\ busy'[n] # busy[n] /\ busy'[n] # Free
    BY <2>3 DEF JobInv
  <2> QED
    BY <2>1, <2>2, <2>3
<1>2. NamedInv'
  BY DEF NamedInv
<1>3. OwnSnapshotKept'
  BY DEF OwnSnapshotKept
<1> QED
  BY <1>1, <1>2, <1>3

LEMMA JobFields ==
    ASSUME SnapTypeOK, NEW n \in Node, busy[n].step \in JobSteps, NEW s \in JobSteps,
           busy'[n] = [busy[n] EXCEPT !.step = s]
    PROVE  busy'[n].step = s /\ busy'[n].good = busy[n].good /\ busy'[n].snap = busy[n].snap
<1>1. busy[n] \in Working
  BY JobIsWorking
<1> QED
  BY <1>1 DEF Working

\* The quiet steps, one by one.
LEMMA BeginQuiet ==
    ASSUME KeptInv, NEW n \in Node, BeginPurge(n) \/ BeginMakeSlave(n)
                                    \/ \E job \in {"MM", "GS", "AR"} : Begin(n, job)
    PROVE  JobInv' /\ NamedInv' /\ OwnSnapshotKept'
<1>1. /\ ~busy'[n].good /\ busy'[n].step \in {"generate", "load", "decide"}
      /\ \A k \in Node \ {n} : busy'[k] = busy[k]
  <2>1. CASE BeginPurge(n)
    BY <2>1 DEF BeginPurge, Free, KeptInv, SnapTypeOK
  <2>2. CASE BeginMakeSlave(n)
    BY <2>2 DEF BeginMakeSlave, Free, KeptInv, SnapTypeOK
  <2>3. ASSUME NEW job \in {"MM", "GS", "AR"}, Begin(n, job)
        PROVE  /\ ~busy'[n].good /\ busy'[n].step = "generate"
               /\ \A k \in Node \ {n} : busy'[k] = busy[k]
    BY <2>3 DEF Begin, Free, KeptInv, SnapTypeOK
  <2> QED
    BY <2>1, <2>2, <2>3
<1>2. UNCHANGED <<this, start, log, first, packed, store>>
  BY DEF BeginPurge, BeginMakeSlave, Begin, roleVars, dbVars
<1> QED
  BY <1>1, <1>2, QuietStep

LEMMA GenerateFailsQuiet ==
    ASSUME KeptInv, NEW n \in Node, GenerateFails(n)
    PROVE  JobInv' /\ NamedInv' /\ OwnSnapshotKept'
<1> USE DEF KeptInv
<1>1. ~busy[n].good /\ busy[n].step \in JobSteps
  BY DEF GenerateFails, JobInv, JobKept, JobSteps
<1>2. UNCHANGED <<this, start, log, first, packed, store>>
  BY DEF GenerateFails, roleVars, dbVars
<1>3. CASE Done(n)
  BY <1>2, <1>3, DoneEnds, QuietStep
<1>4. CASE Step(n, "purge")
  BY <1>1, <1>2, <1>4, StepGoesOn, JobFields, QuietStep DEF GenerateFails, JobSteps
<1> QED
  BY <1>3, <1>4 DEF GenerateFails, GiveUp

LEMMA PushQuiet ==
    ASSUME KeptInv, NEW n \in Node, Push(n) PROVE JobInv' /\ NamedInv' /\ OwnSnapshotKept'
<1> USE DEF KeptInv
<1>1. busy[n].step \in JobSteps
  BY DEF Push, JobSteps
<1>2. UNCHANGED <<this, start, log, first, packed>>
  BY DEF Push, roleVars, dbVars
<1>3. \A k \in Node : store[k] \subseteq store'[k]
  BY DEF Push, SnapTypeOK
<1>4. CASE Done(n)
  BY <1>2, <1>3, <1>4, DoneEnds, QuietStep
<1>5. CASE busy[n].good /\ \E s \in {"role", "name"} : Step(n, s)
  <2>1. PICK s \in {"role", "name"} : Step(n, s)
    BY <1>5
  <2> QED
    <3>0. s \in JobSteps
      BY DEF JobSteps
    <3>1. busy'[n].step = s /\ busy'[n].good /\ busy'[n].snap = busy[n].snap
      <4>1. SnapTypeOK
        OBVIOUS
      <4>2. busy'[n] = [busy[n] EXCEPT !.step = s]
        BY <2>1, <4>1, StepGoesOn
      <4>3. busy'[n].step = s /\ busy'[n].good = busy[n].good /\ busy'[n].snap = busy[n].snap
        BY <1>1, <3>0, <4>1, <4>2, JobFields
      <4> QED
        BY <1>5, <4>3
    <3>2. \A k \in Node \ {n} : busy'[k] = busy[k]
      BY <2>1, StepGoesOn
    <3> QED
      BY <1>2, <1>3, <1>5, <3>1, <3>2, QuietStep DEF Push
<1>6. CASE ~(busy[n].good /\ busy[n].job # "GS") /\ busy[n].job = "AR" /\ Step(n, "purge")
  <2>1. ~busy[n].good
    BY <1>6
  <2> QED
    BY <1>1, <1>2, <1>3, <1>6, <2>1, StepGoesOn, JobFields, QuietStep DEF Push, JobSteps
<1> QED
  BY <1>4, <1>5, <1>6 DEF Push, GiveUp

LEMMA BecomeMasterQuiet ==
    ASSUME KeptInv, NEW n \in Node, BecomeMaster(n) PROVE JobInv' /\ NamedInv' /\ OwnSnapshotKept'
<1> USE DEF KeptInv
<1>1. busy[n].step \in JobSteps /\ busy[n].good
  BY DEF BecomeMaster, JobInv, JobKept, JobSteps
<1>2. UNCHANGED <<this, start, log, first, store, packed>>
  BY DEF BecomeMaster, dbVars
<1> QED
  BY <1>1, <1>2, StepGoesOn, JobFields, QuietStep DEF BecomeMaster, JobSteps

LEMMA DecidePurgeQuiet ==
    ASSUME KeptInv, NEW n \in Node, DecidePurge(n) PROVE JobInv' /\ NamedInv' /\ OwnSnapshotKept'
<1> USE DEF KeptInv
<1>1. UNCHANGED <<this, start, log, first, store, packed>>
  BY DEF DecidePurge, roleVars, dbVars
<1>2. CASE Done(n)
  BY <1>1, <1>2, DoneEnds, QuietStep
<1>3. CASE ~Done(n)
  <2>1. PICK to : busy' = [busy EXCEPT ![n].step = "delete", ![n].purge = to]
    BY <1>3 DEF DecidePurge
  <2>2. busy[n] \in Working
    BY JobIsWorking DEF DecidePurge, JobSteps
  <2>3. busy'[n].step = "delete" /\ busy'[n].good = busy[n].good /\ busy'[n].snap = busy[n].snap
    BY <2>1, <2>2 DEF SnapTypeOK, Working
  <2>4. \A k \in Node \ {n} : busy'[k] = busy[k]
    BY <2>1 DEF SnapTypeOK
  <2> QED
    BY <1>1, <2>3, <2>4, QuietStep DEF DecidePurge
<1> QED
  BY <1>2, <1>3

LEMMA OutsideQuiet ==
    ASSUME KeptInv, NEW n \in Node,
           MakeIdle(n) \/ Hear(n) \/ Replicate(n) \/ (Crash(n) /\ busy[n].step # "load")
    PROVE  JobInv' /\ NamedInv' /\ OwnSnapshotKept'
<1> USE DEF KeptInv
<1>1. UNCHANGED <<this, start, log, first, store, packed>>
  BY DEF MakeIdle, Hear, Replicate, Crash, roleVars, dbVars
<1>2. Done(n) \/ UNCHANGED busy
  BY DEF MakeIdle, Hear, Replicate, Crash
<1>3. CASE Done(n)
  BY <1>1, <1>3, DoneEnds, QuietStep
<1>4. CASE UNCHANGED busy
  BY <1>1, <1>4, QuietStep
<1> QED
  BY <1>2, <1>3, <1>4
-----------------------------------------------------------------------------
(* The steps that change logs, names or archives.                            *)

\* A new log is begun by the node whose job it is, which has no good snapshot yet; the
\* name was not in use.
LEMMA GenerateKeeps ==
    ASSUME KeptInv, NEW n \in Node, NEW s \in Snapshot, Generate(n, s)
    PROVE  JobInv' /\ NamedInv' /\ OwnSnapshotKept'
<1> USE DEF KeptInv
<1>1. PICK good \in BOOLEAN, kept \in BOOLEAN :
        /\ busy' = [busy EXCEPT ![n].step = "push", ![n].snap = s, ![n].good = good]
        /\ store' = [store EXCEPT ![n] = IF kept THEN @ \cup {s} ELSE @]
        /\ packed' = IF kept THEN packed \cup {s} ELSE packed
  BY DEF Generate
<1>2. busy[n] \in Working
  BY JobIsWorking DEF Generate, JobSteps
<1>3. /\ busy'[n].step = "push" /\ busy'[n].snap = s /\ busy'[n].good = good
      /\ \A k \in Node \ {n} : busy'[k] = busy[k]
  BY <1>1, <1>2 DEF SnapTypeOK, Working
<1>4. /\ \A k \in Node : store[k] \subseteq store'[k]
      /\ packed' \subseteq packed \cup {s}
      /\ s \in packed' => s \in store'[n]
  <2>1. s \notin packed
    BY DEF Generate, NamedInv
  <2> QED
    BY <1>1, <2>1 DEF SnapTypeOK
<1>5. /\ log'[n] = log[n] + 1 /\ start'[s] = log[n] + 1 /\ start[s] = 0
      /\ \A k \in Node \ {n} : log'[k] = log[k]
      /\ \A t \in Snapshot \ {s} : start'[t] = start[t]
      /\ UNCHANGED <<this, first>>
  BY DEF Generate, SnapTypeOK, roleVars
<1>6. \A k \in Node : log[k] \in Nat \ {0} /\ first[k] \in Nat \ {0}
  BY DEF SnapTypeOK
<1>7. JobInv'
  <2> SUFFICES ASSUME NEW k \in Node
               PROVE  JobKept(k)'
    BY DEF JobInv
  <2> USE DEF JobKept
  <2>1. CASE k = n
    BY <1>3, <1>4, <1>5, <2>1
  <2>2. CASE k # n
    <3>1. busy[k].good => busy[k].snap # s
      BY <1>5, <1>6 DEF JobInv
    <3> QED
      BY <1>3, <1>4, <1>5, <2>2, <3>1 DEF JobInv
  <2> QED
    BY <2>1, <2>2
<1>8. NamedInv'
  <2>0. \A t \in packed' : start'[t] # 0
    BY <1>4, <1>5, <1>6 DEF NamedInv, SnapTypeOK
  <2> SUFFICES ASSUME NEW k \in Node
               PROVE  /\ first'[k] <= log'[k]
                      /\ this'[k] # NoSnapshot => this'[k] \in Snapshot /\ start'[this'[k]] # 0
    BY <2>0 DEF NamedInv
  <2>1. this[k] # s
    BY <1>5, SnapNameAssumption DEF NamedInv
  <2>2. first[k] <= log[k] /\ log'[k] \in {log[k], log[k] + 1}
    BY <1>5 DEF NamedInv
  <2> QED
    BY <1>5, <1>6, <2>1, <2>2 DEF NamedInv
<1>9. OwnSnapshotKept'
  <2> SUFFICES ASSUME NEW k \in Node, this'[k] \in packed' PROVE this'[k] \in store'[k]
    BY DEF OwnSnapshotKept
  <2>1. this[k] # s
    BY <1>5, SnapNameAssumption DEF NamedInv
  <2> QED
    BY <1>4, <1>5, <2>1 DEF OwnSnapshotKept
<1> QED
  BY <1>7, <1>8, <1>9

\* What is named is in the store, and points to the log that is written.
LEMMA NameSnapshotKeeps ==
    ASSUME KeptInv, NEW n \in Node, NameSnapshot(n)
    PROVE  JobInv' /\ NamedInv' /\ OwnSnapshotKept'
<1> USE DEF KeptInv
<1>1. /\ busy[n].good /\ busy[n].snap \in Snapshot /\ start[busy[n].snap] = log[n]
      /\ busy[n].snap \in packed => busy[n].snap \in store[n]
      /\ busy[n].step \in JobSteps
  BY DEF NameSnapshot, JobInv, JobKept, JobSteps
<1>2. /\ this'[n] = busy[n].snap
      /\ \A k \in Node \ {n} : this'[k] = this[k]
      /\ UNCHANGED <<start, log, first, store, packed>>
  BY DEF NameSnapshot, SnapTypeOK, dbVars
<1>3. /\ \A k \in Node \ {n} : busy'[k] = busy[k]
      /\ busy'[n] = Free \/ (busy'[n].step = "purge" /\ busy'[n].good /\ busy'[n].snap = busy[n].snap)
  <2>1. CASE Done(n)
    BY <2>1, DoneEnds
  <2>2. CASE Step(n, "purge")
    BY <1>1, <2>2, StepGoesOn, JobFields DEF JobSteps
  <2> QED
    BY <2>1, <2>2 DEF NameSnapshot, GiveUp
<1>4. JobInv'
  <2> SUFFICES ASSUME NEW k \in Node
               PROVE  JobKept(k)'
    BY DEF JobInv
  <2> USE DEF JobKept
  <2>1. CASE k # n
    BY <1>2, <1>3, <2>1 DEF JobInv
  <2>2. CASE k = n /\ busy'[n] = Free
    BY <2>2 DEF Free
  <2>3. CASE k = n /\ busy'[n] # Free
    BY <1>1, <1>2, <1>3, <2>3
  <2> QED
    BY <2>1, <2>2, <2>3
<1>5. NamedInv'
  <2>1. first[n] <= log[n] /\ first[n] \in Nat /\ log[n] \in Nat \ {0}
    BY DEF NamedInv, SnapTypeOK
  <2> QED
    BY <1>1, <1>2, <2>1 DEF NamedInv
<1>6. OwnSnapshotKept'
  BY <1>1, <1>2 DEF OwnSnapshotKept
<1> QED
  BY <1>4, <1>5, <1>6

\* A node purges archives when it has none that is not named.
LEMMA PurgeSnapshotsKeeps ==
    ASSUME KeptInv, NEW n \in Node, PurgeSnapshots(n)
    PROVE  JobInv' /\ NamedInv' /\ OwnSnapshotKept'
<1> USE DEF KeptInv
<1>1. busy'[n].step = "decide" /\ busy'[n].good = busy[n].good /\ busy'[n].snap = busy[n].snap
  BY StepGoesOn, JobFields DEF PurgeSnapshots, JobSteps
<1>2. \A k \in Node \ {n} : busy'[k] = busy[k] /\ store'[k] = store[k]
  BY StepGoesOn DEF PurgeSnapshots, SnapTypeOK
<1>3. store'[n] = store[n] \cap {this[n], that[n]}
  BY DEF PurgeSnapshots, SnapTypeOK, InUse
<1>4. UNCHANGED <<this, start, log, first, packed>> /\ busy[n].step = "purge"
  BY DEF PurgeSnapshots, roleVars, dbVars
<1>5. JobInv'
  <2> SUFFICES ASSUME NEW k \in Node
               PROVE  JobKept(k)'
    BY DEF JobInv
  <2> USE DEF JobKept
  <2>1. CASE k = n
    BY <1>1, <1>4, <2>1 DEF JobInv
  <2>2. CASE k # n
    BY <1>2, <1>4, <2>2 DEF JobInv
  <2> QED
    BY <2>1, <2>2
<1>6. NamedInv'
  BY <1>4 DEF NamedInv
<1>7. OwnSnapshotKept'
  BY <1>2, <1>3, <1>4 DEF OwnSnapshotKept
<1> QED
  BY <1>5, <1>6, <1>7

\* A purge keeps the last log.
LEMMA DeleteLogsKeeps ==
    ASSUME KeptInv, NEW n \in Node, DeleteLogs(n)
    PROVE  JobInv' /\ NamedInv' /\ OwnSnapshotKept'
<1> USE DEF KeptInv
<1> DEFINE to == busy[n].purge
<1>1. busy'[n] = Free /\ \A k \in Node \ {n} : busy'[k] = busy[k]
  BY DoneEnds DEF DeleteLogs
<1>2. UNCHANGED <<this, start, log, store, packed>>
  BY DEF DeleteLogs, roleVars
<1>3. JobInv'
  <2> SUFFICES ASSUME NEW k \in Node
               PROVE  JobKept(k)'
    BY DEF JobInv
  <2> USE DEF JobKept
  <2>1. CASE k = n
    BY <1>1, <2>1 DEF Free
  <2>2. CASE k # n
    BY <1>1, <1>2, <2>2 DEF JobInv
  <2> QED
    BY <2>1, <2>2
<1>4. NamedInv'
  <2>1. /\ \A k \in Node \ {n} : first'[k] = first[k]
        /\ first'[n] = first[n] \/ (first'[n] = to /\ to \in first[n]..log[n])
    BY DEF DeleteLogs, SnapTypeOK
  <2>2. \A k \in Node : first'[k] <= log[k]
    BY <2>1 DEF NamedInv, SnapTypeOK
  <2> QED
    BY <1>2, <2>2 DEF NamedInv
<1>5. OwnSnapshotKept'
  BY <1>2 DEF OwnSnapshotKept
<1> QED
  BY <1>3, <1>4, <1>5

\* A restore begins the logs of its node anew, also one that is broken off; the job is over.
LEMMA RestoreKeeps ==
    ASSUME KeptInv, NEW n \in Node,
           Restore(n) \/ RestoreFails(n) \/ (Crash(n) /\ busy[n].step = "load")
    PROVE  JobInv' /\ NamedInv' /\ OwnSnapshotKept'
<1> USE DEF KeptInv
<1>1. busy'[n] = Free /\ \A k \in Node \ {n} : busy'[k] = busy[k]
  BY DoneEnds DEF Restore, RestoreFails, Crash
<1>2. UNCHANGED <<this, start, store, packed>>
  BY DEF Restore, RestoreFails, Crash, roleVars
<1>3. /\ \/ log'[n] = 1 /\ first'[n] = 1
         \/ log'[n] = log[n] /\ first'[n] = first[n]
      /\ \A k \in Node \ {n} : log'[k] = log[k] /\ first'[k] = first[k]
  <2>1. ResetLogs(n) \/ UNCHANGED <<log, first>>
    BY DEF Restore, RestoreFails, Crash, BrokenOff
  <2> QED
    BY <2>1 DEF ResetLogs, SnapTypeOK
<1>4. JobInv'
  <2> SUFFICES ASSUME NEW k \in Node
               PROVE  JobKept(k)'
    BY DEF JobInv
  <2> USE DEF JobKept
  <2>1. CASE k = n
    BY <1>1, <2>1 DEF Free
  <2>2. CASE k # n
    BY <1>1, <1>2, <1>3, <2>2 DEF JobInv
  <2> QED
    BY <2>1, <2>2
<1>5. NamedInv'
  BY <1>2, <1>3 DEF NamedInv
<1>6. OwnSnapshotKept'
  BY <1>2 DEF OwnSnapshotKept
<1> QED
  BY <1>4, <1>5, <1>6

LEMMA KeptInvHolds == SnapSpec => []KeptInv
<1>1. SnapTypeOK /\ LoadInv /\ JobInv /\ NamedInv /\ OwnSnapshotKept /\ [SnapNext]_snapVars
        => JobInv' /\ NamedInv' /\ OwnSnapshotKept'
  <2> SUFFICES ASSUME KeptInv, [SnapNext]_snapVars PROVE JobInv' /\ NamedInv' /\ OwnSnapshotKept'
    BY DEF KeptInv
  <2>1. CASE UNCHANGED snapVars
    BY <2>1 DEF KeptInv, JobInv, JobKept, NamedInv, OwnSnapshotKept, snapVars, roleVars, dbVars
  <2>2. ASSUME NEW n \in Node, NodeStep(n) PROVE JobInv' /\ NamedInv' /\ OwnSnapshotKept'
    BY <2>2, BeginQuiet, GenerateFailsQuiet, PushQuiet, BecomeMasterQuiet, DecidePurgeQuiet, OutsideQuiet,
       GenerateKeeps, NameSnapshotKeeps, PurgeSnapshotsKeeps, DeleteLogsKeeps, RestoreKeeps DEF NodeStep
  <2> QED
    BY <2>1, <2>2, NextIsNodeStep
<1> QED
  BY <1>1, KeptInvInit, TypesHold, PTL DEF SnapSpec, KeptInv

\* The archive of a node's own snapshot, if it was written, still exists: for any number of
\* names and crashes, also in the middle of a restore.
THEOREM OwnSnapshotKeptHolds == SnapSpec => []OwnSnapshotKept
<1>1. KeptInv => OwnSnapshotKept
  BY DEF KeptInv
<1> QED
  BY <1>1, KeptInvHolds, PTL

\* What can happen to the log that a named snapshot points to.
LEMMA NodeStepUsable ==
    ASSUME KeptInv, NEW k \in Node, NodeStep(k), NEW n \in Node, Usable(n), ~Usable(n)'
    PROVE  \/ busy[n].step = "delete" /\ ~busy[n].good
           \/ busy[n].step = "load"
<1> USE DEF KeptInv
<1>1. first[n] \in Nat /\ log[n] \in Nat /\ first[n] <= log[n]
  BY DEF SnapTypeOK, NamedInv
<1>2. ASSUME UNCHANGED <<this[n], start, log[n], first[n]>> PROVE FALSE
  BY <1>2 DEF Usable
<1>3. ASSUME NEW s \in Snapshot, Generate(k, s) PROVE FALSE
  <2>1. /\ log'[n] \in {log[n], log[n] + 1} /\ first' = first /\ this' = this
        /\ \A u \in Snapshot \ {s} : start'[u] = start[u]
        /\ start[s] = 0
    BY <1>3 DEF Generate, roleVars, SnapTypeOK
  <2>2. this[n] # NoSnapshot => start'[this[n]] = start[this[n]]
    BY <2>1 DEF NamedInv
  <2> QED
    BY <1>1, <2>1, <2>2 DEF Usable
<1>4. CASE NameSnapshot(k)
  <2>1. UNCHANGED <<start, log, first>>
    BY <1>4 DEF NameSnapshot, dbVars
  <2>2. CASE k = n
    <3>1. this'[n] = busy[n].snap /\ start[busy[n].snap] = log[n]
      BY <1>4, <2>2 DEF NameSnapshot, JobInv, JobKept, SnapTypeOK
    <3> QED
      BY <1>1, <2>1, <3>1 DEF Usable
  <2>3. CASE k # n
    BY <1>2, <1>4, <2>1, <2>3 DEF NameSnapshot, SnapTypeOK
  <2> QED
    BY <2>2, <2>3
<1>5. CASE DeleteLogs(k)
  <2>1. UNCHANGED <<this, start, log>> /\ busy[k].step = "delete"
    BY <1>5 DEF DeleteLogs, roleVars
  <2>2. CASE k = n
    <3> SUFFICES ASSUME busy[n].good PROVE FALSE
      BY <2>1, <2>2
    <3>1. this[n] = busy[n].snap /\ start[busy[n].snap] = log[n]
      BY <2>1, <2>2 DEF JobInv, JobKept
    <3>2. first'[n] = first[n] \/ first'[n] \in first[n]..log[n]
      BY <1>5, <2>2 DEF DeleteLogs, SnapTypeOK
    <3> QED
      BY <1>1, <2>1, <3>1, <3>2 DEF Usable
  <2>3. CASE k # n
    BY <1>2, <1>5, <2>1, <2>3 DEF DeleteLogs, SnapTypeOK
  <2> QED
    BY <2>2, <2>3
<1>6. CASE Restore(k) \/ RestoreFails(k) \/ (Crash(k) /\ busy[k].step = "load")
  <2>1. busy[k].step = "load" /\ UNCHANGED <<this, start>>
    BY <1>6 DEF Restore, RestoreFails, Crash, roleVars
  <2>2. ResetLogs(k) \/ UNCHANGED <<log, first>>
    BY <1>6 DEF Restore, RestoreFails, Crash, BrokenOff
  <2>3. CASE k # n
    BY <1>2, <2>1, <2>2, <2>3 DEF ResetLogs, SnapTypeOK
  <2> QED
    BY <2>1, <2>3
<1>7. \/ \E s \in Snapshot : Generate(k, s)
      \/ NameSnapshot(k) \/ DeleteLogs(k) \/ Restore(k) \/ RestoreFails(k)
      \/ Crash(k) /\ busy[k].step = "load"
      \/ UNCHANGED <<this, start, log, first>>
  BY DEF NodeStep, Begin, GenerateFails, Push, BecomeMaster, PurgeSnapshots, BeginPurge,
     DecidePurge, BeginMakeSlave, MakeIdle, Hear, Replicate, Crash, roleVars, dbVars
<1> QED
  BY <1>2, <1>3, <1>4, <1>5, <1>6, <1>7

\* The log that a named snapshot points to is lost in two ways only: to a purge that no new
\* snapshot went before, and to a restore over its database, complete or not.
THEOREM SnapshotUsableHolds == SnapSpec => SnapshotUsable
<1>1. KeptInv /\ [SnapNext]_snapVars
        => [\A n \in Node : Usable(n) /\ ~Usable(n)'
              => \/ busy[n].step = "delete" /\ ~busy[n].good
                 \/ busy[n].step = "load"]_snapVars
  BY NextIsNodeStep, NodeStepUsable
<1> QED
  BY <1>1, KeptInvHolds, PTL DEF SnapSpec, SnapshotUsable

-----------------------------------------------------------------------------
(* The purges of the master.                                                 *)

\* What a master has decided to delete ends before the log that its peer reads, if the peer
\* was replicating when it decided: the peer only goes forward.
Spares(m, n) ==
    busy[m].step = "delete" /\ role[m] = "Master" /\ on[n] /\ ~late[n]
    => busy[m].purge \in Nat /\ busy[m].purge <= at[n]

PurgeInv == \A m, n \in Node : m # n => Spares(m, n)

\* A step that decides nothing and starts no replication.
LEMMA SparingStep ==
    ASSUME SnapTypeOK, SnapTypeOK', PurgeInv,
           \A k \in Node : busy'[k].step = "delete" => busy'[k] = busy[k] /\ role'[k] = role[k],
           \A k \in Node : on'[k] =>
               /\ on[k] /\ at'[k] >= at[k]
               /\ late'[k] = late[k] \/ busy'[Other(k)].step # "delete"
    PROVE  PurgeInv'
<1> SUFFICES ASSUME NEW m \in Node, NEW n \in Node, m # n,
                    busy'[m].step = "delete", role'[m] = "Master", on'[n], ~late'[n]
             PROVE  busy'[m].purge \in Nat /\ busy'[m].purge <= at'[n]
  BY DEF PurgeInv, Spares
<1>1. busy'[m] = busy[m] /\ role[m] = "Master" /\ on[n] /\ ~late[n] /\ at'[n] >= at[n]
  BY OtherOfOther
<1>2. busy[m].purge \in Nat /\ busy[m].purge <= at[n]
  BY <1>1 DEF PurgeInv, Spares
<1>3. at[n] \in Nat /\ at'[n] \in Nat
  BY DEF SnapTypeOK
<1> QED
  BY <1>1, <1>2, <1>3

\* A node that begins to replicate while its peer purges is late.
LEMMA StartSpares ==
    ASSUME SnapTypeOK, PurgeInv, NEW n \in Node, StartSlave(n), Done(n),
           \A k \in Node \ {n} : role'[k] = role[k] /\ at'[k] = at[k]
    PROVE  PurgeInv'
<1> SUFFICES ASSUME NEW m \in Node, NEW k \in Node, m # k PROVE Spares(m, k)'
  BY DEF PurgeInv
<1>1. busy'[n] = Free /\ \A j \in Node \ {n} : busy'[j] = busy[j]
  BY DoneEnds
<1>2. CASE m = n
  BY <1>1, <1>2 DEF Spares, Free
<1>3. CASE m # n
  <2>1. k = n /\ Other(n) = m
    BY <1>3, OtherOfOther, SnapNodeAssumption
  <2>2. late'[n] = (busy[m].step = "delete")
    BY <2>1 DEF StartSlave, SnapTypeOK
  <2> QED
    BY <1>1, <1>3, <2>1, <2>2 DEF Spares
<1> QED
  BY <1>2, <1>3

LEMMA NodeStepSpares ==
    ASSUME SnapTypeOK, SnapTypeOK', LoadInv, PurgeInv, NEW n \in Node, NodeStep(n) PROVE PurgeInv'
<1> USE DEF SnapTypeOK
<1>0. ASSUME \A k \in Node : on'[k] => on[k], UNCHANGED <<at, late>>
      PROVE  \A k \in Node : on'[k] => /\ on[k] /\ at'[k] >= at[k]
                                       /\ late'[k] = late[k] \/ busy'[Other(k)].step # "delete"
  BY <1>0
<1>1. CASE BeginPurge(n) \/ \E job \in {"MM", "GS", "AR"} : Begin(n, job)
  <2>1. (\A k \in Node : on'[k] => on[k]) /\ UNCHANGED <<at, late, role>>
    BY <1>1, StopSlavesTyped DEF Begin, BeginPurge, roleVars, dbVars
  <2>2. \A k \in Node : busy'[k].step = "delete" => busy'[k] = busy[k]
    <3>1. CASE BeginPurge(n)
      BY <3>1 DEF BeginPurge, Free
    <3>2. ASSUME NEW job \in {"MM", "GS", "AR"}, Begin(n, job)
          PROVE  \A k \in Node : busy'[k].step = "delete" => busy'[k] = busy[k]
      BY <3>2 DEF Begin, Free
    <3> QED
      BY <1>1, <3>1, <3>2
  <2> QED
    BY <1>0, <2>1, <2>2, SparingStep
<1>2. ASSUME NEW s \in Snapshot, Generate(n, s) PROVE PurgeInv'
  BY <1>2, SparingStep DEF Generate, roleVars
<1>3. ASSUME UNCHANGED <<at, on>>,
             \A k \in Node : late'[k] = late[k] \/ busy'[Other(k)].step # "delete",
             \A k \in Node \ {n} : busy'[k] = busy[k] /\ role'[k] = role[k],
             busy'[n].step # "delete"
      PROVE  PurgeInv'
  BY <1>3, SparingStep
<1>4. CASE \/ GenerateFails(n) \/ Push(n) \/ BecomeMaster(n) \/ NameSnapshot(n)
           \/ PurgeSnapshots(n)
  <2>1. /\ UNCHANGED <<at, on, late>>
        /\ \A k \in Node \ {n} : role'[k] = role[k]
    BY <1>4 DEF GenerateFails, Push, BecomeMaster, NameSnapshot, PurgeSnapshots, roleVars, dbVars
  <2>2. Done(n) \/ \E s \in {"role", "name", "purge", "decide"} : Step(n, s)
    BY <1>4 DEF GenerateFails, Push, BecomeMaster, NameSnapshot, PurgeSnapshots, GiveUp
  <2>3. busy[n].step \in JobSteps
    BY <1>4 DEF GenerateFails, Push, BecomeMaster, NameSnapshot, PurgeSnapshots, JobSteps
  <2>4. busy'[n].step # "delete" /\ \A k \in Node \ {n} : busy'[k] = busy[k]
    <3>1. CASE Done(n)
      BY <3>1, DoneEnds DEF Free
    <3>2. ASSUME NEW s \in {"role", "name", "purge", "decide"}, Step(n, s)
          PROVE  busy'[n].step # "delete" /\ \A k \in Node \ {n} : busy'[k] = busy[k]
      BY <2>3, <3>2, StepGoesOn, JobFields DEF JobSteps
    <3> QED
      BY <2>2, <3>1, <3>2
  <2> QED
    BY <1>3, <2>1, <2>4
<1>5. CASE DeleteLogs(n) \/ (Crash(n) /\ busy[n].step # "load")
  <2>1. Done(n) /\ UNCHANGED <<at, on, role>> /\ late' = [late EXCEPT ![Other(n)] = FALSE]
    BY <1>5 DEF DeleteLogs, Crash, roleVars, dbVars
  <2>2. busy'[n].step # "delete" /\ \A k \in Node \ {n} : busy'[k] = busy[k]
    BY <2>1, DoneEnds DEF Free
  <2>3. ASSUME NEW k \in Node PROVE late'[k] = late[k] \/ busy'[Other(k)].step # "delete"
    <3>1. CASE k = Other(n)
      BY <2>2, <3>1, OtherIsOther, OtherOfOther
    <3>2. CASE k # Other(n)
      BY <2>1, <3>2
    <3> QED
      BY <3>1, <3>2
  <2> QED
    BY <1>3, <2>1, <2>2, <2>3
<1>6. CASE BeginMakeSlave(n)
  <2>1. ASSUME NEW k \in Node, on'[k]
        PROVE  /\ on[k] /\ at'[k] >= at[k]
               /\ late'[k] = late[k] \/ busy'[Other(k)].step # "delete"
    <3>1. k # n
      BY <1>6, <2>1 DEF BeginMakeSlave
    <3>2. on'[k] = on[k] /\ late'[k] = late[k] /\ at'[k] = at[k] /\ at[k] \in Nat
      BY <1>6, <3>1 DEF BeginMakeSlave
    <3> QED
      BY <2>1, <3>1, <3>2
  <2>2. \A k \in Node : busy'[k].step = "delete" => busy'[k] = busy[k] /\ role'[k] = role[k]
    BY <1>6 DEF BeginMakeSlave, Free, roleVars
  <2> QED
    BY <2>1, <2>2, SparingStep
<1>7. CASE MakeIdle(n)
  <2>1. (\A k \in Node : on'[k] => on[k]) /\ UNCHANGED <<at, late>>
    BY <1>7, StopSlavesTyped DEF MakeIdle
  <2>2. \A k \in Node : busy'[k].step = "delete" => busy'[k] = busy[k] /\ role'[k] = role[k]
    BY <1>7 DEF MakeIdle, Free
  <2> QED
    BY <1>0, <2>1, <2>2, SparingStep
<1>8. CASE Hear(n)
  BY <1>8, SparingStep DEF Hear, Free, dbVars
<1>9. CASE Replicate(n)
  BY <1>9, SparingStep DEF Replicate, roleVars
<1>10. CASE DecidePurge(n)
  <2>1. UNCHANGED <<role, at, on, late>>
    BY <1>10 DEF DecidePurge, roleVars, dbVars
  <2>2. CASE Done(n)
    <3>1. busy'[n].step # "delete" /\ \A k \in Node \ {n} : busy'[k] = busy[k]
      BY <2>2, DoneEnds DEF Free
    <3> QED
      BY <1>3, <2>1, <3>1
  <2>3. CASE busy' = [busy EXCEPT ![n].step = "delete",
                                  ![n].purge = IF role[n] = "Master" THEN MasterPurgesTo(n)
                                               ELSE SlavePurgesTo(n)]
    <3> SUFFICES ASSUME NEW m \in Node, NEW k \in Node, m # k PROVE Spares(m, k)'
      BY DEF PurgeInv
    <3>1. CASE m = n
      <4> DEFINE to == IF role[n] = "Master" THEN MasterPurgesTo(n) ELSE SlavePurgesTo(n)
      <4>1. busy[n] \in Working
        BY <1>10, JobIsWorking DEF DecidePurge, JobSteps
      <4>2. busy'[n].purge = to
        <5> HIDE DEF to
        <5>1. [busy[n] EXCEPT !.step = "delete", !.purge = to].purge = to
          BY <4>1 DEF Working
        <5>2. busy' = [busy EXCEPT ![n].step = "delete", ![n].purge = to]
          BY <2>3 DEF to
        <5>3. busy'[n] = [busy[n] EXCEPT !.step = "delete", !.purge = to]
          BY <5>2
        <5> QED
          BY <5>1, <5>3
      <4>3. role[n] = "Master" => busy'[n].purge \in Nat /\ busy'[n].purge <= at[k]
        <5> SUFFICES ASSUME role[n] = "Master"
                     PROVE  MasterPurgesTo(n) \in Nat /\ MasterPurgesTo(n) <= at[k]
          BY <4>2
        <5>1. Other(n) = k
          BY <3>1, OtherOfOther
        <5> QED
          BY <5>1 DEF MasterPurgesTo, Least
      <4> QED
        BY <2>1, <3>1, <4>3 DEF Spares
    <3>2. CASE m # n
      BY <2>1, <2>3, <3>2 DEF PurgeInv, Spares
    <3> QED
      BY <3>1, <3>2
  <2> QED
    BY <1>10, <2>2, <2>3 DEF DecidePurge
<1>11. CASE Restore(n) \/ (Crash(n) /\ StartSlave(n) /\ busy[n].step = "load" /\ SetPosition(n))
  <2>1. Done(n) /\ StartSlave(n) /\ SetPosition(n)
    BY <1>11 DEF Restore, Crash
  <2>2. \A k \in Node \ {n} : role'[k] = role[k] /\ at'[k] = at[k]
    BY <1>11, <2>1 DEF Restore, Crash, SetPosition
  <2> QED
    BY <2>1, <2>2, StartSpares
<1>12. CASE busy[n].step = "load" /\ (RestoreFails(n) \/ (Crash(n) /\ BrokenOff(n) /\ UNCHANGED late))
  <2>1. Done(n) /\ BrokenOff(n) /\ UNCHANGED <<late, role>>
    BY <1>12 DEF RestoreFails, Crash, roleVars
  <2>2. busy'[n].step # "delete" /\ \A k \in Node \ {n} : busy'[k] = busy[k]
    BY <2>1, DoneEnds DEF Free
  <2>3. ~on[n] /\ on' = on /\ \A k \in Node \ {n} : at'[k] = at[k]
    BY <1>12, <2>1 DEF BrokenOff, SetPosition, LoadInv
  <2> QED
    BY <2>1, <2>2, <2>3, SparingStep
<1>13. CASE RestoreFails(n) \/ Crash(n)
  BY <1>5, <1>11, <1>12, <1>13 DEF RestoreFails, Crash
<1> QED
  BY <1>1, <1>2, <1>4, <1>5, <1>6, <1>7, <1>8, <1>9, <1>10, <1>11, <1>13 DEF NodeStep

LEMMA PurgeInvHolds == SnapSpec => []PurgeInv
<1>1. SnapInit => PurgeInv
  BY DEF SnapInit, PurgeInv, Spares, Free
<1>2. SnapTypeOK /\ LoadInv /\ SnapTypeOK' /\ PurgeInv /\ [SnapNext]_snapVars => PurgeInv'
  <2>1. UNCHANGED snapVars /\ PurgeInv => PurgeInv'
    BY DEF PurgeInv, Spares, snapVars, roleVars, dbVars
  <2> QED
    BY <2>1, NextIsNodeStep, NodeStepSpares
<1> QED
  BY <1>1, <1>2, TypesHold, PTL DEF SnapSpec

\* The only step that could cut a peer off is a purge, and a purge spares it.
LEMMA NodeStepCutsNobodyOff ==
    ASSUME SnapTypeOK, LoadInv, PurgeInv, NEW k \in Node, NodeStep(k), NEW n \in Node,
           role[Other(n)] = "Master", on[n], at[n] >= first[Other(n)], ~late[n], on'[n]
    PROVE  at'[n] >= first'[Other(n)]
<1> DEFINE m == Other(n)
<1>1. m \in Node /\ m # n /\ Other(m) = n
  BY OtherIsOther, OtherOfOther
<1> HIDE DEF m
<1>2. at[n] \in Nat /\ first[m] \in Nat /\ first[m] >= 1
  BY <1>1 DEF SnapTypeOK
<1>3. CASE UNCHANGED <<at, first>>
  BY <1>3 DEF m
<1>4. CASE DeleteLogs(k)
  <2>1. UNCHANGED <<at, on>> /\ busy[k].step = "delete"
    BY <1>4 DEF DeleteLogs
  <2>2. CASE k = m
    <3>1. busy[m].purge <= at[n]
      BY <1>1, <2>1, <2>2 DEF PurgeInv, Spares, m
    <3>2. first'[m] = busy[m].purge \/ first'[m] = first[m]
      BY <1>1, <1>4, <2>2 DEF DeleteLogs, SnapTypeOK
    <3> QED
      BY <1>2, <2>1, <3>1, <3>2 DEF m
  <2>3. CASE k # m
    BY <1>1, <1>4, <2>1, <2>3 DEF DeleteLogs, SnapTypeOK, m
  <2> QED
    BY <2>2, <2>3
<1>5. CASE BeginMakeSlave(k)
  BY <1>5 DEF BeginMakeSlave, SnapTypeOK
<1>6. CASE Restore(k) \/ RestoreFails(k) \/ (Crash(k) /\ busy[k].step = "load")
  <2>1. k # n
    BY <1>6 DEF Restore, RestoreFails, LoadInv
  <2>2. at'[n] = at[n]
    BY <1>6, <2>1 DEF Restore, RestoreFails, Crash, BrokenOff, SetPosition, SnapTypeOK
  <2>3. ResetLogs(k) \/ UNCHANGED first
    BY <1>6 DEF Restore, RestoreFails, Crash, BrokenOff
  <2>4. first'[m] = first[m] \/ first'[m] = 1
    BY <1>1, <2>3 DEF ResetLogs, SnapTypeOK
  <2> QED
    BY <1>2, <2>2, <2>4 DEF m
<1>7. CASE Replicate(k)
  BY <1>2, <1>7 DEF Replicate, SnapTypeOK, m
<1>8. \/ UNCHANGED <<at, first>> \/ DeleteLogs(k) \/ BeginMakeSlave(k) \/ Replicate(k)
      \/ Restore(k) \/ RestoreFails(k) \/ (Crash(k) /\ busy[k].step = "load")
  BY DEF NodeStep, Begin, Generate, GenerateFails, Push, BecomeMaster, NameSnapshot, PurgeSnapshots,
     BeginPurge, DecidePurge, MakeIdle, Hear, Crash, dbVars
<1> QED
  BY <1>3, <1>4, <1>5, <1>6, <1>7, <1>8

\* A purge of a master does not cut off a peer that replicated when the master asked where it
\* is, for any logs and names, with restores that break off and daemons that die in them.  A
\* peer whose replication starts between the question and the deletion is not covered: the
\* code does not protect it.
THEOREM SlaveNotCutOffHolds == SnapSpec => SlaveNotCutOff
<1>1. SnapTypeOK /\ LoadInv /\ PurgeInv /\ [SnapNext]_snapVars
        => [\A n \in Node : LET m == Other(n) IN
              /\ role[m] = "Master" /\ on[n] /\ at[n] >= first[m] /\ ~late[n]
              /\ on'[n]
              => at'[n] >= first'[m]]_snapVars
  BY NextIsNodeStep, NodeStepCutsNobodyOff
<1> QED
  BY <1>1, TypesHold, PurgeInvHolds, PTL DEF SnapSpec, SlaveNotCutOff
=============================================================================
