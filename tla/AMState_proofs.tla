---------------------------- MODULE AMState_proofs ----------------------------
(***************************************************************************)
(* Proofs about the state file.                                            *)
(***************************************************************************)
EXTENDS AMState, TLAPS

LEMMA FreshIsContents == Fresh \in Contents
  BY DEF Fresh, Contents, Roles, Names

\* Writing one field of the record.
LEMMA FieldUpdated ==
    ASSUME NEW m \in Contents, NEW f \in Field, NEW v \in Values(f)
    PROVE  [m EXCEPT ![f] = v] \in Contents
<1>1. CASE f = "db"
  BY <1>1 DEF Contents, Values, Roles
<1>2. CASE f = "audio"
  BY <1>2 DEF Contents, Values, Roles
<1>3. CASE f = "this"
  BY <1>3 DEF Contents, Values, Names
<1>4. CASE f = "that"
  BY <1>4 DEF Contents, Values, Names
<1> QED
  BY <1>1, <1>2, <1>3, <1>4 DEF Field

\* What a full disk leaves of a file can be read, and makes the node keep its role
\* or be idle.
LEMMA ShortWriteReadable ==
    ASSUME NEW m \in Contents, NEW c \in ShortWrites(m)
    PROVE  c \in Contents /\ c.db \in {m.db, "Idle"}
<1>1. ASSUME NEW k \in 0..3
      PROVE  Cut(m, k) \in Contents /\ Cut(m, k).db \in {m.db, "Idle"}
  <2>1. /\ DOMAIN Cut(m, k) = Field
        /\ \A f \in Field : Cut(m, k)[f] \in {m[f], Fresh[f]}
    BY DEF Cut
  <2> QED
    BY <2>1, FreshIsContents DEF Contents, Field, Fresh, Cut
<1>2. CASE \E k \in 0..3 : c = Cut(m, k)
  BY <1>1, <1>2
<1>3. CASE \E f \in {"this", "that"} : c = [Cut(m, Rank[f] - 1) EXCEPT ![f] = Stump]
  <2>1. PICK f \in {"this", "that"} : c = [Cut(m, Rank[f] - 1) EXCEPT ![f] = Stump]
    BY <1>3
  <2>2. Rank[f] - 1 \in 0..3
    BY DEF Rank
  <2> DEFINE d == Cut(m, Rank[f] - 1)
  <2>3. d \in Contents /\ d.db \in {m.db, "Idle"}
    BY <1>1, <2>2
  <2> HIDE DEF d
  <2> QED
    BY <2>1, <2>3 DEF d, Contents, Names
<1> QED
  BY <1>2, <1>3 DEF ShortWrites

-----------------------------------------------------------------------------
LEMMA NextTyped == TypeOK /\ [Next]_vars => TypeOK'
<1> SUFFICES ASSUME TypeOK, [Next]_vars PROVE TypeOK'
  OBVIOUS
<1> USE FreshIsContents
<1>1. CASE Start
  BY <1>1 DEF Start, OpenTemp, TypeOK
<1>2. CASE Recover \/ Get
  <2>1. mem' \in Contents
    BY <1>2 DEF Recover, Get, ReadState, TypeOK, Contents, Roles
  <2> QED
    BY <1>2, <2>1 DEF Recover, Get, ReadState, TypeOK
<1>3. ASSUME NEW f \in Field, NEW v \in Values(f), Set(f, v) PROVE TypeOK'
  <2>1. mem' \in Contents
    BY <1>3, FieldUpdated DEF Set, TypeOK
  <2>2. asked' \subseteq Roles.db
    BY <1>3 DEF Set, TypeOK, Values, Roles
  <2> QED
    BY <1>3, <2>1, <2>2 DEF Set, OpenTemp, TypeOK
<1>4. CASE CloseTemp
  BY <1>4, ShortWriteReadable DEF CloseTemp, TypeOK
<1>5. CASE Rename \/ RenameFails \/ Die
  BY <1>5 DEF Rename, RenameFails, Die, TypeOK
<1>6. CASE UNCHANGED vars
  BY <1>6 DEF vars, TypeOK
<1> QED
  BY <1>1, <1>2, <1>3, <1>4, <1>5, <1>6 DEF Next

LEMMA InitTyped == Init => TypeOK
  BY FreshIsContents DEF Init, TypeOK

\* The fields keep their types, also when the file was cut off or cannot be read.
THEOREM StateTypeCorrect == Spec => []TypeOK
<1>1. Init => TypeOK
  BY InitTyped
<1>2. TypeOK /\ [Next]_vars => TypeOK'
  BY NextTyped
<1> QED
  BY <1>1, <1>2, PTL DEF Spec

-----------------------------------------------------------------------------
\* Whatever fails, a role that nobody asked for is never taken up.
THEOREM NoPhantomRoleHolds == Spec => []NoPhantomRole
<1>1. Init => TypeOK /\ NoPhantomRole
  BY InitTyped DEF Init, NoPhantomRole, Fresh
<1>2. TypeOK /\ NoPhantomRole /\ [Next]_vars => NoPhantomRole'
  <2> SUFFICES ASSUME TypeOK, NoPhantomRole, [Next]_vars PROVE NoPhantomRole'
    OBVIOUS
  <2> USE DEF NoPhantomRole, Fresh
  <2>1. CASE Start \/ Die
    BY <2>1 DEF Start, OpenTemp, Die
  <2>2. CASE Recover \/ Get
    BY <2>2 DEF Recover, Get, ReadState, TypeOK, Contents
  <2>3. ASSUME NEW f \in Field, NEW v \in Values(f), Set(f, v) PROVE NoPhantomRole'
    <3>1. mem'.db \in {mem.db} \cup asked'
      BY <2>3 DEF Set, TypeOK, Contents, Field
    <3> QED
      BY <2>3, <3>1 DEF Set, OpenTemp
  <2>4. CASE CloseTemp
    BY <2>4, ShortWriteReadable DEF CloseTemp, TypeOK
  <2>5. CASE Rename \/ RenameFails
    BY <2>5 DEF Rename, RenameFails
  <2>6. CASE UNCHANGED vars
    BY <2>6 DEF vars
  <2> QED
    BY <2>1, <2>2, <2>3, <2>4, <2>5, <2>6 DEF Next
<1>3. TypeOK /\ [Next]_vars => TypeOK'
  BY NextTyped
<1> QED
  BY <1>1, <1>2, <1>3, PTL DEF Spec

-----------------------------------------------------------------------------
(* A write is lost silently only if it was short.                            *)

StoredInv ==
    /\ NoSilentLoss
    /\ pc = "written" => temp = mem \/ ("short" \in Faults /\ temp \in ShortWrites(mem))
    /\ pc = "down" => ~booted

\* A change that the daemon goes by but that is not on disk was reported in the log,
\* or its write was short.
THEOREM NoSilentLossHolds == Spec => []NoSilentLoss
<1>1. Init => StoredInv
  BY DEF Init, StoredInv, NoSilentLoss
<1>2. StoredInv /\ [Next]_vars => StoredInv'
  <2> SUFFICES ASSUME StoredInv, [Next]_vars PROVE StoredInv'
    OBVIOUS
  <2> USE DEF StoredInv, NoSilentLoss
  <2>1. CASE Start
    BY <2>1 DEF Start, OpenTemp
  <2>2. CASE Recover \/ Get
    BY <2>2 DEF Recover, Get, ReadState
  <2>3. ASSUME NEW f \in Field, NEW v \in Values(f), Set(f, v) PROVE StoredInv'
    BY <2>3 DEF Set, OpenTemp
  <2>4. CASE CloseTemp \/ Rename \/ RenameFails
    BY <2>4 DEF CloseTemp, Rename, RenameFails
  <2>5. CASE Die
    BY <2>5 DEF Die
  <2>6. CASE UNCHANGED vars
    BY <2>6 DEF vars
  <2> QED
    BY <2>1, <2>2, <2>3, <2>4, <2>5, <2>6 DEF Next
<1>3. StoredInv => NoSilentLoss
  BY DEF StoredInv
<1> QED
  BY <1>1, <1>2, <1>3, PTL DEF Spec

-----------------------------------------------------------------------------
(* The refinement.  A daemon that has not read its roles writes at most the  *)
(* first, empty, file; one that has goes by what is on disk between writes.  *)

RecordInv ==
    /\ pc = "down" => ~booted
    /\ pc = "calm" => exists
    /\ pc = "calm" /\ booted => mem = disk
    /\ pc = "written" => temp = mem
    /\ pc \in {"writing", "written"} /\ ~booted => mem = Fresh /\ disk = Fresh
    /\ ~exists => disk = Fresh

\* If only the process fails, the file is the durable record that module
\* DurableRecord specifies: the temporary file and rename() make each change atomic,
\* and no setter runs before the first getter.
THEOREM StateIsDurableRecord == ASSUME Faults = {} PROVE Spec => IsDurableRecord
<1>1. Init => TypeOK /\ RecordInv
  BY InitTyped DEF Init, RecordInv
<1>2. TypeOK /\ [Next]_vars => TypeOK'
  BY NextTyped
<1>3. TypeOK /\ RecordInv /\ [Next]_vars => RecordInv'
  <2> SUFFICES ASSUME TypeOK, RecordInv, [Next]_vars PROVE RecordInv'
    OBVIOUS
  <2> USE DEF RecordInv
  <2>1. CASE Start \/ Die
    BY <2>1 DEF Start, OpenTemp, Die, TypeOK
  <2>2. CASE Recover \/ Get
    BY <2>2 DEF Recover, Get, ReadState
  <2>3. ASSUME NEW f \in Field, NEW v \in Values(f), Set(f, v) PROVE RecordInv'
    BY <2>3 DEF Set, OpenTemp
  <2>4. CASE CloseTemp \/ Rename \/ RenameFails
    BY <2>4 DEF CloseTemp, Rename, RenameFails
  <2>5. CASE UNCHANGED vars
    BY <2>5 DEF vars
  <2> QED
    BY <2>1, <2>2, <2>3, <2>4, <2>5 DEF Next
<1>4. Init => Durable!Init
  BY DEF Init, Durable!Init
<1>5. TypeOK /\ RecordInv /\ [Next]_vars => [Durable!Next]_Durable!vars
  <2> SUFFICES ASSUME TypeOK, RecordInv, [Next]_vars PROVE [Durable!Next]_Durable!vars
    OBVIOUS
  <2> USE DEF RecordInv, Durable!vars
  <2>1. CASE Start
    BY <2>1 DEF Start, OpenTemp
  <2>2. CASE Recover \/ Get
    BY <2>2 DEF Recover, Get, ReadState
  <2>3. ASSUME NEW f \in Field, NEW v \in Values(f), Set(f, v)
        PROVE  Durable!Change(f, v)
    BY <2>3 DEF Set, OpenTemp, Durable!Change
  <2>4. CASE CloseTemp \/ RenameFails
    BY <2>4 DEF CloseTemp, RenameFails
  <2>5. CASE Rename
    <3>1. ASSUME booted PROVE Durable!Store
      BY <2>5, <3>1 DEF Rename, Durable!Store
    <3>2. CASE ~booted
      BY <2>5, <3>2 DEF Rename
    <3> QED
      BY <2>5, <3>1, <3>2 DEF Durable!Next
  <2>6. CASE Die
    <3>1. Durable!Restart
      BY <2>6 DEF Die, Durable!Restart
    <3> QED
      BY <3>1 DEF Durable!Next
  <2>7. CASE UNCHANGED vars
    BY <2>7 DEF vars
  <2> QED
    BY <2>1, <2>2, <2>3, <2>4, <2>5, <2>6, <2>7 DEF Next, Durable!Next
<1> QED
  BY <1>1, <1>2, <1>3, <1>4, <1>5, PTL DEF Spec, IsDurableRecord, Durable!Spec

=============================================================================
