------------------------------- MODULE AMState -------------------------------
(***************************************************************************)
(* The state file of amand(8): class AMState (src/lib/amstate.cpp), used   *)
(* the way MainObject uses it.                                             *)
(*                                                                         *)
(* The object keeps a copy of the file in memory.  A getter reads the file *)
(* first; a setter changes one field of the copy and writes all of it, to  *)
(* a temporary file that is then renamed.  The constructor reads nothing.  *)
(* The process may die between any two system calls, and each call may     *)
(* fail; the short write of a full disk goes unnoticed, because the        *)
(* results of fprintf() and fclose() are not looked at.                    *)
(***************************************************************************)
EXTENDS Naturals

CONSTANTS
    Snapshot,    \* names of database snapshots
    NoSnapshot,  \* the empty name
    Stump,       \* what is left of a name that was cut off
    Faults       \* the calls that may fail

ASSUME NamesAssumption == NoSnapshot \notin Snapshot /\ Stump \notin Snapshot \cup {NoSnapshot}
ASSUME FaultsAssumption == Faults \subseteq {"read", "open", "short", "rename"}

Field == {"db", "audio", "this", "that"}
Roles == [db |-> {"Idle", "Master", "Slave"}, audio |-> {"Idle", "Slave"}]
Names == Snapshot \cup {NoSnapshot, Stump}

\* A file is represented by what ReadState makes of it.
Contents == [db : Roles.db, audio : Roles.audio, this : Names, that : Names]

\* clear(), and what ReadState makes of an empty file.
Fresh == [db |-> "Idle", audio |-> "Idle", this |-> NoSnapshot, that |-> NoSnapshot]

VARIABLES
    mem,     \* the fields of the object
    pc,      \* where the daemon is: "down", "calm", "writing", "written"
    booted,  \* the daemon has read its roles
    logged,  \* an error was logged since the last change was stored
    exists,  \* the state file exists
    disk,    \* its contents
    temp,    \* the contents of the temporary file
    asked    \* the roles that were ever asked for

vars == <<mem, pc, booted, logged, exists, disk, temp, asked>>

TypeOK ==
    /\ mem \in Contents
    /\ pc \in {"down", "calm", "writing", "written"}
    /\ booted \in BOOLEAN /\ logged \in BOOLEAN /\ exists \in BOOLEAN
    /\ disk \in Contents
    /\ temp \in Contents
    /\ asked \subseteq Roles.db

Init ==
    /\ mem = Fresh
    /\ pc = "down"
    /\ booted = FALSE /\ logged = FALSE /\ exists = FALSE
    /\ disk = Fresh
    /\ temp = Fresh
    /\ asked = {}

\* fopen() truncates the temporary file.
OpenTemp ==
    \/ pc' = "writing" /\ temp' = Fresh /\ UNCHANGED logged
    \/ "open" \in Faults /\ pc' = "calm" /\ logged' = TRUE /\ UNCHANGED temp

\* The constructor, in a new process.
Start ==
    /\ pc = "down"
    /\ mem' = Fresh
    /\ IF exists THEN pc' = "calm" /\ UNCHANGED <<temp, logged>> ELSE OpenTemp
    /\ UNCHANGED <<booted, exists, disk, asked>>

\* ReadState.  A file that cannot be read leaves the names as they were.
ReadState ==
    \/ exists /\ mem' = disk /\ UNCHANGED logged
    \/ /\ ~exists \/ "read" \in Faults
       /\ mem' = [mem EXCEPT !.db = "Idle", !.audio = "Idle"]
       /\ logged' = TRUE

\* Mutant: the roles are not read when the daemon starts.
MutRecover ==
    /\ pc = "calm"
    /\ ~booted
    /\ booted' = TRUE
    /\ UNCHANGED <<mem, logged, pc, exists, disk, temp, asked>>

\* MainObject takes its roles from the file.
Recover ==
    /\ pc = "calm"
    /\ ~booted
    /\ booted' = TRUE
    /\ ReadState
    /\ UNCHANGED <<pc, exists, disk, temp, asked>>

\* dbState(), audioState(), currentSnapshot().
Get ==
    /\ pc = "calm"
    /\ booted
    /\ ReadState
    /\ UNCHANGED <<pc, booted, exists, disk, temp, asked>>

\* The values a setter stores: setCurrentSnapshot ignores the empty name.
Values(f) == IF f \in {"db", "audio"} THEN Roles[f] ELSE Snapshot

Set(f, v) ==
    /\ pc = "calm"
    /\ booted
    /\ mem' = [mem EXCEPT ![f] = v]
    /\ asked' = IF f = "db" THEN asked \cup {v} ELSE asked
    /\ OpenTemp
    /\ UNCHANGED <<booted, exists, disk>>

\* The lines of the file, in the order they are written.
Rank == [db |-> 1, audio |-> 2, this |-> 3, that |-> 4]

\* Mutant: a missing role is read as the last of them.
MutCut(m, k) == [f \in Field |-> IF Rank[f] <= k THEN m[f] ELSE
                                 IF f = "db" THEN "Slave" ELSE Fresh[f]]

\* What is left of m when the disk is full after k whole lines.
Cut(m, k) == [f \in Field |-> IF Rank[f] <= k THEN m[f] ELSE Fresh[f]]

ShortWrites(m) == {Cut(m, k) : k \in 0..3} \cup
    {[Cut(m, Rank[f] - 1) EXCEPT ![f] = Stump] : f \in {g \in {"this", "that"} : m[g] # NoSnapshot}}

\* fclose() writes the buffer.
CloseTemp ==
    /\ pc = "writing"
    /\ \/ temp' = mem
       \/ "short" \in Faults /\ temp' \in ShortWrites(mem)
    /\ pc' = "written"
    /\ UNCHANGED <<mem, booted, logged, exists, disk, asked>>

Rename ==
    /\ pc = "written"
    /\ exists' = TRUE
    /\ disk' = temp
    /\ logged' = FALSE
    /\ pc' = "calm"
    /\ UNCHANGED <<mem, booted, temp, asked>>

\* Mutant: the result of rename() is not looked at.
MutRenameFails ==
    /\ pc = "written"
    /\ "rename" \in Faults
    /\ pc' = "calm"
    /\ UNCHANGED <<mem, booted, logged, exists, disk, temp, asked>>

RenameFails ==
    /\ pc = "written"
    /\ "rename" \in Faults
    /\ logged' = TRUE
    /\ pc' = "calm"
    /\ UNCHANGED <<mem, booted, exists, disk, temp, asked>>

Die ==
    /\ pc # "down"
    /\ pc' = "down"
    /\ mem' = Fresh
    /\ booted' = FALSE
    /\ logged' = FALSE
    /\ UNCHANGED <<exists, disk, temp, asked>>

Next ==
    \/ Start \/ Recover \/ Get
    \/ \E f \in Field : \E v \in Values(f) : Set(f, v)
    \/ CloseTemp \/ Rename \/ RenameFails
    \/ Die

Spec == Init /\ [][Next]_vars

-----------------------------------------------------------------------------
(* Properties.                                                               *)

\* A change that the daemon goes by is on disk unless an error was logged: a write
\* that fails, and a start that finds no file, are always reported.  A full disk
\* alone is silent, and costs the end of the record, never its beginning.
NoSilentLoss == pc = "calm" /\ booted /\ ~logged =>
    /\ exists
    /\ disk = mem \/ ("short" \in Faults /\ disk \in ShortWrites(mem))

\* When nothing fails but the process, the file is a durable record: although a
\* setter rewrites all four fields from memory, it changes one, and a crash at any
\* point leaves its old or its new value.
Durable == INSTANCE DurableRecord WITH
    stored <- disk,
    belief <- IF booted THEN mem ELSE disk,
    pending <- booted /\ pc \in {"writing", "written"}

IsDurableRecord == Durable!Spec

\* Whatever fails, a role that nobody asked for is never taken up: a file that is
\* missing, unreadable or cut off makes the node idle, and what an earlier failure
\* put into memory is never written as another role.
NoPhantomRole == {mem.db, disk.db, temp.db} \subseteq asked \cup {"Idle"}

=============================================================================
