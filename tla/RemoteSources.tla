---------------------------- MODULE RemoteSources ----------------------------
(***************************************************************************)
(* What amanrmt(1) knows of its two source servers: its AMConnections, the *)
(* messages that are on their way over them, and the choice of a master    *)
(* (src/amanrmt/amanrmt.cpp, src/lib/amconnection.cpp).                    *)
(***************************************************************************)
EXTENDS Integers, Sequences

CONSTANT MaxEvents  \* bound: changes of roles, lost connections, and requests

ASSUME EventsAssumption == MaxEvents \in Nat

Server == {0, 1}
NoServer == -1
Role == {"Idle", "Master", "Slave"}

VARIABLES
    program, \* "running", "closed" by its user, "exited" of itself, or "dead"
    role,    \* role[i]: the role of server i's database, at the server
    linked,  \* linked[i]: whether am_connection[i] is connected
    seen,    \* seen[i][j]: the role of j in conn_status of am_connection[i]
    asked,   \* asked[i]: GS commands that server i has not executed yet
    inbox,   \* inbox[i]: messages of server i that have not been read
    changed, \* history: GetMasterServerId changed while a snapshot was awaited
    events   \* the number of events so far

sourceVars == <<program, role, linked, seen, asked, inbox, changed, events>>

Status == [kind : {"ST"}, roles : [Server -> Role]]
Answer == [kind : {"GS"}, good : BOOLEAN]

SourceTypeOK ==
    /\ program \in {"running", "closed", "exited", "dead"}
    /\ role \in [Server -> Role]
    /\ linked \in [Server -> BOOLEAN]
    /\ seen \in [Server -> [Server -> Role]]
    /\ asked \in [Server -> Nat]
    /\ inbox \in [Server -> Seq(Status \cup Answer)]
    /\ changed \in BOOLEAN
    /\ events \in 0..MaxEvents

SourceInit ==
    /\ program = "running"
    /\ role = [i \in Server |-> "Idle"]
    /\ linked = [i \in Server |-> FALSE]
    /\ seen = [i \in Server |-> [j \in Server |-> "Idle"]]
    /\ asked = [i \in Server |-> 0]
    /\ inbox = [i \in Server |-> <<>>]
    /\ changed = FALSE
    /\ events = 0

\* Server i sends its role as it is and that of its peer as it knows it.
Statuses(i, r) == {[kind |-> "ST", roles |-> [j \in Server |-> IF j = i THEN r ELSE known]] :
                     known \in {role[1 - i], "Idle"}}

\* The connected server that calls itself master, server 0 before server 1.
GetMasterServerId ==
    IF linked[0] /\ seen[0][0] = "Master" THEN 0
    ELSE IF linked[1] /\ seen[1][1] = "Master" THEN 1
    ELSE NoServer

Awaited == \E i \in Server : asked[i] > 0 \/ \E m \in 1..Len(inbox[i]) : inbox[i][m].kind = "GS"

MasterMayChange == changed' = (changed \/ (Awaited /\ GetMasterServerId' # GetMasterServerId))

\* A snapshot is asked for from the server's master, which may be asked again meanwhile.
Ask(i) ==
    /\ events < MaxEvents
    /\ events' = events + 1
    /\ asked' = [asked EXCEPT ![i] = @ + 1]
    /\ changed' = (changed /\ Awaited)
    /\ UNCHANGED <<program, role, linked, seen, inbox>>

-----------------------------------------------------------------------------
(* The servers and the connections.                                          *)

RoleChanges(i) ==
    /\ events < MaxEvents
    /\ events' = events + 1
    /\ \E r \in Role \ {role[i]} :
         /\ role' = [role EXCEPT ![i] = r]
         /\ \E message \in Statuses(i, r) :
              inbox' = [inbox EXCEPT ![i] = IF linked[i] THEN Append(@, message) ELSE @]
    /\ UNCHANGED <<program, linked, seen, asked, changed>>

\* The daemon of i executes GS, for as long as it takes, and answers with a name or "-".
AnswerGS(i) ==
    /\ asked[i] > 0
    /\ asked' = [asked EXCEPT ![i] = @ - 1]
    /\ \E good \in BOOLEAN, message \in Statuses(i, role[i]) :
         inbox' = [inbox EXCEPT ![i] = @ \o <<[kind |-> "GS", good |-> good], message>>]
    /\ UNCHANGED <<program, role, linked, seen, changed, events>>

\* The status that the connection has received stays as it is.
Unlink(i) ==
    /\ linked[i]
    /\ events < MaxEvents
    /\ events' = events + 1
    /\ linked' = [linked EXCEPT ![i] = FALSE]
    /\ asked' = [asked EXCEPT ![i] = 0]
    /\ inbox' = [inbox EXCEPT ![i] = <<>>]
    /\ UNCHANGED <<program, role, seen>>
    /\ MasterMayChange

\* connectedData asks for the status; until it comes the old one counts again.
Link(i) ==
    /\ ~linked[i]
    /\ linked' = [linked EXCEPT ![i] = TRUE]
    /\ \E message \in Statuses(i, role[i]) : inbox' = [inbox EXCEPT ![i] = <<message>>]
    /\ UNCHANGED <<program, role, seen, asked, events>>
    /\ MasterMayChange

\* ProcessMessage, on ST.
TakeStatus(i) ==
    /\ inbox[i] # <<>> /\ Head(inbox[i]).kind = "ST"
    /\ seen' = [seen EXCEPT ![i] = Head(inbox[i]).roles]
    /\ inbox' = [inbox EXCEPT ![i] = Tail(@)]
    /\ UNCHANGED <<program, role, linked, asked, events>>
    /\ MasterMayChange

World == \E i \in Server : RoleChanges(i) \/ AnswerGS(i) \/ Unlink(i) \/ Link(i)

=============================================================================
