----------------------------- MODULE AMConnection -----------------------------
(***************************************************************************)
(* The client's end of the command protocol: class AMConnection            *)
(* (src/lib/amconnection.cpp), which aman(1) and amanrmt(1) use.  It asks  *)
(* for the status when it is connected, takes updates from then on, and    *)
(* connects again five seconds after it was disconnected or refused.       *)
(***************************************************************************)
EXTENDS Tcp

CONSTANTS
    MaxEvents  \* bound: commands, connections lost, and attempts that fail other than refused

ASSUME ClientAssumption == MaxEvents \in Nat

VARIABLES
    socket,   \* socket[c]: state of conn_socket
    watchdog, \* watchdog[c]: whether conn_watchdog_timer runs
    seen,     \* seen[c]: conn_status; 0 at first, when it shows a system that is down
    buffer,   \* buffer[c]: conn_buffer
    gaveUp,   \* history: the last attempt of c ended with an error it does not handle
    events    \* the number of commands, losses and failures so far

clientVars == <<socket, watchdog, seen, buffer, gaveUp, events>>

ClientTypeOK ==
    /\ socket \in [Client -> {"unconnected", "connecting", "connected"}]
    /\ watchdog \in [Client -> BOOLEAN]
    /\ seen \in [Client -> Nat]
    /\ buffer \in [Client -> Seq(Nat)]
    /\ gaveUp \in [Client -> BOOLEAN]
    /\ events \in 0..MaxEvents

\* The programs call connectToHost when they start.
ClientInit ==
    /\ socket = [c \in Client |-> "connecting"]
    /\ watchdog = [c \in Client |-> FALSE]
    /\ seen = [c \in Client |-> 0]
    /\ buffer = [c \in Client |-> <<>>]
    /\ gaveUp = [c \in Client |-> FALSE]
    /\ events = 0

ConnectedData(c, k) ==
    /\ buffer' = [buffer EXCEPT ![c] = <<>>]
    /\ toServer' = [toServer EXCEPT ![k] = <<"ST", End>>]

\* The connection is made by the daemon's system; the daemon may be busy for long.
Connect(c, k) ==
    /\ socket[c] = "connecting"
    /\ socket' = [socket EXCEPT ![c] = "connected"]
    /\ line' = [line EXCEPT ![c] = k]
    /\ far' = [far EXCEPT ![k] = "waiting"]
    /\ cut' = [cut EXCEPT ![k] = "no"]
    /\ toClient' = [toClient EXCEPT ![k] = <<>>]
    /\ ConnectedData(c, k)
    /\ UNCHANGED <<watchdog, seen, gaveUp, events>>

\* errorData, on an attempt that was refused.
Refused(c) ==
    /\ socket[c] = "connecting"
    /\ socket' = [socket EXCEPT ![c] = "unconnected"]
    /\ watchdog' = [watchdog EXCEPT ![c] = TRUE]
    /\ UNCHANGED <<tcpVars, seen, buffer, gaveUp, events>>

\* errorData, on an attempt that timed out, or on another error, which it ignores.
Fails(c) ==
    /\ socket[c] = "connecting"
    /\ events < MaxEvents
    /\ events' = events + 1
    /\ socket' = [socket EXCEPT ![c] = "unconnected"]
    /\ \E handled \in BOOLEAN :
         /\ watchdog' = [watchdog EXCEPT ![c] = handled]
         /\ gaveUp' = [gaveUp EXCEPT ![c] = ~handled]
    /\ UNCHANGED <<tcpVars, seen, buffer>>

WatchdogData(c) ==
    /\ watchdog[c]
    /\ watchdog' = [watchdog EXCEPT ![c] = FALSE]
    /\ socket' = [socket EXCEPT ![c] = "connecting"]
    /\ UNCHANGED <<tcpVars, seen, buffer, gaveUp, events>>

\* Mutant: the client is not scheduled again.
MutDisconnectedData(c) == UNCHANGED watchdog

DisconnectedData(c) == watchdog' = [watchdog EXCEPT ![c] = TRUE]

\* The socket finds the connection closed by the daemon's system, or lost.
Disconnect(c) ==
    LET k == line[c] IN
    /\ socket[c] = "connected"
    /\ \/ far[k] = "closed" /\ cut[k] = "no"
       \/ EndShows(k, toServer[k])
    /\ socket' = [socket EXCEPT ![c] = "unconnected"]
    /\ line' = [line EXCEPT ![c] = NoConn]
    /\ toServer' = [toServer EXCEPT ![k] = <<>>]
    /\ toClient' = [toClient EXCEPT ![k] = IF far[k] = "closed" THEN <<>> ELSE @]
    /\ DisconnectedData(c)
    /\ UNCHANGED <<far, cut, seen, buffer, gaveUp, events>>

\* ProcessMessage: a status with a number of fields other than 17 is not taken over.
ProcessMessage(c) == seen' = [seen EXCEPT ![c] = IF Len(buffer[c]) = 1 THEN buffer[c][1] ELSE @]

\* readyReadData.
Read(c) ==
    LET k == line[c] IN
    /\ socket[c] = "connected" /\ cut[k] = "no"
    /\ toClient[k] # <<>>
    /\ toClient' = [toClient EXCEPT ![k] = Tail(@)]
    /\ IF Ends(toClient[k])
       THEN ProcessMessage(c) /\ buffer' = [buffer EXCEPT ![c] = <<>>]
       ELSE buffer' = [buffer EXCEPT ![c] = Append(@, Head(toClient[k]))] /\ UNCHANGED seen
    /\ UNCHANGED <<line, far, cut, toServer, socket, watchdog, gaveUp, events>>

\* makeDbIdle and the other slots; without a connection nothing is sent, and nobody told.
SendCommand(c) ==
    /\ socket[c] = "connected" /\ far[line[c]] # "closed"
    /\ events < MaxEvents
    /\ events' = events + 1
    /\ toServer' = [toServer EXCEPT ![line[c]] = @ \o <<"MI", End>>]
    /\ UNCHANGED <<line, far, cut, toClient, socket, watchdog, seen, buffer, gaveUp>>

=============================================================================
