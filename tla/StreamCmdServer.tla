--------------------------- MODULE StreamCmdServer ---------------------------
(***************************************************************************)
(* The command server of amand(8): src/amand/streamcmdserver.cpp and its   *)
(* use by MainObject.  Tables keyed by socket descriptor hold the sockets  *)
(* and what has been read of the next command.  A socket that its client   *)
(* left is found closed by a broadcast only; the system gives descriptors  *)
(* out again before that.                                                  *)
(***************************************************************************)
EXTENDS Tcp

CONSTANTS
    Fd,         \* descriptors; the least free one is given to a new connection
    MaxStatus,  \* bound: changes of the status
    MaxCrashes  \* bound: deaths of the daemon

ASSUME FdAssumption == Fd \subseteq Nat /\ MaxStatus \in Nat /\ MaxCrashes \in Nat

VARIABLES
    up,       \* whether the daemon runs
    status,   \* what StateUpdateArgs returns: the number of changes so far
    sockets,  \* cmd_sockets
    received, \* cmd_recv_buffers
    crashes,  \* the number of deaths so far
    announced \* history: the status that was broadcast last, or that the daemon began with

serverVars == <<up, status, sockets, received, crashes, announced>>

NoEntry == "no entry"
Null == "NULL"

ASSUME EntryAssumption == NoEntry \notin Conn /\ Null \notin Conn

ServerTypeOK ==
    /\ up \in BOOLEAN
    /\ status \in 0..MaxStatus
    /\ sockets \in [Fd -> Conn \cup {NoEntry, Null}]
    /\ received \in [Fd -> Seq({"ST", "MI"})]
    /\ crashes \in 0..MaxCrashes
    /\ announced \in 0..MaxStatus

ServerInit ==
    /\ up = TRUE
    /\ status = 0
    /\ sockets = [fd \in Fd |-> NoEntry]
    /\ received = [fd \in Fd |-> <<>>]
    /\ crashes = 0
    /\ announced = 0

Connected(fd) == sockets[fd] \in Conn /\ far[sockets[fd]] = "open"
Taken == {fd \in Fd : Connected(fd)}
Left(fd) == sockets[fd] \in Conn /\ ~Connected(fd)

\* Mutant: the first socket found closed ends the loop.
MutListening ==
    {sockets[fd] : fd \in {f \in Taken : \A g \in Fd : g < f => ~Left(g)}}

\* The sockets that a broadcast writes to.
Listening == {sockets[fd] : fd \in Taken}

\* Mutant: an update overtakes the answers that are not sent yet.
MutBroadcast(now, answers, buffers) ==
    /\ toClient' = [k \in Conn |-> IF k \in Listening THEN <<now, End>> \o answers[k] ELSE answers[k]]
    /\ sockets' = [fd \in Fd |-> IF Left(fd) THEN Null ELSE sockets[fd]]
    /\ received' = [fd \in Fd |-> IF Left(fd) THEN <<>> ELSE buffers[fd]]
    /\ announced' = now

\* sendCommand to all, with the other sockets closed by closeConnection.  answers and
\* buffers hold what the handler has written and read before.
Broadcast(now, answers, buffers) ==
    /\ toClient' = [k \in Conn |-> IF k \in Listening THEN answers[k] \o <<now, End>> ELSE answers[k]]
    /\ sockets' = [fd \in Fd |-> IF Left(fd) THEN Null ELSE sockets[fd]]
    /\ received' = [fd \in Fd |-> IF Left(fd) THEN <<>> ELSE buffers[fd]]
    /\ announced' = now

-----------------------------------------------------------------------------
\* Mutant: the buffer of the descriptor is not cleared.
MutAccept(k) ==
    /\ up /\ far[k] = "waiting"
    /\ far' = [far EXCEPT ![k] = "open"]
    /\ \E fd \in Fd \ Taken :
         /\ \A f \in Fd \ Taken : fd <= f
         /\ sockets' = [sockets EXCEPT ![fd] = k]
    /\ UNCHANGED <<line, cut, toServer, toClient, up, status, received, crashes, announced>>

\* newConnectionData.
Accept(k) ==
    /\ up /\ far[k] = "waiting"
    /\ far' = [far EXCEPT ![k] = "open"]
    /\ \E fd \in Fd \ Taken :
         /\ \A f \in Fd \ Taken : fd <= f
         /\ sockets' = [sockets EXCEPT ![fd] = k]
         /\ received' = [received EXCEPT ![fd] = <<>>]
    /\ UNCHANGED <<line, cut, toServer, toClient, up, status, crashes, announced>>

\* Every handler that changes the status ends with a broadcast, but for the one below.
\* (One that would repeat the last broadcast is left out.)
StatusChanges ==
    /\ up
    /\ status' \in {status, status + 1} \cap 0..MaxStatus
    /\ status' # announced
    /\ Broadcast(status', toClient, received)
    /\ UNCHANGED <<line, far, cut, toServer, up, crashes>>

\* A ping over a link that was down makes the peer reachable again.  Nobody is told if the
\* ping says nothing new.
LinkIsBack ==
    /\ up /\ status < MaxStatus
    /\ status' = status + 1
    /\ UNCHANGED <<tcpVars, up, sockets, received, crashes, announced>>

Readable(fd) == up /\ Connected(fd) /\ cut[sockets[fd]] = "no" /\ toServer[sockets[fd]] # <<>>

Handled(fd) == [received EXCEPT ![fd] = <<>>]

\* readyReadData: a half of a command is added to the buffer.
ReadPart(fd) ==
    /\ Readable(fd) /\ ~Ends(toServer[sockets[fd]])
    /\ received' = [received EXCEPT ![fd] = Append(@, Head(toServer[sockets[fd]]))]
    /\ toServer' = [toServer EXCEPT ![sockets[fd]] = Tail(@)]
    /\ UNCHANGED <<line, far, cut, toClient, up, status, sockets, crashes, announced>>

\* readyReadData, ProcessCommand and commandReceivedData: ST is answered; any other
\* command may change the status.  All of them end with a broadcast.
ReadCommand(fd) ==
    LET k == sockets[fd] IN
    /\ Readable(fd) /\ Ends(toServer[k])
    /\ toServer' = [toServer EXCEPT ![k] = Tail(@)]
    /\ \/ /\ received[fd] = <<"ST">>
          /\ UNCHANGED status
          /\ Broadcast(status, [toClient EXCEPT ![k] = @ \o <<status, End>>], Handled(fd))
       \/ /\ received[fd] = <<"MI">>
          /\ status' \in {status, status + 1} \cap 0..MaxStatus
          /\ Broadcast(status', toClient, Handled(fd))
       \/ /\ received[fd] \notin {<<"ST">>, <<"MI">>}
          /\ received' = Handled(fd)
          /\ UNCHANGED <<toClient, status, sockets, announced>>
    /\ UNCHANGED <<line, far, cut, up, crashes>>

\* The system closes a socket whose client is gone; nobody is told.
SeeEnd(k) ==
    /\ far[k] = "open"
    /\ EndShows(k, toClient[k])
    /\ far' = [far EXCEPT ![k] = "closed"]
    /\ toClient' = [toClient EXCEPT ![k] = <<>>]
    /\ UNCHANGED <<line, cut, toServer, serverVars>>

\* collectGarbageData: it goes on with the iterator that it has just erased.  Any of the
\* entries may be passed over.  (That the daemon may die of it is an action of its own.)
CollectGarbage ==
    /\ up
    /\ \E gone \in SUBSET {fd \in Fd : sockets[fd] = Null} :
         /\ gone # {}
         /\ sockets' = [fd \in Fd |-> IF fd \in gone THEN NoEntry ELSE sockets[fd]]
         /\ received' = [fd \in Fd |-> IF fd \in gone THEN <<>> ELSE received[fd]]
    /\ UNCHANGED <<tcpVars, up, status, crashes, announced>>

\* The daemon dies: of collectGarbageData, or for another reason.
Die ==
    /\ up /\ crashes < MaxCrashes
    /\ up' = FALSE
    /\ crashes' = crashes + 1
    /\ far' = [k \in Conn |-> "closed"]
    /\ toServer' = [k \in Conn |-> <<>>]
    /\ sockets' = [fd \in Fd |-> NoEntry]
    /\ received' = [fd \in Fd |-> <<>>]
    /\ UNCHANGED <<line, cut, toClient, status, announced>>

\* A new daemon has another status.
Boot ==
    /\ ~up
    /\ up' = TRUE
    /\ status' \in {status, status + 1} \cap 0..MaxStatus
    /\ announced' = status'
    /\ UNCHANGED <<tcpVars, sockets, received, crashes>>

=============================================================================
