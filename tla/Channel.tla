------------------------------- MODULE Channel -------------------------------
(***************************************************************************)
(* Clients and the command server of one daemon, with a network that loses *)
(* connections, openly or silently, and a daemon that dies and comes back. *)
(***************************************************************************)
EXTENDS StreamCmdServer, AMConnection

channelVars == <<tcpVars, serverVars, clientVars>>

ChannelTypeOK == TcpTypeOK /\ ServerTypeOK /\ ClientTypeOK

ChannelInit == TcpInit /\ ServerInit /\ ClientInit

\* A connection that neither end nor the table of sockets knows.
Unused(k) ==
    /\ far[k] = "closed"
    /\ \A c \in Client : line[c] # k
    /\ \A fd \in Fd : sockets[fd] # k

Server ==
    \/ \E k \in Conn : Accept(k) \/ SeeEnd(k)
    \/ \E fd \in Fd : ReadPart(fd) \/ ReadCommand(fd)
    \/ StatusChanges
    \/ LinkIsBack
    \/ CollectGarbage
    \/ Die
    \/ Boot

Connects(c) ==
    LET unused == {k \in Conn : Unused(k)} IN
    up /\ unused # {} /\ Connect(c, CHOOSE k \in unused : TRUE)

Clients == \E c \in Client :
    \/ Connects(c)
    \/ ~up /\ Refused(c)
    \/ Fails(c)
    \/ WatchdogData(c)
    \/ Disconnect(c)
    \/ Read(c)
    \/ SendCommand(c)

Loss(k, how) ==
    /\ events < MaxEvents
    /\ events' = events + 1
    /\ Lose(k, how)
    /\ UNCHANGED <<serverVars, socket, watchdog, seen, buffer, gaveUp>>

ChannelNext ==
    \/ Server /\ UNCHANGED clientVars
    \/ Clients /\ UNCHANGED serverVars
    \/ \E k \in Conn, how \in {"told", "silent"} : Loss(k, how)

ChannelSpec == ChannelInit /\ [][ChannelNext]_channelVars

(* The event loops of both ends run, an end that shows is seen, watchdogs fire, attempts *)
(* end, and systemd starts the daemon again (Restart=always).                            *)
ChannelFairness ==
    /\ \A k \in Conn :
         /\ WF_channelVars(Accept(k) /\ UNCHANGED clientVars)
         /\ WF_channelVars(SeeEnd(k) /\ UNCHANGED clientVars)
    /\ \A fd \in Fd : WF_channelVars((ReadPart(fd) \/ ReadCommand(fd)) /\ UNCHANGED clientVars)
    /\ WF_channelVars(Boot /\ UNCHANGED clientVars)
    /\ \A c \in Client :
         /\ WF_channelVars((Connects(c) \/ (~up /\ Refused(c))) /\ UNCHANGED serverVars)
         /\ WF_channelVars(WatchdogData(c) /\ UNCHANGED serverVars)
         /\ WF_channelVars(Disconnect(c) /\ UNCHANGED serverVars)
         /\ WF_channelVars(Read(c) /\ UNCHANGED serverVars)

ChannelFairSpec == ChannelSpec /\ ChannelFairness

-----------------------------------------------------------------------------
(* Properties.                                                               *)

\* A connection over which everything was delivered, both ways.
Quiet(c, k) ==
    /\ socket[c] = "connected" /\ line[c] = k
    /\ far[k] = "open" /\ cut[k] = "no"
    /\ toServer[k] = <<>> /\ toClient[k] = <<>>

\* A client shows the status that was announced last as soon as its connection is quiet:
\* whatever handler announced it, whoever else is connected, and after any number of
\* reconnections and restarts.  It is the daemon's status, unless a link came back since
\* then and nobody was told (LinkIsBack): the clients show the peer as unreachable until
\* something else changes.
UpToDate == \A c \in Client, k \in Conn : Quiet(c, k) => seen[c] = announced

\* The daemon never puts a command together from halves of two connections, although
\* descriptors are given out again before it has noticed that a client left.
CommandsAreWhole == \A fd \in Fd : Len(received[fd]) <= 1

\* Nor does it lose a part of one: what a client sent is what the daemon executes,
\* although a command may arrive in two reads and two commands in one.
CommandsAreKnown == \A fd \in Fd :
    Readable(fd) /\ Ends(toServer[sockets[fd]]) => received[fd] \in {<<"ST">>, <<"MI">>}

\* No client shows a status that the daemon never had, or goes back to an older one:
\* answers and updates keep their order, and nothing of a lost connection, or of a
\* daemon that died, is read after something of the next.
View == INSTANCE StatusView
IsStatusView == View!Spec

\* The watchdog runs exactly while there is no connection and no attempt at one: it
\* never interrupts a connection, and only an error that errorData ignores leaves a
\* client without it.
RetryIsScheduled == \A c \in Client :
    /\ watchdog[c] => socket[c] = "unconnected"
    /\ socket[c] = "unconnected" => watchdog[c] \/ gaveUp[c]

\* A client that does not show what was announced catches up and stays so: it waits for ever
\* only after an error of an attempt to connect that errorData ignores, or on a
\* connection that was lost silently.
Deserted(c) == gaveUp[c] \/ (line[c] # NoConn /\ cut[line[c]] = "silent")

CatchesUp == \A c \in Client : <>[]~Deserted(c) => <>[](seen[c] = announced)

=============================================================================
