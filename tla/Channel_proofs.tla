---------------------------- MODULE Channel_proofs ----------------------------
(***************************************************************************)
(* Proofs about clients and command server (module Channel).               *)
(***************************************************************************)
EXTENDS Channel, TLAPS

-----------------------------------------------------------------------------
(* Sequences of messages in halves: a first half, End, a first half, End ...   *)

Alternates(s) ==
    /\ s # <<>> => s[Len(s)] = End
    /\ \A i \in 1..Len(s)-1 : s[i] = End <=> s[i+1] # End

AtStart(s) == s # <<>> => Head(s) # End
AtEnd(s) == s # <<>> /\ Head(s) = End

LEMMA TailIsTyped ==
    ASSUME NEW T, NEW s \in Seq(T), s # <<>>
    PROVE  /\ Head(s) \in T /\ Head(s) = s[1] /\ Tail(s) \in Seq(T)
           /\ Len(s) \in Nat /\ Len(s) > 0 /\ Len(Tail(s)) = Len(s) - 1
           /\ \A i \in 1..Len(s)-1 : Tail(s)[i] = s[i+1]
  OBVIOUS

LEMMA PairIsAdded ==
    ASSUME NEW T, NEW s \in Seq(T), NEW x \in T, NEW y \in T
    PROVE  LET t == s \o <<x, y>> IN
             /\ t \in Seq(T) /\ Len(t) = Len(s) + 2 /\ t # <<>>
             /\ \A i \in 1..Len(s) : t[i] = s[i]
             /\ t[Len(s)+1] = x /\ t[Len(s)+2] = y
             /\ Head(t) = IF s = <<>> THEN x ELSE Head(s)
<1> DEFINE t == s \o <<x, y>>
<1>1. <<x, y>> \in Seq(T) /\ Len(<<x, y>>) = 2 /\ <<x, y>>[1] = x /\ <<x, y>>[2] = y
  OBVIOUS
<1>2. t \in Seq(T) /\ Len(t) = Len(s) + 2
  BY <1>1
<1>3. \A i \in 1..Len(t) : t[i] = IF i <= Len(s) THEN s[i] ELSE <<x, y>>[i - Len(s)]
  BY <1>1
<1>4. Len(s) \in Nat
  OBVIOUS
<1> HIDE DEF t
<1>5. /\ \A i \in 1..Len(s) : t[i] = s[i]
      /\ t[Len(s)+1] = x /\ t[Len(s)+2] = y
  BY <1>1, <1>2, <1>3, <1>4
<1>6. t # <<>> /\ Head(t) = t[1]
  BY <1>2, <1>4
<1>7. CASE s = <<>>
  BY <1>2, <1>5, <1>6, <1>7 DEF t
<1>8. CASE s # <<>>
  <2>1. Len(s) >= 1 /\ Head(s) = s[1]
    BY <1>8
  <2> QED
    BY <1>2, <1>5, <1>6, <1>8, <2>1, <1>4 DEF t
<1> QED
  BY <1>7, <1>8

\* Taking a half off leaves halves that alternate, and the other kind of half in front.
LEMMA TailAlternates ==
    ASSUME NEW T, NEW s \in Seq(T), s # <<>>, Alternates(s)
    PROVE  /\ Alternates(Tail(s))
           /\ Head(s) # End => AtEnd(Tail(s))
           /\ Head(s) = End => AtStart(Tail(s))
<1> DEFINE t == Tail(s)
<1>1. /\ Head(s) = s[1] /\ t \in Seq(T)
      /\ Len(s) \in Nat /\ Len(s) > 0 /\ Len(t) = Len(s) - 1
      /\ \A i \in 1..Len(s)-1 : t[i] = s[i+1]
  BY TailIsTyped
<1> HIDE DEF t
<1>2. t = <<>> <=> Len(t) = 0
  BY <1>1
<1>3. t # <<>> => Head(t) = t[1]
  BY <1>1
<1>4. t # <<>> => t[Len(t)] = End
  <2> SUFFICES ASSUME t # <<>> PROVE t[Len(t)] = End
    OBVIOUS
  <2>1. Len(t) \in 1..Len(s)-1 /\ Len(t) + 1 = Len(s)
    BY <1>1, <1>2
  <2> QED
    BY <1>1, <2>1 DEF Alternates
<1>5. ASSUME NEW i \in 1..Len(t)-1 PROVE t[i] = End <=> t[i+1] # End
  <2>1. i \in 1..Len(s)-1 /\ i+1 \in 1..Len(s)-1 /\ i \in Nat
    BY <1>1
  <2>2. t[i] = s[i+1] /\ t[i+1] = s[i+1+1]
    BY <1>1, <2>1
  <2> QED
    BY <2>1, <2>2 DEF Alternates
<1>6. Alternates(t)
  BY <1>4, <1>5 DEF Alternates
<1>7. Len(s) = 1 => Head(s) = End
  BY <1>1 DEF Alternates
<1>8. t # <<>> => (Head(s) = End <=> Head(t) # End)
  <2> SUFFICES ASSUME t # <<>> PROVE Head(s) = End <=> Head(t) # End
    OBVIOUS
  <2>1. 1 \in 1..Len(s)-1
    BY <1>1, <1>2
  <2>2. t[1] = s[1+1] /\ (s[1] = End <=> s[1+1] # End)
    BY <1>1, <2>1 DEF Alternates
  <2> QED
    BY <1>1, <1>3, <2>2
<1>9. t = <<>> => Len(s) = 1
  BY <1>1, <1>2
<1> QED
  BY <1>6, <1>7, <1>8, <1>9 DEF AtEnd, AtStart, t

\* So does a whole message that is added at the end.
LEMMA MessageAlternates ==
    ASSUME NEW T, End \in T, NEW s \in Seq(T), NEW x \in T, x # End, Alternates(s)
    PROVE  LET t == s \o <<x, End>> IN
             /\ Alternates(t)
             /\ AtStart(s) => AtStart(t)
             /\ AtEnd(s) => AtEnd(t)
<1> DEFINE t == s \o <<x, End>>
<1>1. /\ t \in Seq(T) /\ Len(t) = Len(s) + 2 /\ t # <<>>
      /\ \A i \in 1..Len(s) : t[i] = s[i]
      /\ t[Len(s)+1] = x /\ t[Len(s)+2] = End
      /\ Head(t) = IF s = <<>> THEN x ELSE Head(s)
  BY PairIsAdded
<1>2. Len(s) \in Nat /\ (s = <<>> <=> Len(s) = 0)
  OBVIOUS
<1> HIDE DEF t
<1>3. ASSUME NEW i \in 1..Len(t)-1 PROVE t[i] = End <=> t[i+1] # End
  <2>1. CASE i <= Len(s) - 1
    <3>1. i \in 1..Len(s)-1 /\ i \in 1..Len(s) /\ i+1 \in 1..Len(s)
      BY <1>2, <2>1
    <3> QED
      BY <1>1, <3>1 DEF Alternates
  <2>2. CASE i = Len(s)
    <3>1. i \in 1..Len(s) /\ s # <<>>
      BY <1>2, <2>2
    <3> QED
      BY <1>1, <2>2, <3>1 DEF Alternates
  <2>3. CASE i = Len(s) + 1
    <3>1. i + 1 = Len(s) + 2
      BY <1>2, <2>3
    <3> QED
      BY <1>1, <2>3, <3>1
  <2> QED
    BY <1>1, <1>2, <2>1, <2>2, <2>3
<1>4. Alternates(t)
  BY <1>1, <1>3 DEF Alternates
<1> QED
  BY <1>1, <1>4 DEF AtStart, AtEnd, t

LEMMA OneHalf == ASSUME NEW T, NEW b \in Seq(T), b # <<>>, Len(b) <= 1 PROVE Len(b) = 1
<1>1. Len(b) \in Nat /\ Len(b) > 0
  BY TailIsTyped
<1>2. \A n \in Nat : n > 0 /\ n <= 1 => n = 1
  OBVIOUS
<1> QED
  BY <1>1, <1>2, Zenon

LEMMA NothingAlternates == Alternates(<<>>) /\ AtStart(<<>>)
  BY DEF Alternates, AtStart

-----------------------------------------------------------------------------
(* Types.  What a client reads has a type because its socket has a connection. *)

ToServer == {"ST", "MI", End}
ToClient == Nat \cup {End}

LineInv == \A c \in Client :
    /\ socket[c] = "connected" <=> line[c] # NoConn
    /\ watchdog[c] => socket[c] = "unconnected"
    /\ \A d \in Client : line[c] \in Conn /\ line[c] = line[d] => c = d

LEMMA HalvesDiffer == End \in ToServer /\ End \in ToClient /\ "ST" # End /\ "MI" # End /\ \A x \in Nat : x # End
  BY ConnAssumption DEF ToServer, ToClient

\* A read of a first half, and of an End.
LEMMA HalfRead ==
    ASSUME NEW s \in Seq(ToServer), s # <<>>
    PROVE  /\ Tail(s) \in Seq(ToServer)
           /\ Head(s) # End => Head(s) \in {"ST", "MI"}
  BY TailIsTyped DEF ToServer

LEMMA AnswerRead ==
    ASSUME NEW s \in Seq(ToClient), s # <<>>
    PROVE  /\ Tail(s) \in Seq(ToClient)
           /\ Head(s) # End => Head(s) \in Nat
  BY TailIsTyped DEF ToClient

LEMMA BroadcastTyped ==
    ASSUME ChannelTypeOK, NEW now \in Nat,
           NEW answers \in [Conn -> Seq(ToClient)], NEW buffers \in [Fd -> Seq({"ST", "MI"})],
           Broadcast(now, answers, buffers)
    PROVE  /\ toClient' \in [Conn -> Seq(ToClient)]
           /\ sockets' \in [Fd -> Conn \cup {NoEntry, Null}]
           /\ received' \in [Fd -> Seq({"ST", "MI"})]
           /\ announced' = now
<1>1. ASSUME NEW k \in Conn PROVE answers[k] \o <<now, End>> \in Seq(ToClient)
  BY PairIsAdded, HalvesDiffer DEF ToClient
<1>2. toClient' \in [Conn -> Seq(ToClient)]
  BY <1>1 DEF Broadcast
<1>3. sockets' \in [Fd -> Conn \cup {NoEntry, Null}]
  BY DEF Broadcast, ChannelTypeOK, ServerTypeOK
<1>4. received' \in [Fd -> Seq({"ST", "MI"})]
  <2>1. <<>> \in Seq({"ST", "MI"})
    OBVIOUS
  <2> QED
    BY <2>1 DEF Broadcast
<1>5. announced' = now
  BY DEF Broadcast
<1> QED
  BY <1>2, <1>3, <1>4, <1>5

\* ReadCommand ends with a broadcast, except for a command that is none.
LEMMA CommandCases ==
    ASSUME ChannelTypeOK, NEW fd \in Fd, ReadCommand(fd)
    PROVE  LET k == sockets[fd] IN
           /\ k \in Conn /\ far[k] = "open" /\ cut[k] = "no" /\ up
           /\ toServer[k] # <<>> /\ Head(toServer[k]) = End
           /\ toServer' = [toServer EXCEPT ![k] = Tail(@)]
           /\ UNCHANGED <<line, far, cut, up, crashes>>
           /\ Handled(fd) \in [Fd -> Seq({"ST", "MI"})]
           /\ \/ \E answers \in [Conn -> Seq(ToClient)] :
                   /\ \/ answers = toClient
                      \/ answers = [toClient EXCEPT ![k] = @ \o <<status, End>>]
                   /\ status' \in 0..MaxStatus
                   /\ Broadcast(status', answers, Handled(fd))
              \/ /\ received[fd] \notin {<<"ST">>, <<"MI">>}
                 /\ received' = Handled(fd)
                 /\ UNCHANGED <<toClient, status, sockets, announced>>
<1> DEFINE k == sockets[fd]
           told == [toClient EXCEPT ![k] = @ \o <<status, End>>]
<1>1. /\ k \in Conn /\ far[k] = "open" /\ cut[k] = "no" /\ up
      /\ toServer[k] # <<>> /\ Head(toServer[k]) = End
      /\ toServer' = [toServer EXCEPT ![k] = Tail(@)]
      /\ UNCHANGED <<line, far, cut, up, crashes>>
  BY DEF ReadCommand, Readable, Connected, Ends
<1>2. <<>> \in Seq({"ST", "MI"})
  OBVIOUS
<1>3. Handled(fd) \in [Fd -> Seq({"ST", "MI"})]
  BY <1>2 DEF Handled, ChannelTypeOK, ServerTypeOK
<1>4. toClient \in [Conn -> Seq(ToClient)] /\ status \in 0..MaxStatus /\ status \in Nat
  BY DEF ChannelTypeOK, TcpTypeOK, ServerTypeOK, ToClient
<1>5. toClient[k] \o <<status, End>> \in Seq(ToClient)
  BY <1>1, <1>4, PairIsAdded, HalvesDiffer DEF ToClient
<1>6. told \in [Conn -> Seq(ToClient)]
  BY <1>4, <1>5
<1>7. \/ status' = status /\ Broadcast(status, told, Handled(fd))
      \/ status' \in 0..MaxStatus /\ Broadcast(status', toClient, Handled(fd))
      \/ /\ received[fd] \notin {<<"ST">>, <<"MI">>}
         /\ received' = Handled(fd)
         /\ UNCHANGED <<toClient, status, sockets, announced>>
  BY DEF ReadCommand
<1>8. status' = status /\ Broadcast(status, told, Handled(fd)) => Broadcast(status', told, Handled(fd))
  BY DEF Broadcast
<1> HIDE DEF told
<1>9. \/ \E answers \in [Conn -> Seq(ToClient)] :
           /\ answers = toClient \/ answers = told
           /\ status' \in 0..MaxStatus
           /\ Broadcast(status', answers, Handled(fd))
      \/ /\ received[fd] \notin {<<"ST">>, <<"MI">>}
         /\ received' = Handled(fd)
         /\ UNCHANGED <<toClient, status, sockets, announced>>
  BY <1>4, <1>6, <1>7, <1>8
<1> QED
  BY <1>1, <1>3, <1>9 DEF told

LEMMA ServerTyped ==
    ASSUME ChannelTypeOK, Server, UNCHANGED clientVars PROVE ChannelTypeOK'
<1> USE DEF ChannelTypeOK
<1>1. ClientTypeOK'
  BY DEF ClientTypeOK, clientVars
<1>2. ASSUME NEW k \in Conn, Accept(k) \/ SeeEnd(k) PROVE TcpTypeOK' /\ ServerTypeOK'
  <2>1. <<>> \in Seq({"ST", "MI"}) /\ <<>> \in Seq(Nat \cup {End})
    OBVIOUS
  <2>2. CASE Accept(k)
    BY <2>1, <2>2 DEF Accept, TcpTypeOK, ServerTypeOK
  <2>3. CASE SeeEnd(k)
    BY <2>1, <2>3 DEF SeeEnd, TcpTypeOK, ServerTypeOK, serverVars
  <2> QED
    BY <1>2, <2>2, <2>3
<1>3. ASSUME NEW fd \in Fd, ReadPart(fd) PROVE TcpTypeOK' /\ ServerTypeOK'
  <2> DEFINE k == sockets[fd]
  <2>1. k \in Conn /\ toServer[k] \in Seq(ToServer) /\ toServer[k] # <<>> /\ Head(toServer[k]) # End
    BY <1>3 DEF ReadPart, Readable, Connected, Ends, TcpTypeOK, ToServer
  <2>2. Tail(toServer[k]) \in Seq(ToServer) /\ Head(toServer[k]) \in {"ST", "MI"}
    BY <2>1, HalfRead
  <2>3. Append(received[fd], Head(toServer[k])) \in Seq({"ST", "MI"})
    BY <2>2 DEF ServerTypeOK
  <2>4. received' \in [Fd -> Seq({"ST", "MI"})]
    BY <1>3, <2>3 DEF ReadPart, ServerTypeOK
  <2>5. toServer' \in [Conn -> Seq(ToServer)]
    BY <1>3, <2>1, <2>2 DEF ReadPart, TcpTypeOK, ToServer
  <2> QED
    BY <1>3, <2>4, <2>5 DEF ReadPart, TcpTypeOK, ServerTypeOK, ToServer
<1>4. ASSUME NEW fd \in Fd, ReadCommand(fd) PROVE TcpTypeOK' /\ ServerTypeOK'
  <2> DEFINE k == sockets[fd]
  <2>1. /\ k \in Conn /\ toServer[k] # <<>>
        /\ toServer' = [toServer EXCEPT ![k] = Tail(@)]
        /\ UNCHANGED <<line, far, cut, up, crashes>>
    BY <1>4, CommandCases
  <2>2. Tail(toServer[k]) \in Seq(ToServer)
    BY <2>1, HalfRead DEF TcpTypeOK, ToServer
  <2>3. toServer' \in [Conn -> Seq(ToServer)]
    BY <2>1, <2>2 DEF TcpTypeOK, ToServer
  <2>4. /\ toClient' \in [Conn -> Seq(ToClient)]
        /\ sockets' \in [Fd -> Conn \cup {NoEntry, Null}]
        /\ received' \in [Fd -> Seq({"ST", "MI"})]
        /\ status' \in 0..MaxStatus /\ announced' \in 0..MaxStatus
    <3>1. CASE \E answers \in [Conn -> Seq(ToClient)] :
                 status' \in 0..MaxStatus /\ Broadcast(status', answers, Handled(fd))
      <4>1. PICK answers \in [Conn -> Seq(ToClient)] :
                 status' \in 0..MaxStatus /\ Broadcast(status', answers, Handled(fd))
        BY <3>1
      <4>2. Handled(fd) \in [Fd -> Seq({"ST", "MI"})]
        BY <1>4, CommandCases
      <4>3. status' \in Nat
        BY <4>1
      <4> QED
        BY <4>1, <4>2, <4>3, BroadcastTyped
    <3>2. CASE received' = Handled(fd) /\ UNCHANGED <<toClient, status, sockets, announced>>
      BY <1>4, <3>2, CommandCases DEF TcpTypeOK, ServerTypeOK, ToClient
    <3> QED
      BY <1>4, <3>1, <3>2, CommandCases
  <2> QED
    BY <2>1, <2>3, <2>4 DEF TcpTypeOK, ServerTypeOK, ToServer, ToClient
<1>5. CASE StatusChanges
  <2>1. toClient \in [Conn -> Seq(ToClient)] /\ received \in [Fd -> Seq({"ST", "MI"})]
    BY DEF TcpTypeOK, ServerTypeOK, ToClient
  <2>2. status' \in 0..MaxStatus /\ status' \in Nat /\ Broadcast(status', toClient, received)
    BY <1>5, FdAssumption DEF StatusChanges, ServerTypeOK
  <2>3. /\ toClient' \in [Conn -> Seq(ToClient)]
        /\ sockets' \in [Fd -> Conn \cup {NoEntry, Null}]
        /\ received' \in [Fd -> Seq({"ST", "MI"})]
        /\ announced' = status'
    BY <2>1, <2>2, BroadcastTyped
  <2> QED
    BY <1>1, <1>5, <2>2, <2>3 DEF StatusChanges, TcpTypeOK, ServerTypeOK, ToClient
<1>6. CASE CollectGarbage
  <2>1. <<>> \in Seq({"ST", "MI"})
    OBVIOUS
  <2>2. /\ sockets' \in [Fd -> Conn \cup {NoEntry, Null}]
        /\ received' \in [Fd -> Seq({"ST", "MI"})]
    BY <1>6, <2>1 DEF CollectGarbage, ServerTypeOK
  <2> QED
    BY <1>1, <1>6, <2>2 DEF CollectGarbage, TcpTypeOK, ServerTypeOK, tcpVars
<1>7. CASE Die
  <2>1. <<>> \in Seq({"ST", "MI"}) /\ <<>> \in Seq({"ST", "MI", End})
    OBVIOUS
  <2>2. crashes' \in 0..MaxCrashes
    BY <1>7, FdAssumption DEF Die, ServerTypeOK
  <2> QED
    BY <1>1, <1>7, <2>1, <2>2 DEF Die, TcpTypeOK, ServerTypeOK
<1>8. CASE Boot
  BY <1>1, <1>8 DEF Boot, TcpTypeOK, ServerTypeOK, tcpVars
<1>9. CASE LinkIsBack
  <2>1. status' \in 0..MaxStatus
    BY <1>9, FdAssumption DEF LinkIsBack, ServerTypeOK
  <2> QED
    BY <1>1, <1>9, <2>1 DEF LinkIsBack, TcpTypeOK, ServerTypeOK, tcpVars
<1> QED
  BY <1>1, <1>2, <1>3, <1>4, <1>5, <1>6, <1>7, <1>8, <1>9 DEF Server

LEMMA ConnectsUnused ==
    ASSUME NEW c \in Client, Connects(c)
    PROVE  up /\ \E k \in Conn : Unused(k) /\ Connect(c, k)
<1> DEFINE unused == {k \in Conn : Unused(k)}
<1>1. unused # {} /\ Connect(c, CHOOSE k \in unused : TRUE)
  BY DEF Connects
<1>2. (CHOOSE k \in unused : TRUE) \in unused
  BY <1>1
<1> QED
  BY <1>1, <1>2 DEF Connects

LEMMA MessagesTyped ==
    /\ <<"ST", End>> \in Seq(ToServer)
    /\ <<>> \in Seq(ToServer) /\ <<>> \in Seq(ToClient) /\ <<>> \in Seq(Nat)
    /\ \A s \in Seq(ToServer) : s \o <<"MI", End>> \in Seq(ToServer)
  BY PairIsAdded, HalvesDiffer DEF ToServer

\* ProcessMessage takes over what fits.
LEMMA SeenTyped ==
    ASSUME NEW T, NEW b \in Seq(T), Len(b) = 1 PROVE b # <<>> /\ Head(b) = b[1] /\ b[1] \in T
<1>1. b = <<>> <=> Len(b) = 0
  OBVIOUS
<1> QED
  BY <1>1, TailIsTyped

LEMMA ReadTyped ==
    ASSUME ChannelTypeOK, LineInv, NEW c \in Client, Read(c)
    PROVE  /\ line[c] \in Conn /\ toClient[line[c]] \in Seq(ToClient) /\ toClient[line[c]] # <<>>
           /\ toClient' = [toClient EXCEPT ![line[c]] = Tail(@)]
           /\ toClient' \in [Conn -> Seq(ToClient)]
           /\ buffer' \in [Client -> Seq(Nat)]
           /\ seen' \in [Client -> Nat]
<1> DEFINE k == line[c]
<1>1. /\ k \in Conn /\ toClient \in [Conn -> Seq(ToClient)] /\ buffer \in [Client -> Seq(Nat)]
      /\ seen \in [Client -> Nat]
  BY DEF Read, LineInv, ChannelTypeOK, TcpTypeOK, ClientTypeOK, ToClient
<1>2. toClient[k] # <<>> /\ toClient' = [toClient EXCEPT ![k] = Tail(@)]
  BY DEF Read
<1>3. Tail(toClient[k]) \in Seq(ToClient) /\ (Head(toClient[k]) # End => Head(toClient[k]) \in Nat)
  BY <1>1, <1>2, AnswerRead
<1>4. toClient' \in [Conn -> Seq(ToClient)]
  BY <1>1, <1>2, <1>3
<1>5. CASE Ends(toClient[k])
  <2>1. ProcessMessage(c) /\ buffer' = [buffer EXCEPT ![c] = <<>>]
    BY <1>5 DEF Read
  <2>2. Len(buffer[c]) = 1 => buffer[c][1] \in Nat
    BY <1>1, SeenTyped
  <2>3. seen' \in [Client -> Nat]
    BY <1>1, <2>1, <2>2 DEF ProcessMessage
  <2> QED
    BY <1>1, <1>2, <1>4, <2>1, <2>3, MessagesTyped
<1>6. CASE ~Ends(toClient[k])
  <2>1. buffer' = [buffer EXCEPT ![c] = Append(@, Head(toClient[k]))] /\ seen' = seen
    BY <1>6 DEF Read
  <2>2. Append(buffer[c], Head(toClient[k])) \in Seq(Nat)
    BY <1>1, <1>3, <1>6 DEF Ends
  <2> QED
    BY <1>1, <1>2, <1>4, <2>1, <2>2
<1> QED
  BY <1>5, <1>6

LEMMA ClientsTyped ==
    ASSUME ChannelTypeOK, LineInv, Clients, UNCHANGED serverVars PROVE ChannelTypeOK' /\ LineInv'
<1>1. ServerTypeOK'
  BY DEF ChannelTypeOK, ServerTypeOK, serverVars
<1>2. SUFFICES ASSUME NEW c \in Client,
                      \/ Connects(c) \/ Refused(c) \/ Fails(c) \/ WatchdogData(c)
                      \/ Disconnect(c) \/ Read(c) \/ SendCommand(c)
               PROVE  TcpTypeOK' /\ ClientTypeOK' /\ LineInv'
  BY <1>1 DEF Clients, ChannelTypeOK
<1> USE DEF ChannelTypeOK
<1>3. CASE Connects(c)
  <2>1. PICK k \in Conn : Unused(k) /\ Connect(c, k)
    BY <1>3, ConnectsUnused
  <2>2. TcpTypeOK'
    BY <2>1, MessagesTyped DEF Connect, ConnectedData, TcpTypeOK, ToServer, ToClient
  <2>3. ClientTypeOK'
    BY <2>1, MessagesTyped DEF Connect, ConnectedData, ClientTypeOK
  <2>4. line[c] = NoConn /\ k # NoConn /\ ~watchdog[c] /\ \A d \in Client : line[d] # k
    BY <2>1, ConnAssumption DEF Connect, Unused, LineInv
  <2>5. /\ line' = [line EXCEPT ![c] = k] /\ socket' = [socket EXCEPT ![c] = "connected"]
        /\ watchdog' = watchdog
    BY <2>1 DEF Connect
  <2>6. LineInv'
    BY <2>4, <2>5 DEF LineInv, ClientTypeOK, TcpTypeOK
  <2> QED
    BY <2>2, <2>3, <2>6
<1>4. CASE Refused(c)
  <2>1. TcpTypeOK' /\ ClientTypeOK'
    BY <1>4 DEF Refused, TcpTypeOK, ClientTypeOK, tcpVars
  <2>2. LineInv'
    BY <1>4 DEF Refused, LineInv, TcpTypeOK, ClientTypeOK, tcpVars
  <2> QED
    BY <2>1, <2>2
<1>5. CASE Fails(c)
  <2>1. TcpTypeOK' /\ ClientTypeOK'
    BY <1>5, ClientAssumption DEF Fails, TcpTypeOK, ClientTypeOK, tcpVars
  <2>2. LineInv'
    BY <1>5 DEF Fails, LineInv, TcpTypeOK, ClientTypeOK, tcpVars
  <2> QED
    BY <2>1, <2>2
<1>6. CASE WatchdogData(c)
  <2>1. TcpTypeOK' /\ ClientTypeOK'
    BY <1>6 DEF WatchdogData, TcpTypeOK, ClientTypeOK, tcpVars
  <2>2. LineInv'
    BY <1>6 DEF WatchdogData, LineInv, TcpTypeOK, ClientTypeOK, tcpVars
  <2> QED
    BY <2>1, <2>2
<1>7. CASE Disconnect(c)
  <2>1. TcpTypeOK'
    BY <1>7, MessagesTyped DEF Disconnect, TcpTypeOK, ToServer, ToClient
  <2>2. ClientTypeOK'
    BY <1>7 DEF Disconnect, DisconnectedData, ClientTypeOK
  <2>3. /\ line' = [line EXCEPT ![c] = NoConn] /\ socket' = [socket EXCEPT ![c] = "unconnected"]
        /\ watchdog' = [watchdog EXCEPT ![c] = TRUE]
    BY <1>7 DEF Disconnect, DisconnectedData
  <2>4. LineInv'
    BY <2>3, ConnAssumption DEF LineInv, ClientTypeOK, TcpTypeOK
  <2> QED
    BY <2>1, <2>2, <2>4
<1>8. CASE Read(c)
  <2>1. TcpTypeOK' /\ ClientTypeOK'
    BY <1>8, ReadTyped DEF Read, TcpTypeOK, ClientTypeOK, ToClient
  <2>2. LineInv'
    BY <1>8 DEF Read, LineInv
  <2> QED
    BY <2>1, <2>2
<1>9. CASE SendCommand(c)
  <2>1. toServer' \in [Conn -> Seq(ToServer)]
    BY <1>9, MessagesTyped DEF SendCommand, TcpTypeOK, ToServer
  <2>2. TcpTypeOK' /\ ClientTypeOK'
    BY <1>9, <2>1, ClientAssumption DEF SendCommand, TcpTypeOK, ClientTypeOK, ToServer
  <2>3. LineInv'
    BY <1>9 DEF SendCommand, LineInv
  <2> QED
    BY <2>2, <2>3
<1> QED
  BY <1>2, <1>3, <1>4, <1>5, <1>6, <1>7, <1>8, <1>9

LEMMA LossTyped ==
    ASSUME ChannelTypeOK, LineInv, NEW k \in Conn, NEW how \in {"told", "silent"}, Loss(k, how)
    PROVE  ChannelTypeOK' /\ LineInv'
<1>1. TcpTypeOK'
  BY MessagesTyped DEF Loss, Lose, ChannelTypeOK, TcpTypeOK, ToServer, ToClient
<1>2. ServerTypeOK' /\ ClientTypeOK'
  BY ClientAssumption DEF Loss, ChannelTypeOK, ServerTypeOK, ClientTypeOK, serverVars
<1>3. LineInv'
  BY DEF Loss, Lose, LineInv
<1> QED
  BY <1>1, <1>2, <1>3 DEF ChannelTypeOK

LEMMA ChannelInitTyped == ChannelInit => ChannelTypeOK /\ LineInv
<1> SUFFICES ASSUME ChannelInit PROVE ChannelTypeOK /\ LineInv
  OBVIOUS
<1>1. TcpTypeOK
  BY MessagesTyped DEF ChannelInit, TcpInit, TcpTypeOK, ToServer, ToClient
<1>2. ServerTypeOK
  <2>1. <<>> \in Seq({"ST", "MI"})
    OBVIOUS
  <2> QED
    BY <2>1, FdAssumption DEF ChannelInit, ServerInit, ServerTypeOK
<1>3. ClientTypeOK
  BY MessagesTyped, ClientAssumption DEF ChannelInit, ClientInit, ClientTypeOK
<1>4. LineInv
  BY ConnAssumption DEF ChannelInit, TcpInit, ClientInit, LineInv
<1> QED
  BY <1>1, <1>2, <1>3, <1>4 DEF ChannelTypeOK

LEMMA ChannelNextTyped ==
    ChannelTypeOK /\ LineInv /\ [ChannelNext]_channelVars => ChannelTypeOK' /\ LineInv'
<1> SUFFICES ASSUME ChannelTypeOK, LineInv, [ChannelNext]_channelVars PROVE ChannelTypeOK' /\ LineInv'
  OBVIOUS
<1>1. CASE Server /\ UNCHANGED clientVars
  <2>1. UNCHANGED line
    BY <1>1 DEF Server, Accept, SeeEnd, ReadPart, ReadCommand, StatusChanges, LinkIsBack, CollectGarbage, Die, Boot, tcpVars
  <2> QED
    BY <1>1, <2>1, ServerTyped DEF LineInv, clientVars
<1>2. CASE Clients /\ UNCHANGED serverVars
  BY <1>2, ClientsTyped
<1>3. ASSUME NEW k \in Conn, NEW how \in {"told", "silent"}, Loss(k, how) PROVE ChannelTypeOK' /\ LineInv'
  BY <1>3, LossTyped
<1>4. CASE UNCHANGED channelVars
  BY <1>4 DEF channelVars, tcpVars, serverVars, clientVars, LineInv, ChannelTypeOK, TcpTypeOK,
     ServerTypeOK, ClientTypeOK
<1> QED
  BY <1>1, <1>2, <1>3, <1>4 DEF ChannelNext

\* Every variable of the clients, of the server and of the connections between them keeps
\* its type, for any number of them.
THEOREM ChannelTypeCorrect == ChannelSpec => []ChannelTypeOK
  BY ChannelInitTyped, ChannelNextTyped, PTL DEF ChannelSpec

-----------------------------------------------------------------------------
(* The table of sockets: every open connection is in it, once, whatever other *)
(* entries it has that the server does not know to be closed.                 *)

TableInv ==
    /\ \A k \in Conn : far[k] = "waiting" => \A fd \in Fd : sockets[fd] # k
    /\ \A k \in Conn : far[k] = "open" => \E fd \in Fd : sockets[fd] = k
    /\ \A f, g \in Fd : sockets[f] \in Conn /\ sockets[f] = sockets[g] => f = g
    /\ ~up => \A k \in Conn : far[k] = "closed"

\* A broadcast, or a garbage collection, takes out closed sockets only.
LEMMA TableShrinks ==
    ASSUME ChannelTypeOK, TableInv, UNCHANGED <<far, up>>,
           \A fd \in Fd : sockets'[fd] = sockets[fd] \/ (~Connected(fd) /\ sockets'[fd] \notin Conn)
    PROVE  TableInv'
  BY DEF TableInv, Connected

LEMMA BroadcastShrinks ==
    ASSUME ChannelTypeOK, NEW now, NEW answers, NEW buffers, Broadcast(now, answers, buffers)
    PROVE  \A fd \in Fd : sockets'[fd] = sockets[fd] \/ (~Connected(fd) /\ sockets'[fd] \notin Conn)
  BY EntryAssumption DEF Broadcast, Left, ChannelTypeOK, ServerTypeOK

LEMMA AcceptExtends ==
    ASSUME ChannelTypeOK, TableInv, NEW k \in Conn, Accept(k)
    PROVE  /\ TableInv'
           /\ \E fd \in Fd : /\ ~Connected(fd) /\ sockets'[fd] = k /\ received'[fd] = <<>>
                             /\ \A g \in Fd \ {fd} : sockets'[g] = sockets[g] /\ received'[g] = received[g]
<1>1. PICK fd \in Fd \ Taken :
        /\ sockets' = [sockets EXCEPT ![fd] = k]
        /\ received' = [received EXCEPT ![fd] = <<>>]
  BY DEF Accept
<1>2. fd \in Fd /\ ~Connected(fd)
  BY <1>1 DEF Taken
<1>3. sockets'[fd] = k /\ received'[fd] = <<>>
      /\ \A g \in Fd \ {fd} : sockets'[g] = sockets[g] /\ received'[g] = received[g]
  BY <1>1, <1>2 DEF ChannelTypeOK, ServerTypeOK
<1>4. up /\ up' = up /\ far[k] = "waiting" /\ far' = [far EXCEPT ![k] = "open"] /\ far \in [Conn -> {"waiting", "open", "closed"}]
  BY DEF Accept, ChannelTypeOK, TcpTypeOK
<1>5. \A g \in Fd : sockets[g] # k
  BY <1>4 DEF TableInv
<1>6. TableInv'
  <2>1. ASSUME NEW m \in Conn, far'[m] = "waiting", NEW g \in Fd PROVE sockets'[g] # m
    <3>1. m # k /\ far[m] = "waiting"
      BY <1>4, <2>1
    <3> QED
      BY <1>3, <3>1 DEF TableInv
  <2>2. ASSUME NEW m \in Conn, far'[m] = "open" PROVE \E g \in Fd : sockets'[g] = m
    <3>1. CASE m = k
      BY <1>2, <1>3, <3>1
    <3>2. CASE m # k
      <4>1. PICK g \in Fd : sockets[g] = m /\ far[m] = "open"
        BY <1>4, <2>2, <3>2 DEF TableInv
      <4>2. g # fd
        BY <1>2, <4>1 DEF Connected
      <4> QED
        BY <1>3, <4>1, <4>2
    <3> QED
      BY <3>1, <3>2
  <2>3. ASSUME NEW f \in Fd, NEW g \in Fd, sockets'[f] \in Conn, sockets'[f] = sockets'[g] PROVE f = g
    BY <1>3, <1>5, <2>3 DEF TableInv
  <2> QED
    BY <1>4, <2>1, <2>2, <2>3 DEF TableInv
<1> QED
  BY <1>2, <1>3, <1>6

LEMMA TableInvKept ==
    ASSUME ChannelTypeOK, TableInv, LineInv, [ChannelNext]_channelVars PROVE TableInv'
<1>1. CASE Server /\ UNCHANGED clientVars
  <2>1. ASSUME NEW k \in Conn, Accept(k) PROVE TableInv'
    BY <2>1, AcceptExtends
  <2>2. ASSUME NEW k \in Conn, SeeEnd(k) PROVE TableInv'
    BY <2>2 DEF SeeEnd, TableInv, serverVars, ChannelTypeOK, TcpTypeOK
  <2>3. ASSUME NEW fd \in Fd, ReadPart(fd) PROVE TableInv'
    BY <2>3 DEF ReadPart, TableInv
  <2>4. ASSUME NEW fd \in Fd, ReadCommand(fd) PROVE TableInv'
    <3>1. UNCHANGED <<far, up>>
      BY <2>4 DEF ReadCommand
    <3>2. \A g \in Fd : sockets'[g] = sockets[g] \/ (~Connected(g) /\ sockets'[g] \notin Conn)
      <4>1. CASE UNCHANGED sockets
        BY <4>1
      <4>2. ASSUME NEW now, NEW answers, Broadcast(now, answers, Handled(fd))
            PROVE  \A g \in Fd : sockets'[g] = sockets[g] \/ (~Connected(g) /\ sockets'[g] \notin Conn)
        BY <4>2, BroadcastShrinks
      <4> QED
        BY <2>4, <4>1, <4>2 DEF ReadCommand
    <3> QED
      BY <3>1, <3>2, TableShrinks
  <2>5. CASE StatusChanges
    <3>1. UNCHANGED <<far, up>> /\ Broadcast(status', toClient, received)
      BY <2>5 DEF StatusChanges
    <3> QED
      BY <3>1, BroadcastShrinks, TableShrinks
  <2>6. CASE CollectGarbage
    <3>1. PICK gone \in SUBSET {fd \in Fd : sockets[fd] = Null} :
            sockets' = [fd \in Fd |-> IF fd \in gone THEN NoEntry ELSE sockets[fd]]
      BY <2>6 DEF CollectGarbage
    <3>2. \A g \in Fd : sockets'[g] = sockets[g] \/ (~Connected(g) /\ sockets'[g] \notin Conn)
      BY <3>1, EntryAssumption DEF Connected
    <3> QED
      BY <2>6, <3>2, TableShrinks DEF CollectGarbage, tcpVars
  <2>7. CASE Die
    BY <2>7, EntryAssumption DEF Die, TableInv
  <2>8. CASE Boot
    BY <2>8 DEF Boot, TableInv, tcpVars
  <2>9. CASE LinkIsBack
    BY <2>9 DEF LinkIsBack, TableInv, tcpVars
  <2> QED
    BY <1>1, <2>1, <2>2, <2>3, <2>4, <2>5, <2>6, <2>7, <2>8, <2>9 DEF Server
<1>2. CASE Clients /\ UNCHANGED serverVars
  <2>1. PICK c \in Client :
          \/ Connects(c) \/ Refused(c) \/ Fails(c) \/ WatchdogData(c)
          \/ Disconnect(c) \/ Read(c) \/ SendCommand(c)
    BY <1>2 DEF Clients
  <2>2. CASE Connects(c)
    <3>1. up /\ \E k \in Conn : Unused(k) /\ Connect(c, k)
      BY <2>2, ConnectsUnused
    <3>2. PICK k \in Conn : Unused(k) /\ Connect(c, k)
      BY <3>1
    <3>3. \A fd \in Fd : sockets[fd] # k
      BY <3>2 DEF Unused
    <3> QED
      BY <1>2, <3>1, <3>2, <3>3 DEF Connect, TableInv, serverVars, ChannelTypeOK, TcpTypeOK
  <2>3. CASE ~Connects(c)
    <3>1. UNCHANGED <<far, sockets, up>>
      BY <1>2, <2>1, <2>3 DEF Refused, Fails, WatchdogData, Disconnect, Read, SendCommand, tcpVars, serverVars
    <3> QED
      BY <3>1 DEF TableInv
  <2> QED
    BY <2>2, <2>3
<1>3. ASSUME NEW k \in Conn, NEW how \in {"told", "silent"}, Loss(k, how) PROVE TableInv'
  BY <1>3 DEF Loss, Lose, TableInv, serverVars
<1>4. CASE UNCHANGED channelVars
  BY <1>4 DEF channelVars, tcpVars, serverVars, TableInv
<1> QED
  BY <1>1, <1>2, <1>3, <1>4 DEF ChannelNext

-----------------------------------------------------------------------------
(* Commands.  The buffer of an open connection holds the first half of the command whose *)
(* End comes next; a connection that waits has its ST in front.                          *)

Fits(buf, halves) == IF buf = <<>> THEN AtStart(halves) ELSE AtEnd(halves)

WholeInv ==
    /\ \A k \in Conn : Alternates(toServer[k])
    /\ \A k \in Conn : far[k] = "waiting" /\ cut[k] = "no" => toServer[k] # <<>> /\ Head(toServer[k]) = "ST"
    /\ \A fd \in Fd : Connected(fd) /\ cut[sockets[fd]] = "no" => Fits(received[fd], toServer[sockets[fd]])
    /\ CommandsAreWhole

\* Nothing happens to the halves under way.  Entries of the table are as they were, or are
\* not connected.
LEMMA WholeUnread ==
    ASSUME ChannelTypeOK, WholeInv,
           \A k \in Conn : far'[k] = far[k] \/ far'[k] = "closed",
           \A k \in Conn : cut'[k] = "no" /\ far'[k] # "closed" => cut[k] = "no" /\ toServer'[k] = toServer[k],
           \A k \in Conn : toServer'[k] \in {toServer[k], <<>>},
           \A fd \in Fd : \/ sockets'[fd] = sockets[fd] /\ received'[fd] = received[fd]
                          \/ sockets'[fd] \notin Conn /\ received'[fd] = <<>>
    PROVE  WholeInv'
<1>1. \A k \in Conn : Alternates(toServer'[k])
  BY NothingAlternates DEF WholeInv
<1>2. ASSUME NEW k \in Conn, far'[k] = "waiting", cut'[k] = "no"
      PROVE  toServer'[k] # <<>> /\ Head(toServer'[k]) = "ST"
  BY <1>2 DEF WholeInv
<1>3. ASSUME NEW fd \in Fd, Connected(fd)', cut'[sockets'[fd]] = "no"
      PROVE  Fits(received'[fd], toServer'[sockets'[fd]])
  BY <1>3 DEF WholeInv, Connected
<1>4. CommandsAreWhole'
  <2> SUFFICES ASSUME NEW fd \in Fd PROVE Len(received'[fd]) <= 1
    BY DEF CommandsAreWhole
  <2>1. Len(<<>>) <= 1
    OBVIOUS
  <2> QED
    BY <2>1 DEF WholeInv, CommandsAreWhole
<1> QED
  BY <1>1, <1>2, <1>3, <1>4 DEF WholeInv, Alternates, Fits, AtStart, AtEnd

\* One half is read into the buffer of fd, or one End that empties it.
LEMMA WholeRead ==
    ASSUME ChannelTypeOK, TableInv, WholeInv, NEW fd \in Fd, Readable(fd),
           UNCHANGED <<far, cut>>,
           toServer' = [toServer EXCEPT ![sockets[fd]] = Tail(@)],
           IF Ends(toServer[sockets[fd]]) THEN received'[fd] = <<>>
           ELSE received'[fd] = Append(received[fd], Head(toServer[sockets[fd]])),
           sockets'[fd] = sockets[fd],
           \A g \in Fd \ {fd} : \/ sockets'[g] = sockets[g] /\ received'[g] = received[g]
                                \/ sockets'[g] \notin Conn /\ received'[g] = <<>>
    PROVE  WholeInv'
<1> DEFINE k == sockets[fd]
           s == toServer[k]
<1>1. /\ k \in Conn /\ far[k] = "open" /\ cut[k] = "no"
      /\ s \in Seq(ToServer) /\ s # <<>> /\ Alternates(s) /\ Fits(received[fd], s)
      /\ \A m \in Conn : toServer'[m] = IF m = k THEN Tail(s) ELSE toServer[m]
  BY DEF Readable, Connected, WholeInv, ChannelTypeOK, TcpTypeOK, ToServer
<1> HIDE DEF s, k
<1>2. /\ Alternates(Tail(s))
      /\ Head(s) # End => AtEnd(Tail(s))
      /\ Head(s) = End => AtStart(Tail(s))
  BY <1>1, TailAlternates
<1>3. Len(received'[fd]) <= 1 /\ Fits(received'[fd], Tail(s))
  <2>1. CASE Ends(s)
    BY <1>2, <2>1 DEF Ends, Fits, s, k
  <2>2. CASE ~Ends(s)
    <3>1. received[fd] = <<>>
      BY <1>1, <2>2 DEF Ends, Fits, AtEnd
    <3>2. received'[fd] = Append(<<>>, Head(s))
      BY <2>2, <3>1 DEF s, k
    <3>3. Len(received'[fd]) = 1 /\ received'[fd] # <<>>
      BY <3>2
    <3> QED
      BY <1>2, <2>2, <3>3 DEF Ends, Fits
  <2> QED
    BY <2>1, <2>2
<1>4. \A m \in Conn : Alternates(toServer'[m])
  BY <1>1, <1>2 DEF WholeInv
<1>5. ASSUME NEW m \in Conn, far'[m] = "waiting", cut'[m] = "no"
      PROVE  toServer'[m] # <<>> /\ Head(toServer'[m]) = "ST"
  <2>1. m # k
    BY <1>1, <1>5
  <2> QED
    BY <1>1, <1>5, <2>1 DEF WholeInv
<1>6. ASSUME NEW g \in Fd, Connected(g)', cut'[sockets'[g]] = "no"
      PROVE  Fits(received'[g], toServer'[sockets'[g]])
  <2>1. CASE g = fd
    BY <1>1, <1>3, <2>1 DEF k
  <2>2. CASE g # fd
    <3>1. sockets'[g] = sockets[g] /\ received'[g] = received[g] /\ sockets[g] \in Conn
      BY <1>6, <2>2 DEF Connected
    <3>2. sockets[g] # k
      BY <2>2, <3>1 DEF TableInv, k
    <3>3. Connected(g) /\ cut[sockets[g]] = "no"
      BY <1>6, <3>1 DEF Connected
    <3> QED
      BY <1>1, <3>1, <3>2, <3>3 DEF WholeInv
  <2> QED
    BY <2>1, <2>2
<1>7. CommandsAreWhole'
  <2> SUFFICES ASSUME NEW g \in Fd PROVE Len(received'[g]) <= 1
    BY DEF CommandsAreWhole
  <2>1. Len(<<>>) <= 1
    OBVIOUS
  <2> QED
    BY <1>3, <2>1 DEF WholeInv, CommandsAreWhole
<1> QED
  BY <1>4, <1>5, <1>6, <1>7 DEF WholeInv, Alternates, Fits, AtStart, AtEnd

LEMMA WholeAccept ==
    ASSUME ChannelTypeOK, TableInv, WholeInv, NEW k \in Conn, Accept(k) PROVE WholeInv'
<1>1. PICK fd \in Fd : /\ ~Connected(fd) /\ sockets'[fd] = k /\ received'[fd] = <<>>
                       /\ \A g \in Fd \ {fd} : sockets'[g] = sockets[g] /\ received'[g] = received[g]
  BY AcceptExtends
<1>2. /\ far[k] = "waiting" /\ UNCHANGED <<cut, toServer>>
      /\ \A m \in Conn : far'[m] = IF m = k THEN "open" ELSE far[m]
      /\ \A g \in Fd : sockets[g] # k
  BY DEF Accept, ChannelTypeOK, TcpTypeOK, TableInv
<1>3. ASSUME NEW g \in Fd, Connected(g)', cut'[sockets'[g]] = "no"
      PROVE  Fits(received'[g], toServer'[sockets'[g]])
  <2>1. CASE g = fd
    BY <1>1, <1>2, <1>3, <2>1, HalvesDiffer DEF WholeInv, Fits, AtStart
  <2>2. CASE g # fd
    BY <1>1, <1>2, <1>3, <2>2 DEF WholeInv, Connected
  <2> QED
    BY <2>1, <2>2
<1>4. CommandsAreWhole'
  <2> SUFFICES ASSUME NEW g \in Fd PROVE Len(received'[g]) <= 1
    BY DEF CommandsAreWhole
  <2>1. Len(<<>>) <= 1
    OBVIOUS
  <2> QED
    BY <1>1, <2>1 DEF WholeInv, CommandsAreWhole
<1>5. /\ \A m \in Conn : Alternates(toServer'[m])
      /\ \A m \in Conn : far'[m] = "waiting" /\ cut'[m] = "no" => toServer'[m] # <<>> /\ Head(toServer'[m]) = "ST"
  BY <1>2 DEF WholeInv
<1> QED
  BY <1>3, <1>4, <1>5 DEF WholeInv, Alternates, Fits, AtStart, AtEnd

LEMMA WholeServer ==
    ASSUME ChannelTypeOK, TableInv, WholeInv, Server PROVE WholeInv'
<1>1. ASSUME NEW k \in Conn, Accept(k) PROVE WholeInv'
  BY <1>1, WholeAccept
<1>2. ASSUME NEW k \in Conn, SeeEnd(k) PROVE WholeInv'
  BY <1>2, WholeUnread DEF SeeEnd, serverVars, ChannelTypeOK, TcpTypeOK
<1>3. ASSUME NEW fd \in Fd, ReadPart(fd) PROVE WholeInv'
  <2>1. received' = [received EXCEPT ![fd] = Append(@, Head(toServer[sockets[fd]]))]
    BY <1>3 DEF ReadPart
  <2>2. /\ received'[fd] = Append(received[fd], Head(toServer[sockets[fd]]))
        /\ \A g \in Fd \ {fd} : received'[g] = received[g]
    BY <2>1 DEF ChannelTypeOK, ServerTypeOK
  <2> QED
    BY <1>3, <2>2, WholeRead DEF ReadPart
<1>4. ASSUME NEW fd \in Fd, ReadCommand(fd) PROVE WholeInv'
  <2>1. /\ Handled(fd)[fd] = <<>>
        /\ \A g \in Fd \ {fd} : Handled(fd)[g] = received[g]
    BY DEF Handled, ChannelTypeOK, ServerTypeOK
  <2>2. /\ Readable(fd) /\ Ends(toServer[sockets[fd]]) /\ Connected(fd)
        /\ UNCHANGED <<far, cut>>
        /\ toServer' = [toServer EXCEPT ![sockets[fd]] = Tail(@)]
    BY <1>4 DEF ReadCommand, Readable
  <2>3. /\ sockets'[fd] = sockets[fd] /\ received'[fd] = <<>>
        /\ \A g \in Fd \ {fd} : \/ sockets'[g] = sockets[g] /\ received'[g] = received[g]
                                \/ sockets'[g] \notin Conn /\ received'[g] = <<>>
    <3>1. ASSUME NEW now, NEW answers, Broadcast(now, answers, Handled(fd))
          PROVE  /\ sockets'[fd] = sockets[fd] /\ received'[fd] = <<>>
                 /\ \A g \in Fd \ {fd} : \/ sockets'[g] = sockets[g] /\ received'[g] = received[g]
                                         \/ sockets'[g] \notin Conn /\ received'[g] = <<>>
      BY <2>1, <2>2, <3>1, EntryAssumption DEF Broadcast, Left
    <3>2. CASE received' = Handled(fd) /\ UNCHANGED sockets
      BY <2>1, <3>2
    <3> QED
      BY <1>4, <3>1, <3>2 DEF ReadCommand
  <2> QED
    BY <2>2, <2>3, WholeRead
<1>5. CASE StatusChanges
  <2>1. UNCHANGED <<far, cut, toServer>> /\ Broadcast(status', toClient, received)
    BY <1>5 DEF StatusChanges
  <2>2. \A fd \in Fd : \/ sockets'[fd] = sockets[fd] /\ received'[fd] = received[fd]
                       \/ sockets'[fd] \notin Conn /\ received'[fd] = <<>>
    BY <2>1, EntryAssumption DEF Broadcast
  <2> QED
    BY <2>1, <2>2, WholeUnread
<1>6. CASE CollectGarbage
  <2>1. PICK gone \in SUBSET {fd \in Fd : sockets[fd] = Null} :
          /\ sockets' = [fd \in Fd |-> IF fd \in gone THEN NoEntry ELSE sockets[fd]]
          /\ received' = [fd \in Fd |-> IF fd \in gone THEN <<>> ELSE received[fd]]
    BY <1>6 DEF CollectGarbage
  <2>2. \A fd \in Fd : \/ sockets'[fd] = sockets[fd] /\ received'[fd] = received[fd]
                       \/ sockets'[fd] \notin Conn /\ received'[fd] = <<>>
    BY <2>1, EntryAssumption
  <2> QED
    BY <1>6, <2>2, WholeUnread DEF CollectGarbage, tcpVars
<1>7. CASE Die
  BY <1>7, EntryAssumption, WholeUnread DEF Die
<1>8. CASE Boot
  BY <1>8, WholeUnread DEF Boot, tcpVars
<1>9. CASE LinkIsBack
  BY <1>9, WholeUnread DEF LinkIsBack, tcpVars
<1> QED
  BY <1>1, <1>2, <1>3, <1>4, <1>5, <1>6, <1>7, <1>8, <1>9 DEF Server

LEMMA WholeConnect ==
    ASSUME ChannelTypeOK, WholeInv, UNCHANGED serverVars,
           NEW c \in Client, NEW k \in Conn, Unused(k), Connect(c, k)
    PROVE  WholeInv'
<1>1. /\ \A m \in Conn \ {k} : far'[m] = far[m] /\ cut'[m] = cut[m] /\ toServer'[m] = toServer[m]
      /\ toServer'[k] = <<"ST", End>> /\ \A fd \in Fd : sockets[fd] # k
      /\ UNCHANGED <<sockets, received>>
  BY DEF Connect, ConnectedData, Unused, serverVars, ChannelTypeOK, TcpTypeOK
<1>2. Alternates(<<"ST", End>>) /\ <<"ST", End>> # <<>> /\ Head(<<"ST", End>>) = "ST"
  BY HalvesDiffer DEF Alternates
<1>3. \A fd \in Fd : Connected(fd)' => Connected(fd) /\ sockets'[fd] = sockets[fd] /\ sockets[fd] \in Conn \ {k}
  BY <1>1 DEF Connected
<1>4. CommandsAreWhole'
  BY <1>1 DEF WholeInv, CommandsAreWhole
<1>5. /\ \A m \in Conn : Alternates(toServer'[m])
      /\ \A m \in Conn : far'[m] = "waiting" /\ cut'[m] = "no" => toServer'[m] # <<>> /\ Head(toServer'[m]) = "ST"
  BY <1>1, <1>2 DEF WholeInv
<1>6. ASSUME NEW g \in Fd, Connected(g)', cut'[sockets'[g]] = "no"
      PROVE  Fits(received'[g], toServer'[sockets'[g]])
  BY <1>1, <1>3, <1>6 DEF WholeInv
<1> QED
  BY <1>4, <1>5, <1>6 DEF WholeInv, Alternates, Fits, AtStart, AtEnd

LEMMA WholeSend ==
    ASSUME ChannelTypeOK, LineInv, WholeInv, UNCHANGED serverVars, NEW c \in Client, SendCommand(c)
    PROVE  WholeInv'
<1> DEFINE k == line[c]
           t == toServer[k] \o <<"MI", End>>
<1>1. /\ k \in Conn /\ toServer[k] \in Seq(ToServer) /\ Alternates(toServer[k])
      /\ \A m \in Conn : toServer'[m] = IF m = k THEN t ELSE toServer[m]
      /\ UNCHANGED <<far, cut, sockets, received>>
  BY DEF SendCommand, LineInv, WholeInv, serverVars, ChannelTypeOK, TcpTypeOK, ToServer
<1>2. /\ Alternates(t)
      /\ AtStart(toServer[k]) => AtStart(t)
      /\ AtEnd(toServer[k]) => AtEnd(t)
  BY <1>1, MessageAlternates, HalvesDiffer DEF ToServer
<1>3. t # <<>> /\ (toServer[k] # <<>> => Head(t) = Head(toServer[k]))
  BY <1>1, PairIsAdded, HalvesDiffer DEF ToServer
<1> HIDE DEF t
<1>4. /\ \A m \in Conn : Alternates(toServer'[m])
      /\ \A m \in Conn : far'[m] = "waiting" /\ cut'[m] = "no" => toServer'[m] # <<>> /\ Head(toServer'[m]) = "ST"
  BY <1>1, <1>2, <1>3 DEF WholeInv
<1>5. ASSUME NEW g \in Fd, Connected(g)', cut'[sockets'[g]] = "no"
      PROVE  Fits(received'[g], toServer'[sockets'[g]])
  <2>1. Fits(received[g], toServer[sockets[g]]) /\ sockets[g] \in Conn
    BY <1>1, <1>5 DEF WholeInv, Connected
  <2> QED
    BY <1>1, <1>2, <2>1 DEF Fits
<1>6. CommandsAreWhole'
  BY <1>1 DEF WholeInv, CommandsAreWhole
<1> QED
  BY <1>4, <1>5, <1>6 DEF WholeInv, Alternates, Fits, AtStart, AtEnd

LEMMA WholeInvKept ==
    ASSUME ChannelTypeOK, LineInv, TableInv, WholeInv, [ChannelNext]_channelVars PROVE WholeInv'
<1>1. CASE Server
  BY <1>1, WholeServer
<1>2. ASSUME NEW c \in Client, UNCHANGED serverVars,
             \/ Connects(c) \/ Refused(c) \/ Fails(c) \/ WatchdogData(c)
             \/ Disconnect(c) \/ Read(c) \/ SendCommand(c)
      PROVE  WholeInv'
  <2>1. CASE Connects(c)
    BY <1>2, <2>1, ConnectsUnused, WholeConnect
  <2>2. CASE Refused(c) \/ Fails(c) \/ WatchdogData(c) \/ Read(c)
    <3>1. UNCHANGED <<far, cut, toServer, sockets, received>>
      BY <1>2, <2>2 DEF Refused, Fails, WatchdogData, Read, tcpVars, serverVars
    <3> QED
      BY <3>1, WholeUnread
  <2>3. CASE Disconnect(c)
    <3>1. /\ line[c] \in Conn /\ (far[line[c]] = "closed" \/ cut[line[c]] # "no")
          /\ toServer' = [toServer EXCEPT ![line[c]] = <<>>]
          /\ UNCHANGED <<far, cut, sockets, received>>
      BY <1>2, <2>3 DEF Disconnect, EndShows, LineInv, serverVars, ChannelTypeOK, TcpTypeOK
    <3> QED
      BY <3>1, WholeUnread DEF ChannelTypeOK, TcpTypeOK
  <2>4. CASE SendCommand(c)
    BY <1>2, <2>4, WholeSend
  <2> QED
    BY <1>2, <2>1, <2>2, <2>3, <2>4
<1>3. ASSUME NEW k \in Conn, NEW how \in {"told", "silent"}, Loss(k, how) PROVE WholeInv'
  <2>1. /\ cut' = [cut EXCEPT ![k] = how] /\ toServer' = [toServer EXCEPT ![k] = <<>>]
        /\ UNCHANGED <<far, sockets, received>> /\ how # "no"
    BY <1>3 DEF Loss, Lose, serverVars
  <2> QED
    BY <2>1, WholeUnread DEF ChannelTypeOK, TcpTypeOK
<1>4. CASE UNCHANGED channelVars
  BY <1>4, WholeUnread DEF channelVars, tcpVars, serverVars
<1> QED
  BY <1>1, <1>2, <1>3, <1>4 DEF ChannelNext, Clients

LEMMA ChannelInitWhole == ChannelInit => TableInv /\ WholeInv
<1> SUFFICES ASSUME ChannelInit PROVE TableInv /\ WholeInv
  OBVIOUS
<1>1. TableInv
  BY EntryAssumption DEF ChannelInit, TcpInit, ServerInit, TableInv
<1>2. Len(<<>>) <= 1
  OBVIOUS
<1>3. WholeInv
  BY <1>2, NothingAlternates DEF ChannelInit, TcpInit, ServerInit, WholeInv, CommandsAreWhole, Connected
<1> QED
  BY <1>1, <1>3

\* No command is put together from halves of two connections, whichever descriptors the
\* system gives out again, for any number of clients, connections and crashes.
THEOREM CommandsAreWholeHolds == ChannelSpec => []CommandsAreWhole
<1>1. ChannelInit => TableInv /\ WholeInv
  BY ChannelInitWhole
<1>2. ChannelTypeOK /\ LineInv /\ TableInv /\ WholeInv /\ [ChannelNext]_channelVars => TableInv' /\ WholeInv'
  BY TableInvKept, WholeInvKept
<1>3. WholeInv => CommandsAreWhole
  BY DEF WholeInv
<1> QED
  BY <1>1, <1>2, <1>3, ChannelInitTyped, ChannelNextTyped, PTL DEF ChannelSpec

\* A buffer that holds one half of a command at most, and one, holds a command.
LEMMA OneCommand ==
    ASSUME NEW b \in Seq({"ST", "MI"}), b # <<>>, Len(b) <= 1 PROVE b \in {<<"ST">>, <<"MI">>}
<1>1. Len(b) = 1
  BY OneHalf
<1>2. b[1] \in {"ST", "MI"}
  BY TailIsTyped
<1>3. b = <<b[1]>>
  BY <1>1
<1> QED
  BY <1>2, <1>3

\* What is read as the end of a command ends one that a client sent: no half of a command
\* is lost between two reads, or left from the client that had the descriptor before.
THEOREM CommandsAreKnownHolds == ChannelSpec => []CommandsAreKnown
<1>1. ChannelInit => TableInv /\ WholeInv
  BY ChannelInitWhole
<1>2. ChannelTypeOK /\ LineInv /\ TableInv /\ WholeInv /\ [ChannelNext]_channelVars => TableInv' /\ WholeInv'
  BY TableInvKept, WholeInvKept
<1>3. ChannelTypeOK /\ WholeInv => CommandsAreKnown
  <2> SUFFICES ASSUME ChannelTypeOK, WholeInv, NEW fd \in Fd, Readable(fd), Ends(toServer[sockets[fd]])
               PROVE  received[fd] \in {<<"ST">>, <<"MI">>}
    BY DEF CommandsAreKnown
  <2>1. Fits(received[fd], toServer[sockets[fd]]) /\ toServer[sockets[fd]] # <<>>
    BY DEF WholeInv, Readable
  <2>2. received[fd] # <<>>
    BY <2>1, Zenon DEF Fits, AtStart, Ends
  <2>3. received[fd] \in Seq({"ST", "MI"}) /\ Len(received[fd]) <= 1
    BY DEF WholeInv, CommandsAreWhole, ChannelTypeOK, ServerTypeOK
  <2> QED
    BY <2>2, <2>3, OneCommand
<1> QED
  BY <1>1, <1>2, <1>3, ChannelInitTyped, ChannelNextTyped, PTL DEF ChannelSpec

\* The watchdog of a client runs when, and only when, it has no connection and does not
\* try to get one, unless its last attempt ended with an error that errorData ignores.
THEOREM RetryIsScheduledHolds == ChannelSpec => []RetryIsScheduled
<1> DEFINE Inv == \A c \in Client : socket[c] = "unconnected" => watchdog[c] \/ gaveUp[c]
<1>1. ChannelInit => Inv
  BY DEF ChannelInit, ClientInit
<1>2. ASSUME ChannelTypeOK, Inv, [ChannelNext]_channelVars PROVE Inv'
  <2>1. CASE UNCHANGED <<socket, watchdog, gaveUp>>
    BY <1>2, <2>1
  <2>2. ASSUME NEW c \in Client, Connects(c) \/ Read(c) \/ SendCommand(c) PROVE Inv'
    <3>1. UNCHANGED <<watchdog, gaveUp>> /\ socket' \in {socket, [socket EXCEPT ![c] = "connected"]}
      BY <2>2, ConnectsUnused DEF Connect, Read, SendCommand
    <3> QED
      BY <1>2, <3>1 DEF ChannelTypeOK, ClientTypeOK
  <2>3. ASSUME NEW c \in Client, Refused(c) \/ Disconnect(c) PROVE Inv'
    <3>1. /\ UNCHANGED gaveUp /\ watchdog' = [watchdog EXCEPT ![c] = TRUE]
          /\ socket' = [socket EXCEPT ![c] = "unconnected"]
      BY <2>3 DEF Refused, Disconnect, DisconnectedData
    <3> QED
      BY <1>2, <3>1 DEF ChannelTypeOK, ClientTypeOK
  <2>4. ASSUME NEW c \in Client, Fails(c) PROVE Inv'
    BY <1>2, <2>4 DEF Fails, ChannelTypeOK, ClientTypeOK
  <2>5. ASSUME NEW c \in Client, WatchdogData(c) PROVE Inv'
    BY <1>2, <2>5 DEF WatchdogData, ChannelTypeOK, ClientTypeOK
  <2> QED
    BY <1>2, <2>1, <2>2, <2>3, <2>4, <2>5 DEF ChannelNext, Clients, Loss, clientVars, channelVars
<1>3. LineInv /\ Inv => RetryIsScheduled
  BY DEF LineInv, RetryIsScheduled
<1> QED
  BY <1>1, <1>2, <1>3, ChannelInitTyped, ChannelNextTyped, PTL DEF ChannelSpec

-----------------------------------------------------------------------------
(* Statuses.  What a client reads is whole, and the last status on its way to a client  *)
(* whose ST was answered is the one that was announced last.                            *)

ReadInv ==
    /\ \A k \in Conn : Alternates(toClient[k])
    /\ \A c \in Client : line[c] \in Conn /\ cut[line[c]] = "no" =>
         Fits(buffer[c], toClient[line[c]]) /\ Len(buffer[c]) <= 1

Pending(k) ==
    \/ \E i \in 1..Len(toServer[k]) : toServer[k][i] = "ST"
    \/ \E fd \in Fd : sockets[fd] = k /\ received[fd] = <<"ST">>

\* The last status that a client has seen, has read half of, or can still read.
LastOf(halves, half, shown) ==
    IF halves = <<>> THEN shown
    ELSE IF Len(halves) = 1 THEN half[1]
    ELSE halves[Len(halves) - 1]

Latest(c, k) == LastOf(toClient[k], buffer[c], seen[c])

FreshInv == \A c \in Client, k \in Conn :
    line[c] = k /\ far[k] = "open" /\ cut[k] = "no" => Pending(k) \/ Latest(c, k) = announced

\* t is s with messages added.
Extends(s, t) == Alternates(t) /\ (AtStart(s) => AtStart(t)) /\ (AtEnd(s) => AtEnd(t))

LEMMA StatusIsAdded ==
    ASSUME NEW s \in Seq(ToClient), Alternates(s), NEW x \in Nat
    PROVE  LET t == s \o <<x, End>> IN
             /\ t \in Seq(ToClient) /\ Extends(s, t)
             /\ t # <<>> /\ Len(t) # 1 /\ t[Len(t) - 1] = x
<1> DEFINE t == s \o <<x, End>>
<1>1. x \in ToClient /\ End \in ToClient /\ x # End
  BY HalvesDiffer DEF ToClient
<1>2. /\ t \in Seq(ToClient) /\ Len(t) = Len(s) + 2 /\ t # <<>>
      /\ t[Len(s)+1] = x
  BY <1>1, PairIsAdded
<1>3. Extends(s, t)
  BY <1>1, MessageAlternates DEF Extends
<1>4. Len(s) \in Nat
  OBVIOUS
<1> HIDE DEF t
<1>5. Len(t) # 1 /\ Len(t) - 1 = Len(s) + 1
  BY <1>2, <1>4
<1> QED
  BY <1>2, <1>3, <1>5 DEF t

\* A broadcast leaves its status last for every open connection.
LEMMA BroadcastSays ==
    ASSUME ChannelTypeOK, TableInv, ReadInv, NEW now \in Nat, NEW buffers, NEW m \in Conn,
           NEW answers, answers \in {toClient, [toClient EXCEPT ![m] = @ \o <<status, End>>]},
           Broadcast(now, answers, buffers), NEW k \in Conn
    PROVE  /\ Extends(toClient[k], toClient'[k])
           /\ far[k] = "open" => /\ toClient'[k] # <<>> /\ Len(toClient'[k]) # 1
                                 /\ toClient'[k][Len(toClient'[k]) - 1] = now
<1>1. toClient[k] \in Seq(ToClient) /\ Alternates(toClient[k]) /\ status \in Nat
  BY DEF ChannelTypeOK, TcpTypeOK, ServerTypeOK, ReadInv, ToClient
<1>2. answers[k] \in {toClient[k], toClient[k] \o <<status, End>>}
  BY DEF ChannelTypeOK, TcpTypeOK
<1>3. answers[k] \in Seq(ToClient) /\ Extends(toClient[k], answers[k])
  BY <1>1, <1>2, StatusIsAdded DEF Extends
<1>4. CASE k \in Listening
  <2>1. toClient'[k] = answers[k] \o <<now, End>>
    BY <1>4 DEF Broadcast
  <2>2. /\ Extends(answers[k], toClient'[k])
        /\ toClient'[k] # <<>> /\ Len(toClient'[k]) # 1
        /\ toClient'[k][Len(toClient'[k]) - 1] = now
    BY <1>3, <2>1, StatusIsAdded DEF Extends
  <2> QED
    BY <1>3, <2>2 DEF Extends
<1>5. CASE k \notin Listening
  <2>1. toClient'[k] = answers[k]
    BY <1>5 DEF Broadcast
  <2>2. far[k] # "open"
    BY <1>5 DEF TableInv, Listening, Taken, Connected
  <2> QED
    BY <1>3, <2>1, <2>2
<1> QED
  BY <1>4, <1>5

\* Nobody reads, and nobody connects.
LEMMA ReadUnread ==
    ASSUME ReadInv,
           \A k \in Conn : Alternates(toClient'[k]),
           \A c \in Client : line'[c] \in Conn /\ cut'[line'[c]] = "no" =>
             /\ line[c] = line'[c] /\ cut[line[c]] = "no" /\ buffer'[c] = buffer[c]
             /\ Extends(toClient[line[c]], toClient'[line[c]])
    PROVE  ReadInv'
<1>1. ASSUME NEW c \in Client, line'[c] \in Conn, cut'[line'[c]] = "no"
      PROVE  Fits(buffer'[c], toClient'[line'[c]]) /\ Len(buffer'[c]) <= 1
  <2>1. /\ line[c] = line'[c] /\ cut[line[c]] = "no" /\ buffer'[c] = buffer[c]
        /\ Extends(toClient[line[c]], toClient'[line[c]])
    BY <1>1
  <2>2. Fits(buffer[c], toClient[line[c]]) /\ Len(buffer[c]) <= 1
    BY <1>1, <2>1 DEF ReadInv
  <2>3. Fits(buffer[c], toClient'[line[c]])
    BY <2>1, <2>2 DEF Fits, Extends
  <2> QED
    BY <2>1, <2>2, <2>3
<1> QED
  BY <1>1 DEF ReadInv, Fits, Alternates, AtStart, AtEnd

LEMMA ReadServer ==
    ASSUME ChannelTypeOK, TableInv, ReadInv, Server, UNCHANGED clientVars PROVE ReadInv'
<1>1. CASE UNCHANGED <<line, cut, toClient>>
  BY <1>1, ReadUnread DEF ReadInv, Extends, clientVars
<1>2. ASSUME NEW k \in Conn, SeeEnd(k) PROVE ReadInv'
  <2>1. /\ cut[k] # "no" /\ toClient' = [toClient EXCEPT ![k] = <<>>]
        /\ UNCHANGED <<line, cut, buffer>>
    BY <1>2 DEF SeeEnd, EndShows, clientVars
  <2>2. \A m \in Conn : toClient'[m] = IF m = k THEN <<>> ELSE toClient[m]
    BY <2>1 DEF ChannelTypeOK, TcpTypeOK
  <2> QED
    BY <2>1, <2>2, ReadUnread, NothingAlternates DEF ReadInv, Extends
<1>3. ASSUME NEW now \in Nat, NEW buffers, NEW m \in Conn,
             NEW answers, answers \in {toClient, [toClient EXCEPT ![m] = @ \o <<status, End>>]},
             Broadcast(now, answers, buffers), UNCHANGED <<line, cut>>
      PROVE  ReadInv'
  <2>1. \A k \in Conn : Extends(toClient[k], toClient'[k])
    BY <1>3, BroadcastSays
  <2> QED
    BY <1>3, <2>1, ReadUnread DEF Extends, clientVars
<1>4. ASSUME NEW fd \in Fd, ReadCommand(fd) PROVE ReadInv'
  <2>1. UNCHANGED <<line, cut>> /\ sockets[fd] \in Conn
    BY <1>4, CommandCases
  <2>2. CASE UNCHANGED toClient
    BY <1>1, <2>1, <2>2
  <2>3. CASE \E answers \in [Conn -> Seq(ToClient)] :
               /\ \/ answers = toClient
                  \/ answers = [toClient EXCEPT ![sockets[fd]] = @ \o <<status, End>>]
               /\ status' \in 0..MaxStatus
               /\ Broadcast(status', answers, Handled(fd))
    <3>1. PICK answers \in [Conn -> Seq(ToClient)] :
               /\ answers \in {toClient, [toClient EXCEPT ![sockets[fd]] = @ \o <<status, End>>]}
               /\ status' \in 0..MaxStatus
               /\ Broadcast(status', answers, Handled(fd))
      BY <2>3
    <3>2. status' \in Nat
      BY <3>1
    <3> QED
      BY <1>3, <2>1, <3>1, <3>2
  <2> QED
    BY <1>4, <2>2, <2>3, CommandCases
<1>5. CASE StatusChanges
  <2>1. status' \in Nat /\ Broadcast(status', toClient, received) /\ UNCHANGED <<line, cut>>
    BY <1>5 DEF StatusChanges, ChannelTypeOK, ServerTypeOK
  <2>2. CASE Conn = {}
    <3>1. \A c \in Client : line'[c] \notin Conn
      BY <2>2
    <3> QED
      BY <2>2, <3>1 DEF ReadInv
  <2>3. CASE Conn # {}
    <3>1. PICK m \in Conn : TRUE
      BY <2>3
    <3> QED
      BY <1>3, <2>1, <3>1
  <2> QED
    BY <2>2, <2>3
<1> QED
  BY <1>1, <1>2, <1>4, <1>5 DEF Server, Accept, ReadPart, LinkIsBack, CollectGarbage, Die, Boot, tcpVars

\* Reading a half leaves the same status last.
LEMMA LastIsKept ==
    ASSUME NEW T, NEW s \in Seq(T), s # <<>>, Alternates(s),
           NEW b \in Seq(Nat), Len(b) <= 1, Fits(b, s), NEW old
    PROVE  /\ Head(s) = End =>
                /\ Len(b) = 1 /\ Fits(<<>>, Tail(s))
                /\ LastOf(Tail(s), <<>>, b[1]) = LastOf(s, b, old)
           /\ Head(s) # End =>
                /\ b = <<>> /\ Fits(<<Head(s)>>, Tail(s))
                /\ LastOf(Tail(s), <<Head(s)>>, old) = LastOf(s, b, old)
<1> DEFINE t == Tail(s)
<1>1. /\ Head(s) = s[1] /\ t \in Seq(T)
      /\ Len(s) \in Nat /\ Len(s) > 0 /\ Len(t) = Len(s) - 1
      /\ \A i \in 1..Len(s)-1 : t[i] = s[i+1]
  BY TailIsTyped
<1>2. /\ Head(s) # End => AtEnd(t)
      /\ Head(s) = End => AtStart(t)
  BY TailAlternates
<1> HIDE DEF t
<1>3. t = <<>> <=> Len(t) = 0
  BY <1>1
<1>4. Head(s) = End => Len(b) = 1
  <2>1. Head(s) = End => b # <<>>
    BY Zenon DEF Fits, AtStart
  <2> HIDE DEF Fits
  <2>2. b # <<>> => Len(b) = 1
    BY OneHalf
  <2> QED
    BY <2>1, <2>2
<1>5. CASE Len(s) = 1
  <2>1. s[1] = End
    BY <1>5 DEF Alternates
  <2>2. t = <<>>
    BY <1>1, <1>3, <1>5
  <2>3. Len(b) = 1
    BY <1>1, <1>4, <2>1
  <2> QED
    BY <1>1, <1>2, <1>5, <2>1, <2>2, <2>3 DEF LastOf, Fits, t
<1>6. CASE Len(s) = 2
  <2>1. s[2] = End /\ s[1] # End
    <3>1. 1 \in 1..Len(s)-1 /\ 1 + 1 = 2
      BY <1>6
    <3> QED
      BY <1>6, <3>1 DEF Alternates
  <2>2. b = <<>>
    BY <1>1, <2>1 DEF Fits, AtEnd
  <2>3. t # <<>> /\ Len(t) = 1 /\ Len(s) - 1 = 1 /\ Len(s) # 1
    BY <1>1, <1>3, <1>6
  <2>4. <<Head(s)>> # <<>> /\ <<Head(s)>>[1] = Head(s)
    OBVIOUS
  <2> QED
    BY <1>1, <1>2, <2>1, <2>2, <2>3, <2>4 DEF LastOf, Fits, t
<1>7. CASE Len(s) > 2
  <2>1. Len(t) - 1 \in 1..Len(s)-1 /\ Len(t) - 1 + 1 = Len(s) - 1
    BY <1>1, <1>7
  <2>2. t[Len(t) - 1] = s[Len(s) - 1]
    BY <1>1, <2>1
  <2>3. Len(s) # 1 /\ Len(t) # 1 /\ t # <<>>
    BY <1>1, <1>3, <1>7
  <2>4. <<Head(s)>> # <<>>
    OBVIOUS
  <2>5. \A x, y, z, w : LastOf(t, x, y) = LastOf(s, z, w)
    BY <2>2, <2>3 DEF LastOf
  <2>6. Head(s) # End => b = <<>>
    BY DEF Fits, AtEnd
  <2> QED
    BY <1>2, <1>4, <2>4, <2>5, <2>6 DEF Fits, t
<1> QED
  BY <1>1, <1>5, <1>6, <1>7

\* One half is read.  The last status is the one that was the last before.
LEMMA HalfIsRead ==
    ASSUME ChannelTypeOK, LineInv, ReadInv, NEW c \in Client, Read(c)
    PROVE  /\ line[c] \in Conn /\ cut[line[c]] = "no"
           /\ \A m \in Conn : Alternates(toClient'[m])
           /\ \A m \in Conn \ {line[c]} : toClient'[m] = toClient[m]
           /\ \A d \in Client \ {c} : buffer'[d] = buffer[d] /\ seen'[d] = seen[d]
           /\ Fits(buffer'[c], toClient'[line[c]]) /\ Len(buffer'[c]) <= 1
           /\ LastOf(toClient'[line[c]], buffer'[c], seen'[c]) = LastOf(toClient[line[c]], buffer[c], seen[c])
<1> DEFINE k == line[c]
           s == toClient[k]
           b == buffer[c]
<1>1. /\ k \in Conn /\ cut[k] = "no" /\ s # <<>> /\ s \in Seq(ToClient)
      /\ toClient' = [toClient EXCEPT ![k] = Tail(s)]
      /\ Alternates(s) /\ Fits(b, s) /\ Len(b) <= 1 /\ b \in Seq(Nat)
  BY ReadTyped DEF Read, ReadInv, ChannelTypeOK, ClientTypeOK
<1>2. \A m \in Conn : toClient'[m] = IF m = k THEN Tail(s) ELSE toClient[m]
  BY <1>1 DEF ChannelTypeOK, TcpTypeOK
<1>3. \A m \in Conn : Alternates(toClient'[m])
  BY <1>1, <1>2, TailAlternates DEF ReadInv
<1>4. \A d \in Client \ {c} : buffer'[d] = buffer[d] /\ seen'[d] = seen[d]
  BY DEF Read, ProcessMessage, ChannelTypeOK, ClientTypeOK
<1>5. CASE Head(s) = End
  <2>1. buffer' = [buffer EXCEPT ![c] = <<>>] /\ ProcessMessage(c)
    BY <1>5 DEF Read, Ends
  <2>2. buffer'[c] = <<>> /\ (Len(b) = 1 => seen'[c] = b[1])
    BY <2>1 DEF ProcessMessage, ChannelTypeOK, ClientTypeOK
  <2>3. Len(<<>>) <= 1
    OBVIOUS
  <2> HIDE DEF s, b, k
  <2>4. /\ Len(b) = 1 /\ Fits(<<>>, Tail(s))
        /\ LastOf(Tail(s), <<>>, b[1]) = LastOf(s, b, seen[c])
    BY <1>1, <1>5, LastIsKept
  <2>5. toClient'[k] = Tail(s)
    BY <1>1, <1>2
  <2>6. /\ Fits(buffer'[c], toClient'[k]) /\ Len(buffer'[c]) <= 1
        /\ LastOf(toClient'[k], buffer'[c], seen'[c]) = LastOf(s, b, seen[c])
    BY <2>2, <2>3, <2>4, <2>5
  <2> QED
    BY <1>1, <1>2, <1>3, <1>4, <2>6 DEF s, b, k
<1>6. CASE Head(s) # End
  <2>1. buffer' = [buffer EXCEPT ![c] = Append(@, Head(s))] /\ seen' = seen
    BY <1>6 DEF Read, Ends
  <2>2. buffer'[c] = Append(b, Head(s)) /\ seen'[c] = seen[c]
    BY <2>1 DEF ChannelTypeOK, ClientTypeOK
  <2> HIDE DEF s, b, k
  <2>3. /\ b = <<>> /\ Fits(<<Head(s)>>, Tail(s))
        /\ LastOf(Tail(s), <<Head(s)>>, seen[c]) = LastOf(s, b, seen[c])
    BY <1>1, <1>6, LastIsKept
  <2>4. Append(<<>>, Head(s)) = <<Head(s)>> /\ Len(<<Head(s)>>) <= 1
    OBVIOUS
  <2>5. toClient'[k] = Tail(s)
    BY <1>1, <1>2
  <2>6. /\ Fits(buffer'[c], toClient'[k]) /\ Len(buffer'[c]) <= 1
        /\ LastOf(toClient'[k], buffer'[c], seen'[c]) = LastOf(s, b, seen[c])
    BY <2>2, <2>3, <2>4, <2>5
  <2> QED
    BY <1>1, <1>2, <1>3, <1>4, <2>6 DEF s, b, k
<1> QED
  BY <1>5, <1>6

LEMMA ReadClients ==
    ASSUME ChannelTypeOK, LineInv, ReadInv, NEW c \in Client,
           \/ Connects(c) \/ Refused(c) \/ Fails(c) \/ WatchdogData(c)
           \/ Disconnect(c) \/ Read(c) \/ SendCommand(c)
    PROVE  ReadInv'
<1>1. CASE Connects(c)
  <2>1. PICK k \in Conn : Unused(k) /\ Connect(c, k)
    BY <1>1, ConnectsUnused
  <2>2. /\ \A d \in Client \ {c} : line'[d] = line[d] /\ line[d] # k /\ buffer'[d] = buffer[d]
        /\ line'[c] = k /\ buffer'[c] = <<>>
        /\ \A m \in Conn \ {k} : cut'[m] = cut[m] /\ toClient'[m] = toClient[m]
        /\ toClient'[k] = <<>>
    BY <2>1 DEF Connect, ConnectedData, Unused, ChannelTypeOK, TcpTypeOK, ClientTypeOK
  <2>3. \A m \in Conn : Alternates(toClient'[m])
    BY <2>2, NothingAlternates DEF ReadInv
  <2>4. Len(<<>>) <= 1
    OBVIOUS
  <2>5. ASSUME NEW d \in Client, line'[d] \in Conn, cut'[line'[d]] = "no"
        PROVE  Fits(buffer'[d], toClient'[line'[d]]) /\ Len(buffer'[d]) <= 1
    <3>1. CASE d = c
      BY <2>2, <2>4, <3>1, NothingAlternates DEF Fits
    <3>2. CASE d # c
      BY <2>2, <2>5, <3>2 DEF ReadInv
    <3> QED
      BY <3>1, <3>2
  <2> QED
    BY <2>3, <2>5 DEF ReadInv, Fits, Alternates, AtStart, AtEnd
<1>2. CASE Refused(c) \/ Fails(c) \/ WatchdogData(c) \/ SendCommand(c)
  <2>1. UNCHANGED <<line, cut, toClient, buffer>>
    BY <1>2 DEF Refused, Fails, WatchdogData, SendCommand, tcpVars
  <2> QED
    BY <2>1, ReadUnread DEF ReadInv, Extends
<1>3. CASE Disconnect(c)
  <2>1. /\ line[c] \in Conn /\ line' = [line EXCEPT ![c] = NoConn] /\ UNCHANGED <<cut, buffer>>
        /\ \A m \in Conn \ {line[c]} : toClient'[m] = toClient[m]
        /\ toClient'[line[c]] \in {toClient[line[c]], <<>>}
    BY <1>3 DEF Disconnect, LineInv, ChannelTypeOK, TcpTypeOK
  <2>2. \A m \in Conn : Alternates(toClient'[m])
    BY <2>1, NothingAlternates DEF ReadInv
  <2>3. \A d \in Client : line'[d] \in Conn => line'[d] = line[d] /\ line[d] # line[c]
    BY <2>1, ConnAssumption DEF LineInv, ChannelTypeOK, TcpTypeOK
  <2> QED
    BY <2>1, <2>2, <2>3, ReadUnread DEF ReadInv, Extends
<1>4. CASE Read(c)
  <2>1. UNCHANGED <<line, cut>>
    BY <1>4 DEF Read
  <2>2. ASSUME NEW d \in Client, line[d] \in Conn, cut[line[d]] = "no"
        PROVE  Fits(buffer'[d], toClient'[line[d]]) /\ Len(buffer'[d]) <= 1
    <3>1. CASE d = c
      BY <1>4, <3>1, HalfIsRead
    <3>2. CASE d # c
      <4>1. line[d] # line[c]
        BY <2>2, <3>2 DEF LineInv
      <4> QED
        BY <1>4, <2>2, <3>2, <4>1, HalfIsRead DEF ReadInv
    <3> QED
      BY <3>1, <3>2
  <2>3. \A m \in Conn : Alternates(toClient'[m])
    BY <1>4, HalfIsRead
  <2> QED
    BY <2>1, <2>2, <2>3 DEF ReadInv, Fits, Alternates, AtStart, AtEnd
<1> QED
  BY <1>1, <1>2, <1>3, <1>4

LEMMA ReadInvKept ==
    ASSUME ChannelTypeOK, LineInv, TableInv, ReadInv, [ChannelNext]_channelVars PROVE ReadInv'
<1>1. ASSUME NEW k \in Conn, NEW how \in {"told", "silent"}, Loss(k, how) PROVE ReadInv'
  <2>1. /\ how # "no" /\ UNCHANGED <<line, buffer>>
        /\ \A m \in Conn : /\ toClient'[m] = IF m = k THEN <<>> ELSE toClient[m]
                           /\ cut'[m] = IF m = k THEN how ELSE cut[m]
    BY <1>1 DEF Loss, Lose, ChannelTypeOK, TcpTypeOK
  <2> QED
    BY <2>1, ReadUnread, NothingAlternates DEF ReadInv, Extends
<1>2. CASE UNCHANGED channelVars
  BY <1>2, ReadUnread DEF channelVars, tcpVars, clientVars, ReadInv, Extends
<1> QED
  BY <1>1, <1>2, ReadServer, ReadClients DEF ChannelNext, Clients

\* A connected client, of which the daemon has accepted the connection.
Served(c, k) == line[c] = k /\ far[k] = "open" /\ cut[k] = "no"

LEMMA StartIsAhead ==
    ASSUME NEW T, NEW s \in Seq(T), s # <<>>, NEW i \in 1..Len(s), NEW x, s[i] = x, Head(s) # x
    PROVE  \E j \in 1..Len(Tail(s)) : Tail(s)[j] = x
<1>1. /\ Head(s) = s[1] /\ Len(s) \in Nat /\ Len(Tail(s)) = Len(s) - 1
      /\ \A j \in 1..Len(s)-1 : Tail(s)[j] = s[j+1]
  BY TailIsTyped
<1>2. i # 1
  BY <1>1
<1>3. i - 1 \in 1..Len(s)-1 /\ (i - 1) + 1 = i
  BY <1>1, <1>2
<1>4. Tail(s)[i - 1] = x
  BY <1>1, <1>3
<1> QED
  BY <1>1, <1>3, <1>4

\* The ST is still under way.
LEMMA StillPending ==
    ASSUME NEW k \in Conn, Pending(k),
           toServer'[k] = toServer[k],
           \A fd \in Fd : sockets[fd] = k => sockets'[fd] = k /\ received'[fd] = received[fd]
    PROVE  Pending(k)'
  BY DEF Pending

\* Each of the connections in use is as it was, or has its ST under way, or the status last.
LEMMA FreshKept ==
    ASSUME FreshInv,
           \A c \in Client, k \in Conn : Served(c, k)' =>
             \/ Pending(k)'
             \/ LastOf(toClient'[k], buffer'[c], seen'[c]) = announced'
             \/ /\ Served(c, k) /\ announced' = announced
                /\ Pending(k) => Pending(k)'
                /\ LastOf(toClient'[k], buffer'[c], seen'[c]) = LastOf(toClient[k], buffer[c], seen[c])
    PROVE  FreshInv'
<1> SUFFICES ASSUME NEW c \in Client, NEW k \in Conn, Served(c, k)'
             PROVE  Pending(k)' \/ Latest(c, k)' = announced'
  BY DEF FreshInv, Served
<1>1. Served(c, k) => Pending(k) \/ LastOf(toClient[k], buffer[c], seen[c]) = announced
  BY DEF FreshInv, Served, Latest
<1>2. Latest(c, k)' = LastOf(toClient'[k], buffer'[c], seen'[c])
  BY DEF Latest, LastOf
<1> QED
  BY <1>1, <1>2

\* After a broadcast its status is the last for every client that is served.
LEMMA FreshBroadcast ==
    ASSUME FreshInv, UNCHANGED <<line, far, cut>>,
           \A k \in Conn : far[k] = "open" => /\ toClient'[k] # <<>> /\ Len(toClient'[k]) # 1
                                             /\ toClient'[k][Len(toClient'[k]) - 1] = announced'
    PROVE  FreshInv'
<1>1. ASSUME NEW c \in Client, NEW k \in Conn, Served(c, k)'
      PROVE  LastOf(toClient'[k], buffer'[c], seen'[c]) = announced'
  BY <1>1 DEF LastOf, Served
<1> QED
  BY <1>1, FreshKept

LEMMA FreshServer ==
    ASSUME ChannelTypeOK, TableInv, WholeInv, ReadInv, FreshInv, Server, UNCHANGED clientVars
    PROVE  FreshInv'
<1>1. ASSUME NEW k \in Conn, Accept(k) PROVE FreshInv'
  <2>1. PICK fd \in Fd : /\ ~Connected(fd) /\ sockets'[fd] = k /\ received'[fd] = <<>>
                         /\ \A g \in Fd \ {fd} : sockets'[g] = sockets[g] /\ received'[g] = received[g]
    BY <1>1, AcceptExtends
  <2>2. /\ far[k] = "waiting" /\ UNCHANGED <<line, cut, toServer, toClient, announced, buffer, seen>>
        /\ \A m \in Conn : far'[m] = IF m = k THEN "open" ELSE far[m]
    BY <1>1 DEF Accept, clientVars, ChannelTypeOK, TcpTypeOK
  <2>3. ASSUME NEW c \in Client, Served(c, k)' PROVE Pending(k)'
    <3>1. toServer[k] # <<>> /\ Head(toServer[k]) = "ST" /\ toServer[k] \in Seq(ToServer)
      BY <2>2, <2>3 DEF Served, WholeInv, ChannelTypeOK, TcpTypeOK, ToServer
    <3>2. toServer[k][1] = "ST" /\ 1 \in 1..Len(toServer[k])
      BY <3>1, TailIsTyped
    <3> QED
      BY <2>2, <3>2 DEF Pending
  <2>4. ASSUME NEW c \in Client, NEW m \in Conn \ {k}, Served(c, m)'
        PROVE  Served(c, m) /\ (Pending(m) => Pending(m)')
    <3>1. Served(c, m)
      BY <2>2, <2>4 DEF Served
    <3>2. \A g \in Fd : sockets[g] = m => sockets'[g] = m /\ received'[g] = received[g]
      BY <2>1, <3>1 DEF Served, Connected
    <3> QED
      BY <2>2, <3>1, <3>2, StillPending
  <2> QED
    BY <2>2, <2>3, <2>4, FreshKept
<1>2. ASSUME NEW k \in Conn, SeeEnd(k) PROVE FreshInv'
  <2>1. /\ UNCHANGED <<line, cut, toServer, announced, sockets, received, buffer, seen>>
        /\ far'[k] = "closed"
        /\ \A m \in Conn \ {k} : far'[m] = far[m] /\ toClient'[m] = toClient[m]
    BY <1>2 DEF SeeEnd, serverVars, clientVars, ChannelTypeOK, TcpTypeOK
  <2>2. ASSUME NEW c \in Client, NEW m \in Conn, Served(c, m)'
        PROVE  m # k /\ Served(c, m) /\ (Pending(m) => Pending(m)')
    BY <2>1, <2>2 DEF Served, Pending
  <2> QED
    BY <2>1, <2>2, FreshKept
<1>3. ASSUME NEW fd \in Fd, NEW k, k = sockets[fd], NEW s, s = toServer[k],
             Readable(fd), UNCHANGED <<line, far, cut, toClient, announced, sockets>>,
             toServer' = [toServer EXCEPT ![k] = Tail(@)],
             received'[fd] = IF Head(s) = End THEN <<>> ELSE Append(received[fd], Head(s)),
             \A g \in Fd \ {fd} : received'[g] = received[g],
             Head(s) = End => received[fd] # <<"ST">>
      PROVE  FreshInv'
  <2>1. /\ k \in Conn /\ s \in Seq(ToServer) /\ s # <<>> /\ Fits(received[fd], s)
        /\ \A m \in Conn : toServer'[m] = IF m = k THEN Tail(s) ELSE toServer[m]
        /\ UNCHANGED <<buffer, seen>>
    BY <1>3 DEF Readable, Connected, WholeInv, clientVars, ChannelTypeOK, TcpTypeOK, ToServer
  <2>2. Pending(k) => Pending(k)'
    <3>1. ASSUME NEW i \in 1..Len(s), s[i] = "ST" PROVE Pending(k)'
      <4>1. CASE Head(s) = "ST"
        <5>1. Head(s) # End
          BY <4>1, HalvesDiffer
        <5>2. received[fd] = <<>>
          BY <2>1, <5>1 DEF Fits, AtEnd
        <5>3. received'[fd] = Append(<<>>, "ST")
          BY <1>3, <4>1, <5>1, <5>2
        <5>4. received'[fd] = <<"ST">>
          BY <5>3
        <5> QED
          BY <1>3, <5>4 DEF Pending
      <4>2. CASE Head(s) # "ST"
        <5>1. \E j \in 1..Len(Tail(s)) : Tail(s)[j] = "ST"
          BY <2>1, <3>1, <4>2, StartIsAhead
        <5> QED
          BY <2>1, <5>1 DEF Pending
      <4> QED
        BY <4>1, <4>2
    <3>2. ASSUME NEW g \in Fd, sockets[g] = k, received[g] = <<"ST">> PROVE FALSE
      <4>1. g = fd
        BY <1>3, <2>1, <3>2 DEF TableInv
      <4>2. <<"ST">> # <<>>
        OBVIOUS
      <4> QED
        BY <1>3, <2>1, <3>2, <4>1, <4>2 DEF Fits, AtEnd
    <3> QED
      BY <1>3, <3>1, <3>2 DEF Pending
  <2>3. ASSUME NEW m \in Conn \ {k}, Pending(m) PROVE Pending(m)'
    <3>1. \A g \in Fd : sockets[g] = m => sockets'[g] = m /\ received'[g] = received[g]
      BY <1>3, <2>3
    <3> QED
      BY <2>1, <2>3, <3>1, StillPending
  <2>4. \A c \in Client, m \in Conn : Served(c, m)' => Served(c, m)
    BY <1>3 DEF Served
  <2> QED
    BY <1>3, <2>1, <2>2, <2>3, <2>4, FreshKept
<1>4. ASSUME NEW fd \in Fd, ReadPart(fd) PROVE FreshInv'
  <2>1. received' = [received EXCEPT ![fd] = Append(@, Head(toServer[sockets[fd]]))]
    BY <1>4 DEF ReadPart
  <2>2. /\ received'[fd] = Append(received[fd], Head(toServer[sockets[fd]]))
        /\ \A g \in Fd \ {fd} : received'[g] = received[g]
    BY <2>1 DEF ChannelTypeOK, ServerTypeOK
  <2>3. /\ Readable(fd) /\ Head(toServer[sockets[fd]]) # End
        /\ toServer' = [toServer EXCEPT ![sockets[fd]] = Tail(@)]
        /\ UNCHANGED <<line, far, cut, toClient, announced, sockets>>
    BY <1>4 DEF ReadPart, Ends
  <2> QED
    BY <1>3, <2>2, <2>3
<1>5. ASSUME NEW now \in Nat, NEW buffers, NEW m \in Conn,
             NEW answers, answers \in {toClient, [toClient EXCEPT ![m] = @ \o <<status, End>>]},
             Broadcast(now, answers, buffers), UNCHANGED <<line, far, cut>>
      PROVE  FreshInv'
  <2>1. \A k \in Conn : far[k] = "open" => /\ toClient'[k] # <<>> /\ Len(toClient'[k]) # 1
                                            /\ toClient'[k][Len(toClient'[k]) - 1] = now
    BY <1>5, BroadcastSays
  <2>2. announced' = now
    BY <1>5 DEF Broadcast
  <2> QED
    BY <1>5, <2>1, <2>2, FreshBroadcast
<1>6. ASSUME NEW fd \in Fd, ReadCommand(fd) PROVE FreshInv'
  <2>1. UNCHANGED <<line, far, cut>> /\ sockets[fd] \in Conn
    BY <1>6, CommandCases
  <2>2. CASE /\ received[fd] \notin {<<"ST">>, <<"MI">>}
             /\ received' = Handled(fd)
             /\ UNCHANGED <<toClient, status, sockets, announced>>
    <3>1. /\ received'[fd] = <<>>
          /\ \A g \in Fd \ {fd} : received'[g] = received[g]
      BY <2>2 DEF Handled, ChannelTypeOK, ServerTypeOK
    <3>2. /\ Readable(fd) /\ Head(toServer[sockets[fd]]) = End
          /\ toServer' = [toServer EXCEPT ![sockets[fd]] = Tail(@)]
      BY <1>6 DEF ReadCommand, Ends
    <3> QED
      BY <1>3, <2>1, <2>2, <3>1, <3>2
  <2>3. CASE \E answers \in [Conn -> Seq(ToClient)] :
               /\ \/ answers = toClient
                  \/ answers = [toClient EXCEPT ![sockets[fd]] = @ \o <<status, End>>]
               /\ status' \in 0..MaxStatus
               /\ Broadcast(status', answers, Handled(fd))
    <3>1. PICK answers \in [Conn -> Seq(ToClient)] :
               /\ answers \in {toClient, [toClient EXCEPT ![sockets[fd]] = @ \o <<status, End>>]}
               /\ status' \in 0..MaxStatus
               /\ Broadcast(status', answers, Handled(fd))
      BY <2>3
    <3>2. status' \in Nat
      BY <3>1
    <3>3. sockets[fd] \in Conn /\ UNCHANGED <<line, far, cut>>
      BY <2>1
    <3> QED
      BY <1>5, <3>1, <3>2, <3>3
  <2> QED
    BY <1>6, <2>2, <2>3, CommandCases
<1>7. CASE StatusChanges
  <2>1. /\ status' \in Nat /\ Broadcast(status', toClient, received)
        /\ UNCHANGED <<line, far, cut>>
    BY <1>7 DEF StatusChanges, ChannelTypeOK, ServerTypeOK
  <2>2. CASE Conn = {}
    BY <2>2 DEF FreshInv
  <2>3. CASE Conn # {}
    <3>1. PICK m \in Conn : TRUE
      BY <2>3
    <3> QED
      BY <1>5, <2>1, <3>1
  <2> QED
    BY <2>2, <2>3
<1>8. CASE CollectGarbage
  <2>1. PICK gone \in SUBSET {fd \in Fd : sockets[fd] = Null} :
          /\ sockets' = [fd \in Fd |-> IF fd \in gone THEN NoEntry ELSE sockets[fd]]
          /\ received' = [fd \in Fd |-> IF fd \in gone THEN <<>> ELSE received[fd]]
    BY <1>8 DEF CollectGarbage
  <2>2. UNCHANGED <<line, far, cut, toServer, toClient, announced, buffer, seen>>
    BY <1>8 DEF CollectGarbage, tcpVars, clientVars
  <2>3. \A k \in Conn : \A fd \in Fd : sockets[fd] = k => sockets'[fd] = k /\ received'[fd] = received[fd]
    BY <2>1, EntryAssumption
  <2>4. \A k \in Conn : Pending(k) => Pending(k)'
    BY <2>2, <2>3, StillPending
  <2>5. \A c \in Client, k \in Conn : Served(c, k)' => Served(c, k)
    BY <2>2 DEF Served
  <2> QED
    BY <2>2, <2>4, <2>5, FreshKept
<1>9. CASE Die \/ Boot
  <2>1. \A k \in Conn : far'[k] = "closed"
    BY <1>9 DEF Die, Boot, TableInv, tcpVars
  <2> QED
    BY <2>1 DEF FreshInv
<1>10. CASE LinkIsBack
  BY <1>10 DEF LinkIsBack, FreshInv, Pending, Latest, LastOf, tcpVars, clientVars
<1> QED
  BY <1>1, <1>2, <1>4, <1>6, <1>7, <1>8, <1>9, <1>10 DEF Server

LEMMA FreshClients ==
    ASSUME ChannelTypeOK, LineInv, ReadInv, FreshInv, UNCHANGED serverVars, NEW c \in Client,
           \/ Connects(c) \/ Refused(c) \/ Fails(c) \/ WatchdogData(c)
           \/ Disconnect(c) \/ Read(c) \/ SendCommand(c)
    PROVE  FreshInv'
<1>1. UNCHANGED <<announced, sockets, received>>
  BY DEF serverVars
<1>2. ASSUME \A d \in Client, k \in Conn : Served(d, k)' =>
               /\ Served(d, k) /\ toServer'[k] = toServer[k]
               /\ LastOf(toClient'[k], buffer'[d], seen'[d]) = LastOf(toClient[k], buffer[d], seen[d])
      PROVE  FreshInv'
  <2>1. \A d \in Client, k \in Conn : Served(d, k)' => (Pending(k) => Pending(k)')
    BY <1>1, <1>2, StillPending
  <2> QED
    BY <1>1, <1>2, <2>1, FreshKept
<1>3. CASE Connects(c)
  <2>1. PICK k \in Conn : Unused(k) /\ Connect(c, k)
    BY <1>3, ConnectsUnused
  <2>2. /\ \A d \in Client \ {c} : line'[d] = line[d] /\ buffer'[d] = buffer[d]
        /\ line'[c] = k /\ far'[k] = "waiting" /\ UNCHANGED seen
        /\ \A m \in Conn \ {k} : /\ far'[m] = far[m] /\ cut'[m] = cut[m]
                                 /\ toServer'[m] = toServer[m] /\ toClient'[m] = toClient[m]
    BY <2>1 DEF Connect, ConnectedData, ChannelTypeOK, TcpTypeOK, ClientTypeOK
  <2>3. ASSUME NEW d \in Client, NEW m \in Conn, Served(d, m)'
        PROVE  /\ Served(d, m) /\ toServer'[m] = toServer[m]
               /\ LastOf(toClient'[m], buffer'[d], seen'[d]) = LastOf(toClient[m], buffer[d], seen[d])
    <3>1. m # k /\ d # c
      BY <2>2, <2>3 DEF Served
    <3> QED
      BY <2>2, <2>3, <3>1 DEF Served
  <2> QED
    BY <1>2, <2>3
<1>4. CASE Refused(c) \/ Fails(c) \/ WatchdogData(c)
  <2>1. UNCHANGED <<line, far, cut, toServer, toClient, buffer, seen>>
    BY <1>4 DEF Refused, Fails, WatchdogData, tcpVars
  <2> QED
    BY <1>2, <2>1 DEF Served
<1>5. CASE Disconnect(c)
  <2>1. /\ line[c] \in Conn /\ line' = [line EXCEPT ![c] = NoConn] /\ UNCHANGED <<far, cut, buffer, seen>>
        /\ \A m \in Conn \ {line[c]} : toServer'[m] = toServer[m] /\ toClient'[m] = toClient[m]
    BY <1>5 DEF Disconnect, LineInv, ChannelTypeOK, TcpTypeOK
  <2>2. \A d \in Client : line'[d] \in Conn => line'[d] = line[d] /\ line[d] # line[c]
    BY <2>1, ConnAssumption DEF LineInv, ChannelTypeOK, TcpTypeOK
  <2> QED
    BY <1>2, <2>1, <2>2 DEF Served
<1>6. CASE Read(c)
  <2>1. UNCHANGED <<line, far, cut, toServer>>
    BY <1>6 DEF Read
  <2>2. ASSUME NEW d \in Client, NEW m \in Conn, Served(d, m)'
        PROVE  LastOf(toClient'[m], buffer'[d], seen'[d]) = LastOf(toClient[m], buffer[d], seen[d])
    <3>1. line[d] = m
      BY <2>1, <2>2 DEF Served
    <3>2. CASE d = c
      BY <1>6, <3>1, <3>2, HalfIsRead
    <3>3. CASE d # c
      <4>1. m # line[c]
        BY <3>1, <3>3 DEF LineInv
      <4> QED
        BY <1>6, <3>3, <4>1, HalfIsRead
    <3> QED
      BY <3>2, <3>3
  <2> QED
    BY <1>2, <2>1, <2>2 DEF Served
<1>7. CASE SendCommand(c)
  <2>1. /\ UNCHANGED <<line, far, cut, toClient, buffer, seen>> /\ line[c] \in Conn
        /\ \A m \in Conn : toServer'[m] = IF m = line[c] THEN toServer[m] \o <<"MI", End>> ELSE toServer[m]
    BY <1>7 DEF SendCommand, LineInv, ChannelTypeOK, TcpTypeOK
  <2>2. ASSUME NEW m \in Conn, Pending(m) PROVE Pending(m)'
    <3>1. CASE m = line[c]
      <4>1. toServer[m] \in Seq(ToServer) /\ "MI" \in ToServer /\ End \in ToServer
        BY DEF ToServer, ChannelTypeOK, TcpTypeOK
      <4>2. toServer'[m] = toServer[m] \o <<"MI", End>>
        BY <2>1, <3>1
      <4>3. /\ Len(toServer'[m]) = Len(toServer[m]) + 2 /\ Len(toServer[m]) \in Nat
            /\ \A i \in 1..Len(toServer[m]) : toServer'[m][i] = toServer[m][i]
        BY <4>1, <4>2, PairIsAdded
      <4>4. \A i \in 1..Len(toServer[m]) : i \in 1..Len(toServer'[m])
        BY <4>3
      <4> QED
        BY <1>1, <2>2, <4>3, <4>4 DEF Pending
    <3>2. CASE m # line[c]
      BY <1>1, <2>1, <2>2, <3>2, StillPending
    <3> QED
      BY <3>1, <3>2
  <2>3. \A d \in Client, m \in Conn : Served(d, m)' => Served(d, m)
    BY <2>1 DEF Served
  <2> QED
    BY <1>1, <2>1, <2>2, <2>3, FreshKept
<1> QED
  BY <1>3, <1>4, <1>5, <1>6, <1>7

LEMMA FreshInvKept ==
    ASSUME ChannelTypeOK, LineInv, TableInv, WholeInv, ReadInv, FreshInv, [ChannelNext]_channelVars
    PROVE  FreshInv'
<1>1. ASSUME NEW k \in Conn, NEW how \in {"told", "silent"}, Loss(k, how) PROVE FreshInv'
  <2>1. /\ how # "no" /\ UNCHANGED <<line, far, announced, sockets, received, buffer, seen>>
        /\ cut'[k] = how
        /\ \A m \in Conn \ {k} : /\ cut'[m] = cut[m]
                                 /\ toServer'[m] = toServer[m] /\ toClient'[m] = toClient[m]
    BY <1>1 DEF Loss, Lose, serverVars, ChannelTypeOK, TcpTypeOK
  <2>2. ASSUME NEW c \in Client, NEW m \in Conn, Served(c, m)'
        PROVE  m # k /\ Served(c, m) /\ (Pending(m) => Pending(m)')
    BY <2>1, <2>2 DEF Served, Pending
  <2> QED
    BY <2>1, <2>2, FreshKept
<1>2. CASE UNCHANGED channelVars
  BY <1>2 DEF channelVars, tcpVars, serverVars, clientVars, FreshInv, Pending, Latest, LastOf
<1> QED
  BY <1>1, <1>2, FreshServer, FreshClients DEF ChannelNext, Clients

LEMMA QuietIsFresh ==
    ASSUME ChannelTypeOK, WholeInv, FreshInv, NEW c \in Client, NEW k \in Conn, Quiet(c, k)
    PROVE  seen[c] = announced
<1>1. /\ line[c] = k /\ far[k] = "open" /\ cut[k] = "no"
      /\ toServer[k] = <<>> /\ toClient[k] = <<>>
  BY DEF Quiet
<1>2. Len(<<>>) = 0 /\ <<"ST">> # <<>>
  OBVIOUS
<1>3. ~Pending(k)
  <2>1. 1..Len(toServer[k]) = {}
    BY <1>1, <1>2
  <2>2. ASSUME NEW fd \in Fd, sockets[fd] = k PROVE received[fd] # <<"ST">>
    BY <1>1, <1>2, <2>2 DEF WholeInv, Connected, Fits, AtEnd
  <2> QED
    BY <2>1, <2>2 DEF Pending
<1>4. Latest(c, k) = seen[c]
  BY <1>1 DEF Latest, LastOf
<1> QED
  BY <1>1, <1>3, <1>4 DEF FreshInv

\* Whatever handler announced a status, and after any number of losses, reconnections and
\* restarts, a client whose connection is quiet shows the status that was announced last.
THEOREM UpToDateHolds == ChannelSpec => []UpToDate
<1>1. ChannelInit => TableInv /\ WholeInv /\ ReadInv /\ FreshInv
  BY ChannelInitWhole, ConnAssumption, NothingAlternates DEF ChannelInit, TcpInit, ReadInv, FreshInv
<1>2. /\ ChannelTypeOK /\ LineInv /\ TableInv /\ WholeInv /\ ReadInv /\ FreshInv
      /\ [ChannelNext]_channelVars
      => TableInv' /\ WholeInv' /\ ReadInv' /\ FreshInv'
  BY TableInvKept, WholeInvKept, ReadInvKept, FreshInvKept
<1>3. ChannelTypeOK /\ WholeInv /\ FreshInv => UpToDate
  BY QuietIsFresh DEF UpToDate
<1> QED
  BY <1>1, <1>2, <1>3, ChannelInitTyped, ChannelNextTyped, PTL DEF ChannelSpec

-----------------------------------------------------------------------------
(* What clients show (module StatusView).  The statuses under way to a client come in   *)
(* the order in which the daemon had them, and none of them is older than what the      *)
(* client shows or has read.                                                            *)

Climbs(low, halves, high) ==
    /\ low <= high
    /\ \A i \in 1..Len(halves) : halves[i] # End => low <= halves[i] /\ halves[i] <= high
    /\ \A i, j \in 1..Len(halves) : i < j /\ halves[i] # End /\ halves[j] # End => halves[i] <= halves[j]

\* The status that c shows, or has read the first half of.
Floor(c) == IF buffer[c] = <<>> THEN seen[c] ELSE buffer[c][1]

OrderInv ==
    /\ \A c \in Client : seen[c] <= status
    /\ \A k \in Conn : Climbs(0, toClient[k], status)
    /\ \A c \in Client : line[c] \in Conn =>
         seen[c] <= Floor(c) /\ Climbs(Floor(c), toClient[line[c]], status)

LEMMA NothingClimbs ==
    ASSUME NEW low \in Nat, NEW high \in Nat, low <= high PROVE Climbs(low, <<>>, high)
  BY DEF Climbs

LEMMA ClimbsHigher ==
    ASSUME NEW s \in Seq(ToClient), NEW low \in Nat, NEW high \in Nat, NEW top \in Nat,
           Climbs(low, s, high), high <= top
    PROVE  Climbs(low, s, top)
<1>1. ASSUME NEW i \in 1..Len(s), s[i] # End PROVE s[i] <= top
  <2>1. s[i] \in Nat /\ s[i] <= high
    BY <1>1 DEF Climbs, ToClient
  <2> QED
    BY <2>1
<1>2. low <= top
  BY DEF Climbs
<1> QED
  BY <1>1, <1>2 DEF Climbs

\* A status that is no older than the highest goes to the end.
LEMMA StatusClimbs ==
    ASSUME NEW s \in Seq(ToClient), NEW low \in Nat, NEW high \in Nat, NEW x \in Nat,
           Climbs(low, s, high), high <= x
    PROVE  s \o <<x, End>> \in Seq(ToClient) /\ Climbs(low, s \o <<x, End>>, x)
<1> DEFINE t == s \o <<x, End>>
<1>1. x \in ToClient /\ End \in ToClient /\ x # End
  BY HalvesDiffer DEF ToClient
<1>2. /\ t \in Seq(ToClient) /\ Len(t) = Len(s) + 2
      /\ \A i \in 1..Len(s) : t[i] = s[i]
      /\ t[Len(s)+1] = x /\ t[Len(s)+2] = End
  BY <1>1, PairIsAdded
<1>3. Len(s) \in Nat
  OBVIOUS
<1>4. Climbs(low, s, x) /\ low <= x
  BY ClimbsHigher DEF Climbs
<1> HIDE DEF t
<1>5. ASSUME NEW i \in 1..Len(t), t[i] # End
      PROVE  \/ i \in 1..Len(s) /\ t[i] = s[i] /\ s[i] # End
             \/ i = Len(s) + 1 /\ t[i] = x
  <2>1. i \in 1..Len(s) \/ i = Len(s) + 1 \/ i = Len(s) + 2
    BY <1>2, <1>3
  <2> QED
    BY <1>2, <1>5, <2>1
<1>6. \A i \in 1..Len(t) : t[i] # End => low <= t[i] /\ t[i] <= x
  BY <1>4, <1>5 DEF Climbs
<1>7. ASSUME NEW i \in 1..Len(t), NEW j \in 1..Len(t), i < j, t[i] # End, t[j] # End
      PROVE  t[i] <= t[j]
  <2>1. i \in 1..Len(s) /\ t[i] = s[i] /\ s[i] # End
    BY <1>2, <1>3, <1>5, <1>7
  <2>2. CASE j \in 1..Len(s) /\ t[j] = s[j] /\ s[j] # End
    BY <1>4, <1>7, <2>1, <2>2 DEF Climbs
  <2>3. CASE j = Len(s) + 1 /\ t[j] = x
    BY <1>4, <2>1, <2>3 DEF Climbs
  <2> QED
    BY <1>5, <1>7, <2>2, <2>3
<1>8. Climbs(low, t, x)
  BY <1>4, <1>6, <1>7 DEF Climbs
<1> QED
  BY <1>2, <1>8 DEF t

\* What is left after a half is read.
LEMMA TailClimbs ==
    ASSUME NEW s \in Seq(ToClient), s # <<>>, NEW low \in Nat, NEW high \in Nat, Climbs(low, s, high)
    PROVE  /\ Climbs(low, Tail(s), high)
           /\ Head(s) # End => low <= Head(s) /\ Climbs(Head(s), Tail(s), high)
<1> DEFINE t == Tail(s)
<1>1. /\ Head(s) = s[1] /\ t \in Seq(ToClient)
      /\ Len(s) \in Nat /\ Len(s) > 0 /\ Len(t) = Len(s) - 1
      /\ \A i \in 1..Len(s)-1 : t[i] = s[i+1]
  BY TailIsTyped
<1> HIDE DEF t
<1>2. \A i \in 1..Len(t) : t[i] = s[i+1] /\ i+1 \in 1..Len(s) /\ 1 < i+1
  BY <1>1
<1>3. \A i \in 1..Len(t) : t[i] # End => low <= t[i] /\ t[i] <= high
  BY <1>2 DEF Climbs
<1>4. \A i, j \in 1..Len(t) : i < j => i+1 < j+1
  BY <1>1
<1>5. \A i, j \in 1..Len(t) : i < j /\ t[i] # End /\ t[j] # End => t[i] <= t[j]
  BY <1>2, <1>4 DEF Climbs
<1>6. Climbs(low, t, high)
  BY <1>3, <1>5 DEF Climbs
<1>7. ASSUME Head(s) # End PROVE low <= Head(s) /\ Climbs(Head(s), t, high)
  <2>1. 1 \in 1..Len(s) /\ low <= s[1] /\ s[1] <= high
    BY <1>1, <1>7 DEF Climbs
  <2>2. \A i \in 1..Len(t) : t[i] # End => s[1] <= t[i]
    BY <1>1, <1>2, <1>7, <2>1 DEF Climbs
  <2> QED
    BY <1>1, <1>3, <1>5, <2>1, <2>2 DEF Climbs
<1> QED
  BY <1>6, <1>7 DEF t

LEMMA FloorTyped == ASSUME ChannelTypeOK, NEW c \in Client PROVE Floor(c) \in Nat
<1>1. buffer[c] \in Seq(Nat) /\ seen[c] \in Nat
  BY DEF ChannelTypeOK, ClientTypeOK
<1>2. buffer[c] # <<>> => buffer[c][1] \in Nat
  BY <1>1, TailIsTyped
<1> QED
  BY <1>1, <1>2 DEF Floor

\* Nobody reads, and nobody connects.
LEMMA OrderUnread ==
    ASSUME ChannelTypeOK, OrderInv, status' \in Nat, status <= status', UNCHANGED seen,
           \A k \in Conn, low \in Nat :
             Climbs(low, toClient[k], status) => Climbs(low, toClient'[k], status'),
           \A c \in Client : line'[c] \in Conn => line'[c] = line[c] /\ buffer'[c] = buffer[c]
    PROVE  OrderInv'
<1>1. ASSUME NEW c \in Client PROVE seen'[c] <= status'
  <2>1. seen[c] \in Nat /\ status \in Nat /\ seen[c] <= status
    BY DEF ChannelTypeOK, ServerTypeOK, ClientTypeOK, OrderInv
  <2> QED
    BY <2>1
<1>2. ASSUME NEW k \in Conn PROVE Climbs(0, toClient'[k], status')
  BY DEF OrderInv
<1>3. ASSUME NEW c \in Client, line'[c] \in Conn
      PROVE  /\ Floor(c)' = Floor(c)
             /\ seen'[c] <= Floor(c) /\ Climbs(Floor(c), toClient'[line'[c]], status')
  <2>1. line'[c] = line[c] /\ buffer'[c] = buffer[c]
    BY <1>3
  <2>2. Floor(c)' = Floor(c)
    BY <2>1 DEF Floor
  <2>3. seen[c] <= Floor(c) /\ Climbs(Floor(c), toClient[line[c]], status) /\ Floor(c) \in Nat
    BY <1>3, <2>1, FloorTyped DEF OrderInv
  <2> QED
    BY <1>3, <2>1, <2>2, <2>3
<1> QED
  BY <1>1, <1>2, <1>3 DEF OrderInv, Climbs

\* A broadcast sends what is no older than what was sent before.
LEMMA OrderBroadcast ==
    ASSUME ChannelTypeOK, OrderInv, NEW now \in Nat, NEW buffers, NEW m \in Conn,
           NEW answers, answers \in {toClient, [toClient EXCEPT ![m] = @ \o <<status, End>>]},
           Broadcast(now, answers, buffers), status' = now, status <= now, UNCHANGED <<line, seen, buffer>>
    PROVE  OrderInv'
<1>1. ASSUME NEW k \in Conn, NEW low \in Nat, Climbs(low, toClient[k], status)
      PROVE  Climbs(low, toClient'[k], status')
  <2>1. toClient[k] \in Seq(ToClient) /\ status \in Nat /\ status <= status
    BY DEF ChannelTypeOK, TcpTypeOK, ServerTypeOK, ToClient
  <2>2. answers[k] \in {toClient[k], toClient[k] \o <<status, End>>}
    BY DEF ChannelTypeOK, TcpTypeOK
  <2>3. toClient'[k] \in {answers[k], answers[k] \o <<now, End>>}
    BY DEF Broadcast
  <2>4. answers[k] \in Seq(ToClient) /\ Climbs(low, answers[k], status)
    BY <1>1, <2>1, <2>2, StatusClimbs
  <2>5. Climbs(low, answers[k], now) /\ Climbs(low, answers[k] \o <<now, End>>, now)
    BY <2>1, <2>4, StatusClimbs, ClimbsHigher
  <2> QED
    BY <2>3, <2>5
<1> QED
  BY <1>1, OrderUnread

LEMMA OrderServer ==
    ASSUME ChannelTypeOK, OrderInv, Server, UNCHANGED clientVars PROVE OrderInv'
<1>1. UNCHANGED <<line, seen, buffer>>
  BY DEF Server, Accept, SeeEnd, ReadPart, ReadCommand, StatusChanges, LinkIsBack, CollectGarbage, Die, Boot,
     tcpVars, clientVars
<1>2. status \in Nat /\ status <= status
  BY DEF ChannelTypeOK, ServerTypeOK
<1>3. CASE UNCHANGED <<toClient, status>>
  BY <1>1, <1>2, <1>3, OrderUnread
<1>4. ASSUME NEW k \in Conn, SeeEnd(k) PROVE OrderInv'
  <2>1. UNCHANGED status /\ \A m \in Conn : toClient'[m] = IF m = k THEN <<>> ELSE toClient[m]
    BY <1>4 DEF SeeEnd, serverVars, ChannelTypeOK, TcpTypeOK
  <2>2. ASSUME NEW low \in Nat, NEW s, Climbs(low, s, status) PROVE low <= status
    BY <2>2 DEF Climbs
  <2>3. \A m \in Conn, low \in Nat :
          Climbs(low, toClient[m], status) => Climbs(low, toClient'[m], status')
    BY <1>2, <2>1, <2>2, NothingClimbs
  <2> QED
    BY <1>1, <1>2, <2>1, <2>3, OrderUnread
<1>5. ASSUME NEW fd \in Fd, ReadCommand(fd) PROVE OrderInv'
  <2>1. sockets[fd] \in Conn
    BY <1>5, CommandCases
  <2>2. status' \in Nat /\ status <= status'
    BY <1>2, <1>5 DEF ReadCommand
  <2>3. CASE UNCHANGED <<toClient, status>>
    BY <1>3, <2>3
  <2>4. CASE \E answers \in [Conn -> Seq(ToClient)] :
               /\ \/ answers = toClient
                  \/ answers = [toClient EXCEPT ![sockets[fd]] = @ \o <<status, End>>]
               /\ status' \in 0..MaxStatus
               /\ Broadcast(status', answers, Handled(fd))
    <3>1. PICK answers \in [Conn -> Seq(ToClient)] :
               /\ answers \in {toClient, [toClient EXCEPT ![sockets[fd]] = @ \o <<status, End>>]}
               /\ Broadcast(status', answers, Handled(fd))
      BY <2>4
    <3> QED
      BY <1>1, <2>1, <2>2, <3>1, OrderBroadcast
  <2> QED
    BY <1>5, <2>3, <2>4, CommandCases
<1>6. CASE StatusChanges
  <2>1. status' \in Nat /\ status <= status' /\ Broadcast(status', toClient, received)
    BY <1>2, <1>6 DEF StatusChanges
  <2>2. CASE Conn = {}
    BY <1>1, <2>1, <2>2, OrderUnread
  <2>3. CASE Conn # {}
    <3>1. PICK m \in Conn : TRUE
      BY <2>3
    <3> QED
      BY <1>1, <2>1, <3>1, OrderBroadcast
  <2> QED
    BY <2>2, <2>3
<1>7. CASE Boot \/ LinkIsBack
  <2>1. UNCHANGED toClient /\ status' \in Nat /\ status <= status'
    BY <1>2, <1>7 DEF Boot, LinkIsBack, tcpVars
  <2>2. \A k \in Conn : toClient[k] \in Seq(ToClient)
    BY DEF ChannelTypeOK, TcpTypeOK, ToClient
  <2>3. \A k \in Conn, low \in Nat :
          Climbs(low, toClient[k], status) => Climbs(low, toClient'[k], status')
    BY <1>2, <2>1, <2>2, ClimbsHigher
  <2> QED
    BY <1>1, <2>1, <2>3, OrderUnread
<1> QED
  BY <1>3, <1>4, <1>5, <1>6, <1>7
     DEF Server, Accept, ReadPart, CollectGarbage, Die, tcpVars

\* A half is read: the first one waits in the buffer, the End shows it.
LEMMA OrderRead ==
    ASSUME ChannelTypeOK, LineInv, ReadInv, OrderInv, NEW c \in Client, Read(c), UNCHANGED status
    PROVE  /\ OrderInv'
           /\ \/ seen' = seen
              \/ \E s \in 1..status : seen[c] < s /\ seen' = [seen EXCEPT ![c] = s]
<1> DEFINE k == line[c]
           s == toClient[k]
           b == buffer[c]
<1>1. /\ k \in Conn /\ cut[k] = "no" /\ s # <<>> /\ s \in Seq(ToClient)
      /\ line' = line
      /\ Fits(b, s) /\ b \in Seq(Nat) /\ Len(b) <= 1
  BY ReadTyped DEF Read, ReadInv, ChannelTypeOK, ClientTypeOK
<1>2. \A m \in Conn : toClient'[m] = IF m = k THEN Tail(s) ELSE toClient[m]
  BY <1>1 DEF Read, ChannelTypeOK, TcpTypeOK
<1>3. status \in Nat /\ 0 \in Nat /\ seen \in [Client -> Nat] /\ Floor(c) \in Nat
      /\ seen[c] <= Floor(c) /\ Climbs(Floor(c), s, status)
  BY <1>1, FloorTyped DEF OrderInv, ChannelTypeOK, ServerTypeOK, ClientTypeOK
<1>4. \A d \in Client \ {c} : buffer'[d] = buffer[d] /\ seen'[d] = seen[d] /\ (line[d] \in Conn => line[d] # k)
  BY <1>1 DEF Read, ProcessMessage, LineInv, ChannelTypeOK, ClientTypeOK
<1>5. \A m \in Conn : Climbs(0, toClient'[m], status)
  BY <1>1, <1>2, <1>3, TailClimbs DEF OrderInv
<1>6. \A d \in Client \ {c} :
        /\ seen'[d] <= status
        /\ line'[d] \in Conn => /\ Floor(d)' = Floor(d) /\ seen'[d] <= Floor(d)
                                /\ Climbs(Floor(d), toClient'[line'[d]], status)
  BY <1>1, <1>2, <1>4 DEF OrderInv, Floor
<1> HIDE DEF s, k, b
<1>7. /\ \/ seen' = seen
         \/ \E n \in 1..status : seen[c] < n /\ seen' = [seen EXCEPT ![c] = n]
      /\ seen'[c] <= Floor(c)'
      /\ Climbs(Floor(c)', Tail(s), status)
  <2>1. CASE Head(s) = End
    <3>1. b # <<>>
      BY <1>1, <2>1, Zenon DEF Fits, AtStart
    <3>2. Len(b) = 1
      BY <1>1, <3>1, OneHalf
    <3>3. seen' = [seen EXCEPT ![c] = b[1]] /\ buffer'[c] = <<>>
      BY <2>1, <3>2 DEF Read, Ends, ProcessMessage, ChannelTypeOK, ClientTypeOK, s, k, b
    <3>4. Floor(c) = b[1]
      BY <3>1 DEF Floor, b
    <3>5. seen'[c] = Floor(c) /\ Floor(c)' = Floor(c)
      BY <1>3, <3>3, <3>4 DEF Floor
    <3>6. Climbs(Floor(c), Tail(s), status) /\ Floor(c) <= status
      BY <1>1, <1>3, TailClimbs DEF Climbs
    <3>7. CASE seen[c] = Floor(c)
      BY <1>3, <3>3, <3>4, <3>5, <3>6, <3>7
    <3>8. CASE seen[c] # Floor(c)
      <4>1. Floor(c) \in 1..status /\ seen[c] < Floor(c)
        BY <1>3, <3>6, <3>8
      <4>2. seen' = [seen EXCEPT ![c] = Floor(c)]
        BY <3>3, <3>4
      <4>3. seen'[c] <= Floor(c)' /\ Climbs(Floor(c)', Tail(s), status)
        BY <1>3, <3>5, <3>6
      <4> QED
        BY <4>1, <4>2, <4>3
    <3> QED
      BY <3>7, <3>8
  <2>2. CASE Head(s) # End
    <3>1. b = <<>>
      BY <1>1, <2>2 DEF Fits, AtEnd
    <3>2. seen' = seen /\ buffer'[c] = Append(b, Head(s))
      BY <2>2 DEF Read, Ends, ChannelTypeOK, ClientTypeOK, s, k, b
    <3>3. Append(<<>>, Head(s)) # <<>> /\ Append(<<>>, Head(s))[1] = Head(s)
      OBVIOUS
    <3>4. Floor(c)' = Head(s) /\ Floor(c) = seen[c]
      BY <3>1, <3>2, <3>3 DEF Floor, b
    <3>5. seen[c] <= Head(s) /\ Climbs(Head(s), Tail(s), status)
      BY <1>1, <1>3, <2>2, <3>4, TailClimbs
    <3> QED
      BY <3>2, <3>4, <3>5
  <2> QED
    BY <2>1, <2>2
<1>8. seen'[c] <= status
  BY <1>3, <1>7 DEF OrderInv
<1>9. ASSUME NEW d \in Client
      PROVE  /\ seen'[d] <= status'
             /\ line'[d] \in Conn => seen'[d] <= Floor(d)' /\ Climbs(Floor(d)', toClient'[line'[d]], status')
  <2>1. CASE d = c
    BY <1>1, <1>2, <1>7, <1>8, <2>1 DEF k
  <2>2. CASE d # c
    BY <1>6, <2>2
  <2> QED
    BY <2>1, <2>2
<1>10. OrderInv'
  BY <1>5, <1>9 DEF OrderInv, Climbs, Floor
<1> QED
  BY <1>7, <1>10

LEMMA OrderClients ==
    ASSUME ChannelTypeOK, LineInv, ReadInv, OrderInv, UNCHANGED serverVars, NEW c \in Client,
           \/ Connects(c) \/ Refused(c) \/ Fails(c) \/ WatchdogData(c)
           \/ Disconnect(c) \/ SendCommand(c)
    PROVE  OrderInv' /\ seen' = seen
<1>1. status' = status /\ status \in Nat /\ status <= status
  BY DEF serverVars, ChannelTypeOK, ServerTypeOK
<1>2. UNCHANGED seen
  BY ConnectsUnused DEF Connect, Refused, Fails, WatchdogData, Disconnect, SendCommand
<1>3. CASE Connects(c)
  <2>1. PICK k \in Conn : Unused(k) /\ Connect(c, k)
    BY <1>3, ConnectsUnused
  <2>2. /\ \A d \in Client \ {c} : line'[d] = line[d] /\ line[d] # k /\ buffer'[d] = buffer[d]
        /\ line'[c] = k /\ buffer'[c] = <<>>
        /\ \A m \in Conn : toClient'[m] = IF m = k THEN <<>> ELSE toClient[m]
    BY <2>1 DEF Connect, ConnectedData, Unused, ChannelTypeOK, TcpTypeOK, ClientTypeOK
  <2>3. seen[c] \in Nat /\ seen[c] <= status
    BY DEF OrderInv, ChannelTypeOK, ClientTypeOK
  <2>4. Climbs(seen[c], <<>>, status) /\ Climbs(0, <<>>, status)
    BY <1>1, <2>3, NothingClimbs
  <2>5. \A m \in Conn : Climbs(0, toClient'[m], status')
    BY <1>1, <2>2, <2>4 DEF OrderInv
  <2>6. ASSUME NEW d \in Client, line'[d] \in Conn
        PROVE  seen'[d] <= Floor(d)' /\ Climbs(Floor(d)', toClient'[line'[d]], status')
    <3>1. CASE d = c
      <4>1. Floor(c)' = seen[c]
        BY <1>2, <2>2 DEF Floor
      <4>2. toClient'[line'[c]] = <<>>
        BY <2>2
      <4> QED
        BY <1>1, <1>2, <2>3, <2>4, <3>1, <4>1, <4>2
    <3>2. CASE d # c
      <4>1. Floor(d)' = Floor(d)
        BY <1>2, <2>2, <3>2 DEF Floor
      <4> QED
        BY <1>1, <1>2, <2>2, <2>6, <3>2, <4>1 DEF OrderInv
    <3> QED
      BY <3>1, <3>2
  <2> QED
    BY <1>1, <1>2, <2>5, <2>6 DEF OrderInv, Climbs, Floor
<1>4. CASE Refused(c) \/ Fails(c) \/ WatchdogData(c) \/ SendCommand(c)
  <2>1. UNCHANGED <<line, toClient, buffer>>
    BY <1>4 DEF Refused, Fails, WatchdogData, SendCommand, tcpVars
  <2> QED
    BY <1>1, <1>2, <2>1, OrderUnread
<1>5. CASE Disconnect(c)
  <2>1. /\ line[c] \in Conn /\ line' = [line EXCEPT ![c] = NoConn] /\ UNCHANGED buffer
        /\ \A m \in Conn : toClient'[m] \in {toClient[m], <<>>}
    BY <1>5 DEF Disconnect, LineInv, ChannelTypeOK, TcpTypeOK
  <2>2. \A d \in Client : line'[d] \in Conn => line'[d] = line[d] /\ buffer'[d] = buffer[d]
    BY <2>1, ConnAssumption DEF ChannelTypeOK, TcpTypeOK
  <2>3. ASSUME NEW low \in Nat, NEW s, Climbs(low, s, status) PROVE low <= status
    BY <2>3 DEF Climbs
  <2>4. \A m \in Conn, low \in Nat :
          Climbs(low, toClient[m], status) => Climbs(low, toClient'[m], status')
    BY <1>1, <2>1, <2>3, NothingClimbs
  <2> QED
    BY <1>1, <1>2, <2>2, <2>4, OrderUnread
<1> QED
  BY <1>2, <1>3, <1>4, <1>5

LEMMA OrderLoss ==
    ASSUME ChannelTypeOK, OrderInv, NEW k \in Conn, NEW how \in {"told", "silent"}, Loss(k, how)
    PROVE  OrderInv' /\ UNCHANGED <<status, seen>>
<1>1. /\ UNCHANGED <<line, status, seen, buffer>>
      /\ \A m \in Conn : toClient'[m] \in {toClient[m], <<>>}
  BY DEF Loss, Lose, serverVars, ChannelTypeOK, TcpTypeOK
<1>2. status \in Nat /\ status <= status
  BY DEF ChannelTypeOK, ServerTypeOK
<1>3. ASSUME NEW low \in Nat, NEW s, Climbs(low, s, status) PROVE low <= status
  BY <1>3 DEF Climbs
<1>4. \A m \in Conn, low \in Nat :
        Climbs(low, toClient[m], status) => Climbs(low, toClient'[m], status')
  BY <1>1, <1>2, <1>3, NothingClimbs
<1> QED
  BY <1>1, <1>2, <1>4, OrderUnread

\* The server changes the status by one; it shows nothing.
LEMMA ServerChanges ==
    ASSUME ChannelTypeOK, Server, UNCHANGED clientVars
    PROVE  seen' = seen /\ status' \in {status, status + 1}
<1>1. seen' = seen
  BY DEF clientVars
<1>2. status' \in {status, status + 1}
  BY DEF Server, Accept, SeeEnd, ReadPart, ReadCommand, StatusChanges, LinkIsBack, CollectGarbage, Die, Boot, serverVars
<1> QED
  BY <1>1, <1>2

LEMMA OrderInvKept ==
    ASSUME ChannelTypeOK, LineInv, ReadInv, OrderInv, [ChannelNext]_channelVars
    PROVE  OrderInv' /\ [View!Next]_(View!view)
<1>1. CASE Server /\ UNCHANGED clientVars
  <2>1. seen' = seen /\ status' \in {status, status + 1}
    BY <1>1, ServerChanges
  <2>2. [View!Next]_(View!view)
    BY <2>1 DEF View!Next, View!Change, View!view
  <2> QED
    BY <1>1, <2>2, OrderServer
<1>2. ASSUME NEW c \in Client, UNCHANGED serverVars, Read(c)
      PROVE  OrderInv' /\ [View!Next]_(View!view)
  <2>1. UNCHANGED status
    BY <1>2 DEF serverVars
  <2>2. /\ OrderInv'
        /\ \/ seen' = seen
           \/ \E s \in 1..status : seen[c] < s /\ seen' = [seen EXCEPT ![c] = s]
    BY <1>2, <2>1, OrderRead
  <2>3. CASE seen' = seen
    BY <2>1, <2>2, <2>3 DEF View!view
  <2>4. ASSUME NEW s \in 1..status, seen[c] < s, seen' = [seen EXCEPT ![c] = s]
        PROVE  View!Next
    <3>1. s <= status
      OBVIOUS
    <3> QED
      BY <2>1, <2>4, <3>1 DEF View!Next, View!Show
  <2> QED
    BY <2>2, <2>3, <2>4
<1>3. ASSUME NEW c \in Client, UNCHANGED serverVars,
             \/ Connects(c) \/ Refused(c) \/ Fails(c) \/ WatchdogData(c)
             \/ Disconnect(c) \/ SendCommand(c)
      PROVE  OrderInv' /\ [View!Next]_(View!view)
  BY <1>3, OrderClients DEF View!view, serverVars
<1>4. ASSUME NEW k \in Conn, NEW how \in {"told", "silent"}, Loss(k, how)
      PROVE  OrderInv' /\ [View!Next]_(View!view)
  BY <1>4, OrderLoss DEF View!view
<1>5. CASE UNCHANGED channelVars
  <2>1. UNCHANGED <<line, toClient, status, seen, buffer>>
    BY <1>5 DEF channelVars, tcpVars, serverVars, clientVars
  <2>2. status \in Nat /\ status <= status
    BY DEF ChannelTypeOK, ServerTypeOK
  <2>3. OrderInv'
    BY <2>1, <2>2, OrderUnread
  <2> QED
    BY <2>1, <2>3 DEF View!view
<1> QED
  BY <1>1, <1>2, <1>3, <1>4, <1>5 DEF ChannelNext, Clients

LEMMA OrderInit == ChannelInit => OrderInv /\ View!Init
<1> SUFFICES ASSUME ChannelInit PROVE OrderInv /\ View!Init
  OBVIOUS
<1>1. /\ status = 0 /\ seen = [c \in Client |-> 0]
      /\ \A c \in Client : line[c] = NoConn
      /\ \A k \in Conn : toClient[k] = <<>>
  BY DEF ChannelInit, TcpInit, ServerInit, ClientInit
<1>2. Climbs(0, <<>>, 0) /\ 0 <= 0
  BY NothingClimbs
<1>3. OrderInv
  BY <1>1, <1>2, ConnAssumption DEF OrderInv
<1> QED
  BY <1>1, <1>3 DEF View!Init

\* Clients and server implement the view of the status: for any number of clients, and
\* through losses, reconnections and restarts, a client shows only what the daemon's
\* status has been, and never an older status after a newer one.
THEOREM StatusViewRefined == ChannelSpec => IsStatusView
<1>1. ChannelInit => ReadInv /\ TableInv /\ OrderInv /\ View!Init
  <2>1. ChannelInit => ReadInv
    BY ConnAssumption, NothingAlternates DEF ChannelInit, TcpInit, ReadInv
  <2> QED
    BY <2>1, ChannelInitWhole, OrderInit
<1>2. /\ ChannelTypeOK /\ LineInv /\ TableInv /\ ReadInv /\ OrderInv
      /\ [ChannelNext]_channelVars
      => TableInv' /\ ReadInv' /\ OrderInv' /\ [View!Next]_(View!view)
  BY TableInvKept, ReadInvKept, OrderInvKept
<1> QED
  BY <1>1, <1>2, ChannelInitTyped, ChannelNextTyped, PTL DEF ChannelSpec, IsStatusView, View!Spec

=============================================================================
