--------------------------------- MODULE Tcp ---------------------------------
(***************************************************************************)
(* TCP as the command protocol sees it: connections that deliver halves of *)
(* messages in order until one end dies or the network loses them.         *)
(***************************************************************************)
EXTENDS Naturals, Sequences

CONSTANTS
    Client,  \* the AMConnection objects: those of aman(1) and amanrmt(1)
    Conn,    \* connections; one is used again when nobody holds it any more
    NoConn,
    End      \* the second half of every message, with its exclamation mark

ASSUME ConnAssumption == NoConn \notin Conn /\ End \notin Nat \cup {"ST", "MI"}

VARIABLES
    line,     \* line[c]: the connection of c's socket, NoConn if it is not connected
    far,      \* far[k]: the daemon's end: "waiting" to be accepted, "open", "closed"
    cut,      \* cut[k]: whether the network lost k: "no", "told" or "silent"
    toServer, \* toServer[k]: halves of commands under way
    toClient  \* toClient[k]: halves of answers and status updates under way

tcpVars == <<line, far, cut, toServer, toClient>>

TcpInit ==
    /\ line = [c \in Client |-> NoConn]
    /\ far = [k \in Conn |-> "closed"]
    /\ cut = [k \in Conn |-> "no"]
    /\ toServer = [k \in Conn |-> <<>>]
    /\ toClient = [k \in Conn |-> <<>>]

TcpTypeOK ==
    /\ line \in [Client -> Conn \cup {NoConn}]
    /\ far \in [Conn -> {"waiting", "open", "closed"}]
    /\ cut \in [Conn -> {"no", "told", "silent"}]
    /\ toServer \in [Conn -> Seq({"ST", "MI", End})]
    /\ toClient \in [Conn -> Seq(Nat \cup {End})]

\* The next half is the end of a message.
Ends(halves) == Head(halves) = End

\* A silent loss shows when an end has sent something that nobody confirms.
EndShows(k, sent) == cut[k] = "told" \/ (cut[k] = "silent" /\ sent # <<>>)

Lose(k, how) ==
    /\ cut[k] = "no" /\ (far[k] # "closed" \/ \E c \in Client : line[c] = k)
    /\ cut' = [cut EXCEPT ![k] = how]
    /\ toServer' = [toServer EXCEPT ![k] = <<>>]
    /\ toClient' = [toClient EXCEPT ![k] = <<>>]
    /\ UNCHANGED <<line, far>>

=============================================================================
