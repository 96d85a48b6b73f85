--------------------------- MODULE ReplicationTest ---------------------------
(***************************************************************************)
(* The test that a master's changes reach the slave: class ReplicationTest *)
(* (src/amand/replicationtest.cpp) and its uses in src/amand/amand.cpp.    *)
(* Once a second the daemon writes a number into its own server and then   *)
(* looks for it in the peer's, every AM_REPLICATION_TICK_INTERVAL, until a *)
(* time-out.                                                               *)
(***************************************************************************)
EXTENDS Integers

CONSTANTS
    TickInterval,  \* AM_REPLICATION_TICK_INTERVAL, 10 ms
    ConfTimeout    \* MysqlReplicationTimeout of aman.conf, or its default of 10

ASSUME TickAssumption == TickInterval \in Nat \ {0} /\ ConfTimeout \in Nat

\* AMConfig::load divides what the file says, and also the default, by the interval.
\* The first look comes before the time-out is looked at.
Timeout == ConfTimeout \div TickInterval
MaxTicks == IF Timeout = 0 THEN 1 ELSE Timeout

VARIABLES
    ticks,      \* ticks of the test under way, or NoTest
    arrived,    \* the peer's server has the number written last
    repl,       \* mysqlReplicationTime(This)
    working,    \* main_replication_test_state
    mysql,      \* mysqlAccessible(This), what the monitor was told
    accessible, \* whether the own server is accessible
    peerOpen,   \* whether the peer's server can be read
    flowing,    \* whether changes flow from the own server to the peer's
    peerSlave,  \* whether the monitor says dbState(That) is a slave
    dbMailed    \* history: the last alert about database replication

testVars == <<ticks, arrived, repl, working, mysql>>
worldVars == <<accessible, peerOpen, flowing, peerSlave>>
replVars == <<testVars, worldVars, dbMailed>>

NoTest == -1

ReplTypeOK ==
    /\ ticks \in {NoTest} \cup 0..MaxTicks-1
    /\ arrived \in BOOLEAN
    /\ repl \in {k * TickInterval : k \in 0..MaxTicks}
    /\ working \in BOOLEAN
    /\ mysql \in BOOLEAN
    /\ accessible \in BOOLEAN /\ peerOpen \in BOOLEAN /\ flowing \in BOOLEAN
    /\ peerSlave \in BOOLEAN
    /\ dbMailed \in {"nothing", "RESUMED", "STOPPED"}

\* Mutant: a new daemon takes replication for stopped.
MutWorkingAtBoot == FALSE

WorkingAtBoot == TRUE

ReplInit ==
    /\ ticks = NoTest
    /\ arrived = FALSE
    /\ repl = 0
    /\ working = WorkingAtBoot
    /\ mysql = FALSE
    /\ accessible = TRUE /\ peerOpen = TRUE /\ flowing = FALSE
    /\ peerSlave = FALSE
    /\ dbMailed = "nothing"

\* replicationTestCompleteData: the change is mailed only if the peer is known as a
\* slave at this moment.
TestComplete(success, k) ==
    /\ repl' = IF success THEN k * TickInterval ELSE 0
    /\ working' = success
    /\ dbMailed' = IF success # working /\ peerSlave
                   THEN (IF success THEN "RESUMED" ELSE "STOPPED") ELSE dbMailed

\* checkStatusData, CheckLocalState and startTest, between two tests: an accessible
\* server is given a new number; if the peer's server cannot be opened the test is over.
CheckStatus ==
    /\ ticks = NoTest
    /\ mysql' = accessible
    /\ IF accessible
       THEN /\ arrived' = FALSE
            /\ IF peerOpen
               THEN ticks' = 0 /\ UNCHANGED <<repl, working, dbMailed>>
               ELSE TestComplete(FALSE, 0) /\ UNCHANGED ticks
       ELSE UNCHANGED <<ticks, arrived, repl, working, dbMailed>>
    /\ UNCHANGED worldVars

Expired == ticks + 1 >= Timeout

\* Mutant: a number that cannot be read is not reported.
MutTryResult ==
    /\ ticks # NoTest
    /\ IF ~peerOpen
       THEN ticks' = NoTest /\ UNCHANGED <<repl, working, dbMailed>>
       ELSE IF arrived
       THEN ticks' = NoTest /\ TestComplete(TRUE, ticks + 1)
       ELSE IF Expired
       THEN ticks' = NoTest /\ TestComplete(FALSE, 0)
       ELSE ticks' = ticks + 1 /\ UNCHANGED <<repl, working, dbMailed>>
    /\ UNCHANGED <<arrived, mysql, worldVars>>

\* tryResultData.
TryResult ==
    /\ ticks # NoTest
    /\ IF peerOpen /\ arrived
       THEN ticks' = NoTest /\ TestComplete(TRUE, ticks + 1)
       ELSE IF ~peerOpen \/ Expired
       THEN ticks' = NoTest /\ TestComplete(FALSE, 0)
       ELSE ticks' = ticks + 1 /\ UNCHANGED <<repl, working, dbMailed>>
    /\ UNCHANGED <<arrived, mysql, worldVars>>

\* The daemon dies and is started again.
ReplRestart ==
    /\ ticks' = NoTest
    /\ repl' = 0
    /\ working' = WorkingAtBoot
    /\ mysql' = FALSE
    /\ UNCHANGED <<arrived, worldVars, dbMailed>>

-----------------------------------------------------------------------------
(* The database servers, and the peer's status as it comes in.               *)

Replicate ==
    /\ flowing /\ ~arrived
    /\ arrived' = TRUE
    /\ UNCHANGED <<ticks, repl, working, mysql, worldVars, dbMailed>>

WorldChanges ==
    /\ \/ accessible' = ~accessible /\ UNCHANGED <<peerOpen, flowing, peerSlave>>
       \/ peerOpen' = ~peerOpen /\ UNCHANGED <<accessible, flowing, peerSlave>>
       \/ flowing' = ~flowing /\ UNCHANGED <<accessible, peerOpen, peerSlave>>
       \/ peerSlave' = ~peerSlave /\ UNCHANGED <<accessible, peerOpen, flowing>>
    /\ UNCHANGED <<testVars, dbMailed>>

ReplNext == CheckStatus \/ TryResult \/ Replicate \/ WorldChanges

-----------------------------------------------------------------------------
(* Properties.                                                               *)

\* Replication that has stopped for good is shown as stopped, as long as the own server
\* is accessible: without it no test is made, and the last time stays.
Stopped == accessible /\ ~flowing
StopIsShown == <>[]Stopped => <>[](repl = 0)

=============================================================================
