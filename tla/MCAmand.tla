------------------------------- MODULE MCAmand -------------------------------
(* Instances of Amand for TLC. *)
EXTENDS Amand, TLC

CONSTANTS a, b, pub

MCNode == {a, b}
OneLink == {pub}
OneName == [host : MCNode, time : {1}]
TwoNames == [host : MCNode, time : 1..2]
ThreeNames == [host : MCNode, time : 1..3]
NoTime == {0}
SomeTimes == {0, 10}

\* The daemons are alike.
Swap == Permutations(MCNode)
=============================================================================
