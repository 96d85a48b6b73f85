----------------------------- MODULE MCSnapshots -----------------------------
(* Instances of Snapshots for TLC. *)
EXTENDS Snapshots, TLC

CONSTANTS a, b, s1, s2

MCNode == {a, b}
MCSnapshot == {s1, s2}

\* No action, assumption or property tells hosts or names apart.
Alike == Permutations(MCNode) \cup Permutations(MCSnapshot)
=============================================================================
