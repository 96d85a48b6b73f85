------------------------------ MODULE MCAMState ------------------------------
(* Instances of AMState for TLC. *)
EXTENDS AMState, TLC

CONSTANTS s1, s2

OneName == {s1}
TwoNames == {s1, s2}
NamesAlike == Permutations({s1, s2})
=============================================================================
