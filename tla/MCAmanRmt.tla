------------------------------ MODULE MCAmanRmt ------------------------------
(* An instance of AmanRmt for TLC. *)
EXTENDS AmanRmt
=============================================================================
