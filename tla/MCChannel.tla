------------------------------ MODULE MCChannel ------------------------------
(* An instance of Channel for TLC. *)
EXTENDS Channel, TLC

CONSTANTS c1, c2, k1, k2, k3

MCClient == {c1, c2}
MCConn == {k1, k2, k3}
=============================================================================
