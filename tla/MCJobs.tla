-------------------------------- MODULE MCJobs --------------------------------
(* An instance of Jobs for TLC. *)
EXTENDS Jobs
=============================================================================
