----------------------------- MODULE MCReporter ------------------------------
(* Instances of Reporter for TLC.                                           *)
EXTENDS Reporter
CONSTANTS r1, r2
=============================================================================
