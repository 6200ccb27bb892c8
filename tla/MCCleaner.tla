------------------------------- MODULE MCCleaner -------------------------------
(* Instances of Cleaner for TLC.                                            *)
EXTENDS Cleaner
CONSTANTS c1, c2, p1, g1
=============================================================================
