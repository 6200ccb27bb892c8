----------------------------- MODULE MCElection ------------------------------
(* Instances of Election for TLC.                                           *)
EXTENDS Election
CONSTANTS w1, w2, w3
=============================================================================
