----------------------------- MODULE MCAriaClient -----------------------------
(* Instances of AriaClient for TLC.                                         *)
EXTENDS AriaClient
CONSTANTS r1, r2
=============================================================================
