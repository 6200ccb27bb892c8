---------------------------- MODULE MCStatsWindows ----------------------------
(* Instances of StatsWindows for TLC.                                       *)
EXTENDS StatsWindows
CONSTANTS r1, r2, m1
===============================================================================
