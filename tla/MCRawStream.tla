----------------------------- MODULE MCRawStream -----------------------------
(* Instances of RawStream for TLC.                                          *)
EXTENDS RawStream
CONSTANTS r1, r2, gb1, gb2, m1, m2, m3

\* One process on two brokers: the first notification comes from both.
OneProcess == {<<r1, gb1, m1>>, <<r1, gb2, m1>>, <<r1, gb1, m2>>, <<r1, gb1, m3>>}
=============================================================================
