--------------------------- MODULE MCBenchRunner ---------------------------
(***************************************************************************)
(* Small instances of BenchRunner for TLC.                                 *)
(***************************************************************************)
EXTENDS BenchRunner

TwoSamples == <<"s1", "s2">>
=============================================================================
