---------------------------- MODULE MCSeriesCrash ----------------------------
(***************************************************************************)
(* Instances of SeriesCrash for TLC.                                       *)
(***************************************************************************)
EXTENDS SeriesCrash

MCWriteTimes == 1 .. MaxTime - 2
=============================================================================
