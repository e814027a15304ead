------------------------------ MODULE MCSeries ------------------------------
(***************************************************************************)
(* Instances of Series for TLC: few times, two values, a file that starts  *)
(* with room for two points, so that growth, appends, merges with and      *)
(* without duplicates, and reopening all happen.                           *)
(***************************************************************************)
EXTENDS Series

(* Every time that is neither a filler nor its search key. *)
MCWriteTimes == 0 .. MaxTime - 2

(* Every value of a timestamp_t, SDB_TIMESTAMP_MAX included. *)
MCAllTimes == Time
=============================================================================
