----------------------------- MODULE DataPoints -----------------------------
(***************************************************************************)
(* Data points and lists of data points (src/data-point.h), and what the   *)
(* routines of src/data-point.c compute on the ascending lists they are    *)
(* written for.  The loops themselves are the modules DataPointFind,       *)
(* DataPointMerge and DataPointDistinct, which are proved to compute the   *)
(* operators defined here.                                                 *)
(*                                                                         *)
(* A list of n points is a function on 1..n: the C offset o is the index   *)
(* o + 1.  A position returned by a search is the C offset, 0..n.          *)
(***************************************************************************)
EXTENDS Integers, FiniteSets

CONSTANTS
  MaxTime,   \* SDB_TIMESTAMP_MAX, the largest value of a timestamp_t
  Value      \* what a point carries besides its time; never interpreted

ASSUME MaxTimeAssumption == MaxTime \in Nat /\ MaxTime >= 2

Time == 0 .. MaxTime

(* timestamp_t arithmetic is modulo 2^64. *)
NextTime(t) == (t + 1) % (MaxTime + 1)

Point == [time : Time, value : Value]

(* The elements of the first n entries of a list. *)
Elems(list, n) == { list[i] : i \in 1 .. n }

Times(S) == { p.time : p \in S }

(* The first n entries have strictly increasing times. *)
Ascending(list, n) == \A i, j \in 1 .. n : i < j => list[i].time < list[j].time

(* A set of points with at most one point per time. *)
DistinctTimes(S) == \A p, q \in S : p.time = q.time => p = q

-----------------------------------------------------------------------------
(* data_point_find: the offset of the first of the n points that is not    *)
(* before t, which is the number of points before t.                       *)
Find(list, n, t) == Cardinality({ i \in 1 .. n : list[i].time < t })

(* The ascending list of a finite set of points with distinct times.       *)
Rank(p, S) == Cardinality({ q \in S : q.time < p.time })

SortPoints(S) ==
  [ i \in 1 .. Cardinality(S) |-> CHOOSE p \in S : Rank(p, S) = i - 1 ]

(* The points of "old" after those of "new" were written over them.        *)
Overwrite(old, new) == new \cup { p \in old : p.time \notin Times(new) }

(* data_point_merge: src is merged into dst and wins where times are equal. *)
Merge(src, m, dst, n) == SortPoints(Overwrite(Elems(dst, n), Elems(src, m)))

(* series_prepare_input: sort by time, drop time 0, keep one point of each *)
(* remaining time.  qsort leaves the order of equal times open, and with   *)
(* it which of the points with equal times is kept.                        *)
PrepareInput(batch) ==
  { S \in SUBSET batch : /\ DistinctTimes(S)
                         /\ Times(S) = Times(batch) \ {0} }
=============================================================================
