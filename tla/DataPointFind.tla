--------------------------- MODULE DataPointFind ----------------------------
(***************************************************************************)
(* The loop of data_point_find (src/data-point.c): a binary search that    *)
(* stops early on an exact match.  It is called on ascending lists and, by *)
(* series_create, on a whole file, whose fillers share one time: the list  *)
(* is therefore only non-decreasing, but never holds the sought time more  *)
(* than once.                                                              *)
(***************************************************************************)
EXTENDS DataPointLists

VARIABLES
  timestamp,  \* the sought time
  left, right,
  result      \* the offset that is returned

find_vars == << timestamp, left, right, result >>

NoFind == timestamp = 0 /\ left = 0 /\ right = 0 /\ result = 0

(* The lists the routine is called on. *)
Searchable(list, size, t) ==
  /\ \A i, j \in 1 .. size : i < j => list[i].time <= list[j].time
  /\ \A i, j \in 1 .. size : list[i].time = t /\ list[j].time = t => i = j

FindInit ==
  /\ routine = "find"
  /\ n \in 0 .. MaxCount
  /\ points \in [ 1 .. n -> Point ]
  /\ timestamp \in Time
  /\ Searchable(points, n, timestamp)
  /\ left = 0
  /\ right = n
  /\ pc = "start"
  /\ result = 0

Return(offset) ==
  /\ pc' = "done"
  /\ result' = offset
  /\ UNCHANGED << points, n, timestamp, left, right >>

(* Mutant: a time behind the last point yields the offset after the end. *)
FindStart_PastEnd ==
  /\ pc = "start"
  /\ IF n = 0 THEN Return(0)
     ELSE IF timestamp < points[1].time THEN Return(0)
     ELSE IF timestamp > points[n].time THEN Return(n + 1)
     ELSE pc' = "loop" /\ UNCHANGED << points, n, timestamp, left, right, result >>

(* The early returns: no points (NULL, which the callers use as offset 0), *)
(* before the first, behind the last.                                      *)
FindStart ==
  /\ pc = "start"
  /\ IF n = 0 THEN Return(0)
     ELSE IF timestamp < points[1].time THEN Return(0)
     ELSE IF timestamp > points[n].time THEN Return(n)
     ELSE pc' = "loop" /\ UNCHANGED << points, n, timestamp, left, right, result >>

Mid == (right + left) \div 2

Narrow(l, r) ==
  /\ left' = l
  /\ right' = r
  /\ UNCHANGED << points, n, timestamp, pc, result >>

(* Mutant: an exact match yields the offset behind it, as an upper bound. *)
FindIterate_UpperBound ==
  /\ pc = "loop"
  /\ left < right
  /\ \/ timestamp < points[Mid + 1].time /\ Narrow(left, Mid)
     \/ timestamp > points[Mid + 1].time /\ Narrow(Mid + 1, right)
     \/ timestamp = points[Mid + 1].time /\ Return(Mid + 1)

(* Mutant: left = mid instead of mid + 1. *)
FindIterate_StuckLeft ==
  /\ pc = "loop"
  /\ left < right
  /\ \/ timestamp < points[Mid + 1].time /\ Narrow(left, Mid)
     \/ timestamp > points[Mid + 1].time /\ Narrow(Mid, right)
     \/ timestamp = points[Mid + 1].time /\ Return(Mid)

(* One iteration of the while loop; offset Mid is index Mid + 1. *)
FindIterate ==
  /\ pc = "loop"
  /\ left < right
  /\ \/ timestamp < points[Mid + 1].time /\ Narrow(left, Mid)
     \/ timestamp > points[Mid + 1].time /\ Narrow(Mid + 1, right)
     \/ timestamp = points[Mid + 1].time /\ Return(Mid)

Exhausted ==
  /\ pc = "loop"
  /\ ~ left < right
  /\ Return(left)

FindNext == routine = "find" /\ (FindStart \/ FindIterate \/ Exhausted)

-----------------------------------------------------------------------------
FindTypeOK ==
  /\ n \in 0 .. MaxCount
  /\ points \in [ 1 .. n -> Point ]
  /\ timestamp \in Time
  /\ left \in 0 .. n
  /\ right \in 0 .. n
  /\ pc \in { "start", "loop", "done" }
  /\ result \in 0 .. n

(* The loop invariant: everything before left is before the timestamp,     *)
(* everything from right on is behind it.                                  *)
Bracketed ==
  /\ left <= right
  /\ \A i \in 1 .. left : points[i].time < timestamp
  /\ \A i \in right + 1 .. n : points[i].time > timestamp

(* data_point_find returns the first point that is not before the          *)
(* timestamp, which is what Series takes it to return.                     *)
FindIsCorrect ==
  routine = "find" /\ pc = "done" => result = Find(points, n, timestamp)
=============================================================================
