------------------------- MODULE DataPointDistinct --------------------------
(***************************************************************************)
(* The loop of data_point_non_zero_distinct (src/data-point.c), which      *)
(* series_prepare_input runs on the points qsort has left in order of      *)
(* time: it compacts the list in place, drops points of time 0 and         *)
(* overwrites a kept point by a later one of the same time.                *)
(***************************************************************************)
EXTENDS DataPointLists

VARIABLES
  sorted,   \* the list as data_point_sort left it (never written)
  curr,     \* how many points were visited
  tail      \* how many points are kept

distinct_vars == << sorted, curr, tail >>

NoDistinct == sorted = 0 /\ curr = 0 /\ tail = 0

(* qsort: any arrangement that does not decrease, equal times in any order. *)
DistinctInit ==
  /\ routine = "distinct"
  /\ n \in 0 .. MaxCount
  /\ sorted \in [ 1 .. n -> Point ]
  /\ \A i, j \in 1 .. n : i < j => sorted[i].time <= sorted[j].time
  /\ points = sorted
  /\ curr = 0
  /\ tail = 0
  /\ pc = "loop"

(* Mutant: a point of an equal time gets a slot of its own. *)
Target_KeepEqual == IF tail = 0 THEN 1
                    ELSE IF points[tail].time <= points[curr + 1].time THEN tail + 1
                    ELSE tail

(* The slot the current point is copied to: a new one, or the last kept    *)
(* one when the times are equal.                                           *)
Target == IF tail = 0 THEN 1
          ELSE IF points[tail].time < points[curr + 1].time THEN tail + 1
          ELSE tail

(* Mutant: points of time 0 are kept. *)
Visit_KeepZero ==
  /\ pc = "loop" /\ curr < n
  /\ tail' = Target
  /\ points' = [ points EXCEPT ![Target] = points[curr + 1] ]
  /\ curr' = curr + 1
  /\ UNCHANGED << sorted, n, pc >>

Visit ==
  /\ pc = "loop" /\ curr < n
  /\ IF points[curr + 1].time # 0
     THEN /\ tail' = Target
          /\ points' = [ points EXCEPT ![Target] = points[curr + 1] ]
     ELSE UNCHANGED << tail, points >>
  /\ curr' = curr + 1
  /\ UNCHANGED << sorted, n, pc >>

DistinctFinish ==
  /\ pc = "loop" /\ curr = n
  /\ pc' = "done"
  /\ UNCHANGED << sorted, n, points, curr, tail >>

DistinctNext == routine = "distinct" /\ (Visit \/ DistinctFinish)

-----------------------------------------------------------------------------
DistinctTypeOK ==
  /\ n \in 0 .. MaxCount
  /\ sorted \in [ 1 .. n -> Point ]
  /\ points \in [ 1 .. n -> Point ]
  /\ curr \in 0 .. n
  /\ tail \in 0 .. n
  /\ pc \in { "loop", "done" }

(* What was kept of the visited points: one point of every time but 0, in  *)
(* ascending order; compacting never overtakes reading.                    *)
KeptSoFar ==
  routine = "distinct" =>
  /\ tail <= curr
  /\ \A i \in curr + 1 .. n : points[i] = sorted[i]
  /\ Ascending(points, tail)
  /\ Elems(points, tail) \subseteq Elems(sorted, curr)
  /\ Times(Elems(points, tail)) = Times(Elems(sorted, curr)) \ {0}

(* The kept points are one of the choices Series allows for, listed in     *)
(* ascending order.                                                        *)
PreparedIsCorrect ==
  routine = "distinct" /\ pc = "done" =>
    \E S \in PrepareInput(Elems(sorted, n)) :
       tail = Cardinality(S) /\ \A i \in 1 .. tail : points[i] = SortPoints(S)[i]
=============================================================================
