---------------------------- MODULE SeriesStore -----------------------------
(***************************************************************************)
(* What a time series promises its users, whatever the file looks like: a  *)
(* set of points with one value per time, where the last write of a time   *)
(* wins, reads that return a window of it in ascending order, and nothing  *)
(* but a truncation that ever removes a point.                             *)
(***************************************************************************)
EXTENDS DataPoints

CONSTANTS
  Batches,    \* the lists of points that users write, as sets
  MaxRead     \* the largest max_points of a read

VARIABLES
  store,      \* the points of the series
  reply       \* what the last call returned

vars == << store, reply >>

Status(code) == [ status |-> code ]
Points(S, max) ==
  LET n == Cardinality(S)
  IN  [ i \in 1 .. (IF n < max THEN n ELSE max) |-> SortPoints(S)[i] ]
Listed(list) == [ points |-> list ]

Init == store = {} /\ reply = Status(0)

(* A batch without a single usable point is refused and changes nothing. *)
Write(batch) ==
  \E new \in PrepareInput(batch) :
     /\ store' = Overwrite(store, new)
     /\ reply' = Status(IF new = {} THEN -1 ELSE 0)

(* A batch of points of another size is refused. *)
Refuse == reply' = Status(-1) /\ UNCHANGED store

(* README: inclusive of begin, exclusive of end. *)
Read(begin, end, max) ==
  /\ reply' = Listed(Points({ p \in store : begin <= p.time /\ p.time < end }, max))
  /\ UNCHANGED store

ReadLatest ==
  /\ reply' = Listed(Points({ p \in store : \A q \in store : q.time <= p.time }, 1))
  /\ UNCHANGED store

Truncate == store' = {} /\ UNCHANGED reply

Next ==
  \/ \E batch \in Batches : Write(batch)
  \/ Refuse
  \/ \E begin, end \in Time, max \in 0 .. MaxRead : Read(begin, end, max)
  \/ ReadLatest
  \/ Truncate

Spec == Init /\ [][Next]_vars
=============================================================================
