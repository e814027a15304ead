--------------------------- MODULE DataPointLists ---------------------------
(***************************************************************************)
(* What the sequential loops have in common: a list of points and how far  *)
(* the call has come.  A behaviour is one call of one routine, whose other *)
(* variables are those of the routine's own module.                        *)
(***************************************************************************)
EXTENDS DataPoints

CONSTANT MaxCount   \* bound: points in a list

ASSUME MaxCountAssumption == MaxCount \in Nat

VARIABLES
  routine,    \* "find", "merge", "distinct", "read" or "csv"
  points, n,  \* points->content and points->count
  pc          \* where the call is; "done" when it has returned
=============================================================================
