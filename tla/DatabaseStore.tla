---------------------------- MODULE DatabaseStore ----------------------------
(***************************************************************************)
(* What the database promises: every series below max_series_count has a   *)
(* point size, fixed by the first write to it, and a set of points; only a *)
(* write adds points, only a truncation removes them or frees the size,    *)
(* and no call on one series touches another.  While files cannot be       *)
(* opened, a call may also answer as for a series that does not exist;     *)
(* while they cannot be removed, a truncation removes nothing and returns  *)
(* the same.                                                               *)
(***************************************************************************)
EXTENDS DataPoints

CONSTANTS SeriesId, MaxSeries, PointSize, Batches, MaxRead

VARIABLES
  available,  \* files can be opened
  removable,  \* files can be removed
  size,       \* the point size of each series; 0: the series does not exist
  points,     \* the points of each series
  reply       \* what the last call returned

vars == << available, removable, size, points, reply >>

Ids == { id \in SeriesId : id < MaxSeries }

(* The first points of a set, in ascending order. *)
First(S, max) ==
  LET n == Cardinality(S)
  IN  [ i \in 1 .. (IF n < max THEN n ELSE max) |-> SortPoints(S)[i] ]

Answer(op, id, result) == [ op |-> op, id |-> id, result |-> result ]

Init ==
  /\ available \in BOOLEAN /\ removable \in BOOLEAN
  /\ size = [ id \in Ids |-> 0 ]
  /\ points = [ id \in Ids |-> {} ]
  /\ reply = Answer("none", 0, 0)

Refuse(id) == reply' = Answer("write", id, -1) /\ UNCHANGED << size, points >>

(* A batch without a usable point is refused, but has fixed the size. *)
Write(id, point_size, batch) ==
  /\ id \in Ids
  /\ size[id] \in { 0, point_size }
  /\ size' = [ size EXCEPT ![id] = point_size ]
  /\ \E new \in PrepareInput(batch) :
       /\ points' = [ points EXCEPT ![id] = Overwrite(@, new) ]
       /\ reply' = Answer("write", id, IF new = {} THEN -1 ELSE 0)

Truncate(id) ==
  /\ removable
  /\ size' = [ i \in Ids |-> IF i = id THEN 0 ELSE size[i] ]
  /\ points' = [ i \in Ids |-> IF i = id THEN {} ELSE points[i] ]
  /\ reply' = Answer("truncate", id, 0)

Keep(id) ==
  /\ ~ removable
  /\ reply' = Answer("truncate", id, 0)
  /\ UNCHANGED << size, points >>

Stored(id) == IF id \in Ids THEN points[id] ELSE {}

Read(id, begin, end, max) ==
  /\ reply' = Answer("read", id,
       First({ p \in Stored(id) : begin <= p.time /\ p.time < end }, max))
  /\ UNCHANGED << size, points >>

ReadLatest(id) ==
  /\ reply' = Answer("latest", id,
       First({ p \in Stored(id) : \A q \in Stored(id) : q.time <= p.time }, 1))
  /\ UNCHANGED << size, points >>

GetPointSize(id) ==
  /\ reply' = Answer("size", id, IF id \in Ids THEN size[id] ELSE 0)
  /\ UNCHANGED << size, points >>

Absent(id) ==
  /\ reply' \in { Answer("write", id, -1), Answer("truncate", id, 0), Answer("size", id, 0),
                 Answer("read", id, << >>), Answer("latest", id, << >>) }
  /\ UNCHANGED << size, points >>

Call(id) ==
  \/ \E s \in PointSize, batch \in Batches :
       \/ Write(id, s, batch)
       \/ ~ (id \in Ids /\ size[id] \in { 0, s }) /\ Refuse(id)
  \/ Truncate(id) \/ Keep(id)
  \/ /\ reply'.op = "read"  \* spares TLC all windows on other steps
     /\ \E begin, end \in Time, max \in 0 .. MaxRead : Read(id, begin, end, max)
  \/ ReadLatest(id)
  \/ GetPointSize(id)
  \/ ~ available /\ Absent(id)

Next ==
  \/ \E id \in SeriesId : reply'.id = id /\ Call(id) /\ UNCHANGED << available, removable >>
  \/ /\ available' \in BOOLEAN /\ removable' \in BOOLEAN
     /\ UNCHANGED << size, points, reply >>

Spec == Init /\ [][Next]_vars
=============================================================================
