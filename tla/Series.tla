------------------------------- MODULE Series -------------------------------
(***************************************************************************)
(* One time series (src/storage/series.c on src/storage/disk.c): a file of *)
(* points, mapped into memory, whose unused end is filled with 0xFF bytes. *)
(* The number of points is not stored anywhere; series_create recovers it  *)
(* with a binary search for the first filler.                              *)
(*                                                                         *)
(* The server runs every call to its end in one thread, so each call is    *)
(* one action.  The steps of a write, and crashes between them, are the    *)
(* subject of module SeriesCrash.                                          *)
(***************************************************************************)
EXTENDS DataPoints

CONSTANTS
  Unset,           \* the value a filler has: every byte is 0xFF
  WriteTimes,      \* the times users write
  MaxBatch,        \* bound: points in one batch
  MaxRead,         \* bound: max_points of one read
  GrowIncrement    \* SDB_FILE_GROW_INCREMENT / point_size

ASSUME SeriesAssumption ==
  /\ Unset \in Value
  /\ WriteTimes \subseteq Time
  /\ GrowIncrement \in Nat \ {0}
  /\ MaxBatch \in Nat
  /\ MaxRead \in Nat

VARIABLES
  file,            \* the points in the file, which the mapping shares
  file_size,       \* file_map->size, in points
  handle,          \* the series_t: "closed", "open", or "undefined"
  points_capacity, \* series->points_capacity
  count,           \* series->points.count
  reply            \* what the last call returned

vars == << file, file_size, handle, points_capacity, count, reply >>

Filler == [ time |-> MaxTime, value |-> Unset ]

Batches ==
  { b \in SUBSET [ time : WriteTimes, value : Value ] :
      IsFiniteSet(b) /\ Cardinality(b) <= MaxBatch }

Status(code) == [ status |-> code ]
Listed(list) == [ points |-> list ]

-----------------------------------------------------------------------------
(* memcpy or memmove of n points to offset "at"; a copy that runs past the *)
(* end of the mapping shows as a file larger than its size.                *)
Place(f, list, at, n) ==
  [ i \in DOMAIN f \cup (at + 1 .. at + n) |->
      IF at < i /\ i <= at + n THEN list[i - at] ELSE f[i] ]

Slice(f, begin, end) == [ i \in 1 .. end - begin |-> f[begin + i] ]

(* Mutant: the new space is filled with zeros. *)
file_grow_Zero(f, size, increment) ==
  [ i \in 1 .. size + increment |->
      IF i <= size THEN f[i] ELSE [ time |-> 0, value |-> Unset ] ]

(* file_grow: append fillers. *)
file_grow(f, size, increment) ==
  [ i \in 1 .. size + increment |-> IF i <= size THEN f[i] ELSE Filler ]

(* series_grow never grows by less than the default increment. *)
GrowBy(n) == IF GrowIncrement < n THEN n ELSE GrowIncrement

(* Mutant: the file grows only once it is full. *)
Increment_WhenFull(n) == IF count >= points_capacity THEN GrowBy(n) ELSE 0

(* The points by which series_write grows the file before it stores n. *)
Increment(n) == IF count + n > points_capacity THEN GrowBy(n) ELSE 0

Latest == IF count = 0 THEN 0 ELSE file[count].time

(* The count of a freshly mapped file: everything before the first filler. *)
RecoveredCount(f, size) == Find(f, size, MaxTime - 1)

(* Mutant: the point that has the last time of src is left out. *)
SliceEnd_Exclusive(f, src, n) == Find(f, count, src[n].time)

(* The first offset behind the points of f that src can overlap. *)
SliceEnd(f, src, n) == Find(f, count, NextTime(src[n].time))

-----------------------------------------------------------------------------
Init ==
  /\ file = << >>
  /\ file_size = 0
  /\ handle = "closed"
  /\ points_capacity = 0
  /\ count = 0
  /\ reply = Status(0)

(* series_create: map the file, grow a new one, recover the count.  The    *)
(* call has no reply of its own: a database call that needs the series     *)
(* opens it on its way.                                                    *)
series_create ==
  /\ handle = "closed"
  /\ LET grow == IF file_size = 0 THEN GrowBy(GrowIncrement) ELSE 0
         size == file_size + grow
         f    == file_grow(file, file_size, grow)
     IN  /\ file' = f
         /\ file_size' = size
         /\ points_capacity' = size
         /\ count' = RecoveredCount(f, size)
  /\ handle' = "open"
  /\ UNCHANGED reply

(* series_destroy: unmap; what was in memory is gone, the file stays. *)
series_destroy ==
  /\ handle = "open"
  /\ handle' = "closed"
  /\ points_capacity' = 0
  /\ count' = 0
  /\ UNCHANGED << file, file_size, reply >>

series_truncate_and_destroy ==
  /\ handle = "open"
  /\ file' = << >>
  /\ file_size' = 0
  /\ handle' = "closed"
  /\ points_capacity' = 0
  /\ count' = 0
  /\ UNCHANGED reply

(* The n points of src are all behind the latest point of f. *)
AppendPoints(f, src, n) ==
  /\ file' = Place(f, src, count, n)
  /\ count' = count + n
  /\ UNCHANGED handle

(* Mutant: the tail is not moved when points of equal times make up for it. *)
Splice_KeepTail(f, k, src, n, begin, end) ==
  LET merged == Merge(src, n, Slice(f, begin, end), end - begin)
      m      == Cardinality(DOMAIN merged)
      moved  == Place(f, Slice(f, end, k), begin + m, k - end)
  IN  [ points |-> Place(IF m = n THEN f ELSE moved, merged, begin, m),
        count  |-> k + m - (end - begin) ]

(* The k points of f after src was merged with those from begin to end:    *)
(* the tail is moved out of the way, then the merged points are copied to  *)
(* where the overlap began.                                                *)
Splice(f, k, src, n, begin, end) ==
  LET merged == Merge(src, n, Slice(f, begin, end), end - begin)
      m      == Cardinality(DOMAIN merged)
      moved  == Place(f, Slice(f, end, k), begin + m, k - end)
  IN  [ points |-> Place(moved, merged, begin, m),
        count  |-> k + m - (end - begin) ]

(* Merge src with the points it overlaps.  When the last time + 1 wraps    *)
(* around, end can lie before begin; the length of the slice is then       *)
(* negative and the copies are undefined.                                  *)
MergePoints(f, src, n) ==
  LET begin   == Find(f, count, src[1].time)
      end     == SliceEnd(f, src, n)
      spliced == Splice(f, count, src, n, begin, end)
  IN  /\ file' = spliced.points
      /\ count' = spliced.count
      /\ handle' = IF begin <= end THEN handle ELSE "undefined"

(* series_write with n points left of the input: grow, then append or merge. *)
StorePoints(src, n) ==
  LET grown == file_grow(file, file_size, Increment(n))
  IN  /\ file_size' = file_size + Increment(n)
      /\ points_capacity' = points_capacity + Increment(n)
      /\ \/ src[1].time > Latest /\ AppendPoints(grown, src, n)
         \/ src[1].time <= Latest /\ MergePoints(grown, src, n)
      /\ reply' = Status(0)

RefuseWrite ==
  reply' = Status(-1) /\ UNCHANGED << file, file_size, handle, points_capacity, count >>

series_write(batch, same_point_size) ==
  /\ handle = "open"
  /\ \/ ~ same_point_size /\ RefuseWrite
     \/ /\ same_point_size
        /\ \E new \in PrepareInput(batch) :
             \/ new = {} /\ RefuseWrite
             \/ new # {} /\ StorePoints(SortPoints(new), Cardinality(new))

(* series_read copies the points of [begin, end), at most max of them. *)
ReadWindow(begin, end, max) ==
  LET from == Find(file, count, begin)
      dist == Find(file, count, end) - from
  IN  IF begin > end THEN << >>
      ELSE Slice(file, from, from + (IF max < dist THEN max ELSE dist))

series_read(begin, end, max) ==
  /\ handle = "open"
  /\ reply' = Listed(ReadWindow(begin, end, max))
  /\ UNCHANGED << file, file_size, handle, points_capacity, count >>

series_read_latest ==
  /\ handle = "open"
  /\ reply' = Listed(IF count = 0 THEN << >> ELSE << file[count] >>)
  /\ UNCHANGED << file, file_size, handle, points_capacity, count >>

Next ==
  \/ series_create
  \/ series_destroy
  \/ series_truncate_and_destroy
  \/ \E batch \in Batches, same \in BOOLEAN : series_write(batch, same)
  \/ \E begin, end \in Time, max \in 0 .. MaxRead : series_read(begin, end, max)
  \/ series_read_latest

Spec == Init /\ [][Next]_vars

-----------------------------------------------------------------------------
(* The file has the size the mapping has, the handle counts all of it as   *)
(* capacity, and the points fit in: no copy of series_write leaves the     *)
(* mapping.                                                                *)
TypeOK ==
  /\ file_size \in Nat
  /\ file \in [ 1 .. file_size -> Point ]
  /\ handle \in { "closed", "open", "undefined" }
  /\ points_capacity \in Nat
  /\ count \in Nat
  /\ handle = "open" => points_capacity = file_size /\ count <= points_capacity

(* README.md: points "are stored in ascending order"; there is one point   *)
(* per time, and no point has time 0 (series_prepare_input).  No write     *)
(* makes a copy of undefined length.                                       *)
StoredAscending ==
  /\ handle # "undefined"
  /\ handle = "open" => /\ Ascending(file, count)
                        /\ \A i \in 1 .. count : file[i].time # 0

(* What is open in memory is what the next series_create would find: the   *)
(* binary search over the whole capacity recovers exactly the count, after *)
(* every sequence of writes, growths and merges (series.c:54-58).          *)
CountIsRecoverable ==
  handle = "open" => RecoveredCount(file, file_size) = count

(* A closed and an open series hold the same points. *)
Contents == Elems(file, RecoveredCount(file, file_size))

Store == INSTANCE SeriesStore WITH store <- Contents

(* Every call behaves as the store of SeriesStore promises: last write     *)
(* wins, windows are exact and in order, closing and opening lose nothing. *)
ImplementsStore == Store!Spec
=============================================================================
