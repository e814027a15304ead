--------------------------- MODULE DataPointMerge ---------------------------
(***************************************************************************)
(* The loop of data_point_merge (src/data-point.c): two ascending lists    *)
(* are merged into a third; where both hold a point of one time, the point *)
(* of src is taken, both lists advance, and the result gets one shorter.   *)
(***************************************************************************)
EXTENDS DataPointLists

VARIABLES
  src, src_count, dst, dst_count,   \* the arguments
  src_pos, dst_pos,                 \* how many of each were consumed
  buffer, processed_count,          \* the points of the result so far
  duplicated_count

merge_args == << src, src_count, dst, dst_count >>
merge_vars == << merge_args, src_pos, dst_pos, buffer, processed_count, duplicated_count >>

NoMerge ==
  /\ src = 0 /\ src_count = 0 /\ dst = 0 /\ dst_count = 0 /\ src_pos = 0 /\ dst_pos = 0
  /\ buffer = 0 /\ processed_count = 0 /\ duplicated_count = 0

MergeInit ==
  /\ routine = "merge"
  /\ src_count \in 0 .. MaxCount
  /\ src \in [ 1 .. src_count -> Point ]
  /\ Ascending(src, src_count)
  /\ dst_count \in 0 .. MaxCount
  /\ dst \in [ 1 .. dst_count -> Point ]
  /\ Ascending(dst, dst_count)
  /\ src_pos = 0
  /\ dst_pos = 0
  /\ buffer = << >>
  /\ processed_count = 0
  /\ duplicated_count = 0
  /\ pc = "loop"

(* Mutant: the last point is left out. *)
Unfinished_OneShort == processed_count + 1 < src_count + dst_count - duplicated_count

(* The condition of the while loop; the result has room for both lists. *)
Unfinished == processed_count < src_count + dst_count - duplicated_count

(* memmove one point to the buffer and advance it. *)
Emit(p) ==
  /\ buffer' = [ i \in 1 .. processed_count + 1 |->
                   IF i <= processed_count THEN buffer[i] ELSE p ]
  /\ processed_count' = processed_count + 1
  /\ UNCHANGED << merge_args, pc >>

TakeDst ==
  /\ pc = "loop" /\ Unfinished
  /\ \/ src_pos = src_count
     \/ /\ src_pos < src_count /\ dst_pos < dst_count
        /\ dst[dst_pos + 1].time < src[src_pos + 1].time
  /\ Emit(dst[dst_pos + 1])
  /\ dst_pos' = dst_pos + 1
  /\ UNCHANGED << src_pos, duplicated_count >>

TakeSrc ==
  /\ pc = "loop" /\ Unfinished
  /\ src_pos < src_count
  /\ \/ dst_pos = dst_count
     \/ /\ dst_pos < dst_count
        /\ src[src_pos + 1].time < dst[dst_pos + 1].time
  /\ Emit(src[src_pos + 1])
  /\ src_pos' = src_pos + 1
  /\ UNCHANGED << dst_pos, duplicated_count >>

(* Mutant: the stored point wins over the written one. *)
TakeBoth_KeepDst ==
  /\ pc = "loop" /\ Unfinished
  /\ src_pos < src_count /\ dst_pos < dst_count
  /\ src[src_pos + 1].time = dst[dst_pos + 1].time
  /\ Emit(dst[dst_pos + 1])
  /\ src_pos' = src_pos + 1
  /\ dst_pos' = dst_pos + 1
  /\ duplicated_count' = duplicated_count + 1

TakeBoth ==
  /\ pc = "loop" /\ Unfinished
  /\ src_pos < src_count /\ dst_pos < dst_count
  /\ src[src_pos + 1].time = dst[dst_pos + 1].time
  /\ Emit(src[src_pos + 1])
  /\ src_pos' = src_pos + 1
  /\ dst_pos' = dst_pos + 1
  /\ duplicated_count' = duplicated_count + 1

(* result->count = buffer_count - duplicated_count *)
MergeFinish ==
  /\ pc = "loop" /\ ~ Unfinished
  /\ pc' = "done"
  /\ UNCHANGED << merge_args, src_pos, dst_pos, buffer, processed_count, duplicated_count >>

MergeNext == routine = "merge" /\ (TakeDst \/ TakeSrc \/ TakeBoth \/ MergeFinish)

-----------------------------------------------------------------------------
(* The positions stay within the lists and the buffer within its size. *)
MergeTypeOK ==
  /\ src_count \in 0 .. MaxCount /\ src \in [ 1 .. src_count -> Point ]
  /\ dst_count \in 0 .. MaxCount /\ dst \in [ 1 .. dst_count -> Point ]
  /\ src_pos \in 0 .. src_count
  /\ dst_pos \in 0 .. dst_count
  /\ processed_count \in Nat
  /\ duplicated_count \in Nat
  /\ buffer \in [ 1 .. processed_count -> Point ]
  /\ pc \in { "loop", "done" }

(* What the loop has merged so far: exactly the consumed points, src over  *)
(* dst, in ascending order and before everything not yet consumed; the     *)
(* counters account for every consumed point.                              *)
MergedSoFar ==
  routine = "merge" =>
  /\ processed_count = src_pos + dst_pos - duplicated_count
  /\ Ascending(buffer, processed_count)
  /\ Elems(buffer, processed_count)
       = Overwrite(Elems(dst, dst_pos), Elems(src, src_pos))
  /\ \A i \in 1 .. processed_count :
       /\ \A j \in src_pos + 1 .. src_count : buffer[i].time < src[j].time
       /\ \A j \in dst_pos + 1 .. dst_count : buffer[i].time < dst[j].time

(* data_point_merge yields what Series takes it to yield. *)
MergeIsCorrect ==
  routine = "merge" /\ pc = "done" => buffer = Merge(src, src_count, dst, dst_count)
=============================================================================
