---------------------------- MODULE UnsortedLists ----------------------------
(***************************************************************************)
(* What data_point_find and data_point_merge of src/data-point.c compute   *)
(* on a list that need not be ascending, such as a file that a crash has   *)
(* left.  The operators of DataPoints describe them on ascending lists     *)
(* only; here they are the loops themselves.                               *)
(***************************************************************************)
EXTENDS DataPoints, Sequences

(* data_point_find on any list: the loop between l and r, and the call. *)
SearchLoop(list, n, t) ==
  LET loop[ w \in (0 .. n) \X (0 .. n) ] ==
        LET l   == w[1]
            r   == w[2]
            mid == (r + l) \div 2
        IN  IF ~ l < r THEN l
            ELSE IF t < list[mid + 1].time THEN loop[l, mid]
            ELSE IF t > list[mid + 1].time THEN loop[mid + 1, r]
            ELSE mid
  IN  loop

Search(list, n, t) ==
  IF n = 0 \/ t < list[1].time THEN 0
  ELSE IF t > list[n].time THEN n
  ELSE SearchLoop(list, n, t)[0, n]

(* data_point_merge on any dst: the loop from the i-th point of new and    *)
(* the j-th of dst on, and the call.                                       *)
MergeLoop(new, dst) ==
  LET rest[ w \in (1 .. Len(new) + 1) \X (1 .. Len(dst) + 1) ] ==
        LET i == w[1]
            j == w[2]
        IN  IF i > Len(new) THEN SubSeq(dst, j, Len(dst))
            ELSE IF j > Len(dst) THEN SubSeq(new, i, Len(new))
            ELSE IF dst[j].time < new[i].time THEN << dst[j] >> \o rest[i, j + 1]
            ELSE IF new[i].time < dst[j].time THEN << new[i] >> \o rest[i + 1, j]
            ELSE << new[i] >> \o rest[i + 1, j + 1]
  IN  rest

MergeLists(new, dst) == MergeLoop(new, dst)[1, 1]
=============================================================================
