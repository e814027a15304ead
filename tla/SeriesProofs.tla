---------------------------- MODULE SeriesProofs ----------------------------
(***************************************************************************)
(* Series keeps its file in order and its count recoverable, for files,    *)
(* batches and growth increments of any size, as long as no one writes one *)
(* of the two largest timestamps (MCSeriesMaxTime.cfg shows what happens   *)
(* when someone does).                                                     *)
(***************************************************************************)
EXTENDS SeriesLemmas, DataPointLemmas

(* The search of series_create finds the end of the points. *)
LEMMA RecoveredShape ==
  ASSUME NEW size \in Nat, NEW f, NEW k, Shape(f, size, k)
  PROVE  RecoveredCount(f, size) = k
<1>1. /\ k \in 0 .. size
      /\ MaxTime - 1 \in Int
      /\ \A i \in 1 .. size : f[i].time \in Int
      /\ \A i \in 1 .. k : f[i].time < MaxTime - 1
      /\ \A i \in k + 1 .. size : ~ (f[i].time < MaxTime - 1)
  BY ShapeTypes, MaxTimeAssumption DEF Shape
<1>2. QED
  BY <1>1, FindUnique DEF RecoveredCount

-----------------------------------------------------------------------------
(* A search splits the points of a file. *)
LEMMA ShapeSplits ==
  ASSUME NEW size \in Nat, NEW f, NEW k, Shape(f, size, k), NEW t \in Int
  PROVE  /\ Find(f, k, t) \in 0 .. k
         /\ \A i \in 1 .. Find(f, k, t) : f[i].time < t
         /\ \A i \in Find(f, k, t) + 1 .. k : ~ (f[i].time < t)
<1>1. k \in Nat /\ \A i \in 1 .. k : f[i].time \in Int
  BY ShapeTypes
<1>2. \A i, j \in 1 .. k : i < j => f[i].time <= f[j].time
  BY <1>1 DEF Shape, Ascending
<1>3. QED
  BY <1>1, <1>2, FindSplits

(* Where the points between two times lie. *)
LEMMA OverlapProperties ==
  ASSUME NEW size \in Nat, NEW f, NEW k, Shape(f, size, k),
         NEW lo \in Nat, NEW hi \in Nat, lo <= hi
  PROVE  LET begin == Find(f, k, lo)
             end   == Find(f, k, hi + 1)
         IN  /\ begin \in Nat /\ end \in Nat /\ begin <= end /\ end <= k
             /\ \A i \in 1 .. begin : f[i].time < lo
             /\ \A i \in begin + 1 .. end : lo <= f[i].time /\ f[i].time <= hi
             /\ \A i \in end + 1 .. k : f[i].time > hi
<1> DEFINE begin == Find(f, k, lo)
           end   == Find(f, k, hi + 1)
<1>1. k \in Nat /\ \A i \in 1 .. k : f[i].time \in Int
  BY ShapeTypes
<1>2. lo \in Int /\ hi + 1 \in Int
  OBVIOUS
<1>3. /\ begin \in 0 .. k
      /\ \A i \in 1 .. begin : f[i].time < lo
      /\ \A i \in begin + 1 .. k : ~ (f[i].time < lo)
  BY <1>2, ShapeSplits
<1>4. /\ end \in 0 .. k
      /\ \A i \in 1 .. end : f[i].time < hi + 1
      /\ \A i \in end + 1 .. k : ~ (f[i].time < hi + 1)
  BY <1>2, ShapeSplits
<1> HIDE DEF begin, end
<1>5. begin <= end
  <2>1. SUFFICES ASSUME end < begin PROVE FALSE
    BY <1>1, <1>3, <1>4
  <2>2. begin \in end + 1 .. k /\ begin \in 1 .. begin
    BY <1>1, <1>3, <1>4, <2>1
  <2>3. f[begin].time < lo /\ ~ (f[begin].time < hi + 1) /\ f[begin].time \in Int
    BY <1>1, <1>3, <1>4, <2>2
  <2>4. QED
    BY <2>3
<1>6. \A i \in begin + 1 .. end : lo <= f[i].time /\ f[i].time <= hi
  BY <1>1, <1>3, <1>4
<1>7. \A i \in end + 1 .. k : f[i].time > hi
  BY <1>1, <1>3, <1>4
<1>8. QED
  BY <1>1, <1>3, <1>4, <1>5, <1>6, <1>7 DEF begin, end

Within(list, n, lo, hi) == \A i \in 1 .. n : lo <= list[i].time /\ list[i].time <= hi

(* The merged points: how many there are, their order and their times. *)
MergedWell(merged, src, n, slice, d, lo, hi) ==
  LET m == Cardinality(DOMAIN merged)
  IN  /\ m \in Nat /\ d <= m /\ m <= d + n
      /\ Ascending(merged, m)
      /\ Elems(merged, m) = Overwrite(Elems(slice, d), Elems(src, n))
      /\ \A i \in 1 .. m : merged[i] \in Point
      /\ Within(merged, m, lo, hi)

LEMMA MergedProperties ==
  ASSUME NEW n \in Nat, NEW src, Input(src, n), NEW d \in Nat,
         NEW slice \in [ 1 .. d -> Point ], Ascending(slice, d),
         NEW lo \in Int, NEW hi \in Int,
         Within(src, n, lo, hi), Within(slice, d, lo, hi)
  PROVE  MergedWell(Merge(src, n, slice, d), src, n, slice, d, lo, hi)
<1> DEFINE S == Overwrite(Elems(slice, d), Elems(src, n))
           merged == Merge(src, n, slice, d)
           m == Cardinality(DOMAIN merged)
<1>1. /\ \A i \in 1 .. n : src[i] \in Point /\ src[i].time \in Int
      /\ \A i \in 1 .. d : slice[i].time \in Int
      /\ Ascending(src, n)
  BY MaxTimeAssumption, SMTT(30) DEF Input, Point, Time
<1>2. /\ IsFiniteSet(Elems(src, n)) /\ DistinctTimes(Elems(src, n))
      /\ Cardinality(Elems(src, n)) = n
  BY <1>1, AscendingElems
<1>3. /\ IsFiniteSet(Elems(slice, d)) /\ DistinctTimes(Elems(slice, d))
      /\ Cardinality(Elems(slice, d)) = d
  BY <1>1, AscendingElems
<1>4. /\ IsFiniteSet(S) /\ DistinctTimes(S) /\ Cardinality(S) \in Nat
      /\ d <= Cardinality(S) /\ Cardinality(S) <= d + n
  BY <1>2, <1>3, OverwriteSize
<1>5. S \subseteq Elems(slice, d) \cup Elems(src, n)
  BY DEF Overwrite
<1>6. \A p \in Elems(slice, d) \cup Elems(src, n) :
         p \in Point /\ p.time \in Int /\ lo <= p.time /\ p.time <= hi
  BY <1>1 DEF Elems, Within
<1> HIDE DEF S
<1>7. /\ SortPoints(S) \in [ 1 .. Cardinality(S) -> S ]
      /\ Ascending(SortPoints(S), Cardinality(S))
      /\ Elems(SortPoints(S), Cardinality(S)) = S
  BY <1>4, <1>5, <1>6, SortPointsProperties
<1>8. merged = SortPoints(S)
  BY DEF Merge, S
<1> HIDE DEF merged
<1>9. m = Cardinality(S)
  <2>1. DOMAIN merged = 1 .. Cardinality(S)
    BY <1>7, <1>8
  <2>2. QED
    BY <1>4, <2>1, IntervalSize
<1> HIDE DEF m
<1>10. \A i \in 1 .. m : merged[i] \in S
  BY <1>7, <1>8, <1>9
<1>11. \A i \in 1 .. m : /\ merged[i] \in Point
                         /\ lo <= merged[i].time /\ merged[i].time <= hi
  BY <1>5, <1>6, <1>10
<1>12. /\ m \in Nat /\ d <= m /\ m <= d + n
       /\ Ascending(merged, m)
       /\ Elems(merged, m) = S
  BY <1>4, <1>7, <1>8, <1>9
<1>13. MergedWell(merged, src, n, slice, d, lo, hi)
  BY <1>11, <1>12 DEF MergedWell, Within, S, m
<1>14. QED
  BY <1>13 DEF merged

(* What merging src into the points from begin to end has to achieve. *)
SplicedWell(f, size, k, src, n, begin, end) ==
  LET spliced == Splice(f, k, src, n, begin, end)
  IN  /\ begin <= end /\ begin \in Nat /\ end \in Nat
      /\ Shape(spliced.points, size, spliced.count)
      /\ Elems(spliced.points, spliced.count) = Overwrite(Elems(f, k), Elems(src, n))

(* Points that overlap stored ones are merged in: the points before the    *)
(* overlap stay, the merged ones follow, then the ones behind the overlap. *)
LEMMA MergeShape ==
  ASSUME NEW size \in Nat, NEW f, NEW k, Shape(f, size, k),
         NEW n \in Nat \ {0}, NEW src, Input(src, n), k + n <= size
  PROVE  SplicedWell(f, size, k, src, n, Find(f, k, src[1].time), Find(f, k, src[n].time + 1))
<1> DEFINE lo     == src[1].time
           hi     == src[n].time
           begin  == Find(f, k, lo)
           end    == Find(f, k, hi + 1)
           d      == end - begin
           slice  == Slice(f, begin, end)
           merged == Merge(src, n, slice, d)
           m      == Cardinality(DOMAIN merged)
           tail   == Slice(f, end, k)
           moved  == Place(f, tail, begin + m, k - end)
           result == Place(moved, merged, begin, m)
           total  == k + m - d
<1>1. /\ \A i \in 1 .. n : src[i] \in Point /\ src[i].time \in Nat
      /\ lo \in Nat /\ hi \in Nat /\ lo <= hi /\ hi <= MaxTime - 2 /\ lo >= 1
      /\ \A i \in 1 .. n : lo <= src[i].time /\ src[i].time <= hi
  BY MaxTimeAssumption, SMTT(30) DEF Input, Ascending
<1>2. /\ k \in Nat /\ k <= size
      /\ \A i \in 1 .. size : f[i] \in Point /\ f[i].time \in Int
      /\ f \in [ 1 .. size -> Point ]
  BY ShapeTypes, SMTT(30) DEF Shape
<1> HIDE DEF lo, hi
<1>3. /\ begin \in Nat /\ end \in Nat /\ begin <= end /\ end <= k
      /\ \A i \in 1 .. begin : f[i].time < lo
      /\ \A i \in begin + 1 .. end : lo <= f[i].time /\ f[i].time <= hi
      /\ \A i \in end + 1 .. k : f[i].time > hi
  BY <1>1, OverlapProperties, Zenon
<1> HIDE DEF begin, end
<1>4. d \in Nat /\ \A i \in 1 .. d : slice[i] = f[begin + i] /\ begin + i \in begin + 1 .. end
  BY <1>2, <1>3 DEF Slice
<1>5. \A i \in 1 .. k - end : tail[i] = f[end + i] /\ end + i \in end + 1 .. k
  BY <1>2, <1>3 DEF Slice
<1>6. /\ m \in Nat /\ d <= m /\ m <= d + n
      /\ Ascending(merged, m)
      /\ Elems(merged, m) = Overwrite(Elems(slice, d), Elems(src, n))
      /\ \A i \in 1 .. m : /\ merged[i] \in Point
                           /\ lo <= merged[i].time /\ merged[i].time <= hi
  <2>1. \A i \in 1 .. d : slice[i] \in Point /\ lo <= slice[i].time /\ slice[i].time <= hi
    <3>1. \A i \in begin + 1 .. end : f[i] \in Point /\ lo <= f[i].time /\ f[i].time <= hi
      BY <1>2, <1>3
    <3>2. QED
      BY <1>4, <3>1
  <2>2. Ascending(slice, d)
    BY <1>2, <1>3, <1>4, SMTT(30) DEF Shape, Ascending
  <2>3. /\ n \in Nat /\ d \in Nat /\ lo \in Int /\ hi \in Int
        /\ slice \in [ 1 .. d -> Point ]
        /\ Within(slice, d, lo, hi) /\ Within(src, n, lo, hi)
    BY <1>1, <1>4, <2>1 DEF Slice, Within
  <2> HIDE DEF d, slice
  <2>4. MergedWell(merged, src, n, slice, d, lo, hi)
    BY <2>2, <2>3, MergedProperties
  <2> HIDE DEF merged
  <2>5. QED
    BY <2>4 DEF MergedWell, Within
<1> HIDE DEF slice, merged, m, tail
<1>7. total \in Nat /\ k <= total /\ total <= size /\ total = begin + m + (k - end)
  BY <1>2, <1>3, <1>6
<1>8. /\ moved \in [ 1 .. size -> Point ]
      /\ \A i \in 1 .. k - end : moved[begin + m + i] = tail[i]
      /\ \A i \in 1 .. size : i <= begin + m \/ i > begin + m + (k - end) => moved[i] = f[i]
  <2> DEFINE at == begin + m
             len == k - end
  <2>1. at \in Nat /\ len \in Nat /\ at + len <= size
    BY <1>2, <1>3, <1>6, <1>7, SMTT(30)
  <2>2. \A i \in 1 .. len : tail[i] \in Point
    BY <1>2, <1>3, <1>5
  <2>3. f \in [ 1 .. size -> Point ]
    BY <1>2
  <2> HIDE DEF at, len
  <2>4. /\ Place(f, tail, at, len) \in [ 1 .. size -> Point ]
        /\ \A i \in 1 .. len : Place(f, tail, at, len)[at + i] = tail[i]
        /\ \A i \in 1 .. size : i <= at \/ i > at + len => Place(f, tail, at, len)[i] = f[i]
    BY <2>1, <2>2, <2>3, PlaceProperties, SMTT(30)
  <2>5. QED
    BY <2>4 DEF at, len
<1> HIDE DEF moved
<1>9. /\ result \in [ 1 .. size -> Point ]
      /\ \A i \in 1 .. m : result[begin + i] = merged[i]
      /\ \A i \in 1 .. size : i <= begin \/ i > begin + m => result[i] = moved[i]
  <2>1. begin \in Nat /\ m \in Nat /\ begin + m <= size
    BY <1>2, <1>3, <1>6, <1>7
  <2>2. moved \in [ 1 .. size -> Point ] /\ \A i \in 1 .. m : merged[i] \in Point
    BY <1>6, <1>8
  <2>3. QED
    BY <2>1, <2>2, PlaceProperties, SMTT(30)
<1> HIDE DEF result, total, d
<1>10. /\ \A i \in 1 .. begin : result[i] = f[i]
       /\ \A i \in begin + 1 .. begin + m : i - begin \in 1 .. m /\ result[i] = merged[i - begin]
       /\ \A i \in begin + m + 1 .. total : /\ i - (begin + m) + end \in end + 1 .. k
                                            /\ result[i] = f[i - (begin + m) + end]
       /\ \A i \in total + 1 .. size : i \in k + 1 .. size /\ result[i] = f[i]
  <2>1. \A i \in 1 .. begin : result[i] = f[i]
    BY <1>2, <1>3, <1>6, <1>7, <1>8, <1>9
  <2>2. \A i \in begin + 1 .. begin + m : i - begin \in 1 .. m /\ result[i] = merged[i - begin]
    <3>1. SUFFICES ASSUME NEW i \in begin + 1 .. begin + m
                   PROVE  i - begin \in 1 .. m /\ result[i] = merged[i - begin]
      OBVIOUS
    <3>2. i - begin \in 1 .. m /\ begin + (i - begin) = i
      BY <1>3, <1>6
    <3>3. QED
      BY <1>9, <3>2
  <2>3. ASSUME NEW i \in begin + m + 1 .. total
        PROVE  /\ i - (begin + m) + end \in end + 1 .. k
               /\ result[i] = f[i - (begin + m) + end]
    <3>1. /\ i - (begin + m) \in 1 .. k - end
          /\ begin + m + (i - (begin + m)) = i
          /\ end + (i - (begin + m)) = i - (begin + m) + end
          /\ i \in 1 .. size /\ i > begin + m
      BY <1>2, <1>3, <1>6, <1>7
    <3>2. result[i] = moved[i]
      BY <1>9, <3>1
    <3>3. moved[i] = tail[i - (begin + m)]
      BY <1>8, <3>1
    <3>4. QED
      BY <1>5, <3>1, <3>2, <3>3
  <2>4. \A i \in total + 1 .. size : i \in k + 1 .. size /\ result[i] = f[i]
    BY <1>2, <1>3, <1>6, <1>7, <1>8, <1>9
  <2>5. QED
    BY <2>1, <2>2, <2>3, <2>4
<1>11. \A i \in 1 .. total : /\ result[i].time \in 1 .. MaxTime - 2
                             /\ i <= begin => result[i].time < lo
                             /\ i > begin /\ i <= begin + m => lo <= result[i].time /\ result[i].time <= hi
                             /\ i > begin + m => result[i].time > hi
  <2>1. SUFFICES ASSUME NEW i \in 1 .. total
                 PROVE  /\ result[i].time \in 1 .. MaxTime - 2
                        /\ i <= begin => result[i].time < lo
                        /\ i > begin /\ i <= begin + m => lo <= result[i].time /\ result[i].time <= hi
                        /\ i > begin + m => result[i].time > hi
    OBVIOUS
  <2>2. CASE i <= begin
    BY <1>3, <1>6, <1>7, <1>10, <2>2, SMTT(30) DEF Shape
  <2>3. CASE i > begin /\ i <= begin + m
    <3>1. /\ i - begin \in 1 .. m /\ result[i] = merged[i - begin]
      BY <1>3, <1>6, <1>10, <2>3
    <3>2. merged[i - begin].time \in Int
      BY <1>6, <3>1, MaxTimeAssumption DEF Point, Time
    <3>3. QED
      BY <1>1, <1>3, <1>6, <2>3, <3>1, <3>2, MaxTimeAssumption
  <2>4. CASE i > begin + m
    BY <1>2, <1>3, <1>6, <1>7, <1>10, <2>4 DEF Shape
  <2>5. QED
    BY <1>3, <1>6, <2>2, <2>3, <2>4
<1>12. Ascending(result, total)
  <2>1. SUFFICES ASSUME NEW i \in 1 .. total, NEW j \in 1 .. total, i < j
                 PROVE  result[i].time < result[j].time
    BY DEF Ascending
  <2>2. CASE j <= begin
    BY <1>2, <1>3, <1>10, <2>1, <2>2 DEF Shape, Ascending
  <2>3. CASE i > begin /\ j <= begin + m
    BY <1>3, <1>6, <1>10, <2>1, <2>3 DEF Ascending
  <2>4. CASE i > begin + m
    <3> DEFINE a == i - (begin + m) + end
               b == j - (begin + m) + end
    <3>1. i \in begin + m + 1 .. total /\ j \in begin + m + 1 .. total
      BY <1>3, <1>6, <1>7, <2>1, <2>4
    <3>2. a \in 1 .. k /\ b \in 1 .. k /\ a < b
      BY <1>2, <1>3, <1>6, <1>10, <2>1, <3>1
    <3>3. result[i] = f[a] /\ result[j] = f[b]
      BY <1>10, <3>1
    <3> HIDE DEF a, b
    <3>4. QED
      BY <3>2, <3>3, SMTT(30) DEF Shape, Ascending
  <2>5. CASE i <= begin /\ j > begin
    BY <1>1, <1>3, <1>6, <1>7, <1>11, <2>1, <2>5
  <2>6. CASE i > begin /\ i <= begin + m /\ j > begin + m
    BY <1>1, <1>3, <1>6, <1>7, <1>11, <2>1, <2>6
  <2>7. QED
    BY <1>3, <1>6, <1>7, <2>1, <2>2, <2>3, <2>4, <2>5, <2>6
<1>13. Shape(result, size, total)
  <2>1. \A i \in total + 1 .. size : result[i].time = MaxTime
    BY <1>10 DEF Shape
  <2>2. \A i \in 1 .. total : result[i].time \in 1 .. MaxTime - 2
    BY <1>11
  <2>3. total \in 0 .. size /\ result \in [ 1 .. size -> Point ]
    BY <1>7, <1>9
  <2>4. QED
    BY <1>12, <2>1, <2>2, <2>3 DEF Shape
<1>14. Elems(result, total) = Overwrite(Elems(f, k), Elems(src, n))
  <2>1. \A p \in Elems(src, n) : lo <= p.time /\ p.time <= hi
    BY <1>1 DEF Elems
  <2>2. \A i \in 1 .. k : i <= begin \/ i > end => f[i].time \notin Times(Elems(src, n))
    BY <1>1, <1>2, <1>3, <2>1, SMTT(30) DEF Times
  <2>3. ASSUME NEW i \in 1 .. total
        PROVE  result[i] \in Overwrite(Elems(f, k), Elems(src, n))
    <3>1. CASE i <= begin
      BY <1>2, <1>3, <1>10, <2>2, <3>1, SMTT(30) DEF Overwrite, Elems
    <3>2. CASE i > begin /\ i <= begin + m
      <4>1. result[i] \in Elems(merged, m)
        <5>1. i \in begin + 1 .. begin + m
          BY <1>3, <1>6, <3>2
        <5>2. i - begin \in 1 .. m /\ result[i] = merged[i - begin]
          BY <1>10, <5>1
        <5>3. QED
          BY <5>2 DEF Elems
      <4>2. Elems(slice, d) \subseteq Elems(f, k)
        <5>1. \A j \in 1 .. d : begin + j \in 1 .. k /\ slice[j] = f[begin + j]
          BY <1>2, <1>3, <1>4
        <5>2. QED
          BY <5>1 DEF Elems
      <4>3. QED
        BY <1>6, <4>1, <4>2 DEF Overwrite
    <3>3. CASE i > begin + m
      <4> DEFINE a == i - (begin + m) + end
      <4>1. i \in begin + m + 1 .. total
        BY <1>3, <1>6, <1>7, <3>3
      <4>2. a \in end + 1 .. k /\ result[i] = f[a]
        BY <1>10, <4>1
      <4> HIDE DEF a
      <4>3. a \in 1 .. k /\ a > end
        BY <1>2, <1>3, <4>2
      <4>4. QED
        BY <2>2, <4>2, <4>3 DEF Overwrite, Elems
    <3>4. QED
      BY <1>3, <1>6, <1>7, <3>1, <3>2, <3>3
  <2>4. ASSUME NEW p \in Elems(merged, m) PROVE p \in Elems(result, total)
    <3>1. PICK i \in 1 .. m : p = merged[i]
      BY DEF Elems
    <3>2. begin + i \in 1 .. total /\ result[begin + i] = p
      BY <1>2, <1>3, <1>6, <1>7, <1>9, <3>1
    <3>3. QED
      BY <3>2 DEF Elems
  <2>5. ASSUME NEW i \in 1 .. k, f[i].time \notin Times(Elems(src, n))
        PROVE  f[i] \in Elems(result, total)
    <3>1. CASE i <= begin
      <4>1. i \in 1 .. total /\ i \in 1 .. begin
        BY <1>2, <1>3, <1>7, <3>1
      <4>2. f[i] = result[i]
        BY <1>10, <4>1
      <4>3. QED
        BY <4>1, <4>2 DEF Elems
    <3>2. CASE i > begin /\ i <= end
      <4>1. i - begin \in 1 .. d /\ begin + (i - begin) = i
        BY <1>2, <1>3, <3>2 DEF d
      <4>2. f[i] \in Elems(slice, d)
        BY <1>4, <4>1 DEF Elems
      <4>3. f[i] \in Elems(merged, m)
        BY <1>6, <2>5, <4>2 DEF Overwrite
      <4>4. QED
        BY <2>4, <4>3
    <3>3. CASE i > end
      <4> DEFINE b == i - end + (begin + m)
      <4>1. b \in begin + m + 1 .. total /\ b - (begin + m) + end = i
        BY <1>2, <1>3, <1>6, <1>7, <3>3
      <4>2. b \in 1 .. total /\ result[b] = f[i]
        BY <1>3, <1>6, <1>7, <1>10, <4>1
      <4> HIDE DEF b
      <4>3. QED
        BY <4>2 DEF Elems
    <3>4. QED
      BY <1>2, <1>3, <3>1, <3>2, <3>3
  <2>6. Elems(src, n) \subseteq Elems(merged, m)
    BY <1>6 DEF Overwrite
  <2>7. Elems(result, total) \subseteq Overwrite(Elems(f, k), Elems(src, n))
    BY <2>3 DEF Elems
  <2>8. Overwrite(Elems(f, k), Elems(src, n)) \subseteq Elems(result, total)
    <3>1. SUFFICES ASSUME NEW p \in Elems(f, k), p.time \notin Times(Elems(src, n))
                   PROVE  p \in Elems(result, total)
      BY <2>4, <2>6 DEF Overwrite
    <3>2. PICK i \in 1 .. k : p = f[i]
      BY DEF Elems
    <3>3. QED
      BY <2>5, <3>1, <3>2
  <2>9. QED
    BY <2>7, <2>8
<1>15. /\ Splice(f, k, src, n, begin, end).points = result
       /\ Splice(f, k, src, n, begin, end).count = total
  BY DEF Splice, d, slice, merged, m, tail, moved, result, total
<1>16. SplicedWell(f, size, k, src, n, begin, end)
  BY <1>3, <1>13, <1>14, <1>15 DEF SplicedWell
<1>17. QED
  BY <1>16 DEF lo, hi, begin, end

-----------------------------------------------------------------------------
(* The inductive invariant.  That the count is recoverable and the points  *)
(* are in order is not inductive by itself: a merge relies on every slot   *)
(* behind the count being a filler, and an open after a close on a closed  *)
(* file having kept its shape.                                             *)
IInv ==
  /\ file_size \in Nat
  /\ points_capacity \in Nat
  /\ count \in Nat
  /\ handle \in { "closed", "open" }
  /\ handle = "open" => points_capacity = file_size /\ Shape(file, file_size, count)
  /\ handle = "closed" => \E k \in Nat : Shape(file, file_size, k)

LEMMA IInvImplies == IInv => TypeOK /\ StoredAscending /\ CountIsRecoverable
<1> SUFFICES ASSUME IInv PROVE TypeOK /\ StoredAscending /\ CountIsRecoverable
  OBVIOUS
<1>1. CASE handle = "open"
  <2>1. file_size \in Nat /\ Shape(file, file_size, count)
    BY <1>1 DEF IInv
  <2>2. TypeOK
    BY <1>1 DEF IInv, TypeOK, Shape
  <2>3. StoredAscending
    BY <1>1, <2>1 DEF StoredAscending, Shape
  <2>4. CountIsRecoverable
    BY <2>1, RecoveredShape DEF CountIsRecoverable
  <2>5. QED
    BY <2>2, <2>3, <2>4
<1>2. CASE handle = "closed"
  BY <1>2 DEF IInv, TypeOK, StoredAscending, CountIsRecoverable, Shape
<1>3. QED
  BY <1>1, <1>2 DEF IInv

LEMMA InitIInv == Init => IInv
BY EmptyShape DEF Init, IInv

(* What users write and what of it series_prepare_input keeps. *)
LEMMA PreparedInput ==
  ASSUME UsableTimes, NEW batch \in Batches, NEW new \in PrepareInput(batch)
  PROVE  /\ Cardinality(new) \in Nat
         /\ Input(SortPoints(new), Cardinality(new))
         /\ Elems(SortPoints(new), Cardinality(new)) = new
         /\ new # {} => Cardinality(new) # 0
<1>1. /\ new \in SUBSET batch /\ DistinctTimes(new) /\ 0 \notin Times(new)
      /\ IsFiniteSet(batch)
      /\ batch \subseteq [ time : WriteTimes, value : Value ]
  BY DEF PrepareInput, Batches
<1>2. IsFiniteSet(new)
  BY <1>1, FS_Subset
<1>3. \A p \in new : p \in Point /\ p.time \in 1 .. MaxTime - 2
  <2>1. SUFFICES ASSUME NEW p \in new PROVE p \in Point /\ p.time \in 1 .. MaxTime - 2
    OBVIOUS
  <2>2. p \in [ time : WriteTimes, value : Value ]
    BY <1>1
  <2>3. p.time \in WriteTimes /\ p.time # 0
    BY <1>1, <2>2 DEF Times
  <2>4. p.time \in 1 .. MaxTime - 2
    <3>1. p.time \in 0 .. MaxTime - 2
      BY <2>3, Zenon DEF UsableTimes
    <3>2. QED
      BY <2>3, <3>1, MaxTimeAssumption
  <2>5. p \in Point
    BY <2>2, SeriesAssumption DEF Point
  <2>6. QED
    BY <2>4, <2>5
<1>4. \A p \in new : p.time \in Int
  BY <1>3
<1>5. /\ Cardinality(new) \in Nat
      /\ SortPoints(new) \in [ 1 .. Cardinality(new) -> new ]
      /\ Ascending(SortPoints(new), Cardinality(new))
      /\ Elems(SortPoints(new), Cardinality(new)) = new
  BY <1>1, <1>2, <1>4, SortPointsProperties
<1>6. Input(SortPoints(new), Cardinality(new))
  BY <1>3, <1>5 DEF Input
<1>7. new # {} => Cardinality(new) # 0
  BY <1>2, FS_EmptySet
<1>8. QED
  BY <1>5, <1>6, <1>7

(* The effect of series_write on the file, whichever way it takes. *)
LEMMA StoreShape ==
  ASSUME IInv, handle = "open", NEW n \in Nat \ {0}, NEW src, Input(src, n),
         StorePoints(src, n)
  PROVE  /\ handle' = "open"
         /\ file_size' \in Nat /\ points_capacity' = file_size'
         /\ Shape(file', file_size', count')
         /\ Elems(file', count') = Overwrite(Elems(file, count), Elems(src, n))
<1> DEFINE increment == Increment(n)
           grown     == file_grow(file, file_size, increment)
           size      == file_size + increment
<1>1. /\ file_size \in Nat /\ points_capacity = file_size
      /\ Shape(file, file_size, count) /\ count \in Nat /\ count <= file_size
  BY DEF IInv, Shape
<1>2. increment \in Nat /\ size \in Nat /\ count + n <= size
  BY <1>1, SeriesAssumption DEF Increment, GrowBy
<1>3. /\ file_size' = size /\ points_capacity' = size
      /\ \/ src[1].time > Latest /\ AppendPoints(grown, src, n)
         \/ src[1].time <= Latest /\ MergePoints(grown, src, n)
  BY <1>1 DEF StorePoints
<1> HIDE DEF increment
<1>4. Shape(grown, size, count) /\ Elems(grown, count) = Elems(file, count)
  BY <1>1, <1>2, GrowShape, SMTT(30)
<1>5. \A i \in 1 .. count : grown[i] = file[i]
  BY <1>1, <1>2, ShapeTypes DEF file_grow
<1> HIDE DEF grown, size
<1>6. CASE src[1].time > Latest /\ AppendPoints(grown, src, n)
  <2>1. \A i \in 1 .. count, j \in 1 .. n : grown[i].time < src[j].time
    <3>1. SUFFICES ASSUME NEW i \in 1 .. count, NEW j \in 1 .. n
                   PROVE  grown[i].time < src[j].time
      OBVIOUS
    <3>2. count # 0 /\ Latest = file[count].time
      BY <1>1 DEF Latest
    <3>3. file[i].time <= file[count].time /\ file[i].time \in Int /\ file[count].time \in Int
      BY <1>1, MaxTimeAssumption DEF Shape, Ascending
    <3>4. src[1].time <= src[j].time /\ src[1].time \in Int /\ src[j].time \in Int
      BY MaxTimeAssumption DEF Input, Ascending
    <3>5. QED
      BY <1>5, <1>6, <3>2, <3>3, <3>4
  <2>2. file' = Place(grown, src, count, n) /\ count' = count + n /\ handle' = handle
    BY <1>6 DEF AppendPoints
  <2>3. n \in Nat
    OBVIOUS
  <2>4. /\ Shape(Place(grown, src, count, n), size, count + n)
        /\ Elems(Place(grown, src, count, n), count + n)
             = Overwrite(Elems(grown, count), Elems(src, n))
    BY <1>2, <1>4, <2>1, <2>3, AppendShape, SMTT(30)
  <2>5. QED
    BY <1>2, <1>3, <1>4, <2>2, <2>4
<1>7. CASE src[1].time <= Latest /\ MergePoints(grown, src, n)
  <2> DEFINE begin   == Find(grown, count, src[1].time)
             end     == Find(grown, count, src[n].time + 1)
             spliced == Splice(grown, count, src, n, begin, end)
  <2>1. /\ begin <= end /\ begin \in Nat /\ end \in Nat
        /\ Shape(spliced.points, size, spliced.count)
        /\ Elems(spliced.points, spliced.count)
             = Overwrite(Elems(grown, count), Elems(src, n))
    <3>1. size \in Nat /\ Shape(grown, size, count) /\ count + n <= size
      BY <1>2, <1>4
    <3>2. SplicedWell(grown, size, count, src, n, begin, end)
      BY <3>1, MergeShape
    <3> HIDE DEF begin, end
    <3>3. QED
      BY <3>2 DEF SplicedWell
  <2>2. NextTime(src[n].time) = src[n].time + 1
    <3>1. src[n].time \in 1 .. MaxTime - 2
      BY DEF Input
    <3>2. QED
      BY <3>1, MaxTimeAssumption DEF NextTime
  <2>3. SliceEnd(grown, src, n) = end
    BY <2>2 DEF SliceEnd
  <2>4. /\ file' = spliced.points
        /\ count' = spliced.count
        /\ handle' = IF begin <= end THEN handle ELSE "undefined"
    BY <1>7, <2>3 DEF MergePoints
  <2> HIDE DEF begin, end, spliced
  <2>5. handle' = handle
    BY <2>1, <2>4
  <2>6. QED
    BY <1>2, <1>3, <1>4, <2>1, <2>4, <2>5
<1>8. QED
  BY <1>3, <1>6, <1>7

-----------------------------------------------------------------------------
(* series_create finds the points again, in a file that was closed or in   *)
(* a new one.                                                              *)
LEMMA CreateShape ==
  ASSUME IInv, series_create, NEW k \in Nat, Shape(file, file_size, k)
  PROVE  /\ file_size' \in Nat /\ points_capacity' = file_size'
         /\ count' = k
         /\ Shape(file', file_size', k)
         /\ Elems(file', k) = Elems(file, k)
<1> DEFINE grow == IF file_size = 0 THEN GrowBy(GrowIncrement) ELSE 0
<1>1. file_size \in Nat /\ grow \in Nat /\ file_size + grow \in Nat
  BY SeriesAssumption DEF IInv, GrowBy
<1>2. /\ file' = file_grow(file, file_size, grow)
      /\ file_size' = file_size + grow
      /\ points_capacity' = file_size + grow
      /\ count' = RecoveredCount(file_grow(file, file_size, grow), file_size + grow)
  BY DEF series_create
<1> HIDE DEF grow
<1>3. /\ Shape(file_grow(file, file_size, grow), file_size + grow, k)
      /\ Elems(file_grow(file, file_size, grow), k) = Elems(file, k)
  BY <1>1, GrowShape
<1>4. RecoveredCount(file_grow(file, file_size, grow), file_size + grow) = k
  BY <1>1, <1>3, RecoveredShape
<1>5. QED
  BY <1>1, <1>2, <1>3, <1>4

LEMMA NextIInv ==
  ASSUME UsableTimes, IInv, [Next]_vars
  PROVE  IInv'
<1>1. CASE series_create
  <2>1. PICK k \in Nat : Shape(file, file_size, k)
    BY <1>1 DEF series_create, IInv
  <2>2. QED
    BY <1>1, <2>1, CreateShape DEF IInv, series_create
<1>2. CASE series_destroy
  BY <1>2 DEF series_destroy, IInv
<1>3. CASE series_truncate_and_destroy
  BY <1>3, EmptyShape DEF series_truncate_and_destroy, IInv
<1>4. ASSUME NEW batch \in Batches, NEW same \in BOOLEAN, series_write(batch, same)
      PROVE  IInv'
  <2>1. CASE RefuseWrite
    BY <2>1 DEF RefuseWrite, IInv
  <2>2. ASSUME NEW new \in PrepareInput(batch), new # {},
               StorePoints(SortPoints(new), Cardinality(new))
        PROVE  IInv'
    <3> DEFINE n   == Cardinality(new)
               src == SortPoints(new)
    <3>1. n \in Nat \ {0} /\ Input(src, n) /\ handle = "open" /\ StorePoints(src, n)
      BY <1>4, <2>2, PreparedInput DEF series_write
    <3> HIDE DEF n, src
    <3>2. /\ handle' = "open"
          /\ file_size' \in Nat /\ points_capacity' = file_size'
          /\ Shape(file', file_size', count')
      BY <3>1, StoreShape
    <3>3. count' \in Nat
      BY <3>2 DEF Shape
    <3>4. QED
      BY <3>2, <3>3 DEF IInv
  <2>3. QED
    BY <1>4, <2>1, <2>2 DEF series_write
<1>5. ASSUME NEW begin \in Time, NEW end \in Time, NEW max \in 0 .. MaxRead,
             series_read(begin, end, max)
      PROVE  IInv'
  BY <1>5 DEF series_read, IInv
<1>6. CASE series_read_latest
  BY <1>6 DEF series_read_latest, IInv
<1>7. CASE UNCHANGED vars
  BY <1>7 DEF vars, IInv
<1>8. QED
  BY <1>1, <1>2, <1>3, <1>4, <1>5, <1>6, <1>7 DEF Next

(* Whatever is written, merged, closed, reopened and truncated, in any     *)
(* order and however large: no copy leaves the mapping, the points stay in *)
(* strictly ascending order, and a restart finds exactly those that were   *)
(* stored.                                                                 *)
THEOREM SeriesSafety ==
  ASSUME UsableTimes
  PROVE  Spec => [](TypeOK /\ StoredAscending /\ CountIsRecoverable)
<1>1. Init => IInv
  BY InitIInv
<1>2. IInv /\ [Next]_vars => IInv'
  BY NextIInv
<1>3. QED
  BY <1>1, <1>2, IInvImplies, PTL DEF Spec

(* No copy of series_write leaves the mapping, whatever the increments by  *)
(* which the file grows and the sizes of the batches.                      *)
THEOREM SeriesCopiesFit ==
  ASSUME UsableTimes
  PROVE  Spec => []TypeOK
<1>1. Spec => [](TypeOK /\ StoredAscending /\ CountIsRecoverable)
  BY SeriesSafety
<1>2. QED
  BY <1>1, PTL

(* The file holds one point per time in strictly ascending order after     *)
(* every append, merge, overwrite and reopening.                           *)
THEOREM SeriesStaysAscending ==
  ASSUME UsableTimes
  PROVE  Spec => []StoredAscending
<1>1. Spec => [](TypeOK /\ StoredAscending /\ CountIsRecoverable)
  BY SeriesSafety
<1>2. QED
  BY <1>1, PTL

-----------------------------------------------------------------------------
(* The abstract store is an instance of a module that extends DataPoints   *)
(* as Series does: its operators are the same.                             *)
LEMMA StoreOperators ==
  /\ \A S, max : Store!Points(S, max) =
       [ i \in 1 .. (IF Cardinality(S) < max THEN Cardinality(S) ELSE max) |-> SortPoints(S)[i] ]
  /\ \A batch : Store!PrepareInput(batch) = PrepareInput(batch)
  /\ \A old, new : Store!Overwrite(old, new) = Overwrite(old, new)
<1>1. \A S : Store!Cardinality(S) = Cardinality(S)
  BY DEF Store!Cardinality, Cardinality
<1>2. \A S : Store!SortPoints(S) = SortPoints(S)
  BY DEF Store!SortPoints, SortPoints, Store!Rank, Rank, Store!Cardinality, Cardinality
<1>3. \A S, max : Store!Points(S, max) =
       [ i \in 1 .. (IF Cardinality(S) < max THEN Cardinality(S) ELSE max) |-> SortPoints(S)[i] ]
  BY <1>1, <1>2 DEF Store!Points
<1>4. \A batch : Store!PrepareInput(batch) = PrepareInput(batch)
  BY DEF Store!PrepareInput, PrepareInput, Store!DistinctTimes, DistinctTimes,
         Store!Times, Times
<1>5. \A old, new : Store!Overwrite(old, new) = Overwrite(old, new)
  BY DEF Store!Overwrite, Overwrite, Store!Times, Times
<1>6. QED
  BY <1>3, <1>4, <1>5

(* A window of an ascending list, cut off after max points, is what the    *)
(* abstract store lists for it.                                            *)
LEMMA WindowListed ==
  ASSUME NEW size \in Nat, NEW f, NEW k, Shape(f, size, k),
         NEW from \in Nat, NEW to \in Nat, from <= to, to <= k, NEW max \in Nat,
         NEW S, S = { f[i] : i \in from + 1 .. to }
  PROVE  Slice(f, from, from + (IF max < to - from THEN max ELSE to - from))
           = Store!Points(S, max)
<1> DEFINE d == to - from
           list == Slice(f, from, to)
           len == IF max < d THEN max ELSE d
<1>1. /\ k \in Nat /\ k <= size /\ d \in Nat /\ len \in Nat /\ len <= d
      /\ \A i \in 1 .. size : f[i].time \in Int
  BY ShapeTypes
<1>2. \A i \in 1 .. d : list[i] = f[from + i] /\ from + i \in from + 1 .. to /\ from + i \in 1 .. k
  BY <1>1 DEF Slice
<1>3. Ascending(list, d) /\ \A i \in 1 .. d : list[i].time \in Int
  BY <1>1, <1>2, SMTT(30) DEF Shape, Ascending
<1>4. Elems(list, d) = S
  <2>1. \A i \in from + 1 .. to : i - from \in 1 .. d /\ from + (i - from) = i
    BY <1>1
  <2> HIDE DEF list, d
  <2>2. \A i \in from + 1 .. to : f[i] = list[i - from]
    BY <1>2, <2>1
  <2>3. QED
    BY <1>2, <2>1, <2>2 DEF Elems
<1>5. Slice(f, from, from + len) = [ i \in 1 .. len |-> f[from + i] ]
  <2>1. (from + len) - from = len
    BY <1>1
  <2> HIDE DEF len
  <2>2. QED
    BY <2>1 DEF Slice
<1> HIDE DEF list, d
<1>6. Cardinality(S) = d /\ \A i \in 1 .. d : SortPoints(S)[i] = list[i]
  <2>1. d \in Nat
    BY <1>1
  <2>2. Cardinality(Elems(list, d)) = d
    BY <1>3, <2>1, AscendingElems
  <2>3. \A i \in 1 .. d : SortPoints(Elems(list, d))[i] = list[i]
    BY <1>3, <2>1, AscendingUnique
  <2>4. QED
    BY <1>4, <2>2, <2>3
<1>7. (IF Cardinality(S) < max THEN Cardinality(S) ELSE max) = len
  BY <1>1, <1>6
<1>8. Store!Points(S, max) = [ i \in 1 .. len |-> SortPoints(S)[i] ]
  <2> HIDE DEF len
  <2> QED BY <1>7, StoreOperators, Zenon
<1>9. \A i \in 1 .. len : SortPoints(S)[i] = f[from + i]
  BY <1>1, <1>2, <1>6
<1> HIDE DEF len
<1>10. [ i \in 1 .. len |-> f[from + i] ] = [ i \in 1 .. len |-> SortPoints(S)[i] ]
  BY <1>9
<1>11. QED
  BY <1>5, <1>8, <1>10, Zenon DEF len, d

(* The points a file of k points holds. *)
LEMMA ContentsOfShape ==
  ASSUME NEW k, file_size \in Nat, Shape(file, file_size, k)
  PROVE  Contents = Elems(file, k)
BY RecoveredShape DEF Contents

LEMMA ReadRefines ==
  ASSUME IInv, NEW begin \in Time, NEW end \in Time, NEW max \in 0 .. MaxRead,
         series_read(begin, end, max)
  PROVE  Store!Read(begin, end, max)
<1> DEFINE from == Find(file, count, begin)
           to   == Find(file, count, end)
           S    == { p \in Contents : begin <= p.time /\ p.time < end }
<1>1. /\ handle = "open" /\ file_size \in Nat /\ Shape(file, file_size, count)
      /\ begin \in Nat /\ end \in Nat /\ max \in Nat
  BY MaxTimeAssumption, SeriesAssumption DEF series_read, IInv, Time
<1>2. /\ Contents = Elems(file, count) /\ count \in Nat
      /\ \A i \in 1 .. count : file[i].time \in Int
  BY <1>1, ContentsOfShape, ShapeTypes
<1>3. begin \in Int /\ end \in Int
  BY <1>1
<1>4. UNCHANGED Contents
  BY DEF series_read, Contents
<1>5. CASE begin > end
  <2>1. S = {}
    BY <1>1, <1>2, <1>5 DEF Elems
  <2>2. Store!Points({}, max) = << >>
    <3>1. Cardinality({}) = 0
      BY FS_EmptySet
    <3>2. (IF Cardinality({}) < max THEN Cardinality({}) ELSE max) = 0
      BY <1>1, <3>1
    <3>3. QED
      BY <3>2, StoreOperators
  <2>3. reply' = Listed(<< >>)
    BY <1>5 DEF series_read, ReadWindow
  <2>4. QED
    BY <1>4, <2>1, <2>2, <2>3, Zenon DEF Store!Read, Store!Listed, Listed
<1>6. CASE begin <= end
  <2>1. /\ from \in 0 .. count
        /\ \A i \in 1 .. from : file[i].time < begin
        /\ \A i \in from + 1 .. count : ~ (file[i].time < begin)
    BY <1>1, <1>3, ShapeSplits
  <2>2. /\ to \in 0 .. count
        /\ \A i \in 1 .. to : file[i].time < end
        /\ \A i \in to + 1 .. count : ~ (file[i].time < end)
    BY <1>1, <1>3, ShapeSplits
  <2> HIDE DEF from, to
  <2>3. from <= to
    <3>1. SUFFICES ASSUME to < from PROVE FALSE
      BY <1>2, <2>1, <2>2
    <3>2. from \in 1 .. from /\ from \in to + 1 .. count /\ from \in 1 .. count
      BY <1>2, <2>1, <2>2, <3>1
    <3>3. QED
      BY <1>1, <1>2, <1>6, <2>1, <2>2, <3>2
  <2>4. S = { file[i] : i \in from + 1 .. to }
    <3>1. \A i \in 1 .. count : begin <= file[i].time /\ file[i].time < end
                                <=> i \in from + 1 .. to
      BY <1>1, <1>2, <2>1, <2>2
    <3>2. \A i \in from + 1 .. to : i \in 1 .. count
      BY <1>2, <2>1, <2>2
    <3>3. QED
      BY <1>2, <3>1, <3>2 DEF Elems
  <2> HIDE DEF S
  <2>5. from \in Nat /\ to \in Nat /\ to <= count
    BY <1>2, <2>1, <2>2
  <2>6. Slice(file, from, from + (IF max < to - from THEN max ELSE to - from))
          = Store!Points(S, max)
    BY <1>1, <2>3, <2>4, <2>5, WindowListed
  <2>7. reply' = Listed(Slice(file, from, from + (IF max < to - from THEN max ELSE to - from)))
    BY <1>1, <1>6 DEF series_read, ReadWindow, from, to
  <2>8. QED
    BY <1>4, <2>6, <2>7 DEF Store!Read, Store!Listed, Listed, S
<1>7. QED
  BY <1>1, <1>5, <1>6

LEMMA LatestRefines ==
  ASSUME IInv, series_read_latest
  PROVE  Store!ReadLatest
<1> DEFINE S == { p \in Contents : \A q \in Contents : q.time <= p.time }
<1>1. handle = "open" /\ file_size \in Nat /\ Shape(file, file_size, count)
  BY DEF series_read_latest, IInv
<1>2. /\ Contents = Elems(file, count) /\ count \in Nat
      /\ \A i \in 1 .. count : file[i].time \in Int
  BY <1>1, ContentsOfShape, ShapeTypes
<1>3. UNCHANGED Contents
  BY DEF series_read_latest, Contents
<1>4. reply' = Listed(Store!Points(S, 1))
  <2>1. CASE count = 0
    <3>1. S = {}
      BY <1>2, <2>1 DEF Elems
    <3>2. Store!Points({}, 1) = << >>
      BY FS_EmptySet, StoreOperators
    <3>3. QED
      BY <2>1, <3>1, <3>2, Zenon DEF series_read_latest
  <2>2. CASE count # 0
    <3>1. S = { file[count] }
      <4>1. \A i \in 1 .. count : i # count => file[i].time < file[count].time
        BY <1>1, <1>2, <2>2 DEF Shape, Ascending
      <4>2. QED
        BY <1>2, <2>2, <4>1 DEF Elems
    <3>2. { file[count] } = { file[i] : i \in count - 1 + 1 .. count }
      BY <1>2, <2>2
    <3>3. count - 1 \in Nat /\ count - 1 <= count /\ count <= count
      BY <1>2, <2>2
    <3> HIDE DEF S
    <3>4. Slice(file, count - 1, count - 1 + (IF 1 < count - (count - 1) THEN 1 ELSE count - (count - 1)))
            = Store!Points(S, 1)
      BY <1>1, <1>2, <3>1, <3>2, <3>3, WindowListed
    <3>5. Slice(file, count - 1, count - 1 + (IF 1 < count - (count - 1) THEN 1 ELSE count - (count - 1)))
            = << file[count] >>
      <4>1. /\ count - 1 + (IF 1 < count - (count - 1) THEN 1 ELSE count - (count - 1)) = count
            /\ count - (count - 1) = 1
            /\ count - 1 + 1 = count
        BY <1>2
      <4>2. Slice(file, count - 1, count) = [ i \in 1 .. 1 |-> file[count - 1 + i] ]
        BY <4>1 DEF Slice
      <4>3. [ i \in 1 .. 1 |-> file[count - 1 + i] ] = << file[count] >>
        BY <4>1
      <4>4. QED
        BY <4>1, <4>2, <4>3
    <3>6. QED
      BY <2>2, <3>4, <3>5 DEF series_read_latest
  <2>3. QED
    BY <2>1, <2>2
<1>5. QED
  BY <1>3, <1>4 DEF Store!ReadLatest, Store!Listed, Listed

LEMMA WriteRefines ==
  ASSUME UsableTimes, IInv, NEW batch \in Batches, NEW same \in BOOLEAN,
         series_write(batch, same)
  PROVE  (\E b \in Batches : Store!Write(b)) \/ Store!Refuse
<1>1. /\ handle = "open" /\ file_size \in Nat /\ Shape(file, file_size, count)
      /\ Contents = Elems(file, count)
  BY ContentsOfShape DEF series_write, IInv
<1>2. CASE RefuseWrite
  BY <1>2 DEF RefuseWrite, Store!Refuse, Store!Status, Status, Contents
<1>3. ASSUME NEW new \in PrepareInput(batch), new # {},
             StorePoints(SortPoints(new), Cardinality(new))
      PROVE  Store!Write(batch)
  <2> DEFINE n   == Cardinality(new)
             src == SortPoints(new)
  <2>1. n \in Nat \ {0} /\ Input(src, n) /\ StorePoints(src, n) /\ Elems(src, n) = new
    BY <1>3, PreparedInput
  <2> HIDE DEF n, src
  <2>2. /\ file_size' \in Nat
        /\ Shape(file', file_size', count')
        /\ Elems(file', count') = Overwrite(Elems(file, count), Elems(src, n))
    BY <1>1, <2>1, StoreShape
  <2>3. RecoveredCount(file', file_size') = count'
    BY <2>2, RecoveredShape
  <2>4. Contents' = Overwrite(Contents, new)
    BY <1>1, <2>1, <2>2, <2>3 DEF Contents
  <2>5. reply' = Status(0)
    BY <2>1 DEF StorePoints
  <2>6. QED
    BY <1>3, <2>4, <2>5, StoreOperators DEF Store!Write, Store!Status, Status
<1>4. QED
  BY <1>2, <1>3 DEF series_write

(* A truncated series, like a new one, is empty. *)
LEMMA EmptyContents ==
  ASSUME file = << >>, file_size = 0
  PROVE  Contents = {}
<1>1. Contents = Elems(file, 0)
  BY EmptyShape, ContentsOfShape
<1>2. QED
  BY <1>1 DEF Elems

LEMMA NextRefines ==
  ASSUME UsableTimes, IInv, [Next]_vars
  PROVE  [Store!Next]_(Store!vars)
<1> USE DEF Store!vars
<1>1. CASE series_create
  <2>1. PICK k \in Nat : Shape(file, file_size, k)
    BY <1>1 DEF series_create, IInv
  <2>2. /\ file_size' \in Nat /\ Shape(file', file_size', k)
        /\ Elems(file', k) = Elems(file, k)
    BY <1>1, <2>1, CreateShape
  <2>3. RecoveredCount(file', file_size') = k /\ Contents = Elems(file, k)
    BY <2>1, <2>2, RecoveredShape, ContentsOfShape DEF IInv
  <2>4. Contents' = Contents /\ reply' = reply
    BY <1>1, <2>2, <2>3 DEF Contents, series_create
  <2>5. QED
    BY <2>4
<1>2. CASE series_destroy
  BY <1>2 DEF series_destroy, Contents
<1>3. CASE series_truncate_and_destroy
  <2>1. file' = << >> /\ file_size' = 0 /\ reply' = reply
    BY <1>3 DEF series_truncate_and_destroy
  <2>2. RecoveredCount(<< >>, 0) = 0
    BY EmptyShape, RecoveredShape
  <2>3. Contents' = {}
    BY <2>1, <2>2 DEF Contents, Elems
  <2>4. QED
    BY <2>1, <2>3 DEF Store!Next, Store!Truncate
<1>4. ASSUME NEW batch \in Batches, NEW same \in BOOLEAN, series_write(batch, same)
      PROVE  Store!Next
  BY <1>4, WriteRefines DEF Store!Next
<1>5. ASSUME NEW begin \in Time, NEW end \in Time, NEW max \in 0 .. MaxRead,
             series_read(begin, end, max)
      PROVE  Store!Next
  <2>1. begin \in Store!Time /\ end \in Store!Time
    BY DEF Store!Time, Time
  <2>2. QED
    BY <1>5, <2>1, ReadRefines DEF Store!Next
<1>6. CASE series_read_latest
  BY <1>6, LatestRefines DEF Store!Next
<1>7. CASE UNCHANGED vars
  BY <1>7 DEF vars, Contents
<1>8. QED
  BY <1>1, <1>2, <1>3, <1>4, <1>5, <1>6, <1>7 DEF Next

(* The series is the store that SeriesStore describes: the last write of a *)
(* time wins, every read is exact and in order, growing, merging, closing  *)
(* and reopening lose and invent nothing.                                  *)
THEOREM SeriesRefinement ==
  ASSUME UsableTimes
  PROVE  Spec => ImplementsStore
<1>1. Init => Store!Init
  BY EmptyContents DEF Init, Store!Init, Store!Status, Status
<1>2. IInv /\ [Next]_vars => IInv'
  BY NextIInv
<1>3. IInv /\ [Next]_vars => [Store!Next]_(Store!vars)
  BY NextRefines
<1>4. QED
  BY InitIInv, <1>1, <1>2, <1>3, PTL DEF Spec, ImplementsStore, Store!Spec
=============================================================================
