-------------------------- MODULE DataPointLemmas ---------------------------
(***************************************************************************)
(* Facts about the operators of DataPoints, for lists of any length.       *)
(***************************************************************************)
EXTENDS DataPoints, FiniteSetTheorems, TLAPS

(* A function that keeps apart, or that reaches, is the injection or the   *)
(* surjection the theorems on finite sets ask for.                         *)
LEMMA IsInjection ==
  ASSUME NEW S, NEW T, NEW f \in [ S -> T ], \A a, b \in S : f[a] = f[b] => a = b
  PROVE  f \in Injection(S, T)
BY DEF Injection, IsInjective

LEMMA IsSurjection ==
  ASSUME NEW S, NEW T, NEW f \in [ S -> T ], \A t \in T : \E s \in S : f[s] = t
  PROVE  f \in Surjection(S, T)
BY DEF Surjection

(* How many offsets a list of n points has. *)
LEMMA IntervalSize ==
  ASSUME NEW n \in Nat
  PROVE  IsFiniteSet(1 .. n) /\ Cardinality(1 .. n) = n
BY FS_Interval

(* One more entry of a list is one more element, and one more time. *)
LEMMA OneMore ==
  ASSUME NEW list, NEW k \in Nat
  PROVE  Elems(list, k + 1) = Elems(list, k) \cup {list[k + 1]}
<1>1. 1 .. k + 1 = (1 .. k) \cup {k + 1}
  OBVIOUS
<1>2. QED
  BY <1>1 DEF Elems

LEMMA OneMoreTime ==
  ASSUME NEW list, NEW k \in Nat
  PROVE  Times(Elems(list, k + 1)) = Times(Elems(list, k)) \cup {list[k + 1].time}
<1>1. 1 .. k + 1 = (1 .. k) \cup {k + 1}
  OBVIOUS
<1>2. QED
  BY <1>1 DEF Times, Elems

(* Lists that agree on their times have the same set of times. *)
LEMMA SameTimes ==
  ASSUME NEW a, NEW b, NEW k, \A i \in 1 .. k : a[i].time = b[i].time
  PROVE  Times(Elems(a, k)) = Times(Elems(b, k))
BY DEF Times, Elems

(* A set of indices that holds every index below one of its own is an      *)
(* interval from 1: the index below which a search has looked.             *)
LEMMA InitialSegment ==
  ASSUME NEW n \in Nat, NEW T \in SUBSET (1 .. n),
         \A x \in T : \A y \in 1 .. x : y \in T
  PROVE  Cardinality(T) \in 0 .. n /\ T = 1 .. Cardinality(T)
<1>1. IsFiniteSet(1 .. n) /\ Cardinality(1 .. n) = n
  BY IntervalSize
<1>2. /\ IsFiniteSet(T)
      /\ Cardinality(T) \in Nat
      /\ Cardinality(T) <= n
  <2>1. IsFiniteSet(T) /\ Cardinality(T) <= n
    <3>1. T \in SUBSET (1 .. n)
      OBVIOUS
    <3> DEFINE I == 1 .. n
    <3>2. T \in SUBSET I /\ IsFiniteSet(I) /\ Cardinality(I) = n
      BY <1>1, <3>1
    <3> HIDE DEF I
    <3>3. QED
      BY <3>2, FS_Subset, Zenon
  <2>2. QED
    BY <2>1, FS_CardinalityType
<1>3. T \subseteq 1 .. Cardinality(T)
  <2>1. SUFFICES ASSUME NEW x \in T PROVE x <= Cardinality(T)
    BY <1>2
  <2>2. IsFiniteSet(1 .. x) /\ Cardinality(1 .. x) = x
    BY FS_Interval
  <2>3. (1 .. x) \in SUBSET T
    OBVIOUS
  <2>4. QED
    BY <1>2, <2>2, <2>3, FS_Subset
<1>4. IsFiniteSet(1 .. Cardinality(T)) /\ Cardinality(1 .. Cardinality(T)) = Cardinality(T)
  BY <1>2, FS_Interval
<1>5. T = 1 .. Cardinality(T)
  BY <1>3, <1>4, FS_Subset, Zenon
<1>6. QED
  BY <1>2, <1>5

(* Whatever splits a list into earlier and not earlier points is what      *)
(* Find returns.                                                           *)
LEMMA FindUnique ==
  ASSUME NEW n \in Nat, NEW list, NEW t \in Int, NEW k \in 0 .. n,
         \A i \in 1 .. n : list[i].time \in Int,
         \A i \in 1 .. k : list[i].time < t,
         \A i \in k + 1 .. n : ~ (list[i].time < t)
  PROVE  Find(list, n, t) = k
<1>1. { i \in 1 .. n : list[i].time < t } = 1 .. k
  OBVIOUS
<1>2. Cardinality(1 .. k) = k
  BY FS_Interval
<1>3. QED
  BY <1>1, <1>2, Zenon DEF Find

(* Find splits every list whose times do not decrease. *)
LEMMA FindSplits ==
  ASSUME NEW n \in Nat, NEW list, NEW t \in Int,
         \A i \in 1 .. n : list[i].time \in Int,
         \A i, j \in 1 .. n : i < j => list[i].time <= list[j].time
  PROVE  /\ Find(list, n, t) \in 0 .. n
         /\ \A i \in 1 .. Find(list, n, t) : list[i].time < t
         /\ \A i \in Find(list, n, t) + 1 .. n : ~ (list[i].time < t)
<1> DEFINE T == { i \in 1 .. n : list[i].time < t }
<1>1. \A x \in T : \A y \in 1 .. x : y \in T
  OBVIOUS
<1>2. Cardinality(T) \in 0 .. n /\ T = 1 .. Cardinality(T)
  <2> HIDE DEF T
  <2> T \in SUBSET (1 .. n)
    BY DEF T
  <2> QED BY <1>1, InitialSegment
<1>3. \A i \in 1 .. n : i \in T <=> list[i].time < t
  OBVIOUS
<1>4. Find(list, n, t) = Cardinality(T)
  BY DEF Find
<1> HIDE DEF T
<1>5. QED
  BY <1>2, <1>3, <1>4

-----------------------------------------------------------------------------
(* The points of a finite set of points with distinct times are ranked 0,  *)
(* 1, ...; a later point has a higher rank.                                *)
LEMMA RankProperties ==
  ASSUME NEW S, IsFiniteSet(S), \A p \in S : p.time \in Int
  PROVE  /\ \A p \in S : Rank(p, S) \in 0 .. Cardinality(S) - 1
         /\ \A p, q \in S : p.time < q.time <=> Rank(p, S) < Rank(q, S)
<1> DEFINE Below(p) == { r \in S : r.time < p.time }
<1>1. ASSUME NEW p \in S
      PROVE  IsFiniteSet(Below(p)) /\ Cardinality(Below(p)) \in Nat
  BY FS_Subset, FS_CardinalityType
<1>2. ASSUME NEW p \in S
      PROVE  Cardinality(Below(p)) < Cardinality(S)
  <2>1. Below(p) \in SUBSET S /\ p \notin Below(p)
    OBVIOUS
  <2>2. QED
    BY <2>1, <1>1, FS_Subset, FS_CardinalityType
<1>3. ASSUME NEW p \in S, NEW q \in S, p.time < q.time
      PROVE  Cardinality(Below(p)) < Cardinality(Below(q))
  <2>1. Below(p) \in SUBSET Below(q) /\ p \in Below(q) /\ p \notin Below(p)
    BY <1>3
  <2>2. /\ IsFiniteSet(Below(q))
        /\ Cardinality(Below(p)) \in Nat /\ Cardinality(Below(q)) \in Nat
    BY <1>1, SMTT(30)
  <2>3. Below(p) # Below(q)
    BY <2>1
  <2> HIDE DEF Below
  <2>4. QED
    BY <2>1, <2>2, <2>3, FS_Subset
<1>4. ASSUME NEW p \in S, NEW q \in S, ~ (p.time < q.time)
      PROVE  ~ (Cardinality(Below(p)) < Cardinality(Below(q)))
  <2>1. Below(q) \in SUBSET Below(p)
    BY <1>4
  <2>2. QED
    BY <2>1, <1>1, FS_Subset
<1>5. \A p \in S : Rank(p, S) = Cardinality(Below(p))
  BY DEF Rank
<1>6. Cardinality(S) \in Nat
  BY FS_CardinalityType
<1> HIDE DEF Below
<1>7. QED
  BY <1>1, <1>2, <1>3, <1>4, <1>5, <1>6

(* SortPoints lists a set of points with distinct times: all of them,      *)
(* nothing else, in ascending order.                                       *)
LEMMA SortPointsProperties ==
  ASSUME NEW S, IsFiniteSet(S), \A p \in S : p.time \in Int, DistinctTimes(S)
  PROVE  /\ Cardinality(S) \in Nat
         /\ SortPoints(S) \in [ 1 .. Cardinality(S) -> S ]
         /\ Ascending(SortPoints(S), Cardinality(S))
         /\ Elems(SortPoints(S), Cardinality(S)) = S
<1> DEFINE n == Cardinality(S)
           rank == [ p \in S |-> Rank(p, S) + 1 ]
<1>1. n \in Nat
  BY FS_CardinalityType
<1>2. rank \in [ S -> 1 .. n ]
  BY <1>1, RankProperties
<1>3. \A p, q \in S : rank[p] = rank[q] => p = q
  <2>1. SUFFICES ASSUME NEW p \in S, NEW q \in S, rank[p] = rank[q] PROVE p = q
    OBVIOUS
  <2>2. Rank(p, S) = Rank(q, S)
    BY <2>1, RankProperties, <1>1
  <2>3. ~ (p.time < q.time) /\ ~ (q.time < p.time)
    BY <2>2, RankProperties, <1>1
  <2>4. QED
    BY <2>3 DEF DistinctTimes
<1>4. rank \in Injection(S, 1 .. n)
  <2> HIDE DEF rank
  <2> QED BY <1>2, <1>3, IsInjection, Zenon
<1>5. IsFiniteSet(1 .. n) /\ Cardinality(1 .. n) = n
  BY <1>1, FS_Interval
<1>6. rank \in Surjection(S, 1 .. n)
  BY <1>4, <1>5, FS_Injection
<1>7. \A i \in 1 .. n : \E p \in S : Rank(p, S) = i - 1
  <2>1. SUFFICES ASSUME NEW i \in 1 .. n PROVE \E p \in S : Rank(p, S) = i - 1
    OBVIOUS
  <2>2. PICK p \in S : rank[p] = i
    BY <1>6, Zenon DEF Surjection
  <2>3. QED
    BY <2>2, RankProperties, <1>1
<1>8. \A i \in 1 .. n : SortPoints(S)[i] \in S /\ Rank(SortPoints(S)[i], S) = i - 1
  BY <1>7 DEF SortPoints
<1>9. SortPoints(S) \in [ 1 .. n -> S ]
  BY <1>8 DEF SortPoints
<1>10. Ascending(SortPoints(S), n)
  BY <1>8, <1>1, RankProperties DEF Ascending
<1>11. Elems(SortPoints(S), n) = S
  <2>1. SUFFICES ASSUME NEW p \in S PROVE \E i \in 1 .. n : SortPoints(S)[i] = p
    BY <1>8 DEF Elems
  <2>2. rank[p] \in 1 .. n /\ Rank(p, S) = rank[p] - 1
    BY <1>2, RankProperties, <1>1
  <2>3. rank[SortPoints(S)[rank[p]]] = rank[p] /\ SortPoints(S)[rank[p]] \in S
    BY <2>2, <1>8, RankProperties, <1>1
  <2>4. QED
    BY <2>2, <2>3, <1>3
<1>12. QED
  BY <1>1, <1>9, <1>10, <1>11

-----------------------------------------------------------------------------
(* An ascending list has as many elements as entries, and distinct times.  *)
LEMMA AscendingElems ==
  ASSUME NEW n \in Nat, NEW list,
         \A i \in 1 .. n : list[i].time \in Int, Ascending(list, n)
  PROVE  /\ IsFiniteSet(Elems(list, n))
         /\ Cardinality(Elems(list, n)) = n
         /\ \A p \in Elems(list, n) : p.time \in Int
         /\ DistinctTimes(Elems(list, n))
<1> DEFINE g == [ i \in 1 .. n |-> list[i] ]
<1>1. \A i, j \in 1 .. n : list[i].time = list[j].time => i = j
  BY DEF Ascending
<1>2. g \in [ 1 .. n -> Elems(list, n) ]
  BY DEF Elems
<1>3. g \in Surjection(1 .. n, Elems(list, n))
  <2>1. \A p \in Elems(list, n) : \E i \in 1 .. n : g[i] = p
    BY DEF Elems
  <2> HIDE DEF g
  <2>2. QED
    BY <1>2, <2>1, IsSurjection
<1>4. g \in Injection(1 .. n, Elems(list, n))
  <2>1. \A i, j \in 1 .. n : g[i] = g[j] => i = j
    BY <1>1
  <2> HIDE DEF g
  <2>2. QED
    BY <1>2, <2>1, IsInjection
<1>5. IsFiniteSet(1 .. n) /\ Cardinality(1 .. n) = n
  BY IntervalSize
<1>6. IsFiniteSet(Elems(list, n)) /\ Cardinality(Elems(list, n)) = n
  BY <1>3, <1>4, <1>5, FS_Surjection
<1>7. QED
  BY <1>1, <1>6 DEF Elems, DistinctTimes

(* There is only one ascending list of a set of points, so that whatever   *)
(* routine makes one makes SortPoints.                                     *)
LEMMA AscendingUnique ==
  ASSUME NEW n \in Nat, NEW list,
         \A i \in 1 .. n : list[i].time \in Int, Ascending(list, n)
  PROVE  \A i \in 1 .. n : SortPoints(Elems(list, n))[i] = list[i]
<1> DEFINE S == Elems(list, n)
<1>1. IsFiniteSet(S) /\ Cardinality(S) = n /\ DistinctTimes(S) /\ \A p \in S : p.time \in Int
  BY AscendingElems
<1>2. SUFFICES ASSUME NEW i \in 1 .. n PROVE SortPoints(S)[i] = list[i]
  OBVIOUS
<1>3. Rank(list[i], S) = i - 1
  <2>1. { q \in S : q.time < list[i].time } = Elems(list, i - 1)
    <3>1. ASSUME NEW j \in 1 .. n PROVE list[j].time < list[i].time <=> j <= i - 1
      BY DEF Ascending
    <3>2. QED
      BY <3>1 DEF Elems
  <2>2. Cardinality(Elems(list, i - 1)) = i - 1
    <3>1. i - 1 \in Nat /\ Ascending(list, i - 1) /\ \A j \in 1 .. i - 1 : list[j].time \in Int
      BY DEF Ascending
    <3>2. QED
      BY <3>1, AscendingElems
  <2>3. QED
    BY <2>1, <2>2, Zenon DEF Rank
<1>4. list[i] \in S
  BY DEF Elems
<1>5. \A p \in S : Rank(p, S) = i - 1 => p = list[i]
  <2>1. SUFFICES ASSUME NEW p \in S, Rank(p, S) = i - 1 PROVE p = list[i]
    OBVIOUS
  <2>2. ~ (p.time < list[i].time) /\ ~ (list[i].time < p.time)
    BY <2>1, <1>1, <1>3, <1>4, RankProperties
  <2>3. QED
    BY <2>2, <1>1, <1>4 DEF DistinctTimes
<1>6. SortPoints(S)[i] = CHOOSE p \in S : Rank(p, S) = i - 1
  BY <1>1 DEF SortPoints
<1> HIDE DEF S
<1>7. QED
  BY <1>3, <1>4, <1>5, <1>6

-----------------------------------------------------------------------------
(* Writing points over others adds at most as many as are written, and     *)
(* never loses a time: the stored points of a series never get fewer.      *)
LEMMA OverwriteSize ==
  ASSUME NEW old, NEW new, IsFiniteSet(old), IsFiniteSet(new),
         DistinctTimes(old), DistinctTimes(new)
  PROVE  /\ IsFiniteSet(Overwrite(old, new))
         /\ DistinctTimes(Overwrite(old, new))
         /\ Cardinality(Overwrite(old, new)) \in Nat
         /\ Cardinality(old) <= Cardinality(Overwrite(old, new))
         /\ Cardinality(Overwrite(old, new)) <= Cardinality(old) + Cardinality(new)
<1> DEFINE kept == { p \in old : p.time \notin Times(new) }
           all  == Overwrite(old, new)
           f    == [ p \in old |-> CHOOSE q \in all : q.time = p.time ]
<1>1. all = new \cup kept
  BY DEF Overwrite
<1>2. kept \in SUBSET old
  OBVIOUS
<1>3. IsFiniteSet(kept) /\ Cardinality(kept) <= Cardinality(old)
  BY <1>2, FS_Subset
<1>4. /\ IsFiniteSet(all)
      /\ Cardinality(all) = Cardinality(new) + Cardinality(kept) - Cardinality(new \cap kept)
  BY <1>1, <1>3, FS_Union, Zenon
<1>5. /\ Cardinality(all) \in Nat /\ Cardinality(old) \in Nat /\ Cardinality(new) \in Nat
      /\ Cardinality(kept) \in Nat /\ Cardinality(new \cap kept) \in Nat
  <2>1. IsFiniteSet(new \cap kept)
    BY FS_Subset
  <2>2. QED
    BY <1>3, <1>4, <2>1, FS_CardinalityType
<1>6. DistinctTimes(all)
  BY DEF DistinctTimes, Overwrite, Times
<1>7. \A p \in old : \E q \in all : q.time = p.time
  BY DEF Overwrite, Times
<1>8. f \in [ old -> all ] /\ \A p \in old : f[p].time = p.time
  <2> HIDE DEF all
  <2> QED BY <1>7
<1>9. \A p, q \in old : f[p] = f[q] => p = q
  BY <1>8 DEF DistinctTimes
<1>10. f \in Injection(old, all)
  <2> HIDE DEF f, all
  <2> QED BY <1>8, <1>9, IsInjection
<1>11. Cardinality(old) <= Cardinality(all)
  <2> HIDE DEF f, all
  <2> QED BY <1>4, <1>10, FS_Injection
<1> HIDE DEF kept, all
<1>12. Cardinality(all) <= Cardinality(old) + Cardinality(new)
  BY <1>3, <1>4, <1>5
<1>13. QED
  BY <1>4, <1>5, <1>6, <1>11, <1>12 DEF all
=============================================================================
