---------------------------- MODULE SeriesLemmas ----------------------------
(***************************************************************************)
(* Facts about the files of a series, for files of any length: what growth *)
(* and copies leave of a file, and what the searches and merges return on  *)
(* a file that need not be ascending.                                      *)
(***************************************************************************)
EXTENDS Series, UnsortedLists, WellFoundedInduction, TLAPS

UsableTimes == WriteTimes \subseteq 0 .. MaxTime - 2

(* A file of the given size that holds k points: usable times in ascending *)
(* order, then fillers.                                                    *)
Shape(f, size, k) ==
  /\ k \in 0 .. size
  /\ f \in [ 1 .. size -> Point ]
  /\ Ascending(f, k)
  /\ \A i \in 1 .. k : f[i].time \in 1 .. MaxTime - 2
  /\ \A i \in k + 1 .. size : f[i].time = MaxTime

(* What series_prepare_input hands to series_write: n points to store. *)
Input(src, n) ==
  /\ src \in [ 1 .. n -> Point ]
  /\ Ascending(src, n)
  /\ \A i \in 1 .. n : src[i].time \in 1 .. MaxTime - 2

LEMMA ShapeTypes ==
  ASSUME NEW size \in Nat, NEW f, NEW k, Shape(f, size, k)
  PROVE  /\ k \in Nat /\ k <= size
         /\ \A i \in 1 .. size : f[i] \in Point /\ f[i].time \in Int
BY MaxTimeAssumption DEF Shape, Point, Time

LEMMA FillerType == Filler \in Point /\ Filler.time = MaxTime
BY MaxTimeAssumption, SeriesAssumption DEF Filler, Point, Time

(* Growing the file adds fillers. *)
LEMMA GrowShape ==
  ASSUME NEW size \in Nat, NEW f, NEW k, Shape(f, size, k), NEW increment \in Nat
  PROVE  /\ Shape(file_grow(f, size, increment), size + increment, k)
         /\ Elems(file_grow(f, size, increment), k) = Elems(f, k)
<1> DEFINE g == file_grow(f, size, increment)
<1>1. /\ \A i \in 1 .. size : g[i] = f[i]
      /\ \A i \in size + 1 .. size + increment : g[i] = Filler
  BY DEF file_grow
<1>2. k \in Nat /\ k <= size /\ \A i \in 1 .. size : f[i] \in Point
  BY ShapeTypes
<1>3. g \in [ 1 .. size + increment -> Point ]
  BY <1>2, FillerType DEF file_grow
<1> HIDE DEF g
<1>4. Ascending(g, k) /\ \A i \in 1 .. k : g[i].time \in 1 .. MaxTime - 2
  BY <1>1, <1>2 DEF Shape, Ascending
<1>5. \A i \in k + 1 .. size + increment : g[i].time = MaxTime
  BY <1>1, <1>2, FillerType DEF Shape
<1>6. Elems(g, k) = Elems(f, k)
  BY <1>1, <1>2 DEF Elems
<1>7. QED
  BY <1>2, <1>3, <1>4, <1>5, <1>6 DEF Shape, g

(* What a copy into the file leaves and what it writes. *)
LEMMA PlaceProperties ==
  ASSUME NEW size \in Nat, NEW f \in [ 1 .. size -> Point ],
         NEW at \in Nat, NEW n \in Nat, at + n <= size,
         NEW list, \A i \in 1 .. n : list[i] \in Point
  PROVE  /\ Place(f, list, at, n) \in [ 1 .. size -> Point ]
         /\ \A i \in 1 .. n : Place(f, list, at, n)[at + i] = list[i]
         /\ \A i \in 1 .. size : i <= at \/ i > at + n => Place(f, list, at, n)[i] = f[i]
<1>1. DOMAIN f \cup (at + 1 .. at + n) = 1 .. size
  OBVIOUS
<1>2. Place(f, list, at, n) = [ i \in 1 .. size |->
                                 IF at < i /\ i <= at + n THEN list[i - at] ELSE f[i] ]
  BY <1>1 DEF Place
<1>3. \A i \in 1 .. size : at < i /\ i <= at + n => i - at \in 1 .. n
  OBVIOUS
<1>4. \A i \in 1 .. n : at + i \in 1 .. size /\ at < at + i /\ at + i <= at + n /\ (at + i) - at = i
  OBVIOUS
<1>5. QED
  BY <1>2, <1>3, <1>4

(* Points behind the last one are appended. *)
LEMMA AppendShape ==
  ASSUME NEW size \in Nat, NEW f, NEW k, Shape(f, size, k),
         NEW n \in Nat, NEW src, Input(src, n), k + n <= size,
         \A i \in 1 .. k, j \in 1 .. n : f[i].time < src[j].time
  PROVE  /\ Shape(Place(f, src, k, n), size, k + n)
         /\ Elems(Place(f, src, k, n), k + n) = Overwrite(Elems(f, k), Elems(src, n))
<1> DEFINE g == Place(f, src, k, n)
<1>1. k \in Nat /\ k <= size /\ \A i \in 1 .. size : f[i] \in Point /\ f[i].time \in Int
  BY ShapeTypes
<1>2. /\ g \in [ 1 .. size -> Point ]
      /\ \A i \in 1 .. n : g[k + i] = src[i]
      /\ \A i \in 1 .. size : i <= k \/ i > k + n => g[i] = f[i]
  <2>1. f \in [ 1 .. size -> Point ] /\ \A i \in 1 .. n : src[i] \in Point
    BY DEF Shape, Input
  <2>2. k \in Nat
    BY <1>1
  <2>3. QED
    BY <2>1, <2>2, PlaceProperties, SMTT(30)
<1> HIDE DEF g
<1>3. /\ \A i \in 1 .. k : g[i] = f[i]
      /\ \A i \in k + 1 .. k + n : i - k \in 1 .. n /\ g[i] = src[i - k]
      /\ \A i \in k + n + 1 .. size : g[i] = f[i]
  BY <1>1, <1>2
<1>4. Ascending(g, k + n)
  <2>1. SUFFICES ASSUME NEW i \in 1 .. k + n, NEW j \in 1 .. k + n, i < j
                 PROVE  g[i].time < g[j].time
    BY DEF Ascending
  <2>2. CASE j <= k
    BY <1>1, <1>3, <2>1, <2>2 DEF Shape, Ascending
  <2>3. CASE i <= k /\ j > k
    BY <1>1, <1>3, <2>3
  <2>4. CASE i > k /\ j > k
    BY <1>1, <1>3, <2>1, <2>4, SMTT(30) DEF Input, Ascending
  <2>5. QED
    BY <1>1, <2>1, <2>2, <2>3, <2>4
<1>5. \A i \in 1 .. k + n : g[i].time \in 1 .. MaxTime - 2
  <2>1. SUFFICES ASSUME NEW i \in 1 .. k + n PROVE g[i].time \in 1 .. MaxTime - 2
    OBVIOUS
  <2>2. CASE i \in 1 .. k
    BY <1>3, <2>2 DEF Shape
  <2>3. CASE i \in k + 1 .. k + n
    BY <1>3, <2>3 DEF Input
  <2>4. QED
    BY <1>1, <2>2, <2>3
<1>6. \A i \in k + n + 1 .. size : g[i].time = MaxTime
  BY <1>1, <1>3 DEF Shape
<1>7. Elems(g, k + n) = Elems(f, k) \cup Elems(src, n)
  <2>1. Elems(g, k + n) \subseteq Elems(f, k) \cup Elems(src, n)
    <3>1. ASSUME NEW i \in 1 .. k + n PROVE g[i] \in Elems(f, k) \cup Elems(src, n)
      BY <1>1, <1>3 DEF Elems
    <3>2. QED
      BY <3>1 DEF Elems
  <2>2. Elems(f, k) \subseteq Elems(g, k + n)
    BY <1>1, <1>3 DEF Elems
  <2>3. Elems(src, n) \subseteq Elems(g, k + n)
    <3>1. ASSUME NEW i \in 1 .. n PROVE src[i] \in Elems(g, k + n)
      BY <1>1, <1>2, SMTT(30) DEF Elems
    <3>2. QED
      BY <3>1 DEF Elems
  <2>4. QED
    BY <2>1, <2>2, <2>3
<1>8. \A p \in Elems(f, k) : p.time \notin Times(Elems(src, n))
  BY <1>1 DEF Elems, Times, Input
<1>9. Overwrite(Elems(f, k), Elems(src, n)) = Elems(f, k) \cup Elems(src, n)
  BY <1>8 DEF Overwrite
<1>10. QED
  BY <1>1, <1>2, <1>4, <1>5, <1>6, <1>7, <1>9 DEF Shape, g

(* A file of no points. *)
LEMMA EmptyShape == Shape(<< >>, 0, 0)
BY DEF Shape, Ascending

-----------------------------------------------------------------------------
(* Induction on the natural numbers, for a set: what is not in T would have *)
(* a least element.                                                         *)
LEMMA NatSetInduction ==
  ASSUME NEW T, 0 \in T, \A k \in Nat : k \in T => k + 1 \in T
  PROVE  Nat \subseteq T
<1>a. ASSUME NEW U \in SUBSET Nat, U # {}
      PROVE  \E m \in U : \A k \in U : ~ (k < m)
  <2> DEFINE R == { ss \in Nat \X Nat : ss[1] < ss[2] }
  <2>1. IsWellFoundedOn(R, Nat)
    BY NatLessThanWellFounded DEF OpToRel
  <2>2. \A a, b \in Nat : << a, b >> \in R <=> a < b
    OBVIOUS
  <2> HIDE DEF R
  <2>3. PICK m \in U : \A k \in U : ~ (<< k, m >> \in R)
    BY <1>a, <2>1, WFMin, Zenon
  <2>4. QED
    BY <2>2, <2>3, Zenon
<1> SUFFICES ASSUME Nat \ T # {} PROVE FALSE
  OBVIOUS
<1>1. PICK m \in Nat \ T : \A k \in Nat \ T : ~ (k < m)
  BY <1>a, Zenon
<1>2. m # 0 /\ m - 1 \in Nat /\ ~ (m - 1 \in Nat \ T)
  BY <1>1
<1>3. QED
  BY <1>2

-----------------------------------------------------------------------------
(* The n points of a list have times. *)
Timed(list, n) == \A i \in 1 .. n : list[i].time \in Int

(* What data_point_find returns on any list: a position of it; none in      *)
(* front of a point that is before t and has only such points in front of   *)
(* it; the position c, when moreover only the point right behind c can have *)
(* the time t and all others there are later; and a later time is not found *)
(* in front of an earlier one.                                              *)
(*                                                                          *)
(* SearchTurn is one turn of its loop between l and r, when g says what the *)
(* loop returns for shorter stretches, Searched what the loop returns, and  *)
(* Turned what one turn of it does.                                         *)
LEMMA SearchProperties ==
  ASSUME NEW n \in Nat, NEW list, Timed(list, n)
  PROVE  /\ \A t \in Int : Search(list, n, t) \in 0 .. n
         /\ \A t \in Int, c \in 0 .. n :
              (\A i \in 1 .. c : list[i].time < t) => Search(list, n, t) >= c
         /\ \A t \in Int, c \in 0 .. n :
              /\ \A i \in 1 .. c : list[i].time < t
              /\ \A i \in c + 1 .. n : list[i].time >= t /\ (i > c + 1 => list[i].time > t)
              => Search(list, n, t) = c
         /\ \A t, u \in Int : t <= u => Search(list, n, t) <= Search(list, n, u)
<1> DEFINE
      Stretches == (0 .. n) \X (0 .. n)
      SearchTurn(g, t, l, r) ==
        LET mid == (r + l) \div 2
        IN  IF ~ l < r THEN l
            ELSE IF t < list[mid + 1].time THEN g[l, mid]
            ELSE IF t > list[mid + 1].time THEN g[mid + 1, r]
            ELSE mid
      AgreeTo(g, h, k) == \A w \in Stretches : w[2] - w[1] <= k => g[w] = h[w]
      Searched(t, l, r) == SearchLoop(list, n, t)[l, r]
      Turned(t, l, r, mid) ==
        /\ mid \in 0 .. n - 1 /\ l <= mid /\ mid < r
        /\ \/ t < list[mid + 1].time /\ Searched(t, l, r) = Searched(t, l, mid)
           \/ t > list[mid + 1].time /\ Searched(t, l, r) = Searched(t, mid + 1, r)
           \/ t = list[mid + 1].time /\ Searched(t, l, r) = mid
<1> HIDE DEF Stretches, SearchTurn, AgreeTo, Searched, Turned
<1>1. ASSUME NEW l \in Nat, NEW r \in Nat, l < r
      PROVE  /\ (r + l) \div 2 \in Nat
             /\ l <= (r + l) \div 2 /\ (r + l) \div 2 < r
  BY <1>1
(* The turns shorter stretches decide on. *)
<1>2. ASSUME NEW t \in Int, NEW k \in Nat,
             NEW g, NEW h, NEW l \in 0 .. n, NEW r \in 0 .. n, r - l <= k + 1,
             AgreeTo(g, h, k)
      PROVE  SearchTurn(g, t, l, r) = SearchTurn(h, t, l, r)
  <2>1. CASE ~ (l < r)
    BY <2>1 DEF SearchTurn
  <2>2. CASE l < r
    <3> DEFINE mid == (r + l) \div 2
    <3>1. mid \in Nat /\ l <= mid /\ mid < r
      BY <2>2, <1>1
    <3> HIDE DEF mid
    <3>2. g[l, mid] = h[l, mid]
      <4>1. << l, mid >> \in Stretches /\ mid - l <= k
        BY <1>2, <3>1 DEF Stretches
      <4>2. QED
        BY <1>2, <4>1, Zenon DEF AgreeTo
    <3>3. g[mid + 1, r] = h[mid + 1, r]
      <4>1. << mid + 1, r >> \in Stretches /\ r - (mid + 1) <= k
        BY <1>2, <3>1 DEF Stretches
      <4>2. QED
        BY <1>2, <4>1, Zenon DEF AgreeTo
    <3>4. QED
      BY <3>2, <3>3, Zenon DEF SearchTurn, mid
  <2>3. QED
    BY <2>1, <2>2
<1>3. ASSUME NEW t \in Int,
             NEW g \in [ Stretches -> 0 .. n ], NEW l \in 0 .. n, NEW r \in 0 .. n
      PROVE  SearchTurn(g, t, l, r) \in 0 .. n
  <2>1. CASE ~ (l < r)
    BY <2>1 DEF SearchTurn
  <2>2. CASE l < r
    <3> DEFINE mid == (r + l) \div 2
    <3>1. mid \in Nat /\ l <= mid /\ mid < r
      BY <2>2, <1>1
    <3> HIDE DEF mid
    <3>2. << l, mid >> \in Stretches /\ << mid + 1, r >> \in Stretches /\ mid \in 0 .. n
      BY <3>1 DEF Stretches
    <3>3. g[l, mid] \in 0 .. n /\ g[mid + 1, r] \in 0 .. n
      BY <3>2, Zenon
    <3>4. QED
      BY <3>2, <3>3, <2>2, Zenon DEF SearchTurn, mid
  <2>3. QED
    BY <2>1, <2>2
(* The loop ends: there is a function that every turn agrees with. *)
<1>4. ASSUME NEW t \in Int
      PROVE  \A l, r \in 0 .. n :
               SearchLoop(list, n, t)[l, r] = SearchTurn(SearchLoop(list, n, t), t, l, r)
  <2> DEFINE Turn(g, w) == SearchTurn(g, t, w[1], w[2])
             T == { k \in Nat : \E g \in [ Stretches -> 0 .. n ] :
                      \A w \in Stretches : w[2] - w[1] <= k => g[w] = Turn(g, w) }
  <2>1. 0 \in T
    <3> DEFINE g == [ w \in Stretches |-> w[1] ]
    <3>1. g \in [ Stretches -> 0 .. n ]
      BY DEF Stretches
    <3>2. ASSUME NEW w \in Stretches, w[2] - w[1] <= 0
          PROVE  g[w] = Turn(g, w)
      <4>1. g[w] = w[1] /\ ~ (w[1] < w[2])
        BY <3>2 DEF Stretches
      <4>2. QED
        BY <4>1 DEF SearchTurn
    <3>3. QED
      BY <3>1, <3>2, Zenon
  <2>2. ASSUME NEW k \in Nat, k \in T
        PROVE  k + 1 \in T
    <3>1. PICK g \in [ Stretches -> 0 .. n ] :
             \A w \in Stretches : w[2] - w[1] <= k => g[w] = Turn(g, w)
      BY <2>2
    <3> DEFINE h == [ w \in Stretches |-> Turn(g, w) ]
    <3>2. \A w \in Stretches : w[1] \in 0 .. n /\ w[2] \in 0 .. n
      BY DEF Stretches
    <3>3. h \in [ Stretches -> 0 .. n ]
      BY <3>2, <1>3, Zenon
    <3>4. \A w \in Stretches : h[w] = Turn(g, w)
      OBVIOUS
    <3> HIDE DEF h
    <3>5. AgreeTo(g, h, k)
      BY <3>1, <3>4 DEF AgreeTo
    <3>6. ASSUME NEW w \in Stretches, w[2] - w[1] <= k + 1
          PROVE  h[w] = Turn(h, w)
      <4>1. Turn(g, w) = Turn(h, w)
        <5>1. PICK l \in 0 .. n, r \in 0 .. n : l = w[1] /\ r = w[2]
          BY <3>2
        <5>2. r - l <= k + 1
          BY <3>6, <5>1
        <5>3. SearchTurn(g, t, l, r) = SearchTurn(h, t, l, r)
          BY <1>2, <3>5, <5>2
        <5>4. QED
          BY <5>1, <5>3
      <4>2. QED
        BY <3>4, <4>1
    <3>7. QED
      BY <3>3, <3>6
  <2>3. n \in T
    <3> HIDE DEF T
    <3>1. QED
      BY <2>1, <2>2, NatSetInduction
  <2>4. PICK g \in [ Stretches -> 0 .. n ] :
           \A w \in Stretches : w[2] - w[1] <= n => g[w] = Turn(g, w)
    BY <2>3
  <2>5. g = [ w \in Stretches |-> Turn(g, w) ]
    <3>1. \A w \in Stretches : w[2] - w[1] <= n
      BY DEF Stretches
    <3>2. QED
      BY <2>4, <3>1
  <2>6. SearchLoop(list, n, t) = CHOOSE f : f = [ w \in Stretches |-> Turn(f, w) ]
    BY Zenon DEF SearchLoop, SearchTurn, Stretches
  <2>7. SearchLoop(list, n, t) = [ w \in Stretches |-> Turn(SearchLoop(list, n, t), w) ]
    BY <2>5, <2>6, Zenon
  <2>8. QED
    <3> HIDE DEF Turn
    <3> DEFINE F == SearchLoop(list, n, t)
    <3>1. F = [ w \in Stretches |-> Turn(F, w) ]
      BY <2>7
    <3> HIDE DEF F
    <3>2. \A l, r \in 0 .. n : F[l, r] = Turn(F, << l, r >>)
      BY <3>1, Zenon DEF Stretches
    <3>3. QED
      BY <3>2, Zenon DEF F, Turn
<1>5. ASSUME NEW t \in Int,
             NEW l \in 0 .. n, NEW r \in 0 .. n, ~ (l < r)
      PROVE  Searched(t, l, r) = l
  <2>1. SearchLoop(list, n, t)[l, r] = SearchTurn(SearchLoop(list, n, t), t, l, r)
    BY <1>4, Zenon
  <2>2. QED
    BY <1>5, <2>1, Zenon DEF SearchTurn, Searched
<1>6. ASSUME NEW t \in Int,
             NEW l \in 0 .. n, NEW r \in 0 .. n, l < r
      PROVE  Turned(t, l, r, (r + l) \div 2)
  <2> DEFINE F   == SearchLoop(list, n, t)
             mid == (r + l) \div 2
  <2>1. F[l, r] = SearchTurn(F, t, l, r)
    BY <1>4, Zenon
  <2> HIDE DEF F
  <2>2. /\ mid \in 0 .. n - 1 /\ l <= mid /\ mid < r
        /\ \/ t < list[mid + 1].time /\ F[l, r] = F[l, mid]
           \/ t > list[mid + 1].time /\ F[l, r] = F[mid + 1, r]
           \/ t = list[mid + 1].time /\ F[l, r] = mid
    <3>1. mid \in 0 .. n - 1 /\ l <= mid /\ mid < r
      BY <1>6, <1>1
    <3>2. F[l, r] = IF t < list[mid + 1].time THEN F[l, mid]
                    ELSE IF t > list[mid + 1].time THEN F[mid + 1, r]
                    ELSE mid
      BY <1>6, <2>1, Zenon DEF SearchTurn
    <3> HIDE DEF mid
    <3>3. PICK time \in Int : time = list[mid + 1].time
      BY <3>1 DEF Timed
    <3>4. F[l, r] = IF t < time THEN F[l, mid]
                    ELSE IF t > time THEN F[mid + 1, r]
                    ELSE mid
      BY <3>2, <3>3, Zenon
    <3>5. \/ t < time /\ F[l, r] = F[l, mid]
          \/ t > time /\ F[l, r] = F[mid + 1, r]
          \/ t = time /\ F[l, r] = mid
      <4>1. CASE t < time
        BY <3>4, <4>1, Zenon
      <4>2. CASE t > time
        BY <3>4, <4>2, Zenon
      <4>3. CASE t = time
        BY <3>4, <4>3, Zenon
      <4>4. t < time \/ t > time \/ t = time
        BY <3>3
      <4>5. QED
        BY <4>1, <4>2, <4>3, <4>4, Zenon
    <3>6. QED
      BY <3>1, <3>3, <3>5, Zenon
  <2>3. QED
    BY <2>2, Zenon DEF F, Searched, Turned
(* The loop returns a position of its stretch. *)
<1>7. ASSUME NEW t \in Int
      PROVE  \A l, r \in 0 .. n : l <= r => Searched(t, l, r) \in l .. r
  <2> DEFINE T == { k \in Nat : \A l, r \in 0 .. n :
                      l <= r /\ r - l <= k => Searched(t, l, r) \in l .. r }
  <2>1. 0 \in T
    <3>1. \A l, r \in 0 .. n : l <= r /\ r - l <= 0 => ~ (l < r) /\ l = r
      OBVIOUS
    <3>2. \A l, r \in 0 .. n : ~ (l < r) => Searched(t, l, r) = l
      BY <1>5
    <3>3. QED
      BY <3>1, <3>2
  <2>2. ASSUME NEW k \in Nat, k \in T
        PROVE  k + 1 \in T
    <3>1. ASSUME NEW l \in 0 .. n, NEW r \in 0 .. n, l <= r, r - l <= k + 1
          PROVE  Searched(t, l, r) \in l .. r
      <4>1. CASE ~ (l < r)
        BY <3>1, <4>1, <1>5
      <4>2. CASE l < r
        <5>1. PICK mid \in 0 .. n - 1 :
                /\ l <= mid /\ mid < r
                /\ \/ t < list[mid + 1].time /\ Searched(t, l, r) = Searched(t, l, mid)
                   \/ t > list[mid + 1].time /\ Searched(t, l, r) = Searched(t, mid + 1, r)
                   \/ t = list[mid + 1].time /\ Searched(t, l, r) = mid
          <6>1. Turned(t, l, r, (r + l) \div 2)
            BY <4>2, <1>6
          <6>2. QED
            BY <6>1, Zenon DEF Turned
        <5>2. mid + 1 \in 1 .. n /\ mid \in 0 .. n /\ mid + 1 \in 0 .. n /\ list[mid + 1].time \in Int
          BY <5>1 DEF Timed
        <5>3. mid - l <= k /\ r - (mid + 1) <= k /\ mid + 1 <= r
          BY <3>1, <5>1
        <5>4. /\ Searched(t, l, mid) \in l .. mid
              /\ Searched(t, mid + 1, r) \in mid + 1 .. r
          BY <2>2, <5>1, <5>2, <5>3
        <5>5. QED
          BY <5>1, <5>4
      <4>3. QED
        BY <4>1, <4>2
    <3>2. QED
      BY <3>1
  <2>3. Nat \subseteq T
    <3> HIDE DEF T
    <3>1. QED
      BY <2>1, <2>2, NatSetInduction
  <2>4. \A l, r \in 0 .. n : r - l \in Int /\ r - l <= n
    OBVIOUS
  <2>5. n \in T
    BY <2>3
  <2>6. QED
    BY <2>4, <2>5
(* The loop does not end in front of a point that is before t and has only *)
(* such points in front of it.                                             *)
<1>8. ASSUME NEW t \in Int,
             NEW c \in 0 .. n, \A i \in 1 .. c : list[i].time < t
      PROVE  \A l, r \in 0 .. n : l <= r /\ c <= r => Searched(t, l, r) >= c
  <2> DEFINE T == { k \in Nat : \A l, r \in 0 .. n :
                      l <= r /\ c <= r /\ r - l <= k => Searched(t, l, r) >= c }
  <2>1. 0 \in T
    <3>1. \A l, r \in 0 .. n : l <= r /\ r - l <= 0 => ~ (l < r) /\ l = r
      OBVIOUS
    <3>2. \A l, r \in 0 .. n : ~ (l < r) => Searched(t, l, r) = l
      BY <1>5
    <3>3. QED
      BY <3>1, <3>2
  <2>2. ASSUME NEW k \in Nat, k \in T
        PROVE  k + 1 \in T
    <3>1. ASSUME NEW l \in 0 .. n, NEW r \in 0 .. n, l <= r, c <= r, r - l <= k + 1
          PROVE  Searched(t, l, r) >= c
      <4>1. CASE ~ (l < r)
        BY <3>1, <4>1, <1>5
      <4>2. CASE l < r
        <5>1. PICK mid \in 0 .. n - 1 :
                /\ l <= mid /\ mid < r
                /\ \/ t < list[mid + 1].time /\ Searched(t, l, r) = Searched(t, l, mid)
                   \/ t > list[mid + 1].time /\ Searched(t, l, r) = Searched(t, mid + 1, r)
                   \/ t = list[mid + 1].time /\ Searched(t, l, r) = mid
          <6>1. Turned(t, l, r, (r + l) \div 2)
            BY <4>2, <1>6
          <6>2. QED
            BY <6>1, Zenon DEF Turned
        <5>2. mid + 1 \in 1 .. n /\ mid \in 0 .. n /\ mid + 1 \in 0 .. n /\ list[mid + 1].time \in Int
          BY <5>1 DEF Timed
        <5>3. mid - l <= k /\ r - (mid + 1) <= k /\ mid + 1 <= r
          BY <3>1, <5>1
        <5>4. Searched(t, mid + 1, r) >= c
          BY <2>2, <3>1, <5>1, <5>2, <5>3
        <5>5. ~ (t > list[mid + 1].time) => c <= mid
          BY <1>8, <5>1, <5>2
        <5>6. c <= mid => Searched(t, l, mid) >= c
          BY <2>2, <5>1, <5>2, <5>3
        <5>7. QED
          BY <5>1, <5>2, <5>4, <5>5, <5>6
      <4>3. QED
        BY <4>1, <4>2
    <3>2. QED
      BY <3>1
  <2>3. Nat \subseteq T
    <3> HIDE DEF T
    <3>1. QED
      BY <2>1, <2>2, NatSetInduction
  <2>4. \A l, r \in 0 .. n : r - l \in Int /\ r - l <= n
    OBVIOUS
  <2>5. n \in T
    BY <2>3
  <2>6. QED
    BY <2>4, <2>5
(* Nor behind position c, when only the point right behind it can have the *)
(* time t and all others there are later.                                  *)
<1>9. ASSUME NEW t \in Int,
             NEW c \in 0 .. n,
             \A i \in c + 1 .. n : list[i].time >= t /\ (i > c + 1 => list[i].time > t)
      PROVE  \A l, r \in 0 .. n : l <= r /\ l <= c => Searched(t, l, r) <= c
  <2> DEFINE T == { k \in Nat : \A l, r \in 0 .. n :
                      l <= r /\ l <= c /\ r - l <= k => Searched(t, l, r) <= c }
  <2>1. 0 \in T
    <3>1. \A l, r \in 0 .. n : l <= r /\ r - l <= 0 => ~ (l < r) /\ l = r
      OBVIOUS
    <3>2. \A l, r \in 0 .. n : ~ (l < r) => Searched(t, l, r) = l
      BY <1>5
    <3>3. QED
      BY <3>1, <3>2
  <2>2. ASSUME NEW k \in Nat, k \in T
        PROVE  k + 1 \in T
    <3>1. ASSUME NEW l \in 0 .. n, NEW r \in 0 .. n, l <= r, l <= c, r - l <= k + 1
          PROVE  Searched(t, l, r) <= c
      <4>1. CASE ~ (l < r)
        BY <3>1, <4>1, <1>5
      <4>2. CASE l < r
        <5>1. PICK mid \in 0 .. n - 1 :
                /\ l <= mid /\ mid < r
                /\ \/ t < list[mid + 1].time /\ Searched(t, l, r) = Searched(t, l, mid)
                   \/ t > list[mid + 1].time /\ Searched(t, l, r) = Searched(t, mid + 1, r)
                   \/ t = list[mid + 1].time /\ Searched(t, l, r) = mid
          <6>1. Turned(t, l, r, (r + l) \div 2)
            BY <4>2, <1>6
          <6>2. QED
            BY <6>1, Zenon DEF Turned
        <5>2. mid + 1 \in 1 .. n /\ mid \in 0 .. n /\ mid + 1 \in 0 .. n /\ list[mid + 1].time \in Int
          BY <5>1 DEF Timed
        <5>3. mid - l <= k /\ r - (mid + 1) <= k /\ mid + 1 <= r
          BY <3>1, <5>1
        <5>4. Searched(t, l, mid) <= c
          BY <2>2, <3>1, <5>1, <5>2, <5>3
        <5>5. t > list[mid + 1].time => mid + 1 <= c
          BY <1>9, <5>1, <5>2
        <5>6. t = list[mid + 1].time => mid <= c
          BY <1>9, <5>1, <5>2
        <5>7. mid + 1 <= c => Searched(t, mid + 1, r) <= c
          BY <2>2, <5>1, <5>2, <5>3
        <5>8. QED
          BY <5>1, <5>2, <5>4, <5>5, <5>6, <5>7
      <4>3. QED
        BY <4>1, <4>2
    <3>2. QED
      BY <3>1
  <2>3. Nat \subseteq T
    <3> HIDE DEF T
    <3>1. QED
      BY <2>1, <2>2, NatSetInduction
  <2>4. \A l, r \in 0 .. n : r - l \in Int /\ r - l <= n
    OBVIOUS
  <2>5. n \in T
    BY <2>3
  <2>6. QED
    BY <2>4, <2>5
(* A later time is not found in front of an earlier one. *)
<1>10. ASSUME NEW t \in Int, NEW u \in Int, t <= u
       PROVE  \A l, r \in 0 .. n :
                l <= r => Searched(t, l, r) <= Searched(u, l, r)
  <2> DEFINE T == { k \in Nat : \A l, r \in 0 .. n : l <= r /\ r - l <= k =>
                      Searched(t, l, r) <= Searched(u, l, r) }
  <2>1. 0 \in T
    <3>1. \A l, r \in 0 .. n : l <= r /\ r - l <= 0 => ~ (l < r) /\ l = r
      OBVIOUS
    <3>2. \A l, r \in 0 .. n : ~ (l < r) => Searched(t, l, r) = l
      BY <1>5
    <3>3. \A l, r \in 0 .. n : ~ (l < r) => Searched(u, l, r) = l
      BY <1>5
    <3>4. QED
      BY <3>1, <3>2, <3>3
  <2>2. ASSUME NEW k \in Nat, k \in T
        PROVE  k + 1 \in T
    <3>1. ASSUME NEW l \in 0 .. n, NEW r \in 0 .. n, l <= r, r - l <= k + 1
          PROVE  Searched(t, l, r) <= Searched(u, l, r)
      <4>1. CASE ~ (l < r)
        <5>1. Searched(t, l, r) = l
          BY <4>1, <1>5
        <5>2. Searched(u, l, r) = l
          BY <4>1, <1>5
        <5>3. QED
          BY <5>1, <5>2
      <4>2. CASE l < r
        <5> DEFINE mid == (r + l) \div 2
        <5>a. Turned(t, l, r, mid)
          BY <4>2, <1>6
        <5>b. Turned(u, l, r, mid)
          BY <4>2, <1>6
        <5> HIDE DEF mid
        <5>1. /\ mid \in 0 .. n - 1 /\ l <= mid /\ mid < r
              /\ \/ t < list[mid + 1].time /\ Searched(t, l, r) = Searched(t, l, mid)
                 \/ t > list[mid + 1].time /\ Searched(t, l, r) = Searched(t, mid + 1, r)
                 \/ t = list[mid + 1].time /\ Searched(t, l, r) = mid
          BY <5>a, Zenon DEF Turned
        <5>2. \/ u < list[mid + 1].time /\ Searched(u, l, r) = Searched(u, l, mid)
              \/ u > list[mid + 1].time /\ Searched(u, l, r) = Searched(u, mid + 1, r)
              \/ u = list[mid + 1].time /\ Searched(u, l, r) = mid
          BY <5>b, Zenon DEF Turned
        <5>3. mid + 1 \in 1 .. n /\ mid \in 0 .. n /\ mid + 1 \in 0 .. n /\ list[mid + 1].time \in Int
          BY <5>1 DEF Timed
        <5>4. mid - l <= k /\ r - (mid + 1) <= k /\ mid + 1 <= r
          BY <3>1, <5>1
        <5>5. /\ Searched(t, l, mid) <= Searched(u, l, mid)
              /\ Searched(t, mid + 1, r) <= Searched(u, mid + 1, r)
          BY <2>2, <5>1, <5>3, <5>4
        <5>6. Searched(t, l, mid) \in l .. mid
          BY <5>1, <5>3, <1>7, Zenon
        <5>7. Searched(u, mid + 1, r) \in mid + 1 .. r
          BY <5>3, <5>4, <1>7, Zenon
        <5>8. QED
          BY <1>10, <5>1, <5>2, <5>3, <5>5, <5>6, <5>7
      <4>3. QED
        BY <4>1, <4>2
    <3>2. QED
      BY <3>1
  <2>3. Nat \subseteq T
    <3> HIDE DEF T
    <3>1. QED
      BY <2>1, <2>2, NatSetInduction
  <2>4. \A l, r \in 0 .. n : r - l \in Int /\ r - l <= n
    OBVIOUS
  <2>5. n \in T
    BY <2>3
  <2>6. QED
    BY <2>4, <2>5
(* What data_point_find does around the loop. *)
<1>11. ASSUME NEW t \in Int
       PROVE  \/ n = 0 /\ Search(list, n, t) = 0
              \/ n # 0 /\ t < list[1].time /\ Search(list, n, t) = 0
              \/ n # 0 /\ ~ (t < list[1].time) /\ t > list[n].time /\ Search(list, n, t) = n
              \/ /\ n # 0 /\ ~ (t < list[1].time) /\ ~ (t > list[n].time)
                 /\ Search(list, n, t) = Searched(t, 0, n)
  <2>1. Search(list, n, t) = IF n = 0 \/ t < list[1].time THEN 0
                             ELSE IF t > list[n].time THEN n
                             ELSE Searched(t, 0, n)
    BY DEF Search, Searched
  <2>2. QED
    BY <2>1
<1>12. ASSUME NEW t \in Int
       PROVE  Search(list, n, t) \in 0 .. n
  <2>1. Searched(t, 0, n) \in 0 .. n
    BY <1>7, SMTT(30)
  <2>2. QED
    BY <2>1, <1>11
<1>13. ASSUME NEW t \in Int,
              NEW c \in 0 .. n, \A i \in 1 .. c : list[i].time < t
       PROVE  Search(list, n, t) >= c
  <2>1. Searched(t, 0, n) >= c
    <3>1. 0 \in 0 .. n /\ n \in 0 .. n /\ 0 <= n /\ c <= n
      OBVIOUS
    <3>2. QED
      BY <1>13, <3>1, <1>8, Zenon
  <2>2. n # 0 => list[1].time \in Int
    BY DEF Timed
  <2>3. n # 0 /\ t < list[1].time => c = 0
    BY <1>13, <2>2
  <2>4. QED
    BY <2>1, <2>3, <1>11
<1>14. ASSUME NEW t \in Int,
              NEW c \in 0 .. n, \A i \in 1 .. c : list[i].time < t,
              \A i \in c + 1 .. n : list[i].time >= t /\ (i > c + 1 => list[i].time > t)
       PROVE  Search(list, n, t) = c
  <2>1. Searched(t, 0, n) <= c
    <3>1. 0 \in 0 .. n /\ n \in 0 .. n /\ 0 <= n /\ 0 <= c
      OBVIOUS
    <3>2. QED
      BY <1>14, <3>1, <1>9, Zenon
  <2>2. Search(list, n, t) >= c /\ Search(list, n, t) \in 0 .. n
    BY <1>12, <1>13, <1>14
  <2>3. n # 0 => list[n].time \in Int
    BY DEF Timed
  <2>4. n # 0 /\ t > list[n].time => c = n
    BY <1>14, <2>3
  <2>5. Search(list, n, t) <= c
    BY <2>1, <2>4, <1>11
  <2>6. QED
    BY <2>2, <2>5
<1>15. ASSUME NEW t \in Int, NEW u \in Int, t <= u
       PROVE  Search(list, n, t) <= Search(list, n, u)
  <2>1. Searched(t, 0, n) <= Searched(u, 0, n)
    <3>1. 0 \in 0 .. n /\ n \in 0 .. n /\ 0 <= n
      OBVIOUS
    <3>2. QED
      BY <1>15, <3>1, <1>10, Zenon
  <2>2. Search(list, n, t) \in 0 .. n
    BY <1>12
  <2>3. Search(list, n, u) \in 0 .. n
    BY <1>12
  <2>4. Searched(t, 0, n) \in 0 .. n
    BY <1>7, SMTT(30)
  <2>5. Searched(u, 0, n) \in 0 .. n
    BY <1>7, SMTT(30)
  <2>6. n # 0 => list[1].time \in Int /\ list[n].time \in Int
    BY DEF Timed
  <2>7. CASE n = 0
    BY <2>2, <2>3, <2>7
  <2>8. CASE n # 0
    <3>1. Search(list, n, t) = IF t < list[1].time THEN 0 ELSE IF t > list[n].time THEN n
                               ELSE Searched(t, 0, n)
      BY <2>8, Zenon DEF Search, Searched
    <3>2. Search(list, n, u) = IF u < list[1].time THEN 0 ELSE IF u > list[n].time THEN n
                               ELSE Searched(u, 0, n)
      BY <2>8, Zenon DEF Search, Searched
    <3>3. QED
      BY <1>15, <2>1, <2>4, <2>5, <2>6, <2>8, <3>1, <3>2
  <2>9. QED
    BY <2>7, <2>8
<1>16. QED
  BY <1>12, <1>13, <1>14, <1>15, Zenon

-----------------------------------------------------------------------------
(* A point of what is left of new and dst from the i-th and the j-th on. *)
FromRest(p, new, dst, i, j) ==
  \/ \E a \in i .. Len(new) : p = new[a]
  \/ \E b \in j .. Len(dst) : p = dst[b]

(* What data_point_merge hands to series_write, on any list: some of the    *)
(* points of new and dst, and at least one; and when no time of the input   *)
(* is before t, and only the first points of new and dst can have the time  *)
(* t, only the first merged point can.                                      *)
(*                                                                          *)
(* MergeTurn is one turn of its loop, with the i-th point of new and the    *)
(* j-th of dst next, when g says what is merged of the rest, Merged what    *)
(* the loop returns, and RestMerged that this consists of points of the     *)
(* rest, none merged twice, and is not empty if there is a rest.            *)
LEMMA MergeProperties ==
  ASSUME NEW new \in Seq(Point), NEW dst \in Seq(Point)
  PROVE  /\ Len(new) # 0 =>
              /\ MergeLists(new, dst) \in Seq(Point)
              /\ Len(MergeLists(new, dst)) # 0
              /\ Len(MergeLists(new, dst)) <= Len(new) + Len(dst)
              /\ \A a \in 1 .. Len(MergeLists(new, dst)) :
                   FromRest(MergeLists(new, dst)[a], new, dst, 1, 1)
         /\ \A t \in Int :
              /\ \A a \in 1 .. Len(new) : new[a].time >= t /\ (a > 1 => new[a].time > t)
              /\ \A c \in 1 .. Len(dst) : dst[c].time >= t /\ (c > 1 => dst[c].time > t)
              => \A a \in 1 .. Len(MergeLists(new, dst)) :
                   /\ MergeLists(new, dst)[a].time >= t
                   /\ a > 1 => MergeLists(new, dst)[a].time > t
<1> DEFINE
      MergeTurn(g, i, j) ==
        IF i > Len(new) THEN SubSeq(dst, j, Len(dst))
        ELSE IF j > Len(dst) THEN SubSeq(new, i, Len(new))
        ELSE IF dst[j].time < new[i].time THEN << dst[j] >> \o g[i, j + 1]
        ELSE IF new[i].time < dst[j].time THEN << new[i] >> \o g[i + 1, j]
        ELSE << new[i] >> \o g[i + 1, j + 1]
      Rests == (1 .. Len(new) + 1) \X (1 .. Len(dst) + 1)
      Left(w) == (Len(new) + 1 - w[1]) + (Len(dst) + 1 - w[2])
      Agree(g, h, k) == \A w \in Rests : Left(w) <= k => g[w] = h[w]
      Merged(i, j) == MergeLoop(new, dst)[i, j]
      RestMerged(list, i, j) ==
        /\ list \in Seq(Point)
        /\ Len(list) <= (Len(new) + 1 - i) + (Len(dst) + 1 - j)
        /\ i <= Len(new) \/ j <= Len(dst) => Len(list) # 0
        /\ \A a \in 1 .. Len(list) : FromRest(list[a], new, dst, i, j)
<1> HIDE DEF MergeTurn, Rests, Left, Agree, Merged, RestMerged
<1>1. ASSUME NEW S, NEW x \in S, NEW s \in Seq(S)
      PROVE  /\ << x >> \o s \in Seq(S)
             /\ Len(<< x >> \o s) = Len(s) + 1
             /\ (<< x >> \o s)[1] = x
             /\ \A i \in 2 .. Len(s) + 1 : (<< x >> \o s)[i] = s[i - 1]
  OBVIOUS
<1>2. ASSUME NEW S, NEW s \in Seq(S), NEW i \in 1 .. Len(s) + 1
      PROVE  /\ SubSeq(s, i, Len(s)) \in Seq(S)
             /\ Len(SubSeq(s, i, Len(s))) = Len(s) + 1 - i
             /\ \A a \in 1 .. Len(s) + 1 - i : SubSeq(s, i, Len(s))[a] = s[i + a - 1]
  OBVIOUS
(* The loop ends: there is a function that every turn agrees with. *)
<1>3. \A i \in 1 .. Len(new) + 1, j \in 1 .. Len(dst) + 1 :
                  MergeLoop(new, dst)[i, j] = MergeTurn(MergeLoop(new, dst), i, j)
  <2>b. ASSUME NEW k \in Nat, NEW g, NEW h,
               NEW i \in 1 .. Len(new) + 1, NEW j \in 1 .. Len(dst) + 1,
               Left(<< i, j >>) <= k + 1,
               Agree(g, h, k)
        PROVE  MergeTurn(g, i, j) = MergeTurn(h, i, j)
    <3>1. CASE i > Len(new)
      BY <3>1 DEF MergeTurn
    <3>2. CASE i <= Len(new) /\ j > Len(dst)
      BY <3>2 DEF MergeTurn
    <3>3. CASE i <= Len(new) /\ j <= Len(dst)
      <4>1. /\ << i, j + 1 >> \in Rests
            /\ << i + 1, j >> \in Rests
            /\ << i + 1, j + 1 >> \in Rests
        BY <3>3 DEF Rests
      <4>2. /\ Left(<< i, j + 1 >>) <= k
            /\ Left(<< i + 1, j >>) <= k
            /\ Left(<< i + 1, j + 1 >>) <= k
        BY <2>b, <3>3 DEF Left
      <4>3. g[i, j + 1] = h[i, j + 1] /\ g[i + 1, j] = h[i + 1, j] /\ g[i + 1, j + 1] = h[i + 1, j + 1]
        BY <2>b, <4>1, <4>2, Zenon DEF Agree
      <4>4. QED
        BY <4>3, Zenon DEF MergeTurn
    <3>4. QED
      BY <3>1, <3>2, <3>3
  <2>c. ASSUME NEW g \in [ Rests -> Seq(Point) ],
               NEW i \in 1 .. Len(new) + 1, NEW j \in 1 .. Len(dst) + 1
        PROVE  MergeTurn(g, i, j) \in Seq(Point)
    <3>1. CASE i > Len(new)
      BY <3>1, <1>2 DEF MergeTurn
    <3>2. CASE i <= Len(new) /\ j > Len(dst)
      BY <3>2, <1>2 DEF MergeTurn
    <3>3. CASE i <= Len(new) /\ j <= Len(dst)
      <4>1. /\ << i, j + 1 >> \in Rests
            /\ << i + 1, j >> \in Rests
            /\ << i + 1, j + 1 >> \in Rests
        BY <3>3 DEF Rests
      <4>2. g[i, j + 1] \in Seq(Point) /\ g[i + 1, j] \in Seq(Point) /\ g[i + 1, j + 1] \in Seq(Point)
        BY <4>1, Zenon
      <4>3. new[i] \in Point /\ dst[j] \in Point
        BY <3>3
      <4>4. /\ << dst[j] >> \o g[i, j + 1] \in Seq(Point)
            /\ << new[i] >> \o g[i + 1, j] \in Seq(Point)
            /\ << new[i] >> \o g[i + 1, j + 1] \in Seq(Point)
        BY <4>2, <4>3, <1>1, Zenon
      <4>5. ~ (i > Len(new)) /\ ~ (j > Len(dst))
        BY <3>3
      <4>6. MergeTurn(g, i, j) =
              IF dst[j].time < new[i].time THEN << dst[j] >> \o g[i, j + 1]
              ELSE IF new[i].time < dst[j].time THEN << new[i] >> \o g[i + 1, j]
              ELSE << new[i] >> \o g[i + 1, j + 1]
        BY <4>5, Zenon DEF MergeTurn
      <4>7. QED
        BY <4>4, <4>6, Zenon
    <3>4. QED
      BY <3>1, <3>2, <3>3
  <2> DEFINE W         == Rests
             L(w)      == Left(w)
             Turn(g, w) == MergeTurn(g, w[1], w[2])
             T == { k \in Nat : \E g \in [ W -> Seq(Point) ] : \A w \in W : L(w) <= k => g[w] = Turn(g, w) }
  <2>a. \A w \in W : /\ w[1] \in 1 .. Len(new) + 1 /\ w[2] \in 1 .. Len(dst) + 1
                     /\ w = << w[1], w[2] >> /\ L(w) \in Nat /\ L(w) <= Len(new) + Len(dst)
    BY SMTT(30) DEF Rests, Left
  <2>1. 0 \in T
    <3> DEFINE g == [ w \in W |-> << >> ]
    <3>1. g \in [ W -> Seq(Point) ]
      OBVIOUS
    <3>2. ASSUME NEW w \in W, L(w) <= 0
          PROVE  g[w] = Turn(g, w)
      <4>1. w[1] > Len(new) /\ w[2] = Len(dst) + 1
        BY <2>a, <3>2, SMTT(30) DEF Left
      <4>2. SubSeq(dst, w[2], Len(dst)) = << >>
        BY <4>1
      <4>3. QED
        BY <4>1, <4>2, Zenon DEF MergeTurn
    <3>3. QED
      BY <3>1, <3>2, Zenon
  <2>2. ASSUME NEW k \in Nat, k \in T
        PROVE  k + 1 \in T
    <3>1. PICK g \in [ W -> Seq(Point) ] : \A w \in W : L(w) <= k => g[w] = Turn(g, w)
      BY <2>2
    <3> DEFINE h == [ w \in W |-> Turn(g, w) ]
    <3>3. h \in [ W -> Seq(Point) ]
      BY <2>a, <2>c, Zenon
    <3>4. \A w \in W : h[w] = Turn(g, w)
      OBVIOUS
    <3> HIDE DEF h
    <3>5. Agree(g, h, k)
      BY <3>1, <3>4 DEF Agree
    <3>6. ASSUME NEW w \in W, L(w) <= k + 1
          PROVE  h[w] = Turn(h, w)
      <4>1. PICK i \in 1 .. Len(new) + 1, j \in 1 .. Len(dst) + 1 : w = << i, j >>
        BY <2>a
      <4>2. Left(<< i, j >>) <= k + 1
        BY <3>6, <4>1
      <4>3. MergeTurn(g, i, j) = MergeTurn(h, i, j)
        BY <3>5, <4>2, <2>b
      <4>4. QED
        BY <3>4, <4>1, <4>3
    <3>7. k + 1 \in Nat
      OBVIOUS
    <3>8. QED
      BY <3>3, <3>6, <3>7, Zenon
  <2>3. Len(new) + Len(dst) \in T
    <3> HIDE DEF T
    <3>1. QED
      BY <2>1, <2>2, NatSetInduction
  <2>4. PICK g \in [ W -> Seq(Point) ] : \A w \in W : L(w) <= Len(new) + Len(dst) => g[w] = Turn(g, w)
    BY <2>3
  <2>5. g = [ w \in W |-> Turn(g, w) ]
    BY <2>4, <2>a
  <2>6. MergeLoop(new, dst) = CHOOSE f : f = [ w \in W |-> Turn(f, w) ]
    BY Zenon DEF MergeLoop, MergeTurn, Rests
  <2>7. MergeLoop(new, dst) = [ w \in W |-> Turn(MergeLoop(new, dst), w) ]
    BY <2>5, <2>6, Zenon
  <2>8. QED
    <3> HIDE DEF Turn
    <3> DEFINE F == MergeLoop(new, dst)
    <3>1. F = [ w \in W |-> Turn(F, w) ]
      BY <2>7, SMTT(30)
    <3> HIDE DEF F
    <3>2. \A i \in 1 .. Len(new) + 1, j \in 1 .. Len(dst) + 1 : F[i, j] = Turn(F, << i, j >>)
      BY <3>1, Zenon DEF Rests
    <3>3. QED
      BY <3>2, Zenon DEF F, Turn
<1>4. ASSUME NEW i \in 1 .. Len(new) + 1, NEW j \in 1 .. Len(dst) + 1
      PROVE  \/ i > Len(new) /\ Merged(i, j) = SubSeq(dst, j, Len(dst))
             \/ /\ i <= Len(new) /\ j > Len(dst)
                /\ Merged(i, j) = SubSeq(new, i, Len(new))
             \/ /\ i <= Len(new) /\ j <= Len(dst) /\ dst[j].time < new[i].time
                /\ Merged(i, j) = << dst[j] >> \o Merged(i, j + 1)
             \/ /\ i <= Len(new) /\ j <= Len(dst) /\ new[i].time < dst[j].time
                /\ Merged(i, j) = << new[i] >> \o Merged(i + 1, j)
             \/ /\ i <= Len(new) /\ j <= Len(dst)
                /\ Merged(i, j) = << new[i] >> \o Merged(i + 1, j + 1)
  <2>1. Merged(i, j) =
          IF i > Len(new) THEN SubSeq(dst, j, Len(dst))
          ELSE IF j > Len(dst) THEN SubSeq(new, i, Len(new))
          ELSE IF dst[j].time < new[i].time THEN << dst[j] >> \o Merged(i, j + 1)
          ELSE IF new[i].time < dst[j].time THEN << new[i] >> \o Merged(i + 1, j)
          ELSE << new[i] >> \o Merged(i + 1, j + 1)
    <3>1. MergeLoop(new, dst)[i, j] = MergeTurn(MergeLoop(new, dst), i, j)
      BY <1>3, Zenon
    <3>2. QED
      BY <3>1, Zenon DEF MergeTurn, Merged
  <2>2. /\ ~ (i > Len(new)) => i <= Len(new)
        /\ ~ (j > Len(dst)) => j <= Len(dst)
    OBVIOUS
  <2>3. QED
    BY <2>1, <2>2, Zenon
<1>5. \A i \in 1 .. Len(new) + 1, j \in 1 .. Len(dst) + 1 :
               RestMerged(Merged(i, j), i, j)
  (* One more point in front of what was merged of a smaller rest. *)
  <2>a. ASSUME NEW i \in 1 .. Len(new) + 1, NEW j \in 1 .. Len(dst) + 1,
               NEW i2 \in 1 .. Len(new) + 1, NEW j2 \in 1 .. Len(dst) + 1,
               i <= i2, j <= j2, i + j < i2 + j2,
               NEW p \in Point, FromRest(p, new, dst, i, j),
               NEW s, RestMerged(s, i2, j2)
        PROVE  RestMerged(<< p >> \o s, i, j)
    <3>1. s \in Seq(Point) /\ Len(s) \in Nat
      BY <2>a DEF RestMerged
    <3> DEFINE list == << p >> \o s
    <3>2. /\ list \in Seq(Point) /\ Len(list) = Len(s) + 1 /\ list[1] = p
          /\ \A a \in 2 .. Len(s) + 1 : list[a] = s[a - 1]
      BY <3>1, <1>1
    <3> HIDE DEF list
    <3>3. Len(list) <= (Len(new) + 1 - i) + (Len(dst) + 1 - j) /\ Len(list) # 0
      <4>1. Len(s) <= (Len(new) + 1 - i2) + (Len(dst) + 1 - j2)
        BY <2>a DEF RestMerged
      <4>2. QED
        BY <2>a, <3>1, <3>2, <4>1, SMTT(30)
    <3>4. ASSUME NEW a \in 1 .. Len(list)
          PROVE  FromRest(list[a], new, dst, i, j)
      <4>1. CASE a = 1
        BY <2>a, <3>2, <4>1
      <4>2. CASE a # 1
        <5>1. list[a] = s[a - 1] /\ a - 1 \in 1 .. Len(s)
          <6>1. Len(list) = Len(s) + 1
            BY <3>2
          <6>2. a \in 2 .. Len(s) + 1 /\ a - 1 \in 1 .. Len(s)
            BY <3>1, <4>2, <6>1
          <6>3. QED
            BY <3>2, <6>2, SMTT(30)
        <5>2. FromRest(s[a - 1], new, dst, i2, j2)
          BY <2>a, <5>1, SMTT(30) DEF RestMerged
        <5>3. QED
          BY <2>a, <5>1, <5>2, SMTT(30) DEF FromRest
      <4>3. QED
        BY <4>1, <4>2
    <3>5. QED
      BY <3>2, <3>3, <3>4, SMTT(30) DEF RestMerged, list
  <2> DEFINE T == { k \in Nat : \A i \in 1 .. Len(new) + 1, j \in 1 .. Len(dst) + 1 :
                      (Len(new) + 1 - i) + (Len(dst) + 1 - j) <= k =>
                        RestMerged(Merged(i, j), i, j) }
  <2>1. ASSUME NEW k \in Int, NEW i \in 1 .. Len(new) + 1, NEW j \in 1 .. Len(dst) + 1,
               (Len(new) + 1 - i) + (Len(dst) + 1 - j) <= k + 1,
               k \in T \/ k < 0
        PROVE  RestMerged(Merged(i, j), i, j)
    <3>1. CASE i > Len(new) /\ Merged(i, j) = SubSeq(dst, j, Len(dst))
      <4> DEFINE s == SubSeq(dst, j, Len(dst))
      <4>1. /\ s \in Seq(Point) /\ Len(s) = Len(dst) + 1 - j
            /\ \A a \in 1 .. Len(dst) + 1 - j : s[a] = dst[j + a - 1]
        BY <1>2
      <4> HIDE DEF s
      <4>2. ASSUME NEW a \in 1 .. Len(s)
            PROVE  FromRest(s[a], new, dst, i, j)
        <5>1. s[a] = dst[j + a - 1] /\ j + a - 1 \in j .. Len(dst)
          BY <4>1
        <5>2. QED
          BY <5>1 DEF FromRest
      <4>3. /\ Len(s) <= (Len(new) + 1 - i) + (Len(dst) + 1 - j)
            /\ i <= Len(new) \/ j <= Len(dst) => Len(s) # 0
        BY <3>1, <4>1
      <4>4. RestMerged(s, i, j)
        BY <4>1, <4>2, <4>3, Zenon DEF RestMerged
      <4>5. QED
        BY <3>1, <4>4 DEF s
    <3>2. CASE /\ i <= Len(new) /\ j > Len(dst)
               /\ Merged(i, j) = SubSeq(new, i, Len(new))
      <4> DEFINE s == SubSeq(new, i, Len(new))
      <4>1. /\ s \in Seq(Point) /\ Len(s) = Len(new) + 1 - i
            /\ \A a \in 1 .. Len(new) + 1 - i : s[a] = new[i + a - 1]
        BY <1>2
      <4> HIDE DEF s
      <4>2. ASSUME NEW a \in 1 .. Len(s)
            PROVE  FromRest(s[a], new, dst, i, j)
        <5>1. s[a] = new[i + a - 1] /\ i + a - 1 \in i .. Len(new)
          BY <4>1
        <5>2. QED
          BY <5>1 DEF FromRest
      <4>3. RestMerged(s, i, j)
        BY <3>2, <4>1, <4>2 DEF RestMerged
      <4>4. QED
        BY <3>2, <4>3 DEF s
    <3>3. CASE i <= Len(new) /\ j <= Len(dst)
      <4>1. /\ i + 1 \in 1 .. Len(new) + 1 /\ j + 1 \in 1 .. Len(dst) + 1
            /\ new[i] \in Point /\ dst[j] \in Point /\ ~ (k < 0)
        BY <2>1, <3>3, SMTT(30)
      <4>2. FromRest(new[i], new, dst, i, j) /\ FromRest(dst[j], new, dst, i, j)
        BY <3>3 DEF FromRest
      <4>3. /\ RestMerged(Merged(i, j + 1), i, j + 1)
            /\ RestMerged(Merged(i + 1, j), i + 1, j)
            /\ RestMerged(Merged(i + 1, j + 1), i + 1, j + 1)
        <5>1. k \in T
          BY <2>1, <4>1, Zenon
        <5>2. /\ (Len(new) + 1 - i) + (Len(dst) + 1 - (j + 1)) <= k
              /\ (Len(new) + 1 - (i + 1)) + (Len(dst) + 1 - j) <= k
              /\ (Len(new) + 1 - (i + 1)) + (Len(dst) + 1 - (j + 1)) <= k
          BY <2>1
        <5>3. QED
          BY <4>1, <5>1, <5>2, Zenon
      <4>4. RestMerged(<< dst[j] >> \o Merged(i, j + 1), i, j)
        <5>1. i <= i /\ j <= j + 1 /\ i + j < i + (j + 1)
          OBVIOUS
        <5>2. QED
          BY <4>1, <4>2, <4>3, <5>1, <2>a, Zenon
      <4>5. RestMerged(<< new[i] >> \o Merged(i + 1, j), i, j)
        <5>1. i <= i + 1 /\ j <= j /\ i + j < (i + 1) + j
          OBVIOUS
        <5>2. QED
          BY <4>1, <4>2, <4>3, <5>1, <2>a, SMTT(30)
      <4>6. RestMerged(<< new[i] >> \o Merged(i + 1, j + 1), i, j)
        <5>1. i <= i + 1 /\ j <= j + 1 /\ i + j < (i + 1) + (j + 1)
          OBVIOUS
        <5>2. QED
          BY <4>1, <4>2, <4>3, <5>1, <2>a, Zenon
      <4>7. Merged(i, j) \in { << dst[j] >> \o Merged(i, j + 1),
                                         << new[i] >> \o Merged(i + 1, j),
                                         << new[i] >> \o Merged(i + 1, j + 1) }
        <5>1. ~ (i > Len(new)) /\ ~ (j > Len(dst))
          BY <3>3
        <5>2. QED
          BY <5>1, <1>4, Zenon
      <4>8. QED
        BY <4>4, <4>5, <4>6, <4>7, Zenon
    <3>4. QED
      BY <3>1, <3>2, <3>3, <1>4, Zenon
  <2>2. 0 \in T
    <3>1. -1 \in Int /\ -1 < 0 /\ -1 + 1 = 0
      OBVIOUS
    <3>2. QED
      BY <2>1, <3>1, Zenon
  <2>3. ASSUME NEW k \in Nat, k \in T
        PROVE  k + 1 \in T
    <3>1. \A i \in 1 .. Len(new) + 1, j \in 1 .. Len(dst) + 1 :
            (Len(new) + 1 - i) + (Len(dst) + 1 - j) <= k + 1 =>
              RestMerged(Merged(i, j), i, j)
      <4> HIDE DEF T
      <4>1. k \in Int
        OBVIOUS
      <4>2. QED
        BY <2>1, <2>3, <4>1, Zenon
    <3>2. QED
      BY <3>1
  <2>4. Len(new) + Len(dst) \in T
    <3> HIDE DEF T
    <3>1. QED
      BY <2>2, <2>3, NatSetInduction
  <2>5. QED
    BY <2>4
(* When no time of the input is before t, and only the first points of new *)
(* and dst can have the time t, only the first merged point can.           *)
<1>6. ASSUME NEW t \in Int,
             \A a \in 1 .. Len(new) : new[a].time >= t /\ (a > 1 => new[a].time > t),
             \A b \in 1 .. Len(dst) : dst[b].time >= t /\ (b > 1 => dst[b].time > t)
      PROVE  \A a \in 1 .. Len(MergeLists(new, dst)) :
               /\ MergeLists(new, dst)[a].time >= t
               /\ a > 1 => MergeLists(new, dst)[a].time > t
  <2> DEFINE list == Merged(1, 1)
  <2>1. MergeLists(new, dst) = list
    BY DEF MergeLists, Merged
  <2>2. RestMerged(list, 1, 1)
    BY <1>5
  <2>3. \A p \in Point : p.time \in Int
    BY MaxTimeAssumption DEF Point, Time
  <2>4. \A a \in 1 .. Len(new) : new[a] \in Point
    OBVIOUS
  <2>5. \A b \in 1 .. Len(dst) : dst[b] \in Point
    OBVIOUS
  <2>6. \A a \in 1 .. Len(list) : list[a].time >= t
    BY <1>6, <2>2, Zenon DEF RestMerged, FromRest
  <2>7. ASSUME NEW a \in 1 .. Len(list), a > 1
        PROVE  list[a].time > t
    <3>1. CASE 1 > Len(new) /\ list = SubSeq(dst, 1, Len(dst))
      <4>1. list[a] = dst[a] /\ a \in 1 .. Len(dst)
        BY <3>1
      <4>2. QED
        BY <1>6, <2>7, <4>1
    <3>2. CASE list = SubSeq(new, 1, Len(new))
      <4>1. list[a] = new[a] /\ a \in 1 .. Len(new)
        BY <3>2
      <4>2. QED
        BY <1>6, <2>7, <4>1
    <3>3. ASSUME 1 <= Len(new), 1 <= Len(dst), NEW p \in Point,
                 NEW i \in 1 .. Len(new) + 1, NEW j \in 1 .. Len(dst) + 1,
                 list = << p >> \o Merged(i, j),
                 \A b \in i .. Len(new) : new[b].time > t,
                 \A b \in j .. Len(dst) : dst[b].time > t
          PROVE  list[a].time > t
      <4> DEFINE s == Merged(i, j)
      <4>1. RestMerged(s, i, j)
        BY <1>5
      <4> HIDE DEF s
      <4>2. s \in Seq(Point)
        BY <4>1 DEF RestMerged
      <4>3. list = << p >> \o s
        BY <3>3, SMTT(30) DEF s
      <4>4. list[a] = s[a - 1] /\ a - 1 \in 1 .. Len(s)
        <5>1. Len(<< p >>) = 1 /\ << p >> \in Seq(Point)
          OBVIOUS
        <5>2. Len(list) = 1 + Len(s) /\ Len(s) \in Nat
          BY <4>2, <4>3, <5>1, SMTT(30)
        <5>3. a - 1 \in 1 .. Len(s)
          BY <2>7, <5>2, <1>1
        <5>4. QED
          BY <2>7, <4>2, <4>3, <5>1, <5>2, <5>3
      <4>5. FromRest(s[a - 1], new, dst, i, j)
        BY <4>1, <4>4, SMTT(30) DEF RestMerged
      <4>6. QED
        BY <3>3, <4>4, <4>5 DEF FromRest
    <3>4. CASE /\ 1 <= Len(new) /\ 1 <= Len(dst) /\ dst[1].time < new[1].time
               /\ list = << dst[1] >> \o Merged(1, 1 + 1)
      <4>1. \A b \in 1 .. Len(new) : new[b].time > t
        BY <1>6, <2>3, <2>4, <2>5, <3>4, SMTT(30)
      <4>2. \A b \in 1 + 1 .. Len(dst) : dst[b].time > t
        BY <1>6
      <4>3. 1 \in 1 .. Len(new) + 1 /\ 1 + 1 \in 1 .. Len(dst) + 1 /\ dst[1] \in Point
        BY <3>4
      <4>4. QED
        BY <3>3, <3>4, <4>1, <4>2, <4>3, Zenon
    <3>5. CASE /\ 1 <= Len(new) /\ 1 <= Len(dst) /\ new[1].time < dst[1].time
               /\ list = << new[1] >> \o Merged(1 + 1, 1)
      <4>1. \A b \in 1 .. Len(dst) : dst[b].time > t
        BY <1>6, <2>3, <2>4, <2>5, <3>5, SMTT(30)
      <4>2. \A b \in 1 + 1 .. Len(new) : new[b].time > t
        BY <1>6
      <4>3. 1 + 1 \in 1 .. Len(new) + 1 /\ 1 \in 1 .. Len(dst) + 1 /\ new[1] \in Point
        BY <3>5
      <4>4. QED
        BY <3>3, <3>5, <4>1, <4>2, <4>3, Zenon
    <3>6. CASE /\ 1 <= Len(new) /\ 1 <= Len(dst)
               /\ list = << new[1] >> \o Merged(1 + 1, 1 + 1)
      <4>1. /\ \A b \in 1 + 1 .. Len(new) : new[b].time > t
            /\ \A b \in 1 + 1 .. Len(dst) : dst[b].time > t
        BY <1>6
      <4>2. 1 + 1 \in 1 .. Len(new) + 1 /\ 1 + 1 \in 1 .. Len(dst) + 1 /\ new[1] \in Point
        BY <3>6
      <4>3. QED
        BY <3>3, <3>6, <4>1, <4>2, Zenon
    <3>7. 1 \in 1 .. Len(new) + 1 /\ 1 \in 1 .. Len(dst) + 1
      OBVIOUS
    <3>8. QED
      BY <3>1, <3>2, <3>4, <3>5, <3>6, <3>7, <1>4, Zenon
  <2> HIDE DEF list
  <2>8. QED
    BY <2>1, <2>6, <2>7
(* What data_point_merge hands to series_write, on any list. *)
<1>7. ASSUME Len(new) # 0
      PROVE  /\ MergeLists(new, dst) \in Seq(Point)
             /\ Len(MergeLists(new, dst)) # 0
             /\ Len(MergeLists(new, dst)) <= Len(new) + Len(dst)
             /\ \A a \in 1 .. Len(MergeLists(new, dst)) :
                  FromRest(MergeLists(new, dst)[a], new, dst, 1, 1)
  <2>1. MergeLists(new, dst) = Merged(1, 1)
    BY DEF MergeLists, Merged
  <2>2. RestMerged(Merged(1, 1), 1, 1)
    BY <1>5
  <2>3. QED
    BY <1>7, <2>1, <2>2 DEF RestMerged
<1>8. QED
  BY <1>6, <1>7, Zenon
=============================================================================
