-------------------------- MODULE SeriesCrashProofs --------------------------
(***************************************************************************)
(* What survives the crashes of SeriesCrash, for files, batches and growth *)
(* increments of any size and any number of crashes, as long as no one     *)
(* writes one of the two largest timestamps: no copy ever leaves the       *)
(* mapping, whatever a crash has left in the file, and a user who only     *)
(* writes behind what was acknowledged keeps every point acknowledged      *)
(* before the first interrupted copy.                                      *)
(*                                                                         *)
(* The searches and merges run over files that need not be ascending, so   *)
(* what their loops compute is proved by induction, on the length of what  *)
(* is left to look at.                                                     *)
(***************************************************************************)
EXTENDS SeriesCrash, SeriesLemmas

-----------------------------------------------------------------------------
(* The files a machine crash can leave: one slot more has any value it may *)
(* have on the disk.                                                       *)
FilesTurn(g, disk, i) ==
  IF i = 0 THEN { << >> } ELSE OneSlotMore(g[i - 1], disk[i])

LEMMA FilesTurnCases ==
  ASSUME NEW g, NEW disk, NEW i
  PROVE  /\ i = 0 => FilesTurn(g, disk, i) = { << >> }
         /\ i # 0 => FilesTurn(g, disk, i) = OneSlotMore(g[i - 1], disk[i])
BY Zenon DEF FilesTurn

LEMMA FilesUnfold ==
  ASSUME NEW size \in Nat, NEW disk
  PROVE  \E F : /\ Files(disk, size) = F[size]
                /\ \A i \in 0 .. size : F[i] = FilesTurn(F, disk, i)
<1> DEFINE T == { k \in Nat : \E g : \A i \in 0 .. size : i <= k => g[i] = FilesTurn(g, disk, i) }
           Loop == CHOOSE f : f = [ i \in 0 .. size |-> FilesTurn(f, disk, i) ]
<1>1. 0 \in T
  <2> DEFINE g == [ i \in 0 .. size |-> { << >> } ]
  <2>1. \A i \in 0 .. size : i <= 0 => g[i] = FilesTurn(g, disk, i)
    BY DEF FilesTurn
  <2>2. QED
    BY <2>1, Zenon
<1>2. ASSUME NEW k \in Nat, k \in T
      PROVE  k + 1 \in T
  <2>1. PICK g : \A i \in 0 .. size : i <= k => g[i] = FilesTurn(g, disk, i)
    BY <1>2, Zenon
  <2> DEFINE h == [ i \in 0 .. size |-> FilesTurn(g, disk, i) ]
  <2>2. \A i \in 0 .. size : h[i] = FilesTurn(g, disk, i)
    BY Zenon
  <2> HIDE DEF h
  <2>3. ASSUME NEW i \in 0 .. size, i <= k + 1
        PROVE  h[i] = FilesTurn(h, disk, i)
    <3>1. CASE i = 0
      BY <2>2, <3>1, FilesTurnCases, Zenon
    <3>2. CASE i # 0
      <4>1. i - 1 \in 0 .. size /\ i - 1 <= k
        BY <2>3, <3>2
      <4>2. g[i - 1] = h[i - 1]
        BY <2>1, <2>2, <4>1, Zenon
      <4>3. QED
        <5>1. FilesTurn(g, disk, i) = OneSlotMore(g[i - 1], disk[i])
          BY <3>2, FilesTurnCases, Zenon
        <5>2. FilesTurn(h, disk, i) = OneSlotMore(h[i - 1], disk[i])
          BY <3>2, FilesTurnCases, Zenon
        <5>3. QED
          BY <2>2, <4>2, <5>1, <5>2, Zenon
    <3>3. QED
      BY <3>1, <3>2, Zenon
  <2>4. QED
    BY <2>3
<1>3. size \in T
  <2> HIDE DEF T
  <2>1. QED
    BY <1>1, <1>2, NatSetInduction, Zenon
<1>4. PICK g : \A i \in 0 .. size : g[i] = FilesTurn(g, disk, i)
  BY <1>3
<1> DEFINE h == [ i \in 0 .. size |-> g[i] ]
<1>5. h = [ i \in 0 .. size |-> FilesTurn(h, disk, i) ]
  <2>1. \A i \in 0 .. size : h[i] = g[i]
    BY Zenon
  <2>2. ASSUME NEW i \in 0 .. size
        PROVE  FilesTurn(h, disk, i) = g[i]
    <3>1. CASE i = 0
      BY <1>4, <3>1, FilesTurnCases, Zenon
    <3>2. CASE i # 0
      <4>1. i - 1 \in 0 .. size
        BY <3>2
      <4>2. g[i - 1] = h[i - 1]
        BY <2>1, <4>1, Zenon
      <4> HIDE DEF h
      <4>3. QED
        <5>1. FilesTurn(g, disk, i) = OneSlotMore(g[i - 1], disk[i])
          BY <3>2, FilesTurnCases, Zenon
        <5>2. FilesTurn(h, disk, i) = OneSlotMore(h[i - 1], disk[i])
          BY <3>2, FilesTurnCases, Zenon
        <5>3. QED
          BY <1>4, <4>2, <5>1, <5>2, Zenon
    <3>3. QED
      BY <3>1, <3>2, Zenon
  <2>3. QED
    BY <2>2, Zenon
<1>6. Loop = [ i \in 0 .. size |-> FilesTurn(Loop, disk, i) ]
  <2> HIDE DEF h
  <2>1. QED
    BY <1>5, Zenon
<1>7. Files(disk, size) = Loop[size]
  BY Zenon DEF Files, FilesTurn
<1> HIDE DEF Loop
<1>8. \A i \in 0 .. size : Loop[i] = FilesTurn(Loop, disk, i)
  BY <1>6, Zenon
<1>9. QED
  BY <1>7, <1>8, Zenon

LEMMA FilesProperties ==
  ASSUME NEW n \in Nat, NEW disk \in [ 1 .. n -> SUBSET Point ], NEW size \in 0 .. n
  PROVE  \A f \in Files(disk, size) : /\ f \in [ 1 .. size -> Point ]
                                      /\ \A i \in 1 .. size : f[i] \in disk[i]
<1>1. PICK F : /\ Files(disk, size) = F[size]
               /\ \A i \in 0 .. size : F[i] = FilesTurn(F, disk, i)
  BY FilesUnfold
<1> DEFINE Held(f, k) == f \in Seq(Point) /\ Len(f) = k /\ \A i \in 1 .. k : f[i] \in disk[i]
           T == { k \in Nat : k <= size => \A f \in F[k] : Held(f, k) }
<1>2. 0 \in T
  <2>1. F[0] = { << >> }
    <3>1. 0 \in 0 .. size
      OBVIOUS
    <3>2. QED
      BY <1>1, <3>1, FilesTurnCases, Zenon
  <2>2. Held(<< >>, 0)
    OBVIOUS
  <2> HIDE DEF Held
  <2>3. \A f \in F[0] : Held(f, 0)
    BY <2>1, <2>2, Zenon
  <2>4. QED
    BY <2>3, Zenon
<1>3. ASSUME NEW k \in Nat, k \in T
      PROVE  k + 1 \in T
  <2> SUFFICES ASSUME k + 1 <= size, NEW f \in F[k + 1]
               PROVE  Held(f, k + 1)
    OBVIOUS
  <2>1. k + 1 \in 0 .. size /\ k + 1 # 0 /\ (k + 1) - 1 = k /\ k + 1 \in 1 .. n
    OBVIOUS
  <2>2. F[k + 1] = OneSlotMore(F[k], disk[k + 1])
    <3>1. F[k + 1] = OneSlotMore(F[(k + 1) - 1], disk[k + 1])
      <4>1. F[k + 1] = FilesTurn(F, disk, k + 1)
        BY <1>1, <2>1, Zenon
      <4>2. FilesTurn(F, disk, k + 1) = OneSlotMore(F[(k + 1) - 1], disk[k + 1])
        BY <2>1, FilesTurnCases, Zenon
      <4>3. QED
        BY <4>1, <4>2, Zenon
    <3>2. QED
      BY <2>1, <3>1, Zenon
  <2>3. PICK g \in F[k], p \in disk[k + 1] : f = Append(g, p)
    BY <2>2, Zenon DEF OneSlotMore
  <2>4. Held(g, k)
    BY <1>3
  <2>5. p \in Point
    BY <2>1, <2>3, Zenon
  <2>6. f \in Seq(Point) /\ Len(f) = k + 1
    BY <2>3, <2>4, <2>5
  <2>7. ASSUME NEW i \in 1 .. k + 1
        PROVE  f[i] \in disk[i]
    <3>1. CASE i = k + 1
      BY <2>3, <2>4, <2>5, <3>1
    <3>2. CASE i # k + 1
      <4>1. i \in 1 .. k /\ f[i] = g[i]
        BY <2>3, <2>4, <2>5, <3>2
      <4>2. QED
        BY <2>4, <4>1, Zenon
    <3>3. QED
      BY <3>1, <3>2, Zenon
  <2>8. QED
    BY <2>6, <2>7, Zenon
<1>4. size \in T
  <2> HIDE DEF T
  <2>1. QED
    BY <1>2, <1>3, NatSetInduction
<1>5. QED
  BY <1>1, <1>4

-----------------------------------------------------------------------------
Copying == { "append", "move", "merge" }

(* What the copies of a write rely on, whatever the file holds. *)
CrashTypes ==
  /\ CrashTypeOK
  /\ no_flush \in BOOLEAN /\ cut_short \in BOOLEAN
  /\ step \in { "idle", "grow", "append", "move", "merge", "flush" }
  /\ handle = "open" => file_size # 0
  /\ step = "idle" => src = << >>
  /\ step # "idle" => /\ handle = "open"
                      /\ src \in Seq(Point) /\ Len(src) # 0 /\ Input(src, Len(src))
  /\ step \in Copying => count + Len(src) <= file_size
  /\ step \in { "move", "merge" } =>
       /\ begin \in 0 .. count /\ slice_count \in 0 .. count - begin
       /\ merged \in Seq(Point) /\ Len(merged) # 0
       /\ Len(merged) <= Len(src) + slice_count

LEMMA PointTime == \A p \in Point : p.time \in Nat /\ p.time <= MaxTime
BY MaxTimeAssumption DEF Point, Time

LEMMA PointsTimed ==
  ASSUME NEW n \in Nat, NEW list, \A i \in 1 .. n : list[i] \in Point
  PROVE  Timed(list, n)
BY PointTime DEF Timed

LEMMA ListIsSeq ==
  ASSUME NEW n \in Nat, NEW list \in [ 1 .. n -> Point ]
  PROVE  list \in Seq(Point) /\ Len(list) = n
OBVIOUS

(* The file g is the file f of the given size, made longer by n fillers. *)
GrownBy(g, f, size, n) ==
  /\ g \in [ 1 .. size + n -> Point ]
  /\ \A i \in 1 .. size : g[i] = f[i]
  /\ \A i \in size + 1 .. size + n : g[i] = Filler

LEMMA GrownFile ==
  ASSUME NEW size \in Nat, NEW f \in [ 1 .. size -> Point ], NEW n \in Nat
  PROVE  GrownBy(file_grow(f, size, n), f, size, n)
BY FillerType DEF file_grow, GrownBy

(* The same of the values on the disk. *)
GrownDisk(disk, size, n) ==
  [ i \in 1 .. size + n |-> IF i <= size THEN disk[i] ELSE { Filler } ]

IsDisk(disk, size) == disk \in [ 1 .. size -> SUBSET Point ]

DiskGrownBy(d, disk, size, n) ==
  /\ IsDisk(d, size + n)
  /\ \A i \in 1 .. size : d[i] = disk[i]
  /\ \A i \in size + 1 .. size + n : d[i] = { Filler }

LEMMA GrownDiskProperties ==
  ASSUME NEW size \in Nat, NEW disk, IsDisk(disk, size), NEW n \in Nat
  PROVE  DiskGrownBy(GrownDisk(disk, size, n), disk, size, n)
BY FillerType DEF GrownDisk, IsDisk, DiskGrownBy

LEMMA GrowByProperties ==
  ASSUME NEW n \in Nat
  PROVE  GrowBy(n) \in Nat /\ GrowBy(n) >= n /\ GrowBy(n) # 0
BY SeriesAssumption DEF GrowBy

(* By how much series_write or series_create grows the file. *)
LEMMA GrowingProperties ==
  ASSUME CrashTypes
  PROVE  /\ Growing \in Nat
         /\ step = "grow" => count + Len(src) <= file_size + Growing
         /\ handle = "closed" => file_size + Growing # 0
         /\ step # "grow" /\ file_size # 0 => Growing = 0
<1>1. CASE step = "grow"
  <2>1. /\ handle = "open" /\ file_size \in Nat /\ file_size # 0
        /\ points_capacity = file_size /\ count \in 0 .. file_size /\ Len(src) \in Nat
    BY <1>1 DEF CrashTypes, CrashTypeOK
  <2>2. Growing = Increment(Len(src))
    BY <1>1, <2>1, Zenon DEF Growing
  <2>3. Increment(Len(src)) = IF count + Len(src) > file_size THEN GrowBy(Len(src)) ELSE 0
    BY <2>1, Zenon DEF Increment
  <2>4. GrowBy(Len(src)) \in Nat /\ GrowBy(Len(src)) >= Len(src)
    BY <2>1, GrowByProperties, Zenon
  <2>5. QED
    BY <1>1, <2>1, <2>2, <2>3, <2>4
<1>2. CASE step # "grow" /\ file_size = 0
  <2>1. Growing = GrowBy(GrowIncrement)
    BY <1>2, Zenon DEF Growing
  <2>2. QED
    BY <1>2, <2>1, SeriesAssumption, GrowByProperties
<1>3. CASE step # "grow" /\ file_size # 0
  <2>1. Growing = 0
    BY <1>3, Zenon DEF Growing
  <2>2. file_size \in Nat
    BY Zenon DEF CrashTypes, CrashTypeOK
  <2>3. QED
    BY <1>3, <2>1, <2>2
<1>4. QED
  BY <1>1, <1>2, <1>3, Zenon

(* The offsets of a copy are inside the mapping. *)
LEMMA CopiedProperties ==
  ASSUME CrashTypes
  PROVE  /\ Copied \in [ 1 .. file_size -> Point ]
         /\ step = "append" =>
              /\ \A i \in 1 .. Len(src) : Copied[count + i] = src[i]
              /\ \A i \in 1 .. file_size :
                   i <= count \/ i > count + Len(src) => Copied[i] = file[i]
         /\ step = "move" =>
              \A i \in 1 .. file_size :
                \/ Copied[i] = file[i]
                \/ /\ i > begin + Len(merged)
                   /\ \E a \in begin + slice_count + 1 .. count : Copied[i] = file[a]
         /\ step = "merge" =>
              /\ \A i \in 1 .. Len(merged) : Copied[begin + i] = merged[i]
              /\ \A i \in 1 .. file_size :
                   i <= begin \/ i > begin + Len(merged) => Copied[i] = file[i]
         /\ step \notin Copying => Copied = file
<1>1. file_size \in Nat /\ file \in [ 1 .. file_size -> Point ]
  BY Zenon DEF CrashTypes, CrashTypeOK
<1>2. CASE step = "append"
  <2>1. Copied = Place(file, src, count, Len(src))
    BY <1>2, Zenon DEF Copied
  <2>2. /\ count \in Nat /\ Len(src) \in Nat /\ count + Len(src) <= file_size
        /\ \A i \in 1 .. Len(src) : src[i] \in Point
    BY <1>2 DEF CrashTypes, CrashTypeOK, Copying
  <2> DEFINE m == Len(src)
  <2>3. /\ Copied = Place(file, src, count, m) /\ count \in Nat /\ m \in Nat /\ count + m <= file_size
        /\ \A i \in 1 .. m : src[i] \in Point
    BY <2>1, <2>2, Zenon
  <2> HIDE DEF m
  <2>4. /\ Copied \in [ 1 .. file_size -> Point ]
        /\ \A i \in 1 .. m : Copied[count + i] = src[i]
        /\ \A i \in 1 .. file_size : i <= count \/ i > count + m => Copied[i] = file[i]
    BY <1>1, <2>3, PlaceProperties
  <2>5. QED
    BY <1>2, <2>4, Zenon DEF Copying, m
<1>3. CASE step = "move"
  <2> DEFINE end  == begin + slice_count
             list == Slice(file, end, count)
             at   == begin + Len(merged)
  <2>1. Copied = Place(file, list, at, count - end)
    BY <1>3, Zenon DEF Copied
  <2>2. /\ begin \in Nat /\ slice_count \in Nat /\ count \in Nat /\ end \in 0 .. count
        /\ Len(merged) \in Nat /\ Len(merged) <= Len(src) + slice_count
        /\ Len(src) \in Nat /\ count + Len(src) <= file_size
    BY <1>3 DEF CrashTypes, CrashTypeOK, Copying
  <2>3. at \in Nat /\ count - end \in Nat /\ at + (count - end) <= file_size
    BY <1>1, <2>2
  <2>4. \A i \in 1 .. count - end : list[i] = file[end + i] /\ end + i \in end + 1 .. count
    BY <2>2 DEF Slice
  <2>5. \A i \in 1 .. count - end : list[i] \in Point
    BY <1>1, <2>2, <2>4
  <2> HIDE DEF end, list, at
  <2>6. /\ Copied \in [ 1 .. file_size -> Point ]
        /\ \A i \in 1 .. count - end : Copied[at + i] = list[i]
        /\ \A i \in 1 .. file_size : i <= at \/ i > at + (count - end) => Copied[i] = file[i]
    BY <1>1, <2>1, <2>3, <2>5, PlaceProperties, SMTT(30)
  <2>7. ASSUME NEW i \in 1 .. file_size
        PROVE  \/ Copied[i] = file[i]
               \/ i > at /\ \E a \in end + 1 .. count : Copied[i] = file[a]
    <3>1. CASE i <= at \/ i > at + (count - end)
      BY <2>6, <3>1, Zenon
    <3>2. CASE i > at /\ i <= at + (count - end)
      <4>1. i - at \in 1 .. count - end /\ at + (i - at) = i
        BY <2>3, <3>2
      <4>2. Copied[i] = list[i - at]
        BY <2>6, <4>1, Zenon
      <4>3. QED
        BY <2>4, <3>2, <4>1, <4>2, Zenon
    <3>3. QED
      BY <2>3, <3>1, <3>2
  <2>8. QED
    BY <1>3, <2>6, <2>7, Zenon DEF end, at, Copying
<1>4. CASE step = "merge"
  <2>1. Copied = Place(file, merged, begin, Len(merged))
    BY <1>4, Zenon DEF Copied
  <2>2. /\ begin \in Nat /\ slice_count \in Nat /\ count \in Nat
        /\ begin + slice_count <= count
        /\ Len(merged) \in Nat /\ Len(merged) <= Len(src) + slice_count
        /\ Len(src) \in Nat /\ count + Len(src) <= file_size
        /\ \A i \in 1 .. Len(merged) : merged[i] \in Point
    BY <1>4, SMTT(30) DEF CrashTypes, CrashTypeOK, Copying
  <2>3. begin + Len(merged) <= file_size
    BY <1>1, <2>2
  <2> DEFINE m == Len(merged)
  <2>4. /\ Copied = Place(file, merged, begin, m) /\ begin \in Nat /\ m \in Nat /\ begin + m <= file_size
        /\ \A i \in 1 .. m : merged[i] \in Point
    BY <2>1, <2>2, <2>3, Zenon
  <2> HIDE DEF m
  <2>5. /\ Copied \in [ 1 .. file_size -> Point ]
        /\ \A i \in 1 .. m : Copied[begin + i] = merged[i]
        /\ \A i \in 1 .. file_size : i <= begin \/ i > begin + m => Copied[i] = file[i]
    BY <1>1, <2>4, PlaceProperties
  <2>6. QED
    BY <1>4, <2>5, Zenon DEF Copying, m
<1>5. CASE step \notin Copying
  <2>1. Copied = file
    BY <1>5, Zenon DEF Copied, Copying
  <2>2. QED
    BY <1>1, <1>5, <2>1, Zenon DEF Copying
<1>6. QED
  BY <1>2, <1>3, <1>4, <1>5, Zenon DEF Copying

LEMMA NextUsable ==
  ASSUME NEW t \in 1 .. MaxTime - 2
  PROVE  NextTime(t) = t + 1
BY MaxTimeAssumption DEF NextTime

LEMMA InitTypes == CrashInit => CrashTypes
<1> SUFFICES ASSUME CrashInit PROVE CrashTypes
  BY Zenon
<1>1. /\ file_size = 0 /\ file = << >> /\ held = << >> /\ synced_size = 0
      /\ handle = "closed" /\ step = "idle" /\ src = << >>
      /\ no_flush \in BOOLEAN /\ cut_short = FALSE
  BY Zenon DEF CrashInit, Init
<1>2. file \in [ 1 .. file_size -> Point ] /\ held \in [ 1 .. file_size -> SUBSET Point ]
  BY <1>1
<1>3. CrashTypeOK
  BY <1>1, <1>2 DEF CrashTypeOK
<1>4. QED
  BY <1>1, <1>3, Zenon DEF CrashTypes, Copying

LEMMA OpenTypes ==
  ASSUME CrashTypes, Open
  PROVE  CrashTypes'
<1> DEFINE size == file_size + Growing
           f    == file_grow(file, file_size, Growing)
<1>1. /\ file_size \in Nat /\ file \in [ 1 .. file_size -> Point ]
      /\ held \in [ 1 .. file_size -> SUBSET Point ]
      /\ \A i \in 1 .. file_size : file[i] \in held[i]
      /\ synced_size \in 0 .. file_size
      /\ no_flush \in BOOLEAN /\ cut_short \in BOOLEAN
      /\ step = "idle" /\ src = << >>
  BY Zenon DEF CrashTypes, CrashTypeOK, Open
<1>2. Growing \in Nat /\ size # 0
  BY GrowingProperties, Zenon DEF Open
<1>3. /\ file' = f /\ file_size' = size /\ points_capacity' = size /\ handle' = "open"
      /\ count' = Search(f, size, MaxTime - 1)
      /\ held' = GrownDisk(held, file_size, Growing)
      /\ UNCHANGED << step, src, synced_size, no_flush, cut_short >>
  BY Zenon DEF Open, GrownDisk, write_vars, history
<1>4. /\ f \in [ 1 .. size -> Point ]
      /\ \A i \in 1 .. file_size : f[i] = file[i]
      /\ \A i \in file_size + 1 .. size : f[i] = Filler
  <2>1. GrownBy(f, file, file_size, Growing)
    BY <1>1, <1>2, GrownFile, Zenon
  <2> HIDE DEF f
  <2>2. QED
    BY <2>1, Zenon DEF GrownBy
<1>5. /\ held' \in [ 1 .. size -> SUBSET Point ]
      /\ \A i \in 1 .. file_size : held'[i] = held[i]
      /\ \A i \in file_size + 1 .. size : held'[i] = { Filler }
  <2>1. file_size \in Nat /\ Growing \in Nat /\ IsDisk(held, file_size)
    BY <1>1, <1>2, Zenon DEF IsDisk
  <2>2. DiskGrownBy(held', held, file_size, Growing)
    BY <1>3, <2>1, GrownDiskProperties, Zenon
  <2>3. QED
    BY <2>2, Zenon DEF DiskGrownBy, IsDisk
<1>6. size \in Nat
  BY <1>1, <1>2
<1> HIDE DEF size, f
<1>7. count' \in 0 .. size
  <2>1. Timed(f, size) /\ MaxTime - 1 \in Int
    BY <1>4, <1>6, PointsTimed, MaxTimeAssumption
  <2>2. QED
    BY <1>3, <1>6, <2>1, SearchProperties, Zenon
<1>8. \A i \in 1 .. size : f[i] \in held'[i]
  BY <1>1, <1>4, <1>5
<1>9. synced_size \in 0 .. size
  BY <1>1, <1>2 DEF size
<1>10. CrashTypeOK'
  BY <1>3, <1>4, <1>5, <1>6, <1>7, <1>8, <1>9, Zenon DEF CrashTypeOK
<1>11. QED
  BY <1>1, <1>2, <1>3, <1>10, Zenon DEF CrashTypes, Copying

LEMMA CloseTypes ==
  ASSUME CrashTypes, Close
  PROVE  CrashTypes'
<1>1. /\ handle' = "closed" /\ step' = "idle" /\ src' = src /\ src = << >>
      /\ file' = file /\ file_size' = file_size /\ held' = held /\ synced_size' = synced_size
      /\ no_flush' = no_flush /\ cut_short' = cut_short
  BY Zenon DEF Close, series_destroy, write_vars, history, CrashTypes
<1>2. CrashTypeOK'
  BY <1>1, Zenon DEF CrashTypes, CrashTypeOK
<1>3. QED
  BY <1>1, <1>2, Zenon DEF CrashTypes, Copying

(* What users write and what of it series_prepare_input keeps. *)
LEMMA PreparedSource ==
  ASSUME UsableTimes, BeginWrite
  PROVE  \E n \in Nat, batch \in Batches :
           /\ n # 0 /\ Input(src', n) /\ Sendable(batch)
           /\ \A i \in 1 .. n : src'[i] \in batch
<1>1. PICK batch \in Batches : \E new \in PrepareInput(batch) :
         Sendable(batch) /\ new # {} /\ src' \in AscendingLists(new)
  BY Zenon DEF BeginWrite
<1>2. PICK new \in PrepareInput(batch) :
         Sendable(batch) /\ new # {} /\ src' \in AscendingLists(new)
  BY <1>1, Zenon
<1>3. PICK n \in 0 .. MaxBatch :
         src' \in [ 1 .. n -> new ] /\ Ascending(src', n) /\ Elems(src', n) = new
  BY <1>2, Zenon DEF AscendingLists
<1>4. n \in Nat /\ n # 0
  BY <1>2, <1>3 DEF Elems
<1>5. ASSUME NEW p \in new PROVE p \in batch /\ p \in Point /\ p.time \in 1 .. MaxTime - 2
  <2>1. p \in batch /\ p \in [ time : WriteTimes, value : Value ]
    BY Zenon DEF PrepareInput, Batches
  <2>2. p.time # 0
    BY Zenon DEF PrepareInput, Times
  <2>3. p.time \in 0 .. MaxTime - 2
    BY <2>1, Zenon DEF UsableTimes
  <2>4. p \in Point
    BY <2>1, SeriesAssumption, Zenon DEF Point
  <2>5. QED
    BY <2>1, <2>2, <2>3, <2>4, MaxTimeAssumption
<1>6. Input(src', n)
  BY <1>3, <1>5, Zenon DEF Input
<1>7. QED
  BY <1>2, <1>3, <1>4, <1>5, <1>6, Zenon

LEMMA BeginWriteTypes ==
  ASSUME UsableTimes, CrashTypes, BeginWrite
  PROVE  CrashTypes'
<1>1. PICK n \in Nat : n # 0 /\ Input(src', n)
  BY PreparedSource, Zenon
<1>2. src' \in Seq(Point) /\ Len(src') = n
  BY <1>1, ListIsSeq, Zenon DEF Input
<1>5. /\ handle = "open" /\ step' = "grow" /\ UNCHANGED vars
      /\ UNCHANGED << held, synced_size, no_flush, cut_short >>
  BY Zenon DEF BeginWrite, history
<1>6. CrashTypeOK'
  BY <1>5, Zenon DEF CrashTypes, CrashTypeOK, vars
<1>7. QED
  BY <1>1, <1>2, <1>5, <1>6, Zenon DEF CrashTypes, Copying, vars

(* What Grow finds out: where the overlap begins and ends. *)
LEMMA Overlap ==
  ASSUME CrashTypes, step = "grow"
  PROVE  LET from == Search(file, count, src[1].time)
             to   == Search(file, count, NextTime(src[Len(src)].time))
         IN  /\ NextTime(src[Len(src)].time) = src[Len(src)].time + 1
             /\ from \in 0 .. count /\ to \in 0 .. count /\ from <= to
             /\ Slice(file, from, to) \in Seq(Point)
             /\ Len(Slice(file, from, to)) = to - from
             /\ \A i \in 1 .. to - from : Slice(file, from, to)[i] = file[from + i]
<1> DEFINE n    == Len(src)
           from == Search(file, count, src[1].time)
           to   == Search(file, count, NextTime(src[n].time))
<1>1. /\ src \in Seq(Point) /\ n \in Nat /\ n # 0 /\ Input(src, n)
      /\ file_size \in Nat /\ file \in [ 1 .. file_size -> Point ] /\ count \in 0 .. file_size
  BY DEF CrashTypes, CrashTypeOK
<1>2. /\ src[1].time \in 1 .. MaxTime - 2 /\ src[n].time \in 1 .. MaxTime - 2
      /\ src[1].time <= src[n].time
  <2>1. 1 \in 1 .. n /\ n \in 1 .. n
    BY <1>1
  <2>2. src[1].time \in 1 .. MaxTime - 2 /\ src[n].time \in 1 .. MaxTime - 2
    BY <1>1, <2>1, Zenon DEF Input
  <2>3. 1 = n \/ src[1].time < src[n].time
    BY <1>1, <2>1 DEF Input, Ascending
  <2>4. QED
    BY <2>2, <2>3, MaxTimeAssumption
<1>3. NextTime(src[n].time) = src[n].time + 1
  BY <1>2, NextUsable, Zenon
<1>4. Timed(file, count) /\ count \in Nat
  BY <1>1, PointsTimed
<1>5. PICK lo \in Int, hi \in Int :
         lo = src[1].time /\ hi = NextTime(src[n].time) /\ lo <= hi
  BY <1>2, <1>3, MaxTimeAssumption
<1>6. from \in 0 .. count
  BY <1>4, <1>5, SearchProperties, Zenon
<1>7. to \in 0 .. count
  BY <1>4, <1>5, SearchProperties, Zenon
<1>8. from <= to
  BY <1>4, <1>5, SearchProperties, Zenon
<1> HIDE DEF n, from, to
<1>9. to - from \in Nat /\ Slice(file, from, to) \in [ 1 .. to - from -> Point ]
  BY <1>1, <1>6, <1>7, <1>8 DEF Slice
<1>10. Slice(file, from, to) \in Seq(Point) /\ Len(Slice(file, from, to)) = to - from
  BY <1>9, ListIsSeq, Zenon
<1>11. \A i \in 1 .. to - from : Slice(file, from, to)[i] = file[from + i]
  BY Zenon DEF Slice
<1>12. QED
  BY <1>3, <1>6, <1>7, <1>8, <1>10, <1>11, Zenon DEF n, from, to

LEMMA GrowTypes ==
  ASSUME CrashTypes, Grow
  PROVE  CrashTypes'
<1> DEFINE from == Search(file, count, src[1].time)
           to   == Search(file, count, NextTime(src[Len(src)].time))
           size == file_size + Growing
<1>1. /\ step = "grow" /\ handle = "open"
      /\ file_size \in Nat /\ file \in [ 1 .. file_size -> Point ]
      /\ held \in [ 1 .. file_size -> SUBSET Point ]
      /\ \A i \in 1 .. file_size : file[i] \in held[i]
      /\ synced_size \in 0 .. file_size
      /\ file_size # 0 /\ points_capacity = file_size /\ count \in 0 .. file_size
      /\ src \in Seq(Point) /\ Len(src) # 0 /\ Input(src, Len(src))
      /\ no_flush \in BOOLEAN /\ cut_short \in BOOLEAN
  BY Zenon DEF CrashTypes, CrashTypeOK, Grow
<1>2. Growing \in Nat /\ count + Len(src) <= size
  BY <1>1, GrowingProperties, Zenon
<1>3. /\ file' = file_grow(file, file_size, Growing)
      /\ file_size' = size /\ points_capacity' = points_capacity + Growing
      /\ held' = GrownDisk(held, file_size, Growing)
      /\ UNCHANGED << handle, count, src, synced_size, no_flush, cut_short >>
  BY Zenon DEF Grow, GrownDisk, history
<1>4. /\ file' \in [ 1 .. size -> Point ]
      /\ \A i \in 1 .. file_size : file'[i] = file[i]
      /\ \A i \in file_size + 1 .. size : file'[i] = Filler
  <2>1. GrownBy(file', file, file_size, Growing)
    BY <1>1, <1>2, <1>3, GrownFile, Zenon
  <2>2. QED
    BY <2>1, Zenon DEF GrownBy
<1>5. /\ held' \in [ 1 .. size -> SUBSET Point ]
      /\ \A i \in 1 .. file_size : held'[i] = held[i]
      /\ \A i \in file_size + 1 .. size : held'[i] = { Filler }
  <2>1. file_size \in Nat /\ Growing \in Nat /\ IsDisk(held, file_size)
    BY <1>1, <1>2, Zenon DEF IsDisk
  <2>2. DiskGrownBy(held', held, file_size, Growing)
    BY <1>3, <2>1, GrownDiskProperties, Zenon
  <2>3. QED
    BY <2>2, Zenon DEF DiskGrownBy, IsDisk
<1>6. size \in Nat /\ size # 0 /\ count \in 0 .. size /\ synced_size \in 0 .. size
  BY <1>1, <1>2
<1> HIDE DEF size
<1>7. \A i \in 1 .. size : file'[i] \in held'[i]
  BY <1>1, <1>4, <1>5
<1>8. points_capacity' = size
  BY <1>1, <1>3, Zenon DEF size
<1>9. CrashTypeOK'
  BY <1>1, <1>3, <1>4, <1>5, <1>6, <1>7, <1>8, Zenon DEF CrashTypeOK
<1>10. CASE step' = "append"
  BY <1>1, <1>2, <1>3, <1>6, <1>9, <1>10, Zenon DEF CrashTypes, Copying
<1>11. CASE /\ step' = "move" /\ begin' = from /\ slice_count' = to - from
            /\ merged' = MergeLists(src, Slice(file, from, to))
  <2>1. /\ from \in 0 .. count /\ to \in 0 .. count /\ from <= to
        /\ Slice(file, from, to) \in Seq(Point)
        /\ Len(Slice(file, from, to)) = to - from
    BY <1>1, Overlap, Zenon
  <2> HIDE DEF from, to
  <2>2. begin' \in 0 .. count /\ slice_count' \in 0 .. count - begin'
    BY <1>1, <1>11, <2>1
  <2>3. /\ merged' \in Seq(Point) /\ Len(merged') # 0
        /\ Len(merged') <= Len(src) + slice_count'
    <3>1. PICK slice \in Seq(Point) : slice = Slice(file, from, to)
      BY <2>1, Zenon
    <3>2. /\ merged' = MergeLists(src, slice) /\ Len(slice) = slice_count'
          /\ src \in Seq(Point) /\ Len(src) # 0
      BY <1>1, <1>11, <2>1, <3>1, Zenon
    <3>3. /\ MergeLists(src, slice) \in Seq(Point) /\ Len(MergeLists(src, slice)) # 0
          /\ Len(MergeLists(src, slice)) <= Len(src) + Len(slice)
      BY <3>1, <3>2, MergeProperties, Zenon
    <3>4. QED
      BY <3>2, <3>3, Zenon
  <2>4. QED
    BY <1>1, <1>2, <1>3, <1>6, <1>9, <1>11, <2>2, <2>3, Zenon DEF CrashTypes, Copying
<1>12. QED
  BY <1>10, <1>11, Zenon DEF Grow

(* A copy leaves the types of the file alone. *)
LEMMA CopyTypes ==
  ASSUME CrashTypes, NEW from, NEW to, from \in Copying, Copy(from, to)
  PROVE  /\ file_size \in Nat /\ file_size' = file_size
         /\ file' = Copied /\ file' \in [ 1 .. file_size -> Point ]
         /\ held' \in [ 1 .. file_size -> SUBSET Point ]
         /\ \A i \in 1 .. file_size : held'[i] = held[i] \cup { Copied[i] }
         /\ synced_size' = synced_size /\ synced_size \in 0 .. file_size
         /\ handle = "open" /\ points_capacity = file_size
         /\ count \in 0 .. file_size /\ count + Len(src) <= file_size
         /\ src \in Seq(Point) /\ Len(src) # 0 /\ Input(src, Len(src))
<1>1. /\ file_size \in Nat /\ synced_size \in 0 .. file_size
      /\ held \in [ 1 .. file_size -> SUBSET Point ]
  BY Zenon DEF CrashTypes, CrashTypeOK
<1>2. /\ step = from /\ step \in Copying /\ step # "idle"
      /\ UNCHANGED << file_size, synced_size >> /\ file' = Copied
      /\ held' = [ i \in DOMAIN held |-> held[i] \cup { file'[i] } ]
  BY Zenon DEF Copy, Copying
<1>3. /\ handle = "open" /\ src \in Seq(Point) /\ Len(src) # 0 /\ Input(src, Len(src))
      /\ count + Len(src) <= file_size
  BY <1>2, Zenon DEF CrashTypes
<1>4. points_capacity = file_size /\ count \in 0 .. file_size
  BY <1>3, Zenon DEF CrashTypes, CrashTypeOK
<1>5. Copied \in [ 1 .. file_size -> Point ]
  BY CopiedProperties, Zenon
<1>6. held' = [ i \in 1 .. file_size |-> held[i] \cup { Copied[i] } ]
  BY <1>1, <1>2, Zenon
<1>7. /\ held' \in [ 1 .. file_size -> SUBSET Point ]
      /\ \A i \in 1 .. file_size : held'[i] = held[i] \cup { Copied[i] }
  BY <1>1, <1>5, <1>6, Zenon
<1>8. QED
  BY <1>1, <1>2, <1>3, <1>4, <1>5, <1>7, Zenon

LEMMA CopiesTypes ==
  ASSUME CrashTypes, CopyNew \/ MoveTail \/ CopyMerge
  PROVE  CrashTypes'
<1>1. /\ step \in Copying
      /\ \/ step = "append" /\ Copy(step, "flush") /\ count' = count + Len(src)
         \/ step = "move" /\ Copy(step, "merge") /\ count' = count
         \/ step = "merge" /\ Copy(step, "flush") /\ count' = count + Len(merged) - slice_count
  BY Zenon DEF CopyNew, MoveTail, CopyMerge, Copy, Copying
<1>2. PICK to : Copy(step, to)
  BY <1>1, Zenon
<1>3. /\ file_size \in Nat /\ file_size' = file_size
      /\ file' = Copied /\ file' \in [ 1 .. file_size -> Point ]
      /\ held' \in [ 1 .. file_size -> SUBSET Point ]
      /\ \A i \in 1 .. file_size : held'[i] = held[i] \cup { Copied[i] }
      /\ synced_size' = synced_size /\ synced_size \in 0 .. file_size
      /\ handle = "open" /\ points_capacity = file_size
      /\ count \in 0 .. file_size /\ count + Len(src) <= file_size
      /\ src \in Seq(Point) /\ Len(src) # 0 /\ Input(src, Len(src))
  BY <1>1, <1>2, CopyTypes, Zenon
<1>4. /\ UNCHANGED << handle, points_capacity, src, begin, slice_count, merged, no_flush, cut_short >>
      /\ no_flush \in BOOLEAN /\ cut_short \in BOOLEAN /\ file_size # 0
  BY <1>2, <1>3, Zenon DEF Copy, history, CrashTypes
<1>5. count' \in 0 .. file_size
  <2>1. step = "merge" => /\ slice_count \in 0 .. count - begin /\ begin \in 0 .. count
                          /\ Len(merged) \in Nat /\ Len(merged) <= Len(src) + slice_count
    BY DEF CrashTypes
  <2>2. Len(src) \in Nat
    BY <1>3
  <2>3. QED
    BY <1>1, <1>3, <2>1, <2>2, SMTT(30)
<1>6. CrashTypeOK'
  BY <1>3, <1>4, <1>5, Zenon DEF CrashTypeOK
<1>7. CASE step = "move"
  <2>1. step' = "merge" /\ count' = count
    BY <1>1, <1>7, Zenon DEF Copy
  <2>2. /\ begin \in 0 .. count /\ slice_count \in 0 .. count - begin
        /\ merged \in Seq(Point) /\ Len(merged) # 0
        /\ Len(merged) <= Len(src) + slice_count
    BY <1>7, Zenon DEF CrashTypes
  <2>3. QED
    BY <1>3, <1>4, <1>6, <2>1, <2>2, Zenon DEF CrashTypes, Copying
<1>8. CASE step # "move"
  <2>1. step' = "flush"
    BY <1>1, <1>8, Zenon DEF Copy
  <2>2. QED
    BY <1>3, <1>4, <1>6, <2>1, Zenon DEF CrashTypes, Copying
<1>9. QED
  BY <1>7, <1>8, Zenon

LEMMA EndWriteTypes ==
  ASSUME CrashTypes, EndWrite
  PROVE  CrashTypes'
<1>1. /\ file_size \in Nat /\ file \in [ 1 .. file_size -> Point ]
      /\ held \in [ 1 .. file_size -> SUBSET Point ]
      /\ \A i \in 1 .. file_size : file[i] \in held[i]
      /\ synced_size \in 0 .. file_size
      /\ handle = "open" /\ points_capacity = file_size /\ count \in 0 .. file_size
      /\ file_size # 0 /\ no_flush \in BOOLEAN /\ cut_short \in BOOLEAN
  BY Zenon DEF CrashTypes, CrashTypeOK, EndWrite
<1>2. /\ UNCHANGED << file, file_size, handle, points_capacity, count, no_flush, cut_short >>
      /\ step' = "idle" /\ src' = << >>
  BY Zenon DEF EndWrite, NoWrite
<1>3. /\ held' \in [ 1 .. file_size -> SUBSET Point ]
      /\ \A i \in 1 .. file_size : file[i] \in held'[i]
      /\ synced_size' \in 0 .. file_size
  <2>1. CASE UNCHANGED << held, synced_size >>
    BY <1>1, <2>1, Zenon
  <2>2. CASE file_map_sync
    BY <1>1, <2>2 DEF file_map_sync
  <2>3. QED
    BY <2>1, <2>2, Zenon DEF EndWrite
<1>4. CrashTypeOK'
  BY <1>1, <1>2, <1>3, Zenon DEF CrashTypeOK
<1>5. QED
  BY <1>1, <1>2, <1>4, Zenon DEF CrashTypes, Copying

(* What Die does to the types: the process is gone. *)
LEMMA DieTypes ==
  ASSUME CrashTypes, Die, file_size' \in Nat, file' \in [ 1 .. file_size' -> Point ],
         held' \in [ 1 .. file_size' -> SUBSET Point ],
         \A i \in 1 .. file_size' : file'[i] \in held'[i],
         synced_size' \in 0 .. file_size'
  PROVE  CrashTypes'
<1>1. /\ handle' = "closed" /\ step' = "idle" /\ src' = << >>
      /\ no_flush' = no_flush /\ no_flush \in BOOLEAN /\ cut_short' \in BOOLEAN
  BY Zenon DEF Die, NoWrite, CrashTypes
<1>2. CrashTypeOK'
  BY <1>1, Zenon DEF CrashTypeOK
<1>3. QED
  BY <1>1, <1>2, Zenon DEF CrashTypes, Copying

(* What a killed process leaves in the page cache and on the disk. *)
LEMMA ProcessCrashLeaves ==
  ASSUME CrashTypes, ProcessCrash
  PROVE  \E more \in 0 .. Growing :
           /\ file_size' = file_size + more
           /\ file' \in [ 1 .. file_size + more -> Point ]
           /\ held' \in [ 1 .. file_size + more -> SUBSET Point ]
           /\ \A i \in 1 .. file_size : /\ file'[i] \in { file[i], Copied[i] }
                                        /\ held'[i] = held[i] \cup { file'[i] }
           /\ \A i \in file_size + 1 .. file_size + more :
                file'[i] = Filler /\ held'[i] = { Filler }
<1>1. /\ file_size \in Nat /\ file \in [ 1 .. file_size -> Point ]
      /\ held \in [ 1 .. file_size -> SUBSET Point ]
  BY Zenon DEF CrashTypes, CrashTypeOK
<1>2. Growing \in Nat /\ Copied \in [ 1 .. file_size -> Point ]
  BY GrowingProperties, CopiedProperties, Zenon
<1>3. PICK more \in 0 .. Growing, done \in SUBSET { i \in 1 .. file_size : Copied[i] # file[i] } :
        /\ file' = [ i \in 1 .. file_size + more |->
                       IF i > file_size THEN Filler
                       ELSE IF i \in done THEN Copied[i] ELSE file[i] ]
        /\ held' = [ i \in 1 .. file_size + more |->
                       IF i > file_size THEN { Filler } ELSE held[i] \cup { file'[i] } ]
        /\ file_size' = file_size + more
  BY Zenon DEF ProcessCrash
<1>4. \A i \in 1 .. file_size : i \in 1 .. file_size + more /\ ~ (i > file_size)
  BY <1>1, <1>2
<1>5. \A i \in file_size + 1 .. file_size + more : i \in 1 .. file_size + more /\ i > file_size
  BY <1>1, <1>2
<1>6. \A i \in 1 .. file_size + more : ~ (i > file_size) => i \in 1 .. file_size
  BY <1>1, <1>2
<1>7. file' \in [ 1 .. file_size + more -> Point ]
  BY <1>1, <1>2, <1>3, <1>6, FillerType, Zenon
<1>8. \A i \in 1 .. file_size : file'[i] \in { file[i], Copied[i] }
  BY <1>3, <1>4, Zenon
<1>9. \A i \in file_size + 1 .. file_size + more : file'[i] = Filler
  BY <1>3, <1>5, Zenon
<1>10. held' \in [ 1 .. file_size + more -> SUBSET Point ]
  <2>1. ASSUME NEW i \in 1 .. file_size + more
        PROVE  (IF i > file_size THEN { Filler } ELSE held[i] \cup { file'[i] }) \in SUBSET Point
    <3>1. file'[i] \in Point
      BY <1>7, Zenon
    <3>2. ~ (i > file_size) => held[i] \in SUBSET Point
      BY <1>1, <1>6, Zenon
    <3>3. QED
      BY <3>1, <3>2, FillerType, Zenon
  <2>2. QED
    BY <1>3, <2>1, Zenon
<1>11. \A i \in 1 .. file_size : held'[i] = held[i] \cup { file'[i] }
  BY <1>3, <1>4, Zenon
<1>12. \A i \in file_size + 1 .. file_size + more : held'[i] = { Filler }
  BY <1>3, <1>5, Zenon
<1>13. QED
  BY <1>3, <1>7, <1>8, <1>9, <1>10, <1>11, <1>12, Zenon

LEMMA ProcessCrashTypes ==
  ASSUME CrashTypes, ProcessCrash
  PROVE  CrashTypes'
<1>1. PICK more \in 0 .. Growing :
        /\ file_size' = file_size + more
        /\ file' \in [ 1 .. file_size + more -> Point ]
        /\ held' \in [ 1 .. file_size + more -> SUBSET Point ]
        /\ \A i \in 1 .. file_size : /\ file'[i] \in { file[i], Copied[i] }
                                     /\ held'[i] = held[i] \cup { file'[i] }
        /\ \A i \in file_size + 1 .. file_size + more :
             file'[i] = Filler /\ held'[i] = { Filler }
  BY ProcessCrashLeaves, Zenon
<1>2. file_size \in Nat /\ more \in Nat /\ synced_size \in 0 .. file_size
  BY <1>1, GrowingProperties DEF CrashTypes, CrashTypeOK
<1>3. ASSUME NEW i \in 1 .. file_size + more
      PROVE  file'[i] \in held'[i]
  <2>1. CASE i \in 1 .. file_size
    BY <1>1, <2>1, Zenon
  <2>2. CASE i \in file_size + 1 .. file_size + more
    BY <1>1, <2>2, Zenon
  <2>3. QED
    BY <1>2, <2>1, <2>2
<1>4. file_size' \in Nat /\ synced_size' \in 0 .. file_size'
  BY <1>1, <1>2 DEF ProcessCrash
<1>5. \A i \in 1 .. file_size' : file'[i] \in held'[i]
  BY <1>1, <1>3, Zenon
<1>6. file' \in [ 1 .. file_size' -> Point ] /\ held' \in [ 1 .. file_size' -> SUBSET Point ]
  BY <1>1, Zenon
<1>7. Die
  BY Zenon DEF ProcessCrash
<1>8. QED
  BY <1>4, <1>5, <1>6, <1>7, DieTypes, Zenon

(* What is on the disk after the machine died. *)
LEMMA PowerFailureLeaves ==
  ASSUME CrashTypes, PowerFailure
  PROVE  \E size \in synced_size .. file_size + Growing :
           /\ file_size' = size /\ synced_size' = size
           /\ file' \in [ 1 .. size -> Point ]
           /\ held' = [ i \in 1 .. size |-> { file'[i] } ]
           /\ \A i \in 1 .. size : \/ i <= file_size /\ file'[i] \in held[i] \cup { Copied[i] }
                                   \/ i > file_size /\ file'[i] = Filler
<1> DEFINE n    == file_size + Growing
           disk == [ i \in 1 .. n |->
                       IF i > file_size THEN { Filler } ELSE held[i] \cup { Copied[i] } ]
<1>1. /\ file_size \in Nat /\ held \in [ 1 .. file_size -> SUBSET Point ]
      /\ synced_size \in 0 .. file_size
  BY Zenon DEF CrashTypes, CrashTypeOK
<1>2. Growing \in Nat /\ Copied \in [ 1 .. file_size -> Point ]
  BY GrowingProperties, CopiedProperties, Zenon
<1>3. PICK size \in synced_size .. n :
        /\ file' \in Files(disk, size)
        /\ held' = [ i \in 1 .. size |-> { file'[i] } ]
        /\ file_size' = size /\ synced_size' = size
  BY Zenon DEF PowerFailure
<1>4. n \in Nat /\ size \in 0 .. n
  BY <1>1, <1>2
<1>5. \A i \in 1 .. n : ~ (i > file_size) => i \in 1 .. file_size
  BY <1>1, <1>2
<1>6. disk \in [ 1 .. n -> SUBSET Point ]
  <2>1. ASSUME NEW i \in 1 .. n
        PROVE  (IF i > file_size THEN { Filler } ELSE held[i] \cup { Copied[i] }) \in SUBSET Point
    <3>1. ~ (i > file_size) => held[i] \in SUBSET Point /\ Copied[i] \in Point
      BY <1>1, <1>2, <1>5, Zenon
    <3>2. QED
      BY <3>1, FillerType, Zenon
  <2>2. QED
    BY <2>1, Zenon
<1>7. \A i \in 1 .. n : disk[i] = IF i > file_size THEN { Filler } ELSE held[i] \cup { Copied[i] }
  BY Zenon
<1> HIDE DEF n, disk
<1>8. file' \in [ 1 .. size -> Point ] /\ \A i \in 1 .. size : file'[i] \in disk[i]
  BY <1>3, <1>4, <1>6, FilesProperties, Zenon
<1>9. ASSUME NEW i \in 1 .. size
      PROVE  \/ i <= file_size /\ file'[i] \in held[i] \cup { Copied[i] }
             \/ i > file_size /\ file'[i] = Filler
  <2>1. i \in 1 .. n
    BY <1>4
  <2>2. CASE i > file_size
    BY <1>7, <1>8, <2>1, <2>2, Zenon
  <2>3. CASE ~ (i > file_size)
    <3>1. i <= file_size
      BY <1>1, <2>3
    <3>2. QED
      BY <1>7, <1>8, <2>1, <2>3, <3>1, Zenon
  <2>4. QED
    BY <2>2, <2>3, Zenon
<1>10. QED
  BY <1>3, <1>8, <1>9, Zenon DEF n

LEMMA PowerFailureTypes ==
  ASSUME CrashTypes, PowerFailure
  PROVE  CrashTypes'
<1>1. PICK size \in synced_size .. file_size + Growing :
        /\ file_size' = size /\ synced_size' = size
        /\ file' \in [ 1 .. size -> Point ]
        /\ held' = [ i \in 1 .. size |-> { file'[i] } ]
  BY PowerFailureLeaves, Zenon
<1>2. size \in Nat
  BY <1>1, GrowingProperties DEF CrashTypes, CrashTypeOK
<1>3. held' \in [ 1 .. size -> SUBSET Point ] /\ \A i \in 1 .. size : file'[i] \in held'[i]
  BY <1>1, Zenon
<1>4. file_size' \in Nat /\ synced_size' \in 0 .. file_size'
  BY <1>1, <1>2
<1>5. \A i \in 1 .. file_size' : file'[i] \in held'[i]
  BY <1>1, <1>3, Zenon
<1>6. file' \in [ 1 .. file_size' -> Point ] /\ held' \in [ 1 .. file_size' -> SUBSET Point ]
  BY <1>1, <1>3, Zenon
<1>7. Die
  BY Zenon DEF PowerFailure
<1>8. QED
  BY <1>4, <1>5, <1>6, <1>7, DieTypes, Zenon

LEMMA NextTypes ==
  ASSUME UsableTimes, CrashTypes, [CrashNext]_crash_vars
  PROVE  CrashTypes'
<1>1. CASE Open
  BY <1>1, OpenTypes, Zenon
<1>2. CASE Close
  BY <1>2, CloseTypes, Zenon
<1>3. CASE BeginWrite
  BY <1>3, BeginWriteTypes, Zenon
<1>4. CASE Grow
  BY <1>4, GrowTypes, Zenon
<1>5. CASE CopyNew \/ MoveTail \/ CopyMerge
  BY <1>5, CopiesTypes, Zenon
<1>6. CASE EndWrite
  BY <1>6, EndWriteTypes, Zenon
<1>7. CASE ProcessCrash
  BY <1>7, ProcessCrashTypes, Zenon
<1>8. CASE PowerFailure
  BY <1>8, PowerFailureTypes, Zenon
<1>9. CASE UNCHANGED crash_vars
  BY <1>9, Zenon DEF CrashTypes, CrashTypeOK, crash_vars, vars, write_vars, history
<1>10. QED
  BY <1>1, <1>2, <1>3, <1>4, <1>5, <1>6, <1>7, <1>8, <1>9, Zenon DEF CrashNext

(* No growth, move or copy of series_write leaves the mapping, in a file   *)
(* that any number of crashes may have left in any order, and series_create *)
(* finds a count that fits into whatever file it maps (series.c:54-58,     *)
(* 78-144).                                                                *)
THEOREM CrashCopiesFit ==
  ASSUME UsableTimes
  PROVE  CrashSpec => []CrashTypeOK
<1>1. CrashInit => CrashTypes
  BY InitTypes, Zenon
<1>2. CrashTypes /\ [CrashNext]_crash_vars => CrashTypes'
  BY NextTypes, Zenon
<1>3. CrashTypes => CrashTypeOK
  BY Zenon DEF CrashTypes
<1>4. QED
  BY <1>1, <1>2, <1>3, PTL DEF CrashSpec

-----------------------------------------------------------------------------
(* The first k slots of the file hold the safe points, the last of which   *)
(* has the time b; b is -2 when there are none.                            *)
(*                                                                         *)
(* The point q can stand in slot i behind them: only the first slot there  *)
(* may hold the time b + 1, or a search for that time, which the read of b *)
(* makes, could end behind it.                                             *)
Behind(q, i, k, b) == q.time > b /\ (i > k + 1 => q.time > b + 1)

Kept(k, b) ==
  /\ k \in 0 .. file_size
  /\ Ascending(file, k)
  /\ \A i \in 1 .. k : file[i].time \in 1 .. MaxTime - 2 /\ file[i].time <= b
  /\ safe = Elems(file, k)
  /\ b \in Times(safe) \cup { -2 }
  /\ \A i \in k + 1 .. file_size : Behind(file[i], i, k, b)
  /\ handle = "open" => k <= count

(* So it is on the disk, for all the values a slot may have there. *)
KeptOnDisk(k, b) ==
  /\ k <= synced_size
  /\ \A i \in 1 .. k : held[i] = { file[i] }
  /\ \A i \in k + 1 .. file_size : \A q \in held[i] : Behind(q, i, k, b)

(* What a write is about to copy goes behind the safe points. *)
WriteBehind(k, b) ==
  /\ safe \subseteq acked
  /\ \A i \in 1 .. Len(src), p \in acked : src[i].time > p.time
  /\ step = "append" => \A i \in 1 .. Len(src) : Behind(src[i], count + i, k, b)
  /\ step \in { "move", "merge" } =>
       /\ k <= begin
       /\ \A i \in 1 .. Len(merged) : Behind(merged[i], begin + i, k, b)
  /\ step = "move" =>
       \A i \in begin + slice_count + 1 .. count : file[i].time > b + 1

(* Before a copy was interrupted, all that is acknowledged is safe, and the *)
(* file is in the order Series keeps it in.                                 *)
Unharmed(k) ==
  /\ acked = safe
  /\ step \notin { "move", "merge" }
  /\ step # "flush" => /\ Shape(file, file_size, k)
                       /\ handle = "open" => count = k
                       /\ ~ no_flush => \A i \in k + 1 .. file_size :
                                          \A q \in held[i] : q.time = MaxTime
  /\ step = "flush" => /\ Shape(file, file_size, count)
                       /\ Elems(file, count) = Overwrite(safe, Elems(src, Len(src)))

SafeAt(k, b) ==
  /\ Kept(k, b)
  /\ ~ no_flush => KeptOnDisk(k, b)
  /\ WriteBehind(k, b)
  /\ ~ cut_short => Unharmed(k)

CrashInv == CrashTypes /\ \E k \in Nat, b \in Int : SafeAt(k, b)

LEMMA SameElems ==
  ASSUME NEW k \in Nat, NEW f, NEW g, \A i \in 1 .. k : f[i] = g[i]
  PROVE  Elems(f, k) = Elems(g, k) /\ (Ascending(f, k) => Ascending(g, k))
BY Zenon DEF Elems, Ascending

(* The bound b, and the times behind it. *)
LEMMA BoundProperties ==
  ASSUME NEW k \in Nat, NEW b \in Int, Kept(k, b)
  PROVE  /\ b <= MaxTime - 2
         /\ \A i \in Int : Behind(Filler, i, k, b)
         /\ \A t \in Nat : (\A p \in safe : t > p.time) => t > b
<1>1. b = -2 \/ \E p \in safe : b = p.time
  BY Zenon DEF Kept, Times
<1>2. safe = Elems(file, k) /\ \A i \in 1 .. k : file[i].time \in 1 .. MaxTime - 2
  BY Zenon DEF Kept
<1>3. b = -2 \/ b \in 1 .. MaxTime - 2
  BY <1>1, <1>2, Zenon DEF Elems
<1>4. b <= MaxTime - 2
  BY <1>3, MaxTimeAssumption
<1>5. \A i \in Int : Behind(Filler, i, k, b)
  BY <1>4, FillerType, MaxTimeAssumption DEF Behind
<1>6. ASSUME NEW t \in Nat, \A p \in safe : t > p.time
      PROVE  t > b
  BY <1>1, <1>6
<1>7. QED
  BY <1>4, <1>5, <1>6, Zenon

(* What a step may do to the file and leave the safe points kept. *)
LEMMA KeptStays ==
  ASSUME NEW k \in Nat, NEW b \in Int, Kept(k, b),
         file_size' \in Nat, k <= file_size', safe' = safe,
         \A i \in 1 .. k : file'[i] = file[i],
         \A i \in k + 1 .. file_size' : Behind(file'[i], i, k, b),
         handle' = "open" => k <= count'
  PROVE  Kept(k, b)'
<1>1. /\ Ascending(file, k) /\ safe = Elems(file, k) /\ b \in Times(safe) \cup { -2 }
      /\ \A i \in 1 .. k : file[i].time \in 1 .. MaxTime - 2 /\ file[i].time <= b
  BY Zenon DEF Kept
<1>2. PICK f : f = file'
  BY Zenon
<1>3. \A i \in 1 .. k : f[i] = file[i]
  BY <1>2, Zenon
<1>4. Ascending(f, k) /\ Elems(f, k) = Elems(file, k)
  BY <1>1, <1>3, SameElems, Zenon
<1>5. Ascending(file, k)' /\ Elems(file, k)' = safe'
  BY <1>1, <1>2, <1>4, Zenon
<1>6. \A i \in 1 .. k : file'[i].time \in 1 .. MaxTime - 2 /\ file'[i].time <= b
  BY <1>1, Zenon
<1>7. Times(safe)' = Times(safe)
  BY Zenon DEF Times
<1>8. k \in 0 .. file_size'
  OBVIOUS
<1>9. (\A i \in k + 1 .. file_size : Behind(file[i], i, k, b))'
  BY Zenon DEF Behind
<1>10. QED
  BY <1>1, <1>5, <1>6, <1>7, <1>8, <1>9, Zenon DEF Kept

(* A write in progress has the time of no acknowledged point. *)
LEMMA NothingOverwritten ==
  ASSUME CrashTypes, NEW k, NEW b, WriteBehind(k, b)
  PROVE  LET batch == Elems(src, Len(src))
         IN  /\ Except(safe, batch) = safe /\ Except(acked, batch) = acked
             /\ safe \subseteq Overwrite(acked, batch)
<1> DEFINE batch == Elems(src, Len(src))
<1>1. \A i \in 1 .. Len(src) : src[i].time \in Int
  <2>1. CASE step = "idle"
    BY <2>1 DEF CrashTypes
  <2>2. CASE step # "idle"
    BY <2>2, PointTime DEF CrashTypes
  <2>3. QED
    BY <2>1, <2>2, Zenon
<1>2. \A i \in 1 .. Len(src), p \in acked : src[i].time > p.time
  BY Zenon DEF WriteBehind
<1>3. ASSUME NEW p \in acked
      PROVE  p.time \notin Times(batch)
  <2>1. SUFFICES ASSUME NEW i \in 1 .. Len(src), src[i].time = p.time PROVE FALSE
    BY Zenon DEF Times, Elems
  <2>2. src[i].time > src[i].time /\ src[i].time \in Int
    BY <1>1, <1>2, <2>1, Zenon
  <2>3. QED
    BY <2>2
<1> HIDE DEF batch
<1>4. safe \subseteq acked
  BY Zenon DEF WriteBehind
<1>5. Except(safe, batch) = safe /\ Except(acked, batch) = acked
  BY <1>3, <1>4, Zenon DEF Except
<1>6. safe \subseteq Overwrite(acked, batch)
  BY <1>3, <1>4, Zenon DEF Overwrite
<1>7. QED
  BY <1>5, <1>6, Zenon DEF batch

(* The copy a write is in changes no safe point. *)
LEMMA CopiedKeeps ==
  ASSUME CrashTypes, NEW k \in Nat, NEW b \in Int, SafeAt(k, b)
  PROVE  /\ \A i \in 1 .. k : Copied[i] = file[i]
         /\ \A i \in k + 1 .. file_size : Behind(Copied[i], i, k, b)
<1>1. /\ k \in 0 .. file_size /\ file_size \in Nat
      /\ \A i \in k + 1 .. file_size : Behind(file[i], i, k, b)
  BY Zenon DEF SafeAt, Kept, CrashTypes, CrashTypeOK
<1>2. CASE step = "append"
  <2>1. /\ \A i \in 1 .. Len(src) : Copied[count + i] = src[i]
        /\ \A i \in 1 .. file_size : i <= count \/ i > count + Len(src) => Copied[i] = file[i]
    BY <1>2, CopiedProperties, Zenon
  <2>2. count \in Nat /\ k <= count /\ Len(src) \in Nat
    BY <1>2 DEF CrashTypes, CrashTypeOK, SafeAt, Kept
  <2>3. \A i \in 1 .. Len(src) : Behind(src[i], count + i, k, b)
    BY <1>2, Zenon DEF SafeAt, WriteBehind
  <2>4. \A i \in 1 .. k : Copied[i] = file[i]
    BY <1>1, <2>1, <2>2
  <2>5. ASSUME NEW i \in k + 1 .. file_size
        PROVE  Behind(Copied[i], i, k, b)
    <3>1. CASE i <= count \/ i > count + Len(src)
      BY <1>1, <2>1, <3>1
    <3>2. CASE i > count /\ i <= count + Len(src)
      <4>1. i - count \in 1 .. Len(src) /\ count + (i - count) = i
        BY <1>1, <2>2, <3>2
      <4>2. QED
        BY <2>1, <2>3, <4>1, Zenon
    <3>3. QED
      BY <1>1, <2>2, <3>1, <3>2
  <2>6. QED
    BY <2>4, <2>5, Zenon
<1>3. CASE step = "move"
  <2>1. \A i \in 1 .. file_size :
          \/ Copied[i] = file[i]
          \/ /\ i > begin + Len(merged)
             /\ \E a \in begin + slice_count + 1 .. count : Copied[i] = file[a]
    BY <1>3, CopiedProperties, Zenon
  <2>2. k <= begin /\ \A a \in begin + slice_count + 1 .. count : file[a].time > b + 1
    BY <1>3, Zenon DEF SafeAt, WriteBehind
  <2>3. begin \in Nat /\ Len(merged) \in Nat /\ Len(merged) # 0
    BY <1>3 DEF CrashTypes, CrashTypeOK
  <2>4. \A i \in 1 .. k : Copied[i] = file[i]
    BY <1>1, <2>1, <2>2, <2>3
  <2>5. ASSUME NEW i \in k + 1 .. file_size
        PROVE  Behind(Copied[i], i, k, b)
    <3>1. CASE Copied[i] = file[i]
      BY <1>1, <3>1, Zenon
    <3>2. CASE \E a \in begin + slice_count + 1 .. count : Copied[i] = file[a]
      <4>1. PICK a \in begin + slice_count + 1 .. count : Copied[i] = file[a]
        BY <3>2, Zenon
      <4>2. a \in 1 .. file_size
        BY <1>3, <1>1, <2>3, <4>1, SMTT(30) DEF CrashTypes, CrashTypeOK
      <4>3. file[a].time \in Int /\ file[a].time > b + 1
        BY <2>2, <4>1, <4>2, PointTime DEF CrashTypes, CrashTypeOK
      <4>4. QED
        BY <4>1, <4>3 DEF Behind
    <3>3. QED
      BY <1>1, <2>1, <3>1, <3>2
  <2>6. QED
    BY <2>4, <2>5, Zenon
<1>4. CASE step = "merge"
  <2>1. /\ \A i \in 1 .. Len(merged) : Copied[begin + i] = merged[i]
        /\ \A i \in 1 .. file_size : i <= begin \/ i > begin + Len(merged) => Copied[i] = file[i]
    BY <1>4, CopiedProperties, Zenon
  <2>2. k <= begin /\ \A i \in 1 .. Len(merged) : Behind(merged[i], begin + i, k, b)
    BY <1>4, Zenon DEF SafeAt, WriteBehind
  <2>3. begin \in Nat /\ Len(merged) \in Nat
    BY <1>4 DEF CrashTypes, CrashTypeOK
  <2>4. \A i \in 1 .. k : Copied[i] = file[i]
    BY <1>1, <2>1, <2>2, <2>3
  <2>5. ASSUME NEW i \in k + 1 .. file_size
        PROVE  Behind(Copied[i], i, k, b)
    <3>1. CASE i <= begin \/ i > begin + Len(merged)
      BY <1>1, <2>1, <3>1
    <3>2. CASE i > begin /\ i <= begin + Len(merged)
      <4>1. i - begin \in 1 .. Len(merged) /\ begin + (i - begin) = i
        BY <1>1, <2>3, <3>2
      <4>2. QED
        BY <2>1, <2>2, <4>1, Zenon
    <3>3. QED
      BY <1>1, <2>3, <3>1, <3>2
  <2>6. QED
    BY <2>4, <2>5, Zenon
<1>5. CASE step \notin Copying
  <2>1. Copied = file
    BY <1>5, CopiedProperties, Zenon
  <2>2. QED
    BY <1>1, <2>1, Zenon
<1>6. QED
  BY <1>2, <1>3, <1>4, <1>5, Zenon DEF Copying

LEMMA InitSafe == CrashInit => SafeAt(0, -2)
<1> SUFFICES ASSUME CrashInit PROVE SafeAt(0, -2)
  BY Zenon
<1>1. /\ file_size = 0 /\ file = << >> /\ handle = "closed" /\ synced_size = 0
      /\ step = "idle" /\ src = << >> /\ safe = {} /\ acked = {} /\ cut_short = FALSE
  BY Zenon DEF CrashInit, Init
<1>2. Kept(0, -2)
  BY <1>1 DEF Kept, Ascending, Elems
<1>3. KeptOnDisk(0, -2)
  BY <1>1 DEF KeptOnDisk
<1>4. WriteBehind(0, -2)
  BY <1>1, Zenon DEF WriteBehind
<1>5. Unharmed(0)
  BY <1>1, EmptyShape DEF Unharmed
<1>6. QED
  BY <1>2, <1>3, <1>4, <1>5, Zenon DEF SafeAt

(* The file was grown: what the four parts say of it still holds. *)
LEMMA GrownKeeps ==
  ASSUME CrashTypes, NEW k \in Nat, NEW b \in Int, SafeAt(k, b),
         NEW n \in Nat, file_size' = file_size + n, safe' = safe,
         file' = file_grow(file, file_size, n), held' = GrownDisk(held, file_size, n),
         synced_size' = synced_size, handle' = "open" => k <= count'
  PROVE  Kept(k, b)' /\ (~ no_flush => KeptOnDisk(k, b)')
<1>1. /\ file_size \in Nat /\ file \in [ 1 .. file_size -> Point ]
      /\ k <= file_size /\ Kept(k, b) /\ IsDisk(held, file_size)
      /\ \A i \in k + 1 .. file_size : Behind(file[i], i, k, b)
  BY DEF SafeAt, Kept, CrashTypes, CrashTypeOK, IsDisk
<1>2. PICK f : f = file_grow(file, file_size, n)
  BY Zenon
<1>3. /\ \A i \in 1 .. file_size : f[i] = file[i]
      /\ \A i \in file_size + 1 .. file_size + n : f[i] = Filler
  <2>1. GrownBy(f, file, file_size, n)
    BY <1>1, <1>2, GrownFile, Zenon
  <2>2. QED
    BY <2>1, Zenon DEF GrownBy
<1>4. PICK disk : disk = GrownDisk(held, file_size, n)
  BY Zenon
<1>5. /\ \A i \in 1 .. file_size : disk[i] = held[i]
      /\ \A i \in file_size + 1 .. file_size + n : disk[i] = { Filler }
  <2>1. DiskGrownBy(disk, held, file_size, n)
    BY <1>1, <1>4, GrownDiskProperties, Zenon
  <2>2. QED
    BY <2>1, Zenon DEF DiskGrownBy
<1>6. \A i \in Int : Behind(Filler, i, k, b)
  BY <1>1, BoundProperties, Zenon
<1>7. file' = f /\ held' = disk
  BY <1>2, <1>4, Zenon
<1>8. ASSUME NEW i \in k + 1 .. file_size + n
      PROVE  /\ Behind(f[i], i, k, b)
             /\ i \in k + 1 .. file_size \/ disk[i] = { Filler }
             /\ i \in Int
  <2>1. CASE i <= file_size
    BY <1>1, <1>3, <2>1
  <2>2. CASE i > file_size
    BY <1>1, <1>3, <1>5, <1>6, <2>2
  <2>3. QED
    BY <1>1, <2>1, <2>2
<1>9. \A i \in 1 .. k : file'[i] = file[i]
  BY <1>1, <1>3, <1>7
<1>10. \A i \in k + 1 .. file_size' : Behind(file'[i], i, k, b)
  BY <1>7, <1>8, Zenon
<1>11. file_size' \in Nat /\ k <= file_size'
  BY <1>1
<1>12. Kept(k, b)'
  BY <1>1, <1>9, <1>10, <1>11, KeptStays, Zenon
<1>13. ASSUME ~ no_flush
       PROVE  KeptOnDisk(k, b)'
  <2>1. /\ k <= synced_size
        /\ \A i \in 1 .. k : held[i] = { file[i] }
        /\ \A i \in k + 1 .. file_size : \A q \in held[i] : Behind(q, i, k, b)
    BY <1>13, Zenon DEF SafeAt, KeptOnDisk
  <2>2. \A i \in 1 .. k : held'[i] = { file'[i] }
    BY <1>1, <1>5, <1>7, <1>9, <2>1
  <2>3. ASSUME NEW i \in k + 1 .. file_size + n, NEW q \in disk[i]
        PROVE  Behind(q, i, k, b)
    <3>1. CASE i \in k + 1 .. file_size
      BY <1>1, <1>5, <2>1, <2>3, <3>1
    <3>2. CASE disk[i] = { Filler }
      BY <1>6, <1>8, <2>3, <3>2, Zenon
    <3>3. QED
      BY <1>8, <3>1, <3>2, Zenon
  <2>4. (\A i \in k + 1 .. file_size : \A q \in held[i] : Behind(q, i, k, b))'
    BY <1>7, <2>3, Zenon DEF Behind
  <2>5. QED
    BY <2>1, <2>2, <2>4, Zenon DEF KeptOnDisk
<1>14. QED
  BY <1>12, <1>13, Zenon

(* So does the order of the file, before any copy was interrupted. *)
LEMMA GrownUnharmed ==
  ASSUME CrashTypes, NEW k \in Nat, Unharmed(k), step # "flush",
         NEW n \in Nat, file_size' = file_size + n,
         file' = file_grow(file, file_size, n), held' = GrownDisk(held, file_size, n)
  PROVE  /\ Shape(file', file_size', k)
         /\ ~ no_flush => \A i \in k + 1 .. file_size' : \A q \in held'[i] : q.time = MaxTime
<1>1. /\ file_size \in Nat /\ Shape(file, file_size, k) /\ IsDisk(held, file_size)
      /\ ~ no_flush => \A i \in k + 1 .. file_size : \A q \in held[i] : q.time = MaxTime
  BY Zenon DEF Unharmed, CrashTypes, CrashTypeOK, IsDisk
<1>2. Shape(file_grow(file, file_size, n), file_size + n, k)
  BY <1>1, GrowShape, Zenon
<1>3. PICK disk : disk = GrownDisk(held, file_size, n)
  BY Zenon
<1>4. /\ \A i \in 1 .. file_size : disk[i] = held[i]
      /\ \A i \in file_size + 1 .. file_size + n : disk[i] = { Filler }
  <2>1. DiskGrownBy(disk, held, file_size, n)
    BY <1>1, <1>3, GrownDiskProperties, Zenon
  <2>2. QED
    BY <2>1, Zenon DEF DiskGrownBy
<1>5. ASSUME ~ no_flush, NEW i \in k + 1 .. file_size + n, NEW q \in disk[i]
      PROVE  q.time = MaxTime
  <2>1. CASE i <= file_size
    BY <1>1, <1>4, <1>5, <2>1
  <2>2. CASE i > file_size
    BY <1>1, <1>4, <1>5, <2>2, FillerType
  <2>3. QED
    BY <1>1, <2>1, <2>2
<1>6. QED
  BY <1>2, <1>3, <1>5, Zenon

LEMMA OpenSafe ==
  ASSUME CrashTypes, Open, NEW k \in Nat, NEW b \in Int, SafeAt(k, b)
  PROVE  SafeAt(k, b)'
<1> DEFINE size == file_size + Growing
           f    == file_grow(file, file_size, Growing)
<1>1. /\ file' = f /\ file_size' = size
      /\ count' = Search(f, size, MaxTime - 1)
      /\ held' = GrownDisk(held, file_size, Growing)
      /\ step = "idle" /\ src = << >> /\ handle' = "open"
      /\ UNCHANGED << write_vars, synced_size, no_flush, acked, safe, cut_short >>
  BY Zenon DEF Open, GrownDisk, history, CrashTypes
<1>2. /\ file_size \in Nat /\ file \in [ 1 .. file_size -> Point ] /\ Growing \in Nat
      /\ k <= file_size /\ \A i \in 1 .. k : file[i].time \in 1 .. MaxTime - 2
  BY GrowingProperties DEF CrashTypes, CrashTypeOK, SafeAt, Kept
<1>3. f \in [ 1 .. size -> Point ] /\ \A i \in 1 .. file_size : f[i] = file[i]
  <2>1. GrownBy(f, file, file_size, Growing)
    BY <1>2, GrownFile, Zenon
  <2> HIDE DEF f
  <2>2. QED
    BY <2>1, Zenon DEF GrownBy
<1>4. size \in Nat /\ k \in 0 .. size
  BY <1>2
<1> HIDE DEF size, f
<1>5. Timed(f, size) /\ MaxTime - 1 \in Int
  BY <1>3, <1>4, PointsTimed, MaxTimeAssumption
<1>6. \A i \in 1 .. k : f[i].time < MaxTime - 1
  BY <1>2, <1>3, MaxTimeAssumption
<1>7. k <= count'
  <2>1. Search(f, size, MaxTime - 1) >= k /\ Search(f, size, MaxTime - 1) \in 0 .. size
    BY <1>4, <1>5, <1>6, SearchProperties, Zenon
  <2>2. QED
    BY <1>1, <1>4, <2>1, Zenon
<1>8. Kept(k, b)' /\ (~ no_flush => KeptOnDisk(k, b)')
  BY <1>1, <1>2, <1>7, GrownKeeps, Zenon DEF size, f
<1>9. WriteBehind(k, b)'
  BY <1>1, Zenon DEF SafeAt, WriteBehind, write_vars
<1>10. ASSUME ~ cut_short
       PROVE  Unharmed(k)'
  <2>1. Unharmed(k)
    BY <1>10, Zenon DEF SafeAt
  <2>2. /\ Shape(f, size, k)
        /\ ~ no_flush => \A i \in k + 1 .. size : \A q \in held'[i] : q.time = MaxTime
    BY <1>1, <1>2, <2>1, GrownUnharmed, Zenon DEF size, f
  <2>3. \A i \in k + 1 .. size :
          f[i].time >= MaxTime - 1 /\ (i > k + 1 => f[i].time > MaxTime - 1)
    BY <2>2, MaxTimeAssumption DEF Shape
  <2>4. count' = k
    BY <1>1, <1>4, <1>5, <1>6, <2>3, SearchProperties, Zenon
  <2>5. QED
    BY <1>1, <2>1, <2>2, <2>4, Zenon DEF Unharmed, write_vars
<1>11. QED
  BY <1>1, <1>8, <1>9, <1>10, Zenon DEF SafeAt

LEMMA CloseSafe ==
  ASSUME CrashTypes, Close, NEW k \in Nat, NEW b \in Int, SafeAt(k, b)
  PROVE  SafeAt(k, b)'
<1>1. /\ handle' = "closed" /\ step = "idle"
      /\ UNCHANGED << file, file_size, write_vars, held, synced_size, no_flush, acked, safe, cut_short >>
  BY Zenon DEF Close, series_destroy, history
<1>2. /\ step' = "idle" /\ src' = src /\ begin' = begin
      /\ slice_count' = slice_count /\ merged' = merged
  BY <1>1, Zenon DEF write_vars
<1>3. Kept(k, b)'
  BY <1>1, Zenon DEF SafeAt, Kept
<1>4. ~ no_flush => KeptOnDisk(k, b)'
  BY <1>1, Zenon DEF SafeAt, KeptOnDisk
<1>5. WriteBehind(k, b)'
  BY <1>1, <1>2, Zenon DEF SafeAt, WriteBehind
<1>6. ~ cut_short => Unharmed(k)'
  BY <1>1, <1>2, Zenon DEF SafeAt, Unharmed
<1>7. QED
  BY <1>1, <1>3, <1>4, <1>5, <1>6, Zenon DEF SafeAt

LEMMA BeginWriteSafe ==
  ASSUME UsableTimes, InOrder = TRUE, CrashTypes, BeginWrite,
         NEW k \in Nat, NEW b \in Int, SafeAt(k, b)
  PROVE  SafeAt(k, b)'
<1>1. /\ step = "idle" /\ step' = "grow" /\ UNCHANGED vars
      /\ UNCHANGED << held, synced_size, no_flush, acked, safe, cut_short >>
  BY Zenon DEF BeginWrite, history
<1>2. PICK n \in Nat, batch \in Batches :
         Input(src', n) /\ Sendable(batch) /\ \A i \in 1 .. n : src'[i] \in batch
  BY PreparedSource, Zenon
<1>3. Len(src') = n
  BY <1>2, ListIsSeq, Zenon DEF Input
<1>6. \A i \in 1 .. Len(src'), p \in acked : src'[i].time > p.time
  BY <1>2, <1>3, Zenon DEF Sendable
<1>7. Kept(k, b)'
  BY <1>1, Zenon DEF SafeAt, Kept, vars
<1>8. ~ no_flush => KeptOnDisk(k, b)'
  BY <1>1, Zenon DEF SafeAt, KeptOnDisk, vars
<1>9. WriteBehind(k, b)'
  BY <1>1, <1>6, Zenon DEF SafeAt, WriteBehind
<1>10. ~ cut_short => Unharmed(k)'
  BY <1>1, Zenon DEF SafeAt, Unharmed, vars
<1>11. QED
  BY <1>1, <1>7, <1>8, <1>9, <1>10, Zenon DEF SafeAt

(* What a write stores is later than the safe points. *)
LEMMA SourceBehind ==
  ASSUME CrashTypes, step # "idle", NEW k \in Nat, NEW b \in Int, SafeAt(k, b)
  PROVE  /\ src \in Seq(Point) /\ Len(src) \in Nat /\ Len(src) # 0
         /\ \A i \in 1 .. Len(src) : src[i].time \in 1 .. MaxTime - 2 /\ src[i].time > b
         /\ \A i \in 2 .. Len(src) : src[i].time > src[1].time
         /\ src[1].time <= src[Len(src)].time
<1>1. src \in Seq(Point) /\ Len(src) \in Nat /\ Len(src) # 0 /\ Input(src, Len(src))
  BY DEF CrashTypes
<1>2. \A i \in 1 .. Len(src) : src[i].time \in 1 .. MaxTime - 2
  BY <1>1, Zenon DEF Input
<1>3. ASSUME NEW i \in 1 .. Len(src)
      PROVE  src[i].time > b
  <2>1. \A p \in safe : src[i].time > p.time
    BY Zenon DEF SafeAt, WriteBehind
  <2>2. src[i].time \in Nat /\ Kept(k, b)
    BY <1>2 DEF SafeAt
  <2>3. QED
    BY <2>1, <2>2, BoundProperties, Zenon
<1>4. ASSUME NEW i \in 2 .. Len(src)
      PROVE  src[1].time < src[i].time
  BY <1>1 DEF Input, Ascending
<1>5. \A i \in 2 .. Len(src) : src[i].time > src[1].time
  BY <1>2, <1>4, Zenon
<1>6. src[1].time <= src[Len(src)].time
  BY <1>1, <1>2, <1>5, SMTT(30)
<1>7. QED
  BY <1>1, <1>2, <1>3, <1>5, <1>6, Zenon

(* Appended points go behind the safe ones. *)
LEMMA AppendBehind ==
  ASSUME CrashTypes, step = "grow", src[1].time > Latest,
         NEW k \in Nat, NEW b \in Int, SafeAt(k, b)
  PROVE  \A i \in 1 .. Len(src) : Behind(src[i], count + i, k, b)
<1>1. /\ src \in Seq(Point) /\ Len(src) \in Nat /\ Len(src) # 0
      /\ \A i \in 1 .. Len(src) : src[i].time \in 1 .. MaxTime - 2 /\ src[i].time > b
      /\ \A i \in 2 .. Len(src) : src[i].time > src[1].time
  BY SourceBehind, Zenon
<1>2. /\ file_size \in Nat /\ file \in [ 1 .. file_size -> Point ]
      /\ count \in 0 .. file_size /\ k <= count
      /\ \A i \in k + 1 .. file_size : Behind(file[i], i, k, b)
  BY Zenon DEF CrashTypes, CrashTypeOK, SafeAt, Kept
<1>3. CASE count = k
  BY <1>1, <1>2, <1>3, MaxTimeAssumption, SMTT(30) DEF Behind
<1>4. CASE count > k
  <2>1. count \in k + 1 .. file_size /\ count # 0 /\ count \in 1 .. file_size
    BY <1>2, <1>4
  <2>2. file[count].time > b /\ file[count].time \in Int
    BY <1>2, <2>1, PointTime DEF Behind
  <2>3. src[1].time > file[count].time
    BY <2>1, Zenon DEF Latest
  <2>4. src[1].time > b + 1
    BY <1>1, <2>2, <2>3, MaxTimeAssumption, SMTT(30)
  <2>5. \A i \in 1 .. Len(src) : src[i].time > b + 1
    BY <1>1, <2>4, MaxTimeAssumption, SMTT(30)
  <2>6. QED
    BY <1>1, <2>5, MaxTimeAssumption, Zenon DEF Behind
<1>5. QED
  BY <1>2, <1>3, <1>4

(* So do merged points, and the tail they push away has no business with   *)
(* the first slot behind the safe points.                                  *)
LEMMA MergeBehind ==
  ASSUME CrashTypes, step = "grow", NEW k \in Nat, NEW b \in Int, SafeAt(k, b)
  PROVE  LET from == Search(file, count, src[1].time)
             to   == Search(file, count, NextTime(src[Len(src)].time))
             list == MergeLists(src, Slice(file, from, to))
         IN  /\ k <= from
             /\ \A i \in 1 .. Len(list) : Behind(list[i], from + i, k, b)
             /\ \A i \in to + 1 .. count : file[i].time > b + 1
<1> DEFINE n    == Len(src)
           from == Search(file, count, src[1].time)
           to   == Search(file, count, NextTime(src[n].time))
           slice == Slice(file, from, to)
           list == MergeLists(src, slice)
<1>1. /\ src \in Seq(Point) /\ n \in Nat /\ n # 0
      /\ \A i \in 1 .. n : src[i].time \in 1 .. MaxTime - 2 /\ src[i].time > b
      /\ \A i \in 2 .. n : src[i].time > src[1].time
      /\ src[1].time <= src[n].time
  BY SourceBehind, Zenon
<1>2. /\ file_size \in Nat /\ file \in [ 1 .. file_size -> Point ]
      /\ count \in 0 .. file_size /\ k <= count
      /\ \A i \in 1 .. k : file[i].time \in 1 .. MaxTime - 2 /\ file[i].time <= b
      /\ \A i \in k + 1 .. file_size : Behind(file[i], i, k, b)
  BY Zenon DEF CrashTypes, CrashTypeOK, SafeAt, Kept
<1>3. \A i \in 1 .. file_size : file[i].time \in Int
  BY <1>2, PointTime
<1>4. Timed(file, count) /\ count \in Nat
  BY <1>2, <1>3 DEF Timed
<1>5. /\ NextTime(src[n].time) = src[n].time + 1
      /\ from \in 0 .. count /\ to \in 0 .. count /\ from <= to
      /\ slice \in Seq(Point) /\ Len(slice) = to - from
      /\ \A i \in 1 .. to - from : slice[i] = file[from + i]
  BY Overlap, Zenon
<1> HIDE DEF n, from, to, slice, list
<1>6. PICK lo \in Int, hi \in Int :
         /\ lo = src[1].time /\ hi = NextTime(src[n].time)
         /\ lo > b /\ hi >= lo + 1
  <2>1. 1 \in 1 .. n /\ n \in 1 .. n
    BY <1>1
  <2>2. PICK x \in 1 .. MaxTime - 2, y \in 1 .. MaxTime - 2 :
           x = src[1].time /\ y = src[n].time /\ x > b /\ x <= y
    BY <1>1, <2>1, Zenon
  <2>3. x \in Int /\ y + 1 \in Int /\ y + 1 >= x + 1
    BY <2>2, MaxTimeAssumption
  <2>4. QED
    BY <1>5, <2>2, <2>3, Zenon
<1>7. from = Search(file, count, lo) /\ to = Search(file, count, hi)
  BY <1>6, Zenon DEF from, to
<1>8. k \in 0 .. count /\ \A i \in 1 .. k : file[i].time < lo
  <2>1. k \in 0 .. count
    BY <1>2
  <2>2. ASSUME NEW i \in 1 .. k
        PROVE  file[i].time < lo
    <3>1. PICK x \in 1 .. MaxTime - 2 : x = file[i].time /\ x <= b
      BY <1>2, Zenon
    <3>2. x < lo
      BY <1>6, <3>1, MaxTimeAssumption
    <3>3. QED
      BY <3>1, <3>2, Zenon
  <2>3. QED
    BY <2>1, <2>2, Zenon
<1>9. k <= from
  BY <1>4, <1>5, <1>6, <1>7, <1>8, SearchProperties, Zenon
<1>10. \A i \in k + 1 .. count : /\ file[i].time > b
                                 /\ i > k + 1 => file[i].time > b + 1
  BY <1>2 DEF Behind
<1>11. ASSUME NEW i \in to + 1 .. count
       PROVE  file[i].time > b + 1
  <2>1. i \in k + 1 .. count
    BY <1>2, <1>5, <1>9, SMTT(30)
  <2>2. CASE i > k + 1
    BY <1>10, <2>1, <2>2, Zenon
  <2>3. CASE i = k + 1
    <3>1. to = k /\ k + 1 \in 0 .. count
      BY <1>2, <1>5, <1>9, <2>1, <2>3
    <3>2. ~ (file[k + 1].time < hi)
      <4> SUFFICES ASSUME file[k + 1].time < hi PROVE FALSE
        BY Zenon
      <4>1. ASSUME NEW j \in 1 .. k + 1
            PROVE  file[j].time < hi
        <5>1. CASE j = k + 1
          BY <5>1, Zenon
        <5>2. CASE j # k + 1
          <6>1. j \in 1 .. k /\ j \in 1 .. file_size
            BY <1>2, <5>2
          <6>2. file[j].time < lo /\ file[j].time \in Int
            BY <1>3, <1>8, <6>1, Zenon
          <6>3. QED
            BY <1>6, <6>2
        <5>3. QED
          BY <5>1, <5>2, Zenon
      <4>2. Search(file, count, hi) >= k + 1
        BY <1>4, <1>6, <3>1, <4>1, SearchProperties, Zenon
      <4>3. QED
        BY <1>7, <3>1, <4>2
    <3>3. QED
      BY <1>2, <1>3, <1>6, <2>1, <2>3, <3>2, SMTT(30)
  <2>4. QED
    BY <2>1, <2>2, <2>3
<1>12. /\ list \in Seq(Point) /\ Len(list) \in Nat
       /\ \A i \in 1 .. Len(list) : FromRest(list[i], src, slice, 1, 1)
  BY <1>1, <1>5, MergeProperties, SMTT(30) DEF list, n
<1>13. \A i \in 1 .. Len(list) : list[i].time \in Int
  BY <1>12, PointTime
<1>14. \A i \in 1 .. Len(slice) :
         /\ slice[i] = file[from + i] /\ from + i \in k + 1 .. count
         /\ slice[i].time > b /\ slice[i].time \in Int
         /\ from + i > k + 1 => slice[i].time > b + 1
  BY <1>2, <1>3, <1>5, <1>9, <1>10, SMTT(30)
<1>15. ASSUME NEW i \in 1 .. n
       PROVE  src[i].time \in Int /\ src[i].time >= lo /\ (i > 1 => src[i].time > lo)
  <2>1. PICK x \in 1 .. MaxTime - 2 : x = src[i].time
    BY <1>1, Zenon
  <2>2. x \in Int
    BY <2>1, MaxTimeAssumption
  <2>3. CASE i = 1
    BY <1>6, <2>1, <2>2, <2>3
  <2>4. CASE i # 1
    <3>1. i \in 2 .. n
      BY <1>1, <2>4
    <3>2. x > lo
      BY <1>1, <1>6, <2>1, <3>1, Zenon
    <3>3. QED
      BY <1>6, <2>1, <2>2, <3>2
  <2>5. QED
    BY <2>3, <2>4, Zenon
<1>16. CASE from = k
  <2>1. PICK t \in Int : t = b + 1
    OBVIOUS
  <2>2. \A i \in 1 .. Len(src) : src[i].time >= t /\ (i > 1 => src[i].time > t)
    <3>1. ASSUME NEW i \in 1 .. n
          PROVE  src[i].time >= t /\ (i > 1 => src[i].time > t)
      <4>1. src[i].time \in Int /\ src[i].time >= lo /\ (i > 1 => src[i].time > lo)
        BY <1>15, Zenon
      <4>2. QED
        BY <1>6, <2>1, <4>1
    <3>2. QED
      BY <3>1, Zenon DEF n
  <2>3. \A i \in 1 .. Len(slice) : slice[i].time >= t /\ (i > 1 => slice[i].time > t)
    BY <1>14, <1>16, <2>1
  <2>4. \A i \in 1 .. Len(list) : list[i].time >= t /\ (i > 1 => list[i].time > t)
    BY <1>1, <1>5, <2>2, <2>3, MergeProperties, Zenon DEF list
  <2>5. \A i \in 1 .. Len(list) : Behind(list[i], from + i, k, b)
    BY <1>13, <1>16, <2>1, <2>4 DEF Behind
  <2>6. QED
    BY <1>9, <1>11, <2>5, Zenon DEF n, from, to, list, slice
<1>17. CASE from > k
  <2>1. lo > b + 1
    <3> SUFFICES ASSUME lo = b + 1 PROVE FALSE
      BY <1>6
    <3>1. \A i \in k + 1 .. count : file[i].time >= lo /\ (i > k + 1 => file[i].time > lo)
      BY <1>2, <1>3, <1>6, <1>10, SMTT(30)
    <3>2. Search(file, count, lo) = k
      BY <1>4, <1>6, <1>8, <3>1, SearchProperties, Zenon
    <3>3. QED
      BY <1>7, <1>17, <3>2
  <2>2. \A i \in 1 .. Len(src) : src[i].time > b + 1
    <3>1. ASSUME NEW i \in 1 .. n
          PROVE  src[i].time > b + 1
      <4>1. src[i].time \in Int /\ src[i].time >= lo
        BY <1>15, Zenon
      <4>2. QED
        BY <2>1, <4>1
    <3>2. QED
      BY <3>1, Zenon DEF n
  <2>3. \A i \in 1 .. Len(slice) : slice[i].time > b + 1
    <3>1. ASSUME NEW i \in 1 .. Len(slice)
          PROVE  from + i > k + 1
      BY <1>4, <1>5, <1>17, SMTT(30)
    <3>2. QED
      BY <1>14, <3>1, Zenon
  <2>4. \A i \in 1 .. Len(list) : list[i].time > b + 1
    BY <1>12, <2>2, <2>3, Zenon DEF FromRest
  <2>5. \A i \in 1 .. Len(list) : Behind(list[i], from + i, k, b)
    BY <1>13, <2>4 DEF Behind
  <2>6. QED
    BY <1>9, <1>11, <2>5, Zenon DEF n, from, to, list, slice
<1>18. QED
  BY <1>5, <1>9, <1>16, <1>17

LEMMA GrowSafe ==
  ASSUME CrashTypes, Grow, NEW k \in Nat, NEW b \in Int, SafeAt(k, b)
  PROVE  SafeAt(k, b)'
<1>1. /\ step = "grow" /\ handle = "open"
      /\ file_size' = file_size + Growing
      /\ file' = file_grow(file, file_size, Growing)
      /\ held' = GrownDisk(held, file_size, Growing)
      /\ UNCHANGED << handle, count, src, synced_size, no_flush, acked, safe, cut_short >>
  BY Zenon DEF Grow, GrownDisk, history, CrashTypes
<1>2. Growing \in Nat
  BY GrowingProperties, Zenon
<1>3. /\ file_size \in Nat /\ file \in [ 1 .. file_size -> Point ]
      /\ count \in 0 .. file_size /\ k <= count
  BY <1>1, Zenon DEF CrashTypes, CrashTypeOK, SafeAt, Kept
<1>4. Kept(k, b)' /\ (~ no_flush => KeptOnDisk(k, b)')
  BY <1>1, <1>2, <1>3, GrownKeeps, Zenon
<1>5. GrownBy(file', file, file_size, Growing)
  BY <1>1, <1>2, <1>3, GrownFile, Zenon
<1>6. \A i \in 1 .. count : file'[i] = file[i]
  BY <1>3, <1>5 DEF GrownBy
<1>7. /\ safe' \subseteq acked'
      /\ \A i \in 1 .. Len(src'), p \in acked' : src'[i].time > p.time
  BY <1>1, Zenon DEF SafeAt, WriteBehind
<1>8. CASE src[1].time > Latest /\ step' = "append"
  <2>1. \A i \in 1 .. Len(src) : Behind(src[i], count + i, k, b)
    BY <1>1, <1>8, AppendBehind, Zenon
  <2>2. (\A i \in 1 .. Len(src) : Behind(src[i], count + i, k, b))'
    BY <1>1, <2>1, Zenon DEF Behind
  <2>3. WriteBehind(k, b)'
    BY <1>7, <1>8, <2>2, Zenon DEF WriteBehind
  <2>4. ASSUME ~ cut_short
        PROVE  Unharmed(k)'
    <3>1. Unharmed(k) /\ step # "flush"
      BY <1>1, <2>4, Zenon DEF SafeAt
    <3>2. /\ Shape(file', file_size', k)
          /\ ~ no_flush => \A i \in k + 1 .. file_size' : \A q \in held'[i] : q.time = MaxTime
      BY <1>1, <1>2, <3>1, GrownUnharmed, Zenon
    <3>3. QED
      BY <1>1, <1>8, <3>1, <3>2, Zenon DEF Unharmed
  <2>5. QED
    BY <1>1, <1>4, <2>3, <2>4, Zenon DEF SafeAt
<1>9. CASE /\ src[1].time <= Latest /\ step' = "move"
           /\ begin' = Search(file, count, src[1].time)
           /\ slice_count' = Search(file, count, NextTime(src[Len(src)].time)) - begin'
           /\ merged' = MergeLists(src, Slice(file, begin', begin' + slice_count'))
  <2>1. PICK from \in 0 .. count, to \in 0 .. count :
          /\ from = Search(file, count, src[1].time)
          /\ to = Search(file, count, NextTime(src[Len(src)].time))
    BY <1>1, Overlap, Zenon
  <2>2. begin' = from /\ slice_count' = to - from
    BY <1>9, <2>1, Zenon
  <2>3. begin' + slice_count' = to
    BY <1>3, <2>1, <2>2
  <2>4. merged' = MergeLists(src, Slice(file, from, to))
    BY <1>9, <2>2, <2>3, Zenon
  <2>5. /\ k <= from
        /\ \A i \in 1 .. Len(merged') : Behind(merged'[i], from + i, k, b)
        /\ \A i \in to + 1 .. count : file[i].time > b + 1
    BY <1>1, <2>1, <2>4, MergeBehind, Zenon
  <2>6. /\ k <= begin'
        /\ (\A i \in 1 .. Len(merged) : Behind(merged[i], begin + i, k, b))'
    BY <2>2, <2>5, Zenon DEF Behind
  <2>7. \A i \in begin' + slice_count' + 1 .. count' : file'[i].time > b + 1
    BY <1>1, <1>3, <1>6, <2>1, <2>3, <2>5, SMTT(30)
  <2>8. WriteBehind(k, b)'
    BY <1>7, <1>9, <2>6, <2>7, Zenon DEF WriteBehind
  <2>9. ASSUME ~ cut_short
        PROVE  FALSE
    <3>1. count = k
      BY <1>1, <2>9, Zenon DEF SafeAt, Unharmed
    <3>2. src[1].time \in 1 .. MaxTime - 2 /\ src[1].time > b
      BY <1>1, SourceBehind
    <3>3. count # 0 => file[count].time <= b /\ file[count].time \in Int
      BY <1>3, <3>1, MaxTimeAssumption DEF SafeAt, Kept
    <3>4. QED
      BY <1>9, <3>2, <3>3, MaxTimeAssumption, SMTT(30) DEF Latest
  <2>10. QED
    BY <1>1, <1>4, <2>8, <2>9, Zenon DEF SafeAt
<1>10. QED
  <2>1. PICK from \in 0 .. count, to \in 0 .. count :
          /\ from = Search(file, count, src[1].time)
          /\ to = Search(file, count, NextTime(src[Len(src)].time))
    BY <1>1, Overlap, Zenon
  <2>2. from + (to - from) = to
    BY <1>3, <2>1
  <2>3. \/ src[1].time > Latest /\ step' = "append"
        \/ /\ src[1].time <= Latest /\ step' = "move"
           /\ begin' = from /\ slice_count' = to - from
           /\ merged' = MergeLists(src, Slice(file, from, to))
    BY <2>1, Zenon DEF Grow
  <2>4. QED
    BY <1>8, <1>9, <2>1, <2>2, <2>3, Zenon

LEMMA CopiesSafe ==
  ASSUME CrashTypes, CopyNew \/ MoveTail \/ CopyMerge,
         NEW k \in Nat, NEW b \in Int, SafeAt(k, b)
  PROVE  SafeAt(k, b)'
<1>1. /\ step \in Copying
      /\ \/ step = "append" /\ step' = "flush" /\ count' = count + Len(src)
         \/ step = "move" /\ step' = "merge" /\ count' = count
         \/ step = "merge" /\ step' = "flush" /\ count' = count + Len(merged) - slice_count
      /\ Copy(step, step')
  BY Zenon DEF CopyNew, MoveTail, CopyMerge, Copy, Copying
<1>2. /\ file_size \in Nat /\ file_size' = file_size /\ file' = Copied
      /\ \A i \in 1 .. file_size : held'[i] = held[i] \cup { Copied[i] }
      /\ synced_size' = synced_size /\ handle = "open"
      /\ count \in 0 .. file_size /\ src \in Seq(Point)
  BY <1>1, CopyTypes, Zenon
<1>3. UNCHANGED << handle, src, begin, slice_count, merged, no_flush, acked, safe, cut_short >>
  BY <1>1, Zenon DEF Copy, history
<1>4. /\ \A i \in 1 .. k : Copied[i] = file[i]
      /\ \A i \in k + 1 .. file_size : Behind(Copied[i], i, k, b)
  BY CopiedKeeps, Zenon
<1>5. Kept(k, b) /\ k \in 0 .. file_size /\ k <= count
  BY <1>2, Zenon DEF SafeAt, Kept
<1>6. step \in { "move", "merge" } =>
        /\ k <= begin /\ begin \in 0 .. count /\ slice_count \in 0 .. count - begin
        /\ Len(merged) \in Nat
        /\ \A i \in 1 .. Len(merged) : Behind(merged[i], begin + i, k, b)
  BY DEF CrashTypes, SafeAt, WriteBehind
<1>7. k <= count'
  <2>1. Len(src) \in Nat
    BY <1>2
  <2>2. QED
    BY <1>1, <1>2, <1>5, <1>6, <2>1, SMTT(30)
<1>8. Kept(k, b)'
  BY <1>2, <1>3, <1>4, <1>5, <1>7, KeptStays
<1>9. ASSUME ~ no_flush
      PROVE  KeptOnDisk(k, b)'
  <2>1. /\ k <= synced_size
        /\ \A i \in 1 .. k : held[i] = { file[i] }
        /\ \A i \in k + 1 .. file_size : \A q \in held[i] : Behind(q, i, k, b)
    BY <1>9, Zenon DEF SafeAt, KeptOnDisk
  <2>2. \A i \in 1 .. k : held'[i] = { file'[i] }
    BY <1>2, <1>4, <1>5, <2>1, SMTT(30)
  <2>3. \A i \in k + 1 .. file_size : \A q \in held'[i] : Behind(q, i, k, b)
    BY <1>2, <1>4, <1>5, <2>1
  <2>4. QED
    BY <1>2, <2>1, <2>2, <2>3, Zenon DEF KeptOnDisk, Behind
<1>10. WriteBehind(k, b)'
  <2>1. /\ safe' \subseteq acked'
        /\ \A i \in 1 .. Len(src'), p \in acked' : src'[i].time > p.time
    BY <1>3, Zenon DEF SafeAt, WriteBehind
  <2>2. step' = "merge" =>
          /\ k <= begin'
          /\ (\A i \in 1 .. Len(merged) : Behind(merged[i], begin + i, k, b))'
    BY <1>1, <1>3, <1>6, Zenon DEF Behind
  <2>3. step' # "append" /\ step' # "move"
    BY <1>1, Zenon
  <2>4. QED
    BY <2>1, <2>2, <2>3, Zenon DEF WriteBehind
<1>11. ASSUME ~ cut_short
       PROVE  Unharmed(k)'
  <2>1. Unharmed(k)
    BY <1>11, Zenon DEF SafeAt
  <2>2. /\ step = "append" /\ step' = "flush" /\ count' = count + Len(src)
        /\ acked = safe /\ count = k /\ Shape(file, file_size, k)
    BY <1>1, <1>2, <2>1, Zenon DEF Unharmed
  <2>3. /\ Input(src, Len(src)) /\ Len(src) \in Nat /\ k + Len(src) <= file_size
    BY <1>2, <2>2 DEF CrashTypes, Copying
  <2>4. \A i \in 1 .. k, j \in 1 .. Len(src) : file[i].time < src[j].time
    <3>1. \A i \in 1 .. k : file[i].time <= b /\ file[i].time \in 1 .. MaxTime - 2
      BY <1>5, Zenon DEF Kept
    <3>2. \A j \in 1 .. Len(src) : src[j].time > b /\ src[j].time \in 1 .. MaxTime - 2
      BY <2>2, SourceBehind, Zenon
    <3>3. QED
      BY <3>1, <3>2, MaxTimeAssumption
  <2>5. Copied = Place(file, src, k, Len(src))
    BY <2>2, Zenon DEF Copied
  <2>6. /\ Shape(Copied, file_size, k + Len(src))
        /\ Elems(Copied, k + Len(src)) = Overwrite(Elems(file, k), Elems(src, Len(src)))
    BY <1>2, <2>2, <2>3, <2>4, <2>5, AppendShape, SMTT(30)
  <2>7. Elems(file, k) = safe
    BY <1>5, Zenon DEF Kept
  <2>8. /\ Shape(file', file_size', count')
        /\ Elems(file', count') = Overwrite(safe', Elems(src', Len(src')))
    BY <1>2, <1>3, <2>2, <2>6, <2>7, Zenon
  <2>9. QED
    BY <1>3, <2>2, <2>8, Zenon DEF Unharmed
<1>12. QED
  BY <1>3, <1>8, <1>9, <1>10, <1>11, Zenon DEF SafeAt

(* A write that ends after a copy was interrupted adds no safe point. *)
LEMMA EndWriteSafeCut ==
  ASSUME CrashTypes, EndWrite, cut_short, NEW k \in Nat, NEW b \in Int, SafeAt(k, b)
  PROVE  SafeAt(k, b)'
<1> DEFINE batch == Elems(src, Len(src))
<1>1. /\ UNCHANGED << file, file_size, handle, count, no_flush, cut_short >>
      /\ step' = "idle" /\ src' = << >>
      /\ acked' = Overwrite(acked, batch) /\ safe' = Except(safe, batch)
  BY Zenon DEF EndWrite, NoWrite
<1>2. safe' = safe /\ safe' \subseteq acked'
  BY <1>1, NothingOverwritten, Zenon DEF SafeAt
<1>3. Kept(k, b)'
  BY <1>1, <1>2, Zenon DEF SafeAt, Kept
<1>4. ASSUME ~ no_flush
      PROVE  KeptOnDisk(k, b)'
  <2>1. held' = [ i \in 1 .. file_size |-> { file[i] } ] /\ synced_size' = file_size
    BY <1>4, Zenon DEF EndWrite, file_map_sync
  <2>2. /\ k \in 0 .. file_size /\ file_size \in Nat
        /\ \A i \in k + 1 .. file_size : Behind(file[i], i, k, b)
    BY Zenon DEF SafeAt, Kept, CrashTypes, CrashTypeOK
  <2>3. \A i \in 1 .. k : held'[i] = { file'[i] }
    BY <1>1, <2>1, <2>2
  <2>4. \A i \in k + 1 .. file_size : \A q \in held'[i] : Behind(q, i, k, b)
    BY <2>1, <2>2
  <2>5. QED
    BY <1>1, <2>1, <2>2, <2>3, <2>4 DEF KeptOnDisk, Behind
<1>5. WriteBehind(k, b)'
  BY <1>1, <1>2 DEF WriteBehind
<1>6. QED
  BY <1>1, <1>3, <1>4, <1>5, Zenon DEF SafeAt

(* A write that ends before that makes all points of the file safe. *)
LEMMA EndWriteSafe ==
  ASSUME CrashTypes, EndWrite, ~ cut_short, NEW k \in Nat, NEW b \in Int, SafeAt(k, b)
  PROVE  \E c \in Nat, d \in Int : SafeAt(c, d)'
<1> DEFINE batch == Elems(src, Len(src))
<1>1. /\ UNCHANGED << file, file_size, handle, count, no_flush, cut_short >>
      /\ step = "flush" /\ step' = "idle" /\ src' = << >>
      /\ acked' = Overwrite(acked, batch) /\ safe' = Overwrite(safe, batch)
  BY Zenon DEF EndWrite, NoWrite
<1>2. /\ Shape(file, file_size, count) /\ Elems(file, count) = Overwrite(safe, batch)
      /\ acked = safe
  BY <1>1, Zenon DEF SafeAt, Unharmed
<1>3. /\ file_size \in Nat /\ count \in 0 .. file_size /\ Len(src) \in Nat /\ Len(src) # 0
  BY <1>1 DEF CrashTypes, CrashTypeOK
<1>4. count # 0
  <2>1. src[1] \in batch
    BY <1>3 DEF Elems
  <2>2. Elems(file, count) # {}
    BY <1>2, <2>1, Zenon DEF Overwrite
  <2>3. QED
    BY <2>2 DEF Elems
<1>5. /\ Ascending(file, count)
      /\ \A i \in 1 .. count : file[i].time \in 1 .. MaxTime - 2
      /\ \A i \in count + 1 .. file_size : file[i].time = MaxTime
  BY <1>2, Zenon DEF Shape
<1>6. PICK d \in Int : d = file[count].time /\ d \in 1 .. MaxTime - 2 /\ count \in 1 .. count
  BY <1>3, <1>4, <1>5, MaxTimeAssumption, SMTT(30)
<1>7. \A i \in 1 .. count : file[i].time <= d
  <2>1. \A i \in 1 .. count : i = count \/ file[i].time < d
    BY <1>3, <1>5, <1>6 DEF Ascending
  <2>2. QED
    BY <1>5, <1>6, <2>1, MaxTimeAssumption
<1>8. d \in Times(safe')
  <2>1. file[count] \in safe'
    BY <1>1, <1>2, <1>6, Zenon DEF Elems
  <2>2. QED
    BY <1>6, <2>1, Zenon DEF Times
<1>9. \A i \in count + 1 .. file_size : Behind(file[i], i, count, d)
  BY <1>5, <1>6, MaxTimeAssumption DEF Behind
<1>10. PICK c \in Nat : c = count
  BY <1>3
<1>11. Kept(c, d)'
  <2>1. safe' = Elems(file', c)
    BY <1>1, <1>2, <1>10, Zenon
  <2>2. (\A i \in c + 1 .. file_size : Behind(file[i], i, c, d))'
    BY <1>1, <1>9, <1>10, Zenon DEF Behind
  <2>3. Ascending(file', c)
    BY <1>1, <1>5, <1>10, Zenon
  <2>4. \A i \in 1 .. c : file'[i].time \in 1 .. MaxTime - 2 /\ file'[i].time <= d
    BY <1>1, <1>5, <1>7, <1>10, Zenon
  <2>5. c \in 0 .. file_size' /\ c <= count'
    BY <1>1, <1>3, <1>10
  <2>6. QED
    BY <1>8, <2>1, <2>2, <2>3, <2>4, <2>5, Zenon DEF Kept
<1>12. ASSUME ~ no_flush
       PROVE  /\ KeptOnDisk(c, d)'
              /\ \A i \in c + 1 .. file_size' : \A q \in held'[i] : q.time = MaxTime
  <2>1. held' = [ i \in 1 .. file_size |-> { file[i] } ] /\ synced_size' = file_size
    BY <1>12, Zenon DEF EndWrite, file_map_sync
  <2>2. \A i \in 1 .. c : held'[i] = { file'[i] }
    BY <1>1, <1>3, <1>10, <2>1
  <2>3. \A i \in c + 1 .. file_size : held'[i] = { file[i] }
    BY <1>3, <1>10, <2>1
  <2>4. (\A i \in c + 1 .. file_size : \A q \in held[i] : Behind(q, i, c, d))'
    BY <1>1, <1>9, <1>10, <2>3, SMTT(30) DEF Behind
  <2>5. \A i \in c + 1 .. file_size' : \A q \in held'[i] : q.time = MaxTime
    BY <1>1, <1>5, <1>10, <2>3
  <2>6. c <= synced_size'
    BY <1>3, <1>10, <2>1
  <2>7. KeptOnDisk(c, d)'
    BY <2>2, <2>4, <2>6, Zenon DEF KeptOnDisk
  <2>8. QED
    BY <2>5, <2>7, Zenon
<1>13. WriteBehind(c, d)'
  BY <1>1, <1>2 DEF WriteBehind
<1>14. Unharmed(c)'
  <2>1. Shape(file', file_size', c)
    BY <1>1, <1>2, <1>10, Zenon
  <2>2. QED
    BY <1>1, <1>2, <1>10, <1>12, <2>1, Zenon DEF Unharmed
<1>15. SafeAt(c, d)'
  BY <1>1, <1>11, <1>12, <1>13, <1>14, Zenon DEF SafeAt
<1>16. QED
  BY <1>6, <1>15, Zenon

(* What a crash may leave of the file, and the safe points are kept. *)
LEMMA DieSafe ==
  ASSUME CrashTypes, Die, NEW k \in Nat, NEW b \in Int, SafeAt(k, b),
         file_size' \in Nat, k <= file_size',
         \A i \in 1 .. k : file'[i] = file[i],
         \A i \in k + 1 .. file_size' : Behind(file'[i], i, k, b),
         ~ no_flush => KeptOnDisk(k, b)',
         ~ cut_short /\ step \in { "idle", "grow" } =>
           /\ Shape(file', file_size', k)
           /\ ~ no_flush => \A i \in k + 1 .. file_size' : \A q \in held'[i] : q.time = MaxTime
  PROVE  SafeAt(k, b)'
<1> DEFINE batch == Elems(src, Len(src))
<1>1. /\ handle' = "closed" /\ step' = "idle" /\ src' = << >> /\ no_flush' = no_flush
      /\ acked' = Except(acked, batch) /\ safe' = Except(safe, batch)
      /\ cut_short' = (cut_short \/ step \in { "append", "move", "merge", "flush" })
  BY Zenon DEF Die, NoWrite
<1>2. acked' = acked /\ safe' = safe
  BY <1>1, NothingOverwritten, Zenon DEF SafeAt
<1>3. Kept(k, b)'
  BY <1>1, <1>2, KeptStays, Zenon DEF SafeAt
<1>4. WriteBehind(k, b)'
  BY <1>1, <1>2 DEF SafeAt, WriteBehind
<1>5. ASSUME ~ cut_short'
      PROVE  Unharmed(k)'
  <2>1. ~ cut_short /\ step \in { "idle", "grow" }
    BY <1>1, <1>5, Zenon DEF CrashTypes
  <2>2. acked = safe
    BY <2>1, Zenon DEF SafeAt, Unharmed
  <2>3. QED
    BY <1>1, <1>2, <2>1, <2>2, Zenon DEF Unharmed
<1>6. QED
  BY <1>1, <1>3, <1>4, <1>5, Zenon DEF SafeAt

LEMMA ProcessCrashSafe ==
  ASSUME CrashTypes, ProcessCrash, NEW k \in Nat, NEW b \in Int, SafeAt(k, b)
  PROVE  SafeAt(k, b)'
<1>1. PICK more \in 0 .. Growing :
        /\ file_size' = file_size + more
        /\ file' \in [ 1 .. file_size + more -> Point ]
        /\ held' \in [ 1 .. file_size + more -> SUBSET Point ]
        /\ \A i \in 1 .. file_size : /\ file'[i] \in { file[i], Copied[i] }
                                     /\ held'[i] = held[i] \cup { file'[i] }
        /\ \A i \in file_size + 1 .. file_size + more :
             file'[i] = Filler /\ held'[i] = { Filler }
  BY ProcessCrashLeaves, Zenon
<1>2. more \in Nat /\ file_size \in Nat
  BY <1>1, GrowingProperties DEF CrashTypes, CrashTypeOK
<1>3. /\ Kept(k, b) /\ k \in 0 .. file_size
      /\ \A i \in k + 1 .. file_size : Behind(file[i], i, k, b)
  BY Zenon DEF SafeAt, Kept
<1>4. /\ \A i \in 1 .. k : Copied[i] = file[i]
      /\ \A i \in k + 1 .. file_size : Behind(Copied[i], i, k, b)
  BY CopiedKeeps, Zenon
<1>5. \A i \in Int : Behind(Filler, i, k, b)
  BY <1>3, BoundProperties, Zenon
<1>6. \A i \in 1 .. k : file'[i] = file[i]
  BY <1>1, <1>2, <1>3, <1>4
<1>7. ASSUME NEW i \in k + 1 .. file_size + more
      PROVE  /\ i \in Int
             /\ \/ i \in k + 1 .. file_size /\ i \in 1 .. file_size
                \/ i \in file_size + 1 .. file_size + more
  BY <1>2, <1>3
<1>8. ASSUME NEW i \in k + 1 .. file_size + more
      PROVE  Behind(file'[i], i, k, b)
  <2>1. CASE i \in k + 1 .. file_size /\ i \in 1 .. file_size
    BY <1>1, <1>3, <1>4, <2>1, Zenon
  <2>2. CASE i \in file_size + 1 .. file_size + more
    BY <1>1, <1>5, <1>7, <2>2, Zenon
  <2>3. QED
    BY <1>7, <2>1, <2>2, Zenon
<1>9. ASSUME ~ no_flush
      PROVE  KeptOnDisk(k, b)'
  <2>1. /\ k <= synced_size
        /\ \A i \in 1 .. k : held[i] = { file[i] }
        /\ \A i \in k + 1 .. file_size : \A q \in held[i] : Behind(q, i, k, b)
    BY <1>9, Zenon DEF SafeAt, KeptOnDisk
  <2>2. \A i \in 1 .. k : held'[i] = { file'[i] }
    BY <1>1, <1>2, <1>3, <1>6, <2>1
  <2>3. ASSUME NEW i \in k + 1 .. file_size + more, NEW q \in held'[i]
        PROVE  Behind(q, i, k, b)
    <3>1. CASE i \in k + 1 .. file_size /\ i \in 1 .. file_size
      BY <1>1, <1>8, <2>1, <2>3, <3>1, Zenon
    <3>2. CASE i \in file_size + 1 .. file_size + more
      BY <1>1, <1>5, <1>7, <2>3, <3>2, Zenon
    <3>3. QED
      BY <1>7, <3>1, <3>2, Zenon
  <2>4. synced_size' = synced_size
    BY Zenon DEF ProcessCrash
  <2>5. QED
    BY <1>1, <2>1, <2>2, <2>3, <2>4, Zenon DEF KeptOnDisk, Behind
<1>10. ASSUME ~ cut_short, step \in { "idle", "grow" }
       PROVE  /\ Shape(file', file_size', k)
              /\ ~ no_flush => \A i \in k + 1 .. file_size' : \A q \in held'[i] : q.time = MaxTime
  <2>1. /\ Shape(file, file_size, k)
        /\ ~ no_flush => \A i \in k + 1 .. file_size : \A q \in held[i] : q.time = MaxTime
    BY <1>10, Zenon DEF SafeAt, Unharmed
  <2>2. Copied = file
    BY <1>10, CopiedProperties, Zenon DEF Copying
  <2>3. \A i \in 1 .. file_size : file'[i] = file[i]
    BY <1>1, <2>2, Zenon
  <2>4. Ascending(file', k) /\ \A i \in 1 .. k : file'[i].time \in 1 .. MaxTime - 2
    BY <1>6, <2>1, Zenon DEF Shape, Ascending
  <2>5. ASSUME NEW i \in k + 1 .. file_size + more
        PROVE  file'[i].time = MaxTime
    <3>1. CASE i \in k + 1 .. file_size /\ i \in 1 .. file_size
      BY <2>1, <2>3, <3>1, Zenon DEF Shape
    <3>2. CASE i \in file_size + 1 .. file_size + more
      BY <1>1, <3>2, FillerType, Zenon
    <3>3. QED
      BY <1>7, <3>1, <3>2, Zenon
  <2>6. Shape(file', file_size', k)
    <3>1. k \in 0 .. file_size + more
      BY <1>2, <1>3
    <3>2. QED
      BY <1>1, <2>4, <2>5, <3>1, Zenon DEF Shape
  <2>7. ASSUME ~ no_flush, NEW i \in k + 1 .. file_size + more, NEW q \in held'[i]
        PROVE  q.time = MaxTime
    <3>1. CASE i \in k + 1 .. file_size /\ i \in 1 .. file_size
      <4>1. file[i].time = MaxTime
        BY <2>1, <3>1, Zenon DEF Shape
      <4>2. QED
        BY <1>1, <2>1, <2>3, <2>7, <3>1, <4>1, Zenon
    <3>2. CASE i \in file_size + 1 .. file_size + more
      BY <1>1, <2>7, <3>2, FillerType
    <3>3. QED
      BY <1>7, <3>1, <3>2, Zenon
  <2>8. QED
    BY <1>1, <2>6, <2>7, Zenon
<1>11. file_size' \in Nat /\ k <= file_size'
  BY <1>1, <1>2, <1>3
<1>12. \A i \in k + 1 .. file_size' : Behind(file'[i], i, k, b)
  BY <1>1, <1>8, Zenon
<1>13. Die
  BY Zenon DEF ProcessCrash
<1>14. QED
  BY <1>6, <1>9, <1>10, <1>11, <1>12, <1>13, DieSafe, Zenon

LEMMA PowerFailureSafe ==
  ASSUME CrashTypes, PowerFailure, NEW k \in Nat, NEW b \in Int, SafeAt(k, b)
  PROVE  SafeAt(k, b)'
<1>1. PICK size \in synced_size .. file_size + Growing :
        /\ file_size' = size /\ synced_size' = size
        /\ file' \in [ 1 .. size -> Point ]
        /\ held' = [ i \in 1 .. size |-> { file'[i] } ]
        /\ \A i \in 1 .. size : \/ i <= file_size /\ file'[i] \in held[i] \cup { Copied[i] }
                                \/ i > file_size /\ file'[i] = Filler
  BY PowerFailureLeaves, Zenon
<1>2. /\ file_size \in Nat /\ synced_size \in 0 .. file_size /\ Growing \in Nat /\ size \in Nat
  BY <1>1, GrowingProperties DEF CrashTypes, CrashTypeOK
<1>3. ~ no_flush
  BY Zenon DEF PowerFailure
<1>4. /\ Kept(k, b) /\ k \in 0 .. file_size /\ k <= synced_size
      /\ \A i \in 1 .. k : held[i] = { file[i] }
      /\ \A i \in k + 1 .. file_size : \A q \in held[i] : Behind(q, i, k, b)
  BY <1>3, Zenon DEF SafeAt, Kept, KeptOnDisk
<1>5. /\ \A i \in 1 .. k : Copied[i] = file[i]
      /\ \A i \in k + 1 .. file_size : Behind(Copied[i], i, k, b)
  BY CopiedKeeps, Zenon
<1>6. \A i \in Int : Behind(Filler, i, k, b)
  BY <1>4, BoundProperties, Zenon
<1>7. k <= size
  BY <1>1, <1>2, <1>4
<1>8. ASSUME NEW i \in 1 .. k
      PROVE  file'[i] = file[i]
  <2>1. i \in 1 .. size /\ ~ (i > file_size)
    BY <1>2, <1>4, <1>7
  <2>2. file'[i] \in held[i] \cup { Copied[i] }
    BY <1>1, <2>1, Zenon
  <2>3. QED
    BY <1>4, <1>5, <2>2
<1>9. ASSUME NEW i \in k + 1 .. size
      PROVE  Behind(file'[i], i, k, b)
  <2>1. i \in 1 .. size /\ i \in Int
    BY <1>2
  <2>2. CASE i <= file_size /\ file'[i] \in held[i] \cup { Copied[i] }
    <3>1. i \in k + 1 .. file_size
      BY <1>2, <2>2
    <3>2. QED
      BY <1>4, <1>5, <2>2, <3>1, Zenon
  <2>3. CASE file'[i] = Filler
    BY <1>6, <2>1, <2>3, Zenon
  <2>4. QED
    BY <1>1, <2>1, <2>2, <2>3, Zenon
<1>10. KeptOnDisk(k, b)'
  <2>1. \A i \in 1 .. k : held'[i] = { file'[i] }
    BY <1>1, <1>2, <1>7
  <2>2. ASSUME NEW i \in k + 1 .. size, NEW q \in held'[i]
        PROVE  Behind(q, i, k, b)
    <3>1. q = file'[i]
      BY <1>1, <1>2, <2>2
    <3>2. QED
      BY <1>9, <3>1, Zenon
  <2>3. QED
    BY <1>1, <1>7, <2>1, <2>2, Zenon DEF KeptOnDisk, Behind
<1>11. ASSUME ~ cut_short, step \in { "idle", "grow" }
       PROVE  /\ Shape(file', file_size', k)
              /\ \A i \in k + 1 .. file_size' : \A q \in held'[i] : q.time = MaxTime
  <2>1. /\ Shape(file, file_size, k)
        /\ \A i \in k + 1 .. file_size : \A q \in held[i] : q.time = MaxTime
    BY <1>3, <1>11, Zenon DEF SafeAt, Unharmed
  <2>2. Copied = file
    BY <1>11, CopiedProperties, Zenon DEF Copying
  <2>3. ASSUME NEW i \in k + 1 .. size
        PROVE  file'[i].time = MaxTime
    <3>1. i \in 1 .. size
      BY <1>2
    <3>2. CASE i <= file_size /\ file'[i] \in held[i] \cup { file[i] }
      <4>1. i \in k + 1 .. file_size
        BY <1>2, <3>2
      <4>2. file[i].time = MaxTime
        BY <2>1, <4>1, Zenon DEF Shape
      <4>3. QED
        BY <2>1, <3>2, <4>1, <4>2, Zenon
    <3>3. CASE file'[i] = Filler
      BY <3>3, FillerType, Zenon
    <3>4. QED
      BY <1>1, <2>2, <3>1, <3>2, <3>3, Zenon
  <2>4. Ascending(file', k) /\ \A i \in 1 .. k : file'[i].time \in 1 .. MaxTime - 2
    BY <1>8, <2>1, Zenon DEF Shape, Ascending
  <2>5. Shape(file', file_size', k)
    BY <1>1, <1>2, <1>7, <2>3, <2>4 DEF Shape
  <2>6. \A i \in k + 1 .. size : \A q \in held'[i] : q = file'[i]
    BY <1>1, <1>2, SMTT(30)
  <2>7. QED
    BY <1>1, <2>3, <2>5, <2>6, Zenon
<1>12. file_size' \in Nat /\ k <= file_size'
  BY <1>1, <1>2, <1>7, Zenon
<1>13. \A i \in k + 1 .. file_size' : Behind(file'[i], i, k, b)
  BY <1>1, <1>9, Zenon
<1>14. Die
  BY Zenon DEF PowerFailure
<1>15. QED
  BY <1>8, <1>10, <1>11, <1>12, <1>13, <1>14, DieSafe, Zenon

LEMMA NextSafe ==
  ASSUME UsableTimes, InOrder = TRUE, CrashInv, [CrashNext]_crash_vars
  PROVE  CrashInv'
<1>1. CrashTypes /\ CrashTypes'
  BY NextTypes, Zenon DEF CrashInv
<1>2. PICK k \in Nat, b \in Int : SafeAt(k, b)
  BY Zenon DEF CrashInv
<1>3. SUFFICES \E c \in Nat, d \in Int : SafeAt(c, d)'
  BY <1>1, Zenon DEF CrashInv
<1>4. CASE Open
  BY <1>1, <1>2, <1>4, OpenSafe, Zenon
<1>5. CASE Close
  BY <1>1, <1>2, <1>5, CloseSafe, Zenon
<1>6. CASE BeginWrite
  BY <1>1, <1>2, <1>6, BeginWriteSafe, Zenon
<1>7. CASE Grow
  BY <1>1, <1>2, <1>7, GrowSafe, Zenon
<1>8. CASE CopyNew \/ MoveTail \/ CopyMerge
  BY <1>1, <1>2, <1>8, CopiesSafe, Zenon
<1>9. CASE EndWrite
  BY <1>1, <1>2, <1>9, EndWriteSafe, EndWriteSafeCut, Zenon
<1>10. CASE ProcessCrash
  BY <1>1, <1>2, <1>10, ProcessCrashSafe, Zenon
<1>11. CASE PowerFailure
  BY <1>1, <1>2, <1>11, PowerFailureSafe, Zenon
<1>12. CASE UNCHANGED crash_vars
  <2>1. Kept(k, b)'
    BY <1>2, <1>12, Zenon DEF crash_vars, vars, history, SafeAt, Kept
  <2>2. ~ no_flush => KeptOnDisk(k, b)'
    BY <1>2, <1>12, Zenon DEF crash_vars, vars, SafeAt, KeptOnDisk
  <2>3. WriteBehind(k, b)'
    BY <1>2, <1>12, Zenon DEF crash_vars, vars, write_vars, history, SafeAt, WriteBehind
  <2>4. ~ cut_short => Unharmed(k)'
    BY <1>2, <1>12, Zenon DEF crash_vars, vars, write_vars, history, SafeAt, Unharmed
  <2>5. SafeAt(k, b)'
    BY <1>12, <2>1, <2>2, <2>3, <2>4, Zenon DEF SafeAt, crash_vars, history
  <2>6. QED
    BY <2>5, Zenon
<1>13. QED
  BY <1>4, <1>5, <1>6, <1>7, <1>8, <1>9, <1>10, <1>11, <1>12, Zenon DEF CrashNext

(* Both searches of a read end where they should, although the file behind *)
(* the safe points need not be ascending.                                  *)
LEMMA KeptReadable ==
  ASSUME CrashTypes, handle = "open", NEW k \in Nat, NEW b \in Int, Kept(k, b),
         NEW p \in safe
  PROVE  ReadAt(p.time) = << p >>
<1>1. PICK a \in 1 .. k : p = file[a]
  BY Zenon DEF Kept, Elems
<1>2. /\ file_size \in Nat /\ file \in [ 1 .. file_size -> Point ]
      /\ count \in 0 .. file_size /\ k <= count
      /\ Ascending(file, k)
      /\ \A i \in 1 .. k : file[i].time \in 1 .. MaxTime - 2 /\ file[i].time <= b
      /\ \A i \in k + 1 .. file_size : Behind(file[i], i, k, b)
  BY Zenon DEF CrashTypes, CrashTypeOK, Kept
<1>3. PICK t \in Int : t = p.time /\ t \in 1 .. MaxTime - 2 /\ t <= b
  BY <1>1, <1>2
<1>4. \A i \in 1 .. file_size : file[i].time \in Int
  BY <1>2, PointTime
<1>5. Timed(file, count) /\ count \in Nat /\ a - 1 \in 0 .. count /\ a \in 0 .. count
  BY <1>1, <1>2, <1>4 DEF Timed
<1>6. \A i \in 1 .. a - 1 : file[i].time < t
  BY <1>1, <1>2, <1>3 DEF Ascending
<1>7. ASSUME NEW i \in a + 1 .. count
      PROVE  file[i].time >= t + 1 /\ (i > a + 1 => file[i].time > t + 1)
  <2>1. CASE i <= k
    <3>1. file[i].time > t /\ file[i].time \in Int
      BY <1>1, <1>2, <1>3, <1>4, <2>1 DEF Ascending
    <3>2. ASSUME i > a + 1
          PROVE  file[i].time > t + 1
      <4>1. a + 1 \in 1 .. k /\ i \in 1 .. k /\ a + 1 < i /\ a < a + 1
        BY <1>1, <1>2, <2>1, <3>2
      <4>2. file[a].time < file[a + 1].time /\ file[a + 1].time < file[i].time
        BY <1>1, <1>2, <4>1, Zenon DEF Ascending
      <4>3. file[a + 1].time \in Int
        BY <1>2, <1>4, <4>1
      <4>4. QED
        BY <1>1, <1>3, <3>1, <4>2, <4>3
    <3>3. QED
      BY <1>3, <3>1, <3>2
  <2>2. CASE i > k
    <3>1. i \in k + 1 .. file_size /\ i \in 1 .. file_size
      BY <1>2, <2>2
    <3>2. file[i].time > b /\ (i > k + 1 => file[i].time > b + 1) /\ file[i].time \in Int
      BY <1>2, <1>4, <3>1, Zenon DEF Behind
    <3>3. a < k => t < b
      <4>1. a < k => file[a].time < file[k].time /\ file[k].time <= b /\ file[k].time \in Int
        BY <1>1, <1>2, <1>4 DEF Ascending
      <4>2. QED
        BY <1>1, <1>3, <4>1
    <3>4. QED
      BY <1>1, <1>3, <2>2, <3>1, <3>2, <3>3
  <2>3. QED
    BY <1>2, <2>1, <2>2
<1>8. Search(file, count, t) = a - 1
  <2>1. ASSUME NEW i \in (a - 1) + 1 .. count
        PROVE  file[i].time >= t /\ (i > (a - 1) + 1 => file[i].time > t)
    <3>1. CASE i = a
      BY <1>1, <1>3, <3>1
    <3>2. CASE i # a
      <4>1. i \in a + 1 .. count /\ i \in 1 .. file_size
        BY <1>1, <1>2, <3>2
      <4>2. file[i].time >= t + 1 /\ file[i].time \in Int
        BY <1>4, <1>7, <4>1, Zenon
      <4>3. QED
        BY <1>3, <4>2
    <3>3. QED
      BY <3>1, <3>2, Zenon
  <2>2. PICK c \in 0 .. count : c = a - 1
    BY <1>5, Zenon
  <2>3. /\ \A i \in 1 .. c : file[i].time < t
        /\ \A i \in c + 1 .. count : file[i].time >= t /\ (i > c + 1 => file[i].time > t)
    BY <1>6, <2>1, <2>2, Zenon
  <2>4. Search(file, count, t) = c
    BY <1>5, <2>3, SearchProperties, Zenon
  <2>5. QED
    BY <2>2, <2>4, Zenon
<1>9. Search(file, count, t + 1) = a
  <2>1. ASSUME NEW i \in 1 .. a
        PROVE  file[i].time < t + 1
    <3>1. CASE i = a
      BY <1>1, <1>3, <3>1
    <3>2. CASE i # a
      <4>1. i \in 1 .. a - 1 /\ i \in 1 .. file_size
        BY <1>1, <1>2, <3>2
      <4>2. file[i].time < t /\ file[i].time \in Int
        BY <1>4, <1>6, <4>1, Zenon
      <4>3. QED
        BY <1>3, <4>2
    <3>3. QED
      BY <3>1, <3>2, Zenon
  <2>2. PICK u \in Int : u = t + 1
    BY <1>3
  <2>3. /\ \A i \in 1 .. a : file[i].time < u
        /\ \A i \in a + 1 .. count : file[i].time >= u /\ (i > a + 1 => file[i].time > u)
    BY <1>7, <2>1, <2>2, Zenon
  <2>4. Search(file, count, u) = a
    BY <1>5, <2>3, SearchProperties, Zenon
  <2>5. QED
    BY <2>2, <2>4, Zenon
<1>10. NextTime(t) = t + 1
  BY <1>3, NextUsable, Zenon
<1>11. ReadAt(t) = Slice(file, a - 1, a)
  BY <1>8, <1>9, <1>10, Zenon DEF ReadAt
<1>12. Slice(file, a - 1, a) = << file[a] >>
  BY <1>1 DEF Slice
<1>13. QED
  BY <1>1, <1>3, <1>11, <1>12, Zenon

(* A point that was acknowledged before a crash interrupted a copy can be  *)
(* read back, alone and at its time, after every later growth, write and   *)
(* crash, of the process and, unless --no-flush, of the machine, and       *)
(* however often that happens, when users write in the order of time       *)
(* (series_write, series_read and series_create in series.c).              *)
THEOREM SafePointsSurvive ==
  ASSUME UsableTimes, InOrder = TRUE
  PROVE  CrashSpec => []AckedSurvive
<1>1. CrashInit => CrashInv
  BY InitTypes, InitSafe DEF CrashInv
<1>2. CrashInv /\ [CrashNext]_crash_vars => CrashInv'
  BY NextSafe, Zenon
<1>3. CrashInv => AckedSurvive
  <2> SUFFICES ASSUME CrashInv, handle = "open", NEW p \in safe
               PROVE  ReadAt(p.time) = << p >>
    BY Zenon DEF AckedSurvive
  <2>1. PICK k \in Nat, b \in Int : SafeAt(k, b)
    BY Zenon DEF CrashInv
  <2>2. QED
    BY <2>1, KeptReadable, Zenon DEF CrashInv, SafeAt
<1>4. QED
  BY <1>1, <1>2, <1>3, PTL DEF CrashSpec
=============================================================================
