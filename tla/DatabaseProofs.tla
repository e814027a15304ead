--------------------------- MODULE DatabaseProofs ---------------------------
(***************************************************************************)
(* The database for any ids, point sizes, batches and windows: provided    *)
(* that the process is never left with a single descriptor, every series   *)
(* has one file, and the database is the one DatabaseStore describes.      *)
(***************************************************************************)
EXTENDS Database, FiniteSetTheorems, TLAPS

(* With one descriptor the directory can be listed but no file in it       *)
(* opened, and a file can be created.                                      *)
NeverOneLeft == 1 \notin Descriptors

IInv == TypeOK /\ OneFilePerSeries

-----------------------------------------------------------------------------
(* Written over stored points, prepared points leave one point per time. *)
LEMMA OverwriteType ==
  ASSUME NEW old \in SUBSET Point, DistinctTimes(old),
         NEW new \in SUBSET Point, DistinctTimes(new)
  PROVE  Overwrite(old, new) \subseteq Point /\ DistinctTimes(Overwrite(old, new))
<1>1. Overwrite(old, new) \subseteq Point
  BY DEF Overwrite
<1>2. ASSUME NEW p \in Overwrite(old, new), NEW q \in Overwrite(old, new), p.time = q.time
      PROVE  p = q
  <2>1. CASE p \in new /\ q \in new
    BY <1>2, <2>1 DEF DistinctTimes
  <2>2. CASE p \in new /\ q \notin new
    BY <1>2, <2>2 DEF Overwrite, Times
  <2>3. CASE p \notin new /\ q \in new
    BY <1>2, <2>3 DEF Overwrite, Times
  <2>4. CASE p \notin new /\ q \notin new
    BY <1>2, <2>4 DEF Overwrite, DistinctTimes
  <2> QED
    BY <2>1, <2>2, <2>3, <2>4
<1> QED
  BY <1>1, <1>2 DEF DistinctTimes

LEMMA BatchType ==
  ASSUME NEW batch \in Batches, NEW new \in PrepareInput(batch)
  PROVE  new \in SUBSET Point /\ DistinctTimes(new)
BY MaxTimeAssumption DEF Batches, PrepareInput, Point, Time

(* What the calls find: the point size of the only file, or, if files      *)
(* cannot be opened and the series is not open, nothing.                   *)
LEMMA LoadedIs ==
  ASSUME IInv, NEW id, NEW s \in Loaded(id)
  PROVE  /\ id \in Ids /\ s # 0 => /\ << id, s >> \in DOMAIN files /\ s \in PointSize
                                   /\ FilesOf(id) = { << id, s >> }
         /\ id \in Ids /\ s = 0 /\ descriptors = 2 => FilesOf(id) = {}
         /\ id \notin Ids => s = 0 /\ FilesOf(id) = {}
         /\ << id, 0 >> \notin DOMAIN files
<1>1. DOMAIN files \subseteq Ids \X PointSize /\ 0 \notin PointSize
  BY DatabaseAssumption DEF IInv, TypeOK
<1>2. << id, 0 >> \notin DOMAIN files
  BY <1>1
<1>3. CASE id \notin Ids
  BY <1>1, <1>2, <1>3 DEF Loaded, FilesOf
<1>4. CASE id \in Ids /\ s # 0
  <2>1. << id, s >> \in DOMAIN files
    <3>1. CASE series[id] # 0
      BY <1>4, <3>1 DEF Loaded, IInv, OneFilePerSeries
    <3>2. CASE series[id] = 0
      <4>1. PICK f \in FilesOf(id) : s = f[2]
        BY <1>4, <3>2 DEF Loaded
      <4> QED
        BY <1>1, <4>1 DEF FilesOf
    <3> QED
      BY <3>1, <3>2
  <2> QED
    BY <1>1, <1>2, <1>4, <2>1 DEF FilesOf, IInv, OneFilePerSeries
<1>5. CASE id \in Ids /\ s = 0
  <2> SUFFICES ASSUME descriptors = 2, FilesOf(id) # {} PROVE FALSE
    BY <1>2, <1>5
  <2>1. series[id] = 0
    BY <1>5 DEF Loaded
  <2>2. s \in { f[2] : f \in FilesOf(id) }
    BY <1>5, <2>1 DEF Loaded
  <2> QED
    BY <1>1, <1>5, <2>2 DEF FilesOf
<1> QED
  BY <1>3, <1>4, <1>5

LEMMA CreatedIs ==
  ASSUME IInv, NeverOneLeft, NEW id, NEW point_size \in PointSize, NEW s \in Created(id, point_size)
  PROVE  /\ s # 0 => /\ id \in Ids /\ s \in PointSize
                     /\ \/ FilesOf(id) = { << id, s >> } /\ << id, s >> \in DOMAIN files
                        \/ FilesOf(id) = {} /\ s = point_size
         /\ s = 0 => id \notin Ids \/ descriptors # 2
<1>1. CASE id \notin Ids
  BY <1>1 DEF Created
<1>2. CASE id \in Ids
  <2>1. PICK l \in Loaded(id) : s = IF l = 0 /\ descriptors > 0 THEN point_size ELSE l
    BY <1>2 DEF Created
  <2>2. descriptors \in { 0, 2 } /\ point_size # 0
    BY DatabaseAssumption DEF IInv, TypeOK, NeverOneLeft
  <2>3. CASE l # 0
    BY <1>2, <2>1, <2>3, LoadedIs, Zenon
  <2>4. CASE l = 0 /\ descriptors = 2
    <3>1. s = point_size
      BY <2>1, <2>4
    <3>2. FilesOf(id) = {}
      BY <1>2, <2>1, <2>4, LoadedIs, Zenon
    <3> QED
      BY <1>2, <2>2, <3>1, <3>2
  <2>5. CASE l = 0 /\ descriptors = 0
    BY <2>1, <2>5
  <2> QED
    BY <2>2, <2>3, <2>4, <2>5
<1> QED
  BY <1>1, <1>2

-----------------------------------------------------------------------------
(* A step that leaves the directory alone opens series from their files    *)
(* only.                                                                   *)
LEMMA OpenStep ==
  ASSUME IInv, UNCHANGED files, running' \in BOOLEAN, descriptors' \in Descriptors, removable' \in BOOLEAN,
         series' \in [ Ids -> PointSize \cup { 0 } ],
         \A id \in Ids : series'[id] # 0 => << id, series'[id] >> \in DOMAIN files
  PROVE  IInv'
BY DEF IInv, TypeOK, OneFilePerSeries

LEMMA LoadStep ==
  ASSUME IInv, NEW id, NEW s \in Loaded(id), SetSeries(id, s), UNCHANGED << files, running, descriptors, removable >>
  PROVE  IInv'
<1>1. series' \in [ Ids -> PointSize \cup { 0 } ]
  BY LoadedIs, Zenon DEF SetSeries, IInv, TypeOK
<1>2. ASSUME NEW i \in Ids, series'[i] # 0 PROVE << i, series'[i] >> \in DOMAIN files
  <2>1. CASE i = id
    BY <1>2, <2>1, LoadedIs, Zenon DEF SetSeries
  <2>2. CASE i # id
    BY <1>2, <2>2 DEF SetSeries, IInv, OneFilePerSeries
  <2> QED
    BY <2>1, <2>2
<1> QED
  BY <1>1, <1>2, OpenStep DEF IInv, TypeOK

LEMMA ClosedStep ==
  ASSUME IInv, UNCHANGED << files, descriptors, removable >>, running' \in BOOLEAN, series' = Closed
  PROVE  IInv'
BY OpenStep DEF IInv, TypeOK, Closed

LEMMA StoreStep ==
  ASSUME IInv, NEW id \in Ids, NEW s \in PointSize,
         FilesOf(id) \subseteq { << id, s >> },
         NEW new \in SUBSET Point, DistinctTimes(new),
         Store(<< id, s >>, new), SetSeries(id, s), UNCHANGED << running, descriptors, removable >>
  PROVE  IInv'
<1> DEFINE f == << id, s >>
<1>1. DOMAIN files' = DOMAIN files \cup { f }
  BY DEF Store, WithFile
<1>2. \A g \in DOMAIN files' : files'[g] = IF g = f THEN Overwrite(StoredIn(f), new) ELSE files[g]
  BY DEF Store, WithFile
<1>3. StoredIn(f) \in SUBSET Point /\ DistinctTimes(StoredIn(f))
  BY DEF StoredIn, IInv, TypeOK, DistinctTimes
<1>4. Overwrite(StoredIn(f), new) \subseteq Point /\ DistinctTimes(Overwrite(StoredIn(f), new))
  BY <1>3, OverwriteType
<1>5. TypeOK'
  <2>1. DOMAIN files' \subseteq Ids \X PointSize
    BY <1>1 DEF IInv, TypeOK
  <2>2. \A g \in DOMAIN files' : files'[g] \subseteq Point /\ DistinctTimes(files'[g])
    BY <1>1, <1>2, <1>4 DEF IInv, TypeOK
  <2>3. series' \in [ Ids -> PointSize \cup { 0 } ]
    BY DEF SetSeries, IInv, TypeOK
  <2> QED
    BY <2>1, <2>2, <2>3 DEF IInv, TypeOK
<1>6. \A g, h \in DOMAIN files' : g[1] = h[1] => g = h
  <2>1. \A g \in DOMAIN files : g[1] = id => g = f
    BY DEF FilesOf
  <2> QED
    BY <1>1, <2>1 DEF IInv, OneFilePerSeries
<1>7. ASSUME NEW i \in Ids, series'[i] # 0 PROVE << i, series'[i] >> \in DOMAIN files'
  <2>1. CASE i = id
    BY <1>1, <2>1 DEF SetSeries
  <2>2. CASE i # id
    BY <1>1, <1>7, <2>2 DEF SetSeries, IInv, OneFilePerSeries
  <2> QED
    BY <2>1, <2>2
<1> QED
  BY <1>5, <1>6, <1>7 DEF IInv, OneFilePerSeries

LEMMA RemoveStep ==
  ASSUME IInv, NEW id, NEW s \in Loaded(id),
         Unlink(<< id, s >>),
         SetSeries(id, 0), UNCHANGED << running, descriptors, removable >>
  PROVE  IInv'
<1>1. /\ DOMAIN files' \subseteq DOMAIN files /\ DOMAIN files \subseteq DOMAIN files' \cup { << id, s >> }
      /\ \A f \in DOMAIN files' : files'[f] = files[f]
  BY DEF Unlink
<1>2. series' \in [ Ids -> PointSize \cup { 0 } ]
  BY DEF SetSeries, IInv, TypeOK
<1>3. TypeOK'
  BY <1>1, <1>2 DEF IInv, TypeOK
<1>4. ASSUME NEW i \in Ids, series'[i] # 0 PROVE << i, series'[i] >> \in DOMAIN files'
  <2>1. i # id /\ series'[i] = series[i]
    BY <1>4 DEF SetSeries
  <2> QED
    BY <1>1, <1>4, <2>1 DEF IInv, OneFilePerSeries
<1> QED
  BY <1>1, <1>3, <1>4 DEF IInv, OneFilePerSeries

-----------------------------------------------------------------------------
LEMMA WriteStep ==
  ASSUME IInv, NeverOneLeft, NEW id \in SeriesId, NEW point_size \in PointSize, NEW batch \in Batches,
         database_write(id, point_size, batch), UNCHANGED << descriptors, removable >>
  PROVE  IInv'
<1>1. PICK s \in Created(id, point_size) :
        \/ /\ s = 0
           /\ reply' = Answer("write", id, -1)
           /\ UNCHANGED << files, running, series >>
        \/ s # 0 /\ WriteTo(id, s, point_size, batch)
  BY Zenon DEF database_write
<1>2. CASE UNCHANGED << files, running, series >>
  BY <1>2, OpenStep DEF IInv, TypeOK, OneFilePerSeries
<1>3. ASSUME s # 0
      PROVE  /\ id \in Ids /\ s \in PointSize
             /\ FilesOf(id) \subseteq { << id, s >> }
             /\ s # point_size => << id, s >> \in DOMAIN files
  BY <1>3, CreatedIs
<1>4. ASSUME s # 0, s # point_size, SetSeries(id, s), UNCHANGED << files, running >>
      PROVE  IInv'
  <2>1. series' \in [ Ids -> PointSize \cup { 0 } ]
    BY <1>3, <1>4 DEF SetSeries, IInv, TypeOK
  <2>2. \A i \in Ids : series'[i] # 0 => << i, series'[i] >> \in DOMAIN files
    BY <1>3, <1>4 DEF SetSeries, IInv, OneFilePerSeries
  <2> QED
    BY <1>4, <2>1, <2>2, OpenStep DEF IInv, TypeOK
<1>5. ASSUME s # 0, NEW new \in PrepareInput(batch), Store(<< id, s >>, new), SetSeries(id, s), UNCHANGED running
      PROVE  IInv'
  BY <1>3, <1>5, BatchType, StoreStep
<1>6. ASSUME running' = FALSE, series' = Closed, UNCHANGED files
      PROVE  IInv'
  BY <1>6, ClosedStep, Zenon
<1> QED
  BY <1>1, <1>2, <1>4, <1>5, <1>6, Zenon DEF WriteTo

LEMMA NoFiles == Init => DOMAIN files = {}
BY DEF Init

LEMMA InitIInv == Init => IInv
<1> SUFFICES ASSUME Init PROVE IInv
  OBVIOUS
<1>1. DOMAIN files = {}
  BY NoFiles
<1>2. series = Closed /\ running = FALSE /\ descriptors \in Descriptors /\ removable \in BOOLEAN
  BY DEF Init
<1> QED
  BY <1>1, <1>2, Zenon DEF IInv, TypeOK, OneFilePerSeries, Closed

LEMMA CallStep == ASSUME IInv, NeverOneLeft, Call, UNCHANGED << descriptors, removable >> PROVE IInv'
<1>1. CASE database_create \/ database_destroy
  BY <1>1, ClosedStep, Zenon DEF database_create, database_destroy
<1>2. ASSUME NEW id \in SeriesId, NEW s \in PointSize, NEW batch \in Batches, database_write(id, s, batch)
      PROVE  IInv'
  BY <1>2, WriteStep
<1>3. ASSUME NEW id \in SeriesId, database_truncate(id) PROVE IInv'
  BY <1>3, RemoveStep DEF database_truncate
<1>4. ASSUME NEW id \in SeriesId, database_get_point_size(id) \/ database_read_latest(id) PROVE IInv'
  BY <1>4, LoadStep, Zenon DEF database_get_point_size, database_read_latest
<1>5. ASSUME NEW id \in SeriesId, NEW begin \in Time, NEW end \in Time, NEW max \in 0 .. MaxRead,
             database_read(id, begin, end, max)
      PROVE  IInv'
  BY <1>5, LoadStep DEF database_read
<1> QED
  BY <1>1, <1>2, <1>3, <1>4, <1>5 DEF Call

LEMMA NextIInv == ASSUME IInv, NeverOneLeft, [Next]_vars PROVE IInv'
<1>1. CASE Environment
  BY <1>1, OpenStep DEF Environment, IInv, TypeOK, OneFilePerSeries
<1>2. CASE UNCHANGED vars
  BY <1>2, OpenStep DEF vars, environment, IInv, TypeOK, OneFilePerSeries
<1> QED
  BY <1>1, <1>2, CallStep DEF Next, environment

(* A series has one file, whatever sizes are written to it and however     *)
(* often it is truncated, closed and found again by readdir, as long as    *)
(* database.c is never left with a single descriptor.                      *)
THEOREM DatabaseSafety ==
  ASSUME NeverOneLeft
  PROVE  Spec => [](TypeOK /\ OneFilePerSeries)
<1>1. IInv /\ [Next]_vars => IInv'
  BY NextIInv
<1>2. IInv => TypeOK /\ OneFilePerSeries
  BY DEF IInv
<1> QED
  BY InitIInv, <1>1, <1>2, PTL DEF Spec

(* The directory holds files of series ids and point sizes, each with one  *)
(* point per time, and the table of database.c has an entry for every id.  *)
THEOREM DatabaseTypes ==
  ASSUME NeverOneLeft
  PROVE  Spec => []TypeOK
<1>1. Spec => [](TypeOK /\ OneFilePerSeries)
  BY DatabaseSafety
<1> QED
  BY <1>1, PTL

-----------------------------------------------------------------------------
(* The definitions DatabaseStore and Database share. *)
LEMMA SameIds == Promise!Ids = Ids
BY DEF Promise!Ids, Ids

LEMMA SameFirst == \A S, max : Promise!First(S, max) = First(S, max)
<1>1. \A S : Promise!Cardinality(S) = Cardinality(S)
  BY DEF Promise!Cardinality, Cardinality
<1>2. \A S : Promise!SortPoints(S) = SortPoints(S)
  BY DEF Promise!SortPoints, SortPoints, Promise!Rank, Rank, Promise!Cardinality, Cardinality
<1> QED
  BY <1>1, <1>2 DEF Promise!First, First

LEMMA SameWrites ==
  /\ \A batch : Promise!PrepareInput(batch) = PrepareInput(batch)
  /\ \A old, new : Promise!Overwrite(old, new) = Overwrite(old, new)
<1>1. \A batch : Promise!PrepareInput(batch) = PrepareInput(batch)
  BY DEF Promise!PrepareInput, PrepareInput, Promise!DistinctTimes, DistinctTimes, Promise!Times, Times
<1>2. \A old, new : Promise!Overwrite(old, new) = Overwrite(old, new)
  BY DEF Promise!Overwrite, Overwrite, Promise!Times, Times
<1> QED
  BY <1>1, <1>2

LEMMA SameAnswer == \A op, id, result : Promise!Answer(op, id, result) = Answer(op, id, result)
BY DEF Promise!Answer, Answer

(* The size and the points of a series, from what a call has found. *)
LEMMA SizeFound ==
  ASSUME IInv, NEW id, NEW s, FilesOf(id) = { << id, s >> }
  PROVE  SizeOf(id) = s
<1> DEFINE f == CHOOSE f \in FilesOf(id) : TRUE
<1>1. f \in FilesOf(id)
  OBVIOUS
<1> HIDE DEF f
<1>2. f = << id, s >>
  BY <1>1
<1>3. SizeOf(id) = f[2]
  BY Zenon DEF SizeOf, f
<1> QED
  BY <1>2, <1>3

LEMMA SizeNone ==
  ASSUME NEW id, FilesOf(id) = {}
  PROVE  SizeOf(id) = 0
BY DEF SizeOf

(* A series the call did not find although it has a file is one of a       *)
(* process without descriptors; all others are seen as they are.           *)
LEMMA Seen ==
  ASSUME IInv, NEW id, NEW s \in Loaded(id)
  PROVE  /\ StoredIn(<< id, 0 >>) = {}
         /\ id \in Ids /\ s # 0 => s = SizeOf(id)
         /\ id \in Ids /\ s = 0 /\ descriptors = 2 => SizeOf(id) = 0
         /\ id \notin Ids => s = 0
<1>1. << id, 0 >> \notin DOMAIN files
  BY LoadedIs, Zenon
<1>2. StoredIn(<< id, 0 >>) = {}
  BY <1>1 DEF StoredIn
<1>3. id \in Ids /\ s # 0 => s = SizeOf(id)
  BY LoadedIs, SizeFound, Zenon
<1>4. id \in Ids /\ s = 0 /\ descriptors = 2 => SizeOf(id) = 0
  BY LoadedIs, SizeNone, Zenon
<1>5. id \notin Ids => s = 0
  BY LoadedIs, Zenon
<1> QED
  BY <1>2, <1>3, <1>4, <1>5

PointsOf(id) == StoredIn(<< id, SizeOf(id) >>)

(* A series has no file, or the one that gives its size and its points. *)
Described(id) ==
  \/ FilesOf(id) = {} /\ SizeOf(id) = 0 /\ PointsOf(id) = {}
  \/ \E s \in PointSize : FilesOf(id) = { << id, s >> } /\ SizeOf(id) = s /\ PointsOf(id) = files[<< id, s >>]

AllDescribed == \A id : Described(id)

LEMMA Description == IInv => AllDescribed
<1> SUFFICES ASSUME IInv, NEW id PROVE Described(id)
  BY DEF AllDescribed
<1> USE DEF Described
<1>1. CASE FilesOf(id) = {}
  <2>1. << id, 0 >> \notin DOMAIN files
    BY <1>1 DEF FilesOf
  <2> QED
    BY <1>1, <2>1, SizeNone DEF PointsOf, StoredIn
<1>2. CASE FilesOf(id) # {}
  <2>1. PICK f \in FilesOf(id) : TRUE
    BY <1>2
  <2>2. f \in Ids \X PointSize /\ f[1] = id /\ f \in DOMAIN files
    BY <2>1 DEF FilesOf, IInv, TypeOK
  <2>3. PICK s \in PointSize : f = << id, s >>
    BY <2>2
  <2>4. FilesOf(id) = { << id, s >> }
    BY <2>1, <2>2, <2>3 DEF FilesOf, IInv, OneFilePerSeries
  <2>5. SizeOf(id) = s
    BY <2>4, SizeFound, Zenon
  <2>6. PointsOf(id) = files[<< id, s >>]
    BY <2>2, <2>3, <2>5 DEF PointsOf, StoredIn
  <2> QED
    BY <2>4, <2>5, <2>6
<1> QED
  BY <1>1, <1>2, Zenon

(* A series whose files do not change keeps its size and its points. *)
LEMMA SeriesKept ==
  ASSUME IInv, IInv', NEW id, FilesOf(id)' = FilesOf(id), \A f \in FilesOf(id) : files'[f] = files[f]
  PROVE  SizeOf(id)' = SizeOf(id) /\ PointsOf(id)' = PointsOf(id)
<1>1. AllDescribed /\ AllDescribed'
  BY Description, PTL
<1>2. Described(id) /\ Described(id)'
  BY <1>1 DEF AllDescribed
<1>3. CASE FilesOf(id) = {}
  BY <1>2, <1>3, Zenon DEF Described
<1>4. CASE FilesOf(id) # {}
  <2>1. PICK s \in PointSize : FilesOf(id) = { << id, s >> } /\ SizeOf(id) = s /\ PointsOf(id) = files[<< id, s >>]
    BY <1>2, <1>4 DEF Described
  <2>2. PICK r \in PointSize : FilesOf(id)' = { << id, r >> } /\ SizeOf(id)' = r /\ PointsOf(id)' = files'[<< id, r >>]
    BY <1>2, <1>4, Zenon DEF Described
  <2>3. r = s
    BY <2>1, <2>2
  <2> QED
    BY <2>1, <2>2, <2>3
<1> QED
  BY <1>3, <1>4

LEMMA EmptyFirst == ASSUME NEW max \in Nat PROVE First({}, max) = << >>
<1>1. Cardinality({}) = 0
  BY FS_EmptySet
<1>2. (IF Cardinality({}) < max THEN Cardinality({}) ELSE max) = 0
  BY <1>1
<1> QED
  BY <1>2 DEF First

-----------------------------------------------------------------------------
(* The state of DatabaseStore does not change. *)
SameStore == \A id : SizeOf(id)' = SizeOf(id) /\ PointsOf(id)' = PointsOf(id)

LEMMA FilesKept == ASSUME IInv, IInv', UNCHANGED files PROVE SameStore
<1>1. \A id : FilesOf(id)' = FilesOf(id)
  BY DEF FilesOf
<1> QED
  BY <1>1, SeriesKept DEF SameStore

(* What DatabaseStore is given for its variables. *)
LEMMA Unchanged ==
  ASSUME SameStore
  PROVE  /\ [ id \in Ids |-> SizeOf(id) ]' = [ id \in Ids |-> SizeOf(id) ]
         /\ [ id \in Ids |-> StoredIn(<< id, SizeOf(id) >>) ]' = [ id \in Ids |-> StoredIn(<< id, SizeOf(id) >>) ]
BY DEF SameStore, PointsOf

(* A call that finds nothing of an existing series. *)
LEMMA AbsentRefines ==
  ASSUME NEW id \in SeriesId, SameStore, UNCHANGED << descriptors, removable >>, descriptors # 2,
         reply' \in { Answer("write", id, -1), Answer("truncate", id, 0), Answer("size", id, 0),
                      Answer("read", id, << >>), Answer("latest", id, << >>) }
  PROVE  Promise!Next
<1>1. reply'.id = id
  BY DEF Answer
<1>2. Promise!Absent(id)
  BY Unchanged, SameAnswer DEF Promise!Absent
<1>3. Promise!Call(id)
  BY <1>2 DEF Promise!Call
<1> QED
  BY <1>1, <1>3 DEF Promise!Next

(* A call either sees the series as it is, or nothing of it for want of    *)
(* descriptors.                                                            *)
LEMMA StoredSeen ==
  ASSUME IInv, NEW id, NEW s \in Loaded(id)
  PROVE  \/ /\ Promise!Stored(id) = StoredIn(<< id, s >>)
            /\ s = IF id \in Ids THEN SizeOf(id) ELSE 0
         \/ descriptors # 2 /\ s = 0 /\ StoredIn(<< id, s >>) = {}
<1>1. CASE id \notin Ids
  <2>1. s = 0 /\ StoredIn(<< id, s >>) = {}
    BY <1>1, Seen, Zenon
  <2> QED
    BY <1>1, <2>1, SameIds DEF Promise!Stored
<1>2. CASE id \in Ids /\ s = SizeOf(id)
  BY <1>2, SameIds DEF Promise!Stored
<1>3. CASE id \in Ids /\ s # SizeOf(id)
  BY <1>3, Seen, Zenon
<1> QED
  BY <1>1, <1>2, <1>3

LEMMA SizeRefines ==
  ASSUME IInv, IInv', NEW id \in SeriesId, database_get_point_size(id), UNCHANGED << descriptors, removable >>
  PROVE  Promise!Next
<1>1. PICK s \in Loaded(id) : reply' = Answer("size", id, s)
  BY DEF database_get_point_size
<1>2. SameStore
  BY FilesKept DEF database_get_point_size
<1>3. CASE s = IF id \in Ids THEN SizeOf(id) ELSE 0
  <2>1. Promise!GetPointSize(id)
    BY <1>1, <1>2, <1>3, Unchanged, SameAnswer, SameIds DEF Promise!GetPointSize
  <2>2. reply'.id = id
    BY <1>1 DEF Answer
  <2> QED
    BY <2>1, <2>2 DEF Promise!Next, Promise!Call
<1>4. CASE descriptors # 2 /\ s = 0
  BY <1>1, <1>2, <1>4, AbsentRefines
<1> QED
  BY <1>3, <1>4, StoredSeen, Zenon

LEMMA LatestRefines ==
  ASSUME IInv, IInv', NEW id \in SeriesId, database_read_latest(id), UNCHANGED << descriptors, removable >>
  PROVE  Promise!Next
<1> DEFINE LatestOf(S) == { p \in S : \A q \in S : q.time <= p.time }
<1>1. PICK s \in Loaded(id) : reply' = Answer("latest", id, First(LatestOf(StoredIn(<< id, s >>)), 1))
  BY Zenon DEF database_read_latest
<1>2. SameStore
  BY FilesKept DEF database_read_latest
<1>3. CASE Promise!Stored(id) = StoredIn(<< id, s >>)
  <2>1. Promise!ReadLatest(id)
    BY <1>1, <1>2, <1>3, Unchanged, SameAnswer, SameFirst DEF Promise!ReadLatest
  <2>2. reply'.id = id
    BY <1>1 DEF Answer
  <2> QED
    BY <2>1, <2>2 DEF Promise!Next, Promise!Call
<1>4. CASE descriptors # 2 /\ StoredIn(<< id, s >>) = {}
  <2>1. LatestOf(StoredIn(<< id, s >>)) = {}
    BY <1>4
  <2>2. First({}, 1) = << >>
    BY EmptyFirst
  <2> HIDE DEF LatestOf
  <2>3. reply' = Answer("latest", id, << >>)
    <3>1. reply' = Answer("latest", id, First({}, 1))
      BY <1>1, <2>1, Zenon
    <3> QED
      BY <2>2, <3>1, Zenon
  <2> QED
    BY <1>2, <1>4, <2>3, AbsentRefines
<1> QED
  BY <1>3, <1>4, StoredSeen

LEMMA ReadRefines ==
  ASSUME IInv, IInv', NEW id \in SeriesId, NEW begin \in Time, NEW end \in Time, NEW max \in 0 .. MaxRead,
         database_read(id, begin, end, max), UNCHANGED << descriptors, removable >>
  PROVE  Promise!Next
<1> DEFINE Window(S) == { p \in S : begin <= p.time /\ p.time < end }
<1>1. PICK s \in Loaded(id) : reply' = Answer("read", id, First(Window(StoredIn(<< id, s >>)), max))
  BY Zenon DEF database_read
<1>2. SameStore
  BY FilesKept DEF database_read
<1>3. CASE Promise!Stored(id) = StoredIn(<< id, s >>)
  <2>1. Promise!Read(id, begin, end, max)
    BY <1>1, <1>2, <1>3, Unchanged, SameAnswer, SameFirst DEF Promise!Read
  <2>2. reply'.id = id /\ reply'.op = "read"
    BY <1>1 DEF Answer
  <2>3. begin \in Promise!Time /\ end \in Promise!Time
    BY DEF Promise!Time, Time
  <2>4. Promise!Call(id)
    BY <2>1, <2>2, <2>3, SMTT(30) DEF Promise!Call
  <2> QED
    BY <2>2, <2>4 DEF Promise!Next
<1>4. CASE descriptors # 2 /\ StoredIn(<< id, s >>) = {}
  <2>1. Window(StoredIn(<< id, s >>)) = {}
    BY <1>4
  <2>2. max \in Nat
    BY DatabaseAssumption
  <2>3. reply' = Answer("read", id, << >>)
    BY <1>1, <2>1, <2>2, EmptyFirst, Zenon
  <2> QED
    BY <1>2, <1>4, <2>3, AbsentRefines
<1> QED
  BY <1>3, <1>4, StoredSeen

-----------------------------------------------------------------------------
LEMMA TruncateRefines ==
  ASSUME IInv, IInv', NEW id \in SeriesId, database_truncate(id), UNCHANGED << descriptors, removable >>
  PROVE  Promise!Next
<1>1. PICK s \in Loaded(id) : Unlink(<< id, s >>)
  BY DEF database_truncate
<1>2. reply' = Answer("truncate", id, 0) /\ reply'.id = id
  BY DEF database_truncate, Answer
<1>3. ASSUME ~ removable PROVE Promise!Next
  <2>1. DOMAIN files' = DOMAIN files /\ \A f \in DOMAIN files : files'[f] = files[f]
    BY <1>1, <1>3 DEF Unlink
  <2>2. \A i : FilesOf(i)' = FilesOf(i) /\ \A f \in FilesOf(i) : files'[f] = files[f]
    BY <2>1 DEF FilesOf
  <2>3. SameStore
    BY <2>2, SeriesKept DEF SameStore
  <2>4. Promise!Keep(id)
    BY <1>2, <1>3, <2>3, Unchanged, SameAnswer DEF Promise!Keep
  <2> QED
    BY <1>2, <2>4 DEF Promise!Next, Promise!Call
<1>4. ASSUME removable PROVE Promise!Next
  <2>1. /\ DOMAIN files' = DOMAIN files \ { << id, s >> }
        /\ \A f \in DOMAIN files' : files'[f] = files[f]
    BY <1>1, <1>4 DEF Unlink
  <2>2. ASSUME NEW i, i # id PROVE SizeOf(i)' = SizeOf(i) /\ PointsOf(i)' = PointsOf(i)
    <3>1. FilesOf(i)' = FilesOf(i) /\ \A f \in FilesOf(i) : files'[f] = files[f]
      BY <2>1, <2>2 DEF FilesOf
    <3> QED
      BY <3>1, SeriesKept
  <2>3. CASE FilesOf(id)' = {}
    <3>1. SizeOf(id)' = 0 /\ PointsOf(id)' = {}
      <4>1. AllDescribed'
        BY Description, PTL
      <4> QED
        BY <2>3, <4>1, Zenon DEF AllDescribed, Described
    <3>2. Promise!Truncate(id)
      BY <1>2, <1>4, <2>2, <3>1, SameIds, SameAnswer, Zenon DEF Promise!Truncate, PointsOf
    <3> QED
      BY <1>2, <3>2 DEF Promise!Next, Promise!Call
  <2>4. CASE FilesOf(id)' # {}
    <3>1. s = 0 /\ descriptors # 2
      <4>1. FilesOf(id)' = FilesOf(id) \ { << id, s >> }
        BY <2>1 DEF FilesOf
      <4>2. /\ id \in Ids /\ s # 0 => FilesOf(id) = { << id, s >> }
            /\ id \in Ids /\ s = 0 /\ descriptors = 2 => FilesOf(id) = {}
            /\ id \notin Ids => FilesOf(id) = {}
        BY LoadedIs, Zenon
      <4> QED
        BY <2>4, <4>1, <4>2
    <3>2. SameStore
      <4>1. << id, s >> \notin DOMAIN files
        BY <3>1, LoadedIs
      <4>2. DOMAIN files \ { << id, s >> } = DOMAIN files
        BY <4>1
      <4>3. FilesOf(id)' = FilesOf(id) /\ \A f \in FilesOf(id) : files'[f] = files[f]
        BY <2>1, <4>2, SMTT(30) DEF FilesOf
      <4>4. SizeOf(id)' = SizeOf(id) /\ PointsOf(id)' = PointsOf(id)
        BY <4>3, SeriesKept
      <4> QED
        BY <2>2, <4>4 DEF SameStore
    <3> QED
      BY <1>2, <3>1, <3>2, AbsentRefines
  <2> QED
    BY <2>3, <2>4
<1> QED
  BY <1>3, <1>4

LEMMA StoreRefines ==
  ASSUME IInv, IInv', NEW id \in SeriesId, id \in Ids, NEW s \in PointSize, NEW batch \in Batches,
         FilesOf(id) \subseteq { << id, s >> }, NEW new \in PrepareInput(batch),
         Store(<< id, s >>, new), reply' = Answer("write", id, IF new = {} THEN -1 ELSE 0),
         UNCHANGED << descriptors, removable >>
  PROVE  Promise!Next
<1> DEFINE f == << id, s >>
<1>1. /\ DOMAIN files' = DOMAIN files \cup { f }
      /\ \A g \in DOMAIN files' : files'[g] = IF g = f THEN Overwrite(StoredIn(f), new) ELSE files[g]
  BY SMTT(30) DEF Store, WithFile
<1>2. ASSUME NEW i, i # id PROVE SizeOf(i)' = SizeOf(i) /\ PointsOf(i)' = PointsOf(i)
  <2>1. FilesOf(i)' = FilesOf(i) /\ \A g \in FilesOf(i) : files'[g] = files[g]
    BY <1>1, <1>2 DEF FilesOf
  <2> QED
    BY <2>1, SeriesKept, SMTT(30)
<1>3. AllDescribed /\ AllDescribed'
  BY Description, PTL
<1>4. SizeOf(id) \in { 0, s } /\ PointsOf(id) = StoredIn(f)
  <2>1. Described(id) /\ s # 0
    BY <1>3, DatabaseAssumption DEF AllDescribed
  <2>2. CASE FilesOf(id) = {}
    <3>1. f \notin DOMAIN files
      BY <2>2 DEF FilesOf
    <3> QED
      BY <2>1, <2>2, <3>1, Zenon DEF Described, StoredIn
  <2>3. CASE FilesOf(id) = { f }
    <3>1. f \in DOMAIN files
      BY <2>3 DEF FilesOf
    <3>2. PICK r \in PointSize : FilesOf(id) = { << id, r >> } /\ SizeOf(id) = r /\ PointsOf(id) = files[<< id, r >>]
      BY <2>1, <2>3, Zenon DEF Described
    <3>3. r = s
      BY <2>3, <3>2, SMTT(30)
    <3> QED
      BY <3>1, <3>2, <3>3 DEF StoredIn
  <2> QED
    BY <2>2, <2>3
<1>5. SizeOf(id)' = s /\ PointsOf(id)' = Overwrite(StoredIn(f), new)
  <2>1. Described(id)' /\ f \in FilesOf(id)'
    BY <1>1, <1>3, SMTT(30) DEF AllDescribed, FilesOf
  <2>2. PICK r \in PointSize : FilesOf(id)' = { << id, r >> } /\ SizeOf(id)' = r /\ PointsOf(id)' = files'[<< id, r >>]
    BY <2>1 DEF Described
  <2>3. r = s
    BY <2>1, <2>2, SMTT(30)
  <2>4. files'[f] = Overwrite(StoredIn(f), new)
    BY <1>1
  <2> QED
    BY <2>2, <2>3, <2>4, SMTT(30)
<1>6. Promise!Write(id, s, batch)
  BY <1>2, <1>4, <1>5, SameIds, SameAnswer, SameWrites, Zenon DEF Promise!Write, PointsOf
<1>7. reply'.id = id
  BY DEF Answer
<1> QED
  BY <1>6, <1>7, SMTT(30) DEF Promise!Next, Promise!Call

LEMMA WriteRefines ==
  ASSUME IInv, IInv', NeverOneLeft, NEW id \in SeriesId, NEW point_size \in PointSize, NEW batch \in Batches,
         database_write(id, point_size, batch), UNCHANGED << descriptors, removable >>
  PROVE  [Promise!Next]_(Promise!vars)
<1>1. PICK s \in Created(id, point_size) :
        \/ /\ s = 0
           /\ reply' = Answer("write", id, -1)
           /\ UNCHANGED << files, running, series >>
        \/ s # 0 /\ WriteTo(id, s, point_size, batch)
  BY Zenon DEF database_write
<1>0. /\ s # 0 => /\ id \in Ids /\ s \in PointSize
                  /\ \/ FilesOf(id) = { << id, s >> } /\ << id, s >> \in DOMAIN files
                     \/ FilesOf(id) = {} /\ s = point_size
      /\ s = 0 => id \notin Ids \/ descriptors # 2
  BY <1>1, CreatedIs
<1>2. ASSUME reply' = Answer("write", id, -1), UNCHANGED files, id \notin Ids \/ SizeOf(id) \notin { 0, point_size }
      PROVE  Promise!Next
  <2>1. SameStore
    BY <1>2, FilesKept
  <2>2. Promise!Refuse(id)
    BY <1>2, <2>1, Unchanged, SameAnswer DEF Promise!Refuse
  <2>3. Promise!Call(id)
    BY <1>2, <2>2, SameIds DEF Promise!Call
  <2>4. reply'.id = id
    BY <1>2 DEF Answer
  <2> QED
    BY <2>3, <2>4 DEF Promise!Next
<1>3. CASE s = 0
  <2>1. CASE id \notin Ids
    BY <1>1, <1>2, <1>3, <2>1
  <2>2. CASE descriptors # 2
    BY <1>1, <1>3, <2>2, FilesKept, AbsentRefines
  <2> QED
    BY <1>0, <1>3, <2>1, <2>2
<1>4. ASSUME s # 0, s # point_size, reply' = Answer("write", id, -1), UNCHANGED files PROVE Promise!Next
  <2>1. FilesOf(id) = { << id, s >> } /\ s \in PointSize
    BY <1>0, <1>4
  <2>2. SizeOf(id) = s
    BY <2>1, SizeFound, Zenon
  <2> QED
    BY <1>2, <1>4, <2>2
<1>5. ASSUME s # 0, s = point_size, NEW new \in PrepareInput(batch), Store(<< id, s >>, new),
             reply' = Answer("write", id, IF new = {} THEN -1 ELSE 0)
      PROVE  Promise!Next
  <2>1. FilesOf(id) \subseteq { << id, s >> } /\ id \in Ids /\ s \in PointSize
    BY <1>0, <1>5
  <2> QED
    BY <1>5, <2>1, StoreRefines, SMTT(30)
<1>6. ASSUME UNCHANGED << files, reply >> PROVE UNCHANGED Promise!vars
  BY <1>6, FilesKept, Unchanged DEF Promise!vars
<1> QED
  BY <1>1, <1>3, <1>4, <1>5, <1>6 DEF WriteTo

LEMMA InitRefines == Init => Promise!Init
<1> SUFFICES ASSUME Init PROVE Promise!Init
  OBVIOUS
<1>1. \A id : FilesOf(id) = {}
  BY NoFiles DEF FilesOf
<1>2. \A id : SizeOf(id) = 0 /\ StoredIn(<< id, 0 >>) = {}
  BY <1>1, SizeNone, NoFiles DEF StoredIn
<1>3. reply = Promise!Answer("none", 0, 0)
  BY SameAnswer DEF Init
<1>4. (descriptors = 2) \in BOOLEAN /\ removable \in BOOLEAN
  BY Zenon DEF Init
<1>5. \A id : StoredIn(<< id, SizeOf(id) >>) = {}
  BY <1>2, Zenon
<1> QED
  BY <1>2, <1>3, <1>4, <1>5, SameIds, Zenon DEF Promise!Init

LEMMA NextRefines ==
  ASSUME IInv, IInv', NeverOneLeft, [Next]_vars
  PROVE  [Promise!Next]_(Promise!vars)
<1>1. ASSUME UNCHANGED << files, reply, descriptors, removable >> PROVE UNCHANGED Promise!vars
  BY <1>1, FilesKept, Unchanged DEF Promise!vars
<1>2. CASE Environment
  <2>1. SameStore /\ UNCHANGED reply /\ removable' \in BOOLEAN
    BY <1>2, FilesKept DEF Environment
  <2>2. (descriptors = 2)' \in BOOLEAN
    BY Zenon
  <2> QED
    BY <2>1, <2>2, Unchanged, Zenon DEF Promise!Next
<1>3. CASE UNCHANGED vars
  BY <1>1, <1>3 DEF vars, environment
<1>4. CASE Call /\ UNCHANGED << descriptors, removable >>
  <2>1. CASE database_create \/ database_destroy
    BY <1>1, <1>4, <2>1 DEF database_create, database_destroy
  <2>2. ASSUME NEW id \in SeriesId, NEW s \in PointSize, NEW batch \in Batches, database_write(id, s, batch)
        PROVE  [Promise!Next]_(Promise!vars)
    BY <1>4, <2>2, WriteRefines
  <2>3. ASSUME NEW id \in SeriesId,
               database_truncate(id) \/ database_get_point_size(id) \/ database_read_latest(id)
        PROVE  Promise!Next
    BY <1>4, <2>3, TruncateRefines, SizeRefines, LatestRefines
  <2>4. ASSUME NEW id \in SeriesId, NEW begin \in Time, NEW end \in Time, NEW max \in 0 .. MaxRead,
               database_read(id, begin, end, max)
        PROVE  Promise!Next
    BY <1>4, <2>4, ReadRefines
  <2> QED
    BY <1>4, <2>1, <2>2, <2>3, <2>4 DEF Call
<1> QED
  BY <1>2, <1>3, <1>4 DEF Next, environment

(* The lazily loaded table of database.c over its directory is the         *)
(* database DatabaseStore describes, through restarts, a process without   *)
(* descriptors and files that stay, for any ids, sizes and points.         *)
THEOREM DatabaseRefinement ==
  ASSUME NeverOneLeft
  PROVE  Spec => ImplementsDatabase
<1>1. IInv /\ [Next]_vars => IInv'
  BY NextIInv
<1>2. IInv /\ IInv' /\ [Next]_vars => [Promise!Next]_(Promise!vars)
  BY NextRefines
<1> QED
  BY InitIInv, InitRefines, <1>1, <1>2, PTL DEF Spec, ImplementsDatabase, Promise!Spec
=============================================================================
