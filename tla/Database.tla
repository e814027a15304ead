------------------------------ MODULE Database ------------------------------
(***************************************************************************)
(* The database (src/storage/database.c): a directory with one file per    *)
(* series, named after the series and its point size, and a table of the   *)
(* series that are open.  A series is opened by the first call that needs  *)
(* it, from whichever matching file readdir finds first.                   *)
(*                                                                         *)
(* A file is the set of its points here: that the calls of series.c act on *)
(* such a set is what module Series shows (ImplementsStore).  Opening the  *)
(* directory takes a descriptor, opening a file meanwhile another one; the *)
(* process, whose connections take descriptors too, may have none left.    *)
(* Nobody looks at what unlink returns, and it may fail.                   *)
(***************************************************************************)
EXTENDS DataPoints

CONSTANTS
  SeriesId,     \* the ids users name
  MaxSeries,    \* db->max_series_count
  PointSize,    \* the point sizes users write
  Descriptors,  \* how many more files can be opened, now and then; 2 is enough
  MaxBatch,     \* bound: points in one batch
  MaxRead       \* bound: max_points of one read

ASSUME DatabaseAssumption ==
  /\ SeriesId \subseteq Nat
  /\ MaxSeries \in Nat
  /\ PointSize \subseteq Nat \ {0}
  /\ Descriptors \subseteq 0 .. 2
  /\ MaxBatch \in Nat
  /\ MaxRead \in Nat

VARIABLES
  files,     \* the directory: the points in each file << id, point size >>
  running,   \* between database_create and database_destroy
  series,    \* db->series: the point size of an open series, 0 for NULL
  reply,     \* what the last call returned
  descriptors,
  removable  \* unlink succeeds

environment == << descriptors, removable >>
vars == << files, running, series, reply, environment >>

Ids == { id \in SeriesId : id < MaxSeries }
Closed == [ id \in Ids |-> 0 ]

(* The times series.c can store: see module Series for the other two. *)
Batches ==
  { b \in SUBSET [ time : 0 .. MaxTime - 2, value : Value ] :
      IsFiniteSet(b) /\ Cardinality(b) <= MaxBatch }

First(S, max) ==
  LET n == Cardinality(S)
  IN  [ i \in 1 .. (IF n < max THEN n ELSE max) |-> SortPoints(S)[i] ]

Answer(op, id, result) == [ op |-> op, id |-> id, result |-> result ]

FilesOf(id) == { f \in DOMAIN files : f[1] = id }

-----------------------------------------------------------------------------
(* database_get_or_load_data_series: the point sizes of the series it can  *)
(* return, 0 for NULL.  A directory or file that cannot be opened is taken *)
(* for one that does not exist.                                            *)
Loaded(id) ==
  IF id \notin Ids THEN { 0 }
  ELSE IF series[id] # 0 THEN { series[id] }
  ELSE IF descriptors < 2 \/ FilesOf(id) = {} THEN { 0 }
  ELSE { f[2] : f \in FilesOf(id) }

(* Mutant: the file for the point size is opened without looking for one. *)
Created_NoLoad(id, point_size) ==
  IF id \notin Ids THEN { 0 }
  ELSE IF series[id] # 0 THEN { series[id] } ELSE { point_size }

(* database_get_or_create_data_series: if nothing was loaded, the file for *)
(* this point size is opened or created; the directory is closed by then.  *)
Created(id, point_size) ==
  IF id \notin Ids THEN { 0 }
  ELSE { IF s = 0 /\ descriptors > 0 THEN point_size ELSE s : s \in Loaded(id) }

SetSeries(id, s) == series' = [ i \in Ids |-> IF i = id THEN s ELSE series[i] ]

StoredIn(f) == IF f \in DOMAIN files THEN files[f] ELSE {}

WithFile(f, S) == [ g \in DOMAIN files \cup { f } |-> IF g = f THEN S ELSE files[g] ]

-----------------------------------------------------------------------------
Init ==
  /\ files = << >>
  /\ running = FALSE
  /\ series = Closed
  /\ reply = Answer("none", 0, 0)
  /\ descriptors \in Descriptors /\ removable \in BOOLEAN

database_create ==
  /\ ~ running
  /\ running' = TRUE
  /\ series' = Closed
  /\ UNCHANGED << files, reply >>

database_destroy ==
  /\ running
  /\ running' = FALSE
  /\ series' = Closed
  /\ UNCHANGED << files, reply >>

(* Mutant: a point is added beside the stored one of the same time. *)
Store_Add(f, new) == files' = WithFile(f, StoredIn(f) \cup new)

Store(f, new) == files' = WithFile(f, Overwrite(StoredIn(f), new))

(* series_write on the series that was opened with point size s; where the *)
(* file must grow and cannot be opened, the server dies.                   *)
WriteTo(id, s, point_size, batch) ==
  \/ /\ s # point_size
     /\ reply' = Answer("write", id, -1)
     /\ SetSeries(id, s)
     /\ UNCHANGED << files, running >>
  \/ /\ s = point_size
     /\ \E new \in PrepareInput(batch) :
          /\ Store(<< id, s >>, new)
          /\ reply' = Answer("write", id, IF new = {} THEN -1 ELSE 0)
     /\ SetSeries(id, s)
     /\ UNCHANGED running
  \/ /\ s = point_size /\ descriptors = 0 /\ Times(batch) \ {0} # {}
     /\ running' = FALSE
     /\ series' = Closed
     /\ UNCHANGED << files, reply >>

database_write(id, point_size, batch) ==
  /\ running
  /\ \E s \in Created(id, point_size) :
       \/ /\ s = 0
          /\ reply' = Answer("write", id, -1)
          /\ UNCHANGED << files, running, series >>
       \/ s # 0 /\ WriteTo(id, s, point_size, batch)

(* series_truncate_and_destroy: the file is unlinked, or stays. *)
Unlink(f) == files' = [ g \in DOMAIN files \ (IF removable THEN { f } ELSE {}) |-> files[g] ]

(* Mutant: db->series keeps the truncated series. *)
database_truncate_KeepHandle(id) ==
  /\ running
  /\ \E s \in Loaded(id) : Unlink(<< id, s >>) /\ SetSeries(id, s)
  /\ reply' = Answer("truncate", id, 0)
  /\ UNCHANGED running

database_truncate(id) ==
  /\ running
  /\ \E s \in Loaded(id) : Unlink(<< id, s >>)
  /\ SetSeries(id, 0)
  /\ reply' = Answer("truncate", id, 0)
  /\ UNCHANGED running

database_get_point_size(id) ==
  /\ running
  /\ \E s \in Loaded(id) : SetSeries(id, s) /\ reply' = Answer("size", id, s)
  /\ UNCHANGED << files, running >>

database_read_latest(id) ==
  /\ running
  /\ \E s \in Loaded(id) :
       LET S == StoredIn(<< id, s >>)
       IN  /\ SetSeries(id, s)
           /\ reply' = Answer("latest", id,
                         First({ p \in S : \A q \in S : q.time <= p.time }, 1))
  /\ UNCHANGED << files, running >>

database_read(id, begin, end, max) ==
  /\ running
  /\ \E s \in Loaded(id) :
       /\ SetSeries(id, s)
       /\ reply' = Answer("read", id,
            First({ p \in StoredIn(<< id, s >>) : begin <= p.time /\ p.time < end }, max))
  /\ UNCHANGED << files, running >>

(* Connections are made and closed, and permissions change. *)
Environment ==
  /\ descriptors' \in Descriptors /\ removable' \in BOOLEAN
  /\ UNCHANGED << files, running, series, reply >>

Call ==
  \/ database_create
  \/ database_destroy
  \/ \E id \in SeriesId :
       \/ \E s \in PointSize, batch \in Batches : database_write(id, s, batch)
       \/ database_truncate(id)
       \/ database_get_point_size(id)
       \/ database_read_latest(id)
       \/ \E begin, end \in Time, max \in 0 .. MaxRead : database_read(id, begin, end, max)

Next == (Call /\ UNCHANGED environment) \/ Environment

Spec == Init /\ [][Next]_vars

-----------------------------------------------------------------------------
TypeOK ==
  /\ DOMAIN files \subseteq Ids \X PointSize
  /\ \A f \in DOMAIN files : files[f] \subseteq Point /\ DistinctTimes(files[f])
  /\ running \in BOOLEAN
  /\ series \in [ Ids -> PointSize \cup { 0 } ]
  /\ descriptors \in Descriptors /\ removable \in BOOLEAN

(* A series never has two files, and an open series is the one in its      *)
(* file: which file readdir returns first makes no difference, provided    *)
(* that the process is never left with a single descriptor.                *)
OneFilePerSeries ==
  /\ \A f, g \in DOMAIN files : f[1] = g[1] => f = g
  /\ \A id \in Ids : series[id] # 0 => << id, series[id] >> \in DOMAIN files

(* The size and the points of a series, whether it is open or not. *)
SizeOf(id) == IF FilesOf(id) = {} THEN 0 ELSE (CHOOSE f \in FilesOf(id) : TRUE)[2]

Promise == INSTANCE DatabaseStore WITH
  available <- descriptors = 2,
  size   <- [ id \in Ids |-> SizeOf(id) ],
  points <- [ id \in Ids |-> StoredIn(<< id, SizeOf(id) >>) ]

(* Every call behaves as DatabaseStore promises; opening lazily, closing,  *)
(* starting again and dying change nothing, and nothing stored is lost     *)
(* when files cannot be opened or removed.                                 *)
ImplementsDatabase == Promise!Spec
=============================================================================
