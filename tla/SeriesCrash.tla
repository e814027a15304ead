----------------------------- MODULE SeriesCrash -----------------------------
(***************************************************************************)
(* What a crash in the middle of series_write leaves behind, and what      *)
(* series_create makes of it.  The write of module Series is taken apart   *)
(* into the steps of src/storage/series.c: grow, copy the new points or    *)
(* move the tail and copy the merged points, flush and return.             *)
(*                                                                         *)
(* When the process dies, the mapped pages survive in the page cache, and  *)
(* the copy it was in is done for any of its slots (memcpy promises no     *)
(* order).  When the machine dies, every slot has some value it held since *)
(* the last msync, and the file some length since then.  A point is stored *)
(* whole or not at all.                                                    *)
(*                                                                         *)
(* The files a crash leaves need not be ascending, so the searches and     *)
(* merges are those of UnsortedLists.                                      *)
(***************************************************************************)
EXTENDS Series, UnsortedLists

CONSTANTS
  InOrder,      \* users write only times behind everything acknowledged
  MaxCrashes    \* bound: crashes in one behaviour

ASSUME CrashAssumption == InOrder \in BOOLEAN /\ MaxCrashes \in Nat

VARIABLES
  no_flush,     \* series->no_flush
  step,         \* where series_write is
  src,          \* its prepared input
  begin,        \* the offset where the merged points go
  slice_count,  \* how many stored points they replace
  merged,       \* the merged points, on the heap
  held,         \* the values each slot may have on disk
  synced_size,  \* the least length the file may have on disk
  crashes,
  acked,        \* history: the points whose last write was acknowledged
  safe,         \* those of them acknowledged before any copy was cut short
  cut_short     \* a crash has interrupted a copy

history == << acked, safe, cut_short >>
write_vars == << step, src, begin, slice_count, merged >>
crash_vars == << vars, write_vars, held, synced_size, no_flush, crashes, history >>

-----------------------------------------------------------------------------
(* The file once the copy series_write is in has ended. *)
Copied ==
  CASE step = "append" -> Place(file, src, count, Len(src))
    [] step = "move"   -> LET end == begin + slice_count
                          IN  Place(file, Slice(file, end, count),
                                    begin + Len(merged), count - end)
    [] step = "merge"  -> Place(file, merged, begin, Len(merged))
    [] OTHER           -> file

(* The increment by which series_write, or series_create on an empty file, *)
(* is growing the file.                                                    *)
Growing ==
  CASE step = "grow"  -> Increment(Len(src))
    [] file_size = 0  -> GrowBy(GrowIncrement)
    [] OTHER          -> 0

Except(S, batch) == { p \in S : p.time \notin Times(batch) }

NoWrite ==
  /\ step' = "idle" /\ src' = << >> /\ merged' = << >>
  /\ begin' = 0 /\ slice_count' = 0

-----------------------------------------------------------------------------
CrashInit ==
  /\ Init
  /\ no_flush \in BOOLEAN
  /\ step = "idle" /\ src = << >> /\ merged = << >>
  /\ begin = 0 /\ slice_count = 0
  /\ held = << >>
  /\ synced_size = 0
  /\ crashes = 0
  /\ acked = {}
  /\ safe = {}
  /\ cut_short = FALSE

(* series_create, with the count the search finds in whatever is there. *)
Open ==
  /\ handle = "closed"
  /\ LET size == file_size + Growing
         f    == file_grow(file, file_size, Growing)
     IN  /\ file' = f
         /\ file_size' = size
         /\ points_capacity' = size
         /\ count' = Search(f, size, MaxTime - 1)
         /\ held' = [ i \in 1 .. size |->
                        IF i <= file_size THEN held[i] ELSE { Filler } ]
  /\ handle' = "open"
  /\ UNCHANGED << reply, write_vars, synced_size, no_flush, crashes, history >>

Close ==
  /\ step = "idle"
  /\ series_destroy
  /\ UNCHANGED << write_vars, held, synced_size, no_flush, crashes, history >>

(* The batches a user sends; the refusals of series_write change nothing   *)
(* and are left to module Series.                                          *)
Sendable(batch) ==
  InOrder => \A p \in batch, q \in acked : p.time > q.time

(* The points of S in ascending order: one list, when the times are distinct. *)
AscendingLists(S) ==
  UNION { { list \in [ 1 .. n -> S ] : Ascending(list, n) /\ Elems(list, n) = S } :
            n \in 0 .. MaxBatch }

BeginWrite ==
  /\ handle = "open" /\ step = "idle"
  /\ \E batch \in Batches : \E new \in PrepareInput(batch) :
       /\ Sendable(batch) /\ new # {}
       /\ src' \in AscendingLists(new)
  /\ step' = "grow"
  /\ UNCHANGED << vars, begin, slice_count, merged,
                  held, synced_size, no_flush, crashes, history >>

(* Grow if need be, and find out where the points go. *)
Grow ==
  /\ step = "grow"
  /\ file' = file_grow(file, file_size, Growing)
  /\ file_size' = file_size + Growing
  /\ points_capacity' = points_capacity + Growing
  /\ held' = [ i \in 1 .. file_size + Growing |->
                 IF i <= file_size THEN held[i] ELSE { Filler } ]
  /\ LET from == Search(file, count, src[1].time)
         to   == Search(file, count, NextTime(src[Len(src)].time))
     IN  \/ /\ src[1].time > Latest
            /\ step' = "append"
            /\ UNCHANGED << begin, slice_count, merged >>
         \/ /\ src[1].time <= Latest
            /\ step' = "move"
            /\ begin' = from
            /\ slice_count' = to - from
            /\ merged' = MergeLists(src, Slice(file, from, to))
  /\ UNCHANGED << handle, count, reply, src, synced_size, no_flush, crashes, history >>

(* One memcpy or memmove; the page cache may reach the disk at any time. *)
Copy(from, to) ==
  /\ step = from
  /\ step' = to
  /\ file' = Copied
  /\ held' = [ i \in DOMAIN held |-> held[i] \cup { file'[i] } ]
  /\ UNCHANGED << file_size, handle, points_capacity, reply, src, begin, slice_count,
                  merged, synced_size, no_flush, crashes, history >>

CopyNew   == Copy("append", "flush") /\ count' = count + Len(src)
MoveTail  == Copy("move", "merge") /\ UNCHANGED count
CopyMerge == Copy("merge", "flush") /\ count' = count + Len(merged) - slice_count

(* Mutant: the file is not flushed. *)
file_map_sync_Nothing == UNCHANGED << held, synced_size >>

file_map_sync ==
  /\ held' = [ i \in 1 .. file_size |-> { file[i] } ]
  /\ synced_size' = file_size

(* file_map_sync unless no_flush, then return to the client. *)
EndWrite ==
  LET batch == Elems(src, Len(src))
  IN  /\ step = "flush"
      /\ \/ no_flush /\ UNCHANGED << held, synced_size >>
         \/ ~ no_flush /\ file_map_sync
      /\ reply' = Status(0)
      /\ acked' = Overwrite(acked, batch)
      /\ safe' = IF cut_short THEN Except(safe, batch) ELSE Overwrite(safe, batch)
      /\ NoWrite
      /\ UNCHANGED << file, file_size, handle, points_capacity, count,
                      no_flush, crashes, cut_short >>

-----------------------------------------------------------------------------
(* What is in memory is gone.  Nothing is promised of the points of the    *)
(* write that was interrupted.                                             *)
Die ==
  /\ crashes < MaxCrashes
  /\ crashes' = crashes + 1
  /\ handle' = "closed"
  /\ points_capacity' = 0
  /\ count' = 0
  /\ NoWrite
  /\ acked' = Except(acked, Elems(src, Len(src)))
  /\ safe' = Except(safe, Elems(src, Len(src)))
  /\ cut_short' = (cut_short \/ step \in { "append", "move", "merge", "flush" })
  /\ UNCHANGED << reply, no_flush >>

(* The process dies: any part of the growth or copy it is in is done.      *)
(* This is also what the failures end in that series.c does not survive: a *)
(* full disk, on which file_grow loops until the server is killed, a       *)
(* mapping that fails, and an msync that fails.                            *)
ProcessCrash ==
  /\ handle = "open" \/ file_size = 0
  /\ LET copied == Copied
     IN  \E more \in 0 .. Growing, done \in SUBSET { i \in 1 .. file_size : copied[i] # file[i] } :
           /\ file' = [ i \in 1 .. file_size + more |->
                          IF i > file_size THEN Filler
                          ELSE IF i \in done THEN copied[i] ELSE file[i] ]
           /\ held' = [ i \in 1 .. file_size + more |->
                          IF i > file_size THEN { Filler } ELSE held[i] \cup { file'[i] } ]
           /\ file_size' = file_size + more
  /\ UNCHANGED synced_size
  /\ Die

(* The files with one slot more, which has one of the values in slot. *)
OneSlotMore(files, slot) == { Append(w[1], w[2]) : w \in files \X slot }

(* The files of the given size whose slots each hold one of the values the *)
(* disk may have there.                                                    *)
Files(disk, size) ==
  LET found[ i \in 0 .. size ] ==
        IF i = 0 THEN { << >> }
        ELSE OneSlotMore(found[i - 1], disk[i])
  IN  found[size]

(* The machine dies.  With no_flush nothing is promised in this case. *)
PowerFailure ==
  /\ ~ no_flush
  /\ LET copied == Copied
         disk   == [ i \in 1 .. file_size + Growing |->
                       IF i > file_size THEN { Filler } ELSE held[i] \cup { copied[i] } ]
     IN  \E size \in synced_size .. file_size + Growing :
           /\ file' \in Files(disk, size)
           /\ held' = [ i \in 1 .. size |-> { file'[i] } ]
           /\ file_size' = size
           /\ synced_size' = size
  /\ Die

CrashNext ==
  \/ Open \/ Close
  \/ BeginWrite \/ Grow \/ CopyNew \/ MoveTail \/ CopyMerge \/ EndWrite
  \/ ProcessCrash \/ PowerFailure

CrashSpec == CrashInit /\ [][CrashNext]_crash_vars

-----------------------------------------------------------------------------
(* No copy leaves the mapping, on whatever a crash has left. *)
CrashTypeOK ==
  /\ file_size \in Nat
  /\ file \in [ 1 .. file_size -> Point ]
  /\ held \in [ 1 .. file_size -> SUBSET Point ]
  /\ \A i \in 1 .. file_size : file[i] \in held[i]
  /\ synced_size \in 0 .. file_size
  /\ handle \in { "closed", "open" }
  /\ handle = "open" => points_capacity = file_size /\ count \in 0 .. points_capacity

(* What a read of exactly the time t returns. *)
ReadAt(t) ==
  Slice(file, Search(file, count, t), Search(file, count, NextTime(t)))

(* A point whose write was acknowledged before a crash ever cut a copy     *)
(* short can be read back after every crash, and stays readable whatever   *)
(* is written, grown, closed, opened or crashes later.                     *)
AckedSurvive ==
  handle = "open" /\ step = "idle" => \A p \in safe : ReadAt(p.time) = << p >>

(* print_usage (main.c) warns of lost data only for --no-flush: "if server *)
(* crashes you may loose your data".  Without it, whatever was             *)
(* acknowledged, before or after a crash, can be read back.                *)
AllAckedSurvive ==
  ~ no_flush /\ handle = "open" /\ step = "idle" =>
    \A p \in acked : \E i \in DOMAIN ReadAt(p.time) : ReadAt(p.time)[i] = p
=============================================================================
