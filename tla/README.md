# ShakaDB in TLA+

ShakaDB is a time series database. A server with one libuv loop keeps each
series in a memory-mapped file of points in ascending order of time; clients
write, read and truncate series over a simple packet protocol. These modules
model the server, from the loops over lists of points up to the connections and
the life of the process, its clients in C, Python and .NET, and the compression
prototype. TLC checks them on small instances; TLAPS proves the safety of the loops,
the storage and its recovery from crashes, the database, the server and its clients for
all sizes.

## The system and its hard parts

| Part | State | Operations | What is hard | Modules |
|---|---|---|---|---|
| lists of points, `data-point.c` | a list, loop indices | find, merge, sort and compact | borders of unsigned intervals, in-place compaction | `DataPointFind`, `DataPointMerge`, `DataPointDistinct` |
| series, `series.c`, `points-reader.c` | file, count, capacity | create, write (append or merge, with growth), read, read latest, truncate, destroy | the count is not stored but searched for; overlap, shift and copy in the right order | `Series`, `SeriesStore` |
| file mapping, `disk.c` | pages in memory and on disk | map, grow, sync | a crash between two steps, pages written in any order | `SeriesCrash`, `UnsortedLists` |
| database, `database.c` | table of open series, directory | create, destroy, write, truncate, reads | lazy loading, the point size in the file name, files that cannot be opened | `Database`, `DatabaseStore` |
| packet handler, `client-handler.c` | begin of the next packet | read, write, truncate, latest | the border of two packets, the end of the answer | `ReadPages`, `Session` |
| server, `server.c` | slots, buffers, the loop | accept, read, write, close, shut down | chunks, full table, shutdown in the middle of anything | `Server` |
| server program, `main.c` | `g_server`, the phase of the program | start, run, stop, tear down | signals at any moment | `Program` |
| session, `session.c` | `read_open`, the connection | write, truncate, read, next, latest | answers of earlier calls, a server that goes away | `Session` |
| `shakadbctl`, `ctl/main.c` | the command and its loop | write, read, truncate, latest | exit status, ending at all | `Ctl` |
| CSV conversions, `ctl/main.c` | the streams | to CSV, from CSV | the ends of the streams | `Csv` |
| Python and .NET clients | `read_open`, the iterators | write, truncate, latest, read, iterate, close | reads that are lazy | `Clients` |
| compression prototype, `lz4.c` | positions, hash table, output | compress, decompress | lengths, offsets and ends at their limits | `Lz4` |

The parts are layered, and so are the modules. `DataPoints` defines what find,
merge and the preparation of the input compute, by cardinalities and without
recursion. The three loop modules follow `data-point.c` statement by statement
and are proved to compute these operators; `Loops` puts them, `ReadPages` and `Csv`
together, as routines of which a behaviour runs one. `Series` uses the operators and is
proved to implement `SeriesStore`, in which a series is a set of points. That
justifies `Database`, where a file is a set of points and the subject is which
file a call works on; it implements `DatabaseStore`. A crash may leave a file that is not
ascending, for which the operators of `DataPoints` say nothing: `SeriesCrash` takes search and
merge from `UnsortedLists`, which follows the loops of `data-point.c` on any list. `ReadPages` uses `Find`
for the windows of the read loop, and its result, full packets and an empty one,
is what the server sends in `Session`. `Ctl` extends `Session` with the commands,
`Clients` extends it with programs on the other libraries. `Program` extends
`Server` with `main.c`, and is proved to take no steps of the loop that `Server`
does not. `Lz4` stands alone.

## State and actions

* **DataPointFind, DataPointMerge, DataPointDistinct**: the local variables of
  the functions; one action per path through the loop body. The inputs are all
  lists within the bounds on which the code calls the functions (`Searchable`:
  ascending, followed by filler).
* **Series**: `file` is the array of points in the file, unused ones are
  `Filler` (0xFF bytes, time `MaxTime`); `count` and `handle` are those of
  `series_t`; `reply` is what a call returns. `series_write` sorts and compacts the
  batch (`PrepareInput`: of points of equal time any may stay, as `qsort` is not
  stable), grows the file, then appends or splices. A slice of negative length is
  undefined behaviour in the code and makes `handle` "undefined". `MaxTime` stands
  for 0xFFFFFFFFFFFFFFFF and `NextTime` wraps.
* **SeriesCrash**: `series_write` in steps: growth, the copies, moving the tail,
  the flush. `ProcessCrash` keeps what was copied (shared mapping), `PowerFailure`
  keeps for every point either what was last flushed or a value written since, and
  a file size between the flushed and the current one. A system call that fails
  ends the process, by `die` or by a fault on the mapping, and is a `ProcessCrash` at
  that step; so is the death of a process that hangs in `file_grow` on a full disk. `acked` are
  the acknowledged points, `safe` those acknowledged while no copy had been cut
  short. `InOrder` restricts writes to times after the last.
* **Database**: `files` maps pairs of series id and point size to points, `series`
  is the table of open series. `descriptors` is how many more files the process can
  open: `opendir` needs one, opening a file meanwhile another. `removable` says whether
  `unlink` succeeds, which `file_unlink` does not ask.
* **ReadPages**: the variables of `handle_read`; one action per packet. A send may
  fail, which ends the answer.
* **Csv**: the loops of `to_csv` and `from_csv`, the second on what the first printed. A line
  holds what its `printf` keeps of a value: `Rounded` for floats, `Cut` for strings. `line_len` is
  the size of `getline`'s buffer, which grows and never shrinks, and which `from_csv` compares with the
  size of a value. The values are those whose text is one line, and strings end within
  their size; the time before the first `fscanf` is any.
* **Server**: connections are in the kernel's queue (backlog), handed to the
  callback and not accepted (held), alive or closing. Callbacks are actions.
  Bytes are counted: `requests` are the packets a client has sent that were not handled, each with
  the place behind it, and `in_flight` says how many of their bytes were not read. Any stream of bytes is a sequence
  of packets to `on_data_read`, of any size and any kind, up to the first it refuses; a size that
  leaves no payload passes the test of `total_size`, but not `payload_validate`, which is given the size less a
  header, wrapped around (only a write that declares some 4 GiB of points would agree with it, and is left out).
  A client waits for its answers or, in `Pipelining`, has up to `Depth` requests under way. The `memcpy` that moves
  the rest of the buffer to its front may overlap, and is modelled as the move that is meant. `writing` counts the
  answers in `uv_write`. Clients,
  signals and libuv are modelled from how `server.c` uses them; in particular libuv
  stops polling a listening socket until the connection it has handed out is accepted.
* **Program**: `phase` is the statement `main` and `master_routine` are at, `g_server` the
  pointer the signal handler looks at. A signal before the handlers are installed
  kills, one that finds no server is swallowed, one that finds a freed server has any outcome.
* **Session, Ctl**: `Session` has the calls, `Ctl` the commands and a program that
  makes calls in any order. Requests and answers under way are two sequences.
  Blocking calls are two actions, sending and taking the answer. The server may
  disconnect at any moment, and of what it sent any prefix arrives. `accepted` counts the points of the writes
  the series has taken since it was emptied, which is an upper bound of what it holds; `due` is
  what the server finds for a read, nothing if it cannot open the series. `carried_out` says that the server has handled the request of the
  last write or truncation with status 0; for a truncation that does not mean that the series is empty.
* **Clients**: programs that make calls of the Python or the .NET library in any
  order. `reader` holds the iterators; a Python generator is "created" until its
  first advance sends the request, a .NET result is "open" at once. Failures raise.
  A program lets go of an iterator at any moment; `read_open` then stays set, as in the code.
* **Lz4**: one action per round of the loops of `LZ4_compress_generic` and
  `LZ4_decompress_generic`, for the variants that `LZ4_compress` and
  `LZ4_decompress_safe` select. A copy is modelled by the bytes it leaves (`Repeat` is the result of the copy
  that overlaps itself, whatever table of offsets brought it about) and by how far its words
  reach in the output (`reach`), wanted or not.

Definitions named `X_Something` before a definition `X` are variants of it with
a plausible mistake; each shows that some property would notice the mistake.

## Runs

| Run | Configuration | Shows | Bounds |
|---|---|---|---|
| loops | `MCLoops` on `Loops` | search, merge and compaction compute the operators of `DataPoints`; the answer to a read is exactly the window; CSV loses no point; all of them end | lists of up to 4 points, 5 times, 2 values, packets of 1 to 3, string sizes and line buffers on either side of each other: every overlap, intervals of every parity, keys at and beyond both ends, windows that end at the border of a packet |
| series | `MCSeries` | copies stay in the mapping, points ascend, the count is recoverable; `Series` implements `SeriesStore` | 3 usable times, batches of up to 3, growth by 2, so that growth, append and every kind of overlap happen |
| crash | `MCSeriesCrash` | points acknowledged before a copy was cut short survive | in-order writes, two crashes, growth by two points |
| database | `MCDatabase` | one file per series; `Database` implements `DatabaseStore` | two series and an id past the limit, two point sizes, no descriptor left or enough of them, files that can or cannot be removed |
| program | `MCProgram` | the table is exact, the buffer fits, framing stays in step, nothing outlives the server, requests end, a signal that finds the server ends the program | two connections for one slot, one with two requests under way; headers of 2 bytes, packets and reads of up to 4, requests of 1 to 6: a header in pieces, a request in pieces, two in one read, one that is shorter than its header and one that is too long |
| clients | `MCClients` | answers go to their calls; results, exit codes and exceptions agree with what the server has done; iterators that end are complete; commands other than latest and calls of the libraries end | up to 4 points, pages of 2, up to 3 batches of up to 2 points, writes of two requests, one iterator at a time |
| lz4 | `MCLz4` | every block is decoded to itself, too small a buffer is refused and never written over, offsets fit into two bytes, blocks stay within `LZ4_compressBound` | all blocks of up to 11 bits, and blocks of 21 to 28 bytes that repeat a short cycle and end as they begin |

In `MCLz4` the constants of the format are scaled down together: a half byte is below
`Nibble` = 2 (16 in the code), a byte below 4, an offset below 16. Lengths of several
bytes, both sides of `LZ4_64KLIMIT` and distances that do not fit then occur in blocks
of two dozen bytes. As in the code a match is no shorter than the token and offset that
encode it, and a word no shorter than a match.

Deadlock is not checked where the system may stop: after a routine (`MCLoops`), after
the end of the program (`Program`) and after a command (`Clients`).

### Disagreements between the code and what the repository says of it

| Run | What happens |
|---|---|
| series_max_time | `last time + 1` wraps for the largest timestamp and the order of the points is lost |
| crash_out_of_order | a crash in an out-of-order write loses points that were flushed and acknowledged earlier |
| server_full | after a connection that found the table full, no connection is accepted any more |
| ctl_latest | the latest command waits for a packet that is never sent; without a packet it reads through NULL |
| python_reads | two generators made before either is advanced are both read from, although a second read is meant to be refused |

More that TLC shows on variants of these configurations:

* a point of time 0xFFFFFFFFFFFFFFFE is gone after reopening (`MCSeries` with that time
  among `WriteTimes` violates `CountIsRecoverable`);
* a crash in an append can leave a hole, after which later acknowledged points are
  lost at the next restart (`MCSeriesCrash` with `AllAckedSurvive`);
* `session_read_next` returns 0 for a broken connection as for the end of the data,
  so a read that is cut short is reported as success (`ReadIsComplete` without its
  conjunct `up`); the Python and .NET libraries raise;
* with exactly one descriptor left the directory can be read, but a file cannot be opened
  meanwhile: a write of another point size then creates a second file for the series
  (`MCDatabase` with 1 among `Descriptors` violates `OneFilePerSeries`);
* without descriptors, or when the file cannot be removed, a truncation removes nothing and answers success, which
  `DatabaseStore` allows explicitly (`available`, `Keep`). The truncate command, which "removes all data from the
  given time series" (`ctl/main.c:136`), then reports that it was executed (`MCClients` with `TruncateEmpties`);
* `from_csv` tests for the end of the file before the `fscanf` that meets it: it writes the last
  number twice, and of an empty file it makes one point of arbitrary bytes, although it "converts
  to binary" what it reads (`ctl/main.c:150`; `MCLoops` with `CsvIsExact`);
* `server.h:46-48` says that "at any given time" the buffer is large enough. One packet is handled per read, so a
  client that does not wait for its answers can fill it further with each read (`MCProgram` with three
  requests under way violates `BufferFits`). With the real sizes up to 101 requests under way are harmless
  (`FewUnderWay`); the clients of the repository wait for their answers, all but a Python program with several
  generators;
* the last of several requests that arrived in one read is handled only when more bytes arrive (`RequestsEnd`
  without `\ Pipelining`).

## Fairness

The routines of `Loops` run in one thread without blocking: weak fairness of their
next step. In `Server` and `Program` every callback is weakly fair, as libuv polls
every handle in each round, and so are the program's own steps; clients and signals are
not. In `Ctl` and `Clients` the command, the server and a program that waits for an
answer go on; no break of the connection and no further call is assumed. The specifications of
`Series`, `SeriesCrash`, `Database` and `Lz4` have no fairness.

## Proofs

| Module | Theorem | Argument |
|---|---|---|
| `LoopsProofs` | `FindCorrectness` | the key lies between the ends of the interval (`Bracketed`), which is inductive with the types |
| `LoopsProofs` | `MergeProgress`, `MergeCorrectness` | what was emitted is the merge of what was taken (`MergedSoFar`) |
| `LoopsProofs` | `DistinctProgress`, `DistinctCorrectness` | the kept prefix is the distinct points of the visited one (`KeptSoFar`) |
| `LoopsProofs` | `NoPointLostBetweenPackets`, `ReadAnswersTheWindow` | `ReadInv`: the offset of `begin` tells how many points were sent (`SentSoFar`), and while points are left every packet sent was full (`PacketsSoFar`), without which the number of packets is not determined |
| `LoopsProofs` | `CsvKeepsEveryPoint` | `Converted`: the text is the lines of the points read, the output begins with the points of the lines read, and for strings it is no more than that |
| `LoopsProofs` | `LoopsStayInside` | the types of the running routine, from the five invariants |
| `SeriesProofs` | `SeriesSafety`, of which `SeriesCopiesFit` and `SeriesStaysAscending` are parts | types, strict order and recoverability are inductive only together: the search for the end needs the order and the filler behind the points, the order needs the bounds of the slice |
| `SeriesProofs` | `SeriesRefinement` | every step of `Series` is a step of `SeriesStore` or a stutter, under the mapping of the file to the set of its first `count` points |
| `SeriesCrashProofs` | `CrashCopiesFit` | `CrashTypes`: the types and, between the steps of a write, that its points are sorted and usable, that they fit behind the count once the file has grown, and that the merge is no longer than what it replaces and adds. On a file in any order this rests on what the two loops compute there: a search ends within the count, and not later for a smaller key |
| `SeriesCrashProofs` | `SafePointsSurvive` | `CrashInv`: for some `k` and `b` the safe points are the first `k` of the file, ascending and up to the time `b`, in memory and for every value the disk may hold (`Kept`, `KeptOnDisk`); everything behind them, and everything a write is about to copy, is later (`WriteBehind`). That is not enough: reading `b` searches for `b + 1`, so of the slots behind only the first may hold that time (`Behind`). Until a copy is cut short all acknowledged points are safe and the file is one `Series` could have (`Unharmed`), which lets `k` move at the end of a write |
| `ServerProofs` | `ServerSafety` | `IInv`: besides the table, every connection is `Balanced`: the bytes in the buffer and on the way are the packets that were not handled, in order, there is a request behind every packet and every answer being sent, and (`Pending`) unless the first packet is not complete the buffer holds at most one read for each other request under way, which `FewUnderWay` bounds. The framing alone is not inductive: it bounds nothing |
| `ServerProofs` | `ProgramIsServer` | each step of `main.c`, the signal handler included, is a step of `Server` or leaves its variables alone |
| `ServerProofs` | `ProgramTypes`, `ProgramTableIsExact`, `ProgramFramingInSync`, `ProgramBufferFits` | from `IInv` along the steps of the program |
| `ServerProofs` | `ProgramNothingOutlives` | `PhaseOK`: the server is freed only after the loop has ended, and the loop ends (`LoopOK`) only when no connection is left |
| `DatabaseProofs` | `DatabaseSafety`, `DatabaseTypes` | the types and `OneFilePerSeries` are inductive together: a file is created only when `readdir` found none, which means that there is none |
| `DatabaseProofs` | `DatabaseRefinement` | with one file per series, the choice of `readdir` is no choice, and each call is the one of `DatabaseStore` on the points of that file |
| `ClientsProofs` | `ClientsTypes`, `EndsStayInStep`, `WriteResults`, `ReadsComplete` | `SessionInv`, preserved by every call, answer and break of the connection. `InStep` alone is not inductive: `Wire` says for each call which packets can be under way, `Serves` that those of a read are the first pages of what is left of it, `WriteAnswer` that the status under way is true |
| `ClientsProofs` | `CommandsTellTheTruth` | `CtlInv`: the points the series has taken and those on the way make up what the batches taken so far hold, and a command goes on only after a success; a truncation that was answered was carried out |
| `ClientsProofs` | `LibraryWrites`, `IterationsComplete`, `OneReadAtATime` | `LibInv`: the same for the requests of one write; an iterator with a read under way is the only one and is being served |

`DataPointLemmas` holds the facts about find, merge and order that are shared, `SeriesLemmas` those
about the shape of a file and about the loops of `UnsortedLists`. The latter are proved by induction
on the number of points left to look at (`NatSetInduction`): the induction is over the set of
numbers for which the claim holds, so that the library's theorem about well-founded relations
applies. That the loops are well defined is part of the proof, and the same
argument gives the files a power failure may leave (`Files`). Assumptions:

* The theorems about `Series` and `SeriesCrash` assume `UsableTimes`: users write neither of the two
  largest timestamps. The run series_max_time shows why for the largest; the other is
  the key of the search for the end.
* `SafePointsSurvive` assumes `InOrder`: users write only times behind everything acknowledged. The
  run crash_out_of_order shows why; `CrashCopiesFit` holds for writes in any order.
* The theorems about `Database` assume `NeverOneLeft`: the process never has exactly one descriptor left
  when it opens a series; see above for what happens otherwise.
* The theorems about the clients assume `OneAtATime`: a program on the Python library has one
  iterator at a time. The run python_reads shows why; .NET programs have any number.
* The theorems about the loops assume of the sizes only that a chunk of `to_csv` holds a point,
  and that printing turns a value into a value (`CsvAssumption`). `CsvKeepsEveryPoint` does not exclude the point that is
  added to numbers.
* The theorems about the server assume of its sizes only that a packet can hold a
  header (`ServerAssumption`), and, but for `ProgramIsServer`, `FewUnderWay`: the requests a client has under way, less one,
  fit with a read each into a packet of the largest size. Clients that wait for their answers satisfy it for all sizes.

They hold for every file size, growth increment, batch, packet, page and chunk, for every set of
values, series and point sizes, and any number of connections, slots and iterators.

Only model-checked: all liveness, which is out of the prover's reach; the five properties of `Lz4`,
where what a block decodes to depends on the whole sequence of lengths and offsets that a
hash table happened to produce; and that after a crash in an append points can be lost
(`AllAckedSurvive`), which is a disagreement and no theorem.

## Not modelled

* A crash leaves every point whole, and on disk only values that were written there.
* `uv_accept` and `uv_read_start` succeed. Their failure is an error inside libuv, and what state
  libuv is in then cannot be told from this code; `on_client_connected` destroys the client twice.
* The layout of packets and the arithmetic of `payload_validate`, logging, timing,
  memory allocation and the command lines: they have no state, or end the process.
* CSV input that `to_csv` would not print. A malformed line is never consumed by `fscanf`, and
  the loop of `from_csv` repeats. Strings with a line break, which come back as several lines, and strings that fill
  their size without a zero, behind which `printf` goes on reading.
* .NET tasks that are not awaited, and a second enumeration of the same result, which
  would wait for packets nobody asked for.
* The streaming, dictionary, limited-output and fast variants of LZ4, which the prototype
  does not call, and blocks above `LZ4_MAX_INPUT_SIZE`, which the compressor refuses. The prototypes `native-rest-api` and `mmap-test` are
  benchmarks: of an HTTP answer on a copy of the server's loop, and of reading a mapped file.
