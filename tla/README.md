# A TLA+ model of IOVisualization (VALTIO)

IOVisualization sends the block-I/O trace of a Linux machine to a client that
draws it.  It grew out of the blktrace tools: `server-proto/` is the blktrace
suite with first changes, `valtio_server/` the server made from its
`blktrace.c`.  This directory holds TLA+ modules of the programs' logic, TLC
instances that check them, and TLAPS proofs of what matters most.

## The system

| component | state it keeps | operations | what is hard about it |
|---|---|---|---|
| tracers (`blktrace.c`: `thread_main`, `start_tracers`, `stop_tracers`, `wait_tracers`) | list of tracers, `is_done`, `nthreads_*`, `tracers_run`, `mt_mutex`/`mt_cond` | one thread a CPU: open, report, wait, poll and read, drain, leave | the stop comes from the main thread or from a signal handler, at any time; some tracers may fail |
| queue of trace buffers (`blktrace.c`: `add_trace_buf`, `process_trace_bufs`, `handle_list_file`, `clean_trace_bufs`) | a list, a mutex and a left-over buffer for each CPU and device; `dp_entries`, `done` | tracers add, one consumer takes | events cut over buffers; a count kept apart from the lists; the consumer may be a signal handler |
| valtio session (`daemon.c`, `valtio.c`, `socket_comm.c`) | connection, settings read, alarm | accept, read settings, trace, send, stop | a client that leaves at any point, failing writes, alarms |
| network server and its clients (`server-proto/blktrace.c`, `-l` and `-h`) | hosts, devices, connections, `cl_opens`; of each tracer its connection and its wait for answers | connect, announce, send, close, answer | one count ends a session of many connections; a run follows another; clients fail or die |
| mapped output files (`struct mmap_info`) | file size, window, offset in it | map anew, put, truncate | windows begin on pages, pieces do not |
| blkparse on files (`ms_*`) | a list of streams sorted by the time of their first events | prime, take, move | the merge relies on the list being sorted; garbage and foreign records |
| blkparse on a pipe (`do_pipe`) | a tree of events by time, the last sequence number and the skips of each CPU | read a batch, sort, show | what is shown early cannot be corrected; gaps; unsigned times |
| I/O tracking of blkparse | trees of `io_track`, processes, counters, depth | one handler an event | events lost; merges and requeues move what is tracked; unsigned counters |
| btt | trees of I/Os by device, processes, averages, iostat, active ranges, seeks, plugs | one handler an event | an I/O passes a dozen events, of which some may lack; a request holds several I/Os |
| window of btt's dump (`mmap.c`) | window, position | map anew, read a record | records longer than the margin, files that are cut |
| iowatcher | hash of pending I/Os, in flight, latencies, processes; axis of offsets, plots, movie history | read events, find the axis, draw, animate | two passes over the file must agree; slots and rows are rounded |
| blkiomon | hash of traces, two sets of statistics, vacant lists | a gathering thread and an interval thread | the statistics are not guarded by the mutex the lists are |
| blkrawverify | last good record, counts | check each record | what counts as the predecessor of a record |
| btreplay | per file: AIO pool, `naios_free`, `naios_out`, waits, done flags; barriers `n_iters_done`, `iter_start` ... | a submitter and a reclaimer thread per file, main | two threads on one condition variable, barriers with counters, signals |
| btrecord | the current bunch and the header of a stream | add an I/O, flush, close | limits of a bunch, stalls, a header written apart from the bunches |

The tracers read relay files of the kernel.  In file mode they write what they
read to mapped output files themselves; as network clients they send it to the
server, which does; in piped mode, which valtio uses, they put buffers on the
queue and the main thread cuts them into events and calls `sendTraceToClient`.
The session starts and stops the trace: `valtio.c` calls `startBlktrace`, and
its signal handler runs the whole teardown, `stopBlktrace`, on top of whatever
the main thread was doing.  blkparse reads the output of the tracers from files
or live from a pipe and may write a dump, which btt reads; iowatcher and
blkrawverify read the files of the tracers, blkiomon a pipe.  btrecord reads
the trace to make recordings, which btreplay replays.

## The modules

### Tracing

`Tracers` (with `TracersProofs`).  One process for each tracer and two control
contexts, `main` and the `handler` that may interrupt it: when the handler runs
main does not (`Runs`).  The variable `use`, chosen once in `Init` from `Uses`,
says which program runs and how: whether buffers go through main (`piped`),
whether the handler tears down (`tears_down`: `valtio_server`) or returns
(`server-proto`), whether a signal may come while tracers are being started
(`early`; else it is the alarm, set once tracing is on), and whether tracers may
`fail`.  So one run checks the uses side by side and a property can say which
of them it is about.  `SignalRunning`, `WaitUnblock`, `CondWait` and the
sections under `mt_mutex` follow the code lock by lock, since the loss of a
wake-up is between two of them.  The relay buffer of the kernel is a count of
unread sub-buffers.  A wait with a timeout is a wait that may end at any time.

`TraceQueue` (with `TraceQueueProofs`), and `TraceStream`, what it implements.  A stream of events is a
sequence of pieces, two to an event, numbered as they are read, so that a cut
in the middle of an event, a loss, a repetition and a change of order are all
visible.  What is sent differs in the two programs, and in `TraceStream` with them: valtio
sends each whole event but those about sector 0; server-proto writes an event
before it looks whether its data is in the buffer (`server-proto/blktrace.c:1395`),
so that a cut event goes out at each look at it (`Early`), and writes all sectors.
`pass[x]` is the local state of `__process_trace_bufs` and
`handle_list_file` in context `x`; `dp_entries` is an integer, as it is negative
for a while in the code.  The client refuses writes from some time on.

`ValtioServer` (its theorems are in `TracersProofs` too).  The session of one valtio process
under the daemon loop: the stages of `start`, the settings that come in pieces,
the alarm clock in half seconds (`Second` ticks), clients that connect, send,
leave.  `buffers` is whether a buffer waits to be written, as on a busy device one
always does.  How the trace itself ends is `Tracers`' and `TraceQueue`'s concern.
Of the two items of `valtio_server/issue.txt`, `ServerFreed` shows the first, a client
that dies before its settings, to end with the tries of the read loop; the second, a
client that dies during the trace, `TracingStops` shows to be there still.

`NetServer`, on `MmapFile` (with `NetServerProofs`).  Both ends of the network
mode: main and the tracers of each host, one connection for each CPU (`-s`) or
for each CPU and device (sendfile), the server's handlers.  A message is its
kind, device and length; an answer is counted.  `MmapFile` has the operations
on one `struct mmap_info`; the server applies them to the file of each CPU and
device of a host.  `how` says which hosts take part, in which way, with how
many runs, and which may die.  What a client that is killed had sent may be lost
from any place on (`Lose`): a piece of data may come short of what its header told,
which the server files as it is, and a header may be cut, at which the server
exits with all sessions (`ServerExits`).  A client that hangs in the middle of a
message and lives is left out: the server waits in `recv` for it.

### Reading traces

`Merge` (with `BlkparseProofs`), and `TimeOrder`, what it implements.  The files are sequences of
records in the order of time, as blktrace writes a CPU's; a record is an event,
a notification, one of another CPU, or garbage.

`PipeSort` (with `BlkparseProofs`, so that some of its names begin with `Pipe`).  A CPU's events have growing sequence numbers of which some may be
missing (the kernel drops events); their times grow too unless `Monotone` is
FALSE.  `sort_entries`' unsigned subtraction is kept (modulo `Wrap`, which
stands for 2^64).

`BlockIO` (with `Clock`) is the one model of code that is not in the
repository: which events the kernel's block layer traces for a bio and a
request, in which order.  It keeps a history of what really happened.
`IoTrack` (blkparse), `Btt` on `BttStats`, and `Iowatcher` each have one
operator an event, translated handler by handler.  `Analysers` (with `AnalysersProofs`) composes them:
each kernel event reaches all three readers, or, lost, none.  So a property
compares what a reader says with what happened, and the readers with each other.

`TraceFile` has the records of a file, whole or cut, good or bad.  `RawVerify`
(blkrawverify), `BttFile` (the window btt reads through), and `Plots`
(iowatcher's axis, outliers, dots and movie frames) read it; `Readers` (with
`ReadersProofs`) composes them on one set of files.

`Blkiomon`, on `BlkiomonStats` (with `BlkiomonProofs`).  The two threads
interleave at every take of `dstat_mutex` and at each of the two parts of
`blkiomon_account` that work outside it.  Traces stored are values; traces vacant
and allocated are counts, as only their number matters; statistics have identities.

### Replaying

`Replay` (with `RecordReplayProofs`).  The submitter, the reclaimer and the pool of
AIOs for each file, main with its waits, the signal.  The build defines `NDEBUG`
(`server-proto/btreplay/Makefile:11`), so a false assertion does not stop the
model either; two of them are stated as properties.  An I/O is a number left to
send; the data of an I/O is left out.

`Record` (its theorems are in `RecordReplayProofs` too).  One stream of btrecord and the
reading of its recording by btreplay.

`MC*` modules give the constants a cfg cannot write.  Next to some definitions
stands another of the same shape that no action uses, such as `NotMoved` beside
`log_track_frontmerge`: a plausible slip, which PROJECT.json puts in the place of
the definition to see that a property notices.

## What is checked

| run | bounds | what it shows |
|---|---|---|
| `TracersStop` | 2 CPUs, 2 sub-buffers, 2 signals; files, valtio, valtio with failures and early signals | `NoUseAfterFree` in every use; every CPU that is traced is read (`EveryCpuHasReader`) and nothing of before the stop is left (`NothingLeftBehind`) where the stop is final, that is but for server-proto with early signals; a stop ends the program (`SignalStops`) without failures too |
| `Queue` | 2 devices, 1 CPU, reads of 1 to 3 pieces, 5 pieces, an event of sector 0; server-proto with a signal anywhere, valtio with a client that may close | the count is right (`EntriesConserved`), no piece is lost, reordered or left at the end (`PiecesConserved`), the stream is `TraceStream`'s for the program that sends it (`StreamKept`), a stop ends (`StopEnds`) |
| `ValtioSession` | settings in 3 pieces, 2 reads for the code's 10, 2 waiting clients, any number of buffers, failing tracers | an alarm is due while valtio traces (`AlarmArmed`); a session ends unless a tracer failed, the client stays without completing its settings, or it left and events keep coming (`ServerFreed`) |
| `NetSessions` | seven `Ways`: up to 2 hosts, 2 CPUs, 2 devices, 2 runs and 5 pieces of data, with failing opens or a client that dies with what it sent cut anywhere; buffers, pages and windows of 2 to 4 units | a session ends with all data filed (`EndOfRunComplete`), writes of pieces that fit stay in their windows (`FilesSound`), runs keep apart (`OneRunPerFile`), all parts are known before any closes (`KnownBeforeCloses`), sessions end (`SessionEnds`) |
| `MergeFiles` | 3 files of up to 2 records, batches of 1, times 0 to 2, a signal, an interval of interest | `AllHandled`, and the merge is `TimeOrder`'s (`InTimeOrder`) |
| `PipeOrdered` | 2 CPUs, 3 sequence numbers, times 1 to 3, batches of 2 | `EveryEventOnce`, `InSequence` (and without a gap before the end), `SkipsExact` |
| `Analysers` | seven workloads (`MCScenes`) of up to 3 bios: merges at both ends, batches, requeues, a mapped device, a packet command, sleeps, plugs, named processes, 1 or 2 lost events | depths (`DepthsFollow`), trees (`TrackedIsInFlight`), latencies (`LatenciesAgree`), active periods (`LivesExact`) and totals (`TotalsAgree`) are what happened |
| `Blkiomon` | 2 CPUs, 7 events, 2 intervals, 1 lost event, a signal | `PairsMatch`, `NothingLeaked`, `MissingBounded` |
| `Readers` | every file of up to 3 of 9 records with 0 to 2 units cut off, a second file, and a crowd of 23 | `VerdictExact`, `EveryRecordRead`, `DotsInside`, `FramesShow` |
| `ReplayPool` | 2 files, 1 AIO each, a bunch of 2 I/Os, 1 iteration, a signal | `AiosConserved`, `NeverBothWait`, `TokensConserved`, `ReleaseSafe`, `NotStarved` |
| `RecordBunches` | 5 I/Os, bunches limited to 2 I/Os and 2 units of time | `BunchesBounded`, `ReplaysTheRecording` |

The bounds are small because the hazards are: a lost wake-up needs one waiter,
a cut event two buffers, a wrong move in the list of streams three streams, a
pool at its limit one more I/O than it holds, an alias of sectors a merge at the
front, a window that is too small a piece that does not begin on a page.  One
iteration is enough for the barriers' tokens to be miscounted (two threads count
them); the proof covers any number.  Each property has a slip as above which
breaks it under the same bounds, so the case it is about does happen.  Counters
are bounded by the constants marked "bound" in each module.

`QueueHandler` finds a violation of `StopEnds`: the handler waits for a mutex
that the code it interrupted holds, and a trace "-w Stop after defined time"
(`valtio_server/blktrace.c:462`) should have ended does not.

Further configurations find that what one would expect, or a comment says, does
not hold.  TLC stops at the first; to see another, leave it alone in the list.

| cfg (module) | property | what happens |
|---|---|---|
| `TracersFails` (`MCTracers`) | `DepartureEnds` | `stop_tracers` broadcasts without the mutex; a tracer about to wait never leaves |
| | `EarlySignalStops` | a signal while tracers are being created misses those not listed yet |
| | `ReadWhileTraced` | server-proto's handler returns to the start, which switches tracing on when the tracers were told to leave |
| `ValtioFails` (`ValtioServer`) | `TracingStops` | each failed write puts the alarm off, and a busy device keeps writes coming |
| `NetFails` (`MCNetServer`) | `EndOfRunComplete`, `KnownBeforeCloses` | tracers stopped before all have opened: some close what others do not know yet |
| | `OneRunPerFile` | a host's next run gets into the session a dead client left, or one whose last close was not waited for |
| | `CloseAcknowledged` | one tracer takes `done` back while another waits for its answer |
| | `ServerStays` | a client dies within a header, and the server exits |
| | `FilesSound` | a piece is longer than the window, whose length the server's own `-b` and `-n` give |
| `MergeFiles` with `"wrong_cpu"` among the `Kinds` | `AllHandled`, `InTimeOrder` | a batch of another CPU's events ends a stream |
| `PipeOrdered` with `BeforeGenesis = TRUE` | `InSequence` | an event older than the first batch wraps and comes last |
| `AnalysersFails` (`MCAnalysers`) | `IosAddUp` | btt counts a requeued request twice |
| | `DriverNotNegative` | btt's count of requests at the driver is raised by a request and lowered by each I/O of it |
| | `OnePlotEach` | iowatcher gives the process that has plot 0 another |
| | `InFlightMapped` | completions of mapped devices lower iowatcher's count of what is in flight |
| | `NoJunkShown` | blkparse prints times of an `io_track` that nobody set |
| `BlkiomonFails` (`MCBlkiomon`) | `NothingMissing`, `RowsWhole` | an interval is printed while a pair is being added to it |
| | `GathererLives` | a d2c time below a microsecond is divided by |
| `ReadersFails` (`MCReaders`) | `AcceptedIsWhole` | blkrawverify passes records of a foreign version and a file without its end |
| | `EveryRecordRead`, `CutFileRead` | btt reads beyond its window or file when a record is longer than its margin, or cut |
| | `AllDrawn` | iowatcher divides by a slot of 0 bytes, when all I/Os are in one place and have no length |
| | `AllDrawn`, `DotsInside` | the axis begins with a slot in which I/Os only end, so that its least start (`iowatcher/blkparse.c:655`) was never set and is taken for an offset (`:699`) |
| | `FramesShow` | the history of movie frames is counted on for the next trace |
| `ReplayFails` (`Replay`) | `IterationsInStep` | a thread counts for the next iteration before others have done theirs |
| | `SomethingToDo` | after a signal a bunch is processed with no AIO; the build defines `NDEBUG` |
| | `ReclaimerEnds` | the reclaimer waits for ever after the last I/O |
| | `SignalQuits` | main waits for iterations that will not be done |
| `RecordBunches` (`Record`), given it as an invariant | `HeaderCounts` | the header's count of bunches lacks the last |

**Fairness.**  Threads that can run do (weak fairness), and a thread that asks
for a mutex gets it (strong fairness): every critical section is a few
instructions long and the waiting loops of main leave the mutex for 50 ms in
each turn.  The network server's loop handles some connection that is readable
(weak fairness of the choice, as `poll` promises no more), and of each client
main and some tracer go on.  Nothing is assumed of signals, clients, new runs
and the kernel's events, except where a run says that time passes.  A thread
blocked for ever on a mutex it holds itself stays blocked.

**Deadlock** is checked except where the program really may wait for ever: in
the runs of `Tracers` (after a start that failed) and of `Replay` (after the last
I/O, `ReclaimerEnds`), in `QueueHandler` (in the handler) and in `NetSessions`
(the server, when no client is left).

## What is proved

TLAPS checks these for all values of the constants:

* `TracersProofs`: `TypeCorrect`, `TracerMemorySafe` (`NoUseAfterFree`),
  `TracedCpusAreRead` (`EveryCpuHasReader`) and `TracersDrain`
  (`NothingLeftBehind`), from the assumption on the constants only.
  `NoUseAfterFree` is not inductive: `FreeInv` adds that the join comes before
  the delete and that nothing is started afterwards.  `EveryCpuHasReader` says that
  while the kernel traces no tracer sleeps, failed or was told to leave, and needs
  `ReaderInv`: that the counter main compares with `ncpus` is exactly the number
  of running tracers, that a CPU whose tracer was not created has none, and that
  the release reached those that slept.  This and `NothingLeftBehind` have the
  hypothesis `StopIsFinal`: that main does not go on with its start after the stop.
  `DrainInv` follows the order of the stop: a signal that is not early finds
  tracing started for good (`HandlerOnTop`), a flagged tracer means the kernel
  traces no more (`FlaggedWhenOff`), and from then on relay buffers only shrink
  (`OffForGood`, `DrainedAfterFlag`).
* `TraceQueueProofs`: `TypeCorrect`, `CountRight` (`EntriesConserved`),
  `PiecesKept` (`PiecesConserved`) and `StreamImplemented` (`StreamKept`, the
  refinement of `TraceStream`), for any number of tracers, streams and pieces.
  `StepInv` says what each context holds at each of its places: a list is held
  only while it is handled, and main's last pass is begun only when all tracers
  have left.  The count of buffers is right whatever the signal interrupts.
  The stream is so only if the signal comes while main waits or its handler
  returns (`OnlyWhileWaiting`), the hypothesis of the last two theorems, which
  the uses of the run `Queue` satisfy; `QueueHandler` shows what is lost otherwise.
  `PieceInv` says that one context at a time handles lists (`Alone`), that the
  pieces on their way (at the client, in the rest that waits, in the lists, in
  the queues) continue each other without a gap, and that a rest is shorter
  than an event while the client is there.  What is sent is per program: valtio has
  sent exactly the whole events gone by, server-proto up to the last event begun,
  which it sends again whenever it looks at a rest that is still cut.  What sequences of any length
  concatenate or add up to is shown by taking a least counterexample.
* Also in `TracersProofs`, which extends `ValtioServer` too: `SessionTypes` and
  `TracingEndsByAlarm` (`AlarmArmed`).  `SessionInv` adds to the types that there is one valtio process at
  a time, that nothing is read before a client is accepted, and that only a session
  that traces has an alarm.
* `NetServerProofs`: `ServerFilesSound` (`FilesSound`), by the lemmas that each
  operation of `MmapFile` keeps `SoundMip`: what is left of a window is less than
  its length, and a new one is as long as the piece it is made for even after it
  lost its offset in the page.  It holds for any sizes for which `PiecesFit`: a
  window holds the largest piece and nearly two pages more.  This is a hypothesis
  of the theorem, as the code does not see to it: the window is of the server's own
  buffers (16 at least), the pieces are as long as the client's headers say.
  And of the sessions `SessionsComplete` (`EndOfRunComplete`), `AllKnownBeforeCloses`
  (`KnownBeforeCloses`) and `OneRunInEachFile` (`OneRunPerFile`), for any numbers of
  hosts, CPUs and devices and both ways of sending, if the ways are `Orderly`: no
  client is stopped before it traces, which breaks the first two (`NetFails`), and a
  client runs again only over send, where none fails or is killed; other clients may,
  but run once.  A failed or killed client leaves its session open for the data of the next
  run, and so may one with sendfile, whose tracers share `done` and may miss an answer
  (the finding of `NetFails`).  `SessionInv` says of each host that its client has
  not run, or failed and sends nothing, or its session is over, or is live
  (`LiveInv`, of its present run): there are then the sets of the parts opened and closed so far, whose
  difference `cl_opens` counts.  What is under way fits to them (`LinesInv`: an open of
  what is not open, data of what is, a close only when all parts are open, and
  nothing behind the close of a part), what is filed and what is under way add up to
  what was sent (`BytesInv`, whose sums are the witnesses `AddsUp` asks for), and
  the client is either opening, when parts ahead of it are untouched (`StartInv`),
  or past that, when all are open and what it has not closed yet has no close under way
  (`EndInv`).  When `cl_opens` is 1 and a close arrives it is the last part's,
  the queues are otherwise empty, and the sums are equal.
  What makes a next run safe is `AckInv`: over send main has one close under way, an
  answer exists only for a close that was taken, and so main never gets the answer
  to its last close while the session is live; it sees the connection closed, and then the
  session is over.  `OwnInv` carries this over the runs: connections and devices of a
  host are of its present run, and what earlier runs sent is filed.
* `BlkparseProofs`, of files: `MergeInOrder` (`InTimeOrder`, the refinement of `TimeOrder`) and
  `EveryEventHandled` (`AllHandled`), for any number of files and records, any batches
  and any signal, if no file holds another CPU's events (`"wrong_cpu"` is not among
  the `Kinds`): with them both fail, as a batch of nothing else ends the stream.
  First the lemmas on what the model computes: what `ms_prime` reads and leaves of a
  file make up its events (`RestIs`), a file is closed only when no event is left in it
  (`ClosedIsRead`), a batch that leaves it open has an event (`OpenHasMore`), and
  `ms_sort` and `ms_resort` keep the list sorted, each stream once (`SortIs`,
  `ResortIs`).  `MergeInv` then says that the list holds exactly the streams with
  something in memory, in the order of their first events, that what is left of
  a stream is in the order of time, and that without a signal nothing is left of a
  stream that is set up and not in the list (`NothingMissed`).  So the head of
  the list is the earliest event of all that are left (`HeadIsEarliest`), which is
  the step `TimeOrder` takes, and the reason that none is behind the end.
* `BlkparseProofs`, of the pipe: `EveryEventShown` (`EveryEventOnce`) and `ShownInSequence`
  (`InSequence`).  `OnceInv` says that an event's CPU and number are in one place
  only and not beyond the newest read of that CPU.  `SequenceInv` says that
  what waits, in the batch and in the tree, is ordered by time as by number and
  comes after what was shown, and that `last_sequence` is of the last event
  shown; it holds of a pipe whose times follow the numbers (`Monotone`) and
  where nothing is older than the first batch (not `BeforeGenesis`), and the
  theorem says so.  Under the same condition `SkipsAreTheGaps` (`SkipsExact`): the
  ranges of a CPU lie one before the other and before `last_sequence`, and hold
  what is missing between the first event shown and the last (`SkipInv`).
* `BlkiomonProofs`: `PairsFormed` (`PairsMatch`), `ListsKept` (`NothingLeaked`)
  and `OneMissingEach` (`MissingBounded`), from `BlkiomonAssumption`: the
  streams hold no event twice. `PairInv` says that an event that was read is in
  one pair or one place of the hash table, and that a chain holds no two that
  match. `ListInv` says that the two lists of devices, the one that is printed
  and the vacant ones share the dstats, each in one place (`Shelved`), and that
  a tree has what its list has, a device once. `TraceInv` counts the traces, and
  `RowInv` says that the rows of this interval are of dstats before the current
  one. `CountInv` gives the pair that is missing its reason: what was accounted
  but is found in no row and no pending dstat, and the pair that the gatherer is
  about to account to a dstat it lost (`Owed`), are not more than the intervals;
  it needs that the list the gatherer left is empty unless it was not taken yet
  (`TurnInv`).
* `RecordReplayProofs`, of btrecord: `RecordingSound` (`BunchesBounded`), with the invariant that the
  current bunch keeps the limits already and begins no earlier than the genesis;
  and `RecordingReplayed` (`ReplaysTheRecording`), where the invariant `ReplayInv` says
  that each bunch of the file goes on where the one before ends, the current one
  behind the last of the file up to the I/O read last, and that btreplay has
  submitted the I/Os of the bunches before its offset.
* `RecordReplayProofs`, of btreplay: `TypeCorrect`, `PoolConserved` (`AiosConserved`), `NoMutualWait`
  (`NeverBothWait`), `NoIdleGetevents` (`EventsExist`), `IterationTokens`
  (`TokensConserved`), `ReleasedClean` (`ReleaseSafe`).  The invariant of the
  pool is the conjunction of what the submitter knows (`SubInv`), what the
  reclaimer knows (`RecInv`) and what holds of each file (`FileInv`,
  `ReclaimsInv`); one lemma each shows that submitter, reclaimer and main keep it.

* `ReadersProofs`: `VerifiedExactly` (`VerdictExact`), `RecordsRead`
  (`EveryRecordRead`) and `FramesFollow` (`FramesShow`).  What is computed along
  a file (where a record starts, what the verifier knows after it) is a function
  defined by recursion on the position; `StepsExist` says that there is such a
  function, and from its steps the rest follows by taking a least position where
  it fails.  `Judged` says what the verifier knows after each record: it goes on
  exactly while all so far are readable, what it found good so far goes forward
  and ends with the record it compares the next with, and nothing is bad exactly
  if what was read fits.  `VerifyInv` adds that every verdict so far is that of its
  file.  The theorem holds of files of any records, cut anywhere.
  `BttInv` relates the window to the file: btt stands at the start of a record, all
  whole records before it were read, and what is read behind a record that is cut
  is none (`ReadTo`).  The window need only not pass the end of a file that is not cut:
  before each record it is mapped anew unless the margin is left in it.  So a record
  with its data must be no longer than the margin, which is the hypothesis (`InMargin`)
  of the theorem; without it `ReadersFails` finds the counterexample.
  `MovieInv` says which columns each frame kept is about; the counter of frames
  outlives the list it counts, so it holds of one trace (`Traces = 1`) only,
  and `ReadersFails` has the second.
* `AnalysersProofs`: `DepthsFound` (`DepthsFollow`), `TrackedFound` (`TrackedIsInFlight`)
  and `LivesFound` (`LivesExact`), for any bios, requests, devices, merges, requeues and
  losses of `BlockIO`.  Two hypotheses are on the workload and on how btt is called
  (`Usual`): no two I/Os in flight overlap (`Separate`; the readers know an I/O by its
  sector), and btt is asked for the whole trace.  All workloads of the run `Analysers`
  are such.  They are needed: with two bios of one sector in flight all three
  properties fail, as does each where btt's interval ends within the trace.
  `DepthsFound` needs also that the trace has completions (`"C" \in Found`), as
  without them iowatcher counts only upwards.
  The assumptions on the constants are that no packet command goes to a mapped
  device (`ScenesAssumption`), that disk and mapped device are two
  (`DevicesAssumption`), and that btt's interval is of times (`SpanAssumption`).
  `KernelInv` is about the block layer alone: what a bio is at its place, and that each
  request in flight is a range of sectors without a gap, so that its first bio
  says where it starts and its last how long it is, and no two share a bio.  Each
  reader then has an invariant of its own.  `DepthInv` and `FlightInv` compare the counts with
  the requests at the driver up to the number of events lost; for iowatcher it needs the
  requests that are not in its hash (`Unseen`), whose completion lowers nothing.
  Without losses, `TrackInv` says of each device of blkparse that its tree has exactly
  the requests in flight and which of the times of an entry were set.  `QueueInv` says
  of btt that the entries of the disk are its bios in flight, by sector and length,
  of which those of a request are just the ones that lie within it
  (`dip_foreach`), and that the two counters are what waits and what is at the
  driver.  And `LivesInv` says that the periods known are apart, that their union is
  the time with a request at the driver, and that inserting one keeps this wherever
  it begins.

The type invariants of `Tracers`, `TraceQueue`, `ValtioServer` and `Replay` are parts of these
theorems.  No listed run repeats a `TypeOK`: the ones of the other modules can be
added to their cfg.

Only model-checked: liveness under fairness, which like ENABLED is beyond the
prover; of `Analysers`, `LatenciesAgree` and `TotalsAgree`, which add up over sets
and tables of any size, and a sum is an induction over data; of `Readers`,
`DotsInside`, which adds up counts over slots; of `NetServer`, `SessionEnds`, and
its proved session properties where a client over sendfile, or one that fails or
is killed, runs again.

## What is not modelled

* The clients (`linux-client-proto`, `win-client-proto`): one sequential loop
  each, read and print; they are the environment of the session here.
* `rbtree.c` (vendored, an ordered set here), `blktrace-sapjil` (a third copy of
  `blktrace.c` that nothing builds), `act_mask.c`, `serialization.c`, `devices.c`
  (tables and copies of fields without state), and other small tools that only
  convert their input (`btrace`, `verify_blkparse`, `blkrawverify`'s report).
* The kernel's side of blktrace but for `BlockIO`: `BLKTRACESETUP`, debugfs.
* Argument parsing, names of files and devices, formats of output
  (`blkparse_fmt.c`, btt's `output.c`, iowatcher's SVG): no state comes of them.
* What iowatcher starts or reads of other programs (`tracers.c`, `fio.c`,
  `mpstat.c`).
* Clocks, except alarms, the stalls of a recording and the times of events.
* blkparse's per-device messages and `verify_trace`'s wording; several devices on
  one pipe, which share nothing but the tree.
* Reads and writes counted apart, where the code treats them alike.
