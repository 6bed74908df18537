# A TLA+ model of DroidPerf

DroidPerf is an object-centric memory profiler for the Android Runtime: a JVMTI
agent that is loaded into the application, opens `perf_event` counters for every
thread, and writes call paths, allocations and method names to files that a
Python script converts to a profile. This directory holds a formal model of the
agent: TLA+ modules translated from the C++ code, TLC configurations that check
them on small instances, and TLAPS proofs for every value of the constants.

Paths below are relative to the repository; "the handler" is
`perf_event_handler`, "the guard" is `thread_data_t::inside_agent`.

## 1. Inventory

| Component | State | Operations | Talks to |
|---|---|---|---|
| JVMTI callbacks (`src/agent.cpp`) | `callpath_vec` per thread; `object_live_cycle`, `object_info`, `active_memory_usage`, `method_id_list` shared | ThreadStart/End, MethodEntry, ObjectAlloc/Free, GC, class load/prepare, VM init/death, attach | profiler, thread data, streams |
| Thread data (`src/thread_data.cpp`, `src/safe-sampling.h`) | the `thread_data_t` installed with `pthread_setspecific`: guard, event list, context tree, four streams | alloc, get (allocates on demand), dealloc; block/unblock; safe enter/exit | every callback and the handler |
| Profiler (`src/profiler.cpp`) | the client's `OnSample` | init, threadStart, threadEnd, OnSample, statistics | perf interface, streams |
| Perf handler (`src/perf_interface.cpp`) | event list of the thread, counters in the kernel | setupEvents, handler, restart, start/stop all, processInit | kernel, ring buffer, profiler |
| Ring buffer (`src/perf_mmap.cpp`, `src/perf_util.cpp`) | `data_head` (kernel), `data_tail` (handler), one data page | read header, read sample, skip record, skip all | kernel, handler |
| Output streams (`src/io.cpp`, `hpcio-buffer.c`) | file name, descriptor, 1 KiB buffer | setFileName, writef/writeb, destructor | callbacks, handler, file system |
| Event and metric set-up (`src/profiler_support.cpp`, `src/metrics.cpp`, `src/argument.cpp`) | event list, metric table, watermark ids, client name, table of addresses not sampled | parse, register, fill | JVM::init, threadStart, handler |
| Code cache (`src/code_cache.cpp`, `src/range.h`) | methods by id and version, intervals of addresses, line tables | add, remove, look up, dump | class and method events (not registered at present) |
| Splay tree (`src/splay.cpp`) | intervals | insert, look up, delete | no caller at present |
| Context trees (`src/context.cpp`, `src/new_context.cpp`) | tree of call frames with metrics | addContext, dump | threadStart/End; the sampling code that adds is commented out |
| Converter (`scripts/ezview_fmt_gen`) | interning tables, context table | group files, add samples | the files written by the streams |

What is hard to test here:

- The handler is a signal handler. It interrupts the thread between any two
  instructions of any callback, and only the guard keeps the two apart. The
  guard lives in an object that callbacks replace and delete.
- Counters are armed for one overflow. A signal that is dropped takes its
  counter with it, unless another signal's handler enables it again.
- A native thread attaches, detaches and attaches again. Counters and
  `thread_local` variables outlive the thread data.
- Callbacks nest: `ObjectAllocCallback` calls Java code.
- The parser of the ring buffer does not read samples to their end, wraps, and
  meets records the kernel inserts when it has dropped some.
- `write()` is short, fails, or is interrupted by the profiler's own signal.
- Threads share tables: the event table that a second attach refills while they
  open counters, the table of addresses the first of them fills, the object
  information one reads while another assigns it, and the code cache whose lock
  is given up in the middle of an insertion.
- The converter reads files that stop in the middle of a line, lack names, or
  belong to two attachments, and shares one context array between all of them.

The properties that make the components correct: the handler sees no
half-updated or deleted state; counters never stop silently and the guard is
released; each attachment's files hold its own samples; every sample handed out
is one the kernel wrote; a stream loses, repeats and reorders nothing; shared
tables are consistent under concurrent callbacks; the interning tables of the
converter are injective. `PROJECT.json` lists the hazards with the properties
that cover them.

## 2. Modules

### AgentThread

One OS thread, its callbacks, the handler that interrupts them, and the kernel.

- `cb`, `pc`, `depth` are the innermost callback, its next step, and how many
  `ObjectAllocCallback`s are suspended in `Class.getName` below it. A step of a
  callback is an action guarded by `Runs`: no handler is active.
- `td`, `inside_agent`, `perf_state`, `slot` are the `thread_data_t`. `td` is
  `"freed"` between the `delete` and the `pthread_setspecific` of
  `thread_data_dealloc`; what the handler reads then (`GuardRead`, `ListRead`)
  is a choice over the old contents and zeroes, and it may fault
  (`HandlerFault`). The list of events is represented by its length.
- `callpath` tells apart the empty path, a half-filled one (`PartialPath`) and
  the complete path of the g-th attachment; `written` is the set of paths in
  this attachment's trace and cachemiss files.
- `hpc` and `sig` are the handler. It starts with `HandlerDrop` (check #0),
  `HandlerNoList` (the return for a missing list, which leaves the guard set) or
  `HandlerEnter`, then stops the counters, dispatches on the signal
  (`HandlerForeign`, `HandlerUnknown`, `HandlerKnown`), drains, restarts.
- `on`, `limit`, `pending` are the kernel: enabled counters, `event_limit`
  (`PERF_EVENT_IOC_REFRESH` adds one; zero means unlimited) abstracted to what
  its test distinguishes, and the queue of signals.
- `lost` is a history variable: counters whose signal was dropped and that are
  still off.

`Enter` and `Unblock` are the macros `BLOCK_SAMPLE` and `UNBLOCK_SAMPLE`;
`StartThreadData` is `threadStart` up to `thread_data_alloc`; `StartSlot(s)` the
creation of the context tree and the streams in order; `SetupList`, `SetupOpen`,
`SetupFails`, `SetupStart` are `setupEvents`; `EndDelete(s)` and `EndClear(s)`
the tear-down; `EndDealloc`, `EndAssertFails`, `EndSetSpecific` are
`thread_data_dealloc`.

### PerfRing

The buffers of one event, in words of four bytes, and the parsing loop of the
handler (`Handle`, `LoopEnds`, `ReadSampleHeader`, `ReadSample`, `SkipRecord`,
`Return`). The kernel's side (`Overflow`, `Throttle`) is external: it refuses a
record that does not fit and puts a lost record in front of the next one that
does. `ReadWords` is the two-part copy of `perf_read_buffer_nbytes`. A sample of
the type `perf_attr_init` asks for has twelve words, of which the code reads
nine. The history variable `queued` records what the kernel put in each buffer
and from which position on.
It composes with AgentThread through one fact: the counters are off while the
handler parses, so the kernel writes only when `pc` is `"idle"`.

### OutputFile and AppendLog

`AppendLog` is the abstract promise of a stream: append-only, the file is a
prefix of what was appended, a closed stream lost nothing. `OutputFile` is class
`OUTPUT` over `hpcio-buffer.c`: `Write`, the three outcomes of `_openFile`
(`OpenNewFile`, `OpenNextName`, `OpenFails`), the loop of `hpcio_outbuf_write`
(`WriteLoop`, `Copy`, `WriteRetries`, `WriteReturns`), the flush (`FlushWrite`,
`FlushDone`, `FlushFails`) and the destructor (`Delete`, `CloseFails`). `buf`
keeps the bytes above `in_use`, because the failure path exposes them. `copied`
(history) is the log, the file is `durable`, and `ImplementsLog` is
`AppendLog!Spec` under that mapping. `Failures` says whether a `write()` may
fail at the start of a flush, after a part of it, or both. A line of
`PRINT_BUFFER_SIZE` bytes or more ends in the assertion of `writef` and is not an
input of the model.

### AgentInit

`JVM::init` for one or more attachments (`Attach`, `ThreadDataInit`,
`ProcessInit`; for each event `ParseEvent`, three metrics and
`SetupWatermarkMetric`; `InstallSignal`, `SetClientName`, `EnableEvents`) while
threads start, open their counters one by one (`OpenEvent`), handle samples and
end. An event of the list is a record of its client, its rate and whether its
precise level is a digit; `Threshold` keeps of the rate what a `uint32_t` holds
(`Word` is 2^32). `event_info`, `metric_info_list` and `pebs_metric_id` are static
and survive an attachment, `clientName` is a sequence because `Profiler::init`
appends to it, and `key` tells apart the thread data made under the keys of
different attachments. An assertion (one on `pthread_key_create` included), an
exception or the dereference of null sets `aborted`.

The metric table is a `std::vector` without a lock. `RegisterMetric` puts an
element where there is room; without room the vector moves, in two steps
(`BeginMove`, `EndMove`). The handler is here in three steps: it finds its event
(`Signal`), looks the metric up (`FindMetric`) and reads the threshold through the
pointer it got (`ReadThreshold`). A lookup during a move finds the place or
nothing, and `storage` tells whether a pointer is into the storage of today. What
is read from freed storage is of no consequence in the model, because
`GenericAnalysis` does not use the threshold; a null pointer aborts.

### BlackList

`PopulateBlackListAddresses` of several threads (`Enter`, `TestAndOpen`, one
`ScanLine` per line of `/proc/self/maps`, `ScanEnd`) with its spin lock, and
`IsValidAddress`, which handlers evaluate without it. `Realpath` says what the
buffer holds after a line without a path: the path of an earlier line, or for a
name that is no file possibly that name. The scan has three ways to fail, and each
sets `crashed`: a path with two blacklisted names takes its address apart twice
and gets null; the code reads one more, empty line at the end of the file, and
with the path of a module still in the buffer dereferences the missing address;
and nothing tests that the table, of `MAX_BLACK_LIST_ADDRESS` entries, has room
(what a write behind it does is undefined; the model stops there). The name
`anon_inode:[perf_event]` is blacklisted but is no file, and the buffers that have
it are mapped after the table is filled: they are not among the modules that
`ModulesNeverSampled` is about. `Masked` are the addresses with one of the bits 52
to 55 set, which is what the code tests; no order of addresses is involved.

### CallPaths

What `MethodEntry` and `ObjectAllocCallback` of several threads and the samples
write: the loops of both callbacks over their stack traces are one action per
frame (`EntryFrame`; `AllocSkip` for a frame of `Class.getName`, `AllocFrame`, and
`AllocLock` with `AllocRecord` for a frame of the others). The method
file is how often each method is named, the other files the methods they mention
before a name. `object_info` is its number of entries; a read without the lock
while another thread assigns it (`InfoRead`) gives any of the values in between.
An allocation made by `Class.getName` itself, which `ObjectAllocCallback` calls, is
left out: it would take the same steps one call deeper.
`ObjectFreeCallback` is not an action: JVMTI sends ObjectFree for tagged objects,
and the agent never calls `SetTag`.

### Ranges, RangeSet and CodeCache

`Ranges` are the operations of `range.h` on a map from a start to an end and
data; `IsLast` is the element in front of `upper_bound`. `RangeSet` applies them
in any order (inserted ranges are disjoint, as its callers' are) next to the set
`held` of ranges that should be there. `CodeCache` uses them for
`CodeCacheManager`: each call takes the lock (`Acquire`), does its work in one
critical section (`Remove`, `Lookup`, `Check`, `AddUncompiled`) and releases it,
except `addMethod`, which takes a version (`AddBegin`), gives up the lock,
constructs (`Construct`) and takes the lock again to publish (`AddEnd`). The VM
that compiles and unloads code (`Load`, `Unload`, `AtSafePoint`) is external;
`CompiledBefore` is code it compiled before the agent was there, which is
unloaded but was never added; that it does not overlap is an assumption about the
VM, as for the code it compiles later. The callbacks
that would call the cache exist in `src/agent.cpp` but are not registered by the
current `JVM::init`, so the module is about the class and its intended callers.

### LineTables

The three ways from a location to a line: the range table of
`loadBCILineTable`, the address table of `loadAddrLocationMap`, and the search of
the callbacks over the table as JVMTI returns it (`SearchLine`), and the XML
dump of the tables. The loops of the two functions are one action per entry
(`BciRound`, `AddrRound`); `stage` says which one runs and `entry` where it is.

### IntervalSet and SplayTree

`IntervalSet` is the abstract promise: a set of disjoint half-open intervals with
insert, delete and lookup and their answers. `SplayTree` is `splay.cpp`: the
top-down splay with its two accumulating trees as sequences, insertion at the
root, deletion by cutting at both ends and joining. `ImplementsIntervalSet` maps
`held` to the nodes of the tree. Both levels assume of a deletion that the ends are
in order, which `interval_tree_delete` does not test. The recursion over trees is why this module has
no theorem.

### ContextTree

The tree of `new_context.cpp` as a map from ids to contexts, with the metric
table and the value lists, and the XML elements of both. `Sample` is the client
that is commented out in `GenericAnalysis`; it adds to the value of the type that
the metric has, so no metric has both values. Two history variables: `path` is, for
each context, the frames on which the client got it, and `total` what was added
for each path and metric. A reader of the dump has neither: `DumpTellsTotals` says
that following `parent_id` and `frame` in the XML leads to both.

### Converter

`android-converter.py` and the tables of `drcctprof_data_builder.py`. `documents`
are the files, as attachments of threads left them; `GroupFiles` picks one file
per thread and kind, in whatever order the directory is listed; a file that exists
and is empty counts, as for the script. Then three passes
(cachemiss, trace, alloc) go through the threads: `SkipThread`, `OpenFiles`,
`CloseFiles`; through the lines: `ReadLine`, `NextLine`; and through the frames:
`ReadFrame`, which finds or makes the context in the shared `context_array` and
makes a message. `addContext` and `addSample` put messages in the profile of the
pass, where the first message for a context stays. A line is a path over the
constant `Frames`, a number and where it is cut; a whole line has at least one
frame, since the callbacks write the bar only behind one (`IsFile`). The
properties say what a reader of a profile sees: `ShowsPath` is a chain of its
contexts from the root whose names and line numbers are the path, `Places` are the
whole lines of the files picked, by thread and line. It composes with the agent
through its input: `CallPaths` shows that the files of one attachment name every
method on their lines (`AllNamed`), and `OutputFile` that a file is a prefix of
what was written, which is why lines may be cut. Each stream has a buffer of its
own, so each file of an attachment stops at a place of its own. The presets of
`method_map`, ids -1 and 0, are part of `MethodMap`.

### MCTables

`RangeSet`, `LineTables`, `SplayTree`, `ContextTree` and `BlackList` do not call
one another, and each is small. `MCTables` puts all five into one run: the
variable `subject` picks one when a behaviour begins, and the others stay in an
initial state of theirs. The reachable states are those of the five
specifications side by side, not their product. It extends the modules, so the
invariants it checks are the definitions the proofs are about; `SplayTree`, which
has recursive operators, is an instance.

The definitions marked "Variant for validation" are faulty forms of the
definition that follows them. Nothing refers to them; they serve to show that
each property can fail.

## 3. Runs

| Run | Checks | Shows |
|---|---|---|
| `agent_thread` | TypeOK, GuardWindow, SampleReadsStableState, SamplesOfThisAttachment, NoSilentStop, GuardStuckOnlyWithoutCounters | one event on two CPUs, two attachments, two queued signals, one level of nesting, GENERIC client |
| `agent_thread_live` | RestartedOrDropped, GuardReleased | the liveness of the same system with one attachment and a client whose ThreadEnd asserts that the events were closed |
| `perf_ring` | OldestSampleOnly, NoShortRead, ParsingEnds | two CPUs, the head goes twice round a page of 32 words |
| `output_file` | ImplementsLog, CallReturns | two streams and the files of earlier runs compete for three names; short writes, and failures at the start of a flush |
| `agent_init` | SampleFindsMetric, CountersAreDescribed, EventLimitAccepted, FirstAttachThreadsEnd | two attaches with every list of up to four events, among them malformed ones and rates that the word does not hold, while a thread starts, handles samples and ends |
| `call_paths` | PathsAreNamed, AllocsAreNamed | two threads that attach twice, stacks deeper than the stack traces, object information read while it is assigned |
| `code_cache` | TypeOK, VersionsUnique, TablesAgree, SomeCallGoesOn, FindsCurrentCode, UnloadFindsRange, VersionsNeverReused | two threads, two methods, three regions that overlap, code compiled before the attach |
| `converter` | ProfileTellsSamples, AllocationsNotMisattributed, ObjectsOnlyAtLeaves, EndsUnlessUnreadable | two threads, a thread that attached twice, files cut at different places, empty files, missing names, negative numbers |
| `tables` | of RangeSet: HoldsWhatWasInserted, LookupFindsCover, InsideIsAll; of LineTables: LookupsAgree, AddressesHaveLines, DumpSaysTheSame; of SplayTree: ImplementsIntervalSet; of ContextTree: DumpTellsTotals; of BlackList: ModulesNeverSampled, ThreadsGetPast | every map over five keys; every line table of three entries and address map of two; every tree over six addresses; frames that differ in one field only and metrics of both kinds; two threads that start together with every file of three mappings |

Runs that violate a statement found in the repository:

| Run | Property | What the code does |
|---|---|---|
| `dropped_signal` | DropLosesOnlyTheSample | dropping a signal also leaves its counter off for good, under fair scheduling |
| `output_file_eintr` | FileIntact | "EINTR is not failure": an interrupted `write()` after a short one corrupts the file |
| `call_paths_line` | LineFits | `object_info` only grows, until the line that names a method fails the assertion of `writef` |

Other disagreements between the code and its comments or assertions show in the
models, where a property states what does hold instead:

- `thread_data_alloc` clears the guard in the middle of `callbackThreadStart`, and
  a callback nested in `ObjectAllocCallback` ends with `UNBLOCK_SAMPLE`, which
  clears the guard of the outer one. The handler then runs inside the agent,
  against "if the interrupt came while inside our code, then drop the sample"
  (`src/perf_interface.cpp:237`) and "revert back to the original signal blocking
  setting" (`src/agent.cpp:24`). `GuardWindow` names every such place.
- `threadEnd` does not call `closeEvents`. For clients other than GENERIC, HEAP
  and ALLOCTIMES the assertion of `thread_data_dealloc` fails
  (`src/thread_data.cpp:49`), and it fails for GENERIC as well after a second
  attach, which makes the client name GENERICGENERIC (`src/profiler.cpp:195`).
  `FirstAttachThreadsEnd` says when it does not.
- `setupEvents` keeps one `mmap_buf` for the buffers of eight CPUs
  (`src/perf_interface.cpp:418`): a signal of another CPU than the last leaves its
  sample unread. `OldestSampleOnly` says what the handler gets instead.
- Ten events are accepted, but the fifth has no watermark slot and aborts the
  agent (`src/profiler_support.cpp:37`). `EventLimitAccepted` has both limits.
- `removeMethod` asserts that unloaded code has a range (`src/code_cache.cpp:447`),
  which code compiled before the attach has not. `UnloadFindsRange` says that it
  is the only code without one.
- An object is entered for every frame of its stack, not only for the place of its
  allocation as the comment at `src/agent.cpp:249` says (`AllocRecord`).
- A rate of 2^32 or more is parsed with 64 bits and kept in 32
  (`src/perf_interface.cpp:127`): the counter is opened with the remainder, and
  the metric says the remainder too. `CountersAreDescribed` promises the rate that
  was asked for only when the word holds it.
- A second attach registers metrics while handlers of the first look theirs up. A
  vector that moves leaves them with a place in freed storage, or with the null
  that `OnSample` dereferences (`src/profiler.cpp:148`). `SampleFindsMetric` says
  that without a move there is always a metric, and that a first attach never
  moves the table under a handler.
- The buffers of counters are blacklisted (`src/profiler_support.cpp:27`) but never
  get into the table on account of their name.
- A context first met in the middle of a path never shows its objects as a leaf
  (`addContext` keeps the first message). `ObjectsOnlyAtLeaves` is the other
  direction.

`OldestSampleOnly` says what the parser really does with several samples in the
buffer: the first is handed out and the rest skipped, because the unread end of
the first reads as a header of size zero.

`AllocsAreNamed` has an exception: methods whose entry had no stack trace
(`missed`), because a `GetStackTrace` that fails leaves them without a name.
`ProfileTellsSamples` assumes that every method on the lines picked has a name,
the property `PathsAreNamed` gives for one attachment. Where it does not hold, the
cachemiss and access profiles leave frames out and then show other samples under
the wrong parent as well, since contexts are shared; the alloc profile drops the
line instead, which is `AllocationsNotMisattributed`. `EndsUnlessUnreadable` excepts
what does stop the script: a line of any of the three files cut right after its
bar (`int('')`), a negative number, and samples without a method file.
`VersionsNeverReused` is about what a context keeps of a compiled method, its id
and version: the version of deleted code is not given to another code later,
however the additions and removals of threads interleave.

### Bounds

- `Cpus` and `NumEvents`: two CPUs and one event, of the code's 8 CPUs and up to
  10 events. The handler treats all counters of a list alike, so two of them show
  every interaction; the proofs lift the bound on both. CPUs are symmetric and
  used as a symmetry set in `agent_thread` (safety only).
- `MaxAttach = 2`: a second attachment is the first one with stale counters.
- `MaxPending = 2`: one signal being handled and two queued behind it, from the
  same or another CPU or foreign.
- `MaxNest = 1`: deeper nesting repeats the same step with the guard clear.
- `Size = 32`, `MaxHead = 64`: two samples and a lost or a throttle record fit,
  records wrap at all offsets, and the buffer overflows.
- `BufSize = 3` with 5 bytes and two streams: several
  flushes, with every split of a flush into short writes.
  `MaxSuffix = 2` leaves fewer free names than streams in some initial states.

- `AgentInit`: limits of 3 events and 2 watermark metrics in place of 10 and 4
  keep their order and let lists cross both. Two attachments are enough for
  everything static to be stale. `Word = 4` in place of 2^32, with the rates 1, 2
  and 6. One thread: threads share nothing but the tables the attach fills, which
  they only read, so what a second thread sees the first one sees in another
  behaviour; the proofs have any number.
- `BlackList`: three mappings of one address each, of every kind, and a table with
  room for two entries: one module and the first page fit, two modules leave no
  room for the first page, and three none for the third. Two threads, since a
  third would wait for the lock as the second does.
- `CallPaths`: stacks of up to three frames, the one of `Class.getName` included,
  with stack traces of two frames (the code's limits are 32 and 10), so that
  frames fall outside them.
- `RangeSet`: five keys hold up to five ranges, and lookups before, between and
  after them. The proofs lift the bound.
- `CodeCache`: two regions and one that overlaps both, versions up to 2; a third
  thread adds no interleaving of two critical sections. No symmetry: one of the
  properties is temporal.
- `LineTables`: locations repeat, miss the table and lie behind its last entry.
- `SplayTree`: six addresses give trees of up to five nodes, in which both
  rotations and both links occur.
- `ContextTree`: four contexts, two metrics, of which one is registered after
  a sample.
- `Converter`: two lines of two frames per file; frames differ in the method
  only or in the line only. The cachemiss file stops with the trace, before its
  second line, or in it.

The proofs hold for all values of the constants of their modules.

Deadlock is not checked: the bounds, a finished process, an abort, deleted streams
and a finished script end behaviours. `SomeCallGoesOn` says of the one module with
a lock that is given up and taken again that calls under way do not block one
another.

### Fairness

`AgentThread`: weak fairness of the handler's steps and of signal delivery (the
kernel delivers a queued signal to a thread that runs, and a handler is not
descheduled for ever), and strong fairness of callback steps: a signal may
disable a callback's step for the duration of the handler, again and again, but a
counter's period (10^8 cycles for the documented event) is long compared with a
step. Nothing is assumed of the application or of overflows. `PerfRing`: a
running handler runs on. `OutputFile`: a thread inside a call runs on. With a
device that fails for ever and a full buffer `writeb` does not return, which is
why `CallReturns` leaves out behaviours with endless failures; the code has no
bound on its retries.
`BlackList`: a thread in `threadStart` runs on, and takes the spin lock once it
stays free; it is taken once by each thread, so weak fairness is enough.
`Converter`: a sequential script runs on.

## 4. Proofs

`AgentThreadProofs` proves, for arbitrary CPUs, events, bounds and client:

- `TypeCorrect`: `Spec => []TypeOK`;
- `InductiveInvariant`: the invariant below is inductive;
- `GuardWindowHolds`, `SampleReadsStable`, `SamplesBelongToAttachment`,
  `CountersNeverStopSilently`, `StuckGuardIsHarmless`: the five safety
  invariants of the run `agent_thread`.

Assumptions: those named in `AgentThread` (at least one CPU and one event,
natural bounds, a known client). None is about the code's behaviour.

The invariants are not inductive by themselves. `GuardWindow` speaks of an active
handler, and that it was not let in depends on the guard, so `GuardInv` says in
which steps of the callbacks the guard is set on an installed object with no
handler active (`Guarded`), that an active handler has a list and a set guard,
and that a deleted `thread_data_t` is installed in one step of `ThreadEnd` only.
`DataInv` adds that a stream or tree is deleted but not cleared only in the step
of `ThreadEnd` that deletes it, and that `callpath_vec` is empty, the path of the
current attachment, or half filled in the one step of `MethodEntry` that fills
it; both places are guarded, which gives `SampleReadsStableState`, and
`SamplesOfThisAttachment` is inductive together with them. `CountersInv` extends
`NoSilentStop` to the handler's last step: the step before, `perf_start_all`, has
enabled the whole list, and from then on a counter goes off only by queueing its
signal. The three parts use each other in that order and `TypeOK`; each is
preserved by every action, in one proof step per action or group of actions that
touch the same variables.

`TableProofs` proves the invariants of the run `tables`, each for the
specification of its own module and every value of its constants.

- `RangeSet`, for arbitrary integer keys and data: `RangeInductive`,
  `HoldsWhatWasInsertedAlways`, `LookupFindsCoverAlways`, `InsideIsAllAlways`. The
  invariant adds `Disjoint`, the ranges held do not meet. That is what the two
  searches need: the last range that starts at or before a key is the only one
  that can cover it, and the walk of `getRangesInside` may stop at the first range
  that ends too far. It also makes starts unique, without which an insertion
  would overwrite.
- `LineTables`, for line tables and address maps of any size: `LineInductive`,
  `LookupsAgreeAlways`, `AddressesHaveLinesAlways`, `DumpSaysTheSameAlways`. After
  n rounds of a loop its table holds exactly the pieces of the first n entries
  (`BciSoFar`, `AddrSoFar`; `Holds` is also the form of the lemmas about
  `upper_bound`). The pieces follow one another because starts are ordered, empty
  ones are skipped, and an address loop that has returned early leaves those
  before. The last entry that starts at or before a location, where the search of
  the callbacks stops, is the one whose piece is not empty. The dump needs that
  the starts of a finite map can be listed in ascending order, once.
- `ContextTree`, for any frames, values and bounds: `ContextInductive`,
  `DumpTellsTotalsAlways`. `IsTree` says that a context's path is its parent's and
  its frame, that parents have smaller ids, and that no two contexts have the same
  path; `Totals` that the slots of a context's metric list
  are the totals of its path, or zero for a metric that only filled the list up.
- `BlackList`, for any threads, any file of mappings and any size of the table:
  `BlackInductive`, `ModulesNeverSampledAlways`. Mutual exclusion of the spin lock
  gives that, as long as the scan has not crashed, a table that is not empty is
  complete or has a thread inside (`Filling`), so that a thread that finds it
  filled may go on.

Assumptions: keys are integers, values positive, bounds natural numbers, mappings
ranges of natural numbers.

`CodeCacheProofs` proves, for arbitrary threads, methods and regions:

- `TypeCorrect`: `Spec => []TypeOK`;
- `InductiveInvariant` and `VersionsUniqueAlways`: versions are unique;
- `TablesInvariant`, and from it `TablesAgreeAlways`, `FindsCurrentCodeAlways`
  and the action property `UnloadFindsRangeAlways`;
- `VersionsNeverReusedAlways`, which has boxes inside boxes: no version that has
  had its object deleted is given out again.

`VersionsUnique` is not inductive: that the next version is new needs `Bounded`,
no version published or under construction exceeds `_recent_version`, and that
the number a thread took before it gave up the lock is still unused when it
publishes is the part of `VersionsUnique` about threads. `CallOK` says that only
`addMethod` is outside its first critical section. For `VersionsNeverReused` the
property of one state is `Spent`: a version at or below `_recent_version` for which
no thread is about to construct an object. A version whose object exists is spent
(`ExistingIsSpent`) and stays so (`SpentStays`), and no object is made of a spent
version (`SpentIsNotMade`).

`CInv` relates the cache to the VM. Its parts: code does not overlap (`Placed`);
every add or remove under way is about a piece of code in the matching state, and
no two are about the same (`Events`); both tables have an entry for exactly the
code that is loaded or about to be unloaded (`Entered`); the objects that exist
are those with a published version and those a thread has constructed and not
published (`Exist`). `FindsCurrentCode` needs `Placed` for the search through
`upper_bound`, as in `TableProofs`. Assumptions: those of `CodeCache`; that the
regions and the code compiled before the attach are well formed describes the VM.

`PerfRingProofs` proves, for any number of CPUs, any buffer size and any bound on
the words written:

- `TypeCorrect`, with the tail at or before the head;
- `InductiveInvariant`, `OldestSampleOnlyAlways`, `NoShortReadAlways`.

The properties speak of the end of a handler run and of the step between header
and fields. The invariant says where everything is: the records of `queued` lie
one after the other up to the head (`Layout`), each word of each of them is in
the buffer at its position modulo the size (`Stored`), the distance from the
oldest record to the head is below the size (`Room`), and the tail is in front of
a record with no sample before it, behind the header of the oldest sample, nine
words into it, or at the head (`Place`). Arithmetic modulo the size is confined
to two lemmas: `PutWords` (a record that fits changes no word between the tail
and the head) and `ReadWordsAre` (the two-part copy returns consecutive words).
The zeroes in the unread end of a sample, on which the parser skips the rest, are
part of `Stored`. The proof does not use that the size is a power of two: with
`%` in place of the code's mask it need not be.

`OutputFileProofs` proves, for any number of streams, buffer size, lines and names,
and under the hypothesis `NoLateFailure` (no `write()` fails after a part of its
flush was written; a failure at the start of a flush and short writes are
allowed):

- `InductiveInvariant`;
- `ImplementsLogAlways`: `OutputFile` implements `AppendLog`, every step is a step
  of the log or leaves it unchanged;
- `FileIntactAlways`, the property that the run `output_file_eintr` refutes
  without the hypothesis.

`Content` is the heart of the invariant: what was copied is the file followed by
the part of the buffer that is in use and not flushed. `OwnFile` (no two streams
have one file, from O_EXCL) makes it local to a stream, and `Flow` says in which
steps of the loops the counters are in range.

`AgentInitProofs` proves, for any threads, event lists, limits, word and number of
attaches: `TypeCorrect`, `InductiveInvariant`, `SampleFindsMetricAlways`,
`CountersAreDescribedAlways`, `EventLimitAcceptedAlways` and
`FirstAttachThreadsEndAlways`. `MetricsThere` is about all attaches: the ids of
the event table point into a list that only grows, or are the zero of a slot that
was never filled, and the list is not empty once a thread can start. `Lookups`
says that a handler's pointer is into the present storage or an earlier one, and
`SampleFindsMetric` is inductive with it: a pointer into the present storage stays
good until the next move, which in a first attach comes before any handler.
`FirstAttach` describes a first attach step by step: how many events are
described, that each has its slot, that no thread sees the table before it is
complete.

`CallPathsProofs` proves `InductiveInvariant`, `PathsAreNamedAlways` and
`AllocsAreNamedAlways` for any threads, methods, stack depth and length of the
stack traces. The invariant follows a name from the stack: a method on it is in
the method file, is among the frames the `MethodEntry` under way has still to
name, or was missed; `method_id_list` and `callpath_vec` hold named methods only,
and so do the frames an allocation has still to write, up to the missed ones.

`ConverterProofs` proves, for any directory of finitely many threads with files of
any size, any order of the listing and any choice among the files of one thread
and kind: `ConverterInductive`, `ProfileTellsSamplesAlways`,
`AllocationsNotMisattributedAlways` and `ObjectsOnlyAtLeavesAlways`. The script
never looks at a profile as a whole, and what one line adds depends on what lines
of other threads and passes left in the tables. The invariant goes through
`context_array`, which they share:

- `Working`: the frames of the line in hand that were read are a chain of ids in
  `context_array`, each under the one before (`Chain`), the messages are those of
  the frames in order (`Queue`, `Fits`), and the ones taken have their context in
  the profile;
- `Agreeing`: a profile says of a context id (parent, line, method) only what
  `context_array` says, so it does not matter that the first message stays;
- `Telling`: there is an increasing map from the samples of a profile to lines
  passed, each shown by its sample, and all of them when all methods have names;
- `Where`, `Picked`, `Shape`: where the four loops stand, and that the files
  picked exist.

`Complete` says for which passes this holds: for all when every method has its
name, and for the alloc pass always, since it drops a line at the first method it
cannot name. In the other passes a missing name leaves a context out, and neither
`Working` nor `Agreeing` is true. The tables only grow (`Grows`, `Extends`), which
keeps what was told. Assumption: `ConverterAssumption`, which describes what the
agent can have written.

Every inductive invariant was checked with TLC, on the instances of section 3,
before it was proved.

Only model-checked: liveness (`RestartedOrDropped`, `GuardReleased`,
`ParsingEnds`, `CallReturns`, `ThreadsGetPast`, `EndsUnlessUnreadable`) and
`SomeCallGoesOn`, which uses ENABLED: both are out of the prover's reach. So is
`ImplementsIntervalSet`, the refinement of `IntervalSet` by `SplayTree`, which is
about recursive operators on trees: what a recursion computes for every input
needs an induction that the prover does not have. All other invariants and action
properties of the passing runs are theorems.

## 5. What is not modelled

- Failures of `ioctl` in the handler (they end in an assertion), and a
  `perf_event_open` that fails on some CPU is a failure of its event.
- The memory-level effect of a handler that runs while `setupEvents` appends to
  the list's vector: `SetupOpen` is one step.
- `ObjectFreeCallback` beyond its guard: it is never called, since no object is
  tagged. (It would erase the element its iterator points to and then advance
  that iterator.)
- The statistics of `threadEnd` and `output_statistics`: the file is never
  opened and nothing adds to the totals. `object_alloc_counter` and
  `active_memory_usage` only end a line.
- `closeEvents`, `readCounter`, `perf_unmmap`, `hpcio_outbuf_flush` and
  `JVM::shutdown`: no caller.
- `context.cpp`, the same class as `new_context.cpp`; `old_agent.cpp`, which is
  not built; code under `#if 0`.
- The text of names, lines and XML, and the protobuf encoding.
- The source file map of the converter (its lookup returns before it is used),
  and hash collisions of its table keys.
- Whatever the clients other than GENERIC do with a sample; they have no
  callback in the current source.
- The components listed as `not_modelled` in `PROJECT.json`.

## 6. Plan

Done: `AgentThread`, `PerfRing`, `OutputFile` and `AppendLog`; `AgentInit`,
`BlackList`, `CallPaths`; `Ranges`, `RangeSet`, `CodeCache`, `LineTables`;
`IntervalSet` and `SplayTree`; `ContextTree`; `Converter`; proofs of the safety
properties of all of them but `SplayTree`.

To come:

1. `CodeCache`: its lemmas about the search through `upper_bound` are those of
   `TableProofs` for its own map; one set would do for both.
2. `OutputFile` with late failures: how much of the file is a prefix at least.
3. `SplayTree`: a tree as a map from ids to nodes instead of nested records would
   make its search and insertion provable, rotation by rotation.
