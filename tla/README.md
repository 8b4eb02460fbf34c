# A TLA+ model of CacheInspector

CacheInspector (`src/CacheInspector`) measures the throughput, the latency and the
*effective* size of the caches of a machine. Its program `ci` has five commands, and a
small library lets an application read the cache sizes that `ci` measures while the
application runs. This directory holds TLA+ modules that model parts of it, configurations
that check them with TLC, and proofs that TLAPS checks.

## The system

| part | source | state | operations | hard behaviour |
|---|---|---|---|---|
| cache size search | `src/cache_size.cpp` | bounds, pivot, depth of each search; the output array | `eval_cache_size`, `binary_search` | integer bounds and word size; a recursion that shares an output array; noisy and failing measurements |
| sampling of an application | `src/ci.cpp` `run_app`, `src/cache_info_shm.cpp` | the child's pid, the time of the next sample, the page, its name | `run_app`, `initialize_cache_info`, `destroy_cache_info` | two processes, asynchronous stops, deaths at any moment, every system call can fail |
| page, application side | `src/cache_info_shm.cpp` | the map of names, one mapped pointer per name, two kinds of lock | `get_cache_info` | threads; double-checked mapping; pages that come and go |
| schedules | `src/schedule.cpp`, `parse_schedule` | the list of tests, one buffer | `parse_schedule`, `ci_schedule` | order of the entries, errors half way, optional counters |
| sequential throughput | `src/seq_thp.cpp` | buffer, timer, counters | `sequential_throughput` | strides against the buffer's size, order of timing and counting |
| random read latency | `src/rand_lat.cpp` | a cyclic linked list in the buffer | `rand_latency` | the list must be one cycle; warm-up past the end |
| performance counters | `src/linux_perf_counters.cpp` | descriptor, started flag | start, stop, get, move | ownership of the descriptor |
| command line | `src/ci.cpp` `main` | `parsed_args` | `initialize`, the `set` branches | defaults depend on the order of options |
| profile analysis | `profile/profile.py` | - | piecewise models, curve fitting | floating point |
| scripts, counter access, build, example | the rest | - | - | I/O, single instructions |

How they interact: `main` parses the options and calls one command. `run_app` forks the
application, and calls `eval_cache_size` each time the application is stopped;
`eval_cache_size` calls `sequential_throughput`, which uses the performance counters;
`run_schedule` parses a file and runs `sequential_throughput` and `rand_latency` for each
line; `profile.py` reads what that printed. The application reads the page that `run_app`
writes, through `get_cache_info`: the only state two processes share.

What makes each part correct:

* search: the interval always encloses the answer; it shrinks; a finished search has found
  the size up to the noise; every output is written, once, in ascending order; no scan goes
  further than it must; the recursion ends;
* sampling: the application is stopped whenever the cache is measured or the page written;
  a running application sees the sizes of one measurement; it is always continued again; the
  sampler ends after it;
* page: one mapping per name; a pointer handed out is everybody's answer for ever; lookups and
  insertions never overlap; no call blocks for ever, none fails without a reason;
* schedules: no test is given more memory than was allocated, or a size it cannot end at; every
  test is collected once, in order, with its own results and counters;
* latency: one cycle through all entries, all of them loaded; throughput: what a result counts
  was touched; counters: a descriptor has one owner on every way out;
* command line: what was asked for is used, whatever the order of the options.

## Plan

Done: `CacheSize`, `RunApp`, `CacheInfo`, in the order of what matters most to a user of
the published sizes; the two measurements, `SeqThp` and `RandLat`, with `PerfCounters`,
on which they rest; `CommandLine` with `Schedule`, which run them. Three abstract
specifications, each implemented by its component: `Sampling` (by `RunApp`), `PageOnce` (by
`CacheInfo`) and `TestPlan` (by `Schedule`). Every safety property that a passing run checks
has a proof, and so has the safety part of each refinement.

Left, in this order:

1. `Sorted`, `ReachBounded` and `Bracket` say nothing of five samples or more, of the reach with
   so many, and of the interval of a search that is not the first: what does hold of them, if
   it can be said more simply than the code says it.
2. A composition of two consecutive runs of `RunApp` with readers of `CacheInfo`: a reader that
   is stopped half way through the row, and the mapping of a page of an earlier run. Nothing in
   the code or its documentation promises anything for either.
3. The piecewise models of `profile.py` over integers, if a property is found that says more
   than their definition.

## Modules

| module | what it is |
|---|---|
| `CacheSize` | `eval_cache_size` and `binary_search` |
| `MCCacheSize` | argument sets for its runs |
| `CacheSize_proofs` | theorems about it |
| `RunApp` | `run_app`, the child, and the kernel's part |
| `Sampling` | what `run_app` promises the application |
| `RunApp_proofs` | theorems about `RunApp`, and that it implements `Sampling` |
| `CacheInfo` | `get_cache_info` and its threads |
| `PageOnce` | what `get_cache_info` promises its callers |
| `MCCacheInfo` | threads and names for its runs |
| `CacheInfo_proofs` | theorems about `CacheInfo`, and that it implements `PageOnce` |
| `PerfCounters` | the counters; extended by the next two |
| `SeqThp` | `sequential_throughput` |
| `MCSeqThp` | arguments for its run |
| `RandLat` | `rand_latency` |
| `MCRandLat` | arguments for its runs |
| `SeqThp_proofs`, `RandLat_proofs` | theorems about them |
| `NumberFacts`, `PerfCounters_proofs` | lemmas they share: rounding, multiples, the least number of a set; the counters |
| `Schedule` | `run_schedule`, `parse_schedule`, `ci_schedule`, `ConsoleCollector` |
| `TestPlan` | what a run of a schedule promises |
| `CommandLine` | `main` and `parsed_args`; goes on with `Schedule` |
| `MCCommandLine` | command lines and entries for its runs |
| `CommandLine_proofs` | theorems about both |

### CacheSize

`args` holds the arguments, `cross[i]` what the machine is like: the largest buffer (KiB)
whose scan is at least as fast as target `i`. A scan within `Noise` KiB of `cross[i]` may
compare either way, any other is decided by `cross[i]`; a failed scan compares either way,
because the array it should have filled is uninitialised or old. `lb`, `ub`, `pivot`, `loop`
are the locals of the running call. The C++ stack is `pending`: all arguments of the second
recursive call are computed from locals that the first call cannot change, so both can be
pushed at once. Arithmetic is modulo `Modulus` (2^32 in the build).

| action | code |
|---|---|
| `Eval`, `EvalExits` | workspace or the caller's buffer; `exit(1)` without one |
| `WarmUp` | optional warm-up, then the outermost call |
| `EnterEmpty`, `EnterSearch` | `num_samples == 0`; the locals |
| `Probe` | one iteration of `while(loop--)`: scan, compare, move a bound, new pivot, breaks |
| `Publish` | `output[num_samples / 2] = pivot` and the two calls |
| `Return` | release the workspace, `return ret` |

`failed` (some measurement failed), `cut` (some search used up its depth) and `touched` (how
far the scans reached) are history variables. The build modelled is the default one
(`USE_HUGEPAGE`, no `LOG_BINARY_SEARCH`). What the
countdown of a negative depth does is left out: it cannot end the loop.

### RunApp

`pc` is the next system call of the sampler. `app`, `code`, `pending` and `event` are the child:
its process state, whether it runs `run_app`'s child branch or the application, a SIGSTOP that was
sent and not yet delivered, and the state change `waitid` has yet to report. `pid` is the child's
or the -1 of a failed fork, `left` the naps until the next sample (`Never` is
`numeric_limits<uint64_t>::max()`), `page` the cells of the page in the order in which they lie,
of which `RowLength` make the row of a cache level, `shm` whether the name exists, `bystander`
every other process. One measurement is one step (`CacheSize` is its detail); measurements are
numbered 1, 2, 1, ... which is enough to tell the latest from the one before; with
`--num_datapoints 0` a measurement is nothing and nothing is stored, but the application is
stopped for it all the same. Each action is one system call with its outcome: `Nap`,
`NapReapExited`, `NapReapKilled` and `NapNoChild` are the four outcomes of `usleep` and `waitpid`;
`Stop`, `StopNothing` and `StopOthers` those of `kill(pid, SIG_STOP)`. The scheduling priorities
and the messages have no effect on what the properties tell apart.

The faults are constants, so that a run can say which it allows. `EvalMayFail` is `FALSE` in the
runs because `eval_cache_size` returns 0 whatever happens in it (its return codes are kept in a
`uint32_t`, see below); with `TRUE`, the `return` at line 566 leaves the application stopped for
ever. The promise allows that only because it allows the sampler to break off.

`Sampling` is that promise. Its `app` is the child's state, with `"measured"` for a stopped
child whose row is being written or is complete; `view` is the set of measurements found in
the cells of the samples, empty unless the child runs; `sampler` is `"left"` once the loops
are left and `"lost"` after a crash, a kill or an early return. Signals, waits and the cells are
stutters of it.

### CacheInfo

Threads interleave between accesses to shared state; `pc[t]` names the next one. `known`,
`readers` and `writer` are the map and its `shared_mutex`; `ptr[f]` and `owner[f]` the
`readonly_ptr` of the object for name `f` and its mutex; `page[f]` the page that has the name
now. A lookup that overlaps an insertion returns `UNDEFINED`, the value of undefined
behaviour. `CreatePage` and `RemovePage` are what runs of `ci` do to the name; that a page has no
length for a moment after it was created is left out (the pointer is that of a page, whatever a
read of it does). `shm_open` fails without a page, and with `CallsMayFail` also when there is one;
so may `mmap`. `MmapFails` and `ResetPointer` are two steps: between them `readonly_ptr` is
MAP_FAILED, which another thread may find and return. `mappings` and `excused` are history
variables; `excused[t]` is what failed during the call of `t`.

`PageOnce` has neither locks nor a map: a thread asks, at some moment a page that had the name
is remembered for it, and every answer is that page, or NULL if something failed during the call
(`CannotOpen`, `CannotMap`) and nothing is remembered. `remembered[f]` is `ptr[f]`, NULL while it
is MAP_FAILED, and `failing[f]` who has that to reset; every lock and every look at the map is a
stutter. Who could not map the page answers NULL and nothing else. The two answers that are neither
a page nor NULL are confined to the races that give them (`Answers`): MAP_FAILED to a call during
which another thread's `mmap` failed, and the undefined result to one beside a first call for
another name. That they occur are the runs `failed_page` and `at_without_lock`.

### PerfCounters

`lpcs[c]` is the element of the map for counter `c` (does it own a descriptor, is it started,
was anything counted), `event[c]` what the kernel has behind the descriptor. The module has no
`Next` of its own: a measurement opens (`Construct`), starts, stops and closes
(`DestroyCounters`) all its counters together with steps of its own, so `SeqThp` and `RandLat`
conjoin these operators to their actions. `Construct` keeps the temporary from which each
counter is moved: what `giveup` leaves of it is destroyed in the same step. Where the code
calls `exit()`, the using module has an action that ends the process.

### SeqThp

`args` are the arguments and the machine, `mapped` the size of the mapping, `left` and `head`
the registers of the loops. The bodies of the loops, for AVX-512, AVX, plain x86_64, ASIMD and
plain aarch64, touch each of the 1024 bytes from the head on exactly once, so one chunk is one
access, an entry of the history variable `touched`. A result is the number of bytes it was
computed from, and whether the counter it was divided by is 0.

| action | code |
|---|---|
| `CheckTiming`, `Allocate`, `AllocateFails`, `SetScheduler`, `WarmUp` | up to line 84 |
| `Iterate`, `StartTimer`, `ClockFails`, `IterateFails`, `StartFails` | lpcs, the first reading of the clock, start of the counters |
| `RewindX86`, `ReadX86`, `WriteX86` | x86_64: scans are counted before each, `js` |
| `RewindArm`, `ReadArm`, `WriteArm` | aarch64: scans are counted after each, `beq` |
| `Segv` | the head leaves the mapping |
| `StopTimer`, `StopFails`, `Result`, `CleanUp` | second reading, stop, results and rows, `munmap` |

Left out: what is stored, and the number of warm-up passes. `bytes_per_iter + buffer_size`
is assumed to fit the word. `buf_alignment` has no effect with huge pages.

### RandLat

Sizes are in entries of 8 bytes and a pointer is the index of its entry; `Junk` is what an
entry holds that is no address. `cll`, `bytemap`, `head`, `offset` and `filled` are those of
`fill_cyclic_linked_list`, `warm` is the `uint32_t` of the warm-up, `left` and `ptr` are the
registers of the traversal, `loads` the loads of its current turn, `seen` a history variable.

| action | code |
|---|---|
| `Allocate`, `AllocateFails` | the mapping, rounded up to huge pages |
| `Fill`, `FillFails`, `Link`, `CloseCycle` | the list; `Probe` is the inner loop, and `xorshf96() % ecnt` may be any entry |
| `WarmUp`, `WarmedUp` | one turn reads 8 entries; one pass stands for five equal ones |
| `Measure`, `Start`, `NoTiming`, `NoClock`, `Clock`, `CounterExits` | lpcs, and the ways out before the traversal |
| `TurnX86`, `LoadedX86`, `TurnArm`, `LoadedArm`, `Load`, `Segv` | the traversal, load by load; x86_64 counts before the loads, aarch64 after them |
| `Stop`, `Collect`, `CleanUp` | counters, the point, `munmap` |

Assumed of the arguments: at least one entry (with none, `% num_entries` is undefined), and a
buffer of the caller that is whole pages, as `ci_schedule` maps it, and not smaller than the size
to measure, which holds for ascending schedules. A caller's buffer holds nothing, or the list of
an earlier and not larger call, when the function is entered.

### Schedule and CommandLine

`argv` is the sequence of options, `optind` the next one, `pargs` the members of `parsed_args`
as numbers, `cmd_name` the command. A file is the sequence of entries its lines become. `mapped`
is the buffer of `ci_schedule`, sized by the last entry; `iter_results` and `lpcs` are the array
and the optional rows of counters that serve all tests of an entry, abstracted to the kind of
test that filled them; `collected` is what the collector was called with. Sizes are in a unit of
which `Page` make a huge page, `Chunk` the 1 KiB that a turn of the throughput loops touches and
`ListEntry` the 8 bytes of an entry of the latency's list; `StackRoom` is how many doubles fit on
the stack.

| action | code |
|---|---|
| `TakeCommand`, `TakeSecondCommand` | the five commands; `initialize` gives defaults to what is still 0 |
| `TakeMember`, `TakeGarbage`, `TakeTiming`, `TakeHelp` | the other options; `stoull` throws |
| `RefuseOption`, `SearchPastOptions` | `'?'`; an array of options without its terminating zeros |
| `LastOption`, `PrintMessage`, `StartCommand` | the end of the options, help, the checks of the commands |
| `Open`, `OpenFails`, `ParseEntry`, `ParseThrows`, `ParseEnds` | `parse_schedule` |
| `Check`, `Map`, `MapFails` | timing, empty schedule, the buffer |
| `BeginEntry`, `BeginEntryCrashes` | the array on the stack, the optional, and which tests there are |
| `Throughput`, `ThroughputFails`, `Latency`, `TestExits`, `TestCrashes` | a test; `SeqThp` and `RandLat` are its detail |
| `Collect`, `CollectCrashes`, `Finish` | the collector and `clear()`; the empty optional; `munmap` |

`TestPlan` is the promise of a run: `plan` is the sequence of the tests of all entries in order
(`TestsOf`), and `state` follows `pc`. Parsing extends the plan, each `Collect` hands over the
next test of it, success comes after the last. Parsing, mapping and the tests are stutters.

## Runs

| run | question | bounds, and why they are enough |
|---|---|---|
| `first_sample` | is the first search right, and do all keep within bounds? | one sample: every crossing from 0 to 14 KiB and hint from 0 to 20, depths 0 to 8 (both too short and more than enough: 20 needs at most 5 doublings and 5 halvings), noise 1, a buffer too small, one big enough and none, and hint 255 in a word of 256, whose double overflows; two, three and four samples with hints below and above all crossings and depths too short and long enough, so that the first search ends either way and both halves follow |
| `many_samples` | does the recursion fill the array? | 2, 3 and 4 samples: empty, single and nested halves on both sides; 5 samples with one hint and depth; noise as wide as the crossings, so every outcome of every comparison occurs; failing scans; depths 1 and 0, which become -1 and -2 |
| `every_sample` | is every sample right? (no) | exact measurements, depth 12 |
| `sampling` | does sampling work against any application, as `Sampling` says? | intervals 0, 1 and 3 naps; 0, 1, 2, 3 and 5 data points with rows of 2 cells in a page of 4: none, a part of the row, the row, the next and past the page; all faults but `EvalMayFail`; the state space is finite without further bounds |
| `fork_fails` | is only the application stopped? (no) | only fork fails |
| `threads` | is `get_cache_info` thread safe, and as if it took one step (`PageOnce`)? | three threads with one call each: two race for one page and the third for the same or another, which is what insertion against lookup needs; a page of each name appears and vanishes at any moment; every `shm_open` and `mmap` may fail |
| `at_without_lock` | is every result a page or NULL while no call fails? (no) | the same, calls fail only without a page |
| `failed_page` | is every result a page or NULL for one name? (no) | two threads, one name, so no undefined lookup; calls may fail |
| `throughput` | do the results count what was touched? | buffers of 1, 2 and 3 chunks and one and a half, of one page and of more; NULL and a larger buffer; no, part of a and several scans to do; 0 to 2 data points; all timings, one of them not in the build; one counter that is used and one that is not; every failure. A word of 16 lets aarch64's count wrap |
| `latency` | is it the latency of the whole buffer? | 1 to 5 entries with 4 loads in turns of 2: fewer, as many and more entries than loads, multiples and not of the stride 2 and the page 4, and 5 is more than a word of 6 can count in steps of 2; every sequence of random numbers; two points, so the second starts elsewhere |
| `command_line` | are options taken in any order, and is a schedule run as planned? | all command lines of up to two options, of up to four of those whose order matters (two commands, the schedule, zeros and two values for one member), the longest with six; schedules of up to three entries of nine kinds: size 0, below an entry of a list, below, of and above a page, and of no whole chunks, with either, both and no test, with more points of either, with none and with more than the stack has room for; every failure |
| `unsorted` | does each test fit the buffer? (no) | two kinds of entry, no failures |

`CHECK_DEADLOCK` is off because all programs end.

Properties, by what they say:

* `Bracket`, `Accurate`, `Halves`: the first search, the one for the middle sample, however many
  others follow. They hold when the sizes fit the word (`FitsWord`), which is an assumption
  about the machine, and when no scan failed; `Accurate` also when the search was not cut short
  by its depth. The searches after it begin with a seed that need not be in the middle of their
  interval, and those of the larger halves in an interval that need not enclose the answer
  (`every_sample`).
* `ReachBounded`: the scans of all searches. Nothing in the code compares a pivot with the size
  of the workspace; how far the scans go depends on the machine alone. The factor 2 for three
  samples or more is needed: without depth the hint itself is published, and the larger half
  begins with its double.
* `SlotsOwned`, `SlotsKept`, `AllWritten`, `Sorted`, `Terminates`: the recursion. `Sorted`
  holds for up to four samples, even for measurements that contradict each other, because the
  second half starts where the first ended. With five it does not: line 109 computes the seed
  of the second half from the `UB` the call began with, line 113 bounds it by the narrowed
  `ub`, so the seed may lie above its interval; a call without depth publishes a number
  computed from it. Hint 4, depth 2 and exact measurements with crossings 0, 0, 4, 4, 14 give
  1, 2, 6, 11, 10.
* `MeasuredWhileStopped`, `PageWhole`, `RowKept`, `SamplerOutlivesApp`, `SamplesAsPromised`,
  `SampledAgain`: sampling. The promise includes two liveness
  properties: a stop does not last unless the sampler breaks off, and the sampler follows the
  application to its end.
* `OneMapping`, `LockedLookupsSafe`, `AnswersOnce`, `CallsReturn`: the page. `AnswersOnce` is
  the refinement of `PageOnce`. `TypeOK` also says that `readonly_ptr` is a page or NULL wherever
  its mutex is free: a MAP_FAILED does not outlive the block that stored it.
* `KiBNotOverrun`, `CountedIsTouched`, `CountersCoverLoops`, `ResultsComplete`, `CallEnds`:
  throughput. The loops compare the head with the end for equality only, so sizes that are no
  multiple of 1 KiB are overrun until the mapping ends; `KiBNotOverrun` is about the others.
  `CountedIsTouched` excludes `bytes_per_iter = 0` on aarch64, where the count wraps and the
  loop goes on for 2^64 scans; in the model the word is small and the loop ends. `CountersCoverLoops`
  places all counters: enabled in the loops, open and stopped in the rest of a data point, closed
  outside it.
* `SingleCycle`, `AccessesMapped`, `WholeBufferLoaded`, `DescriptorsOwned`, `CallEnds`:
  latency. `CallEnds` is about sizes that `uint32_t` can count: with 2^32 entries (32 GiB) the
  warm-up never ends. `SingleCycle`, `AccessesMapped` and `WholeBufferLoaded` are about lists
  that were built: without memory for the byte map the code follows whatever the buffer holds.
* `ArgumentsTaken`: each member has the last value given for it, or its default; a 0 counts as
  not given before the command and as given after it, the one way in which the order matters.
* `CollectsThisTest`, `WellFormedSafe`, `RunsThePlan`: schedules. `WellFormedSafe` says which
  schedules do not crash, though the file may ask for others: no entry larger than the last and
  none of size 0, throughput entries of whole KiB (the loops end by equality only), latency entries
  of at least 8 bytes (`fill_cyclic_linked_list` divides by the number of entries), results that
  fit on the stack, and no entry for latency alone when counters are shown. What is left to show is
  that one buffer of the last entry's size, rounded up to pages, is enough for all entries at any
  position, with failures anywhere. A process that ends because a call failed is `"aborted"` and
  not a crash; among these is a list that could not be built and is followed all the same.
  `RunsThePlan` is the refinement of `TestPlan`, with its end.

Definitions named `Variant_...` are faulty forms of the definition they stand before; put in
its place, each makes one property fail. They show what the properties are able to notice.

### Disagreements between code and documentation

* `cache_size.cpp:113` searches the second half of the samples inside the *narrowed* interval
  of the first search, so `cache_size.hpp`'s "the i-th point shows where estimation of cache
  size will be to get this throughput" fails for all samples but the first searched
  (`every_sample`).
* `ci.cpp:540` sends SIGSTOP to process -1, everybody, after a failed fork (`fork_fails`).
* `cache_info_shm.cpp:68` looks the name up without a lock after an insertion
  (`at_without_lock`).
* `cache_info_shm.cpp:30` reads `readonly_ptr` without the mutex, line 38 stores a failed `mmap`'s
  MAP_FAILED there before line 41 resets it: another thread returns it in spite of "@return the
  cache info pointer" (`failed_page`).
* `ci.cpp:287` declares `prev_buffer_size` inside the loop over the lines, so "has a buffer size
  smaller than previous one" is never said, and a test runs past the buffer (`unsorted`).

Not checked by a run: `cache_size.cpp:50` keeps return codes in a `uint32_t` and tests them with
`< 0`, so "@return 0 for success, otherwise failure" does not hold. `cache_size.cpp:162` announces
that buffers below 256 MiB are refused and does not refuse them (`EINVAL` is positive), on which
`run_app` relies. `rand_lat.cpp:512` and `seq_thp.cpp:1053` unmap huge pages with the length asked
for; for other than whole pages `munmap` fails unnoticed, although the buffer is "destroyed on
finish". `long_options` (`ci.cpp:107`) lacks its terminating zeros. The help text names
`/ci/cache_info` as the default file where `cache_info_shm.hpp` has `cache_info`; `end_usec` is
printed uninitialised when the loops of `run_app` are left by any other way than an exit of the
application; `rand_latency` returns 0 when the list could not be built, and stores what is no
latency (`rand_lat.cpp:507`: an unsupported timing's -0xffff, a failed clock's 0) before it
returns 0. `ci.cpp:571` writes any number of samples from the start of level 0 on, into the rows
of the other levels and past the page, although "we currently detecting only one cache level";
`RowKept` says up to which number this does not happen.

## Fairness

* `CacheSize`: `WF(Next /\ UNCHANGED failed)`, a single thread that keeps running, in which
  no measurement is owed to fail. Termination is claimed only
  while no measurement fails: with failures an unlucky run of comparisons can alternate for
  ever once a pivot has wrapped.
* `RunApp`: `WF(Sampler)` and `WF(StopArrives)`: the sampler is scheduled (it runs with
  higher priority than the application) and the kernel delivers a signal in the end. Nothing is
  assumed of the application: it may run for ever, exit or be killed. The clock is in
  `NapAgainOrSample`: each nap uses up time. The liveness that `Sampling` promises follows from
  these two.
* `CacheInfo`: `WF` of each thread once it has called. A lock is a step that is enabled when
  the lock is free, and no thread takes one for ever since calls are bounded by `MaxCalls`.
* `SeqThp`, `RandLat`, `CommandLine`: `WF(Next)`, a single thread that keeps running. A `WF` of
  all steps together does not favour a step over another: a failure may always or never happen.

## Proofs

`CacheSize_proofs` proves, for all word sizes, arguments, crossings, noises and faults, and but
for the last two for any number of samples:

* `TypeCorrect`, `SlotsAlwaysOwned`, `EverySlotWritten`, `SlotsNeverRewritten`. `AllWritten`
  and `SlotsKept` are not inductive: they need to know which call will write which slot.
  `SlotsOwned` says so: unwritten slots are partitioned among the running call and the calls
  on the stack. The step that matters is `Publish`, where lemma `SlotsSplit` divides a call's
  slots into the middle and the two halves.
* `IntervalEncloses`. `SearchInv` strengthens `Bracket` with a bound on the pivot (`Reach`)
  that keeps the word from overflowing; `OneSearch` says that until the middle slot is written
  the only non-empty call there is is the outermost one.
* `SettledIsAccurate` and `IntervalHalves`. `Converging` says that the pivot is the middle of
  the interval once there is an upper end, and twice the lower end before (`NextPivotHalfWay`
  is the arithmetic, `ProbeConverges` the step): a pivot that does not move is within one of
  both ends, and those enclose the answer by `Bracket`.
* `OutputsSorted`. `Sorted` speaks of the end only. `OrderInv` says at every moment that the
  outputs written are in order, and of each call, running or pending, where its bounds and its
  pivot are between the outputs beside its slots (`Ordered`): the bound it was called with is
  not below the output on its left, and whatever it may publish is not above the one on its
  right. `ProbeOrdered` shows that an iteration keeps this whatever the comparison says,
  `PivotInOrder` that the pivot may be written, `SmallerOrdered` and `LargerOrdered` that both
  halves begin so. The larger half needs `args.n <= 4`: it then has one sample, and its pivot
  need not be between its bounds.
* `ScansBounded`, because `Ordered` bounds every pivot (`Limit`).

`RunApp_proofs` proves the five invariants for all intervals, numbers of data points, sizes of
row and page and combinations of faults, `EvalMayFail` included. The inductive invariant adds
`EventFresh` (a stop not yet reported still lasts) and `RowFilled` (how far the cells are
rewritten). `SamplesSafely` maps every step to a step or a stutter of `Sampling`: the view of a running
application is a single measurement by `PageWhole`. `RowNotOverrun` needs from the invariant
only that no sample beyond the last is stored.

`CacheInfo_proofs` proves, for any set of threads, names and calls, that lookups under the lock
overlap no insertion (`LookupsSafe`), that a page is mapped once for each name (`MappedOnce`),
and that the whole is an implementation of `PageOnce` (`ImplementsOnce`). The inductive
invariant says who holds which lock by where each thread is: readers are the threads at the
places between `LockShared` and its release, a writer excludes them, the owner of a mutex is
the thread that is inside it; that a pointer being set belongs to the owner, who alone sees
MAP_FAILED there with the mutex (`FailedInv`); that a name without an object has no page
(`KnownInv`), so that a lookup beside an insertion is a call beside a first one; and that who is
about to answer NULL or MAP_FAILED has the excuse for it (`ExcusedInv`).

`SeqThp_proofs` proves the five invariants of `SeqThp`, for every size of chunk, page, buffer
and word, every number of scans and points and any set of counters. The inductive invariant
relates what was touched to what is left: each full scan is one entry for each chunk, the
running scan one for each chunk below the head, and what is left is what was to be done less
those (before each scan on x86_64, after it on aarch64). `CountersOpen` says of each place whether
the counters have descriptors and are started. A head that moves in chunks meets the
end of a buffer of whole chunks (`NextMultiple`, `StepOfMultiple`).

`RandLat_proofs` proves, for every size of buffer, page, stride and word, every number of
loads and points, any set of counters and any generator:

* `ListIsOneCycle`. While the list grows there is an order `p` of the entries on it (`Path`):
  it begins at `head`, ends at `offset`, visits no entry twice, and each points to the next.
  `Link` extends it by one entry (lemma `LinkStep`): `ProbeFindsFree` shows that the linear
  probing ends at an entry that is not on the list while there is one, by the least number of
  a set (`LeastNumber`, from well-foundedness of inclusion). When all entries are on it,
  `CloseCycle` makes it a cycle. `SingleCycle` is not inductive: it says nothing until then.
* `NoStrayAccess`. The mapping is whole pages, pages are whole strides, and the counter of the
  warm-up is whole strides even after it wraps (`WholePages`, by `RoundUpMultiple`,
  `MultipleOfMultiple`, `SumOfMultiples`): a stride that begins inside ends inside
  (`NextMultiple`). The traversal follows entries only (`ListCloses`).
* `AllEntriesLoaded`. From wherever a traversal begins the cycle is an order of all entries
  (`CycleFrom`); the pointer is at the place in it that the number of loads made says, and the
  loads before it are the entries seen (`Position`). The traversal ends when no load is left,
  because what is left is a number of whole turns (lemma `PositionStep`).
* `DescriptorsAlwaysOwned`, by lemma `PerfStep` about the operators of `PerfCounters`; it
  needs that only open counters are started (`CountersOpen`).
* `TypeCorrect`, which needs the parts above, and that no load is owed (`LoadsLeft`).

`CommandLine_proofs` proves `TypeCorrect`, `ThisTestCollected` and `WellFormedRuns` for any
command lines and any set of entries, however long the schedule. `ScheduleInv` adds to the
types that the buffer is at least the last entry (`BufferForLast`, by `RoundedUp`) and which
test the array and the rows belong to at each place of the loop (`TestOfEntry`). Lemma `CrashStep`
refutes each way to crash with the hypotheses of `WellFormedSafe`.

* `ValuesAsGiven`. `ArgumentsSoFar` is `ArgumentsTaken` for the options read so far: whether a
  command was among them, and that each member is `NotGiven` or `GivenLast` by them.
* `PlanFollowed`: `CommandLine` implements `SafeSpec`, all of `TestPlan` but its end. The
  plan is a sequence of tests flattened from one sequence for each entry; that flattening by a
  fold appends and keeps prefixes is proved from its definition with the least counterexample
  (`FlattenTyped`, `FlattenAppend`, `BeginsWhole`), since induction is out of reach. `PlanSoFar`
  relates the tests handed over to the place in the loop: those of all entries before the
  current one, and of the current one those its place is past. Then `PlanningStep`,
  `EntryBegun`, `TestRun`, `TestCollected` and `PlanFinished` map each step to a step or a
  stutter.

`NumberFacts` and `PerfCounters_proofs` hold the lemmas that more than one of these cites.

Assumptions: only the named `ASSUME`s of the modules, on constants; TLC evaluates them in
every run.

Only model-checked: everything about liveness and fairness (`Terminates`, `SampledAgain`,
`CallsReturn`, `CallEnds`, and the liveness that `Sampling` and `TestPlan` promise, which is
what `SamplesAsPromised` and `RunsThePlan` say beyond `SamplesSafely` and `PlanFollowed`). It is
out of the prover's reach, as are `ENABLED`, induction over data and `RECURSIVE` operators (no
module here declares one).

## Not modelled

* The profile analysis (`profile.py`) and the legacy scripts: curve fitting and kernel density
  estimation by numerical libraries, shell and plots. The access to the cycle counters: single
  instructions and a kernel module that enables them. The generator of the tracepoint header,
  the build, and the example of 18 lines that calls `get_cache_info` once.
* Within the modelled parts: the throughputs themselves (the outcome of the comparison is
  modelled, and the bytes and time a result is made of), the instructions within a chunk, the
  text of options and lines, a reader of the page that is stopped half way, the destructor of
  `CacheInfoShm`, descriptors that are never closed (but for the failures they lead to), and
  memory that is overwritten past the page (`StoreAstray` leaves it out).
* The lifetime of the name: a `CacheInfoShm` keeps the `const char*` of the call that made it and
  opens it in whichever call comes first. The model takes these strings to stay what they are.
* `ftruncate` after the creation of the page, which an application may open in between.
* `total_data_size` of a schedule: where it is 0 the loops of x86_64 make no scan and a size of no
  whole chunks does no harm; the model allows either outcome. Sizes near 2^64, which wrap when they
  are rounded to pages, and numbers of data points of 2^32 and more, which `uint32_t num_iter`
  narrows: an array of so many doubles does not fit the stack.
