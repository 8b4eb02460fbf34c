--------------------------------- MODULE SeqThp ---------------------------------
(***************************************************************************)
(* sequential_throughput() (CacheInspector/src/seq_thp.cpp): how many      *)
(* bytes per second, or cycle, a sequential scan of a buffer achieves.     *)
(*                                                                         *)
(* A data point is iter_per_iter scans between two readings of a clock and *)
(* between start and stop of the counters.  A scan is a loop in assembly,  *)
(* one for each of two machines, for reading and for writing.  It moves a  *)
(* head by Chunk (1 KiB) and compares it with the end of the buffer for    *)
(* equality only.  The result divides iter_per_iter * buffer_size by the   *)
(* time, so what was touched must be what is counted.                      *)
(*                                                                         *)
(* Sizes are in units of which Chunk and Page are multiples.  touched is a *)
(* history variable: how often the scans of the current data point loaded  *)
(* and stored each chunk of the mapping.                                   *)
(***************************************************************************)
EXTENDS PerfCounters, Integers, Sequences

CONSTANTS
  Chunk,        (* what one turn of the loop touches, 1 KiB in the code     *)
  Page,         (* the mapping is a multiple of it, 2 MiB in the code       *)
  Word,         (* size_t counts modulo this, 2^64 in the code              *)
  Args,         (* the arguments a call may have                            *)
  Faults        (* TRUE if system calls may fail                            *)

Timings == {"CLOCK_GETTIME", "RDTSC", "PERF_CPU_CYCLE", "HW_CPU_CYCLE"}

(* arch: the machine it is built for.  buffer: the caller's, or 0 for NULL *)
(* and otherwise its size, which may exceed the size to scan.  counted:    *)
(* counters.has_value().                                                   *)
ArgumentType ==
  [arch : {"x86_64", "aarch64"}, buffer : 0 .. Word - 1,
   buffer_size : 1 .. Word - 1, num_iter : Nat, timing : Timings,
   is_write : BOOLEAN, bytes_per_iter : 0 .. Word - 1, counted : BOOLEAN]

ASSUME SizesAssumption ==
  /\ Chunk \in Nat \ {0} /\ Page \in Nat \ {0} /\ Word \in Nat \ {0}
  /\ Page % Chunk = 0
  /\ Faults \in BOOLEAN
ASSUME ArgsAssumption ==
  /\ Args \subseteq ArgumentType
  /\ \A a \in Args : a.buffer = 0 \/ a.buffer_size <= a.buffer
  /\ \A a \in Args : a.buffer % Page = 0
  /\ \A a \in Args : a.bytes_per_iter + a.buffer_size - 1 < Word

VARIABLES
  pc,         (* what is done next                                          *)
  args,       (* the arguments of the call                                  *)
  mapped,     (* the size of the mapping behind buf, 0 when there is none   *)
  left,       (* rcx, x2: scans left                                        *)
  head,       (* rdx, x3: the head, as an offset in the buffer              *)
  results,    (* the results so far, each by what it was computed from      *)
  rows,       (* how many rows *counters has                                *)
  ret,        (* what was returned                                          *)
  touched     (* history: touched[op][n], how often chunk n was touched     *)

buf == <<args, mapped>>
registers == <<left, head>>
output == <<results, rows, ret>>
vars == <<pc, buf, registers, output, touched, perf>>

Ended == {"return", "segv", "exit"}
Ops == {"load", "store"}
ReturnCodes == {0, -1, -65535}
RoundUp(n, m) == ((n + m - 1) \div m) * m
Chunks == 0 .. RoundUp(Word, Page) \div Chunk - 1
Untouched == [op \in Ops |-> [n \in Chunks |-> 0]]

(* The counter that a timing mechanism needs; PERF_CPU_CYCLE and           *)
(* HW_CPU_CYCLE are for builds that have it.                               *)
CounterOf(timing) ==
  CASE timing = "PERF_CPU_CYCLE" -> {"cpu_cycles(pf)"}
    [] timing = "HW_CPU_CYCLE" -> {"cpu_cycles(hw)"}
    [] OTHER -> {}

Variant_IterPerIter_rounds_down(a) == a.bytes_per_iter \div a.buffer_size
IterPerIter(a) == (a.bytes_per_iter + a.buffer_size - 1) \div a.buffer_size

Init ==
  /\ args \in Args
  /\ pc = "call" /\ mapped = args.buffer /\ left = 0 /\ head = 0
  /\ results = <<>> /\ rows = 0 /\ ret = 0 /\ touched = Untouched
  /\ NoCounters

Return(code) == pc' = "return" /\ ret' = code /\ UNCHANGED <<results, rows>>

(* exit(): the process ends, nothing else matters.                         *)
Exit ==
  /\ pc' = "exit"
  /\ UNCHANGED <<buf, registers, output, touched, perf>>

-----------------------------------------------------------------------------
(* Before the data points                                                  *)

CheckTiming ==
  /\ pc = "call"
  /\ IF CounterOf(args.timing) \subseteq Counters
     THEN pc' = "allocate" /\ UNCHANGED output
     ELSE Return(-65535)
  /\ UNCHANGED <<buf, registers, touched, perf>>

(* mmap rounds the size up to whole huge pages.                            *)
Allocate ==
  /\ pc = "allocate"
  /\ pc' = "schedule"
  /\ mapped' = IF args.buffer = 0 THEN RoundUp(args.buffer_size, Page) ELSE mapped
  /\ UNCHANGED <<args, registers, output, touched, perf>>

AllocateFails == pc = "allocate" /\ args.buffer = 0 /\ Faults /\ Exit

SetScheduler ==
  /\ pc = "schedule"
  /\ \/ pc' = "warm up" /\ UNCHANGED output
     \/ Faults /\ Return(-1)
  /\ UNCHANGED <<buf, registers, touched, perf>>

(* memset() of the buffer, num_iter_warmup times: nothing here depends on  *)
(* what is in the buffer.                                                  *)
WarmUp ==
  /\ pc = "warm up"
  /\ pc' = "iterate"
  /\ UNCHANGED <<buf, registers, output, touched, perf>>

-----------------------------------------------------------------------------
(* A data point                                                            *)

(* The next turn of the for loop, which begins with lpcs.                  *)
Iterate ==
  /\ pc = "iterate" /\ Len(results) < args.num_iter
  /\ pc' = "start"
  /\ Construct
  /\ UNCHANGED <<buf, registers, output, touched>>

IterateFails == pc = "iterate" /\ Len(results) < args.num_iter /\ PerfFails /\ Exit

(* The clock is read, the counters start, and the registers are loaded.    *)
Variant_StartTimer_without_counters ==
  /\ pc = "start"
  /\ pc' = "rewind"
  /\ left' = IterPerIter(args) /\ head' = 0
  /\ touched' = Untouched
  /\ UNCHANGED <<buf, output, perf>>
StartTimer ==
  /\ pc = "start"
  /\ pc' = "rewind"
  /\ StartPerfEvents
  /\ left' = IterPerIter(args) /\ head' = 0
  /\ touched' = Untouched
  /\ UNCHANGED <<buf, output>>

StartFails == pc = "start" /\ PerfFails /\ Exit

(* A clock that cannot be read ends the call; lpcs goes out of scope.      *)
Variant_ClockFails_returns_success ==
  /\ pc \in {"start", "stop"}
  /\ args.timing = "CLOCK_GETTIME" /\ Faults
  /\ Return(0)
  /\ DestroyCounters
  /\ UNCHANGED <<buf, registers, touched>>
Variant_ClockFails_is_retried ==
  /\ pc \in {"start", "stop"}
  /\ args.timing = "CLOCK_GETTIME" /\ Faults
  /\ pc' = "iterate"
  /\ DestroyCounters
  /\ UNCHANGED <<buf, registers, output, touched>>
ClockFails ==
  /\ pc \in {"start", "stop"}
  /\ args.timing = "CLOCK_GETTIME" /\ Faults
  /\ Return(-1)
  /\ DestroyCounters
  /\ UNCHANGED <<buf, registers, touched>>

-----------------------------------------------------------------------------
(* The loops in assembly                                                   *)

(* One chunk is loaded or stored, and the head moves on.                   *)
Touch(op) ==
  /\ pc = "chunk" /\ head + Chunk <= mapped
  /\ touched' = [touched EXCEPT ![op][head \div Chunk] = @ + 1]
  /\ head' = head + Chunk
  /\ UNCHANGED <<buf, output, perf>>

(* The head is beyond the mapping.                                         *)
Segv ==
  /\ pc = "chunk" /\ head + Chunk > mapped
  /\ pc' = "segv"
  /\ UNCHANGED <<buf, registers, output, touched, perf>>

(* x86_64: subq $1, %rcx; js done -- scans are counted before each.        *)
RewindX86 ==
  /\ pc = "rewind" /\ args.arch = "x86_64"
  /\ left' = left - 1 /\ head' = 0
  /\ pc' = IF left' < 0 THEN "stop" ELSE "chunk"
  /\ UNCHANGED <<buf, output, touched, perf>>

WriteX86 ==
  /\ args.arch = "x86_64" /\ args.is_write
  /\ Touch("store")
  /\ pc' = IF head' = args.buffer_size THEN "rewind" ELSE "chunk"
  /\ UNCHANGED left

Variant_ReadX86_compares_before_moving ==
  /\ args.arch = "x86_64" /\ ~args.is_write
  /\ Touch("load")
  /\ pc' = IF head = args.buffer_size THEN "rewind" ELSE "chunk"
  /\ UNCHANGED left
ReadX86 ==
  /\ args.arch = "x86_64" /\ ~args.is_write
  /\ Touch("load")
  /\ pc' = IF head' = args.buffer_size THEN "rewind" ELSE "chunk"
  /\ UNCHANGED left

(* aarch64: subs x2, x2, 1; beq done -- scans are counted after each, and  *)
(* a count of 0 wraps.                                                     *)
RewindArm ==
  /\ pc = "rewind" /\ args.arch = "aarch64"
  /\ pc' = "chunk" /\ head' = 0
  /\ UNCHANGED <<left, buf, output, touched, perf>>

Variant_AfterChunkArm_stays_negative ==
  IF head' # args.buffer_size
  THEN pc' = "chunk" /\ UNCHANGED left
  ELSE /\ left' = left - 1
       /\ pc' = IF left' = 0 THEN "stop" ELSE "rewind"
AfterChunkArm ==
  IF head' # args.buffer_size
  THEN pc' = "chunk" /\ UNCHANGED left
  ELSE /\ left' = (left - 1) % Word
       /\ pc' = IF left' = 0 THEN "stop" ELSE "rewind"

WriteArm ==
  /\ args.arch = "aarch64" /\ args.is_write
  /\ Touch("store") /\ AfterChunkArm

ReadArm ==
  /\ args.arch = "aarch64" /\ ~args.is_write
  /\ Touch("load") /\ AfterChunkArm

-----------------------------------------------------------------------------
(* After the loops                                                         *)

(* The clock is read, the counters stop.                                   *)
StopTimer ==
  /\ pc = "stop"
  /\ pc' = "result"
  /\ StopPerfEvents
  /\ UNCHANGED <<buf, registers, output, touched>>

StopFails == pc = "stop" /\ PerfFails /\ Exit

(* results[iter], the optional row of counters, and the end of the scope   *)
(* of lpcs.  A counter that could not be read is 0: the quotient is inf.   *)
Result ==
  /\ pc = "result"
  /\ pc' = "iterate"
  /\ results' = Append(results,
       [bytes |-> IterPerIter(args) * args.buffer_size,
        inf |-> \E c \in CounterOf(args.timing) : lpcs[c].counter = "zero"])
  /\ rows' = IF args.counted THEN rows + 1 ELSE rows
  /\ DestroyCounters
  /\ UNCHANGED <<ret, buf, registers, touched>>

(* munmap wants whole huge pages: with any other size it fails, unnoticed. *)
CleanUp ==
  /\ pc = "iterate" /\ Len(results) >= args.num_iter
  /\ Return(0)
  /\ mapped' = IF args.buffer = 0 /\ args.buffer_size % Page = 0 THEN 0 ELSE mapped
  /\ UNCHANGED <<args, registers, touched, perf>>

Kernel ==
  RewindX86 \/ WriteX86 \/ ReadX86 \/ RewindArm \/ WriteArm \/ ReadArm \/ Segv

Next ==
  \/ CheckTiming \/ Allocate \/ AllocateFails \/ SetScheduler \/ WarmUp
  \/ Iterate \/ IterateFails \/ StartTimer \/ StartFails \/ ClockFails
  \/ Kernel
  \/ StopTimer \/ StopFails \/ Result \/ CleanUp

Spec == Init /\ [][Next]_vars
FairSpec == Spec /\ WF_vars(Next)

-----------------------------------------------------------------------------
(* Properties                                                              *)

TypeOK ==
  /\ pc \in Ended \cup {"call", "allocate", "schedule", "warm up", "iterate",
                        "start", "rewind", "chunk", "stop", "result"}
  /\ args \in Args
  /\ mapped \in Nat /\ mapped % Page = 0
  /\ left \in -1 .. Word - 1
  /\ head \in Nat /\ head % Chunk = 0
  /\ results \in Seq([bytes : Nat, inf : BOOLEAN])
  /\ rows \in 0 .. args.num_iter
  /\ ret \in ReturnCodes
  /\ touched \in [Ops -> [Chunks -> Nat]]
  /\ PerfTypeOK

(* A buffer of whole KiB is never left, on either machine, by a load or a  *)
(* store of the loops -- they stop at the end only if they hit it exactly. *)
KiBNotOverrun ==
  args.buffer_size % Chunk = 0 =>
    /\ pc # "segv"
    /\ pc = "chunk" => head < args.buffer_size

(* A result is computed from the bytes that were touched: every chunk of   *)
(* the buffer was loaded (or stored) once in each scan counted, nothing    *)
(* else was, and together they are at least bytes_per_iter.  On aarch64    *)
(* this needs something to measure.                                        *)
Scanned(op) ==
  \A n \in Chunks :
    touched[op][n] = IF n * Chunk < args.buffer_size
                        /\ (args.is_write <=> op = "store")
                     THEN IterPerIter(args) ELSE 0

CountedIsTouched ==
  pc = "result" /\ (args.arch = "aarch64" => args.bytes_per_iter > 0) =>
    /\ \A op \in Ops : Scanned(op)
    /\ IterPerIter(args) * args.buffer_size >= args.bytes_per_iter

(* All counters count while the loops run; in the rest of a data point,    *)
(* before they are started and while its result is worked out from them,   *)
(* they are open and do not count; outside it there is no descriptor.      *)
CountersCoverLoops ==
  \A c \in Counters :
    /\ pc \in {"rewind", "chunk", "stop", "segv"} => event[c] = "enabled"
    /\ pc \in {"start", "result"} => event[c] = "disabled"
    /\ pc \in {"call", "allocate", "schedule", "warm up", "iterate", "return"} =>
         event[c] = "closed"

(* A call that returns 0 has written all results, and one row of counters  *)
(* for each if they were asked for; at no time do the two disagree.        *)
ResultsComplete ==
  /\ args.counted => rows = Len(results)
  /\ pc = "return" /\ ret = 0 => Len(results) = args.num_iter

(* The call ends: it returns, exits, or is killed by a stray access.       *)
CallEnds == <>(pc \in Ended)
=============================================================================
