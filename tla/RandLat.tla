-------------------------------- MODULE RandLat --------------------------------
(***************************************************************************)
(* rand_latency() (CacheInspector/src/rand_lat.cpp): the time of a load    *)
(* whose address depends on the load before it.                            *)
(*                                                                         *)
(* The buffer is turned into a cyclic linked list in random order, warmed  *)
(* up, and followed for Accesses loads for each data point.  The latency   *)
(* is that of a buffer of this size only if the list is one cycle through  *)
(* all entries.                                                            *)
(*                                                                         *)
(* Sizes are in entries of eight bytes, a pointer is the index of the      *)
(* entry it points to.  xorshf96() may return anything.  What fails        *)
(* without consequence, the choice of a scheduler, is left out.            *)
(***************************************************************************)
EXTENDS PerfCounters, Integers, Sequences

CONSTANTS
  Args,         (* the arguments a call may have                            *)
  Page,         (* the mapping is a multiple of it, 2 MiB in the code       *)
  Stride,       (* entries that one turn of the warm-up reads, 8            *)
  Word,         (* uint32_t counts modulo this                              *)
  Batch,        (* loads in one turn of the traversal, 128                  *)
  Accesses,     (* NUMBER_OF_ACCESS, 16384                                  *)
  Faults        (* TRUE if system calls and malloc may fail                 *)

Timings == {"CLOCK_GETTIME", "RDTSC", "PERF_CPU_CYCLE", "HW_CPU_CYCLE"}

(* arch: the machine it is built for.  buffer: the caller's, or 0 for NULL *)
(* and otherwise its size, which may exceed the size to measure.  counted: *)
(* counters.has_value().                                                   *)
ArgumentType ==
  [arch : {"x86_64", "aarch64"}, buffer : Nat, num_entries : Nat \ {0},
   num_points : Nat, timing : Timings, counted : BOOLEAN]

ASSUME SizesAssumption ==
  /\ Stride \in Nat \ {0} /\ Page \in Nat \ {0} /\ Page % Stride = 0
  /\ Word \in Nat \ {0} /\ Word % Stride = 0
  /\ Batch \in Nat \ {0} /\ Accesses \in Nat \ {0} /\ Accesses % Batch = 0
  /\ Faults \in BOOLEAN
ASSUME ArgsAssumption ==
  /\ Args \subseteq ArgumentType
  /\ \A a \in Args : a.buffer % Page = 0
  /\ \A a \in Args : a.buffer = 0 \/ a.num_entries <= a.buffer

Junk == -1   (* what an entry holds that was not linked                     *)

VARIABLES
  pc,         (* what is done next                                          *)
  args,       (* the arguments of the call                                  *)
  mapped,     (* the size of the mapping behind cll, 0 when there is none   *)
  cll,        (* the list: cll[n] is the entry that entry n points to       *)
  bytemap,    (* the entries that are on the list                           *)
  head, offset, filled,   (* the first and last of them, and their number   *)
  warm,       (* i of the warm-up                                           *)
  left,       (* rax, x0: loads left                                        *)
  loads,      (* loads made in this turn of the loop                        *)
  ptr,        (* rbx, x1: the entry to load next                            *)
  points,     (* output, each by the kind of value it is                    *)
  rows,       (* how many rows *counters has                                *)
  ret,        (* what was returned                                          *)
  seen        (* history: the entries loaded for the current data point     *)

buf == <<args, mapped>>
list == <<cll, bytemap, head, offset, filled>>
registers == <<left, loads, ptr, seen>>
output == <<points, rows, ret>>
vars == <<pc, buf, list, warm, registers, output, perf>>

Ended == {"return", "segv", "exit"}
Entries == 0 .. args.num_entries - 1

Variant_RoundUp_not(n, m) == n
RoundUp(n, m) == ((n + m - 1) \div m) * m

(* The counter that a timing mechanism needs; PERF_CPU_CYCLE and           *)
(* HW_CPU_CYCLE are for builds that have it.                               *)
CounterOf(timing) ==
  CASE timing = "PERF_CPU_CYCLE" -> {"cpu_cycles(pf)"}
    [] timing = "HW_CPU_CYCLE" -> {"cpu_cycles(hw)"}
    [] OTHER -> {}

(* What is in the buffer: nothing that is an address, or the list of an    *)
(* earlier call for the first m entries of the caller's buffer.            *)
EarlierList(m) ==
  [n \in Entries |-> IF n < m THEN (n + 1) % m ELSE Junk]

Init ==
  /\ args \in Args
  /\ pc = "call" /\ mapped = args.buffer
  /\ \E m \in 0 .. (IF args.buffer = 0 THEN 0 ELSE args.num_entries) :
       cll = EarlierList(m)
  /\ bytemap = {} /\ head = 0 /\ offset = 0 /\ filled = 0
  /\ warm = 0 /\ left = 0 /\ loads = 0 /\ ptr = 0 /\ seen = {}
  /\ points = <<>> /\ rows = 0 /\ ret = 0
  /\ NoCounters

-----------------------------------------------------------------------------
(* The list                                                                *)

(* mmap rounds the size up to whole huge pages.                            *)
Allocate ==
  /\ pc = "call"
  /\ pc' = "fill"
  /\ mapped' = IF args.buffer = 0 THEN RoundUp(args.num_entries, Page) ELSE mapped
  /\ UNCHANGED <<args, list, warm, registers, output, perf>>

AllocateFails ==
  /\ pc = "call" /\ args.buffer = 0 /\ Faults
  /\ pc' = "return" /\ ret' = -1
  /\ UNCHANGED <<buf, list, warm, registers, points, rows, perf>>

(* The first entry, once there is a byte map and a seed.                   *)
Fill ==
  /\ pc = "fill"
  /\ pc' = "link"
  /\ head' \in Entries
  /\ offset' = head' /\ bytemap' = {head'} /\ filled' = 1
  /\ UNCHANGED <<cll, buf, warm, registers, output, perf>>

(* No memory for the byte map, or no clock for the seed: the call goes on. *)
FillFails ==
  /\ pc = "fill" /\ Faults
  /\ pc' = "warm up"
  /\ UNCHANGED <<buf, list, warm, registers, output, perf>>

(* The first entry from r on, round the end, that is not on the list.      *)
Variant_Probe_does_not_wrap(r) ==
  CHOOSE n \in r .. 2 * args.num_entries :
    n \notin bytemap /\ \A m \in r .. n - 1 : m \in bytemap
Variant_Probe_takes_any(r) == r
Probe(r) ==
  LET at(k) == (r + k) % args.num_entries
      k == CHOOSE k \in Entries :
             at(k) \notin bytemap /\ \A j \in 0 .. k - 1 : at(j) \in bytemap
  IN  at(k)

Link ==
  /\ pc = "link" /\ filled < args.num_entries
  /\ \E r \in Entries : offset' = Probe(r)
  /\ cll' = [cll EXCEPT ![offset] = offset']
  /\ bytemap' = bytemap \cup {offset'} /\ filled' = filled + 1
  /\ UNCHANGED <<pc, head, buf, warm, registers, output, perf>>

CloseCycle ==
  /\ pc = "link" /\ filled >= args.num_entries
  /\ pc' = "warm up"
  /\ cll' = [cll EXCEPT ![offset] = head]
  /\ UNCHANGED <<bytemap, head, offset, filled, buf, warm, registers, output, perf>>

(* One turn of the warm-up reads Stride entries at once; the five passes   *)
(* over the buffer are alike, one of them stands for all.                  *)
Variant_WarmUp_inclusive ==
  /\ pc = "warm up" /\ warm <= args.num_entries
  /\ IF warm + Stride <= mapped
     THEN pc' = pc /\ warm' = (warm + Stride) % Word
     ELSE pc' = "segv" /\ UNCHANGED warm
  /\ UNCHANGED <<buf, list, registers, output, perf>>
WarmUp ==
  /\ pc = "warm up" /\ warm < args.num_entries
  /\ IF warm + Stride <= mapped
     THEN pc' = pc /\ warm' = (warm + Stride) % Word
     ELSE pc' = "segv" /\ UNCHANGED warm
  /\ UNCHANGED <<buf, list, registers, output, perf>>

WarmedUp ==
  /\ pc = "warm up" /\ warm >= args.num_entries
  /\ pc' = "measure"
  /\ UNCHANGED <<buf, list, warm, registers, output, perf>>

-----------------------------------------------------------------------------
(* A data point                                                            *)

(* The next turn of the for loop: traverse_cyclic_linked_list, with lpcs.  *)
Measure ==
  /\ pc = "measure" /\ Len(points) < args.num_points
  /\ pc' = "start"
  /\ Construct
  /\ UNCHANGED <<buf, list, warm, registers, output>>

Start ==
  /\ pc = "start"
  /\ pc' = "clock"
  /\ StartPerfEvents
  /\ UNCHANGED <<buf, list, warm, registers, output>>

NoTimingInBuild == ~(CounterOf(args.timing) \subseteq Counters)
ClockMayFail == args.timing = "CLOCK_GETTIME" /\ Faults

(* A counter that cannot be opened, enabled or disabled ends the process.  *)
(* A return from "clock" disables them, too, in the destructor.            *)
CounterExits ==
  /\ \/ pc = "measure" /\ Len(points) < args.num_points
     \/ pc = "start"
     \/ pc = "clock" /\ (NoTimingInBuild \/ ClockMayFail)
     \/ pc = "stop"
  /\ PerfFails
  /\ pc' = "exit"
  /\ UNCHANGED <<buf, list, warm, registers, output, perf>>

(* The value returned is a point of the output, whatever it is, and lpcs   *)
(* goes out of scope.                                                      *)
Point(value) ==
  /\ pc' = "measure"
  /\ points' = Append(points, value)
  /\ DestroyCounters
  /\ UNCHANGED <<ret, buf, list, warm, registers>>

(* A timing mechanism that is not in the build: return -0xffff.            *)
NoTiming ==
  /\ pc = "clock" /\ NoTimingInBuild
  /\ Point("-0xffff")
  /\ UNCHANGED rows

(* A clock that cannot be read: return 0.                                  *)
NoClock ==
  /\ pc \in {"clock", "stop"} /\ ClockMayFail
  /\ Point("0")
  /\ UNCHANGED rows

Clock ==
  /\ pc = "clock" /\ ~NoTimingInBuild
  /\ pc' = "turn"
  /\ left' = Accesses /\ loads' = 0
  /\ ptr' = Len(points) % args.num_entries /\ seen' = {}
  /\ UNCHANGED <<buf, list, warm, output, perf>>

(* x86_64: subq $128, %rax; js done -- what is left is counted before the  *)
(* loads.                                                                  *)
Variant_TurnX86_jle ==
  /\ pc = "turn" /\ args.arch = "x86_64"
  /\ left' = left - Batch /\ loads' = 0
  /\ pc' = IF left' <= 0 THEN "stop" ELSE "load"
  /\ UNCHANGED <<ptr, seen, buf, list, warm, output, perf>>
TurnX86 ==
  /\ pc = "turn" /\ args.arch = "x86_64"
  /\ left' = left - Batch /\ loads' = 0
  /\ pc' = IF left' < 0 THEN "stop" ELSE "load"
  /\ UNCHANGED <<ptr, seen, buf, list, warm, output, perf>>

TurnArm ==
  /\ pc = "turn" /\ args.arch = "aarch64"
  /\ loads' = 0
  /\ pc' = "load"
  /\ UNCHANGED <<left, ptr, seen, buf, list, warm, output, perf>>

(* One of the Batch loads of a turn, each from where the last one led.     *)
Load ==
  /\ pc = "load" /\ loads < Batch /\ ptr # Junk
  /\ ptr' = cll[ptr] /\ seen' = seen \cup {ptr} /\ loads' = loads + 1
  /\ UNCHANGED <<pc, left, buf, list, warm, output, perf>>

(* An entry that was never linked is no address.                           *)
Segv ==
  /\ pc = "load" /\ loads < Batch /\ ptr = Junk
  /\ pc' = "segv"
  /\ UNCHANGED <<buf, list, warm, registers, output, perf>>

LoadedX86 ==
  /\ pc = "load" /\ loads = Batch /\ args.arch = "x86_64"
  /\ pc' = "turn"
  /\ UNCHANGED <<buf, list, warm, registers, output, perf>>

(* aarch64: subs x0, x0, 128; beq done; bmi done -- after the loads.       *)
LoadedArm ==
  /\ pc = "load" /\ loads = Batch /\ args.arch = "aarch64"
  /\ left' = left - Batch
  /\ pc' = IF left' <= 0 THEN "stop" ELSE "turn"
  /\ UNCHANGED <<loads, ptr, seen, buf, list, warm, output, perf>>

Stop ==
  /\ pc = "stop"
  /\ pc' = "collect"
  /\ StopPerfEvents
  /\ UNCHANGED <<buf, list, warm, registers, output>>

Collect ==
  /\ pc = "collect"
  /\ rows' = IF args.counted THEN rows + 1 ELSE rows
  /\ Point(IF \E c \in CounterOf(args.timing) : lpcs[c].counter = "zero"
           THEN "0" ELSE "latency")

(* munmap wants whole huge pages: with any other size it fails, unnoticed. *)
CleanUp ==
  /\ pc = "measure" /\ Len(points) >= args.num_points
  /\ pc' = "return" /\ ret' = 0
  /\ mapped' = IF args.buffer = 0 /\ args.num_entries % Page = 0 THEN 0 ELSE mapped
  /\ UNCHANGED <<args, list, warm, registers, points, rows, perf>>

Next ==
  \/ Allocate \/ AllocateFails \/ Fill \/ FillFails \/ Link \/ CloseCycle
  \/ WarmUp \/ WarmedUp
  \/ Measure \/ Start \/ CounterExits \/ NoTiming \/ NoClock \/ Clock
  \/ TurnX86 \/ TurnArm \/ Load \/ LoadedX86 \/ LoadedArm \/ Segv
  \/ Stop \/ Collect \/ CleanUp

Spec == Init /\ [][Next]_vars
FairSpec == Spec /\ WF_vars(Next)

-----------------------------------------------------------------------------
(* Properties                                                              *)

AfterFill == {"warm up", "measure", "start", "clock", "turn", "load", "stop",
              "collect", "return"}

TypeOK ==
  /\ pc \in Ended \cup AfterFill \cup {"call", "fill", "link"}
  /\ args \in Args
  /\ mapped \in Nat
  /\ cll \in [Entries -> Entries \cup {Junk}]
  /\ bytemap \subseteq Entries
  /\ head \in Entries /\ offset \in Entries
  /\ filled \in 0 .. args.num_entries
  /\ warm \in 0 .. Word - 1
  /\ left \in -Batch .. Accesses /\ loads \in 0 .. Batch
  /\ ptr \in Entries \cup {Junk}
  /\ seen \subseteq Entries
  /\ points \in Seq({"latency", "-0xffff", "0"})
  /\ rows \in Nat /\ ret \in {0, -1}
  /\ PerfTypeOK

(* There is an order of all n entries in which each points to the next and *)
(* the last to the first.                                                  *)
Cycle(l, n) ==
  \E p \in [0 .. n - 1 -> 0 .. n - 1] :
    /\ \A i, j \in 0 .. n - 1 : p[i] = p[j] => i = j
    /\ \A i \in 0 .. n - 1 : l[p[i]] = p[(i + 1) % n]

(* Whatever the generator returns, a list that was built is one cycle      *)
(* through all entries.                                                    *)
SingleCycle ==
  pc \in AfterFill /\ filled = args.num_entries => Cycle(cll, args.num_entries)

(* No access leaves the buffer: the warm-up, which reads Stride entries at *)
(* a time, stays within whole pages, and the traversal follows addresses   *)
(* of entries, unless the list could not be built.                         *)
AccessesMapped ==
  pc = "segv" => filled < args.num_entries

(* A latency is that of the whole buffer: with as many loads as there are  *)
(* entries, or more, all of them are loaded, on either machine, if the     *)
(* list was built.                                                         *)
WholeBufferLoaded ==
  pc = "collect" /\ filled = args.num_entries /\ Accesses >= args.num_entries =>
    seen = Entries

(* The call ends, if 32 bits can count the entries of the warm-up.         *)
CallEnds ==
  args.num_entries <= Word - Stride => <>(pc \in Ended)
=============================================================================
