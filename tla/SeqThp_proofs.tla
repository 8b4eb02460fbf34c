----------------------------- MODULE SeqThp_proofs -----------------------------
(***************************************************************************)
(* Theorems about SeqThp, for every size of the buffer, of a chunk, a page *)
(* and a word, every number of data points and any set of counters.        *)
(***************************************************************************)
EXTENDS SeqThp, NumberFacts, PerfCounters_proofs, TLAPS

-----------------------------------------------------------------------------
(* The invariant                                                           *)

InPoint == {"start", "rewind", "chunk", "stop", "result"}
InLoops == {"rewind", "chunk"}
BeforePoints == {"schedule", "warm up", "iterate"}

(* The counters of a data point are open, and started for the loops alone. *)
CountersOpen ==
  /\ pc \in InPoint => \A c \in Counters : lpcs[c].fd
  /\ pc \in {"rewind", "chunk", "stop", "segv"} => \A c \in Counters : lpcs[c].started
  /\ pc \in {"start", "result"} => \A c \in Counters : ~lpcs[c].started
  /\ pc \in {"call", "allocate", "return"} \cup BeforePoints =>
       \A c \in Counters : ~lpcs[c].fd

(* How many results there are, and rows beside them.                       *)
ResultsCounted ==
  /\ rows = IF args.counted THEN Len(results) ELSE 0
  /\ Len(results) <= args.num_iter
  /\ pc \in InPoint => Len(results) < args.num_iter
  /\ pc = "return" /\ ret = 0 => Len(results) = args.num_iter

(* The mapping has room for the buffer.                                    *)
BufferMapped ==
  /\ pc \in {"call", "allocate"} => mapped = args.buffer
  /\ pc \in InPoint \cup BeforePoints => args.buffer_size <= mapped

(* Something is left to scan while scans are made: on aarch64, where a     *)
(* scan is counted after it, at least one if there was one to begin with.  *)
ToMeasure == args.arch = "aarch64" => args.bytes_per_iter > 0
LeftOver ==
  /\ pc \in InLoops => left >= 0
  /\ pc \in InLoops /\ args.arch = "aarch64" /\ ToMeasure => left >= 1
  /\ pc \in {"stop", "result"} /\ ToMeasure =>
       left = IF args.arch = "aarch64" THEN 0 ELSE -1

(* What was touched so far: done whole scans, and the chunks before h of   *)
(* the one that is being made.                                             *)
Done ==
  IterPerIter(args) - left
    - (IF args.arch = "x86_64" /\ pc # "rewind" THEN 1 ELSE 0)
Covered == IF pc = "chunk" THEN head ELSE 0
Count(size, done, n, h) ==
  (IF n * Chunk < size THEN done ELSE 0)
    + (IF n * Chunk < h THEN 1 ELSE 0)
Op == IF args.is_write THEN "store" ELSE "load"

TouchedSoFar ==
  pc \in InLoops \cup {"stop", "result"} /\ ToMeasure =>
    \A op \in Ops, n \in Chunks :
      touched[op][n] = IF op = Op THEN Count(args.buffer_size, Done, n, Covered) ELSE 0

(* The types of the variables, those of numbers apart from the others.     *)
Errors == {-1, -65535}
Control ==
  /\ pc \in Ended \cup InPoint \cup BeforePoints \cup {"call", "allocate"}
  /\ args \in Args
  /\ ret \in {0} \cup Errors
Mapped == mapped \in Nat /\ mapped % Page = 0
Registers == left \in -1 .. Word - 1 /\ head \in Nat /\ head % Chunk = 0
Results == results \in Seq([bytes : Nat, inf : BOOLEAN])
Touches == touched \in [Ops -> [Chunks -> Nat]]

Inv ==
  /\ Control
  /\ Mapped
  /\ Registers
  /\ Results
  /\ Touches
  /\ PerfTypeOK
  /\ DescriptorsOwned
  /\ CountersOpen
  /\ ResultsCounted
  /\ BufferMapped
  /\ LeftOver
  /\ KiBNotOverrun
  /\ TouchedSoFar

(* The constants and the arguments of a call.                              *)
LEMMA Bounds ==
  ASSUME args \in Args
  PROVE  /\ Chunk \in Nat \ {0} /\ Page \in Nat \ {0} /\ Word \in Nat \ {0}
         /\ args.arch \in {"x86_64", "aarch64"}
         /\ args.buffer \in Nat /\ args.buffer % Page = 0
         /\ args.buffer = 0 \/ args.buffer_size <= args.buffer
         /\ args.buffer_size \in Nat \ {0}
         /\ args.num_iter \in Nat /\ args.bytes_per_iter \in Nat
         /\ args.bytes_per_iter + args.buffer_size - 1 < Word
         /\ args.is_write \in BOOLEAN /\ args.counted \in BOOLEAN
<1>1. args \in ArgumentType
  BY ArgsAssumption
<1>2. Chunk \in Nat \ {0} /\ Page \in Nat \ {0} /\ Word \in Nat \ {0}
  BY SizesAssumption
<1>3. /\ args.buffer = 0 \/ args.buffer_size <= args.buffer
      /\ args.buffer % Page = 0
      /\ args.bytes_per_iter + args.buffer_size - 1 < Word
  BY ArgsAssumption
<1>4. /\ args.buffer \in Nat /\ args.buffer_size \in Nat \ {0}
      /\ args.num_iter \in Nat /\ args.bytes_per_iter \in Nat
  BY <1>1, <1>2 DEF ArgumentType
<1>5. /\ args.arch \in {"x86_64", "aarch64"}
      /\ args.is_write \in BOOLEAN /\ args.counted \in BOOLEAN
  BY <1>1 DEF ArgumentType
<1> QED
  BY <1>2, <1>3, <1>4, <1>5

(* How often a data point scans: as often as fits a word, and enough.      *)
LEMMA ScansPlanned ==
  ASSUME args \in Args
  PROVE  /\ IterPerIter(args) \in 0 .. Word - 1
         /\ IterPerIter(args) * args.buffer_size >= args.bytes_per_iter
         /\ args.bytes_per_iter > 0 => IterPerIter(args) >= 1
<1> DEFINE b == args.bytes_per_iter
           s == args.buffer_size
<1>1. b \in Nat /\ s \in Nat \ {0} /\ b + s - 1 < Word /\ Word \in Nat
  BY Bounds
<1>2. IterPerIter(args) = (b + s - 1) \div s
  BY DEF IterPerIter
<1> HIDE DEF b, s
<1>3. /\ (b + s - 1) \div s \in 0 .. b + s - 1
      /\ ((b + s - 1) \div s) * s >= b
      /\ b > 0 => (b + s - 1) \div s > 0
  BY <1>1, DividedUp
<1>4. /\ IterPerIter(args) \in 0 .. Word - 1
      /\ IterPerIter(args) * s >= b
      /\ b > 0 => IterPerIter(args) >= 1
  <2> DEFINE q == IterPerIter(args)
  <2>1. q \in 0 .. b + s - 1 /\ q * s >= b /\ (b > 0 => q > 0)
    BY <1>2, <1>3
  <2> HIDE DEF q
  <2>2. q \in 0 .. Word - 1 /\ (b > 0 => q >= 1)
    BY <1>1, <2>1
  <2> QED
    BY <2>1, <2>2 DEF q
<1> QED
  BY <1>4 DEF b, s

(* The invariant holds when the function is called.                        *)
LEMMA InitInv == Init => Inv
<1> SUFFICES ASSUME Init PROVE Inv
  OBVIOUS
<1>a. args \in Args /\ mapped = args.buffer /\ pc = "call" /\ left = 0 /\ head = 0
      /\ results = <<>> /\ rows = 0 /\ ret = 0 /\ touched = Untouched
  BY DEF Init
<1>b. /\ args.buffer \in Nat /\ args.buffer % Page = 0 /\ args.num_iter \in Nat
      /\ Chunk \in Nat \ {0} /\ Word \in Nat \ {0}
  BY <1>a, Bounds
<1>1. Control
  BY <1>a DEF Control
<1>2. Mapped
  BY <1>a, <1>b DEF Mapped
<1>3. Registers
  <2>1. 0 \in -1 .. Word - 1 /\ 0 % Chunk = 0
    BY ONLY <1>b
  <2> QED
    BY <1>a, <2>1 DEF Registers
<1>4. Results /\ Touches
  BY <1>a DEF Results, Touches, Untouched
<1>5. PerfTypeOK /\ DescriptorsOwned /\ CountersOpen
  BY <1>a DEF Init, NoCounters, PerfTypeOK, Absent, LinuxPerfCounter, Events,
         DescriptorsOwned, CountersOpen, InPoint
<1>6. ResultsCounted
  <2>1. Len(results) = 0 /\ 0 <= args.num_iter
    BY <1>a, <1>b
  <2> QED
    BY <1>a, <2>1 DEF ResultsCounted, InPoint
<1>7. BufferMapped /\ LeftOver /\ KiBNotOverrun /\ TouchedSoFar
  BY <1>a DEF BufferMapped, LeftOver, KiBNotOverrun, TouchedSoFar, InPoint,
              InLoops, BeforePoints
<1> QED
  BY <1>1, <1>2, <1>3, <1>4, <1>5, <1>6, <1>7 DEF Inv

-----------------------------------------------------------------------------
(* What one chunk adds                                                     *)

(* A scan that arrived at the end of the buffer is a whole one.            *)
LEMMA OneScanMore ==
  ASSUME Chunk \in Nat \ {0}, NEW size \in Nat, NEW done \in Int, NEW n \in Nat
  PROVE  Count(size, done, n, size) = Count(size, done + 1, n, 0)
<1>1. n * Chunk \in Nat
  OBVIOUS
<1>2. ~(n * Chunk < 0)
  BY <1>1
<1> QED
  BY <1>2 DEF Count

-----------------------------------------------------------------------------
(* The steps, one part of the invariant after the other                    *)

(* What happens outside the loops and the results.                         *)
Quiet ==
  \/ CheckTiming \/ AllocateFails \/ SetScheduler \/ WarmUp
  \/ Iterate \/ IterateFails \/ StartFails \/ ClockFails \/ Segv
  \/ StopTimer \/ StopFails \/ UNCHANGED vars

(* One chunk in the loop of one of the machines.                           *)
ChunkX86 ==
  /\ args.arch = "x86_64" /\ Touch(Op)
  /\ pc' = IF head' = args.buffer_size THEN "rewind" ELSE "chunk"
  /\ left' = left
ChunkArm == args.arch = "aarch64" /\ Touch(Op) /\ AfterChunkArm

LEMMA Steps ==
  ASSUME args \in Args, [Next]_vars
  PROVE  \/ Quiet \/ Allocate \/ StartTimer \/ RewindX86 \/ RewindArm
         \/ ChunkX86 \/ ChunkArm \/ Result \/ CleanUp
<1>1. ASSUME WriteX86 \/ ReadX86 PROVE ChunkX86
  BY <1>1 DEF WriteX86, ReadX86, ChunkX86, Op
<1>2. ASSUME WriteArm \/ ReadArm PROVE ChunkArm
  BY <1>2 DEF WriteArm, ReadArm, ChunkArm, Op
<1> QED
  BY <1>1, <1>2 DEF Next, Kernel, Quiet

(* What a quiet step does.                                                 *)
QuietMove ==
  \/ pc' = pc /\ ret' = ret /\ UNCHANGED perf
  \/ pc = "call" /\ pc' = "allocate" /\ ret' = ret /\ UNCHANGED perf
  \/ pc = "schedule" /\ pc' = "warm up" /\ ret' = ret /\ UNCHANGED perf
  \/ pc = "warm up" /\ pc' = "iterate" /\ ret' = ret /\ UNCHANGED perf
  \/ pc' = "exit" /\ ret' = ret /\ UNCHANGED perf
  \/ Segv /\ pc = "chunk" /\ pc' = "segv" /\ ret' = ret /\ UNCHANGED perf
  \/ /\ pc \in {"call", "schedule"} /\ pc' = "return"
     /\ ret' \in Errors /\ UNCHANGED perf
  \/ pc \in {"start", "stop"} /\ pc' = "return" /\ ret' \in Errors /\ DestroyCounters
  \/ Iterate /\ pc = "iterate" /\ pc' = "start" /\ ret' = ret /\ Construct
  \/ pc = "stop" /\ pc' = "result" /\ ret' = ret /\ StopPerfEvents

LEMMA QuietSteps ==
  ASSUME Quiet
  PROVE  /\ args' = args /\ mapped' = mapped /\ left' = left /\ head' = head
         /\ results' = results /\ rows' = rows /\ touched' = touched
         /\ QuietMove
<1> USE DEF buf, registers, output
<1>e. -1 \in Errors /\ -65535 \in Errors
  BY DEF Errors
<1> DEFINE Kept ==
      /\ args' = args /\ mapped' = mapped /\ left' = left /\ head' = head
      /\ results' = results /\ rows' = rows /\ touched' = touched
<1>1. CASE CheckTiming
  <2>1. Kept /\ pc = "call" /\ perf' = perf
    BY <1>1 DEF CheckTiming, Return
  <2>2. \/ pc' = "allocate" /\ ret' = ret
        \/ pc' = "return" /\ ret' = -65535
    BY <1>1 DEF CheckTiming, Return
  <2> QED
    BY <1>e, <2>1, <2>2 DEF QuietMove
<1>2. CASE AllocateFails \/ IterateFails \/ StartFails \/ StopFails
  <2>1. Exit
    BY <1>2 DEF AllocateFails, IterateFails, StartFails, StopFails
  <2> QED
    BY <2>1 DEF Exit, QuietMove
<1>3. CASE SetScheduler
  <2>1. Kept /\ pc = "schedule" /\ perf' = perf
    BY <1>3 DEF SetScheduler, Return
  <2>2. \/ pc' = "warm up" /\ ret' = ret
        \/ pc' = "return" /\ ret' = -1
    BY <1>3 DEF SetScheduler, Return
  <2>3. QuietMove
    <3>1. CASE pc' = "warm up" /\ ret' = ret
      BY <2>1, <3>1 DEF QuietMove
    <3>2. CASE pc' = "return" /\ ret' = -1
      BY <1>e, <2>1, <3>2 DEF QuietMove
    <3> QED
      BY <2>2, <3>1, <3>2
  <2> QED
    BY <2>1, <2>3
<1>4. CASE WarmUp
  BY <1>4 DEF WarmUp, QuietMove
<1>5. CASE Iterate
  BY <1>5 DEF Iterate, QuietMove
<1>6. CASE ClockFails
  <2>1. Kept /\ pc \in {"start", "stop"} /\ DestroyCounters
        /\ pc' = "return" /\ ret' = -1
    BY <1>6 DEF ClockFails, Return
  <2> QED
    BY <1>e, <2>1 DEF QuietMove
<1>7. CASE Segv
  BY <1>7 DEF Segv, QuietMove
<1>8. CASE StopTimer
  BY <1>8 DEF StopTimer, QuietMove
<1>9. CASE UNCHANGED vars
  BY <1>9 DEF vars, QuietMove
<1> QED
  BY <1>1, <1>2, <1>3, <1>4, <1>5, <1>6, <1>7, <1>8, <1>9 DEF Quiet

LEMMA ControlStep == Inv /\ [Next]_vars => Control'
<1> SUFFICES ASSUME Inv, [Next]_vars PROVE Control'
  OBVIOUS
<1>a. Control
  BY DEF Inv
<1> USE DEF Control, Ended, InPoint, BeforePoints
<1>1. CASE Quiet
  <2>1. /\ args' = args
        /\ \/ pc' = pc
           \/ pc' \in Ended \cup InPoint \cup BeforePoints \cup {"allocate"}
    BY <1>1, QuietSteps DEF QuietMove
  <2>2. ret' = ret \/ ret' \in Errors
    BY <1>1, QuietSteps DEF QuietMove
  <2> QED
    BY <1>a, <2>1, <2>2
<1>2. CASE Allocate \/ StartTimer
  <2>1. args' = args /\ ret' = ret /\ pc' \in {"schedule", "rewind"}
    BY <1>2 DEF Allocate, StartTimer, output, buf
  <2> QED
    BY <1>a, <2>1
<1>3. CASE RewindX86
  BY <1>3, <1>a DEF RewindX86, output, buf
<1>4. CASE RewindArm
  BY <1>4, <1>a DEF RewindArm, output, buf
<1>5. CASE ChunkX86
  BY <1>5, <1>a DEF ChunkX86, Touch, output, buf
<1>6. CASE ChunkArm
  <2>1. args' = args /\ ret' = ret /\ pc' \in {"chunk", "stop", "rewind"}
    BY <1>6 DEF ChunkArm, Touch, AfterChunkArm, output, buf
  <2> QED
    BY <1>a, <2>1
<1>7. CASE Result
  <2>1. args' = args /\ pc' = "iterate" /\ ret' = ret
    BY <1>7 DEF Result, buf
  <2> QED
    BY <1>a, <2>1
<1>8. CASE CleanUp
  BY <1>8, <1>a DEF CleanUp, Return
<1> QED
  BY <1>1, <1>2, <1>3, <1>4, <1>5, <1>6, <1>7, <1>8, <1>a, Steps

(* The mapping stays whole pages, and large enough.                        *)
LEMMA MappedStep == Inv /\ [Next]_vars => Mapped' /\ BufferMapped'
<1> SUFFICES ASSUME Inv, [Next]_vars PROVE Mapped' /\ BufferMapped'
  OBVIOUS
<1>a. Mapped /\ BufferMapped /\ args \in Args
  BY DEF Inv, Control
<1>b. /\ args.buffer_size \in Nat \ {0} /\ Page \in Nat \ {0}
      /\ args.buffer = 0 \/ args.buffer_size <= args.buffer
  BY <1>a, Bounds
<1> USE DEF BufferMapped, InPoint, BeforePoints
<1>1. CASE Quiet
  <2>1. mapped' = mapped /\ args' = args /\ QuietMove
    BY <1>1, QuietSteps
  <2>2. \/ pc' = pc
        \/ pc = "call" /\ pc' = "allocate"
        \/ pc \in InPoint \cup BeforePoints /\ pc' \in InPoint \cup BeforePoints
        \/ pc' \in {"exit", "segv", "return"}
    BY <2>1 DEF QuietMove
  <2> QED
    BY <2>1, <2>2, <1>a DEF Mapped
<1>2. CASE Allocate
  <2> DEFINE r == RoundUp(args.buffer_size, Page)
  <2>1. r \in Nat /\ r >= args.buffer_size /\ r % Page = 0
    <3>1. r >= args.buffer_size /\ Multiple(r, Page)
      BY <1>b, RoundedUp DEF RoundUp
    <3>2. r \in Nat
      BY <1>b, <3>1 DEF Multiple
    <3> QED
      BY <1>b, <3>1, <3>2, RemainderZero
  <2>2. /\ pc = "allocate" /\ pc' = "schedule" /\ args' = args
        /\ mapped' = IF args.buffer = 0 THEN r ELSE mapped
    BY <1>2 DEF Allocate
  <2> HIDE DEF r
  <2>3. mapped' \in Nat /\ mapped' % Page = 0 /\ mapped' >= args.buffer_size
    <3>1. mapped = args.buffer
      BY <1>a, <2>2
    <3>2. CASE args.buffer = 0
      BY <2>1, <2>2, <3>2
    <3>3. CASE args.buffer # 0
      BY <1>a, <1>b, <2>2, <3>1, <3>3 DEF Mapped
    <3> QED
      BY <3>2, <3>3
  <2>4. Mapped'
    BY <2>3 DEF Mapped
  <2>5. args'.buffer_size <= mapped'
    BY <2>2, <2>3
  <2> QED
    BY <2>2, <2>4, <2>5
<1>3. CASE StartTimer \/ RewindX86 \/ RewindArm \/ ChunkX86 \/ ChunkArm \/ Result
  <2>1. mapped' = mapped /\ args' = args /\ pc' \in InPoint \cup {"iterate"}
        /\ pc \in InPoint
    BY <1>3 DEF StartTimer, RewindX86, RewindArm, ChunkX86, ChunkArm, Touch,
                AfterChunkArm, Result, buf
  <2> QED
    BY <1>a, <2>1 DEF Mapped
<1>4. CASE CleanUp
  <2>1. mapped' = mapped \/ mapped' = 0
    BY <1>4 DEF CleanUp
  <2>2. 0 % Page = 0
    BY ONLY <1>b
  <2> QED
    BY <1>4, <1>a, <2>1, <2>2 DEF CleanUp, Return, Mapped
<1> QED
  BY <1>1, <1>2, <1>3, <1>4, <1>a, Steps

(* How the counters are used along the way.                                *)
Outside == {"call", "allocate"} \cup BeforePoints
CountersMove ==
  \/ pc' = pc /\ UNCHANGED perf
  \/ pc' = "exit" /\ UNCHANGED perf
  \/ pc \in Outside /\ pc' \in Outside \cup {"return"} /\ UNCHANGED perf
  \/ pc \in InLoops /\ pc' \in InLoops \cup {"stop", "segv"} /\ UNCHANGED perf
  \/ pc \in Outside /\ pc' = "start" /\ Construct
  \/ pc = "start" /\ pc' = "rewind" /\ StartPerfEvents
  \/ pc = "stop" /\ pc' = "result" /\ StopPerfEvents
  \/ pc \in InPoint /\ pc' \in {"return", "iterate"} /\ DestroyCounters

LEMMA CountersUsed ==
  ASSUME args \in Args, [Next]_vars
  PROVE  CountersMove
<1> USE DEF CountersMove, Outside, InLoops, InPoint, BeforePoints
<1>1. CASE Quiet
  BY <1>1, QuietSteps DEF QuietMove
<1>2. CASE Allocate \/ StartTimer
  BY <1>2 DEF Allocate, StartTimer
<1>3. CASE RewindX86
  BY <1>3 DEF RewindX86
<1>4. CASE RewindArm
  BY <1>4 DEF RewindArm
<1>5. CASE ChunkX86
  BY <1>5 DEF ChunkX86, Touch
<1>6. CASE ChunkArm
  <2>1. pc = "chunk" /\ pc' \in {"chunk", "rewind", "stop"} /\ UNCHANGED perf
    BY <1>6 DEF ChunkArm, Touch, AfterChunkArm
  <2> QED
    BY <2>1
<1>7. CASE Result
  <2>1. pc = "result" /\ pc' = "iterate" /\ DestroyCounters
    BY <1>7 DEF Result
  <2> QED
    BY <2>1
<1>8. CASE CleanUp
  BY <1>8 DEF CleanUp, Return
<1> QED
  BY <1>1, <1>2, <1>3, <1>4, <1>5, <1>6, <1>7, <1>8, Steps

LEMMA CountersStep ==
  Inv /\ [Next]_vars => PerfTypeOK' /\ DescriptorsOwned' /\ CountersOpen'
<1> SUFFICES ASSUME Inv, [Next]_vars
             PROVE  PerfTypeOK' /\ DescriptorsOwned' /\ CountersOpen'
  OBVIOUS
<1>a. PerfTypeOK /\ DescriptorsOwned /\ CountersOpen /\ CountersMove
  BY CountersUsed DEF Inv, Control
<1>b. \A c \in Counters : lpcs[c] \in LinuxPerfCounter
  BY <1>a DEF PerfTypeOK
<1>1. PerfTypeOK' /\ DescriptorsOwned'
  <2>1. StartPerfEvents /\ pc = "start" => \A c \in Counters : lpcs[c].fd
    BY <1>a DEF CountersOpen, InPoint
  <2> QED
    BY <1>a, <2>1, PerfStep DEF CountersMove
<1>2. CountersOpen'
  <2> USE DEF CountersOpen, Outside, InLoops, InPoint, BeforePoints
  <2>1. CASE (pc' = pc \/ pc' = "exit") /\ UNCHANGED perf
    BY <1>a, <2>1 DEF perf
  <2>2. CASE pc \in Outside /\ pc' \in Outside \cup {"return"} /\ UNCHANGED perf
    BY <1>a, <2>2 DEF perf
  <2>3. CASE pc \in InLoops /\ pc' \in InLoops \cup {"stop", "segv"} /\ UNCHANGED perf
    BY <1>a, <2>3 DEF perf
  <2>4. CASE pc \in Outside /\ pc' = "start" /\ Construct
    BY <2>4 DEF Construct, Moved, Opened
  <2>5. CASE pc = "start" /\ pc' = "rewind" /\ StartPerfEvents
    <3>1. ASSUME NEW c \in Counters
          PROVE  lpcs'[c].fd /\ lpcs'[c].started
      <4>1. lpcs[c] \in LinuxPerfCounter /\ lpcs[c].fd
        BY <1>a, <1>b, <2>5
      <4>2. CASE lpcs[c].started
        BY <2>5, <4>1, <4>2 DEF StartPerfEvents
      <4>3. CASE ~lpcs[c].started
        BY <2>5, <4>1, <4>3 DEF StartPerfEvents, LinuxPerfCounter
      <4> QED
        BY <4>2, <4>3
    <3> QED
      BY <2>5, <3>1
  <2>6. CASE pc = "stop" /\ pc' = "result" /\ StopPerfEvents
    <3>1. ASSUME NEW c \in Counters
          PROVE  lpcs'[c].fd /\ ~lpcs'[c].started
      <4>1. lpcs[c] \in LinuxPerfCounter /\ lpcs[c].fd /\ lpcs[c].started
        BY <1>a, <1>b, <2>6
      <4>2. PICK readable : lpcs'[c] =
              [lpcs[c] EXCEPT !.started = FALSE,
                              !.counter = IF c \in readable THEN "count" ELSE @]
        BY <2>6, <4>1 DEF StopPerfEvents
      <4>3. CASE c \in readable
        BY <4>1, <4>2, <4>3 DEF LinuxPerfCounter
      <4>4. CASE c \notin readable
        BY <4>1, <4>2, <4>4 DEF LinuxPerfCounter
      <4> QED
        BY <4>3, <4>4
    <3> QED
      BY <2>6, <3>1
  <2>7. CASE pc \in InPoint /\ pc' \in {"return", "iterate"} /\ DestroyCounters
    BY <2>7 DEF DestroyCounters, Absent
  <2> QED
    BY <1>a, <2>1, <2>2, <2>3, <2>4, <2>5, <2>6, <2>7 DEF CountersMove
<1> QED
  BY <1>1, <1>2

(* The results and their rows; what is left to scan, and the head.         *)
LEMMA ResultsStep == Inv /\ [Next]_vars => Results' /\ ResultsCounted'
<1> SUFFICES ASSUME Inv, [Next]_vars PROVE Results' /\ ResultsCounted'
  OBVIOUS
<1>a. Results /\ ResultsCounted /\ args \in Args
  BY DEF Inv, Control
<1>b. /\ Len(results) \in Nat /\ args.num_iter \in Nat
      /\ args.buffer_size \in Nat /\ IterPerIter(args) \in Nat
  BY <1>a, Bounds, ScansPlanned DEF Results
<1>1. CASE Iterate
  <2>1. /\ pc' = "start" /\ Len(results) < args.num_iter
        /\ args' = args /\ results' = results /\ rows' = rows
    BY <1>1 DEF Iterate, buf, output
  <2> QED
    BY <1>a, <2>1 DEF Results, ResultsCounted
<1>2. CASE (Quiet /\ ~Iterate) \/ Allocate \/ StartTimer \/ RewindX86 \/ RewindArm
           \/ ChunkX86 \/ ChunkArm
  <2>1. args' = args /\ results' = results /\ rows' = rows
    <3>1. CASE Quiet
      BY <3>1, QuietSteps
    <3>2. CASE Allocate \/ StartTimer \/ RewindX86 \/ RewindArm
      BY <3>2 DEF Allocate, StartTimer, RewindX86, RewindArm, buf, output
    <3>3. CASE ChunkX86 \/ ChunkArm
      BY <3>3 DEF ChunkX86, ChunkArm, Touch, buf, output
    <3> QED
      BY <1>2, <3>1, <3>2, <3>3
  <2>2. /\ pc' \in InPoint => pc \in InPoint
        /\ pc' = "return" => ret' # 0 \/ (pc = "return" /\ ret' = ret)
    <3>1. CASE Quiet /\ ~Iterate
      <4>1. pc' # "start" \/ pc' = pc
        BY <3>1, QuietSteps DEF QuietMove
      <4>2. ASSUME ret' \in Errors PROVE ret' # 0
        BY <4>2 DEF Errors
      <4> QED
        BY <3>1, <4>1, <4>2, QuietSteps DEF QuietMove, InPoint
    <3>2. CASE Allocate \/ StartTimer
      BY <3>2 DEF Allocate, StartTimer, InPoint
    <3>3. CASE RewindX86
      BY <3>3 DEF RewindX86, InPoint
    <3>4. CASE RewindArm
      BY <3>4 DEF RewindArm, InPoint
    <3>5. CASE ChunkX86
      BY <3>5 DEF ChunkX86, Touch, InPoint
    <3>6. CASE ChunkArm
      <4>1. pc = "chunk" /\ pc' \in {"chunk", "rewind", "stop"}
        BY <3>6 DEF ChunkArm, Touch, AfterChunkArm
      <4> QED
        BY <4>1 DEF InPoint
    <3> QED
      BY <1>2, <3>1, <3>2, <3>3, <3>4, <3>5, <3>6
  <2> QED
    BY <1>a, <2>1, <2>2 DEF Results, ResultsCounted
<1>3. CASE Result
  <2> DEFINE r == [bytes |-> IterPerIter(args) * args.buffer_size,
                   inf |-> \E c \in CounterOf(args.timing) : lpcs[c].counter = "zero"]
  <2>1. /\ pc = "result" /\ pc' = "iterate" /\ args' = args
        /\ results' = Append(results, r)
        /\ rows' = IF args.counted THEN rows + 1 ELSE rows
    BY <1>3 DEF Result, buf
  <2>2. r \in [bytes : Nat, inf : BOOLEAN]
    <3>1. IterPerIter(args) * args.buffer_size \in Nat
      BY ONLY <1>b
    <3> HIDE DEF r
    <3> DEFINE p == \E c \in CounterOf(args.timing) : lpcs[c].counter = "zero"
    <3>2. p \in BOOLEAN
      OBVIOUS
    <3>3. r = [bytes |-> IterPerIter(args) * args.buffer_size, inf |-> p]
      BY DEF r
    <3> HIDE DEF p
    <3> QED
      BY ONLY <3>1, <3>2, <3>3
  <2> HIDE DEF r
  <2>3. Results' /\ Len(results') = Len(results) + 1
    <3>1. results \in Seq([bytes : Nat, inf : BOOLEAN])
      BY <1>a DEF Results
    <3>2. /\ results' \in Seq([bytes : Nat, inf : BOOLEAN])
          /\ Len(results') = Len(results) + 1
      BY ONLY <2>1, <2>2, <3>1
    <3> QED
      BY <3>2 DEF Results
  <2>4. /\ rows = IF args.counted THEN Len(results) ELSE 0
        /\ Len(results) < args.num_iter
    BY <1>a, <2>1 DEF ResultsCounted, InPoint
  <2>5. /\ rows' = IF args.counted THEN Len(results') ELSE 0
        /\ Len(results') <= args.num_iter
    <3>1. rows' = IF args.counted THEN rows + 1 ELSE rows
      BY <2>1
    <3>2. Len(results') = Len(results) + 1
      BY <2>3
    <3> QED
      BY ONLY <1>b, <2>4, <3>1, <3>2
  <2> QED
    BY <2>1, <2>3, <2>5 DEF ResultsCounted, InPoint
<1>4. CASE CleanUp
  <2>1. /\ pc' = "return" /\ args' = args /\ results' = results /\ rows' = rows
        /\ Len(results) >= args.num_iter
    BY <1>4 DEF CleanUp, Return
  <2>2. Len(results) <= args.num_iter
    BY <1>a DEF ResultsCounted
  <2>3. Len(results) = args.num_iter
    BY ONLY <1>b, <2>1, <2>2
  <2> QED
    BY <1>a, <2>1, <2>3 DEF Results, ResultsCounted, InPoint
<1> QED
  BY <1>1, <1>2, <1>3, <1>4, <1>a, Steps

(* The registers, and what they say is left.                               *)
LEMMA RegistersStep == Inv /\ [Next]_vars => Registers' /\ LeftOver'
<1> SUFFICES ASSUME Inv, [Next]_vars PROVE Registers' /\ LeftOver'
  OBVIOUS
<1>a. Registers /\ LeftOver /\ args \in Args
  BY DEF Inv, Control
<1>b. /\ Chunk \in Nat \ {0} /\ Word \in Nat \ {0}
      /\ IterPerIter(args) \in 0 .. Word - 1
      /\ args.bytes_per_iter > 0 => IterPerIter(args) >= 1
  BY <1>a, Bounds, ScansPlanned
<1>c. 0 \in Nat /\ 0 % Chunk = 0
  BY ONLY <1>b
<1>d. head \in Nat /\ head % Chunk = 0 /\ left \in -1 .. Word - 1
  BY <1>a DEF Registers
<1> USE DEF InLoops
<1>1. CASE Quiet
  <2>1. left' = left /\ head' = head /\ args' = args
    BY <1>1, QuietSteps
  <2>2. /\ pc' \in InLoops => pc \in InLoops
        /\ pc' \in {"stop", "result"} => pc \in {"stop", "result"}
    BY <1>1, QuietSteps DEF QuietMove
  <2>3. Registers'
    BY <1>d, <2>1 DEF Registers
  <2>4. LeftOver'
    BY <1>a, <2>1, <2>2 DEF LeftOver, ToMeasure
  <2> QED
    BY <2>3, <2>4
<1>2. CASE Allocate \/ Result \/ CleanUp
  <2>1. left' = left /\ head' = head
    BY <1>2 DEF Allocate, Result, CleanUp, registers
  <2>2. pc' \notin InLoops \cup {"stop", "result"}
    <3>1. CASE Allocate
      BY <3>1 DEF Allocate
    <3>2. CASE Result
      <4>1. pc' = "iterate"
        BY <3>2 DEF Result
      <4> QED
        BY <4>1
    <3>3. CASE CleanUp
      BY <3>3 DEF CleanUp, Return
    <3> QED
      BY <1>2, <3>1, <3>2, <3>3
  <2>3. Registers'
    BY <1>d, <2>1 DEF Registers
  <2> QED
    BY <2>2, <2>3 DEF LeftOver
<1>3. CASE StartTimer
  <2>1. left' = IterPerIter(args) /\ head' = 0 /\ pc' = "rewind" /\ args' = args
    BY <1>3 DEF StartTimer, buf
  <2>2. left' \in -1 .. Word - 1 /\ left' >= 0
        /\ (args.bytes_per_iter > 0 => left' >= 1)
    BY <1>b, <2>1
  <2>3. Registers'
    BY <1>c, <2>1, <2>2 DEF Registers
  <2>4. ToMeasure' /\ args'.arch = "aarch64" => args.bytes_per_iter > 0
    BY <2>1 DEF ToMeasure
  <2> QED
    BY <2>1, <2>2, <2>3, <2>4 DEF LeftOver
<1>4. CASE RewindX86
  <2>1. /\ left' = left - 1 /\ head' = 0 /\ args' = args
        /\ pc = "rewind" /\ args.arch = "x86_64"
    BY <1>4 DEF RewindX86, buf
  <2>2. pc' = IF left' < 0 THEN "stop" ELSE "chunk"
    BY <1>4 DEF RewindX86
  <2>3. left >= 0
    BY <1>a, <2>1 DEF LeftOver
  <2>4. /\ left' \in -1 .. Word - 1
        /\ left' < 0 => left' = -1
        /\ ~(left' < 0) => left' >= 0
    BY ONLY <1>b, <1>d, <2>1, <2>3
  <2>5. Registers'
    BY <1>c, <2>1, <2>4 DEF Registers
  <2>6. args'.arch # "aarch64"
    BY <2>1
  <2>7. CASE left' < 0
    <3>1. pc' = "stop" /\ left' = -1
      BY <2>2, <2>4, <2>7
    <3> QED
      BY <2>5, <2>6, <3>1 DEF LeftOver
  <2>8. CASE ~(left' < 0)
    <3>1. pc' = "chunk" /\ left' >= 0
      BY <2>2, <2>4, <2>8
    <3> QED
      BY <2>5, <2>6, <3>1 DEF LeftOver
  <2> QED
    BY <2>7, <2>8
<1>5. CASE RewindArm
  <2>1. /\ left' = left /\ head' = 0 /\ args' = args /\ pc' = "chunk" /\ pc = "rewind"
    BY <1>5 DEF RewindArm, buf
  <2>2. Registers'
    BY <1>c, <1>d, <2>1 DEF Registers
  <2> QED
    BY <1>a, <2>1, <2>2 DEF LeftOver, ToMeasure
<1>6. ASSUME ChunkX86 \/ ChunkArm
      PROVE  head' \in Nat /\ head' % Chunk = 0
  <2>1. head' = head + Chunk
    BY <1>6 DEF ChunkX86, ChunkArm, Touch
  <2>2. PICK k \in Nat : head = k * Chunk
    BY <1>b, <1>d, RemainderZero DEF Multiple
  <2>3. head + Chunk = (k + 1) * Chunk /\ head + Chunk \in Nat /\ k + 1 \in Nat
    BY <1>b, <1>d, <2>2
  <2>4. Multiple(head + Chunk, Chunk)
    BY <2>3 DEF Multiple
  <2>5. (head + Chunk) % Chunk = 0
    BY <1>b, <2>3, <2>4, RemainderZero
  <2> QED
    BY <2>1, <2>3, <2>5
<1>7. CASE ChunkX86
  <2>1. /\ left' = left /\ args' = args /\ pc = "chunk" /\ args.arch = "x86_64"
        /\ pc' \in InLoops
    BY <1>7 DEF ChunkX86, Touch, buf
  <2>2. Registers'
    BY <1>d, <1>6, <1>7, <2>1 DEF Registers
  <2> QED
    BY <1>a, <2>1, <2>2 DEF LeftOver, ToMeasure
<1>8. CASE ChunkArm
  <2>1. args' = args /\ pc = "chunk" /\ args.arch = "aarch64" /\ AfterChunkArm
    BY <1>8 DEF ChunkArm, Touch, buf
  <2>2. CASE head' # args.buffer_size
    <3>1. left' = left /\ pc' = "chunk"
      BY <2>1, <2>2 DEF AfterChunkArm
    <3>2. Registers'
      BY <1>d, <1>6, <1>8, <3>1 DEF Registers
    <3> QED
      BY <1>a, <2>1, <3>1, <3>2 DEF LeftOver, ToMeasure
  <2>3. CASE head' = args.buffer_size
    <3>1. /\ left' = (left - 1) % Word
          /\ pc' = IF left' = 0 THEN "stop" ELSE "rewind"
      BY <2>1, <2>3 DEF AfterChunkArm
    <3>2. left' \in 0 .. Word - 1
      BY ONLY <1>b, <1>d, <3>1
    <3>3. left' \in -1 .. Word - 1 /\ left' >= 0 /\ (left' # 0 => left' >= 1)
      BY ONLY <1>b, <3>2
    <3>4. Registers'
      BY <1>6, <1>8, <3>3 DEF Registers
    <3>5. CASE left' = 0
      <4>1. pc' = "stop"
        BY <3>1, <3>5
      <4> QED
        BY <2>1, <3>4, <3>5, <4>1 DEF LeftOver
    <3>6. CASE left' # 0
      <4>1. pc' = "rewind"
        BY <3>1, <3>6
      <4> QED
        BY <3>3, <3>4, <3>6, <4>1 DEF LeftOver
    <3> QED
      BY <3>5, <3>6
  <2> QED
    BY <2>2, <2>3
<1> QED
  BY <1>1, <1>2, <1>3, <1>4, <1>5, <1>7, <1>8, <1>a, Steps

(* No chunk beyond a buffer of whole chunks.                               *)
LEMMA HeadStep == Inv /\ [Next]_vars => KiBNotOverrun'
<1> SUFFICES ASSUME Inv, [Next]_vars, (args.buffer_size % Chunk = 0)'
             PROVE  pc' # "segv" /\ (pc' = "chunk" => head' < args'.buffer_size)
  BY DEF KiBNotOverrun
<1>a. Registers /\ KiBNotOverrun /\ BufferMapped /\ Mapped /\ args \in Args
  BY DEF Inv, Control
<1>b. /\ Chunk \in Nat \ {0} /\ args.buffer_size \in Nat \ {0}
      /\ head \in Nat /\ head % Chunk = 0 /\ mapped \in Nat
  BY <1>a, Bounds DEF Registers, Mapped
<1>c. args' = args
  <2>1. CASE Quiet
    BY <2>1, QuietSteps
  <2>2. CASE Allocate \/ StartTimer \/ RewindX86 \/ RewindArm \/ Result \/ CleanUp
    BY <2>2 DEF Allocate, StartTimer, RewindX86, RewindArm, Result, CleanUp, buf
  <2>3. CASE ChunkX86 \/ ChunkArm
    BY <2>3 DEF ChunkX86, ChunkArm, Touch, buf
  <2> QED
    BY <1>a, <2>1, <2>2, <2>3, Steps
<1>d. args.buffer_size % Chunk = 0
  BY <1>c
<1>e. pc = "chunk" => head + Chunk <= args.buffer_size
  <2> SUFFICES ASSUME pc = "chunk" PROVE head + Chunk <= args.buffer_size
    OBVIOUS
  <2>1. head < args.buffer_size
    BY <1>a, <1>d DEF KiBNotOverrun
  <2>2. PICK i \in Nat : head = i * Chunk
    BY <1>b, RemainderZero DEF Multiple
  <2>3. PICK j \in Nat : args.buffer_size = j * Chunk
    BY <1>b, <1>d, RemainderZero DEF Multiple
  <2> QED
    BY <1>b, <2>1, <2>2, <2>3, NextMultiple
<1>1. CASE Quiet
  <2>1. ~Segv
    <3> SUFFICES ASSUME Segv PROVE FALSE
      OBVIOUS
    <3>1. pc = "chunk" /\ head + Chunk > mapped
      BY DEF Segv
    <3>2. args.buffer_size <= mapped
      BY <1>a, <3>1 DEF BufferMapped, InPoint
    <3>3. head + Chunk <= args.buffer_size
      BY <1>e, <3>1
    <3> QED
      BY ONLY <1>b, <3>1, <3>2, <3>3
  <2>2. head' = head
    BY <1>1, QuietSteps
  <2>3. (pc' = pc \/ pc' \notin {"chunk", "segv"})
    BY <1>1, <2>1, QuietSteps DEF QuietMove
  <2> QED
    BY <1>a, <1>c, <1>d, <2>2, <2>3 DEF KiBNotOverrun
<1>2. CASE Allocate \/ StartTimer \/ Result \/ CleanUp
  <2>1. CASE Allocate \/ StartTimer
    BY <2>1 DEF Allocate, StartTimer
  <2>2. CASE Result
    <3>1. pc' = "iterate"
      BY <2>2 DEF Result
    <3> QED
      BY <3>1
  <2>3. CASE CleanUp
    BY <2>3 DEF CleanUp, Return
  <2> QED
    BY <1>2, <2>1, <2>2, <2>3
<1>3. CASE RewindX86 \/ RewindArm
  <2>1. head' = 0
    BY <1>3 DEF RewindX86, RewindArm
  <2>2. pc' \in {"stop", "chunk"}
    BY <1>3 DEF RewindX86, RewindArm
  <2>3. 0 < args.buffer_size
    BY <1>b
  <2> QED
    BY <1>c, <2>1, <2>2, <2>3
<1>4. CASE ChunkX86 \/ ChunkArm
  <2>1. head' = head + Chunk /\ pc = "chunk"
    BY <1>4 DEF ChunkX86, ChunkArm, Touch
  <2>2. head' <= args.buffer_size /\ head' \in Nat
    BY <1>b, <1>e, <2>1
  <2>3. head' # args.buffer_size => head' < args.buffer_size
    BY <1>b, <2>2
  <2>4. pc' \in {"chunk", "rewind", "stop"}
        /\ (pc' = "chunk" => head' # args.buffer_size)
    <3>1. CASE ChunkX86
      BY <3>1 DEF ChunkX86
    <3>2. CASE ChunkArm
      <4>1. CASE head' # args.buffer_size
        BY <3>2, <4>1 DEF ChunkArm, AfterChunkArm
      <4>2. CASE head' = args.buffer_size
        BY <3>2, <4>2 DEF ChunkArm, AfterChunkArm
      <4> QED
        BY <4>1, <4>2
    <3> QED
      BY <1>4, <3>1, <3>2
  <2> QED
    BY <1>c, <2>3, <2>4
<1> QED
  BY <1>1, <1>2, <1>3, <1>4, <1>a, Steps

(* What a step adds to touched.                                            *)
LEMMA TouchAdds ==
  ASSUME Touches, NEW o \in Ops, Touch(o), NEW op \in Ops, NEW n \in Chunks
  PROVE  touched'[op][n] = IF op = o /\ n = head \div Chunk
                           THEN touched[op][n] + 1 ELSE touched[op][n]
<1> DEFINE at == head \div Chunk
<1>1. touched' = [touched EXCEPT ![o][at] = @ + 1]
  BY DEF Touch
<1>2. touched \in [Ops -> [Chunks -> Nat]]
  BY DEF Touches
<1> HIDE DEF at
<1>3. touched' = [touched EXCEPT ![o] = [touched[o] EXCEPT ![at] = touched[o][at] + 1]]
  BY <1>1
<1>4. touched'[op] = IF op = o THEN [touched[o] EXCEPT ![at] = touched[o][at] + 1]
                     ELSE touched[op]
  BY <1>2, <1>3
<1>5. touched[op] \in [Chunks -> Nat]
  BY <1>2
<1>6. touched'[op][n] = IF op = o /\ n = at THEN touched[op][n] + 1 ELSE touched[op][n]
  BY <1>4, <1>5
<1> QED
  BY <1>6 DEF at

LEMMA TouchesStep == Inv /\ [Next]_vars => Touches'
<1> SUFFICES ASSUME Inv, [Next]_vars PROVE Touches'
  OBVIOUS
<1>a. touched \in [Ops -> [Chunks -> Nat]] /\ Touches /\ args \in Args
  BY DEF Inv, Touches, Control
<1>1. CASE Quiet
  BY <1>1, <1>a, QuietSteps DEF Touches
<1>2. CASE Allocate \/ RewindX86 \/ RewindArm \/ Result \/ CleanUp
  <2>1. touched' = touched
    BY <1>2 DEF Allocate, RewindX86, RewindArm, Result, CleanUp
  <2> QED
    BY <1>a, <2>1 DEF Touches
<1>3. CASE StartTimer
  BY <1>3 DEF StartTimer, Untouched, Touches
<1>4. CASE ChunkX86 \/ ChunkArm
  <2> DEFINE at == head \div Chunk
  <2>1. touched' = [touched EXCEPT ![Op][at] = @ + 1] /\ Op \in Ops
    BY <1>4 DEF ChunkX86, ChunkArm, Touch, Op, Ops
  <2> HIDE DEF at
  <2>2. touched' = [touched EXCEPT ![Op] =
                      [touched[Op] EXCEPT ![at] = touched[Op][at] + 1]]
    BY <2>1
  <2>3. [touched[Op] EXCEPT ![at] = touched[Op][at] + 1] \in [Chunks -> Nat]
    <3> DEFINE t == touched[Op]
    <3>1. t \in [Chunks -> Nat]
      BY <1>a, <2>1
    <3> HIDE DEF t
    <3>2. [t EXCEPT ![at] = t[at] + 1] \in [Chunks -> Nat]
      <4>1. CASE at \in Chunks
        BY <3>1, <4>1
      <4>2. CASE at \notin Chunks
        BY <3>1, <4>2
      <4> QED
        BY <4>1, <4>2
    <3> QED
      BY <3>2 DEF t
  <2>4. touched' \in [Ops -> [Chunks -> Nat]]
    BY <1>a, <2>1, <2>2, <2>3
  <2> QED
    BY <2>4 DEF Touches
<1> QED
  BY <1>1, <1>2, <1>3, <1>4, <1>a, Steps

(* After a step, too, what was touched is what was counted.                *)
LEMMA CountStep == Inv /\ [Next]_vars => TouchedSoFar'
<1> DEFINE Is(o, n, done, h) ==
      touched'[o][n] = IF o = Op THEN Count(args.buffer_size, done, n, h) ELSE 0
<1> SUFFICES ASSUME Inv, [Next]_vars, (pc \in InLoops \cup {"stop", "result"})',
                    ToMeasure', NEW o \in Ops, NEW n \in Chunks
             PROVE  args' = args /\ Is(o, n, Done', Covered')
  <2>1. ASSUME args' = args, NEW o \in Ops, NEW n \in Chunks, Is(o, n, Done', Covered')
        PROVE  (touched[o][n] = IF o = Op THEN Count(args.buffer_size, Done, n, Covered)
                               ELSE 0)'
    <3>1. Op' = Op
      BY <2>1 DEF Op
    <3> QED
      BY <2>1, <3>1 DEF Count
  <2> QED
    BY <2>1 DEF TouchedSoFar
<1> DEFINE I == IterPerIter(args)
           size == args.buffer_size
<1>a. Registers /\ LeftOver /\ Touches /\ TouchedSoFar /\ args \in Args
  BY DEF Inv, Control
<1>b. /\ Chunk \in Nat \ {0} /\ size \in Nat \ {0} /\ Word \in Nat \ {0}
      /\ I \in Nat /\ n \in Nat /\ left \in -1 .. Word - 1
      /\ head \in Nat /\ head % Chunk = 0
  BY <1>a, Bounds, ScansPlanned DEF Registers, Chunks
<1>c. args.arch = "x86_64" <=> args.arch # "aarch64"
  BY <1>a, Bounds
<1>d. /\ args.arch = "x86_64" /\ pc # "rewind" => Done = I - left - 1
      /\ ~(args.arch = "x86_64" /\ pc # "rewind") => Done = I - left - 0
  BY DEF Done
<1>e. args' = args =>
        /\ args.arch = "x86_64" /\ pc' # "rewind" => Done' = I - left' - 1
        /\ ~(args.arch = "x86_64" /\ pc' # "rewind") => Done' = I - left' - 0
  BY DEF Done, IterPerIter
<1>f. /\ pc = "chunk" => Covered = head
      /\ pc # "chunk" => Covered = 0
      /\ pc' = "chunk" => Covered' = head'
      /\ pc' # "chunk" => Covered' = 0
  BY DEF Covered
<1>g. args' = args => ToMeasure
  BY DEF ToMeasure
<1>h. pc \in InLoops \cup {"stop", "result"} /\ args' = args =>
        touched[o][n] = IF o = Op THEN Count(size, Done, n, Covered) ELSE 0
  BY <1>a, <1>g DEF TouchedSoFar
<1> HIDE DEF I, size
<1>k. ASSUME args' = args, touched' = touched, Done' = Done, Covered' = Covered,
             pc \in InLoops \cup {"stop", "result"}
      PROVE  Is(o, n, Done', Covered')
  BY <1>h, <1>k DEF size
<1>1. CASE Quiet
  <2>1. args' = args /\ left' = left /\ head' = head /\ touched' = touched
    BY <1>1, QuietSteps
  <2>a. QuietMove
    BY <1>1, QuietSteps
  <2>b. pc' \in {"rewind", "chunk", "stop", "result"}
    BY DEF InLoops
  <2>2. pc' = pc \/ (pc = "stop" /\ pc' = "result")
    BY ONLY <2>a, <2>b DEF QuietMove
  <2>3. Done' = Done /\ Covered' = Covered
    BY <1>d, <1>e, <1>f, <2>1, <2>2
  <2>4. pc \in InLoops \cup {"stop", "result"}
    BY <2>2
  <2> QED
    BY <1>k, <2>1, <2>3, <2>4
<1>2. CASE Allocate \/ Result \/ CleanUp
  <2>1. pc' \notin InLoops \cup {"stop", "result"}
    <3>1. CASE Allocate
      BY <3>1 DEF Allocate, InLoops
    <3>2. CASE Result
      <4>1. pc' = "iterate"
        BY <3>2 DEF Result
      <4> QED
        BY <4>1 DEF InLoops
    <3>3. CASE CleanUp
      BY <3>3 DEF CleanUp, Return, InLoops
    <3> QED
      BY <1>2, <3>1, <3>2, <3>3
  <2> QED
    BY <2>1
<1>3. CASE StartTimer
  <2>1. /\ args' = args /\ left' = I /\ head' = 0 /\ pc' = "rewind"
        /\ touched' = Untouched
    BY <1>3 DEF StartTimer, buf, I
  <2>2. Done' = I - I - 0
    BY <1>e, <2>1
  <2>3. Done' = 0 /\ Covered' = 0
    <3>1. I - I - 0 = 0
      BY ONLY <1>b
    <3> QED
      BY <1>f, <2>1, <2>2, <3>1
  <2>4. Count(size, 0, n, 0) = 0
    <3>1. n * Chunk \in Nat
      BY ONLY <1>b
    <3>2. ~(n * Chunk < 0)
      BY ONLY <3>1
    <3> QED
      BY <3>2 DEF Count
  <2>5. touched'[o][n] = 0
    BY <2>1 DEF Untouched
  <2> QED
    BY <2>1, <2>3, <2>4, <2>5 DEF size
<1>4. CASE RewindX86
  <2>1. /\ args' = args /\ left' = left - 1 /\ head' = 0 /\ touched' = touched
        /\ pc = "rewind" /\ args.arch = "x86_64"
    BY <1>4 DEF RewindX86, buf
  <2>2. pc' \in {"stop", "chunk"}
    BY <1>4 DEF RewindX86
  <2>3. Done = I - left - 0 /\ Done' = I - left' - 1
    BY <1>d, <1>e, <2>1, <2>2
  <2>4. Done' = Done
    BY ONLY <1>b, <2>1, <2>3
  <2>5. Covered' = Covered
    BY <1>f, <2>1, <2>2
  <2>6. pc \in InLoops
    BY <2>1 DEF InLoops
  <2> QED
    BY <1>k, <2>1, <2>4, <2>5, <2>6
<1>5. CASE RewindArm
  <2>1. /\ args' = args /\ left' = left /\ head' = 0 /\ touched' = touched
        /\ pc = "rewind" /\ pc' = "chunk" /\ args.arch = "aarch64"
    BY <1>5 DEF RewindArm, buf
  <2>2. Done' = Done /\ Covered' = Covered
    BY <1>c, <1>d, <1>e, <1>f, <2>1
  <2>3. pc \in InLoops
    BY <2>1 DEF InLoops
  <2> QED
    BY <1>k, <2>1, <2>2, <2>3
<1>6. ASSUME Touch(Op), args' = args,
             Done \in Int,
             \/ pc' = "chunk" /\ Done' = Done
             \/ pc' # "chunk" /\ head' = size /\ Done' = Done + 1
      PROVE  Is(o, n, Done', Covered')
  <2>1. pc = "chunk" /\ head' = head + Chunk /\ Op \in Ops
    BY <1>6 DEF Touch, Op, Ops
  <2>2. touched[o][n] = IF o = Op THEN Count(size, Done, n, head) ELSE 0
    BY <1>6, <1>f, <1>h, <2>1 DEF InLoops
  <2>3. touched'[o][n] = IF o = Op /\ n = head \div Chunk
                         THEN touched[o][n] + 1 ELSE touched[o][n]
    BY <1>6, <1>a, <2>1, TouchAdds
  <2>4. /\ n = head \div Chunk =>
              Count(size, Done, n, head') = Count(size, Done, n, head) + 1
        /\ n # head \div Chunk =>
              Count(size, Done, n, head') = Count(size, Done, n, head)
    <3>1. size \in Nat /\ Done \in Int
      BY <1>b, <1>6
    <3>2. /\ Chunk \in Nat \ {0} /\ n \in Nat
          /\ head \in Nat /\ Multiple(head, Chunk)
      BY <1>b, RemainderZero
    <3>3. /\ n = head \div Chunk <=> n * Chunk = head
          /\ n * Chunk < head + Chunk <=> n * Chunk < head \/ n * Chunk = head
      BY ONLY <3>2, StepOfMultiple
    <3>4. n * Chunk \in Nat
      BY <3>2
    <3> DEFINE d == Done
    <3>5. d \in Int /\ head' = head + Chunk
      BY <2>1, <3>1
    <3> HIDE DEF d
    <3>6. CASE n * Chunk = head
      <4>1. Count(size, d, n, head') = Count(size, d, n, head) + 1
        BY ONLY <3>1, <3>2, <3>3, <3>4, <3>5, <3>6 DEF Count
      <4> QED
        BY <3>3, <3>6, <4>1 DEF d
    <3>7. CASE n * Chunk # head
      <4>1. Count(size, d, n, head') = Count(size, d, n, head)
        BY ONLY <3>1, <3>2, <3>3, <3>4, <3>5, <3>7 DEF Count
      <4> QED
        BY <3>3, <3>7, <4>1 DEF d
    <3> QED
      BY <3>6, <3>7
  <2>5. touched'[o][n] = IF o = Op THEN Count(size, Done, n, head') ELSE 0
    <3>1. CASE o = Op /\ n = head \div Chunk
      BY <2>1, <2>2, <2>3, <2>4, <3>1
    <3>3. CASE o = Op /\ n # head \div Chunk
      BY <2>1, <2>2, <2>3, <2>4, <3>3
    <3>2. CASE o # Op
      BY <2>2, <2>3, <3>2
    <3> QED
      BY <3>1, <3>2, <3>3
  <2>6. CASE pc' = "chunk" /\ Done' = Done
    BY <1>f, <2>5, <2>6 DEF size
  <2>7. CASE pc' # "chunk" /\ head' = size /\ Done' = Done + 1
    <3>1. Count(size, Done, n, size) = Count(size, Done + 1, n, 0)
      <4>1. size \in Nat
        BY <1>b
      <4> QED
        BY <1>b, <1>6, <4>1, OneScanMore
    <3>2. Covered' = 0
      BY <1>f, <2>7
    <3> QED
      BY <2>5, <2>7, <3>1, <3>2 DEF size
  <2> QED
    BY <1>6, <2>6, <2>7
<1>7. CASE ChunkX86
  <2>1. /\ args' = args /\ left' = left /\ pc = "chunk" /\ args.arch = "x86_64"
        /\ Touch(Op)
    BY <1>7 DEF ChunkX86, Touch, buf
  <2>2. Done = I - left - 1 /\ Done \in Int
    <3>1. Done = I - left - 1
      BY <1>d, <2>1
    <3>2. I - left - 1 \in Int
      BY ONLY <1>b
    <3> QED
      BY <3>1, <3>2
  <2>3. \/ pc' = "chunk"
        \/ pc' = "rewind" /\ head' = size
    BY <1>7 DEF ChunkX86, size
  <2>4. CASE pc' = "chunk"
    <3>1. Done' = Done
      BY <1>e, <2>1, <2>2, <2>4
    <3> QED
      BY <1>6, <2>1, <2>2, <2>4, <3>1
  <2>5. CASE pc' = "rewind" /\ head' = size
    <3>1. Done' = I - left' - 0
      BY <1>e, <2>1, <2>5
    <3>2. Done' = Done + 1
      BY ONLY <1>b, <2>1, <2>2, <3>1
    <3>3. pc' # "chunk"
      BY <2>5
    <3> QED
      BY <1>6, <2>1, <2>2, <2>5, <3>2, <3>3
  <2> QED
    BY <2>1, <2>3, <2>4, <2>5
<1>8. CASE ChunkArm
  <2>1. /\ args' = args /\ pc = "chunk" /\ args.arch = "aarch64"
        /\ Touch(Op) /\ AfterChunkArm
    BY <1>8 DEF ChunkArm, Touch, buf
  <2>2. Done = I - left - 0 /\ Done \in Int
    <3>1. Done = I - left - 0
      BY <1>c, <1>d, <2>1
    <3>2. I - left - 0 \in Int
      BY ONLY <1>b
    <3> QED
      BY <3>1, <3>2
  <2>3. Done' = I - left' - 0
    BY <1>c, <1>e, <2>1
  <2>4. CASE head' # size
    <3>1. left' = left /\ pc' = "chunk"
      BY <2>1, <2>4 DEF AfterChunkArm, size
    <3>2. Done' = Done
      BY <2>2, <2>3, <3>1
    <3> QED
      BY <1>6, <2>1, <2>2, <3>1, <3>2
  <2>5. CASE head' = size
    <3>1. left' = (left - 1) % Word /\ pc' \in {"stop", "rewind"}
      BY <2>1, <2>5 DEF AfterChunkArm, size
    <3>2. left >= 1
      BY <1>a, <1>g, <2>1 DEF LeftOver, InLoops
    <3>3. left' = left - 1
      BY ONLY <1>b, <3>1, <3>2
    <3>4. Done' = Done + 1
      BY ONLY <1>b, <2>2, <2>3, <3>3
    <3>5. pc' # "chunk"
      BY <3>1
    <3> QED
      BY <1>6, <2>1, <2>2, <2>5, <3>4, <3>5
  <2> QED
    BY <2>1, <2>4, <2>5
<1> QED
  BY <1>1, <1>2, <1>3, <1>4, <1>5, <1>7, <1>8, <1>a, Steps

-----------------------------------------------------------------------------
(* The theorems                                                            *)

LEMMA Invariant == Spec => []Inv
<1>1. Inv /\ [Next]_vars => Inv'
  BY ControlStep, MappedStep, RegistersStep, ResultsStep, TouchesStep, CountersStep,
     HeadStep, CountStep DEF Inv
<1> QED
  BY <1>1, InitInv, PTL DEF Spec

(* Every variable keeps its type: neither the count of scans nor the rows  *)
(* leave their bounds.                                                     *)
THEOREM TypeCorrect == Spec => []TypeOK
<1>1. Inv => TypeOK
  <2> SUFFICES ASSUME Inv PROVE TypeOK
    OBVIOUS
  <2>1. rows \in 0 .. args.num_iter
    <3>1. /\ rows = IF args.counted THEN Len(results) ELSE 0
          /\ Len(results) <= args.num_iter
      BY DEF Inv, ResultsCounted
    <3>2. Len(results) \in Nat
      BY DEF Inv, Results
    <3>3. args.num_iter \in Nat
      BY Bounds DEF Inv, Control
    <3> QED
      BY ONLY <3>1, <3>2, <3>3
  <2>2. /\ pc \in Ended \cup {"call", "allocate", "schedule", "warm up", "iterate",
                        "start", "rewind", "chunk", "stop", "result"}
        /\ args \in Args
        /\ ret \in ReturnCodes
    <3>1. Control
      BY DEF Inv
    <3>2. ret \in ReturnCodes
      BY <3>1 DEF Control, Errors, ReturnCodes
    <3> QED
      BY <3>1, <3>2 DEF Control, InPoint, BeforePoints
  <2>3. Mapped /\ Registers /\ Results /\ Touches /\ PerfTypeOK
    BY DEF Inv
  <2> QED
    BY ONLY <2>1, <2>2, <2>3 DEF TypeOK, Mapped, Registers, Results, Touches
<1> QED
  BY <1>1, Invariant, PTL

(* The loops never leave a buffer of whole chunks, on either machine.      *)
THEOREM BufferNotOverrun == Spec => []KiBNotOverrun
BY Invariant, PTL DEF Inv

(* What a result is computed from is what was loaded or stored.            *)
THEOREM BytesCounted == Spec => []CountedIsTouched
<1>1. Inv => CountedIsTouched
  <2> SUFFICES ASSUME Inv, pc = "result", ToMeasure
               PROVE  /\ \A op \in Ops : Scanned(op)
                      /\ IterPerIter(args) * args.buffer_size >= args.bytes_per_iter
    BY DEF CountedIsTouched, ToMeasure
  <2>a. LeftOver /\ TouchedSoFar /\ args \in Args
    BY DEF Inv, Control
  <2>b. /\ IterPerIter(args) \in Nat /\ Chunk \in Nat
        /\ IterPerIter(args) * args.buffer_size >= args.bytes_per_iter
    BY <2>a, Bounds, ScansPlanned
  <2>1. Done = IterPerIter(args)
    <3>1. CASE args.arch = "aarch64"
      <4>1. left = 0
        BY <2>a, <3>1 DEF LeftOver
      <4>2. Done = IterPerIter(args) - left - 0
        BY <3>1 DEF Done
      <4> QED
        BY ONLY <2>b, <4>1, <4>2
    <3>2. CASE args.arch # "aarch64"
      <4>1. left = -1
        BY <2>a, <3>2 DEF LeftOver
      <4>2. args.arch = "x86_64"
        BY <2>a, <3>2, Bounds
      <4>3. Done = IterPerIter(args) - left - 1
        BY <4>2 DEF Done
      <4> QED
        BY ONLY <2>b, <4>1, <4>3
    <3> QED
      BY <3>1, <3>2
  <2>2. Covered = 0
    BY DEF Covered
  <2>3. ASSUME NEW op \in Ops, NEW n \in Chunks
        PROVE  touched[op][n] = IF n * Chunk < args.buffer_size
                                    /\ (args.is_write <=> op = "store")
                                 THEN IterPerIter(args) ELSE 0
    <3>1. touched[op][n] =
            IF op = Op THEN Count(args.buffer_size, IterPerIter(args), n, 0) ELSE 0
      BY <2>a, <2>1, <2>2 DEF TouchedSoFar
    <3>2. Count(args.buffer_size, IterPerIter(args), n, 0) =
            IF n * Chunk < args.buffer_size THEN IterPerIter(args) ELSE 0
      <4>1. n * Chunk \in Nat
        BY <2>b DEF Chunks
      <4>2. ~(n * Chunk < 0)
        BY ONLY <4>1
      <4>3. IterPerIter(args) + 0 = IterPerIter(args) /\ 0 + 0 = 0
        BY ONLY <2>b
      <4> QED
        BY <4>2, <4>3 DEF Count
    <3>3. op = Op <=> (args.is_write <=> op = "store")
      <4>1. args.is_write \in BOOLEAN
        BY <2>a, Bounds
      <4> QED
        BY <4>1 DEF Op, Ops
    <3> QED
      BY <3>1, <3>2, <3>3
  <2> QED
    BY <2>b, <2>3 DEF Scanned
<1> QED
  BY <1>1, Invariant, PTL

(* The counters count in the loops, are open and do not count in the rest  *)
(* of a data point, and are closed outside it.                             *)
THEOREM CountersInLoops == Spec => []CountersCoverLoops
<1>1. Inv => CountersCoverLoops
  <2> SUFFICES ASSUME Inv, NEW c \in Counters
               PROVE  /\ pc \in {"rewind", "chunk", "stop", "segv"} => event[c] = "enabled"
                      /\ pc \in {"start", "result"} => event[c] = "disabled"
                      /\ pc \in {"call", "allocate", "schedule", "warm up", "iterate",
                                 "return"} => event[c] = "closed"
    BY DEF CountersCoverLoops
  <2>1. /\ event[c] \in {"closed", "disabled", "enabled"}
        /\ event[c] # "closed" <=> lpcs[c].fd
        /\ event[c] = "enabled" <=> lpcs[c].started
    BY DEF Inv, PerfTypeOK, DescriptorsOwned, Events
  <2> QED
    BY <2>1 DEF Inv, CountersOpen, InPoint, BeforePoints
<1> QED
  BY <1>1, Invariant, PTL

(* A call that succeeds has all its results, each with its row.            *)
THEOREM EveryResult == Spec => []ResultsComplete
<1>1. Inv => ResultsComplete
  BY DEF Inv, ResultsCounted, ResultsComplete
<1> QED
  BY <1>1, Invariant, PTL

(* Every descriptor is owned by the counter that may use it.               *)
THEOREM DescriptorsAlwaysOwned == Spec => []DescriptorsOwned
BY Invariant, PTL DEF Inv
================================================================================
