------------------------------ MODULE CacheSize ------------------------------
(***************************************************************************)
(* eval_cache_size() and the recursive binary_search() behind it           *)
(* (CacheInspector/src/cache_size.cpp), in the default build               *)
(* (USE_HUGEPAGE = 1, LOG_BINARY_SEARCH = 0).                              *)
(*                                                                         *)
(* A caller asks for num_samples cache sizes.  Sample i has a target       *)
(* throughput, and the targets decrease with i.  For each target the       *)
(* search times a scan of `pivot' KiB, goes to a smaller buffer when the   *)
(* scan is slower than the target and to a bigger one when it is not.  The *)
(* middle sample is searched first; the two halves are recursive calls.    *)
(*                                                                         *)
(* The throughputs themselves are abstracted to the outcome of the one     *)
(* comparison made with them, v < target_thp.  What the machine under test *)
(* looks like is cross[i]: the largest buffer, in KiB, whose scan is as    *)
(* fast as target i.  A measurement is decided by cross[i] except within   *)
(* Noise KiB of it, where either outcome may be seen.                      *)
(*                                                                         *)
(* The C++ call stack is `pending', the calls still to be made, innermost  *)
(* first: the arguments of the second recursive call are all computed from *)
(* locals that the first one cannot change.                                *)
(***************************************************************************)
EXTENDS Integers, Sequences

CONSTANTS
  Modulus,        (* uint32_t arithmetic is modulo this: 2^32 in the build *)
  MemAllocation,  (* MEM_ALLOCATION in KiB: 262144 in the build            *)
  Arguments,      (* the argument records a caller may pass                *)
  MaxCross,       (* bound on the crossings considered, in KiB             *)
  Noise,          (* width, in KiB, of the undecided zone around cross[i]  *)
  MmapMayFail,    (* TRUE if mapping the workspace may fail                *)
  Faults          (* TRUE if a measurement may fail                        *)

Sizes == 0 .. Modulus - 1

(* An argument record: hint is cache_size_hint_KiB, n is num_samples,      *)
(* depth is search_depth, buf the size of the caller's buffer in KiB (0    *)
(* when buf is nullptr) and warm is warm_up_cpu.                           *)
ArgumentType ==
  [hint: Sizes, n: Nat, depth: Int, buf: Nat, warm: BOOLEAN]

ASSUME ModulusAssumption == Modulus \in Nat /\ Modulus > 1
ASSUME ArgumentsAssumption == Arguments \subseteq ArgumentType
ASSUME BoundsAssumption ==
  /\ MemAllocation \in Nat
  /\ MaxCross \in Nat
  /\ Noise \in Nat
  /\ MmapMayFail \in BOOLEAN
  /\ Faults \in BOOLEAN

VARIABLES
  args,     (* the arguments of eval_cache_size                            *)
  cross,    (* cross[i]: largest size as fast as target i                  *)
  pc,       (* "eval", "warm", "enter", "loop", "publish", "return", or    *)
            (* "exit" when the process gave up                             *)
  ws,       (* size of the mapped workspace in KiB, 0 when there is none   *)
  pending,  (* calls of binary_search still to be made, innermost first    *)
  call,     (* arguments of the running call                               *)
  lb, ub,   (* the locals of the running call                              *)
  pivot, loop,
  css,      (* the output array, -1 where nothing has been written         *)
  ret,      (* the last return code, a uint32_t                            *)
  failed,   (* history: some measurement failed                            *)
  cut,      (* history: some search used up its depth                      *)
  touched   (* history: KiB of the workspace scanned so far                *)

search == <<call, lb, ub, pivot, loop>>
vars == <<args, cross, pc, ws, pending, search, css, ret, failed, cut, touched>>

-----------------------------------------------------------------------------
(* Definitions named Variant_... are faulty forms of the definition they   *)
(* stand before.  No specification uses them: put in its place, each shows *)
(* that a property of a run tells the two apart.                           *)

(* uint32_t results, and the larger of two sizes.                          *)
Variant_U32_unbounded(x) == x
U32(x) == x % Modulus
Larger(x, y) == IF x >= y THEN x ELSE y

(* RETURN_ON_ERROR(ret, ...) tests (err)<0; in binary_search ret is a      *)
(* uint32_t.  EINVAL, the code of a buffer that is too small, is positive. *)
ReturnsOnError(r) == r < 0
EINVAL == 22
FAILURE == U32(-1)

(* A call of binary_search for the n samples from slot `first' on.         *)
Call(seed, first, n, depth, LB, UB) ==
  [seed |-> seed, first |-> first, n |-> n, depth |-> depth,
   LB |-> LB, UB |-> UB]

CallType ==
  [seed: Sizes, first: Nat, n: Nat, depth: Int, LB: Sizes, UB: Sizes]

(* The slot of the running call's middle sample.                           *)
Middle == call.first + (call.n \div 2)

(* The possible values of v >= target_thp for a scan of p KiB.             *)
FastEnough(i, p) ==
  CASE p + Noise <= cross[i] -> {TRUE}
    [] p > cross[i] + Noise  -> {FALSE}
    [] OTHER                 -> BOOLEAN

Crossings(n) ==
  {c \in [0 .. n - 1 -> 0 .. MaxCross] :
     \A i, j \in 0 .. n - 1 : i <= j => c[i] <= c[j]}

Init ==
  /\ args \in Arguments
  /\ cross \in Crossings(args.n)
  /\ pc = "eval"
  /\ ws = 0
  /\ pending = <<>>
  /\ call = Call(0, 0, 0, 0, 0, 0)
  /\ lb = 0 /\ ub = 0 /\ pivot = 0 /\ loop = 0
  /\ css = [i \in 0 .. args.n - 1 |-> -1]
  /\ ret = 0
  /\ failed = FALSE
  /\ cut = FALSE
  /\ touched = 0

-----------------------------------------------------------------------------
(* eval_cache_size up to the search: map a workspace of MEM_ALLOCATION or  *)
(* take the caller's buffer.  A buffer that is too small sets ret to       *)
(* EINVAL, which RETURN_ON_ERROR lets through.                             *)
Eval ==
  /\ pc = "eval"
  /\ ws' = IF args.buf = 0 THEN MemAllocation ELSE args.buf
  /\ ret' = IF args.buf # 0 /\ args.buf < MemAllocation THEN EINVAL ELSE ret
  /\ ~ReturnsOnError(ret')
  /\ pc' = "warm"
  /\ UNCHANGED <<args, cross, pending, search, css, failed, cut, touched>>

(* Without a workspace the process ends: exit(1).                          *)
EvalExits ==
  /\ pc = "eval"
  /\ args.buf = 0 /\ MmapMayFail
  /\ pc' = "exit"
  /\ UNCHANGED <<args, cross, ws, pending, search, css, ret, failed, cut, touched>>

(* The optional warm-up scans MEM_ALLOCATION bytes, whatever the size of   *)
(* the buffer; then the outermost binary_search is called.                 *)
Variant_WarmUp_hint_is_limit ==
  /\ pc = "warm"
  /\ touched' = IF args.warm THEN MemAllocation ELSE 0
  /\ pending' = <<Call(args.hint, 0, args.n, args.depth, 0, args.hint)>>
  /\ pc' = "enter"
  /\ UNCHANGED <<args, cross, ws, search, css, ret, failed, cut>>

WarmUp ==
  /\ pc = "warm"
  /\ touched' = IF args.warm THEN MemAllocation ELSE 0
  /\ pending' = <<Call(args.hint, 0, args.n, args.depth, 0, 0)>>
  /\ pc' = "enter"
  /\ UNCHANGED <<args, cross, ws, search, css, ret, failed, cut>>

(* binary_search with num_samples == 0 returns 0 at once.                  *)
EnterEmpty ==
  /\ pc = "enter"
  /\ pending # <<>>
  /\ Head(pending).n = 0
  /\ pending' = Tail(pending)
  /\ ret' = 0
  /\ UNCHANGED <<args, cross, pc, ws, search, css, failed, cut, touched>>

(* Otherwise the locals are set up.  The caller tested ret before it made  *)
(* a second recursive call, and ret is unsigned.                           *)
EnterSearch ==
  /\ pc = "enter"
  /\ pending # <<>>
  /\ Head(pending).n # 0
  /\ ~ReturnsOnError(ret)
  /\ call' = Head(pending)
  /\ pending' = Tail(pending)
  /\ lb' = call'.LB
  /\ ub' = call'.UB
  /\ pivot' = call'.seed
  /\ loop' = call'.depth
  /\ ret' = 0
  /\ pc' = "loop"
  /\ UNCHANGED <<args, cross, ws, css, failed, cut, touched>>

(* The next pivot after a scan of `pivot' KiB that was fast enough or not. *)
Variant_NewPivot_ignores_ub(fast) ==
  IF fast THEN U32(2 * pivot) ELSE U32(pivot + lb) \div 2
Variant_NewPivot_ignores_lb(fast) ==
  IF fast
  THEN IF ub = 0 THEN U32(2 * pivot) ELSE U32(ub + pivot) \div 2
  ELSE pivot \div 2
Variant_NewPivot_quadruples(fast) ==
  IF fast
  THEN IF ub = 0 THEN U32(4 * pivot) ELSE U32(ub + pivot) \div 2
  ELSE U32(pivot + lb) \div 2

NewPivot(fast) ==
  IF fast
  THEN IF ub = 0 THEN U32(2 * pivot) ELSE U32(ub + pivot) \div 2
  ELSE U32(pivot + lb) \div 2

(* The condition of while(loop--) inside if(pivot != 0).  A negative       *)
(* search_depth never reaches zero, so its countdown is left out.          *)
LoopGoesOn == pivot # 0 /\ loop # 0

(* The loop is left when the next pivot is 0 or the same.                  *)
Variant_Settled_at_zero_only(next) == next = 0
Settled(next) == next \in {0, pivot}

(* One iteration: measure, compare, move the bounds, pick the next pivot.  *)
(* A measurement that failed leaves thps unwritten, so its average may     *)
(* compare either way, and its code, a uint32_t, is not below zero.        *)
Probe ==
  /\ pc = "loop"
  /\ LoopGoesOn
  /\ loop' = IF loop > 0 THEN loop - 1 ELSE loop
  /\ touched' = Larger(touched, pivot)
  /\ \E fails \in {Faults, FALSE} :
       /\ ret' = IF fails THEN FAILURE ELSE 0
       /\ ~ReturnsOnError(ret')
       /\ failed' = (failed \/ fails)
       /\ \E fast \in IF fails THEN BOOLEAN ELSE FastEnough(Middle, pivot) :
            /\ lb' = IF fast THEN pivot ELSE lb
            /\ ub' = IF fast THEN ub ELSE pivot
            /\ IF Settled(NewPivot(fast))
               THEN pc' = "publish" /\ pivot' = pivot
               ELSE pc' = "loop" /\ pivot' = NewPivot(fast)
  /\ UNCHANGED <<args, cross, ws, pending, call, css, cut>>

(* The two recursive calls made after the middle sample is settled.        *)
SmallerHalf ==
  Call(U32(lb + pivot) \div 2, call.first, call.n \div 2, call.depth - 1,
       call.LB, pivot)

Variant_LargerHalf_from_middle ==
  Call(IF call.UB # 0 THEN U32(pivot + call.UB) \div 2 ELSE U32(2 * pivot),
       Middle, call.n - (call.n \div 2) - 1, call.depth - 1, pivot, ub)
Variant_LargerHalf_whole_interval ==
  Call(U32(lb + pivot) \div 2, Middle + 1, call.n - (call.n \div 2) - 1,
       call.depth - 1, call.LB, ub)

LargerHalf ==
  Call(IF call.UB # 0 THEN U32(pivot + call.UB) \div 2 ELSE U32(2 * pivot),
       Middle + 1, call.n - (call.n \div 2) - 1, call.depth - 1,
       pivot, ub)

Variant_Publish_one_half ==
  /\ \/ pc = "publish"
     \/ pc = "loop" /\ ~LoopGoesOn
  /\ css' = [css EXCEPT ![Middle] = pivot]
  /\ pending' = <<SmallerHalf>> \o pending
  /\ cut' = (cut \/ (pc = "loop" /\ pivot # 0))
  /\ pc' = "enter"
  /\ UNCHANGED <<args, cross, ws, search, ret, failed, touched>>

(* After the loop: store the pivot, then recurse into both halves.         *)
Publish ==
  /\ \/ pc = "publish"
     \/ pc = "loop" /\ ~LoopGoesOn
  /\ css' = [css EXCEPT ![Middle] = pivot]
  /\ pending' = <<SmallerHalf, LargerHalf>> \o pending
  /\ cut' = (cut \/ (pc = "loop" /\ pivot # 0))
  /\ pc' = "enter"
  /\ UNCHANGED <<args, cross, ws, search, ret, failed, touched>>

(* The outermost call has returned: unmap the workspace unless it is the   *)
(* caller's, and return ret.                                               *)
Return ==
  /\ pc = "enter"
  /\ pending = <<>>
  /\ ~ReturnsOnError(ret)
  /\ ws' = IF args.buf = 0 THEN 0 ELSE ws
  /\ pc' = "return"
  /\ UNCHANGED <<args, cross, pending, search, css, ret, failed, cut, touched>>

Next ==
  \/ Eval \/ EvalExits \/ WarmUp
  \/ EnterEmpty \/ EnterSearch \/ Probe \/ Publish \/ Return

Spec == Init /\ [][Next]_vars
(* The thread keeps running, and no measurement has to fail.               *)
FairSpec == Spec /\ WF_vars(Next /\ UNCHANGED failed)
-----------------------------------------------------------------------------
(* Every variable keeps its C++ type: in particular the bounds, the pivot, *)
(* the seeds of all calls and the stored sizes stay uint32_t values.       *)
TypeOK ==
  /\ args \in Arguments
  /\ cross \in Crossings(args.n)
  /\ pc \in {"eval", "warm", "enter", "loop", "publish", "return", "exit"}
  /\ ws \in Nat
  /\ pending \in Seq(CallType)
  /\ call \in CallType
  /\ lb \in Sizes /\ ub \in Sizes /\ pivot \in Sizes /\ loop \in Int
  /\ css \in [0 .. args.n - 1 -> Sizes \cup {-1}]
  /\ ret \in Sizes \cup {EINVAL}
  /\ failed \in BOOLEAN
  /\ cut \in BOOLEAN
  /\ touched \in Nat

(* The sizes that can arise leave the additions of binary_search without   *)
(* overflow: every nested right half may double the pivot once more.       *)
FitsWord ==
  (args.n + 1) * Larger(args.hint, 2 * (MaxCross + Noise)) < Modulus

(* The middle sample is searched first, with the whole range open.  Until  *)
(* its slot is written no other search is made.                            *)
Focus == args.n \div 2
Undecided == args.n # 0 /\ css[Focus] = -1
Searching == pc \in {"loop", "publish"}

(* During that search, with no failed measurement, the interval encloses   *)
(* the size looked for: what is below lb is known to be fast enough, what  *)
(* is from ub on is not, and the pivot, the answer if the depth runs out,  *)
(* is between them.                                                        *)
Bracket ==
  Undecided /\ Searching /\ ~failed /\ FitsWord =>
    /\ lb # 0 => lb <= cross[Focus] + Noise
    /\ ub # 0 => ub + Noise > cross[Focus]
    /\ lb <= pivot
    /\ ub # 0 => pivot <= ub

(* Unless it was cut short by its depth it has found the size, up to the   *)
(* noise; 1 KiB is the smallest answer there is.                           *)
Accurate ==
  args.n # 0 /\ ~Undecided /\ ~cut /\ ~failed /\ FitsWord /\ args.hint # 0 =>
    /\ css[Focus] + Noise >= cross[Focus]
    /\ css[Focus] <= cross[Focus] + Noise \/ css[Focus] = 1

(* The scans, of which none is checked against the size of the workspace,  *)
(* reach no further than the warm-up, the hint and twice the largest size  *)
(* that is fast enough for some target, with three samples or four twice   *)
(* as far: the larger half may begin with the doubled pivot.               *)
ReachFor(i) == Larger(args.hint, 2 * (cross[i] + Noise))
ReachBounded ==
  args.n \in 1 .. 4 /\ ~failed /\ FitsWord =>
    \/ touched <= MemAllocation /\ args.warm
    \/ touched <= (IF args.n >= 3 THEN 2 ELSE 1) * ReachFor(args.n - 1)

(* Once the interval of the first search has an upper end, every further   *)
(* scan halves it.                                                         *)
Halves ==
  [][Undecided /\ FitsWord /\ Probe /\ ub # 0 /\ ~failed' =>
       2 * (ub' - lb') <= ub - lb + 1]_vars

(* An output slot is written at most once, and all of them are written     *)
(* when eval_cache_size returns, whatever the depth and the measurements.  *)
SlotsKept ==
  [][\A i \in DOMAIN css : css[i] # -1 => css'[i] = css[i]]_vars
AllWritten ==
  pc = "return" => \A i \in DOMAIN css : css[i] # -1

(* Why: every slot that is still unwritten is the business of exactly one  *)
(* call, the running one or one on the stack, and no call owns a slot that *)
(* was written.                                                            *)
Slots(c) == c.first .. c.first + c.n - 1
Unwritten == {i \in DOMAIN css : css[i] = -1}

SlotsOwned ==
  /\ Searching => call.n # 0 /\ Slots(call) \subseteq Unwritten
  /\ \A k \in DOMAIN pending : Slots(pending[k]) \subseteq Unwritten
  /\ \A k, l \in DOMAIN pending :
       k # l => Slots(pending[k]) \cap Slots(pending[l]) = {}
  /\ Searching =>
       \A k \in DOMAIN pending : Slots(call) \cap Slots(pending[k]) = {}
  /\ pc \in {"eval", "warm"} => pending = <<>> /\ Unwritten = DOMAIN css
  /\ pc \in {"enter", "loop", "publish"} =>
       \A i \in Unwritten :
         \/ Searching /\ i \in Slots(call)
         \/ \E k \in DOMAIN pending : i \in Slots(pending[k])
  /\ pc = "return" => Unwritten = {}

(* A lower target never gets a smaller size than a higher one, whatever    *)
(* the measurements and the depth, for up to four samples.  With five the  *)
(* larger half is divided again, and its search may not have come back to  *)
(* its interval yet: its seed is computed from the upper bound its caller  *)
(* began with, its own upper bound is the one its caller ended with.       *)
Sorted ==
  pc = "return" /\ ~failed /\ FitsWord /\ args.n <= 4 =>
    \A i, j \in DOMAIN css : i <= j => css[i] <= css[j]

(* What cache_size.hpp promises of every sample, "the i-th point shows      *)
(* where estimation of cache size will be to get this throughput", when    *)
(* the default depth of 12 leaves every search room to converge.           *)
EverySampleAccurate ==
  pc = "return" /\ ~failed /\ FitsWord /\ args.hint # 0 /\ args.depth >= 12
    /\ cross[0] # 0 =>
      \A i \in DOMAIN css :
        cross[i] - Noise <= css[i] /\ css[i] <= cross[i] + Noise

(* eval_cache_size comes to an end unless a measurement fails: a negative  *)
(* depth, which the loop never counts down to 0, ends by convergence.      *)
Terminates == <>(pc \in {"return", "exit"} \/ failed)
=============================================================================
