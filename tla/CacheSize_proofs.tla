--------------------------- MODULE CacheSize_proofs ---------------------------
(***************************************************************************)
(* Theorems about CacheSize, for every value of its constants.             *)
(***************************************************************************)
EXTENDS CacheSize, TLAPS

(* uint32_t arithmetic stays in range, and halving does not leave it.      *)
LEMMA U32Range ==
  /\ \A x \in Int : U32(x) \in Sizes
  /\ \A x \in Sizes : x \div 2 \in Sizes
BY ModulusAssumption DEF U32, Sizes

(* n samples split into the middle one and two halves.                     *)
LEMMA Split ==
  ASSUME NEW n \in Nat, n # 0
  PROVE  /\ n \div 2 \in Nat
         /\ n \div 2 < n
         /\ n - (n \div 2) - 1 \in Nat
OBVIOUS

(* The two calls that binary_search makes are well typed; there are        *)
(* samples left to share out whenever they are computed.                   *)
LEMMA HalvesTyped ==
  ASSUME call \in CallType, lb \in Sizes, ub \in Sizes, pivot \in Sizes,
         call.n # 0
  PROVE  SmallerHalf \in CallType /\ LargerHalf \in CallType
<1>1. /\ call.first \in Nat /\ call.n \in Nat /\ call.depth - 1 \in Int
      /\ call.LB \in Sizes /\ call.UB \in Sizes
  BY DEF CallType
<1>2. lb \in Int /\ pivot \in Int /\ call.UB \in Int
  BY <1>1, ModulusAssumption DEF Sizes
<1>3. \A x \in Int : U32(x) \in Sizes /\ U32(x) \div 2 \in Sizes
  BY U32Range
<1>4. lb + pivot \in Int /\ pivot + call.UB \in Int /\ 2 * pivot \in Int
  BY <1>2
<1>5. /\ call.n \div 2 \in Nat
      /\ call.n - (call.n \div 2) - 1 \in Nat
      /\ Middle + 1 \in Nat
  BY <1>1, Split DEF Middle
<1>6. SmallerHalf \in CallType
  BY <1>1, <1>3, <1>4, <1>5 DEF SmallerHalf, Call, CallType
<1>7. LargerHalf \in CallType
  BY <1>1, <1>3, <1>4, <1>5 DEF LargerHalf, Call, CallType
<1> QED
  BY <1>6, <1>7

-----------------------------------------------------------------------------
(* The state variables keep the types of their C++ counterparts: bounds,   *)
(* pivots, the seeds of the nested calls and the stored sizes are always   *)
(* uint32_t values.                                                        *)
TypeInv == TypeOK /\ (Searching => call.n # 0)

LEMMA TypeInvInductive == Spec => []TypeInv
<1>1. Init => TypeInv
  <2> SUFFICES ASSUME Init PROVE TypeInv
    OBVIOUS
  <2>1. args.n \in Nat
    BY ArgumentsAssumption DEF Init, ArgumentType
  <2>2. 0 \in Sizes
    BY ModulusAssumption DEF Sizes
  <2>3. call \in CallType
    BY <2>2 DEF Init, Call, CallType
  <2>4. css \in [0 .. args.n - 1 -> Sizes \cup {-1}]
    BY DEF Init
  <2> QED
    <3>1. pending \in Seq(CallType)
      BY DEF Init
    <3>2. failed \in BOOLEAN /\ cut \in BOOLEAN
      BY DEF Init
    <3> QED
      BY <2>2, <2>3, <2>4, <3>1, <3>2 DEF Init, TypeInv, TypeOK, Searching
<1>2. TypeInv /\ [Next]_vars => TypeInv'
  <2> SUFFICES ASSUME TypeInv, [Next]_vars PROVE TypeInv'
    OBVIOUS
  <2> USE DEF TypeInv, TypeOK, Searching
  <2>0. /\ args \in ArgumentType
        /\ 0 \in Sizes
        /\ 22 \in Int /\ EINVAL = 22
    BY ArgumentsAssumption, ModulusAssumption DEF Sizes, EINVAL
  <2>1. CASE Eval
    BY <2>1, <2>0, BoundsAssumption DEF Eval, search, ArgumentType
  <2>9. CASE EvalExits
    BY <2>9 DEF EvalExits, search
  <2>2. CASE WarmUp
    <3>1. Call(args.hint, 0, args.n, args.depth, 0, 0) \in CallType
      BY <2>0 DEF Call, CallType, ArgumentType
    <3> QED
      BY <2>2, <3>1, BoundsAssumption DEF WarmUp, search
  <2>3. CASE EnterEmpty
    BY <2>3, <2>0 DEF EnterEmpty, search
  <2>4. CASE EnterSearch
    <3>1. Head(pending) \in CallType /\ Tail(pending) \in Seq(CallType)
      BY <2>4 DEF EnterSearch
    <3> QED
      BY <2>4, <3>1, <2>0 DEF EnterSearch, CallType
  <2>5. CASE Probe
    <3>1. \A fast \in BOOLEAN : NewPivot(fast) \in Sizes
      <4>1. lb \in Int /\ ub \in Int /\ pivot \in Int
        BY ModulusAssumption DEF Sizes
      <4>2. \A x \in Int : U32(x) \in Sizes /\ U32(x) \div 2 \in Sizes
        BY U32Range
      <4>3. 2 * pivot \in Int /\ ub + pivot \in Int /\ pivot + lb \in Int
        BY <4>1
      <4> QED
        BY <4>2, <4>3 DEF NewPivot
    <3>2. pivot' \in Sizes /\ pc' \in {"loop", "publish"}
      BY <2>5, <3>1 DEF Probe, Settled, FastEnough
    <3>3. lb' \in Sizes /\ ub' \in Sizes
      BY <2>5 DEF Probe, Settled
    <3>4. ret' \in Sizes \cup {EINVAL}
      BY <2>5, U32Range, <2>0, BoundsAssumption DEF Probe, Settled, FAILURE
    <3>6. failed' \in BOOLEAN
      BY <2>5, BoundsAssumption DEF Probe, Settled
    <3>5. loop' \in Int /\ touched' \in Nat
      BY <2>5 DEF Probe, Settled, Larger, Sizes
    <3> QED
      <4>1. UNCHANGED <<args, cross, ws, pending, call, css>> /\ call.n # 0
        BY <2>5 DEF Probe, Settled
      <4>2. cut' \in BOOLEAN
        BY <2>5 DEF Probe
      <4> QED
        BY <4>1, <4>2, <3>2, <3>3, <3>4, <3>5, <3>6
  <2>6. CASE Publish
    <3>1. css' \in [0 .. args.n - 1 -> Sizes \cup {-1}]
      BY <2>6 DEF Publish
    <3>2. SmallerHalf \in CallType /\ LargerHalf \in CallType
      BY <2>6, HalvesTyped DEF Publish
    <3>3. pending' \in Seq(CallType)
      BY <2>6, <3>2 DEF Publish
    <3> QED
      BY <2>6, <3>1, <3>3 DEF Publish, search
  <2>7. CASE Return
    BY <2>7 DEF Return, search
  <2>8. CASE UNCHANGED vars
    BY <2>8 DEF vars, search
  <2> QED
    BY <2>1, <2>2, <2>3, <2>4, <2>5, <2>6, <2>7, <2>8, <2>9 DEF Next
<1> QED
  BY <1>1, <1>2, PTL DEF Spec

THEOREM TypeCorrect == Spec => []TypeOK
BY TypeInvInductive, PTL DEF TypeInv

-----------------------------------------------------------------------------
(* Taking a call off the stack, and putting two on it.                     *)
LEMMA TailElements ==
  ASSUME NEW S, NEW s \in Seq(S), s # <<>>
  PROVE  /\ Head(s) = s[1] /\ 1 \in DOMAIN s
         /\ DOMAIN Tail(s) = 1 .. Len(s) - 1
         /\ \A k \in DOMAIN Tail(s) :
              Tail(s)[k] = s[k + 1] /\ k + 1 \in DOMAIN s /\ k + 1 # 1
         /\ \A k \in DOMAIN s : k # 1 => k - 1 \in DOMAIN Tail(s)
OBVIOUS

LEMMA PushElements ==
  ASSUME NEW S, NEW s \in Seq(S), NEW a \in S, NEW b \in S
  PROVE  LET p == <<a, b>> \o s
         IN  /\ DOMAIN p = 1 .. Len(s) + 2
             /\ p[1] = a /\ p[2] = b
             /\ \A k \in DOMAIN p : k \notin {1, 2} =>
                  k - 2 \in DOMAIN s /\ p[k] = s[k - 2]
             /\ \A k \in DOMAIN s : k + 2 \in DOMAIN p /\ p[k + 2] = s[k]
OBVIOUS

(* The slots of a call are those of its two halves and the middle one.     *)
LEMMA SlotsSplit ==
  ASSUME call \in CallType, call.n # 0
  PROVE  /\ Slots(SmallerHalf) \subseteq Slots(call)
         /\ Slots(LargerHalf) \subseteq Slots(call)
         /\ Middle \in Slots(call)
         /\ Middle \notin Slots(SmallerHalf)
         /\ Middle \notin Slots(LargerHalf)
         /\ Slots(SmallerHalf) \cap Slots(LargerHalf) = {}
         /\ \A i \in Slots(call) :
              i = Middle \/ i \in Slots(SmallerHalf) \/ i \in Slots(LargerHalf)
<1>1. call.first \in Nat /\ call.n \in Nat
  BY DEF CallType
<1>2. call.n \div 2 \in Nat /\ call.n \div 2 < call.n
  BY <1>1, Split
<1>3. /\ Slots(SmallerHalf) = call.first .. Middle - 1
      /\ Slots(LargerHalf) = Middle + 1 .. call.first + call.n - 1
      /\ Slots(call) = call.first .. call.first + call.n - 1
      /\ Middle \in Int
      /\ call.first <= Middle /\ Middle <= call.first + call.n - 1
  <2>1. Middle = call.first + (call.n \div 2)
    BY DEF Middle
  <2>2. /\ SmallerHalf.first = call.first
        /\ SmallerHalf.n = call.n \div 2
        /\ LargerHalf.first = Middle + 1
        /\ LargerHalf.n = call.n - (call.n \div 2) - 1
    BY DEF SmallerHalf, LargerHalf, Call
  <2>3. Slots(SmallerHalf) = call.first .. Middle - 1
    <3>1. call.first + (call.n \div 2) - 1 = Middle - 1
      BY <1>1, <1>2, <2>1
    <3> QED
      BY <3>1, <2>2 DEF Slots
  <2>4. Slots(LargerHalf) = Middle + 1 .. call.first + call.n - 1
    <3>1. Middle + 1 + (call.n - (call.n \div 2) - 1) - 1
            = call.first + call.n - 1
      BY <1>1, <1>2, <2>1
    <3> QED
      BY <3>1, <2>2 DEF Slots
  <2>5. Slots(call) = call.first .. call.first + call.n - 1
    BY DEF Slots
  <2>6. Middle \in Int /\ call.first <= Middle /\ Middle <= call.first + call.n - 1
    BY <1>1, <1>2, <2>1
  <2> QED
    BY <2>3, <2>4, <2>5, <2>6
<1> QED
  BY <1>1, <1>3

-----------------------------------------------------------------------------
(* At every moment each slot that has not been written belongs to exactly  *)
(* one call of binary_search, and no call owns a written slot.             *)
SlotsInv == TypeInv /\ SlotsOwned

LEMMA SlotsInit == Init => SlotsOwned
<1> SUFFICES ASSUME Init PROVE SlotsOwned
  OBVIOUS
<1>1. pending = <<>> /\ pc = "eval" /\ DOMAIN pending = {}
  BY DEF Init
<1>2. Unwritten = DOMAIN css
  BY DEF Init, Unwritten
<1> QED
  BY <1>1, <1>2 DEF SlotsOwned, Searching

LEMMA SlotsStep == SlotsInv /\ TypeInv' /\ [Next]_vars => SlotsOwned'
<1> SUFFICES ASSUME SlotsInv, TypeInv', [Next]_vars PROVE SlotsOwned'
  OBVIOUS
<1> USE DEF SlotsInv
<1>1. CASE Eval
  <2>1. Unwritten' = Unwritten /\ css' = css
    BY <1>1 DEF Eval, Unwritten
  <2> QED
    BY <1>1, <2>1 DEF Eval, SlotsOwned, Searching
<1>9. CASE EvalExits
  <2>1. Unwritten' = Unwritten /\ css' = css
    BY <1>9 DEF EvalExits, Unwritten
  <2> QED
    BY <1>9, <2>1 DEF EvalExits, SlotsOwned, Searching, search
<1>2. CASE WarmUp
  <2> DEFINE c == Call(args.hint, 0, args.n, args.depth, 0, 0)
  <2>1. /\ pending' = <<c>> /\ DOMAIN pending' = {1} /\ pending'[1] = c
        /\ pc' = "enter"
    BY <1>2 DEF WarmUp
  <2>2. args.n \in Nat /\ DOMAIN css = 0 .. args.n - 1
    BY ArgumentsAssumption DEF TypeInv, TypeOK, ArgumentType
  <2>3. Slots(c) = DOMAIN css
    BY <2>2 DEF Slots, Call
  <2>4. Unwritten' = DOMAIN css
    BY <1>2 DEF WarmUp, Unwritten, SlotsOwned
  <2> QED
    BY <2>1, <2>3, <2>4 DEF SlotsOwned, Searching
<1>3. CASE EnterEmpty
  <2>1. /\ pending \in Seq(CallType) /\ pending # <<>> /\ Head(pending).n = 0
        /\ pending' = Tail(pending) /\ pc = "enter" /\ pc' = "enter"
        /\ Unwritten' = Unwritten
    BY <1>3 DEF EnterEmpty, TypeInv, TypeOK, Unwritten
  <2>2. Slots(Head(pending)) = {}
    <3>1. Head(pending) \in CallType
      BY <2>1
    <3>2. Head(pending).first \in Nat
      BY <3>1 DEF CallType
    <3> QED
      BY <2>1, <3>2 DEF Slots
  <2>3. /\ Slots(pending[1]) = {} /\ 1 \in DOMAIN pending
        /\ \A k \in DOMAIN pending' :
             pending'[k] = pending[k + 1] /\ k + 1 \in DOMAIN pending
        /\ \A k \in DOMAIN pending : k # 1 => k - 1 \in DOMAIN pending'
        /\ DOMAIN pending \subseteq Int /\ DOMAIN pending' \subseteq Int
    BY <2>1, <2>2, TailElements
  <2>4. \A k \in DOMAIN pending' : Slots(pending'[k]) \subseteq Unwritten'
    BY <2>1, <2>3 DEF SlotsOwned
  <2>5. ASSUME NEW k \in DOMAIN pending', NEW l \in DOMAIN pending', k # l
        PROVE  Slots(pending'[k]) \cap Slots(pending'[l]) = {}
    <3>1. k + 1 # l + 1
      BY <2>3, <2>5
    <3> QED
      BY <3>1, <2>3 DEF SlotsOwned
  <2>6. ASSUME NEW i \in Unwritten'
        PROVE  \E k \in DOMAIN pending' : i \in Slots(pending'[k])
    <3>1. PICK k \in DOMAIN pending : i \in Slots(pending[k])
      BY <2>1 DEF SlotsOwned, Searching
    <3>2. k # 1 /\ k - 1 \in DOMAIN pending' /\ (k - 1) + 1 = k
      BY <3>1, <2>3
    <3> QED
      BY <3>1, <3>2, <2>3
  <2> QED
    BY <2>1, <2>4, <2>5, <2>6 DEF SlotsOwned, Searching
<1>4. CASE EnterSearch
  <2>1. /\ pending \in Seq(CallType) /\ pending # <<>> /\ call' = Head(pending)
        /\ pending' = Tail(pending) /\ pc = "enter" /\ pc' = "loop"
        /\ Unwritten' = Unwritten
    BY <1>4 DEF EnterSearch, TypeInv, TypeOK, Unwritten
  <2>2. call'.n # 0
    BY <1>4 DEF EnterSearch
  <2>3. /\ call' = pending[1] /\ 1 \in DOMAIN pending
        /\ \A k \in DOMAIN pending' :
             /\ pending'[k] = pending[k + 1]
             /\ k + 1 \in DOMAIN pending /\ k + 1 # 1
        /\ \A k \in DOMAIN pending : k # 1 => k - 1 \in DOMAIN pending'
        /\ DOMAIN pending \subseteq Int /\ DOMAIN pending' \subseteq Int
    BY <2>1, TailElements
  <2>4. \A k \in DOMAIN pending' : Slots(pending'[k]) \subseteq Unwritten'
    BY <2>1, <2>3 DEF SlotsOwned
  <2>5. ASSUME NEW k \in DOMAIN pending', NEW l \in DOMAIN pending', k # l
        PROVE  Slots(pending'[k]) \cap Slots(pending'[l]) = {}
    <3>1. k + 1 # l + 1
      BY <2>3, <2>5
    <3> QED
      BY <3>1, <2>3 DEF SlotsOwned
  <2>6. /\ Slots(call') \subseteq Unwritten'
        /\ \A k \in DOMAIN pending' : Slots(call') \cap Slots(pending'[k]) = {}
    BY <2>1, <2>3 DEF SlotsOwned
  <2>7. ASSUME NEW i \in Unwritten', i \notin Slots(call')
        PROVE  \E k \in DOMAIN pending' : i \in Slots(pending'[k])
    <3>1. PICK k \in DOMAIN pending : i \in Slots(pending[k])
      BY <2>1 DEF SlotsOwned, Searching
    <3>2. k # 1 /\ k - 1 \in DOMAIN pending' /\ (k - 1) + 1 = k
      BY <3>1, <2>3, <2>7
    <3> QED
      BY <3>1, <3>2, <2>3
  <2> QED
    BY <2>1, <2>2, <2>4, <2>5, <2>6, <2>7 DEF SlotsOwned, Searching
<1>5. CASE Probe
  <2>1. /\ UNCHANGED <<call, pending, css>> /\ pc = "loop"
        /\ pc' \in {"loop", "publish"}
    BY <1>5 DEF Probe, Settled
  <2>2. Unwritten' = Unwritten
    BY <2>1 DEF Unwritten
  <2> QED
    BY <2>1, <2>2 DEF SlotsOwned, Searching
<1>7. CASE Return
  <2>1. pending = <<>> /\ DOMAIN pending = {} /\ pc = "enter" /\ pc' = "return"
        /\ UNCHANGED <<call, pending>> /\ Unwritten' = Unwritten
    BY <1>7 DEF Return, search, Unwritten
  <2>2. Unwritten = {}
    BY <2>1 DEF SlotsOwned, Searching
  <2> QED
    BY <2>1, <2>2 DEF SlotsOwned, Searching
<1>6. CASE Publish
  <2> DEFINE a == SmallerHalf
             b == LargerHalf
  <2>1. /\ Searching /\ call.n # 0 /\ pc' = "enter"
        /\ pending \in Seq(CallType) /\ call \in CallType
        /\ pending' = <<a, b>> \o pending
    BY <1>6 DEF Publish, Searching, TypeInv, TypeOK
  <2>2. a \in CallType /\ b \in CallType
    BY <2>1, HalvesTyped DEF TypeInv, TypeOK
  <2>3. Unwritten' = Unwritten \ {Middle}
    <3>1. css' = [css EXCEPT ![Middle] = pivot] /\ pivot # -1
      BY <1>6, ModulusAssumption DEF Publish, TypeInv, TypeOK, Sizes
    <3>2. DOMAIN css' = DOMAIN css
      BY <3>1
    <3>3. \A i \in DOMAIN css : css'[i] = IF i = Middle THEN pivot ELSE css[i]
      BY <3>1 DEF TypeInv, TypeOK
    <3> QED
      BY <3>1, <3>2, <3>3 DEF Unwritten
  <2> DEFINE p == <<a, b>> \o pending
  <2>4. /\ p[1] = a /\ p[2] = b
        /\ DOMAIN p = 1 .. Len(pending) + 2 /\ Len(pending) \in Nat
        /\ \A k \in DOMAIN p : k \notin {1, 2} =>
             k - 2 \in DOMAIN pending /\ p[k] = pending[k - 2]
        /\ \A k \in DOMAIN pending : k + 2 \in DOMAIN p /\ p[k + 2] = pending[k]
    BY <2>1, <2>2, PushElements
  <2>5. /\ Slots(a) \subseteq Slots(call) \ {Middle}
        /\ Slots(b) \subseteq Slots(call) \ {Middle}
        /\ Slots(a) \cap Slots(b) = {}
        /\ Slots(call) \subseteq Slots(a) \cup Slots(b) \cup {Middle}
        /\ Middle \in Slots(call)
    BY <2>1, SlotsSplit
  <2>6. \A k \in DOMAIN pending :
          /\ Slots(pending[k]) \subseteq Unwritten
          /\ Slots(call) \cap Slots(pending[k]) = {}
    BY <2>1 DEF SlotsOwned
  <2>7. Slots(call) \subseteq Unwritten
    BY <2>1 DEF SlotsOwned
  <2> HIDE DEF a, b, p
  <2>8. ASSUME NEW k \in DOMAIN p PROVE Slots(p[k]) \subseteq Unwritten'
    BY <2>3, <2>4, <2>5, <2>6, <2>7
  <2>9. ASSUME NEW k \in DOMAIN p, NEW l \in DOMAIN p, k # l
        PROVE  Slots(p[k]) \cap Slots(p[l]) = {}
    <3>1. CASE k \in {1, 2} /\ l \in {1, 2}
      BY <3>1, <2>4, <2>5, <2>9
    <3>2. CASE k \in {1, 2} /\ l \notin {1, 2}
      BY <3>2, <2>4, <2>5, <2>6
    <3>3. CASE k \notin {1, 2} /\ l \in {1, 2}
      BY <3>3, <2>4, <2>5, <2>6
    <3>4. CASE k \notin {1, 2} /\ l \notin {1, 2}
      <4>1. /\ k - 2 \in DOMAIN pending /\ p[k] = pending[k - 2]
            /\ l - 2 \in DOMAIN pending /\ p[l] = pending[l - 2]
            /\ k - 2 # l - 2
        BY <3>4, <2>4, <2>9
      <4> QED
        BY <4>1 DEF SlotsOwned
    <3> QED
      BY <3>1, <3>2, <3>3, <3>4
  <2>10. ASSUME NEW i \in Unwritten'
         PROVE  \E k \in DOMAIN p : i \in Slots(p[k])
    <3>1. i \in Unwritten /\ i # Middle
      BY <2>3
    <3>2. CASE i \in Slots(call)
      <4>1. 1 \in DOMAIN p /\ 2 \in DOMAIN p
        BY <2>4
      <4> QED
        BY <3>1, <3>2, <4>1, <2>4, <2>5
    <3>3. CASE i \notin Slots(call)
      <4>1. PICK k \in DOMAIN pending : i \in Slots(pending[k])
        BY <3>1, <3>3, <2>1 DEF SlotsOwned, Searching
      <4> QED
        BY <4>1, <2>4
    <3> QED
      BY <3>2, <3>3
  <2>11. pending' = p /\ ~Searching'
    BY <2>1 DEF p, Searching
  <2> QED
    BY <2>1, <2>8, <2>9, <2>10, <2>11 DEF SlotsOwned
<1>8. CASE UNCHANGED vars
  <2>1. UNCHANGED <<call, pending, css, pc>> /\ Unwritten' = Unwritten
    BY <1>8 DEF vars, search, Unwritten
  <2> QED
    BY <2>1 DEF SlotsOwned, Searching
<1> QED
  BY <1>1, <1>2, <1>3, <1>4, <1>5, <1>6, <1>7, <1>8, <1>9 DEF Next

THEOREM SlotsAlwaysOwned == Spec => []SlotsOwned
<1>1. SlotsInv /\ TypeInv' /\ [Next]_vars => SlotsInv'
  BY SlotsStep DEF SlotsInv
<1> QED
  BY <1>1, SlotsInit, TypeInvInductive, PTL DEF SlotsInv, Spec

(* When eval_cache_size returns it has written every entry of css.         *)
THEOREM EverySlotWritten == Spec => []AllWritten
<1>1. TypeInv /\ SlotsOwned => AllWritten
  BY DEF SlotsOwned, AllWritten, Unwritten
<1> QED
  BY <1>1, SlotsAlwaysOwned, TypeInvInductive, PTL

(* A slot that was written is never written again.                         *)
THEOREM SlotsNeverRewritten == Spec => SlotsKept
<1>1. TypeInv /\ SlotsOwned /\ [Next]_vars =>
        [\A i \in DOMAIN css : css[i] # -1 => css'[i] = css[i]]_vars
  <2> SUFFICES ASSUME TypeInv, SlotsOwned, [Next]_vars,
                      NEW i \in DOMAIN css, css[i] # -1
               PROVE  css'[i] = css[i]
    OBVIOUS
  <2>1. CASE Publish
    <3>1. Middle \in Unwritten
      <4>1. Searching /\ call \in CallType /\ call.n # 0
        BY <2>1 DEF Publish, Searching, TypeInv, TypeOK
      <4> QED
        BY <4>1, SlotsSplit DEF SlotsOwned
    <3>2. i # Middle
      BY <3>1 DEF Unwritten
    <3> QED
      BY <2>1, <3>2 DEF Publish, TypeInv, TypeOK
  <2>2. CASE ~Publish
    BY <2>2 DEF Next, Eval, EvalExits, WarmUp, EnterEmpty, EnterSearch, Probe, Return, vars
  <2> QED
    BY <2>1, <2>2
<1> QED
  BY <1>1, SlotsAlwaysOwned, TypeInvInductive, PTL DEF Spec, SlotsKept

-----------------------------------------------------------------------------
(* The first search is the outermost call: no other call is made before    *)
(* the middle sample is settled.  While none of its measurements fails its *)
(* interval encloses the size it looks for.  `Reach' bounds what it scans. *)
Outermost == Call(args.hint, 0, args.n, args.depth, 0, 0)
Reach == ReachFor(Focus)

OneSearch ==
  Undecided =>
    /\ \A k \in DOMAIN pending : pending[k].n # 0 => pending[k] = Outermost
    /\ Searching => call = Outermost

Interval ==
  /\ lb # 0 => lb <= cross[Focus] + Noise
  /\ ub # 0 => ub + Noise > cross[Focus]
  /\ lb <= pivot
  /\ ub # 0 => pivot <= ub
  /\ pivot <= Reach /\ ub <= Reach

SearchInv == Undecided /\ Searching /\ ~failed /\ FitsWord => Interval

(* What a measurement tells about the size looked for.                     *)
LEMMA Verdict ==
  ASSUME NEW i, cross[i] \in Nat, NEW p \in Nat, NEW fast \in FastEnough(i, p)
  PROVE  /\ fast \in BOOLEAN
         /\ fast => p <= cross[i] + Noise
         /\ ~fast => p + Noise > cross[i]
<1>1. CASE p + Noise <= cross[i]
  <2>1. ~(p > cross[i] + Noise) /\ p <= cross[i] + Noise
    BY <1>1, BoundsAssumption
  <2>2. FastEnough(i, p) = {TRUE}
    BY <1>1, <2>1 DEF FastEnough
  <2>3. fast = TRUE
    BY <2>2
  <2> QED
    BY <2>1, <2>3
<1>2. CASE ~(p + Noise <= cross[i]) /\ p > cross[i] + Noise
  <2>1. p + Noise > cross[i]
    BY <1>2, BoundsAssumption
  <2>2. FastEnough(i, p) = {FALSE}
    BY <1>2 DEF FastEnough
  <2>3. fast = FALSE
    BY <2>2
  <2> QED
    BY <2>1, <2>3
<1>3. CASE ~(p + Noise <= cross[i]) /\ ~(p > cross[i] + Noise)
  <2>1. FastEnough(i, p) = BOOLEAN
    BY <1>3 DEF FastEnough
  <2> QED
    BY <2>1, <1>3, BoundsAssumption
<1> QED
  BY <1>1, <1>2, <1>3

LEMMA U32Small == \A x \in Sizes : U32(x) = x
BY ModulusAssumption DEF U32, Sizes

(* The arithmetic of one iteration, on naturals that fit the word.         *)
LEMMA NextPivotBracketed ==
  ASSUME lb \in Sizes, ub \in Sizes, pivot \in Sizes,
         NEW R \in Nat, 2 * R < Modulus,
         lb <= pivot, pivot <= R, ub <= R, ub # 0 => pivot <= ub
  PROVE  /\ ub # 0 => pivot <= NewPivot(TRUE) /\ NewPivot(TRUE) <= ub
         /\ ub = 0 => NewPivot(TRUE) = 2 * pivot
         /\ lb <= NewPivot(FALSE) /\ NewPivot(FALSE) <= pivot
<1>1. lb \in Nat /\ ub \in Nat /\ pivot \in Nat /\ Modulus \in Nat
  BY ModulusAssumption DEF Sizes
<1>2. 2 * pivot \in Sizes /\ ub + pivot \in Sizes /\ pivot + lb \in Sizes
  BY <1>1 DEF Sizes
<1>3. /\ U32(2 * pivot) = 2 * pivot
      /\ U32(ub + pivot) = ub + pivot
      /\ U32(pivot + lb) = pivot + lb
  BY <1>2, U32Small
<1> QED
  BY <1>1, <1>3 DEF NewPivot

(* The middle sample has a slot, the one its search writes.                *)
LEMMA FocusIsSlot ==
  ASSUME TypeInv, args.n # 0
  PROVE  /\ args.n \in Nat /\ DOMAIN css = 0 .. args.n - 1 /\ Focus \in DOMAIN css
         /\ call = Outermost => Middle = Focus
<1>1. args.n \in Nat /\ DOMAIN css = 0 .. args.n - 1
  BY ArgumentsAssumption DEF TypeInv, TypeOK, ArgumentType
<1>2. Focus \in 0 .. args.n - 1
  BY <1>1 DEF Focus
<1>3. ASSUME call = Outermost PROVE Middle = Focus
  <2>1. call.first = 0 /\ call.n = args.n
    BY <1>3 DEF Outermost, Call
  <2>2. 0 + (args.n \div 2) = args.n \div 2
    BY <1>1
  <2> QED
    BY <2>1, <2>2 DEF Middle, Focus
<1> QED
  BY <1>1, <1>2, <1>3

(* A sample that is settled stays so.                                      *)
LEMMA UndecidedBefore ==
  ASSUME TypeInv, [Next]_vars
  PROVE  /\ args' = args /\ cross' = cross /\ Outermost' = Outermost /\ Reach' = Reach
         /\ Undecided' => Undecided
<1>1. args' = args /\ cross' = cross
  BY DEF Next, Eval, EvalExits, WarmUp, EnterEmpty, EnterSearch, Probe, Publish, Return,
         vars
<1>2. ASSUME Undecided' PROVE Undecided
  <2>1. args.n # 0 /\ css'[Focus] = -1
    BY <1>1, <1>2 DEF Undecided, Focus
  <2>2. CASE Publish
    <3>1. css' = [css EXCEPT ![Middle] = pivot] /\ pivot # -1
      BY <2>2, ModulusAssumption DEF Publish, TypeInv, TypeOK, Sizes
    <3>2. css[Focus] = -1
      BY <2>1, <3>1, FocusIsSlot
    <3> QED
      BY <2>1, <3>2 DEF Undecided
  <2>3. CASE ~Publish
    <3>1. css' = css
      BY <2>3 DEF Next, Eval, EvalExits, WarmUp, EnterEmpty, EnterSearch, Probe, Return,
                  vars
    <3> QED
      BY <2>1, <3>1 DEF Undecided
  <2> QED
    BY <2>2, <2>3
<1> QED
  BY <1>1, <1>2 DEF Outermost, Reach, ReachFor, Focus

LEMMA OneSearchStep == TypeInv /\ OneSearch /\ [Next]_vars => OneSearch'
<1> SUFFICES ASSUME TypeInv, OneSearch, [Next]_vars, Undecided'
             PROVE  /\ \A k \in DOMAIN pending' :
                         pending'[k].n # 0 => pending'[k] = Outermost'
                    /\ Searching' => call' = Outermost'
  BY DEF OneSearch
<1>0. args' = args /\ Outermost' = Outermost /\ Undecided
  BY UndecidedBefore
<1>a. /\ \A k \in DOMAIN pending : pending[k].n # 0 => pending[k] = Outermost
      /\ Searching => call = Outermost
      /\ pending \in Seq(CallType)
  BY <1>0 DEF OneSearch, TypeInv, TypeOK
<1>1. CASE Eval \/ EvalExits \/ Probe \/ Return \/ UNCHANGED vars
  <2>1. UNCHANGED <<pending, call>> /\ (Searching' => Searching)
    BY <1>1 DEF Eval, EvalExits, Probe, Return, vars, search, Searching
  <2> QED
    BY <2>1, <1>0, <1>a
<1>2. CASE WarmUp
  <2>1. pending' = <<Outermost>>
    BY <1>2 DEF WarmUp, Outermost
  <2>2. DOMAIN pending' = {1} /\ pending'[1] = Outermost
    BY <2>1
  <2> QED
    BY <1>2, <1>0, <2>2 DEF WarmUp, Searching
<1>3. CASE EnterEmpty
  <2>1. pending # <<>> /\ pending' = Tail(pending) /\ pc' = "enter"
    BY <1>3 DEF EnterEmpty
  <2>2. \A k \in DOMAIN pending' :
          k + 1 \in DOMAIN pending /\ pending'[k] = pending[k + 1]
    BY <2>1, <1>a, TailElements
  <2> QED
    BY <2>1, <2>2, <1>0, <1>a DEF Searching
<1>4. CASE EnterSearch
  <2>1. pending # <<>> /\ pending' = Tail(pending)
        /\ call' = Head(pending) /\ Head(pending).n # 0
    BY <1>4 DEF EnterSearch
  <2>2. /\ Head(pending) = pending[1] /\ 1 \in DOMAIN pending
        /\ \A k \in DOMAIN pending' :
             k + 1 \in DOMAIN pending /\ pending'[k] = pending[k + 1]
    BY <2>1, <1>a, TailElements
  <2> QED
    BY <2>1, <2>2, <1>0, <1>a
<1>5. CASE Publish
  <2>1. /\ call = Outermost /\ args.n # 0
        /\ css' = [css EXCEPT ![Middle] = pivot] /\ pivot # -1
    BY <1>5, <1>0, <1>a, ModulusAssumption
       DEF Publish, Searching, Undecided, TypeInv, TypeOK, Sizes
  <2>2. css'[Focus] # -1
    BY <2>1, FocusIsSlot
  <2> QED
    BY <2>2, <1>0 DEF Undecided, Focus
<1> QED
  BY <1>1, <1>2, <1>3, <1>4, <1>5 DEF Next

(* The sizes that arise can be added, with three samples or more doubled   *)
(* as well, without overflow.                                              *)
LEMMA ReachFits ==
  ASSUME TypeInv, FitsWord, args.n # 0, NEW i \in DOMAIN css
  PROVE  /\ args.n \in Nat /\ Modulus \in Nat
         /\ cross[i] \in Nat
         /\ ReachFor(i) \in Nat
         /\ args.hint \in Nat /\ args.hint <= ReachFor(i)
         /\ 2 * (cross[i] + Noise) <= ReachFor(i)
         /\ 2 * ReachFor(i) < Modulus
         /\ args.n >= 3 => 4 * ReachFor(i) < Modulus
<1>1. args.n \in Nat /\ args.hint \in Nat /\ Modulus \in Nat
  BY ArgumentsAssumption, ModulusAssumption DEF TypeInv, TypeOK, ArgumentType, Sizes
<1>2. cross[i] \in 0 .. MaxCross
  <2>1. cross \in [0 .. args.n - 1 -> 0 .. MaxCross]
    BY DEF TypeInv, TypeOK, Crossings
  <2>2. i \in 0 .. args.n - 1
    BY FocusIsSlot
  <2> QED
    BY <2>1, <2>2
<1> DEFINE top == Larger(args.hint, 2 * (MaxCross + Noise))
           n == args.n
<1>3. /\ ReachFor(i) \in Nat /\ args.hint <= ReachFor(i)
      /\ 2 * (cross[i] + Noise) <= ReachFor(i)
      /\ ReachFor(i) <= top /\ top \in Nat
  BY <1>1, <1>2, BoundsAssumption DEF ReachFor, Larger
<1>4. n \in Nat /\ n # 0 /\ (n + 1) * top < Modulus
  BY <1>1 DEF FitsWord
<1> HIDE DEF n, top
<1>5. ASSUME NEW k \in Nat, n + 1 >= k PROVE k * top < Modulus
  <2>1. PICK d \in Nat : n + 1 = k + d
    BY <1>4, <1>5
  <2>2. (n + 1) * top = k * top + d * top /\ d * top \in Nat /\ k * top \in Nat
    BY <1>3, <2>1
  <2> QED
    BY <2>2, <1>1, <1>4
<1>6. 2 * top < Modulus /\ (n >= 3 => 4 * top < Modulus)
  BY <1>4, <1>5
<1>7. cross[i] \in Nat
  BY <1>2
<1>8. 2 * ReachFor(i) < Modulus /\ (n >= 3 => 4 * ReachFor(i) < Modulus)
  BY <1>1, <1>3, <1>6
<1> QED
  BY <1>1, <1>3, <1>7, <1>8 DEF n

LEMMA SearchInvStep ==
  TypeInv /\ TypeInv' /\ OneSearch /\ OneSearch' /\ SearchInv /\ [Next]_vars
    => SearchInv'
<1> SUFFICES ASSUME TypeInv, TypeInv', OneSearch, OneSearch', SearchInv, [Next]_vars,
                    Undecided', Searching', ~failed', FitsWord'
             PROVE  Interval'
  BY DEF SearchInv
<1>0. /\ args' = args /\ cross' = cross /\ Outermost' = Outermost /\ Reach' = Reach
      /\ Undecided /\ ~failed /\ FitsWord
      /\ Focus' = Focus
  <2>1. args' = args /\ Outermost' = Outermost /\ Reach' = Reach /\ Undecided
        /\ cross' = cross
    BY UndecidedBefore
  <2>2. failed => failed'
    BY DEF Next, Eval, EvalExits, WarmUp, EnterEmpty, EnterSearch, Probe, Publish,
           Return, vars
  <2> QED
    BY <2>1, <2>2 DEF FitsWord, Focus
<1>a. /\ cross[Focus] \in Nat /\ Reach \in Nat
      /\ 2 * Reach < Modulus
      /\ args.hint \in Nat /\ args.hint <= Reach
      /\ 2 * (cross[Focus] + Noise) <= Reach
  <2>1. args.n # 0
    BY <1>0 DEF Undecided
  <2> QED
    BY <2>1, <1>0, FocusIsSlot, ReachFits DEF Reach
<1>1. CASE Eval \/ EvalExits \/ WarmUp \/ EnterEmpty \/ Publish \/ Return
  BY <1>1 DEF Eval, EvalExits, WarmUp, EnterEmpty, Publish, Return, Searching
<1>2. CASE EnterSearch
  <2>1. call' = Outermost
    BY <1>0 DEF OneSearch
  <2>2. lb' = 0 /\ ub' = 0 /\ pivot' = args.hint
    BY <1>2, <2>1 DEF EnterSearch, Outermost, Call
  <2> QED
    BY <2>2, <1>0, <1>a DEF Interval
<1>3. CASE Probe
  <2>1. Interval /\ Middle = Focus
    <3>1. Searching /\ args.n # 0
      BY <1>3, <1>0 DEF Probe, Searching, Undecided
    <3>2. call = Outermost
      BY <3>1, <1>0 DEF OneSearch
    <3> QED
      BY <3>1, <3>2, <1>0, FocusIsSlot DEF SearchInv
  <2>2. lb \in Nat /\ ub \in Nat /\ pivot \in Nat
    BY ModulusAssumption DEF TypeInv, TypeOK, Sizes
  <2>3. PICK fast \in FastEnough(Middle, pivot) :
          /\ lb' = IF fast THEN pivot ELSE lb
          /\ ub' = IF fast THEN ub ELSE pivot
          /\ IF NewPivot(fast) \in {0, pivot}
             THEN pc' = "publish" /\ pivot' = pivot
             ELSE pc' = "loop" /\ pivot' = NewPivot(fast)
    BY <1>3 DEF Probe, Settled
  <2>4. /\ fast \in BOOLEAN
        /\ fast => pivot <= cross[Focus] + Noise
        /\ ~fast => pivot + Noise > cross[Focus]
    BY <2>1, <2>2, <1>a, Verdict
  <2>5. /\ ub # 0 => pivot <= NewPivot(TRUE) /\ NewPivot(TRUE) <= ub
        /\ ub = 0 => NewPivot(TRUE) = 2 * pivot
        /\ lb <= NewPivot(FALSE) /\ NewPivot(FALSE) <= pivot
    BY <2>1, <1>a, NextPivotBracketed DEF Interval, TypeInv, TypeOK
  <2>6. pivot' \in Nat
    BY ModulusAssumption DEF TypeInv, TypeOK, Sizes
  <2>7. CASE fast
    <3>1. lb' = pivot /\ ub' = ub /\ pivot' \in {pivot, NewPivot(TRUE)}
      BY <2>3, <2>4, <2>7
    <3>2. pivot <= pivot' /\ (ub # 0 => pivot' <= ub) /\ (ub = 0 => pivot' <= 2 * pivot)
      <4>1. CASE pivot' = pivot
        BY <4>1, <2>1, <2>2 DEF Interval
      <4>2. CASE pivot' = NewPivot(TRUE)
        <5>1. /\ ub # 0 => pivot <= pivot' /\ pivot' <= ub
              /\ ub = 0 => pivot' = 2 * pivot
          BY <4>2, <2>5, Zenon
        <5> QED
          BY <5>1, <2>2
      <4> QED
        BY <3>1, <4>1, <4>2
    <3>3. pivot <= cross[Focus] + Noise
      BY <2>4, <2>7
    <3>4. pivot' <= Reach
      BY <3>2, <3>3, <2>1, <2>2, <2>6, <1>a, BoundsAssumption DEF Interval
    <3> QED
      BY <3>1, <3>2, <3>3, <3>4, <2>1, <2>2, <2>6, <1>0, <1>a, BoundsAssumption DEF Interval
  <2>8. CASE ~fast
    <3>1. lb' = lb /\ ub' = pivot /\ pivot' \in {pivot, NewPivot(FALSE)}
      BY <2>3, <2>4, <2>8
    <3>2. lb <= pivot' /\ pivot' <= pivot
      <4>1. CASE pivot' = pivot
        BY <4>1, <2>1, <2>2 DEF Interval
      <4>2. CASE pivot' = NewPivot(FALSE)
        BY <4>2, <2>5, Zenon
      <4> QED
        BY <3>1, <4>1, <4>2
    <3>3. pivot + Noise > cross[Focus]
      BY <2>4, <2>8
    <3> QED
      BY <3>1, <3>2, <3>3, <2>1, <2>2, <2>6, <1>0, <1>a, BoundsAssumption DEF Interval
  <2> QED
    BY <2>7, <2>8, <2>4
<1>4. CASE UNCHANGED vars
  BY <1>4, <1>0 DEF vars, search, Searching, SearchInv, Interval
<1> QED
  BY <1>1, <1>2, <1>3, <1>4 DEF Next

LEMMA SearchInvariant == Spec => [](TypeInv /\ OneSearch /\ SearchInv)
<1>1. Init /\ TypeInv => OneSearch /\ SearchInv
  <2> SUFFICES ASSUME Init, TypeInv PROVE OneSearch /\ SearchInv
    OBVIOUS
  <2>1. pc = "eval" /\ pending = <<>> /\ DOMAIN pending = {}
    BY DEF Init
  <2> QED
    BY <2>1 DEF OneSearch, SearchInv, Searching
<1> QED
  BY <1>1, OneSearchStep, SearchInvStep, TypeInvInductive, PTL DEF Spec

(* Whatever the crossings, the noise, the hint and the depth, the interval *)
(* of the first search encloses the size looked for, as long as none of    *)
(* its measurements fails.                                                 *)
THEOREM IntervalEncloses == Spec => []Bracket
<1>1. TypeInv /\ OneSearch /\ SearchInv => Bracket
  BY DEF SearchInv, Interval, Bracket
<1> QED
  BY <1>1, SearchInvariant, PTL

-----------------------------------------------------------------------------
(* How the first search converges.  Once there is an upper bound the pivot   *)
(* is half way between the bounds; a pivot that the search settles on is   *)
(* the size looked for, up to the noise, and stays in its slot.            *)
Answers(x) == x + Noise >= cross[Focus] /\ (x <= cross[Focus] + Noise \/ x = 1)

Converging ==
  args.n # 0 /\ ~failed /\ FitsWord =>
    /\ Undecided /\ pc = "loop" /\ ub # 0 => 2 * pivot \in {lb + ub, lb + ub - 1}
    /\ args.hint # 0 =>
         /\ Undecided /\ pc = "loop" => pivot # 0
         /\ Undecided /\ pc = "publish" => Answers(pivot)
         /\ ~Undecided /\ ~cut => Answers(css[Focus])

(* The next pivot is half way between the bounds of the next iteration.    *)
LEMMA NextPivotHalfWay ==
  ASSUME lb \in Sizes, ub \in Sizes, pivot \in Sizes,
         NEW R \in Nat, 2 * R < Modulus,
         lb <= R, pivot <= R, ub <= R
  PROVE  /\ ub # 0 => 2 * NewPivot(TRUE) \in {pivot + ub, pivot + ub - 1}
         /\ ub = 0 => NewPivot(TRUE) = 2 * pivot
         /\ 2 * NewPivot(FALSE) \in {lb + pivot, lb + pivot - 1}
<1>1. lb \in Nat /\ ub \in Nat /\ pivot \in Nat /\ Modulus \in Nat
  BY ModulusAssumption DEF Sizes
<1>2. 2 * pivot \in Sizes /\ ub + pivot \in Sizes /\ pivot + lb \in Sizes
  BY <1>1 DEF Sizes
<1>3. /\ U32(2 * pivot) = 2 * pivot
      /\ U32(ub + pivot) = ub + pivot
      /\ U32(pivot + lb) = pivot + lb
  BY <1>2, U32Small
<1> QED
  BY <1>1, <1>3 DEF NewPivot

(* What one iteration of the search does to the bounds and the pivot.      *)
LEMMA ProbeConverges ==
  ASSUME TypeInv, TypeInv', OneSearch, SearchInv, Converging, Probe,
         Undecided, FitsWord, ~failed'
  PROVE  /\ ub # 0 => 2 * (ub' - lb') <= ub - lb + 1
         /\ pc' = "loop" /\ ub' # 0 => 2 * pivot' \in {lb' + ub', lb' + ub' - 1}
         /\ pc' = "loop" => pivot' # 0
         /\ pc' = "publish" => Answers(pivot')
<1>0. ~failed /\ pc = "loop" /\ pivot # 0 /\ args.n # 0 /\ Focus' = Focus
  BY DEF Probe, LoopGoesOn, Undecided, Focus
<1>1. /\ Interval /\ call = Outermost
      /\ ub # 0 => 2 * pivot \in {lb + ub, lb + ub - 1}
  BY <1>0 DEF OneSearch, SearchInv, Converging, Searching
<1>2. Middle = Focus
  BY <1>0, <1>1, FocusIsSlot
<1>3. /\ cross[Focus] \in Nat /\ Reach \in Nat
      /\ 2 * Reach < Modulus
  BY <1>0, FocusIsSlot, ReachFits DEF Reach
<1>4. lb \in Nat /\ ub \in Nat /\ pivot \in Nat
  BY ModulusAssumption DEF TypeInv, TypeOK, Sizes
<1>5. PICK fast \in FastEnough(Middle, pivot) :
        /\ lb' = IF fast THEN pivot ELSE lb
        /\ ub' = IF fast THEN ub ELSE pivot
        /\ IF NewPivot(fast) \in {0, pivot}
           THEN pc' = "publish" /\ pivot' = pivot
           ELSE pc' = "loop" /\ pivot' = NewPivot(fast)
  BY DEF Probe, Settled
<1>6. /\ fast \in BOOLEAN
      /\ fast => pivot <= cross[Focus] + Noise
      /\ ~fast => pivot + Noise > cross[Focus]
  BY <1>2, <1>3, <1>4, Verdict
<1>7. /\ ub # 0 => 2 * NewPivot(TRUE) \in {pivot + ub, pivot + ub - 1}
      /\ ub = 0 => NewPivot(TRUE) = 2 * pivot
      /\ 2 * NewPivot(FALSE) \in {lb + pivot, lb + pivot - 1}
  <2>1. lb <= Reach /\ pivot <= Reach /\ ub <= Reach
    BY <1>1, <1>3, <1>4 DEF Interval
  <2>2. lb \in Sizes /\ ub \in Sizes /\ pivot \in Sizes
    BY DEF TypeInv, TypeOK
  <2> QED
    BY <2>1, <2>2, <1>3, NextPivotHalfWay
<1>8. /\ lb # 0 => lb <= cross[Focus] + Noise
      /\ ub # 0 => ub + Noise > cross[Focus]
      /\ lb <= pivot
      /\ ub # 0 => pivot <= ub
  BY <1>1 DEF Interval
<1>9. pc' = "loop" => pivot' # 0
  BY <1>5
<1>10. CASE fast
  <2>1. /\ lb' = pivot /\ ub' = ub
        /\ pc' = "loop" => pivot' = NewPivot(TRUE)
        /\ pc' = "publish" => pivot' = pivot /\ NewPivot(TRUE) \in {0, pivot}
    BY <1>5, <1>6, <1>10
  <2>2. ub # 0 => 2 * (ub - pivot) <= ub - lb + 1
    BY <1>1, <1>4
  <2>3. ub # 0 /\ pc' = "loop" => 2 * pivot' \in {pivot + ub, pivot + ub - 1}
    BY <2>1, <1>7
  <2>4. NewPivot(TRUE) \in {0, pivot} => pivot + Noise >= cross[Focus]
    <3> SUFFICES ASSUME NEW q \in {0, pivot}, q = NewPivot(TRUE)
                 PROVE  pivot + Noise >= cross[Focus]
      OBVIOUS
    <3>1. /\ ub # 0 => 2 * q \in {pivot + ub, pivot + ub - 1}
          /\ ub = 0 => q = 2 * pivot
      BY <1>7, Zenon
    <3>0. pivot # 0 /\ q \in Nat
      <4>1. pivot # 0
        BY <1>0
      <4>2. q \in Nat
        BY ONLY <1>4, q \in {0, pivot}
      <4> QED
        BY <4>1, <4>2
    <3>2. ub # 0 /\ ub <= pivot + 1
      BY ONLY <3>0, <3>1, <1>4, q \in {0, pivot}
    <3>3. ub + Noise > cross[Focus]
      BY <3>2, <1>8
    <3> QED
      BY <3>2, <3>3, <1>3, <1>4, BoundsAssumption
  <2>5. pc' = "publish" => Answers(pivot')
    <3>1. cross' = cross /\ Focus' = Focus
      BY <1>0 DEF Probe
    <3> QED
      BY <2>1, <2>4, <1>6, <1>10, <3>1 DEF Answers
  <2> QED
    BY <2>1, <2>2, <2>3, <2>5, <1>9
<1>11. CASE ~fast
  <2>1. /\ lb' = lb /\ ub' = pivot
        /\ pc' = "loop" => pivot' = NewPivot(FALSE)
        /\ pc' = "publish" => pivot' = pivot /\ NewPivot(FALSE) \in {0, pivot}
    BY <1>5, <1>6, <1>11
  <2>2. ub # 0 => 2 * (pivot - lb) <= ub - lb + 1
    BY <1>1, <1>4
  <2>3. pc' = "loop" => 2 * pivot' \in {lb + pivot, lb + pivot - 1}
    BY <2>1, <1>7
  <2>4. NewPivot(FALSE) \in {0, pivot} => pivot <= cross[Focus] + Noise \/ pivot = 1
    <3> SUFFICES ASSUME NEW q \in {0, pivot}, q = NewPivot(FALSE)
                 PROVE  pivot <= cross[Focus] + Noise \/ pivot = 1
      OBVIOUS
    <3>1. 2 * q \in {lb + pivot, lb + pivot - 1}
      BY <1>7, Zenon
    <3>0. pivot # 0 /\ lb <= pivot
      BY <1>0, <1>8
    <3>2. CASE q = 0
      <4>1. pivot = 1
        BY ONLY <3>0, <3>1, <3>2, <1>4
      <4> QED
        BY <4>1
    <3>3. CASE q = pivot
      <4>1. lb = pivot
        BY ONLY <3>0, <3>1, <3>3, <1>4
      <4> QED
        BY <4>1, <1>0, <1>8
    <3> QED
      BY <3>2, <3>3
  <2>5. pivot + Noise >= cross[Focus]
    BY <1>3, <1>4, <1>6, <1>11, BoundsAssumption
  <2>6. pc' = "publish" => Answers(pivot')
    <3>1. cross' = cross /\ Focus' = Focus
      BY <1>0 DEF Probe
    <3> QED
      BY <2>1, <2>4, <2>5, <3>1 DEF Answers
  <2> QED
    BY <2>1, <2>2, <2>3, <2>6, <1>9
<1> QED
  BY <1>6, <1>10, <1>11

SearchParts == TypeInv /\ SlotsOwned /\ OneSearch /\ SearchInv

LEMMA ConvergingStep ==
  SearchParts /\ SearchParts' /\ Converging /\ [Next]_vars => Converging'
<1> SUFFICES ASSUME SearchParts, SearchParts', Converging, [Next]_vars,
                    args'.n # 0, ~failed', FitsWord'
             PROVE  /\ Undecided' /\ pc' = "loop" /\ ub' # 0 =>
                         2 * pivot' \in {lb' + ub', lb' + ub' - 1}
                    /\ args'.hint # 0 =>
                         /\ Undecided' /\ pc' = "loop" => pivot' # 0
                         /\ Undecided' /\ pc' = "publish" => Answers(pivot)'
                         /\ ~Undecided' /\ ~cut' => Answers(css[Focus])'
  BY DEF Converging
<1> USE DEF SearchParts
<1>0. /\ args' = args /\ cross' = cross /\ Focus' = Focus
      /\ args.n # 0 /\ ~failed /\ FitsWord
      /\ Answers(pivot)' <=> Answers(pivot')
      /\ Answers(css[Focus])' <=> Answers(css'[Focus])
      /\ Undecided' => Undecided
      /\ Outermost' = Outermost
  <2>1. args' = args /\ cross' = cross /\ Outermost' = Outermost
    BY UndecidedBefore
  <2>2. failed => failed'
    BY DEF Next, Eval, EvalExits, WarmUp, EnterEmpty, EnterSearch, Probe, Publish,
           Return, vars
  <2>3. Undecided' => Undecided
    BY UndecidedBefore
  <2> QED
    BY <2>1, <2>2, <2>3 DEF FitsWord, Answers, Focus
<1>a. /\ Undecided /\ pc = "loop" /\ ub # 0 => 2 * pivot \in {lb + ub, lb + ub - 1}
      /\ args.hint # 0 =>
           /\ Undecided /\ pc = "loop" => pivot # 0
           /\ Undecided /\ pc = "publish" => Answers(pivot)
           /\ ~Undecided /\ ~cut => Answers(css[Focus])
  BY <1>0 DEF Converging
<1>b. css' = css => (Undecided' <=> Undecided)
  BY <1>0 DEF Undecided
<1>1. CASE Eval \/ EvalExits \/ WarmUp \/ EnterEmpty \/ Return \/ UNCHANGED vars
  <2>1. /\ UNCHANGED <<lb, ub, pivot, css, cut>>
        /\ pc' \in {"loop", "publish"} => pc' = pc
    BY <1>1 DEF Eval, EvalExits, WarmUp, EnterEmpty, Return, vars, search
  <2> QED
    BY <2>1, <1>0, <1>a, <1>b DEF Answers
<1>2. CASE EnterSearch
  <2>1. css' = css /\ cut' = cut /\ pc' = "loop"
    BY <1>2 DEF EnterSearch
  <2>2. ASSUME Undecided' PROVE ub' = 0 /\ pivot' = args.hint
    <3>1. call' = Outermost
      BY <2>1, <2>2, <1>0 DEF OneSearch, Searching
    <3> QED
      BY <1>2, <3>1 DEF EnterSearch, Outermost, Call
  <2> QED
    BY <2>1, <2>2, <1>0, <1>a, <1>b
<1>3. CASE Probe
  <2>1. css' = css /\ cut' = cut
    BY <1>3 DEF Probe
  <2>2. ASSUME Undecided
        PROVE  /\ pc' = "loop" /\ ub' # 0 => 2 * pivot' \in {lb' + ub', lb' + ub' - 1}
               /\ pc' = "loop" => pivot' # 0
               /\ pc' = "publish" => Answers(pivot')
    BY <1>3, <1>0, <2>2, ProbeConverges
  <2> QED
    BY <2>1, <2>2, <1>0, <1>a, <1>b
<1>4. CASE Publish
  <2>1. /\ Searching /\ pc' = "enter" /\ css' = [css EXCEPT ![Middle] = pivot]
        /\ cut => cut'
    BY <1>4 DEF Publish, Searching
  <2>2. Focus \in DOMAIN css
    BY <1>0, FocusIsSlot
  <2>3. ASSUME args.hint # 0, ~cut' PROVE Answers(css'[Focus])
    <3>1. CASE Undecided
      <4>1. pc = "publish" \/ (pc = "loop" /\ pivot = 0)
        BY <1>4, <2>3 DEF Publish
      <4>2. Answers(pivot)
        BY <4>1, <3>1, <2>3, <1>a
      <4>3. css'[Focus] = pivot
        BY <3>1, <2>1, <2>2, <1>0, FocusIsSlot DEF OneSearch
      <4> QED
        BY <4>2, <4>3
    <3>2. CASE ~Undecided
      <4>1. Middle \in Unwritten
        BY <2>1, SlotsSplit DEF SlotsOwned, TypeInv, TypeOK
      <4>2. Middle # Focus
        BY <4>1, <3>2, <1>0 DEF Unwritten, Undecided
      <4>3. css'[Focus] = css[Focus]
        BY <4>2, <2>1, <2>2
      <4> QED
        BY <4>3, <3>2, <2>1, <2>3, <1>a
    <3> QED
      BY <3>1, <3>2
  <2> QED
    BY <2>1, <2>3, <1>0
<1> QED
  BY <1>1, <1>2, <1>3, <1>4 DEF Next

LEMMA ConvergingInvariant == Spec => [](SearchParts /\ Converging)
<1>1. Init /\ TypeInv => Converging
  <2> SUFFICES ASSUME Init, TypeInv, args.n # 0 PROVE Converging
    BY DEF Converging
  <2>1. pc = "eval" /\ css[Focus] = -1
    BY FocusIsSlot DEF Init
  <2> QED
    BY <2>1 DEF Converging, Undecided
<1> QED
  BY <1>1, ConvergingStep, SearchInvariant, SlotsAlwaysOwned, PTL DEF SearchParts, Spec

(* When the first search is not cut short by its depth its slot holds the  *)
(* size looked for, up to the noise, whatever the hint it started from.    *)
THEOREM SettledIsAccurate == Spec => []Accurate
<1>1. SearchParts /\ Converging => Accurate
  BY DEF Converging, Accurate, Answers
<1> QED
  BY <1>1, ConvergingInvariant, PTL

(* Once it has an upper bound every iteration halves its interval.         *)
THEOREM IntervalHalves == Spec => Halves
<1>1. SearchParts /\ SearchParts' /\ Converging /\ [Next]_vars =>
        [Undecided /\ FitsWord /\ Probe /\ ub # 0 /\ ~failed' =>
           2 * (ub' - lb') <= ub - lb + 1]_vars
  BY ProbeConverges DEF SearchParts
<1> QED
  BY <1>1, ConvergingInvariant, PTL DEF Halves, Spec

-----------------------------------------------------------------------------
(* The order of the outputs, with up to four samples.  A call c keeps its  *)
(* lower bound l, its upper bound u and its pivot p between the outputs    *)
(* beside its slots: the one on its left, which is not above the bound it  *)
(* was called with, and the one on its right, if there is any.  A call for *)
(* two samples or more also keeps p between l and u; one for the larger    *)
(* half need not, and has one sample.                                      *)
Top == ReachFor(args.n - 1)
Limit(n, top) == IF n >= 3 THEN 2 * top ELSE top

InLimits(c, l, u, p, n, top) ==
  /\ c.LB <= l /\ c.LB <= p /\ (u # 0 => c.LB <= u)
  /\ l <= Limit(n, top) /\ u <= Limit(n, top) /\ p <= Limit(n, top)
  /\ c.UB # 0 => u # 0
  /\ c.n # 1 =>
       /\ l <= p /\ p <= top /\ (u # 0 => p <= u) /\ u <= top
       /\ (c.UB # 0 => u <= c.UB) /\ c.UB <= top

AboveLeft(c, sizes) ==
  c.first # 0 => sizes[c.first - 1] # -1 /\ sizes[c.first - 1] <= c.LB

BelowRight(c, l, u, p, sizes, n) ==
  c.first + c.n # n =>
    /\ l <= sizes[c.first + c.n] /\ u <= sizes[c.first + c.n]
    /\ p <= sizes[c.first + c.n] /\ c.UB <= sizes[c.first + c.n]
    /\ c.UB # 0 \/ p = 0

InOrder(c, l, u, p, sizes, n, top) ==
  /\ InLimits(c, l, u, p, n, top)
  /\ AboveLeft(c, sizes)
  /\ BelowRight(c, l, u, p, sizes, n)

Ordered(c, l, u, p) == InOrder(c, l, u, p, css, args.n, Top)

WrittenSorted ==
  \A k, l \in DOMAIN css : k <= l /\ css[k] # -1 /\ css[l] # -1 => css[k] <= css[l]

OrderInv ==
  ~failed /\ FitsWord /\ args.n <= 4 =>
    /\ WrittenSorted
    /\ \A k \in DOMAIN pending :
         pending[k].n # 0 =>
           Ordered(pending[k], pending[k].LB, pending[k].UB, pending[k].seed)
    /\ Searching => Ordered(call, lb, ub, pivot)

(* The limits fit the word, and what is fast enough is within them.        *)
LEMMA TopFits ==
  ASSUME TypeInv, FitsWord, args.n # 0
  PROVE  /\ args.n \in Nat /\ args.hint \in Nat /\ Top \in Nat /\ Modulus \in Nat
         /\ args.hint <= Top
         /\ Limit(args.n, Top) \in Nat /\ Top <= Limit(args.n, Top)
         /\ 2 * Limit(args.n, Top) < Modulus
         /\ \A i \in DOMAIN css : cross[i] \in Nat /\ 2 * (cross[i] + Noise) <= Top
<1> DEFINE last == args.n - 1
           top == Top
<1>1. args.n \in Nat /\ DOMAIN css = 0 .. last /\ last \in DOMAIN css
  BY FocusIsSlot
<1>2. /\ Modulus \in Nat /\ top \in Nat /\ args.hint \in Nat /\ args.hint <= top
      /\ 2 * (cross[last] + Noise) <= top
      /\ 2 * top < Modulus /\ (args.n >= 3 => 4 * top < Modulus)
  BY <1>1, ReachFits DEF Top
<1>3. \A i \in DOMAIN css : /\ cross[i] \in Nat /\ cross[last] \in Nat
                            /\ cross[i] <= cross[last]
  <2>1. cross \in Crossings(args.n)
    BY DEF TypeInv, TypeOK
  <2>2. \A i, j \in DOMAIN css : i <= j => cross[i] <= cross[j]
    BY <2>1, <1>1 DEF Crossings
  <2>3. \A i \in DOMAIN css : i <= last
    BY <1>1
  <2>4. \A i \in DOMAIN css : cross[i] \in Nat
    BY <1>1, ReachFits
  <2> QED
    BY <2>2, <2>3, <2>4, <1>1
<1> HIDE DEF last, top
<1>4. \A i \in DOMAIN css : cross[i] \in Nat /\ 2 * (cross[i] + Noise) <= top
  BY <1>2, <1>3, BoundsAssumption
<1>5. /\ Limit(args.n, top) \in Nat /\ top <= Limit(args.n, top)
      /\ 2 * Limit(args.n, top) < Modulus
  BY <1>1, <1>2 DEF Limit
<1> QED
  BY <1>1, <1>2, <1>4, <1>5 DEF top

(* Where a call's slots and their neighbours are.                          *)
LEMMA CallPlaced ==
  ASSUME TypeInv, NEW c \in CallType, c.n # 0, Slots(c) \subseteq Unwritten
  PROVE  /\ c.first \in Nat /\ c.n \in Nat /\ c.n >= 1 /\ c.LB \in Nat /\ c.UB \in Nat
         /\ c.seed \in Nat
         /\ args.n \in Nat /\ DOMAIN css = 0 .. args.n - 1
         /\ c.first + c.n <= args.n
         /\ c.first # 0 => c.first - 1 \in DOMAIN css
         /\ c.first + c.n # args.n => c.first + c.n \in DOMAIN css
         /\ \A k \in DOMAIN css : css[k] \in Int /\ (css[k] # -1 => css[k] >= 0)
<1>1. /\ c.first \in Nat /\ c.n \in Nat /\ c.LB \in Nat /\ c.UB \in Nat /\ c.seed \in Nat
  BY ModulusAssumption DEF CallType, Sizes
<1>2. args.n \in Nat
  BY ArgumentsAssumption DEF TypeInv, TypeOK, ArgumentType
<1>3. DOMAIN css = 0 .. args.n - 1
      /\ \A k \in DOMAIN css : css[k] \in Int /\ (css[k] # -1 => css[k] >= 0)
  BY ModulusAssumption DEF TypeInv, TypeOK, Sizes
<1>4. c.first + c.n - 1 \in 0 .. args.n - 1
  <2>1. c.first + c.n - 1 \in Slots(c)
    BY <1>1 DEF Slots
  <2> QED
    BY <1>3, <2>1 DEF Unwritten
<1>5. /\ c.n >= 1 /\ c.first + c.n <= args.n
      /\ c.first # 0 => c.first - 1 \in 0 .. args.n - 1
      /\ c.first + c.n # args.n => c.first + c.n \in 0 .. args.n - 1
  <2> DEFINE f == c.first
             m == c.n
             n == args.n
  <2>1. f \in Nat /\ m \in Nat /\ m # 0 /\ n \in Nat /\ f + m - 1 \in 0 .. n - 1
    BY <1>1, <1>2, <1>4
  <2> HIDE DEF f, m, n
  <2>2. /\ m >= 1 /\ f + m <= n
        /\ f # 0 => f - 1 \in 0 .. n - 1
        /\ f + m # n => f + m \in 0 .. n - 1
    BY <2>1
  <2> QED
    BY <2>2 DEF f, m, n
<1> QED
  BY <1>1, <1>2, <1>3, <1>5, Zenon

(* Half way between two sizes.                                             *)
LEMMA HalfWay ==
  ASSUME NEW a \in Nat, NEW b \in Nat, NEW q \in Nat, 2 * q \in {a + b, a + b - 1}
  PROVE  \A x \in Int : /\ x <= a /\ x <= b => x <= q
                        /\ a <= x /\ b <= x => q <= x
OBVIOUS

(* A scan that was not fast enough moves the pivot p down, half way to the *)
(* lower bound l.                                                          *)
LEMMA PivotDown ==
  ASSUME NEW p \in Nat, NEW l \in Nat, NEW q \in Nat,
         q = p \/ 2 * q \in {l + p, l + p - 1}
  PROVE  /\ \A x \in Int : x <= p /\ x <= l => x <= q
         /\ \A x \in Int : p <= x /\ l <= x => q <= x
         /\ l <= p => l <= q /\ q <= p
<1>1. CASE q = p
  BY <1>1
<1>2. CASE 2 * q \in {l + p, l + p - 1}
  BY <1>2, HalfWay
<1> QED
  BY <1>1, <1>2

(* One iteration keeps the bounds and the pivot between the neighbours.    *)
LEMMA ProbeOrdered ==
  ASSUME TypeInv, TypeInv', SlotsOwned, Probe, ~failed', FitsWord,
         Ordered(call, lb, ub, pivot)
  PROVE  Ordered(call, lb', ub', pivot')
<1> DEFINE lim == Limit(args.n, Top)
           nxt == call.first + call.n
           right == css[nxt]
           L == call.LB
           U == call.UB
           top == Top
<1>0. Searching /\ pivot # 0
  BY DEF Probe, LoopGoesOn, Searching
<1>1. call \in CallType /\ call.n # 0 /\ Slots(call) \subseteq Unwritten
  BY <1>0 DEF TypeInv, TypeOK, SlotsOwned
<1>2. /\ call.first \in Nat /\ call.n \in Nat /\ call.n >= 1
      /\ L \in Nat /\ U \in Nat
      /\ args.n \in Nat /\ DOMAIN css = 0 .. args.n - 1
      /\ nxt <= args.n
      /\ nxt # args.n => right \in Int
  BY <1>1, CallPlaced
<1>3. /\ top \in Nat /\ lim \in Nat /\ top <= lim /\ 2 * lim < Modulus
      /\ \A i \in DOMAIN css : cross[i] \in Nat /\ 2 * (cross[i] + Noise) <= top
  <2>1. args.n # 0
    BY <1>2
  <2> QED
    BY <2>1, TopFits
<1>4. lb \in Nat /\ ub \in Nat /\ pivot \in Nat /\ pivot' \in Nat
  BY ModulusAssumption DEF TypeInv, TypeOK, Sizes
<1>5. cross[Middle] \in Nat /\ 2 * (cross[Middle] + Noise) <= top
  <2>1. Middle \in DOMAIN css
    BY <1>1, SlotsSplit DEF Unwritten
  <2> QED
    BY <2>1, <1>3
<1>6. PICK fast \in FastEnough(Middle, pivot) :
        /\ lb' = IF fast THEN pivot ELSE lb
        /\ ub' = IF fast THEN ub ELSE pivot
        /\ IF NewPivot(fast) \in {0, pivot}
           THEN pc' = "publish" /\ pivot' = pivot
           ELSE pc' = "loop" /\ pivot' = NewPivot(fast)
  BY DEF Probe, Settled
<1>7. fast \in BOOLEAN /\ (fast => 2 * pivot <= top)
  <2>1. fast \in BOOLEAN /\ (fast => pivot <= cross[Middle] + Noise)
    BY <1>4, <1>5, <1>6, Verdict
  <2> QED
    BY <2>1, <1>3, <1>4, <1>5, BoundsAssumption
<1>8. /\ L <= lb /\ L <= pivot /\ (ub # 0 => L <= ub)
      /\ lb <= lim /\ ub <= lim /\ pivot <= lim
      /\ U # 0 => ub # 0
      /\ call.n # 1 =>
           /\ lb <= pivot /\ pivot <= top /\ (ub # 0 => pivot <= ub) /\ ub <= top
           /\ (U # 0 => ub <= U) /\ U <= top
  BY DEF Ordered, InOrder, InLimits
<1>9. nxt # args.n =>
        lb <= right /\ ub <= right /\ pivot <= right /\ U <= right /\ U # 0
  BY <1>0 DEF Ordered, InOrder, BelowRight
<1>10. /\ ub # 0 => 2 * NewPivot(TRUE) \in {pivot + ub, pivot + ub - 1}
       /\ ub = 0 => NewPivot(TRUE) = 2 * pivot
       /\ 2 * NewPivot(FALSE) \in {lb + pivot, lb + pivot - 1}
  <2>1. lb \in Sizes /\ ub \in Sizes /\ pivot \in Sizes
    BY DEF TypeInv, TypeOK
  <2>2. lb <= lim /\ pivot <= lim /\ ub <= lim
    BY <1>8
  <2> QED
    BY <2>1, <2>2, <1>3, NextPivotHalfWay
<1>11. /\ L <= lb' /\ L <= pivot' /\ (ub' # 0 => L <= ub')
       /\ lb' <= lim /\ ub' <= lim /\ pivot' <= lim
       /\ U # 0 => ub' # 0
       /\ call.n # 1 =>
            /\ lb' <= pivot' /\ pivot' <= top /\ (ub' # 0 => pivot' <= ub') /\ ub' <= top
            /\ (U # 0 => ub' <= U) /\ U <= top
       /\ nxt # args.n =>
            lb' <= right /\ ub' <= right /\ pivot' <= right /\ U <= right /\ U # 0
  <2>1. CASE fast
    <3>1. lb' = pivot /\ ub' = ub /\ (pivot' = pivot \/ pivot' = NewPivot(TRUE))
      BY <1>6, <1>7, <2>1
    <3>2. \/ pivot' = pivot
          \/ ub # 0 /\ 2 * pivot' \in {pivot + ub, pivot + ub - 1}
          \/ ub = 0 /\ pivot' = 2 * pivot
      BY <3>1, <1>10, Zenon
    <3>3. /\ \A x \in Int : x <= pivot /\ (ub # 0 => x <= ub) => x <= pivot'
          /\ \A x \in Int : pivot <= x /\ ub <= x /\ ub # 0 => pivot' <= x
          /\ \A x \in Int : top <= x /\ ub <= x => pivot' <= x
          /\ ub # 0 /\ pivot <= ub => pivot' <= ub
      <4>1. 2 * pivot <= top
        BY <1>7, <2>1
      <4>2. top \in Nat
        BY <1>3
      <4>3. CASE pivot' = pivot
        BY <4>1, <4>2, <4>3, <1>4
      <4>4. CASE ub # 0 /\ 2 * pivot' \in {pivot + ub, pivot + ub - 1}
        <5>1. \A x \in Int : /\ x <= pivot /\ x <= ub => x <= pivot'
                             /\ pivot <= x /\ ub <= x => pivot' <= x
          BY <4>4, <1>4, HalfWay
        <5>2. pivot <= top /\ \A x \in Int : top <= x => pivot <= x
          BY <4>1, <4>2, <1>4
        <5>3. ub # 0 /\ pivot <= ub => pivot' <= ub
          BY <5>1, <1>4
        <5> QED
          BY <5>1, <5>2, <5>3, <4>4, Zenon
      <4>5. CASE ub = 0 /\ pivot' = 2 * pivot
        BY <4>1, <4>2, <4>5, <1>4
      <4> QED
        BY <3>2, <4>3, <4>4, <4>5
    <3>4. L <= pivot' /\ pivot' <= lim
      <4>1. L \in Int /\ lim \in Int /\ top <= lim
        BY <1>2, <1>3
      <4> QED
        BY <1>8, <3>3, <4>1
    <3>5. ASSUME call.n # 1 PROVE pivot <= pivot' /\ pivot' <= top /\ (ub # 0 => pivot' <= ub)
      <4>1. pivot <= top /\ (ub # 0 => pivot <= ub) /\ ub <= top
        BY <1>8, <3>5
      <4>2. pivot \in Int /\ top \in Int /\ pivot <= pivot /\ top <= top
        BY <1>3, <1>4
      <4> QED
        BY <3>3, <4>1, <4>2
    <3>6. ASSUME nxt # args.n PROVE pivot' <= right
      <4>1. ub # 0 /\ right \in Int /\ pivot <= right /\ ub <= right
        BY <1>2, <1>8, <1>9, <3>6
      <4> QED
        BY <3>3, <4>1
    <3> QED
      BY <3>1, <3>4, <3>5, <3>6, <1>8, <1>9
  <2>2. CASE ~fast
    <3>1. lb' = lb /\ ub' = pivot /\ (pivot' = pivot \/ pivot' = NewPivot(FALSE))
      BY <1>6, <1>7, <2>2
    <3>2. pivot' = pivot \/ 2 * pivot' \in {lb + pivot, lb + pivot - 1}
      BY <3>1, <1>10, Zenon
    <3>3. /\ \A x \in Int : x <= pivot /\ x <= lb => x <= pivot'
          /\ \A x \in Int : pivot <= x /\ lb <= x => pivot' <= x
          /\ lb <= pivot => lb <= pivot' /\ pivot' <= pivot
      BY <3>2, <1>4, PivotDown
    <3>4. L <= pivot' /\ pivot' <= lim
      <4>1. L \in Int /\ lim \in Int
        BY <1>2, <1>3
      <4> QED
        BY <1>8, <3>3, <4>1
    <3>5. ASSUME call.n # 1
          PROVE  lb <= pivot' /\ pivot' <= top /\ pivot' <= pivot /\ (U # 0 => pivot <= U)
      <4>1. /\ lb <= pivot /\ pivot <= top /\ (ub # 0 => pivot <= ub)
            /\ (U # 0 => ub <= U /\ ub # 0)
        BY <1>8, <3>5
      <4>2. lb <= pivot' /\ pivot' <= pivot
        BY <3>3, <4>1
      <4>3. U # 0 => pivot <= U
        BY <4>1, <1>2, <1>4
      <4> QED
        BY <4>1, <4>2, <4>3, <1>3, <1>4
    <3>6. ASSUME nxt # args.n PROVE pivot' <= right
      <4>1. right \in Int /\ pivot <= right /\ lb <= right
        BY <1>2, <1>9, <3>6
      <4> QED
        BY <3>3, <4>1
    <3>7. pivot # 0
      BY <1>0
    <3> QED
      BY <3>1, <3>4, <3>5, <3>6, <3>7, <1>8, <1>9
  <2> QED
    BY <1>7, <2>1, <2>2
<1>12. InLimits(call, lb', ub', pivot', args.n, Top)
  BY <1>11 DEF InLimits
<1>13. BelowRight(call, lb', ub', pivot', css, args.n)
  BY <1>11 DEF BelowRight
<1>14. AboveLeft(call, css)
  BY DEF Ordered, InOrder
<1> QED
  BY <1>12, <1>13, <1>14 DEF Ordered, InOrder

(* The seeds of the two halves: half way down, and half way up or double.  *)
LEMMA HalfSeeds ==
  ASSUME TypeInv, call.n # 0, args.n >= 1, FitsWord,
         InLimits(call, lb, ub, pivot, args.n, Top)
  PROVE  /\ 2 * SmallerHalf.seed \in {lb + pivot, lb + pivot - 1}
         /\ call.n # 1 /\ call.UB # 0 =>
              2 * LargerHalf.seed \in {pivot + call.UB, pivot + call.UB - 1}
         /\ call.UB = 0 => LargerHalf.seed = 2 * pivot
<1> DEFINE lim == Limit(args.n, Top)
           U == call.UB
<1>1. /\ lb \in Nat /\ pivot \in Nat /\ U \in Nat /\ Modulus \in Nat
  BY ModulusAssumption DEF TypeInv, TypeOK, CallType, Sizes
<1>2. lim \in Nat /\ 2 * lim < Modulus /\ Top \in Nat /\ Top <= lim
  BY TopFits
<1>3. lb <= lim /\ pivot <= lim /\ (call.n # 1 => U <= Top)
  BY DEF InLimits
<1> HIDE DEF lim, U
<1>4. U32(lb + pivot) = lb + pivot /\ U32(2 * pivot) = 2 * pivot
  <2>1. lb + pivot \in Sizes /\ 2 * pivot \in Sizes
    BY <1>1, <1>2, <1>3 DEF Sizes
  <2> QED
    BY <2>1, U32Small
<1>5. call.n # 1 => U32(pivot + U) = pivot + U
  <2>1. call.n # 1 => pivot + U \in Sizes
    BY <1>1, <1>2, <1>3 DEF Sizes
  <2> QED
    BY <2>1, U32Small
<1>6. /\ SmallerHalf.seed = U32(lb + pivot) \div 2
      /\ U # 0 => LargerHalf.seed = U32(pivot + U) \div 2
      /\ U = 0 => LargerHalf.seed = U32(2 * pivot)
  BY DEF SmallerHalf, LargerHalf, Call, U
<1>7. 2 * SmallerHalf.seed \in {lb + pivot, lb + pivot - 1}
  <2>1. SmallerHalf.seed = (lb + pivot) \div 2
    BY <1>4, <1>6
  <2>2. 2 * ((lb + pivot) \div 2) \in {lb + pivot, lb + pivot - 1}
    BY <1>1
  <2> QED
    BY <2>1, <2>2, Zenon
<1>8. ASSUME call.n # 1, U # 0
      PROVE  2 * LargerHalf.seed \in {pivot + U, pivot + U - 1}
  <2>1. LargerHalf.seed = (pivot + U) \div 2
    BY <1>5, <1>6, <1>8
  <2>2. 2 * ((pivot + U) \div 2) \in {pivot + U, pivot + U - 1}
    BY <1>1
  <2> QED
    BY <2>1, <2>2, Zenon
<1>9. U = 0 => LargerHalf.seed = 2 * pivot
  BY <1>4, <1>6
<1> QED
  BY <1>7, <1>8, <1>9 DEF U

(* The halves of a call and what its pivot, now in the middle slot, is     *)
(* beside.  With up to four samples the larger half has one.               *)
LEMMA HalvesPlaced ==
  ASSUME TypeInv, call.n # 0, Slots(call) \subseteq Unwritten, args.n <= 4
  PROVE  /\ SmallerHalf.first = call.first
         /\ SmallerHalf.first + SmallerHalf.n = Middle
         /\ LargerHalf.first - 1 = Middle /\ LargerHalf.first # 0
         /\ LargerHalf.first + LargerHalf.n = call.first + call.n
         /\ SmallerHalf.n # 0 => call.n # 1
         /\ LargerHalf.n # 0 => call.n # 1 /\ LargerHalf.n = 1 /\ args.n >= 3
         /\ call.first <= Middle /\ Middle < call.first + call.n
         /\ Middle # args.n /\ Middle \in DOMAIN css
         /\ call.first - 1 # Middle /\ call.first + call.n # Middle
<1> DEFINE f == call.first
           n == call.n
           m == call.n \div 2
           N == args.n
<1>1. /\ f \in Nat /\ n \in Nat /\ n >= 1 /\ N \in Nat /\ f + n <= N
      /\ DOMAIN css = 0 .. N - 1
  <2>1. call \in CallType
    BY DEF TypeInv, TypeOK
  <2> QED
    BY <2>1, CallPlaced
<1>2. /\ Middle = f + m /\ SmallerHalf.first = f /\ SmallerHalf.n = m
      /\ LargerHalf.first = f + m + 1 /\ LargerHalf.n = n - m - 1
  BY DEF Middle, SmallerHalf, LargerHalf, Call
<1>3. m \in Nat /\ (n = 1 => m = 0) /\ 2 * m \in {n, n - 1}
  BY <1>1
<1>4. N <= 4
  OBVIOUS
<1> HIDE DEF f, n, m, N
<1>5. /\ f + m + 1 - 1 = f + m /\ f + m + 1 # 0
      /\ f + m + 1 + (n - m - 1) = f + n
      /\ m # 0 => n # 1
      /\ n - m - 1 # 0 => n # 1 /\ n - m - 1 = 1 /\ N >= 3
      /\ f <= f + m /\ f + m < f + n
      /\ f + m # N /\ f + m \in 0 .. N - 1
      /\ f - 1 # f + m /\ f + n # f + m
  BY <1>1, <1>3, <1>4
<1>6. /\ Middle \in DOMAIN css /\ Middle # N
      /\ f <= Middle /\ Middle < f + n /\ f - 1 # Middle /\ f + n # Middle
  BY <1>1, <1>2, <1>5
<1>7. /\ SmallerHalf.first = f /\ SmallerHalf.first + SmallerHalf.n = Middle
      /\ LargerHalf.first - 1 = Middle /\ LargerHalf.first # 0
      /\ LargerHalf.first + LargerHalf.n = f + n
      /\ SmallerHalf.n # 0 => n # 1
      /\ LargerHalf.n # 0 => n # 1 /\ LargerHalf.n = 1 /\ N >= 3
  BY <1>2, <1>5
<1> QED
  BY <1>6, <1>7 DEF f, n, N

(* Both halves are called in order, with the pivot in the middle slot.     *)
LEMMA SmallerOrdered ==
  ASSUME TypeInv, SlotsOwned, Searching, FitsWord, args.n <= 4,
         Ordered(call, lb, ub, pivot), SmallerHalf.n # 0,
         NEW sizes, sizes[Middle] = pivot,
         \A k \in DOMAIN css : k # Middle => sizes[k] = css[k]
  PROVE  LET c == SmallerHalf
         IN  InOrder(c, c.LB, c.UB, c.seed, sizes, args.n, Top)
<1> DEFINE c == SmallerHalf
           L == call.LB
           lim == Limit(args.n, Top)
           top == Top
<1>1. call \in CallType /\ call.n # 0 /\ Slots(call) \subseteq Unwritten
  BY DEF TypeInv, TypeOK, SlotsOwned
<1>2. /\ L \in Nat /\ args.n >= 1 /\ args.n \in Nat /\ call.first \in Nat
      /\ call.first # 0 => call.first - 1 \in DOMAIN css
  BY <1>1, CallPlaced
<1>3. lb \in Nat /\ ub \in Nat /\ pivot \in Nat /\ c.seed \in Nat
  <2>1. lb \in Sizes /\ ub \in Sizes /\ pivot \in Sizes /\ c \in CallType
    BY <1>1, HalvesTyped DEF TypeInv, TypeOK
  <2> QED
    BY <2>1, ModulusAssumption DEF CallType, Sizes
<1>4. /\ c.first = call.first /\ c.first + c.n = Middle /\ call.n # 1
      /\ Middle # args.n /\ call.first - 1 # Middle
  BY <1>1, HalvesPlaced
<1>5. c.LB = L /\ c.UB = pivot
  BY DEF SmallerHalf, Call
<1>6. InLimits(call, lb, ub, pivot, args.n, Top) /\ AboveLeft(call, css)
  BY DEF Ordered, InOrder
<1>7. 2 * c.seed \in {lb + pivot, lb + pivot - 1}
  BY <1>1, <1>2, <1>6, HalfSeeds
<1>8. top \in Nat /\ lim \in Nat /\ top <= lim
  BY <1>2, TopFits
<1>9. L <= lb /\ L <= pivot /\ lb <= pivot /\ pivot <= top
  BY <1>4, <1>6 DEF InLimits
<1> HIDE DEF c, L, lim, top
<1>10. /\ L <= L /\ pivot <= pivot /\ L <= c.seed /\ L <= pivot /\ c.seed <= pivot
       /\ L <= lim /\ pivot <= lim /\ c.seed <= lim /\ c.seed <= top
       /\ pivot = 0 => c.seed = 0
  BY <1>2, <1>3, <1>7, <1>8, <1>9
<1>11. InLimits(c, c.LB, c.UB, c.seed, args.n, Top)
  BY <1>5, <1>9, <1>10 DEF InLimits, lim, top
<1>12. AboveLeft(c, sizes)
  BY <1>2, <1>4, <1>5, <1>6 DEF AboveLeft, L
<1>13. BelowRight(c, c.LB, c.UB, c.seed, sizes, args.n)
  BY <1>4, <1>5, <1>10 DEF BelowRight
<1> QED
  BY <1>11, <1>12, <1>13 DEF c, InOrder

LEMMA LargerOrdered ==
  ASSUME TypeInv, SlotsOwned, Searching, FitsWord, args.n <= 4,
         Ordered(call, lb, ub, pivot), LargerHalf.n # 0,
         NEW sizes, sizes[Middle] = pivot,
         \A k \in DOMAIN css : k # Middle => sizes[k] = css[k]
  PROVE  LET c == LargerHalf
         IN  InOrder(c, c.LB, c.UB, c.seed, sizes, args.n, Top)
<1> DEFINE c == LargerHalf
           U == call.UB
           lim == Limit(args.n, Top)
           top == Top
           nxt == call.first + call.n
           right == css[nxt]
<1>1. call \in CallType /\ call.n # 0 /\ Slots(call) \subseteq Unwritten
  BY DEF TypeInv, TypeOK, SlotsOwned
<1>2. /\ U \in Nat /\ args.n >= 1
      /\ nxt # args.n => nxt \in DOMAIN css /\ right \in Int
  BY <1>1, CallPlaced
<1>3. lb \in Nat /\ ub \in Nat /\ pivot \in Nat /\ c.seed \in Nat
  <2>1. lb \in Sizes /\ ub \in Sizes /\ pivot \in Sizes /\ c \in CallType
    BY <1>1, HalvesTyped DEF TypeInv, TypeOK
  <2> QED
    BY <2>1, ModulusAssumption DEF CallType, Sizes
<1>4. /\ c.first - 1 = Middle /\ c.first + c.n = nxt /\ call.n # 1 /\ c.n = 1
      /\ args.n >= 3 /\ nxt # Middle
  BY <1>1, HalvesPlaced
<1>5. c.LB = pivot /\ c.UB = ub
  BY DEF LargerHalf, Call
<1>6. /\ InLimits(call, lb, ub, pivot, args.n, Top)
      /\ BelowRight(call, lb, ub, pivot, css, args.n)
  BY DEF Ordered, InOrder
<1>7. /\ U # 0 => 2 * c.seed \in {pivot + U, pivot + U - 1}
      /\ U = 0 => c.seed = 2 * pivot
  BY <1>1, <1>2, <1>4, <1>6, HalfSeeds
<1>8. top \in Nat /\ lim = 2 * top
  <2>1. args.n # 0
    BY <1>2
  <2>2. Top \in Nat
    BY <2>1, TopFits
  <2> QED
    BY <2>2, <1>4 DEF Limit
<1>9. /\ pivot <= top /\ (ub # 0 => pivot <= ub) /\ ub <= top
      /\ U # 0 => ub # 0 /\ ub <= U
      /\ U <= top
  BY <1>4, <1>6 DEF InLimits
<1>10. nxt # args.n =>
         /\ pivot <= right /\ ub <= right /\ U <= right
         /\ U # 0 \/ pivot = 0
  BY <1>6 DEF BelowRight
<1> HIDE DEF c, U, lim, top, nxt, right
<1>11. /\ pivot <= pivot /\ pivot <= c.seed /\ (ub # 0 => pivot <= ub)
       /\ pivot <= lim /\ ub <= lim /\ c.seed <= lim
  <2>1. CASE U # 0
    BY <2>1, <1>2, <1>3, <1>7, <1>8, <1>9
  <2>2. CASE U = 0
    BY <2>2, <1>2, <1>3, <1>7, <1>8, <1>9
  <2> QED
    BY <2>1, <2>2
<1>12. ASSUME nxt # args.n PROVE c.seed <= right /\ (ub # 0 \/ c.seed = 0)
  <2>1. CASE U # 0
    BY <2>1, <1>2, <1>3, <1>7, <1>9, <1>10, <1>12
  <2>2. CASE U = 0
    BY <2>2, <1>2, <1>3, <1>7, <1>10, <1>12
  <2> QED
    BY <2>1, <2>2
<1>13. InLimits(c, c.LB, c.UB, c.seed, args.n, Top)
  BY <1>4, <1>5, <1>11 DEF InLimits, lim
<1>14. AboveLeft(c, sizes)
  <2>1. pivot # -1 /\ pivot <= pivot
    BY <1>3
  <2> QED
    BY <2>1, <1>4, <1>5 DEF AboveLeft
<1>15. BelowRight(c, c.LB, c.UB, c.seed, sizes, args.n)
  <2>1. nxt # args.n => sizes[nxt] = right
    BY <1>2, <1>4 DEF right
  <2> QED
    BY <2>1, <1>4, <1>5, <1>10, <1>12 DEF BelowRight
<1> QED
  BY <1>13, <1>14, <1>15 DEF c, InOrder

(* The outputs written so far stay in order when the pivot is written into *)
(* the middle slot: those below are not above the bound the call began     *)
(* with, those above begin with its right neighbour.                       *)
LEMMA PivotInOrder ==
  ASSUME TypeInv, SlotsOwned, Searching, WrittenSorted, args.n <= 4,
         Ordered(call, lb, ub, pivot),
         NEW sizes, sizes[Middle] = pivot,
         \A k \in DOMAIN css : k # Middle => sizes[k] = css[k],
         NEW k \in DOMAIN css, NEW j \in DOMAIN css,
         k <= j, sizes[k] # -1, sizes[j] # -1
  PROVE  sizes[k] <= sizes[j]
<1> DEFINE nxt == call.first + call.n
           prev == call.first - 1
<1>1. call \in CallType /\ call.n # 0 /\ Slots(call) \subseteq Unwritten
  BY DEF TypeInv, TypeOK, SlotsOwned
<1>2. /\ call.first \in Nat /\ call.n \in Nat /\ call.LB \in Nat /\ args.n \in Nat
      /\ DOMAIN css = 0 .. args.n - 1 /\ nxt <= args.n
      /\ call.first # 0 => prev \in DOMAIN css
      /\ nxt # args.n => nxt \in DOMAIN css
      /\ \A i \in DOMAIN css : css[i] \in Int /\ (css[i] # -1 => css[i] >= 0)
  BY <1>1, CallPlaced, Zenon
<1>3. call.first <= Middle /\ Middle < nxt /\ Middle \in Int
  <2>1. Middle \in DOMAIN css
    BY <1>1, HalvesPlaced
  <2> QED
    BY <1>1, <1>2, <2>1, HalvesPlaced
<1>4. pivot \in Nat /\ pivot <= pivot
  BY ModulusAssumption DEF TypeInv, TypeOK, Sizes
<1>5. /\ call.LB <= pivot
      /\ call.first # 0 => css[prev] # -1 /\ css[prev] <= call.LB
      /\ nxt # args.n => pivot <= css[nxt]
  BY DEF Ordered, InOrder, InLimits, AboveLeft, BelowRight
<1>6. \A i \in DOMAIN css : css[i] # -1 => i < call.first \/ i >= nxt
  <2> SUFFICES ASSUME NEW i \in DOMAIN css, css[i] # -1, ~(i < call.first \/ i >= nxt)
               PROVE  FALSE
    OBVIOUS
  <2>0. i \in Int /\ call.first \in Int /\ call.n \in Int
    BY <1>2
  <2>1. call.first <= i /\ i <= call.first + call.n - 1
    BY <2>0
  <2>2. i \in Slots(call)
    BY <2>0, <2>1, <1>2 DEF Slots
  <2> QED
    BY <1>1, <2>2 DEF Unwritten
<1>7. k \in Int /\ j \in Int
  BY <1>2
<1>8. CASE k # Middle /\ j # Middle
  BY <1>8 DEF WrittenSorted
<1>9. CASE k = Middle /\ j = Middle
  BY <1>9, <1>4
<1>10. CASE k = Middle /\ j # Middle
  <2>1. sizes[k] = pivot /\ sizes[j] = css[j] /\ css[j] # -1
    BY <1>10
  <2>2. j >= nxt /\ nxt # args.n
    <3>1. j < args.n
      BY <1>2
    <3>2. j < call.first \/ j >= nxt
      BY <2>1, <1>6
    <3>3. Middle <= j
      BY <1>10
    <3> QED
      BY <3>1, <3>2, <3>3, <1>2, <1>3, <1>7
  <2>3. nxt \in DOMAIN css /\ pivot <= css[nxt] /\ css[nxt] # -1
    <3>1. nxt \in DOMAIN css /\ pivot <= css[nxt]
      BY <2>2, <1>2, <1>5
    <3>2. css[nxt] \in Int
      BY <3>1, <1>2
    <3> QED
      BY <3>1, <3>2, <1>4
  <2>4. css[nxt] <= css[j]
    BY <2>1, <2>2, <2>3, <1>7, <1>2 DEF WrittenSorted
  <2>5. css[nxt] \in Int /\ css[j] \in Int
    BY <2>3, <1>2
  <2> QED
    BY <2>1, <2>3, <2>4, <2>5, <1>4
<1>11. CASE k # Middle /\ j = Middle
  <2>1. sizes[j] = pivot /\ sizes[k] = css[k] /\ css[k] # -1
    BY <1>11
  <2>2. k <= prev /\ call.first # 0
    <3>1. k >= 0
      BY <1>2
    <3>2. k < call.first \/ k >= nxt
      BY <2>1, <1>6
    <3>3. k <= Middle
      BY <1>11
    <3> QED
      BY <3>1, <3>2, <3>3, <1>2, <1>3, <1>7
  <2>3. prev \in DOMAIN css /\ css[prev] <= call.LB /\ css[prev] # -1
    BY <2>2, <1>2, <1>5
  <2>4. css[k] <= css[prev]
    BY <2>1, <2>2, <2>3 DEF WrittenSorted
  <2>5. css[prev] \in Int /\ css[k] \in Int
    BY <2>3, <1>2
  <2>6. css[k] <= call.LB
    BY <2>3, <2>4, <2>5, <1>2
  <2> QED
    BY <2>1, <2>5, <2>6, <1>2, <1>4, <1>5
<1> QED
  BY <1>8, <1>9, <1>10, <1>11

(* The neighbours of a call are written, so that what is written into      *)
(* another slot does not concern it.                                       *)
LEMMA OrderedKept ==
  ASSUME TypeInv, NEW c \in CallType, c.n # 0, Slots(c) \subseteq Unwritten,
         Ordered(c, c.LB, c.UB, c.seed),
         NEW i, css[i] = -1,
         NEW sizes, \A k \in DOMAIN css : k # i => sizes[k] = css[k]
  PROVE  InOrder(c, c.LB, c.UB, c.seed, sizes, args.n, Top)
<1> DEFINE nxt == c.first + c.n
           prev == c.first - 1
<1>1. /\ c.LB \in Nat
      /\ c.first # 0 => prev \in DOMAIN css
      /\ nxt # args.n => nxt \in DOMAIN css
  BY CallPlaced
<1>2. /\ InLimits(c, c.LB, c.UB, c.seed, args.n, Top)
      /\ AboveLeft(c, css)
      /\ BelowRight(c, c.LB, c.UB, c.seed, css, args.n)
  BY DEF Ordered, InOrder
<1>3. c.first # 0 => sizes[prev] = css[prev]
  BY <1>1, <1>2 DEF AboveLeft
<1>4. nxt # args.n => sizes[nxt] = css[nxt]
  <2>1. nxt # args.n => c.LB <= css[nxt]
    BY <1>2 DEF BelowRight
  <2>2. nxt # args.n => css[nxt] # -1
    BY <2>1, <1>1
  <2> QED
    BY <2>2, <1>1
<1>5. AboveLeft(c, sizes)
  BY <1>2, <1>3 DEF AboveLeft
<1>6. BelowRight(c, c.LB, c.UB, c.seed, sizes, args.n)
  BY <1>2, <1>4 DEF BelowRight
<1> QED
  BY <1>2, <1>5, <1>6 DEF InOrder

LEMMA OrderInit == Init /\ TypeInv => OrderInv
<1> SUFFICES ASSUME Init, TypeInv PROVE OrderInv
  OBVIOUS
<1>1. pending = <<>> /\ DOMAIN pending = {} /\ ~Searching
  BY DEF Init, Searching
<1>2. \A k \in DOMAIN css : css[k] = -1
  BY DEF Init
<1> QED
  BY <1>1, <1>2 DEF OrderInv, WrittenSorted

LEMMA OrderStep ==
  SlotsInv /\ SlotsInv' /\ OrderInv /\ [Next]_vars => OrderInv'
<1> SUFFICES ASSUME SlotsInv, SlotsInv', OrderInv, [Next]_vars,
                    ~failed', FitsWord', args'.n <= 4
             PROVE  /\ WrittenSorted'
                    /\ \A k \in DOMAIN pending' :
                         LET c == pending'[k]
                         IN  c.n # 0 =>
                               InOrder(c, c.LB, c.UB, c.seed, css', args'.n, Top')
                    /\ Searching' => InOrder(call', lb', ub', pivot', css', args'.n, Top')
  BY DEF OrderInv, Ordered
<1> USE DEF SlotsInv
<1>0. args' = args /\ ~failed /\ FitsWord /\ args.n <= 4 /\ Top' = Top
  <2>1. args' = args /\ cross' = cross
    BY UndecidedBefore
  <2>2. failed => failed'
    BY DEF Next, Eval, EvalExits, WarmUp, EnterEmpty, EnterSearch, Probe, Publish,
           Return, vars
  <2> QED
    BY <2>1, <2>2 DEF FitsWord, Top, ReachFor
<1>a. /\ WrittenSorted
      /\ \A k \in DOMAIN pending :
           LET c == pending[k]
           IN  c.n # 0 => InOrder(c, c.LB, c.UB, c.seed, css, args.n, Top)
      /\ Searching => InOrder(call, lb, ub, pivot, css, args.n, Top)
      /\ pending \in Seq(CallType)
  BY <1>0 DEF OrderInv, Ordered, TypeInv, TypeOK
<1>b. css' = css => WrittenSorted'
  BY <1>a DEF WrittenSorted
<1>1. CASE Eval \/ EvalExits \/ Return \/ UNCHANGED vars
  <2>1. UNCHANGED <<pending, call, lb, ub, pivot, css>> /\ (Searching' => Searching)
    BY <1>1 DEF Eval, EvalExits, Return, vars, search, Searching
  <2> QED
    BY <2>1, <1>0, <1>a, <1>b
<1>2. CASE WarmUp
  <2> DEFINE c == Call(args.hint, 0, args.n, args.depth, 0, 0)
  <2>1. /\ DOMAIN pending' = {1} /\ pending'[1] = c /\ css' = css /\ ~Searching'
    BY <1>2 DEF WarmUp, Searching
  <2>2. /\ c.LB = 0 /\ c.UB = 0 /\ c.seed = args.hint /\ c.first = 0 /\ c.n = args.n
    BY DEF Call
  <2> HIDE DEF c
  <2>3. ASSUME args.n # 0 PROVE InOrder(c, c.LB, c.UB, c.seed, css', args'.n, Top')
    <3>1. /\ args.n \in Nat /\ args.hint \in Nat /\ Top \in Nat /\ args.hint <= Top
          /\ Limit(args.n, Top) \in Nat /\ Top <= Limit(args.n, Top)
      BY <1>0, <2>3, TopFits
    <3>2. InLimits(c, 0, 0, args.hint, args.n, Top)
      BY <2>2, <3>1 DEF InLimits
    <3>3. AboveLeft(c, css) /\ BelowRight(c, 0, 0, args.hint, css, args.n)
      BY <2>2, <3>1 DEF AboveLeft, BelowRight
    <3> QED
      BY <2>1, <2>2, <3>2, <3>3, <1>0 DEF InOrder
  <2> QED
    BY <2>1, <2>2, <2>3, <1>b
<1>3. CASE EnterEmpty
  <2>1. pending # <<>> /\ pending' = Tail(pending) /\ css' = css /\ ~Searching'
    BY <1>3 DEF EnterEmpty, Searching
  <2>2. \A k \in DOMAIN pending' :
          k + 1 \in DOMAIN pending /\ pending'[k] = pending[k + 1]
    BY <2>1, <1>a, TailElements
  <2> QED
    BY <2>1, <2>2, <1>0, <1>a, <1>b
<1>4. CASE EnterSearch
  <2>1. /\ pending # <<>> /\ pending' = Tail(pending) /\ css' = css
        /\ call' = Head(pending) /\ Head(pending).n # 0
        /\ lb' = call'.LB /\ ub' = call'.UB /\ pivot' = call'.seed
    BY <1>4 DEF EnterSearch
  <2>2. /\ call' = pending[1] /\ 1 \in DOMAIN pending
        /\ \A k \in DOMAIN pending' :
             k + 1 \in DOMAIN pending /\ pending'[k] = pending[k + 1]
    BY <2>1, <1>a, TailElements
  <2>3. InOrder(call', lb', ub', pivot', css', args'.n, Top')
    BY <2>1, <2>2, <1>0, <1>a
  <2> QED
    BY <2>1, <2>2, <2>3, <1>0, <1>a, <1>b
<1>5. CASE Probe
  <2>1. UNCHANGED <<pending, call, css>> /\ Searching
    BY <1>5 DEF Probe, Searching
  <2>2. Ordered(call, lb, ub, pivot)
    BY <2>1, <1>a DEF Ordered
  <2>3. Ordered(call, lb', ub', pivot')
    BY <2>2, <1>5, <1>0, ProbeOrdered
  <2> QED
    BY <2>1, <2>3, <1>0, <1>a, <1>b DEF Ordered
<1>6. CASE Publish
  <2>1. /\ Searching /\ ~Searching' /\ call \in CallType /\ call.n # 0
        /\ pending' = <<SmallerHalf, LargerHalf>> \o pending
        /\ css' = [css EXCEPT ![Middle] = pivot]
    BY <1>6 DEF Publish, Searching, TypeInv, TypeOK
  <2>2. Ordered(call, lb, ub, pivot)
    BY <2>1, <1>a DEF Ordered
  <2>3. Middle \in DOMAIN css /\ css[Middle] = -1
    <3>1. Middle \in Unwritten
      BY <2>1, SlotsSplit DEF SlotsOwned
    <3> QED
      BY <3>1 DEF Unwritten
  <2>4. /\ css'[Middle] = pivot /\ DOMAIN css' = DOMAIN css
        /\ \A k \in DOMAIN css : k # Middle => css'[k] = css[k]
    BY <2>1, <2>3 DEF TypeInv, TypeOK
  <2>5. /\ pending'[1] = SmallerHalf /\ pending'[2] = LargerHalf
        /\ \A k \in DOMAIN pending' : k \notin {1, 2} =>
             k - 2 \in DOMAIN pending /\ pending'[k] = pending[k - 2]
    <3>1. SmallerHalf \in CallType /\ LargerHalf \in CallType
      BY <2>1, HalvesTyped DEF TypeInv, TypeOK
    <3> QED
      BY <2>1, <3>1, <1>a, PushElements
  <2>6. WrittenSorted'
    BY <2>1, <2>2, <2>4, <1>0, <1>a, PivotInOrder DEF WrittenSorted
  <2>7. LET c == SmallerHalf
        IN  c.n # 0 => InOrder(c, c.LB, c.UB, c.seed, css', args.n, Top)
    BY <2>1, <2>2, <2>4, <1>0, SmallerOrdered
  <2>8. LET c == LargerHalf
        IN  c.n # 0 => InOrder(c, c.LB, c.UB, c.seed, css', args.n, Top)
    BY <2>1, <2>2, <2>4, <1>0, LargerOrdered
  <2>9. ASSUME NEW k \in DOMAIN pending, pending[k].n # 0
        PROVE  LET c == pending[k]
               IN  InOrder(c, c.LB, c.UB, c.seed, css', args.n, Top)
    <3>1. /\ pending[k] \in CallType
          /\ Slots(pending[k]) \subseteq Unwritten
          /\ Ordered(pending[k], pending[k].LB, pending[k].UB, pending[k].seed)
      BY <2>9, <1>a DEF SlotsOwned, Ordered
    <3> QED
      BY <3>1, <2>3, <2>4, <2>9, OrderedKept
  <2>10. \A k \in DOMAIN pending' :
           LET c == pending'[k]
           IN  c.n # 0 => InOrder(c, c.LB, c.UB, c.seed, css', args.n, Top)
    <3> TAKE k \in DOMAIN pending'
    <3>1. CASE k = 1
      BY <3>1, <2>5, <2>7
    <3>2. CASE k = 2
      BY <3>2, <2>5, <2>8
    <3>3. CASE k \notin {1, 2}
      BY <3>3, <2>5, <2>9
    <3> QED
      BY <3>1, <3>2, <3>3
  <2> QED
    BY <2>1, <2>6, <2>10, <1>0
<1> QED
  BY <1>1, <1>2, <1>3, <1>4, <1>5, <1>6 DEF Next

(* With up to four samples the sizes that eval_cache_size returns do not   *)
(* decrease, whatever the measurements and the depth, as long as none of   *)
(* them failed and no sum overflowed.                                      *)
THEOREM OutputsSorted == Spec => []Sorted
<1>1. TypeInv /\ SlotsOwned /\ OrderInv => Sorted
  BY DEF SlotsOwned, Unwritten, OrderInv, WrittenSorted, Sorted
<1>2. Init /\ TypeInv => OrderInv
  BY OrderInit
<1>3. SlotsInv /\ SlotsInv' /\ OrderInv /\ [Next]_vars => OrderInv'
  BY OrderStep
<1> QED
  BY <1>1, <1>2, <1>3, SlotsAlwaysOwned, TypeInvInductive, PTL DEF SlotsInv, Spec

(* A scan is of the pivot, which keeps to the limits.                      *)
LEMMA ReachInit == Init /\ TypeInv => ReachBounded
<1> SUFFICES ASSUME Init, TypeInv, args.n \in 1 .. 4, FitsWord
             PROVE  touched <= (IF args.n >= 3 THEN 2 ELSE 1) * ReachFor(args.n - 1)
  BY DEF ReachBounded
<1>1. ReachFor(args.n - 1) \in Nat
  BY TopFits DEF Top
<1>2. touched = 0
  BY DEF Init
<1> QED
  BY <1>1, <1>2

LEMMA ReachStep ==
  SlotsInv /\ TypeInv' /\ OrderInv /\ ReachBounded /\ [Next]_vars => ReachBounded'
<1> SUFFICES ASSUME SlotsInv, TypeInv', OrderInv, ReachBounded, [Next]_vars,
                    args'.n \in 1 .. 4, ~failed', FitsWord'
             PROVE  \/ touched' <= MemAllocation /\ args'.warm
                    \/ touched' <= (IF args'.n >= 3 THEN 2 ELSE 1) * ReachFor(args.n - 1)'
  BY DEF ReachBounded
<1> USE DEF SlotsInv
<1>0. /\ args' = args /\ ~failed /\ FitsWord /\ args.n \in 1 .. 4
      /\ ReachFor(args.n - 1)' = Top
  <2>1. args' = args /\ cross' = cross
    BY UndecidedBefore
  <2>2. failed => failed'
    BY DEF Next, Eval, EvalExits, WarmUp, EnterEmpty, EnterSearch, Probe, Publish,
           Return, vars
  <2> QED
    BY <2>1, <2>2 DEF FitsWord, Top, ReachFor
<1>1. /\ Limit(args.n, Top) \in Nat
      /\ (IF args.n >= 3 THEN 2 ELSE 1) * Top = Limit(args.n, Top)
  <2>1. Top \in Nat /\ Limit(args.n, Top) \in Nat
    BY <1>0, TopFits
  <2> QED
    BY <2>1 DEF Limit
<1>2. \/ touched <= MemAllocation /\ args.warm
      \/ touched <= Limit(args.n, Top)
  BY <1>0, <1>1 DEF ReachBounded, Top
<1>3. \/ touched' <= MemAllocation /\ args.warm
      \/ touched' <= Limit(args.n, Top)
  <2>1. CASE WarmUp
    <3>1. touched' = IF args.warm THEN MemAllocation ELSE 0
      BY <2>1 DEF WarmUp
    <3> QED
      BY <3>1, <1>1, BoundsAssumption
  <2>2. CASE Probe
    <3>1. touched' = Larger(touched, pivot) /\ Searching
      BY <2>2 DEF Probe, Searching
    <3>2. pivot <= Limit(args.n, Top)
      BY <3>1, <1>0 DEF OrderInv, Ordered, InOrder, InLimits
    <3> QED
      BY <3>1, <3>2, <1>2 DEF Larger
  <2>3. CASE ~WarmUp /\ ~Probe
    <3>1. touched' = touched
      BY <2>3 DEF Next, Eval, EvalExits, EnterEmpty, EnterSearch, Publish, Return, vars
    <3> QED
      BY <3>1, <1>2
  <2> QED
    BY <2>1, <2>2, <2>3
<1> QED
  BY <1>0, <1>1, <1>3

(* No scan reaches further than the warm-up, the hint and twice the        *)
(* largest size that is fast enough for a target, or twice that far.       *)
THEOREM ScansBounded == Spec => []ReachBounded
<1>1. Init /\ TypeInv => OrderInv /\ ReachBounded
  BY OrderInit, ReachInit
<1>2. SlotsInv /\ SlotsInv' /\ OrderInv /\ ReachBounded /\ [Next]_vars =>
        OrderInv' /\ ReachBounded'
  BY OrderStep, ReachStep DEF SlotsInv
<1> QED
  BY <1>1, <1>2, SlotsAlwaysOwned, TypeInvInductive, PTL DEF SlotsInv, Spec
=============================================================================
