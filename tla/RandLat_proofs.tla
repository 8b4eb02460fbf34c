----------------------------- MODULE RandLat_proofs -----------------------------
(***************************************************************************)
(* Theorems about RandLat, for every size of the buffer, every number of   *)
(* data points, every set of counters and whatever the generator returns.  *)
(***************************************************************************)
EXTENDS RandLat, NumberFacts, PerfCounters_proofs, TLAPS

-----------------------------------------------------------------------------
(* Numbers                                                                 *)

(* Rounding up gives a multiple that is not smaller.                       *)
LEMMA RoundUpMultiple ==
  ASSUME NEW n \in Nat, NEW m \in Nat \ {0}
  PROVE  RoundUp(n, m) >= n /\ Multiple(RoundUp(n, m), m)
BY RoundedUp DEF RoundUp

(* Whole pages are whole strides.                                          *)
LEMMA MultipleOfMultiple ==
  ASSUME NEW x, NEW m \in Nat, NEW l \in Nat, Multiple(x, m), Multiple(m, l)
  PROVE  Multiple(x, l)
<1>1. PICK a \in Nat, b \in Nat : x = a * m /\ m = b * l
  BY DEF Multiple
<1>2. x = (a * b) * l /\ a * b \in Nat
  BY <1>1
<1> QED BY <1>2 DEF Multiple

(* A counter that wraps around at a multiple of its step stays one.        *)
LEMMA SumOfMultiples ==
  ASSUME NEW x \in Nat, NEW m \in Nat \ {0}, NEW w \in Nat \ {0},
         Multiple(x, m), Multiple(w, m)
  PROVE  Multiple((x + m) % w, m)
<1>1. PICK a \in Nat, b \in Nat : x = a * m /\ w = b * m
  BY DEF Multiple
<1> DEFINE q == (x + m) \div w
<1>2. q \in Nat /\ x + m = q * w + ((x + m) % w) /\ (x + m) % w \in Nat
  OBVIOUS
<1> HIDE DEF q
<1>3. (x + m) % w = (a + 1) * m - (q * b) * m /\ q * b \in Nat
  <2>1. q * w = (q * b) * m /\ q * b \in Nat /\ x + m = (a + 1) * m
    BY <1>1, <1>2
  <2>2. q * w \in Nat /\ (a + 1) * m \in Nat
    BY <1>1, <1>2
  <2> QED BY <1>2, <2>1, <2>2
<1>4. (x + m) % w = (a + 1 - q * b) * m
  <2> DEFINE c == q * b
  <2>1. c \in Nat
    BY <1>3
  <2> HIDE DEF c
  <2>2. (a + 1) * m - c * m = (a + 1 - c) * m
    BY <2>1
  <2> QED BY <1>3, <2>2 DEF c
<1>5. a + 1 - q * b \in Nat
  <2>1. a + 1 - q * b \in Int
    BY <1>3
  <2>2. a + 1 - q * b >= 0
    BY <2>1, <1>2, <1>4
  <2> QED BY <2>1, <2>2
<1> QED BY <1>4, <1>5 DEF Multiple
-----------------------------------------------------------------------------
(* The list                                                                *)

(* One round past the end is back where it was.                            *)
LEMMA ModuloOnce ==
  ASSUME NEW n \in Nat \ {0}, NEW x \in 0 .. n - 1
  PROVE  x % n = x /\ (x + n) % n = x
OBVIOUS

(* While an entry is not on the list, probing from anywhere finds one that *)
(* is not.                                                                 *)
LEMMA ProbeFindsFree ==
  ASSUME args.num_entries \in Nat \ {0}, bytemap \subseteq Entries,
         Cardinality(bytemap) < args.num_entries, NEW r \in Entries
  PROVE  Probe(r) \in Entries \ bytemap
<1> DEFINE n == args.num_entries
           at(k) == (r + k) % n
           T == {k \in Entries : at(k) \notin bytemap}
<1>1. PICK e \in Entries : e \notin bytemap
  <2>1. n - 1 \in Int /\ 0 <= n - 1
    OBVIOUS
  <2>2. Cardinality(Entries) = n
    BY <2>1, FS_Interval DEF Entries
  <2> QED BY <2>2
<1>2. \E k \in Entries : at(k) = e
  <2> USE DEF Entries
  <2>1. CASE e >= r
    <3>1. e - r \in Entries /\ r + (e - r) = e
      BY <1>1, <2>1
    <3>2. e % n = e
      BY <1>1, ModuloOnce
    <3> QED BY <3>1, <3>2
  <2>2. CASE e < r
    <3>1. e - r + n \in Entries /\ r + (e - r + n) = e + n
      BY <1>1, <2>2
    <3>2. (e + n) % n = e
      BY <1>1, ModuloOnce
    <3> QED BY <3>1, <3>2
  <2> QED BY <1>1, <2>1, <2>2
<1>3. PICK k \in T : \A j \in T : k <= j
  <2>1. T \in SUBSET Nat /\ T # {}
    BY <1>1, <1>2 DEF Entries
  <2> HIDE DEF T
  <2> QED BY <2>1, LeastNumber
<1>4. \E i \in Entries :
        at(i) \notin bytemap /\ \A j \in 0 .. i - 1 : at(j) \in bytemap
  <2>1. \A j \in 0 .. k - 1 : j \in Entries /\ j \notin T
    BY <1>3 DEF Entries
  <2> QED BY <1>3, <2>1
<1>5. PICK i \in Entries : Probe(r) = at(i) /\ at(i) \notin bytemap
  BY <1>4 DEF Probe
<1>6. at(i) \in Entries
  BY <1>5 DEF Entries
<1> QED BY <1>5, <1>6

(* The order in which the entries were put on the list: from head to       *)
(* offset each points to the next.                                         *)
Path(p) ==
  /\ bytemap = {p[i] : i \in 0 .. filled - 1}
  /\ \A i, j \in 0 .. filled - 1 : p[i] = p[j] => i = j
  /\ p[0] = head /\ p[filled - 1] = offset
  /\ \A i \in 0 .. filled - 2 : cll[p[i]] = p[i + 1]

ListGrows ==
  /\ pc \in {"call", "fill"} => filled = 0
  /\ pc = "link" =>
       /\ filled >= 1
       /\ IsFiniteSet(bytemap) /\ Cardinality(bytemap) = filled
       /\ \E p \in [Entries -> Entries] : Path(p)

(* A list that was built leads from every entry to an entry.               *)
ListCloses ==
  pc \in AfterFill /\ filled = args.num_entries =>
    /\ cll \in [Entries -> Entries]
    /\ pc \in {"turn", "load"} => ptr \in Entries

(* The mapping is whole pages, as the steps of the warm-up are whole       *)
(* strides, and large enough.                                              *)
WholePages ==
  /\ Multiple(mapped, Page) /\ Multiple(warm, Stride)
  /\ pc = "call" /\ args.buffer # 0 => args.num_entries <= mapped
  /\ pc \in {"fill", "link", "warm up"} => args.num_entries <= mapped

(* From the time a data point has its counters, they are open.             *)
CountersOpen ==
  pc \in {"start", "clock", "turn", "load", "stop", "collect"} =>
    \A c \in Counters : lpcs[c].fd

(* What is left to load is not negative until the traversal is done.       *)
LoadsLeft ==
  pc \in {"turn", "load"} => left >= 0

Inv ==
  /\ TypeOK
  /\ ListGrows
  /\ ListCloses
  /\ WholePages
  /\ SingleCycle
  /\ AccessesMapped
  /\ DescriptorsOwned
  /\ CountersOpen
  /\ LoadsLeft

(* The arguments of a call are of their types.                             *)
LEMMA ArgsType ==
  ASSUME args \in Args
  PROVE  /\ args.num_entries \in Nat \ {0}
         /\ args.buffer \in Nat /\ args.buffer % Page = 0
         /\ args.buffer = 0 \/ args.num_entries <= args.buffer
         /\ args.num_points \in Nat /\ args.timing \in Timings
BY ArgsAssumption DEF ArgumentType

(* The invariant holds when the function is called.                        *)
LEMMA InitInv == Init => Inv
<1> SUFFICES ASSUME Init PROVE Inv
  OBVIOUS
<1> DEFINE n == args.num_entries
<1>a. /\ n \in Nat \ {0} /\ args.buffer \in Nat /\ args.buffer % Page = 0
      /\ args.buffer = 0 \/ n <= args.buffer
  BY ArgsType DEF Init
<1>s. Stride \in Nat \ {0} /\ Page \in Nat \ {0} /\ Word \in Nat \ {0}
      /\ Batch \in Nat \ {0} /\ Accesses \in Nat \ {0}
  BY SizesAssumption
<1>1. TypeOK
  <2>1. PICK m \in 0 .. n : cll = EarlierList(m)
    BY <1>a DEF Init
  <2>2. \A i \in Entries : i < m => (i + 1) % m \in Entries
    BY <1>a, <2>1 DEF Entries
  <2>3. cll \in [Entries -> Entries \cup {Junk}]
    BY <2>1, <2>2 DEF EarlierList
  <2>4. 0 \in Entries /\ 0 \in 0 .. n /\ 0 \in 0 .. Word - 1
        /\ 0 \in -Batch .. Accesses /\ 0 \in 0 .. Batch
    BY <1>a, <1>s DEF Entries
  <2>5. PerfTypeOK
    BY DEF Init, NoCounters, PerfTypeOK, Absent, LinuxPerfCounter, Events
  <2> QED BY <1>a, <2>3, <2>4, <2>5 DEF Init, TypeOK, AfterFill
<1>2. WholePages
  <2>1. Multiple(mapped, Page)
    BY <1>a, <1>s, RemainderZero DEF Init
  <2>2. Multiple(warm, Stride)
    BY <1>s DEF Init, Multiple
  <2> QED BY <1>a, <2>1, <2>2 DEF Init, WholePages
<1>3. ListGrows /\ ListCloses /\ SingleCycle /\ AccessesMapped
  BY DEF Init, ListGrows, ListCloses, SingleCycle, AccessesMapped, AfterFill
<1>4. DescriptorsOwned /\ CountersOpen /\ LoadsLeft
  BY DEF Init, NoCounters, DescriptorsOwned, CountersOpen, Absent, LoadsLeft
<1> QED BY <1>1, <1>2, <1>3, <1>4 DEF Inv

-----------------------------------------------------------------------------
(* The steps                                                               *)

(* The constants, the arguments and the counters in one place.             *)
LEMMA Bounds ==
  ASSUME Inv
  PROVE  /\ Stride \in Nat \ {0} /\ Page \in Nat \ {0} /\ Word \in Nat \ {0}
         /\ Batch \in Nat \ {0} /\ Accesses \in Nat \ {0}
         /\ args.num_entries \in Nat \ {0}
         /\ PerfTypeOK /\ DescriptorsOwned
BY ArgsType, SizesAssumption DEF Inv, TypeOK

(* A new entry is put at the end of the path.                              *)
LEMMA LinkStep ==
  ASSUME Inv, Link
  PROVE  Inv'
<1> DEFINE n == args.num_entries
<1>a. n \in Nat \ {0}
  BY Bounds
<1>b. /\ pc = "link" /\ pc' = pc /\ filled < n /\ filled >= 1 /\ filled \in Nat
      /\ bytemap \subseteq Entries /\ IsFiniteSet(bytemap)
      /\ Cardinality(bytemap) = filled /\ head \in Entries /\ offset \in Entries
      /\ cll \in [Entries -> Entries \cup {Junk}]
  BY <1>a DEF Inv, TypeOK, ListGrows, Link
<1>c. /\ cll' = [cll EXCEPT ![offset] = offset']
      /\ bytemap' = bytemap \cup {offset'} /\ filled' = filled + 1 /\ head' = head
      /\ UNCHANGED <<buf, warm, registers, output, perf>>
  BY DEF Link
<1>d. args' = args /\ Entries' = Entries
  BY <1>c DEF buf, Entries
<1>e. offset' \in Entries \ bytemap
  BY <1>a, <1>b, ProbeFindsFree DEF Link
<1>1. TypeOK'
  <2>1. cll' \in [Entries -> Entries \cup {Junk}] /\ bytemap' \subseteq Entries
        /\ filled' \in 0 .. n /\ head' \in Entries /\ offset' \in Entries
    BY <1>a, <1>b, <1>c, <1>e
  <2>2. PerfTypeOK'
    BY <1>c, Bounds DEF perf, PerfTypeOK
  <2> QED BY <1>b, <1>c, <1>d, <2>1, <2>2 DEF Inv, TypeOK, buf, registers, output
<1>2. ListGrows'
  <2>1. IsFiniteSet(bytemap') /\ Cardinality(bytemap') = filled'
    BY <1>b, <1>c, <1>e, FS_AddElement
  <2>2. PICK p \in [Entries -> Entries] : Path(p)
    BY <1>b DEF Inv, ListGrows
  <2>q. PICK q : q = [p EXCEPT ![filled] = offset']
    OBVIOUS
  <2>3. q \in [Entries -> Entries]
    BY <1>e, <2>2, <2>q
  <2>4. filled \in Entries /\ \A i \in 0 .. filled - 1 : i \in Entries /\ i # filled
    BY <1>a, <1>b DEF Entries
  <2>5. q[filled] = offset' /\ \A i \in 0 .. filled - 1 : q[i] = p[i]
    BY <2>2, <2>4, <2>q
  <2>6. \A i \in 0 .. filled - 1 : p[i] \in bytemap
    BY <2>2 DEF Path
  <2>7. bytemap' = {q[i] : i \in 0 .. filled' - 1}
    <3>1. 0 .. filled' - 1 = (0 .. filled - 1) \cup {filled}
      BY <1>b, <1>c
    <3> QED BY <1>c, <2>2, <2>5, <3>1 DEF Path
  <2>8. \A i, j \in 0 .. filled' - 1 : q[i] = q[j] => i = j
    <3>1. \A i \in 0 .. filled' - 1 : i \in 0 .. filled - 1 \/ i = filled
      BY <1>b, <1>c
    <3>2. \A i \in 0 .. filled - 1 : q[i] # q[filled]
      BY <1>e, <2>5, <2>6
    <3> QED BY <2>2, <2>5, <3>1, <3>2 DEF Path
  <2>9. q[0] = head' /\ q[filled' - 1] = offset'
    BY <1>b, <1>c, <2>2, <2>5 DEF Path
  <2>10. \A i \in 0 .. filled' - 2 : cll'[q[i]] = q[i + 1]
    <3> SUFFICES ASSUME NEW i \in 0 .. filled' - 2 PROVE cll'[q[i]] = q[i + 1]
      OBVIOUS
    <3>1. i \in 0 .. filled - 1 /\ q[i] = p[i] /\ p[i] \in Entries
      BY <1>b, <1>c, <2>2, <2>4, <2>5
    <3>2. CASE i = filled - 1
      BY <1>b, <1>c, <2>2, <2>5, <3>1, <3>2 DEF Path
    <3>3. CASE i # filled - 1
      <4>1. i \in 0 .. filled - 2 /\ i + 1 \in 0 .. filled - 1
            /\ filled - 1 \in 0 .. filled - 1
        BY <1>b, <3>1, <3>3
      <4>2. p[i] # offset
        BY <2>2, <3>1, <3>3, <4>1 DEF Path
      <4>3. cll'[p[i]] = cll[p[i]]
        BY <1>b, <1>c, <3>1, <4>2
      <4> QED BY <2>2, <2>5, <3>1, <4>1, <4>3 DEF Path
    <3> QED BY <3>2, <3>3
  <2>11. Path(q)'
    BY <2>7, <2>8, <2>9, <2>10 DEF Path
  <2>12. filled' >= 1 /\ pc' = "link"
    BY <1>b, <1>c
  <2> QED BY <1>d, <2>1, <2>3, <2>11, <2>12 DEF ListGrows
<1>3. ListCloses' /\ SingleCycle' /\ AccessesMapped' /\ CountersOpen' /\ LoadsLeft'
  BY <1>b DEF ListCloses, SingleCycle, AccessesMapped, CountersOpen, LoadsLeft,
              AfterFill
<1>4. WholePages'
  BY <1>b, <1>c DEF Inv, WholePages, buf
<1>5. DescriptorsOwned'
  BY <1>c, Bounds DEF perf, DescriptorsOwned
<1> QED BY <1>1, <1>2, <1>3, <1>4, <1>5 DEF Inv

(* The last entry is made to point to the first: the path is a cycle.      *)
LEMMA CloseStep ==
  ASSUME Inv, CloseCycle
  PROVE  Inv'
<1> DEFINE n == args.num_entries
<1>a. n \in Nat \ {0}
  BY Bounds
<1>b. pc = "link" /\ pc' = "warm up" /\ filled = n
  <2>1. pc = "link" /\ pc' = "warm up" /\ filled >= n
    BY DEF CloseCycle
  <2>2. filled \in Nat /\ filled <= n
    BY <1>a DEF Inv, TypeOK
  <2>3. filled >= n
    BY <2>1
  <2>4. filled = n
    BY ONLY <1>a, <2>2, <2>3
  <2> QED BY <2>1, <2>4
<1>k. /\ bytemap \subseteq Entries /\ IsFiniteSet(bytemap)
      /\ Cardinality(bytemap) = n /\ head \in Entries /\ offset \in Entries
      /\ cll \in [Entries -> Entries \cup {Junk}]
  BY <1>b DEF Inv, TypeOK, ListGrows
<1>c. /\ cll' = [cll EXCEPT ![offset] = head]
      /\ UNCHANGED <<bytemap, head, offset, filled, buf, warm, registers, output, perf>>
  BY DEF CloseCycle
<1>d. args' = args /\ Entries' = Entries
  BY <1>c DEF buf, Entries
<1>e. bytemap = Entries
  <2>1. n - 1 \in Int /\ 0 <= n - 1
    BY <1>a
  <2>2. IsFiniteSet(Entries)
    BY <2>1, FS_Interval DEF Entries
  <2>3. Cardinality(Entries) = n
    BY <1>a, <2>1, FS_Interval DEF Entries
  <2> QED BY <1>b, <1>k, <2>2, <2>3, FS_Subset
<1>f. PICK p \in [Entries -> Entries] : Path(p)
  BY <1>b DEF Inv, ListGrows
<1>g. /\ Entries = {p[i] : i \in Entries}
      /\ \A i, j \in Entries : p[i] = p[j] => i = j
      /\ \A i \in 0 .. n - 2 : cll[p[i]] = p[i + 1]
  BY <1>b, <1>k, <1>e, <1>f DEF Path, Entries
<1>h. p[0] = head /\ p[n - 1] = offset
  BY <1>b, <1>k, <1>f DEF Path
<1>i. ASSUME NEW i \in Entries PROVE cll'[p[i]] = p[(i + 1) % n]
  <2>1. CASE i = n - 1
    <3>1. (i + 1) % n = 0
      BY <1>a, <2>1
    <3> QED BY <1>b, <1>k, <1>c, <1>h, <2>1, <3>1
  <2>2. CASE i # n - 1
    <3>1. i \in 0 .. n - 2 /\ i + 1 \in 0 .. n - 1 /\ n - 1 \in Entries
      BY <1>a, <2>2 DEF Entries
    <3>2. (i + 1) % n = i + 1
      BY <1>a, <3>1, ModuloOnce
    <3>3. p[i] # offset /\ p[i] \in Entries
      BY <1>f, <1>g, <1>h, <2>2, <3>1
    <3> QED BY <1>b, <1>k, <1>c, <1>g, <3>1, <3>2, <3>3
  <2> QED BY <2>1, <2>2
<1>1. TypeOK'
  <2>1. cll' \in [Entries -> Entries \cup {Junk}]
    BY <1>b, <1>k, <1>c
  <2>2. PerfTypeOK'
    BY <1>c, Bounds DEF perf, PerfTypeOK
  <2> QED BY <1>b, <1>k, <1>c, <1>d, <2>1, <2>2
          DEF Inv, TypeOK, buf, registers, output, AfterFill
<1>2. ListGrows' /\ AccessesMapped' /\ CountersOpen' /\ LoadsLeft'
  BY <1>b DEF ListGrows, AccessesMapped, CountersOpen, LoadsLeft
<1>3. ListCloses'
  <2>1. ASSUME NEW e \in Entries PROVE cll'[e] \in Entries
    <3>1. PICK i \in Entries : e = p[i]
      BY <1>g
    <3>2. (i + 1) % n \in Entries
      BY <1>a DEF Entries
    <3> QED BY <1>f, <1>i, <3>1, <3>2
  <2>2. cll' \in [Entries -> Entries]
    BY <1>b, <1>k, <1>c, <2>1
  <2> QED BY <1>b, <1>k, <1>d, <2>2 DEF ListCloses
<1>4. SingleCycle'
  <2>1. Cycle(cll', n)
    BY <1>f, <1>g, <1>i DEF Cycle, Entries
  <2> QED BY <1>d, <2>1 DEF SingleCycle
<1>5. WholePages'
  BY <1>b, <1>k, <1>c DEF Inv, WholePages, buf
<1>6. DescriptorsOwned'
  BY <1>c, Bounds DEF perf, DescriptorsOwned
<1> QED BY <1>1, <1>2, <1>3, <1>4, <1>5, <1>6 DEF Inv

(* Before there is a list.                                                 *)
LEMMA BuildStep ==
  ASSUME Inv, Allocate \/ AllocateFails \/ Fill \/ FillFails
  PROVE  Inv'
<1> DEFINE n == args.num_entries
<1>a. n \in Nat \ {0} /\ Page \in Nat \ {0} /\ mapped \in Nat
  BY Bounds DEF Inv, TypeOK
<1>b. /\ args' = args /\ Entries' = Entries /\ filled = 0
      /\ UNCHANGED <<cll, warm, registers, points, rows, perf>>
  BY DEF Inv, ListGrows, Allocate, AllocateFails, Fill, FillFails, buf, list,
         output, Entries
<1>c. PerfTypeOK' /\ DescriptorsOwned'
  BY <1>b, Bounds, PerfStep DEF perf
<1>d. mapped' \in Nat /\ Multiple(mapped', Page)
      /\ (pc' \in {"fill", "link", "warm up"} => n <= mapped')
  <2>1. CASE Allocate /\ args.buffer = 0
    <3>1. mapped' = RoundUp(n, Page)
      BY <2>1 DEF Allocate
    <3>2. mapped' >= n /\ Multiple(mapped', Page)
      BY <1>a, <3>1, RoundUpMultiple DEF Multiple
    <3>3. mapped' \in Nat
      <4>1. PICK k \in Nat : mapped' = k * Page
        BY <3>2 DEF Multiple
      <4> QED BY <1>a, <4>1
    <3> QED BY <1>a, <3>2, <3>3
  <2>2. CASE Allocate /\ args.buffer # 0
    BY <1>a, <2>2 DEF Allocate, Inv, WholePages
  <2>3. CASE AllocateFails \/ Fill \/ FillFails
    BY <1>a, <2>3 DEF AllocateFails, Fill, FillFails, Inv, WholePages, buf
  <2> QED BY <2>1, <2>2, <2>3
<1>1. CASE Fill
  <2>1. /\ pc' = "link" /\ head' \in Entries /\ offset' = head' /\ bytemap' = {head'}
        /\ filled' = 1 /\ UNCHANGED <<buf, output>>
    BY <1>1 DEF Fill
  <2>2. TypeOK'
    BY <1>a, <1>b, <1>c, <1>d, <2>1 DEF Inv, TypeOK, registers, output
  <2>3. ListGrows'
    <3>1. IsFiniteSet(bytemap') /\ Cardinality(bytemap') = 1
      BY <2>1, FS_Singleton
    <3>p. PICK p : p = [e \in Entries |-> head']
      OBVIOUS
    <3>2. p \in [Entries -> Entries] /\ p[0] = head'
      BY <1>a, <2>1, <3>p DEF Entries
    <3>3. Path(p)'
      <4>1. 0 .. filled' - 1 = {0} /\ 0 .. filled' - 2 = {}
        BY <2>1
      <4>2. filled' - 1 = 0
        BY <2>1
      <4> QED BY <2>1, <3>2, <4>1, <4>2 DEF Path
    <3> QED BY <1>b, <2>1, <3>1, <3>2, <3>3 DEF ListGrows
  <2>4. ListCloses' /\ SingleCycle' /\ AccessesMapped' /\ CountersOpen' /\ LoadsLeft'
    BY <2>1 DEF ListCloses, SingleCycle, AccessesMapped, CountersOpen, LoadsLeft,
                AfterFill
  <2>5. WholePages'
    BY <1>b, <1>d, <2>1 DEF Inv, WholePages
  <2> QED BY <1>c, <2>2, <2>3, <2>4, <2>5 DEF Inv
<1>2. CASE Allocate \/ AllocateFails \/ FillFails
  <2>1. pc' \in {"fill", "warm up", "return"} /\ ret' \in {0, -1} /\ UNCHANGED list
    BY <1>2 DEF Inv, TypeOK, Allocate, AllocateFails, FillFails, output
  <2>2. TypeOK'
    BY <1>b, <1>c, <1>d, <2>1 DEF Inv, TypeOK, list, registers, AfterFill
  <2>3. /\ ListGrows' /\ ListCloses' /\ SingleCycle' /\ AccessesMapped'
        /\ CountersOpen' /\ LoadsLeft'
    BY <1>a, <1>b, <2>1 DEF ListGrows, ListCloses, SingleCycle, AccessesMapped,
         CountersOpen, LoadsLeft, list
  <2>4. WholePages'
    BY <1>b, <1>d, <2>1 DEF Inv, WholePages
  <2> QED BY <1>c, <2>2, <2>3, <2>4 DEF Inv
<1> QED BY <1>1, <1>2

(* Once there is a list, or the attempt to build one has failed, no step   *)
(* changes it.                                                             *)
LEMMA KeepsList ==
  ASSUME Inv, pc \in AfterFill, pc' \in AfterFill \cup Ended, UNCHANGED <<args, list>>,
         pc' \in {"turn", "load"} /\ filled = args.num_entries => ptr' \in Entries,
         pc' = "segv" => filled < args.num_entries
  PROVE  ListGrows' /\ ListCloses' /\ SingleCycle' /\ AccessesMapped'
<1>1. ListGrows'
  BY DEF ListGrows, AfterFill, Ended
<1>2. ListCloses'
  BY DEF Inv, ListCloses, Entries, list
<1>3. SingleCycle'
  BY DEF Inv, SingleCycle, list
<1>4. AccessesMapped'
  BY DEF AccessesMapped, list
<1> QED BY <1>1, <1>2, <1>3, <1>4

(* The mapping is whole pages and pages are whole strides: the warm-up     *)
(* never leaves it.                                                        *)
LEMMA WarmUpStep ==
  ASSUME Inv, WarmUp \/ WarmedUp
  PROVE  Inv'
<1> DEFINE n == args.num_entries
<1>a. /\ n \in Nat \ {0} /\ Page \in Nat \ {0} /\ Stride \in Nat \ {0}
      /\ Word \in Nat \ {0} /\ mapped \in Nat /\ warm \in Nat
  BY Bounds DEF Inv, TypeOK
<1>b. /\ UNCHANGED <<buf, list, registers, output, perf>> /\ args' = args
      /\ pc = "warm up" /\ mapped' = mapped
  BY DEF WarmUp, WarmedUp, buf
<1>c. /\ Multiple(mapped, Page) /\ Multiple(warm, Stride) /\ n <= mapped
      /\ Multiple(Page, Stride) /\ Multiple(Word, Stride)
  BY <1>a, <1>b, SizesAssumption, RemainderZero DEF Inv, WholePages
<1>d. warm < n => warm + Stride <= mapped
  <2> SUFFICES ASSUME warm < n PROVE warm + Stride <= mapped
    OBVIOUS
  <2>1. Multiple(mapped, Stride)
    BY <1>a, <1>c, MultipleOfMultiple
  <2>2. PICK a \in Nat, b \in Nat : warm = a * Stride /\ mapped = b * Stride
    BY <1>c, <2>1 DEF Multiple
  <2>3. a * Stride < b * Stride
    BY <1>a, <1>c, <2>2
  <2> QED BY <1>a, <2>2, <2>3, NextMultiple
<1>e. /\ pc' \in {"warm up", "measure"}
      /\ warm' \in 0 .. Word - 1 /\ Multiple(warm', Stride)
  <2>1. CASE WarmUp
    <3>1. pc' = pc /\ warm' = (warm + Stride) % Word
      BY <1>d, <2>1 DEF WarmUp
    <3>2. Multiple(warm', Stride)
      BY <1>a, <1>c, <3>1, SumOfMultiples
    <3>3. warm' \in 0 .. Word - 1
      BY <1>a, <3>1
    <3> QED BY <1>b, <3>1, <3>2, <3>3
  <2>2. CASE WarmedUp
    BY <1>c, <2>2 DEF WarmedUp, Inv, TypeOK
  <2> QED BY <2>1, <2>2
<1>1. TypeOK'
  <2>1. PerfTypeOK'
    BY <1>b, Bounds DEF perf, PerfTypeOK
  <2> QED BY <1>b, <1>e, <2>1
          DEF Inv, TypeOK, list, registers, output, Entries, AfterFill
<1>2. ListGrows' /\ ListCloses' /\ SingleCycle' /\ AccessesMapped'
  BY <1>b, <1>e, KeepsList DEF AfterFill
<1>3. WholePages'
  BY <1>b, <1>c, <1>e DEF WholePages
<1>4. DescriptorsOwned'
  BY <1>b, Bounds DEF perf, DescriptorsOwned
<1>5. CountersOpen' /\ LoadsLeft'
  BY <1>e DEF CountersOpen, LoadsLeft
<1> QED BY <1>1, <1>2, <1>3, <1>4, <1>5 DEF Inv

(* The traversal goes from entry to entry, if the list was built.          *)
LEMMA TraverseStep ==
  ASSUME Inv,
         Clock \/ TurnX86 \/ TurnArm \/ Load \/ LoadedX86 \/ LoadedArm \/ Segv
  PROVE  Inv'
<1> DEFINE n == args.num_entries
           sizes == left' \in -Batch .. Accesses /\ loads' \in 0 .. Batch
           pointer == ptr' \in Entries \cup {Junk} /\ seen' \subseteq Entries
           steps == /\ pc' \in {"turn", "load", "stop", "segv"}
                    /\ pc' \in {"turn", "load"} => left' >= 0
           follows == filled = n =>
                        /\ pc' \in {"turn", "load"} => ptr' \in Entries
                        /\ pc' # "segv"
<1>a. /\ n \in Nat \ {0} /\ Batch \in Nat \ {0} /\ Accesses \in Nat \ {0}
      /\ left \in -Batch .. Accesses /\ loads \in 0 .. Batch /\ Len(points) \in Nat
      /\ (pc \in {"turn", "load"} => left >= 0) /\ filled \in 0 .. n
  BY Bounds DEF Inv, TypeOK, LoadsLeft
<1>t. /\ cll \in [Entries -> Entries \cup {Junk}]
      /\ ptr \in Entries \cup {Junk} /\ seen \subseteq Entries
  BY DEF Inv, TypeOK
<1>b. /\ UNCHANGED <<buf, list, warm, output, perf>> /\ args' = args
      /\ pc \in {"clock", "turn", "load"} /\ Entries' = Entries
  BY DEF Clock, TurnX86, TurnArm, Load, LoadedX86, LoadedArm, Segv, buf, Entries
<1>l. filled = n =>
        cll \in [Entries -> Entries] /\ (pc \in {"turn", "load"} => ptr \in Entries)
  BY <1>b DEF Inv, ListCloses, AfterFill
<1>j. Junk \notin Entries
  BY <1>a DEF Junk, Entries
<1>c. sizes /\ pointer /\ steps /\ follows
  <2>1. CASE Clock
    <3>1. ptr' \in Entries
      BY <1>a, <2>1 DEF Clock, Entries
    <3> QED BY <1>a, <2>1, <3>1 DEF Clock
  <2>2. CASE TurnX86
    <3>1. pc = "turn" /\ left' = left - Batch /\ loads' = 0 /\ ptr' = ptr /\ seen' = seen
      BY <2>2 DEF TurnX86
    <3>2. sizes
      BY <1>a, <3>1
    <3>3. steps /\ pc' # "segv"
      BY <1>a, <2>2, <3>1 DEF TurnX86
    <3> QED BY <1>t, <1>l, <3>1, <3>2, <3>3
  <2>3. CASE TurnArm
    BY <1>a, <1>t, <1>l, <2>3 DEF TurnArm
  <2>4. CASE Load
    <3>1. /\ pc = "load" /\ pc' = pc /\ left' = left /\ loads < Batch
          /\ loads' = loads + 1 /\ ptr # Junk /\ ptr' = cll[ptr]
          /\ seen' = seen \cup {ptr}
      BY <2>4 DEF Load
    <3>2. sizes /\ steps
      BY <1>a, <3>1
    <3> QED BY <1>t, <1>l, <3>1, <3>2
  <2>5. CASE LoadedX86
    BY <1>a, <1>t, <1>l, <2>5 DEF LoadedX86, registers
  <2>6. CASE LoadedArm
    <3>1. /\ pc = "load" /\ left' = left - Batch /\ loads' = loads /\ ptr' = ptr
          /\ seen' = seen
      BY <2>6 DEF LoadedArm
    <3>2. sizes
      BY <1>a, <3>1
    <3>3. steps /\ pc' # "segv"
      BY <1>a, <2>6, <3>1 DEF LoadedArm
    <3> QED BY <1>t, <1>l, <3>1, <3>2, <3>3
  <2>7. CASE Segv
    BY <1>a, <1>t, <1>l, <1>j, <2>7 DEF Segv, registers
  <2> QED BY <2>1, <2>2, <2>3, <2>4, <2>5, <2>6, <2>7
<1>1. TypeOK'
  <2>1. PerfTypeOK'
    BY <1>b, Bounds DEF perf, PerfTypeOK
  <2> QED BY <1>b, <1>c, <2>1
          DEF Inv, TypeOK, buf, list, output, AfterFill, Ended
<1>2. ListGrows' /\ ListCloses' /\ SingleCycle' /\ AccessesMapped'
  <2>1. pc \in AfterFill /\ pc' \in AfterFill \cup Ended
    BY <1>b, <1>c DEF AfterFill, Ended
  <2>2. pc' \in {"turn", "load"} /\ filled = n => ptr' \in Entries
    BY <1>c
  <2>3. pc' = "segv" => filled < n
    BY <1>a, <1>c
  <2> QED BY <1>b, <2>1, <2>2, <2>3, KeepsList
<1>3. WholePages'
  BY <1>b, <1>c DEF Inv, WholePages, buf
<1>4. DescriptorsOwned'
  BY <1>b, Bounds DEF perf, DescriptorsOwned
<1>5. CountersOpen'
  BY <1>b DEF Inv, CountersOpen, perf
<1>6. LoadsLeft'
  BY <1>c DEF LoadsLeft
<1> QED BY <1>1, <1>2, <1>3, <1>4, <1>5, <1>6 DEF Inv

(* Around the traversal the counters are opened, started, stopped and      *)
(* closed, on every way out of it.                                         *)
LEMMA PointStep ==
  ASSUME Inv,
         \/ Measure \/ Start \/ CounterExits \/ NoTiming \/ NoClock
         \/ Stop \/ Collect \/ CleanUp
  PROVE  Inv'
<1>a. PerfTypeOK /\ DescriptorsOwned
  BY Bounds
<1>b. /\ UNCHANGED <<list, registers, warm>> /\ args' = args /\ Entries' = Entries
      /\ pc \in {"measure", "start", "clock", "stop", "collect"}
      /\ pc' \in {"start", "clock", "exit", "measure", "collect", "return"}
  BY DEF Measure, Start, CounterExits, NoTiming, NoClock, Stop, Collect, CleanUp,
         Point, buf, Entries
<1>c. /\ mapped' = mapped \/ mapped' = 0
      /\ points' = points
         \/ \E value \in {"latency", "-0xffff", "0"} : points' = Append(points, value)
      /\ rows' = rows \/ rows' = rows + 1
      /\ ret' = ret \/ ret' = 0
  <2>1. CASE Measure \/ Start \/ CounterExits \/ Stop
    BY <2>1 DEF Measure, Start, CounterExits, Stop, buf, output
  <2>2. CASE NoTiming \/ NoClock
    BY <2>2 DEF NoTiming, NoClock, Point, buf
  <2>3. CASE Collect
    BY <2>3 DEF Collect, Point, buf
  <2>4. CASE CleanUp
    BY <2>4 DEF CleanUp
  <2> QED BY <2>1, <2>2, <2>3, <2>4
<1>d. PerfTypeOK' /\ DescriptorsOwned' /\ CountersOpen'
  <2>1. CASE Measure
    <3>1. Construct
      BY <2>1 DEF Measure
    <3> QED BY <1>a, <3>1, PerfStep DEF Construct, Moved, Opened, CountersOpen
  <2>2. CASE Start
    <3>1. StartPerfEvents /\ \A c \in Counters : lpcs[c].fd
      BY <2>2 DEF Start, Inv, CountersOpen
    <3>2. PerfTypeOK' /\ DescriptorsOwned'
      BY <1>a, <3>1, PerfStep
    <3>3. \A c \in Counters : lpcs'[c].fd
      BY <1>a, <3>1 DEF StartPerfEvents, PerfTypeOK, LinuxPerfCounter
    <3> QED BY <3>2, <3>3 DEF CountersOpen
  <2>3. CASE Stop
    <3>1. StopPerfEvents /\ \A c \in Counters : lpcs[c].fd
      BY <2>3 DEF Stop, Inv, CountersOpen
    <3>2. PerfTypeOK' /\ DescriptorsOwned'
      BY <1>a, <3>1, PerfStep
    <3>3. ASSUME NEW c \in Counters PROVE lpcs'[c].fd
      <4>1. lpcs[c] \in LinuxPerfCounter /\ lpcs[c].fd
        BY <1>a, <3>1 DEF PerfTypeOK
      <4>2. CASE lpcs[c].started
        <5>1. PICK readable : lpcs'[c] =
                [lpcs[c] EXCEPT !.started = FALSE,
                                !.counter = IF c \in readable THEN "count" ELSE @]
          BY <3>1, <4>2 DEF StopPerfEvents
        <5> QED BY <4>1, <5>1 DEF LinuxPerfCounter
      <4>3. CASE ~lpcs[c].started
        BY <3>1, <4>1, <4>3 DEF StopPerfEvents
      <4> QED BY <4>2, <4>3
    <3> QED BY <3>2, <3>3 DEF CountersOpen
  <2>4. CASE NoTiming \/ NoClock \/ Collect
    <3>1. DestroyCounters /\ pc' = "measure"
      BY <2>4 DEF NoTiming, NoClock, Collect, Point
    <3> QED BY <1>a, <3>1, PerfStep DEF CountersOpen
  <2>5. CASE CounterExits \/ CleanUp
    <3>1. UNCHANGED perf /\ pc' \in {"exit", "return"}
      BY <2>5 DEF CounterExits, CleanUp
    <3> QED BY <1>a, <3>1, PerfStep DEF CountersOpen
  <2> QED BY <2>1, <2>2, <2>3, <2>4, <2>5
<1>1. TypeOK'
  <2>1. points' \in Seq({"latency", "-0xffff", "0"})
    <3> DEFINE Values == {"latency", "-0xffff", "0"}
    <3>1. points \in Seq(Values)
      BY DEF Inv, TypeOK
    <3>2. points' = points \/ \E value \in Values : points' = Append(points, value)
      BY <1>c
    <3> HIDE DEF Values
    <3>3. points' \in Seq(Values)
      BY <3>1, <3>2
    <3> QED BY <3>3 DEF Values
  <2>2. mapped' \in Nat /\ rows' \in Nat /\ ret' \in {0, -1}
    BY <1>c DEF Inv, TypeOK
  <2> QED BY <1>b, <1>d, <2>1, <2>2
          DEF Inv, TypeOK, list, registers, AfterFill, Ended
<1>2. ListGrows' /\ ListCloses' /\ SingleCycle' /\ AccessesMapped'
  BY <1>b, KeepsList DEF AfterFill, Ended
<1>3. WholePages'
  <2>1. Multiple(0, Page)
    BY Bounds DEF Multiple
  <2> QED BY <1>b, <1>c, <2>1 DEF Inv, WholePages
<1>4. LoadsLeft'
  BY <1>b DEF LoadsLeft
<1> QED BY <1>1, <1>2, <1>3, <1>4, <1>d DEF Inv

(* A step that changes nothing.                                            *)
LEMMA StutterStep ==
  ASSUME Inv, UNCHANGED vars
  PROVE  Inv'
<1>1. UNCHANGED <<pc, buf, list, warm, registers, output, perf>>
  BY DEF vars
<1>2. TypeOK' /\ DescriptorsOwned' /\ CountersOpen' /\ LoadsLeft'
  BY <1>1 DEF Inv, TypeOK, PerfTypeOK, DescriptorsOwned, CountersOpen, LoadsLeft,
              Entries, buf, list, registers, output, perf
<1>3. ListGrows'
  BY <1>1 DEF Inv, ListGrows, Path, Entries, buf, list
<1>4. ListCloses' /\ SingleCycle' /\ AccessesMapped' /\ WholePages'
  BY <1>1 DEF Inv, ListCloses, SingleCycle, AccessesMapped, WholePages, Entries,
              buf, list, registers
<1> QED BY <1>2, <1>3, <1>4 DEF Inv

(* The invariant is inductive.                                             *)
LEMMA Inductive == Spec => []Inv
<1>1. Inv /\ [Next]_vars => Inv'
  BY LinkStep, CloseStep, BuildStep, WarmUpStep, TraverseStep, PointStep,
     StutterStep DEF Next
<1> QED BY InitInv, <1>1, PTL DEF Spec

-----------------------------------------------------------------------------
(* Theorems                                                                *)

(* Every variable keeps its type: no entry is put outside of the buffer by *)
(* the linear probing of rand_latency, and no address of another kind is   *)
(* followed.                                                               *)
THEOREM TypeCorrect == Spec => []TypeOK
<1>1. Inv => TypeOK
  BY DEF Inv
<1> QED BY Inductive, <1>1, PTL

(* Whatever xorshf96 returns, the list that is followed is one cycle       *)
(* through all entries of the buffer.                                      *)
THEOREM ListIsOneCycle == Spec => []SingleCycle
<1>1. Inv => SingleCycle
  BY DEF Inv
<1> QED BY Inductive, <1>1, PTL

(* Neither the warm-up nor the traversal of a list that was built accesses *)
(* anything outside of the mapping.                                        *)
THEOREM NoStrayAccess == Spec => []AccessesMapped
<1>1. Inv => AccessesMapped
  BY DEF Inv
<1> QED BY Inductive, <1>1, PTL

(* No descriptor of a counter is leaked, closed twice or used once closed, *)
(* on any way through the measurement of the points.                       *)
THEOREM DescriptorsAlwaysOwned == Spec => []DescriptorsOwned
<1>1. Inv => DescriptorsOwned
  BY DEF Inv
<1> QED BY Inductive, <1>1, PTL

-----------------------------------------------------------------------------
(* How the traversal loads the whole buffer.                               *)

(* A way along the list that visits all entries, from s on.                *)
Way(q, l, n, s) ==
  /\ q \in [0 .. n - 1 -> 0 .. n - 1]
  /\ q[0] = s
  /\ \A e \in 0 .. n - 1 : \E i \in 0 .. n - 1 : q[i] = e
  /\ \A i \in 0 .. n - 2 : l[q[i]] = q[i + 1]

(* A cycle visits all its entries from wherever it is begun.               *)
LEMMA CycleFrom ==
  ASSUME NEW n \in Nat \ {0}, NEW l, Cycle(l, n), NEW s \in 0 .. n - 1
  PROVE  \E q : Way(q, l, n, s)
<1> DEFINE E == 0 .. n - 1
<1>1. PICK p \in [E -> E] :
        /\ \A i, j \in E : p[i] = p[j] => i = j
        /\ \A i \in E : l[p[i]] = p[(i + 1) % n]
  BY DEF Cycle
<1>2. \A e \in E : \E i \in E : p[i] = e
  <2>1. p \in Injection(E, E)
    BY <1>1 DEF Injection, IsInjective
  <2>2. IsFiniteSet(E)
    BY FS_Interval
  <2>3. p \in Surjection(E, E)
    BY <2>1, <2>2, FS_Injection
  <2> QED BY <2>3 DEF Surjection
<1>3. PICK b \in E : p[b] = s
  BY <1>2
<1>q. PICK q : q = [i \in E |-> p[(b + i) % n]]
  OBVIOUS
<1>4. ASSUME NEW i \in E
      PROVE  /\ b + i < n => (b + i) % n = b + i
             /\ b + i >= n => (b + i) % n = b + i - n
             /\ (b + i) % n \in E /\ q[i] = p[(b + i) % n]
  <2>1. CASE b + i < n
    <3>1. b + i \in 0 .. n - 1
      BY <2>1
    <3>2. (b + i) % n = b + i
      BY <3>1, ModuloOnce
    <3> QED BY <1>q, <2>1, <3>1, <3>2
  <2>2. CASE b + i >= n
    <3>1. b + i - n \in 0 .. n - 1 /\ b + i = (b + i - n) + n
      BY <2>2
    <3>2. (b + i) % n = b + i - n
      BY <3>1, ModuloOnce
    <3> QED BY <1>q, <2>2, <3>1, <3>2
  <2> QED BY <2>1, <2>2
<1>5. q \in [E -> E]
  BY <1>1, <1>4, <1>q
<1>6. q[0] = s
  <2>1. 0 \in E /\ b + 0 = b /\ b < n
    OBVIOUS
  <2> QED BY <1>3, <1>4, <2>1
<1>7. ASSUME NEW e \in E PROVE \E i \in E : q[i] = e
  <2>1. PICK j \in E : p[j] = e
    BY <1>2
  <2>2. CASE j >= b
    <3>1. j - b \in E /\ b + (j - b) = j /\ j < n
      BY <2>2
    <3> QED BY <1>4, <2>1, <3>1
  <2>3. CASE j < b
    <3>1. PICK i \in E : i = j - b + n
      BY <2>3
    <3>2. b + i >= n /\ b + i - n = j
      BY <3>1
    <3>3. q[i] = p[b + i - n]
      BY <1>4, <3>2
    <3> QED BY <2>1, <3>2, <3>3
  <2> QED BY <2>2, <2>3
<1>8. ASSUME NEW i \in 0 .. n - 2 PROVE l[q[i]] = q[i + 1]
  <2> DEFINE x == (b + i) % n
             y == (b + (i + 1)) % n
  <2>1. i \in E /\ i + 1 \in E
    OBVIOUS
  <2>2. x \in E /\ q[i] = p[x] /\ q[i + 1] = p[y]
    BY <1>4, <2>1
  <2>3. /\ b + i < n => x = b + i
        /\ b + i >= n => x = b + i - n
    BY <1>4, <2>1
  <2>4. /\ b + i + 1 < n => y = b + i + 1
        /\ b + i + 1 >= n => y = b + i + 1 - n
    <3>1. b + (i + 1) = b + i + 1
      OBVIOUS
    <3>2. /\ b + (i + 1) < n => y = b + (i + 1)
          /\ b + (i + 1) >= n => y = b + (i + 1) - n
      BY <1>4, <2>1
    <3> QED BY <3>1, <3>2
  <2> HIDE DEF x, y
  <2>5. (x + 1) % n = y
    <3>1. CASE b + i + 1 = n
      <4>1. x + 1 = 0 + n /\ y = 0 /\ 0 \in 0 .. n - 1
        <5>1. x = b + i
          BY <2>3, <3>1
        <5>2. y = b + i + 1 - n
          BY <2>4, <3>1
        <5> QED BY <3>1, <5>1, <5>2
      <4> QED BY <4>1, ModuloOnce
    <3>2. CASE b + i + 1 # n
      <4>1. x + 1 = y /\ y \in 0 .. n - 1
        <5>1. CASE b + i + 1 < n
          <6>1. x = b + i /\ y = b + i + 1
            BY <2>3, <2>4, <5>1
          <6> QED BY <5>1, <6>1
        <5>2. CASE b + i >= n
          <6>1. x = b + i - n /\ y = b + i + 1 - n
            BY <2>3, <2>4, <5>2
          <6> QED BY <2>1, <5>2, <6>1
        <5> QED BY <3>2, <5>1, <5>2
      <4> QED BY <4>1, ModuloOnce
    <3> QED BY <3>1, <3>2
  <2> QED BY <1>1, <2>2, <2>5
<1> QED BY <1>5, <1>6, <1>7, <1>8 DEF Way

(* The loads of the current data point that were made.                     *)
LoadsMade ==
  Accesses - left +
    (IF pc # "load" THEN 0
     ELSE IF args.arch = "x86_64" THEN loads - Batch ELSE loads)

(* An order of all entries in which each leads to the next.                *)
Order(p) ==
  /\ p \in [Entries -> Entries]
  /\ \A e \in Entries : \E i \in Entries : p[i] = e
  /\ \A i \in 0 .. args.num_entries - 2 : cll[p[i]] = p[i + 1]

(* How far the traversal came in it.                                       *)
Walked(p) ==
  /\ LoadsMade < args.num_entries =>
       ptr = p[LoadsMade] /\ seen = {p[i] : i \in 0 .. LoadsMade - 1}
  /\ LoadsMade >= args.num_entries => seen = Entries

Position ==
  filled = args.num_entries =>
    /\ pc \in {"turn", "load"} =>
         /\ Multiple(left, Batch) /\ LoadsMade \in Nat
         /\ \E p : Order(p) /\ Walked(p)
    /\ pc \in {"stop", "collect"} /\ Accesses >= args.num_entries => seen = Entries

(* Each step of the traversal is the next on the way, and it is not left   *)
(* before all loads were made.                                             *)
LEMMA PositionStep ==
  ASSUME Inv, Inv', Position, [Next]_vars
  PROVE  Position'
<1> DEFINE n == args.num_entries
<1>a. /\ n \in Nat \ {0} /\ Batch \in Nat \ {0} /\ Accesses \in Nat \ {0}
      /\ left \in -Batch .. Accesses /\ loads \in 0 .. Batch /\ Len(points) \in Nat
      /\ (pc \in {"turn", "load"} => left >= 0) /\ args.arch \in {"x86_64", "aarch64"}
  <2>1. args.arch \in {"x86_64", "aarch64"}
    BY ArgsAssumption DEF Inv, TypeOK, ArgumentType
  <2>2. left \in -Batch .. Accesses /\ loads \in 0 .. Batch /\ Len(points) \in Nat
    BY DEF Inv, TypeOK
  <2> QED BY Bounds, <2>1, <2>2 DEF Inv, LoadsLeft
<1>1. CASE \/ Allocate \/ AllocateFails \/ Fill \/ FillFails \/ Link \/ CloseCycle
           \/ WarmUp \/ WarmedUp \/ Measure \/ Start \/ CounterExits
  <2>1. pc' \notin {"turn", "load", "stop", "collect"}
    BY <1>1 DEF Allocate, AllocateFails, Fill, FillFails, Link, CloseCycle, WarmUp,
         WarmedUp, Measure, Start, CounterExits
  <2> QED BY <2>1 DEF Position
<1>2. CASE NoTiming \/ NoClock \/ Segv \/ Collect \/ CleanUp
  <2>1. pc' \notin {"turn", "load", "stop", "collect"}
    BY <1>2 DEF NoTiming, NoClock, Point, Segv, Collect, CleanUp
  <2> QED BY <2>1 DEF Position
<1>3. CASE UNCHANGED vars
  <2>1. UNCHANGED <<pc, args, cll, filled, left, loads, ptr, seen>>
    BY <1>3 DEF vars, buf, list, registers
  <2> QED BY <2>1 DEF Position, Order, Walked, LoadsMade, Entries
<1>4. CASE Stop
  <2>1. pc = "stop" /\ pc' = "collect" /\ UNCHANGED <<args, filled, seen>>
    BY <1>4 DEF Stop, buf, list, registers
  <2> QED BY <2>1 DEF Position, Entries
<1>5. CASE Clock \/ TurnX86 \/ TurnArm \/ Load \/ LoadedX86 \/ LoadedArm
  <2> SUFFICES ASSUME filled' = args'.num_entries
               PROVE  /\ pc' \in {"turn", "load"} =>
                           /\ Multiple(left', Batch) /\ LoadsMade' \in Nat
                           /\ \E p : Order(p)' /\ Walked(p)'
                      /\ pc' \in {"stop", "collect"} /\ Accesses >= args'.num_entries =>
                           seen' = Entries'
    BY DEF Position
  <2>k. UNCHANGED <<args, cll, filled>> /\ Entries' = Entries /\ filled = n
    BY <1>5 DEF Clock, TurnX86, TurnArm, Load, LoadedX86, LoadedArm, buf, list, Entries
  <2>o. ASSUME NEW p, Order(p) PROVE Order(p)'
    BY <2>k, <2>o DEF Order
  <2>1. CASE Clock
    <3>1. /\ pc = "clock" /\ pc' = "turn" /\ left' = Accesses
          /\ ptr' = Len(points) % n /\ seen' = {}
      BY <2>1 DEF Clock
    <3>2. Len(points) % n \in 0 .. n - 1
      BY <1>a
    <3>3. Cycle(cll, n)
      BY <2>k, <3>1 DEF Inv, SingleCycle, AfterFill
    <3>w. PICK q : Way(q, cll, n, Len(points) % n)
      BY <1>a, <3>2, <3>3, CycleFrom
    <3>4. /\ q \in [0 .. n - 1 -> 0 .. n - 1]
          /\ q[0] = Len(points) % n
          /\ \A e \in 0 .. n - 1 : \E i \in 0 .. n - 1 : q[i] = e
          /\ \A i \in 0 .. n - 2 : cll[q[i]] = q[i + 1]
      BY <3>w DEF Way
    <3>5. Order(q)
      BY <3>4 DEF Order, Entries
    <3>6. LoadsMade' = 0
      BY <1>a, <3>1 DEF LoadsMade
    <3>7. Walked(q)'
      BY <1>a, <2>k, <3>1, <3>4, <3>6 DEF Walked
    <3>8. Multiple(left', Batch)
      BY <1>a, <3>1, SizesAssumption, RemainderZero
    <3> QED BY <2>o, <3>1, <3>5, <3>6, <3>7, <3>8
  <2>w. ASSUME pc \in {"turn", "load"}
        PROVE  /\ Multiple(left, Batch) /\ LoadsMade \in Nat
               /\ \E p : Order(p) /\ Walked(p)
    BY <2>k, <2>w DEF Position
  <2>s. ASSUME LoadsMade' = LoadsMade, ptr' = ptr, seen' = seen, NEW p, Walked(p)
        PROVE  Walked(p)'
    BY <2>k, <2>s DEF Walked
  <2>2. CASE TurnX86
    <3>1. /\ pc = "turn" /\ args.arch = "x86_64" /\ left' = left - Batch /\ loads' = 0
          /\ pc' = IF left' < 0 THEN "stop" ELSE "load"
          /\ ptr' = ptr /\ seen' = seen
      BY <2>2 DEF TurnX86
    <3>2. PICK k \in Nat : left = k * Batch
      BY <2>w, <3>1 DEF Multiple
    <3>3. CASE left' >= 0
      <4>1. pc' = "load" /\ LoadsMade' = LoadsMade
        BY <1>a, <2>k, <3>1, <3>3 DEF LoadsMade
      <4>2. Multiple(left', Batch)
        <5>1. k # 0
          BY <1>a, <3>1, <3>2, <3>3
        <5>2. k - 1 \in Nat /\ left' = (k - 1) * Batch
          BY <1>a, <3>1, <3>2, <5>1
        <5> QED BY <5>2 DEF Multiple
      <4> QED BY <2>w, <2>o, <2>s, <3>1, <4>1, <4>2
    <3>4. CASE left' < 0
      <4>1. left = 0
        <5>1. ASSUME k >= 1 PROVE FALSE
          <6>1. PICK d \in Nat : k = d + 1
            BY <5>1
          <6>2. left = d * Batch + Batch /\ d * Batch \in Nat
            BY <1>a, <3>2, <6>1
          <6> QED BY <1>a, <3>1, <3>4, <6>2
        <5>2. k = 0
          BY <5>1
        <5> QED BY <1>a, <3>2, <5>2
      <4>2. LoadsMade = Accesses /\ pc' = "stop"
        BY <1>a, <3>1, <3>4, <4>1 DEF LoadsMade
      <4> QED BY <2>k, <2>w, <3>1, <4>2 DEF Walked
    <3> QED BY <1>a, <3>1, <3>3, <3>4
  <2>3. CASE TurnArm
    <3>1. /\ pc = "turn" /\ args.arch = "aarch64" /\ loads' = 0 /\ pc' = "load"
          /\ UNCHANGED <<left, ptr, seen>>
      BY <2>3 DEF TurnArm
    <3>2. LoadsMade' = LoadsMade
      BY <1>a, <2>k, <3>1 DEF LoadsMade
    <3> QED BY <2>w, <2>o, <2>s, <3>1, <3>2
  <2>4. CASE Load
    <3>1. /\ pc = "load" /\ pc' = "load" /\ loads' = loads + 1 /\ left' = left
          /\ ptr' = cll[ptr] /\ seen' = seen \cup {ptr}
      BY <2>4 DEF Load
    <3>2. LoadsMade' = LoadsMade + 1
      BY <1>a, <2>k, <3>1 DEF LoadsMade
    <3>3. PICK p : Order(p) /\ Walked(p)
      BY <2>w, <3>1
    <3>m. PICK m \in Nat : m = LoadsMade
      BY <2>w, <3>1
    <3>4. CASE m < n
      <4>1. ptr = p[m] /\ seen = {p[i] : i \in 0 .. m - 1}
        BY <3>3, <3>m, <3>4 DEF Walked
      <4>2. seen' = {p[i] : i \in 0 .. m}
        <5>1. 0 .. m = (0 .. m - 1) \cup {m}
          BY <3>m
        <5> QED BY <3>1, <4>1, <5>1
      <4>3. CASE m + 1 < n
        <5>1. m \in 0 .. n - 2 /\ m + 1 - 1 = m
          BY <1>a, <3>m, <4>3
        <5>2. ptr' = p[m + 1]
          BY <3>1, <3>3, <4>1, <5>1 DEF Order
        <5> QED BY <1>a, <2>k, <2>o, <2>w, <3>1, <3>2, <3>3, <3>m, <4>2, <4>3, <5>1, <5>2
                DEF Walked
      <4>4. CASE m + 1 >= n
        <5>1. 0 .. m = Entries
          BY <1>a, <3>m, <3>4, <4>4 DEF Entries
        <5>2. seen' = Entries
          BY <3>3, <4>2, <5>1 DEF Order
        <5> QED BY <1>a, <2>k, <2>o, <2>w, <3>1, <3>2, <3>3, <3>m, <4>4, <5>2 DEF Walked
      <4> QED BY <1>a, <3>m, <4>3, <4>4
    <3>5. CASE m >= n
      <4>1. seen = Entries
        BY <3>3, <3>m, <3>5 DEF Walked
      <4>2. ptr \in Entries
        BY <2>k, <3>1 DEF Inv, ListCloses, AfterFill
      <4>3. seen' = Entries /\ m + 1 >= n
        BY <1>a, <3>1, <3>m, <3>5, <4>1, <4>2
      <4> QED BY <1>a, <2>k, <2>o, <2>w, <3>1, <3>2, <3>3, <3>m, <4>3 DEF Walked
    <3> QED BY <1>a, <3>m, <3>4, <3>5
  <2>5. CASE LoadedX86
    <3>1. /\ pc = "load" /\ loads = Batch /\ args.arch = "x86_64" /\ pc' = "turn"
          /\ UNCHANGED <<left, ptr, seen>>
      BY <2>5 DEF LoadedX86, registers
    <3>2. LoadsMade' = LoadsMade
      BY <1>a, <2>k, <3>1 DEF LoadsMade
    <3> QED BY <2>w, <2>o, <2>s, <3>1, <3>2
  <2>6. CASE LoadedArm
    <3>1. /\ pc = "load" /\ loads = Batch /\ args.arch = "aarch64"
          /\ left' = left - Batch /\ pc' = IF left' <= 0 THEN "stop" ELSE "turn"
          /\ UNCHANGED <<ptr, seen>>
      BY <2>6 DEF LoadedArm
    <3>2. LoadsMade = Accesses - left'
      BY <1>a, <3>1 DEF LoadsMade
    <3>3. CASE left' <= 0
      <4>1. LoadsMade >= Accesses /\ pc' = "stop"
        BY <1>a, <3>1, <3>2, <3>3
      <4>2. Accesses >= n => LoadsMade >= n
        BY <1>a, <2>w, <3>1, <4>1
      <4> QED BY <2>k, <2>w, <3>1, <4>1, <4>2 DEF Walked
    <3>4. CASE left' > 0
      <4>1. pc' = "turn" /\ LoadsMade' = LoadsMade
        BY <1>a, <3>1, <3>2, <3>4 DEF LoadsMade
      <4>2. Multiple(left', Batch)
        <5>1. PICK k \in Nat : left = k * Batch
          BY <2>w, <3>1 DEF Multiple
        <5>2. k # 0
          BY <1>a, <3>1, <3>4, <5>1
        <5>3. k - 1 \in Nat /\ left' = (k - 1) * Batch
          BY <1>a, <3>1, <5>1, <5>2
        <5> QED BY <5>3 DEF Multiple
      <4> QED BY <2>w, <2>o, <2>s, <3>1, <4>1, <4>2
    <3> QED BY <1>a, <3>1, <3>3, <3>4
  <2> QED BY <1>5, <2>1, <2>2, <2>3, <2>4, <2>5, <2>6
<1> QED BY <1>1, <1>2, <1>3, <1>4, <1>5 DEF Next

(* A latency that is measured over at least as many loads as the list has  *)
(* entries is that of the whole buffer, on both machines.                  *)
THEOREM AllEntriesLoaded == Spec => []WholeBufferLoaded
<1>1. Init => Position
  BY DEF Init, Position
<1>2. Inv /\ Position => WholeBufferLoaded
  BY DEF Position, WholeBufferLoaded
<1>3. Inv /\ Inv' /\ Position /\ [Next]_vars => Position'
  BY PositionStep
<1> QED BY Inductive, <1>1, <1>2, <1>3, PTL DEF Spec
=============================================================================
