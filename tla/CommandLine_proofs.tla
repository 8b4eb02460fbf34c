--------------------------- MODULE CommandLine_proofs ---------------------------
(***************************************************************************)
(* Theorems about CommandLine and Schedule, for every value of their       *)
(* constants.                                                              *)
(***************************************************************************)
EXTENDS CommandLine, NumberFacts, SequenceTheorems

EntryType ==
  [buffer_size : Nat, enable_thp : BOOLEAN, thp_num_datapoints : Nat,
   enable_lat : BOOLEAN, lat_num_datapoints : Nat]

ScheduleTypes ==
  /\ show_perf \in BOOLEAN
  /\ schedule \in Seq(Entries)
  /\ i \in Nat /\ i <= Len(schedule) + 1
  /\ kind \in Kinds \cup {"none"}
  /\ iter_results \in Seq(Kinds \cup {"none"})
  /\ lpcs \in [there : BOOLEAN, rows : Seq(Kinds)]
  /\ mapped \in Nat /\ Multiple(mapped, Page)
  /\ ret \in ReturnCodes \cup {NotCalled}

(* The buffer is there while entries are worked on, and as large as the    *)
(* last of them asks for.                                                  *)
BufferForLast ==
  /\ pc \in {"map", "entry", "test", "collect"} => schedule # <<>>
  /\ pc \in {"entry", "test", "collect"} =>
       i # 0 /\ Last(schedule).buffer_size <= mapped

(* The test that is run or was just run is one of the entry's; the array   *)
(* has room for its results, and there are rows only for throughput.       *)
TestOfEntry ==
  pc \in {"test", "collect"} =>
    /\ i # 0 /\ i <= Len(schedule)
    /\ kind \in Kinds
    /\ kind = "latency" => Entry.enable_lat
    /\ kind # "latency" => Entry.enable_thp
    /\ Len(iter_results) = Cells(Entry)
    /\ lpcs.there <=> (Entry.enable_thp /\ show_perf)
    /\ pc = "test" \/ ~lpcs.there => lpcs.rows = <<>>

ScheduleInv ==
  ScheduleTypes /\ BufferForLast /\ TestOfEntry /\ CollectsThisTest /\ WellFormedSafe

(* The entries of a schedule are entries.                                  *)
LEMMA EntryTyped ==
  ASSUME schedule \in Seq(Entries)
  PROVE  /\ \A k \in 1 .. Len(schedule) : schedule[k] \in EntryType
         /\ schedule # <<>> => Last(schedule) \in EntryType
<1>1. \A k \in 1 .. Len(schedule) : schedule[k] \in EntryType
  BY ScheduleAssumption DEF EntryType
<1>2. ASSUME schedule # <<>> PROVE Len(schedule) \in 1 .. Len(schedule)
  BY <1>2
<1> QED
  BY <1>1, <1>2 DEF Last

(* What follows a test in an entry is a test that is enabled there.        *)
LEMMA KindAfterEnabled ==
  ASSUME NEW e \in EntryType, NEW k \in Kinds \cup {"none"},
         k \in {"read", "write"} => e.enable_thp
  PROVE  /\ KindAfter(e, k) \in Kinds \cup {"none"}
         /\ KindAfter(e, k) = "latency" => e.enable_lat
         /\ KindAfter(e, k) \in {"read", "write"} => e.enable_thp
BY DEF KindAfter, Kinds, EntryType

(* The array is large enough for either kind of test.                      *)
LEMMA RoomForResults ==
  ASSUME NEW e \in EntryType, NEW k
  PROVE  Datapoints(e, k) \in Nat /\ Cells(e) \in Nat /\ Datapoints(e, k) <= Cells(e)
<1>1. e.thp_num_datapoints \in Nat /\ e.lat_num_datapoints \in Nat
  BY DEF EntryType
<1>2. Datapoints(e, k) \in {e.thp_num_datapoints, e.lat_num_datapoints}
  BY DEF Datapoints
<1> QED
  BY <1>1, <1>2 DEF Cells, Larger

(* A step of the parser or a way out of ci_schedule disturbs nothing.      *)
LEMMA ParsingStep ==
  ASSUME ScheduleInv,
         Open \/ OpenFails \/ ParseEntry \/ ParseThrows \/ ParseEnds \/ Check
  PROVE  ScheduleInv'
<1> USE DEF ScheduleInv
<1>1. /\ UNCHANGED <<show_perf, i, kind, iter_results, lpcs, mapped>>
      /\ pc' \in {"parse", "done", "aborted", "check", "map"}
  BY DEF Open, OpenFails, ParseEntry, ParseThrows, ParseEnds, Check, Leave, parameters,
         local
<1>2. schedule' = schedule \/ \E e \in Entries : schedule' = Append(schedule, e)
  BY DEF Open, OpenFails, ParseEntry, ParseThrows, ParseEnds, Check
<1>3. schedule' \in Seq(Entries) /\ Len(schedule) <= Len(schedule')
  <2>1. schedule \in Seq(Entries)
    BY DEF ScheduleTypes
  <2>2. ASSUME NEW e \in Entries
        PROVE  Append(schedule, e) \in Seq(Entries) /\ Len(schedule) <= Len(Append(schedule, e))
    BY <2>1
  <2>3. CASE schedule' = schedule
    BY <2>1, <2>3
  <2>4. CASE schedule' # schedule
    BY <1>2, <2>2, <2>4
  <2> QED
    BY <2>3, <2>4
<1>4. ret' \in ReturnCodes \cup {NotCalled}
  <2>1. ret' \in {ret, -65535, -1}
    BY DEF Open, OpenFails, ParseEntry, ParseThrows, ParseEnds, Check, Leave
  <2> QED
    BY <2>1 DEF ScheduleTypes, ReturnCodes
<1>5. ScheduleTypes'
  <2>1. i' \in Nat /\ i' <= Len(schedule') + 1
    BY <1>1, <1>3 DEF ScheduleTypes
  <2> QED
    BY <1>1, <1>3, <1>4, <2>1 DEF ScheduleTypes
<1>6. BufferForLast'
  <2>1. CASE Check
    <3>1. pc' = "map" => schedule # <<>>
      BY <2>1 DEF Check, Leave
    <3> QED
      BY <2>1, <3>1, <1>1 DEF Check, BufferForLast
  <2>2. CASE ~Check
    BY <2>2 DEF Open, OpenFails, ParseEntry, ParseThrows, ParseEnds, BufferForLast
  <2> QED
    BY <2>1, <2>2
<1> QED
  BY <1>1, <1>5, <1>6 DEF TestOfEntry, CollectsThisTest, WellFormedSafe

LEMMA MapStep ==
  ASSUME ScheduleInv, Map \/ MapFails
  PROVE  ScheduleInv'
<1> USE DEF ScheduleInv
<1>1. CASE Map
  <2>1. /\ UNCHANGED <<parameters, schedule, kind, iter_results, lpcs, ret>>
        /\ mapped' = RoundUp(Last(schedule).buffer_size, Page)
        /\ i' = 1 /\ pc' = "entry"
    BY <1>1 DEF Map
  <2>2. schedule # <<>> /\ schedule \in Seq(Entries)
    BY <1>1 DEF Map, BufferForLast, ScheduleTypes
  <2>3. /\ mapped' \in Nat /\ Multiple(mapped', Page)
        /\ Last(schedule).buffer_size <= mapped'
    <3>1. Last(schedule).buffer_size \in Nat
      BY <2>2, EntryTyped DEF EntryType
    <3>2. Page \in Nat \ {0}
      BY ScheduleAssumption
    <3> DEFINE n == Last(schedule).buffer_size
    <3>3. /\ ((n + Page - 1) \div Page) * Page >= n
          /\ Multiple(((n + Page - 1) \div Page) * Page, Page)
      BY <3>1, <3>2, RoundedUp
    <3>4. \A x : Multiple(x, Page) => x \in Nat
      BY <3>2 DEF Multiple
    <3>5. mapped' = ((n + Page - 1) \div Page) * Page
      BY <2>1 DEF RoundUp
    <3> QED
      BY <3>1, <3>3, <3>4, <3>5
  <2>4. ScheduleTypes'
    <3>1. i' \in Nat /\ i' <= Len(schedule') + 1
      BY <2>1, <2>2
    <3> QED
      BY <2>1, <2>3, <3>1 DEF ScheduleTypes, parameters
  <2> QED
    BY <2>1, <2>2, <2>3, <2>4
       DEF BufferForLast, TestOfEntry, CollectsThisTest, WellFormedSafe
<1>2. CASE MapFails
  <2>1. UNCHANGED <<parameters, schedule, local, mapped>> /\ pc' = "done" /\ ret' = -2
    BY <1>2 DEF MapFails, Leave
  <2>2. ret' \in ReturnCodes
    BY <2>1 DEF ReturnCodes
  <2>3. ScheduleTypes'
    BY <2>1, <2>2 DEF ScheduleTypes, local, parameters
  <2> QED
    BY <2>1, <2>3 DEF BufferForLast, TestOfEntry, CollectsThisTest, WellFormedSafe
<1> QED
  BY <1>1, <1>2

LEMMA BeginEntryStep == ASSUME ScheduleInv, BeginEntry PROVE ScheduleInv'
<1> USE DEF ScheduleInv
<1>0. /\ UNCHANGED <<show_perf, schedule, mapped, ret>>
      /\ pc = "entry" /\ i <= Len(schedule)
      /\ i # 0 /\ i \in Nat /\ schedule \in Seq(Entries)
  BY DEF BeginEntry, BufferForLast, ScheduleTypes, parameters
<1>1. Entry \in EntryType
  BY <1>0, EntryTyped DEF Entry
<1>2. /\ kind' = KindAfter(Entry, "none")
      /\ \/ kind' = "none" /\ i' = i + 1 /\ pc' = "entry"
         \/ kind' # "none" /\ i' = i /\ pc' = "test"
  BY <1>0 DEF BeginEntry
<1>3. /\ kind' \in Kinds \cup {"none"}
      /\ kind' = "latency" => Entry.enable_lat
      /\ kind' \in {"read", "write"} => Entry.enable_thp
  BY <1>1, <1>2, KindAfterEnabled
<1>4. /\ iter_results' \in Seq(Kinds \cup {"none"})
      /\ Len(iter_results') = Cells(Entry)
  <2> DEFINE n == Cells(Entry)
  <2>1. n \in Nat
    BY <1>1, RoomForResults
  <2>2. iter_results' = [k \in 1 .. n |-> "none"]
    BY DEF BeginEntry
  <2> HIDE DEF n
  <2>3. [k \in 1 .. n |-> "none"] \in Seq(Kinds \cup {"none"})
        /\ Len([k \in 1 .. n |-> "none"]) = n
    BY <2>1
  <2>4. iter_results' \in Seq(Kinds \cup {"none"}) /\ Len(iter_results') = n
    BY <2>2, <2>3
  <2> QED
    BY <2>4 DEF n
<1>5. /\ lpcs' \in [there : BOOLEAN, rows : Seq(Kinds)]
      /\ lpcs'.there <=> (Entry.enable_thp /\ show_perf)
      /\ lpcs'.rows = <<>>
  <2> DEFINE both == Entry.enable_thp /\ show_perf
  <2>1. lpcs' = [there |-> both, rows |-> <<>>]
    BY DEF BeginEntry
  <2>2. both \in BOOLEAN
    OBVIOUS
  <2> HIDE DEF both
  <2>3. <<>> \in Seq(Kinds)
    OBVIOUS
  <2>4. lpcs' \in [there : BOOLEAN, rows : Seq(Kinds)]
    BY <2>1, <2>2, <2>3
  <2>5. lpcs'.there = both /\ lpcs'.rows = <<>>
    BY <2>1
  <2> QED
    BY <2>4, <2>5 DEF both
<1>6. ScheduleTypes'
  <2>1. i' \in Nat /\ i' <= Len(schedule') + 1
    BY <1>0, <1>2
  <2> QED
    BY <1>0, <1>3, <1>4, <1>5, <2>1 DEF ScheduleTypes
<1>7. BufferForLast'
  <2>1. i' # 0
    BY <1>0, <1>2
  <2> QED
    BY <2>1, <1>0, <1>2 DEF BufferForLast
<1>8. TestOfEntry'
  <2>1. CASE pc' = "entry"
    BY <2>1 DEF TestOfEntry
  <2>2. CASE pc' = "test"
    <3>1. i' = i /\ Entry' = Entry /\ kind' # "none"
      BY <2>2, <1>0, <1>2 DEF Entry
    <3> QED
      BY <3>1, <2>2, <1>0, <1>3, <1>4, <1>5 DEF TestOfEntry, Kinds
  <2> QED
    BY <2>1, <2>2, <1>2
<1> QED
  BY <1>2, <1>6, <1>7, <1>8 DEF CollectsThisTest, WellFormedSafe

(* A test of either kind leaves as many results as it was asked for and no *)
(* more rows than that, all of them its own.                               *)
LEMMA TestStep ==
  ASSUME ScheduleInv, pc = "test", InReach,
         NEW counted \in 0 .. N,
         iter_results' = Results,
         lpcs' = IF lpcs.there
                 THEN [lpcs EXCEPT !.rows = @ \o [k \in 1 .. counted |-> kind]] ELSE lpcs,
         pc' = "collect",
         UNCHANGED <<parameters, schedule, i, kind, mapped, ret>>
  PROVE  ScheduleInv'
<1> USE DEF ScheduleInv
<1>0. /\ i \in 1 .. Len(schedule) /\ schedule \in Seq(Entries)
      /\ kind \in Kinds /\ lpcs.rows = <<>>
      /\ show_perf' = show_perf
      /\ lpcs \in [there : BOOLEAN, rows : Seq(Kinds)]
      /\ iter_results \in Seq(Kinds \cup {"none"})
  BY DEF TestOfEntry, ScheduleTypes, parameters
<1>1. Entry \in EntryType /\ Entry' = Entry /\ N' = N /\ N \in Nat
  <2>1. Entry \in EntryType /\ Entry' = Entry
    BY <1>0, EntryTyped DEF Entry
  <2>2. N' = N
    BY <2>1 DEF N
  <2> QED
    BY <2>1, <2>2, RoomForResults DEF N
<1>2. /\ iter_results' \in Seq(Kinds \cup {"none"})
      /\ Len(iter_results') = Len(iter_results)
      /\ N <= Len(iter_results')
      /\ \A k \in 1 .. N : iter_results'[k] = kind
  <2>1. iter_results' = [k \in 1 .. Len(iter_results) |->
                           IF k <= N THEN kind ELSE iter_results[k]]
    BY <1>0 DEF Results
  <2>2. N <= Len(iter_results)
    BY DEF InReach
  <2>3. \A k \in 1 .. Len(iter_results) : iter_results[k] \in Kinds \cup {"none"}
    BY <1>0
  <2> QED
    BY <2>1, <2>2, <2>3, <1>0, <1>1
<1>3. /\ lpcs' \in [there : BOOLEAN, rows : Seq(Kinds)]
      /\ lpcs'.there = lpcs.there
      /\ ~lpcs.there => lpcs'.rows = <<>>
      /\ \A k \in DOMAIN lpcs'.rows : lpcs'.rows[k] = kind
      /\ Len(lpcs'.rows) <= N
  <2> DEFINE rows == [k \in 1 .. counted |-> kind]
  <2>1. counted \in Nat /\ counted <= N
    BY <1>1
  <2>2. rows \in Seq(Kinds) /\ Len(rows) = counted /\ DOMAIN rows = 1 .. counted
        /\ \A k \in DOMAIN rows : rows[k] = kind
    <3>1. rows \in Seq(Kinds)
      <4>1. kind \in Kinds
        BY <1>0
      <4>2. rows \in [1 .. counted -> Kinds]
        BY <4>1
      <4> QED
        BY ONLY <2>1, <4>2
    <3>2. Len(rows) = counted /\ DOMAIN rows = 1 .. counted
      BY <2>1
    <3> QED
      BY <3>1, <3>2
  <2> HIDE DEF rows
  <2>3. CASE lpcs.there
    <3>1. lpcs' = [lpcs EXCEPT !.rows = lpcs.rows \o rows]
      BY <2>3 DEF rows
    <3>2. lpcs.rows \o rows = rows
      BY <1>0, <2>2
    <3>3. lpcs'.rows = rows /\ lpcs'.there = lpcs.there
          /\ lpcs' \in [there : BOOLEAN, rows : Seq(Kinds)]
      BY <3>1, <3>2, <1>0, <2>2
    <3> QED
      BY <3>3, <2>1, <2>2, <2>3
  <2>4. CASE ~lpcs.there
    <3>1. lpcs' = lpcs
      BY <2>4
    <3>2. lpcs'.rows = <<>> /\ DOMAIN lpcs'.rows = {} /\ Len(lpcs'.rows) = 0
      BY <3>1, <1>0
    <3> QED
      BY <3>1, <3>2, <1>0, <1>1
  <2> QED
    BY <2>3, <2>4
<1>4. ScheduleTypes'
  BY <1>0, <1>2, <1>3 DEF ScheduleTypes
<1>5. BufferForLast'
  BY DEF BufferForLast
<1>6. TestOfEntry'
  BY <1>0, <1>1, <1>2, <1>3 DEF TestOfEntry
<1>7. CollectsThisTest'
  <2>1. N' = N /\ kind' = kind /\ DOMAIN iter_results' = 1 .. Len(iter_results')
    BY <1>1, <1>2
  <2> QED
    BY <2>1, <1>2, <1>3 DEF CollectsThisTest
<1> QED
  BY <1>4, <1>5, <1>6, <1>7 DEF WellFormedSafe

LEMMA TestsStep == ASSUME ScheduleInv, Throughput \/ Latency PROVE ScheduleInv'
<1>1. N \in Nat
  <2>1. i \in 1 .. Len(schedule) /\ schedule \in Seq(Entries)
    BY DEF Throughput, Latency, ScheduleInv, TestOfEntry, ScheduleTypes
  <2> QED
    BY <2>1, EntryTyped, RoomForResults DEF Entry, N
<1>2. CASE Throughput
  <2>1. N \in 0 .. N
    BY <1>1
  <2> QED
    BY <1>2, <2>1, TestStep DEF Throughput
<1>3. CASE Latency
  <2>1. PICK counted \in IF Faults THEN 0 .. N ELSE {N} :
          lpcs' = IF lpcs.there
                  THEN [lpcs EXCEPT !.rows = @ \o [k \in 1 .. counted |-> kind]] ELSE lpcs
    BY <1>3 DEF Latency
  <2>2. counted \in 0 .. N
    BY <1>1, <2>1
  <2> QED
    BY <1>3, <2>1, <2>2, TestStep DEF Latency
<1> QED
  BY <1>2, <1>3

LEMMA CollectStep == ASSUME ScheduleInv, Collect PROVE ScheduleInv'
<1> USE DEF ScheduleInv
<1>0. /\ UNCHANGED <<show_perf, schedule, iter_results, mapped, ret>>
      /\ pc = "collect" /\ i \in 1 .. Len(schedule) /\ schedule \in Seq(Entries)
      /\ lpcs \in [there : BOOLEAN, rows : Seq(Kinds)]
      /\ kind \in Kinds
      /\ kind # "latency" => Entry.enable_thp
  BY DEF Collect, TestOfEntry, ScheduleTypes, parameters
<1>1. Entry \in EntryType
  BY <1>0, EntryTyped DEF Entry
<1>2. /\ kind' = KindAfter(Entry, kind)
      /\ \/ kind' = "none" /\ i' = i + 1 /\ pc' = "entry"
         \/ kind' # "none" /\ i' = i /\ pc' = "test"
      /\ lpcs' = [lpcs EXCEPT !.rows = <<>>]
  BY DEF Collect
<1>3. /\ kind' \in Kinds \cup {"none"}
      /\ kind' = "latency" => Entry.enable_lat
      /\ kind' \in {"read", "write"} => Entry.enable_thp
  <2>1. kind \in {"read", "write"} => Entry.enable_thp
    BY <1>0
  <2> QED
    BY <2>1, <1>0, <1>1, <1>2, KindAfterEnabled
<1>4. /\ lpcs' \in [there : BOOLEAN, rows : Seq(Kinds)]
      /\ lpcs'.there = lpcs.there /\ lpcs'.rows = <<>>
  <2>1. <<>> \in Seq(Kinds)
    OBVIOUS
  <2>2. lpcs' = [lpcs EXCEPT !.rows = <<>>] /\ lpcs \in [there : BOOLEAN, rows : Seq(Kinds)]
    BY <1>0, <1>2
  <2>3. lpcs' = [there |-> lpcs.there, rows |-> <<>>] /\ lpcs.there \in BOOLEAN
    BY <2>2
  <2> QED
    BY <2>1, <2>3
<1>5. ScheduleTypes'
  <2>1. i' \in Nat /\ i' <= Len(schedule') + 1
    BY <1>0, <1>2
  <2> QED
    BY <2>1, <1>0, <1>3, <1>4 DEF ScheduleTypes
<1>6. BufferForLast'
  <2>1. i' # 0
    BY <1>0, <1>2
  <2> QED
    BY <2>1, <1>0, <1>2 DEF BufferForLast
<1>7. TestOfEntry'
  <2>1. CASE pc' = "entry"
    BY <2>1 DEF TestOfEntry
  <2>2. CASE pc' = "test"
    <3>1. i' = i /\ Entry' = Entry /\ kind' # "none"
      BY <2>2, <1>0, <1>2 DEF Entry
    <3> QED
      BY <3>1, <2>2, <1>0, <1>3, <1>4 DEF TestOfEntry, Kinds
  <2> QED
    BY <2>1, <2>2, <1>2
<1> QED
  BY <1>2, <1>5, <1>6, <1>7 DEF CollectsThisTest, WellFormedSafe

(* Only a schedule that is not well formed makes an entry or a test crash. *)
LEMMA CrashStep ==
  ASSUME ScheduleInv, BeginEntryCrashes \/ TestCrashes \/ CollectCrashes
  PROVE  ScheduleInv'
<1> USE DEF ScheduleInv
<1>0. /\ UNCHANGED <<parameters, schedule, local, mapped, ret>> /\ pc' = "crashed"
      /\ i \in 1 .. Len(schedule) /\ schedule \in Seq(Entries)
      /\ DOMAIN schedule = 1 .. Len(schedule)
  <2>1. /\ UNCHANGED <<parameters, schedule, local, mapped, ret>> /\ pc' = "crashed"
        /\ i # 0 /\ i <= Len(schedule)
    BY DEF BeginEntryCrashes, TestCrashes, CollectCrashes, TestOfEntry, BufferForLast
  <2>2. schedule \in Seq(Entries) /\ i \in Nat
    BY DEF ScheduleTypes
  <2> QED
    BY <2>1, <2>2
<1>1. ScheduleTypes'
  BY <1>0 DEF ScheduleTypes, parameters, local
<1>2. ~WellFormed
  <2> SUFFICES ASSUME WellFormed PROVE FALSE
    OBVIOUS
  <2>1. Entry.buffer_size \in 1 .. Last(schedule).buffer_size /\ Sound(Entry)
    BY <1>0 DEF WellFormed, Entry
  <2>2. Entry \in EntryType /\ Last(schedule) \in EntryType
    BY <1>0, EntryTyped DEF Entry
  <2>3. CASE BeginEntryCrashes
    <3>1. Cells(Entry) \in Nat /\ StackRoom \in Nat
      BY <2>2, RoomForResults, ScheduleAssumption
    <3> QED
      BY <2>1, <2>3, <3>1 DEF BeginEntryCrashes, Sound
  <2>4. CASE TestCrashes
    <3>1. N <= Len(iter_results)
      BY <2>2, <2>4, RoomForResults DEF TestCrashes, TestOfEntry, N
    <3>2. Last(schedule).buffer_size <= mapped
      BY <2>4 DEF TestCrashes, BufferForLast
    <3>3. mapped \in Nat /\ Last(schedule).buffer_size \in Nat
      BY <2>2 DEF ScheduleTypes, EntryType
    <3>4. Entry.buffer_size \in 1 .. mapped
      BY <2>1, <3>2, <3>3
    <3>5. InReach
      BY <3>1, <3>4 DEF InReach
    <3>6. kind = "latency" => Entry.enable_lat
      BY <2>4 DEF TestCrashes, TestOfEntry
    <3>7. kind # "latency" => Entry.enable_thp
      BY <2>4 DEF TestCrashes, TestOfEntry
    <3> QED
      BY <2>1, <2>4, <3>5, <3>6, <3>7 DEF TestCrashes, Sound
  <2>5. CASE CollectCrashes
    BY <2>1, <2>5 DEF CollectCrashes, TestOfEntry, Sound
  <2> QED
    BY <2>3, <2>4, <2>5
<1>3. WellFormed' <=> WellFormed
  BY <1>0 DEF WellFormed, Sound, parameters
<1> QED
  BY <1>0, <1>1, <1>2, <1>3
     DEF BufferForLast, TestOfEntry, CollectsThisTest, WellFormedSafe

LEMMA LeavingStep ==
  ASSUME ScheduleInv, ThroughputFails \/ TestExits \/ Finish
  PROVE  ScheduleInv'
<1> USE DEF ScheduleInv
<1>1. UNCHANGED <<parameters, schedule, local>> /\ pc' \in {"done", "aborted"}
  BY DEF ThroughputFails, TestExits, Finish, Leave
<1>2. mapped' \in {mapped, 0} /\ ret' \in {ret, -4, 0}
  BY DEF ThroughputFails, TestExits, Finish, Leave
<1>3. ret' \in ReturnCodes \cup {NotCalled}
  BY <1>2 DEF ReturnCodes, ScheduleTypes
<1>4. mapped' \in Nat /\ Multiple(mapped', Page)
  <2>1. Multiple(0, Page)
    BY ScheduleAssumption DEF Multiple
  <2> QED
    BY <2>1, <1>2 DEF ScheduleTypes
<1>5. ScheduleTypes'
  BY <1>1, <1>3, <1>4 DEF ScheduleTypes, parameters, local
<1> QED
  BY <1>1, <1>5 DEF BufferForLast, TestOfEntry, CollectsThisTest, WellFormedSafe

LEMMA ScheduleStep == ASSUME ScheduleInv, RunSchedule PROVE ScheduleInv'
BY ParsingStep, MapStep, BeginEntryStep, TestsStep, CollectStep, CrashStep, LeavingStep
   DEF RunSchedule

-----------------------------------------------------------------------------
(* The command line.  Until a schedule is parsed there is nothing of it.   *)
Locations ==
  Ended \cup {"getopt", "dispatch", "open", "parse", "check", "map", "entry", "test",
              "collect"}

MainTypes ==
  /\ argv \in Argvs \cup {<<>>}
  /\ optind \in 1 .. Len(argv) + 1
  /\ cmd_name \in Commands \cup {"none"}
  /\ pargs \in [Members -> Int]
  /\ started \in Commands \cup {"none"}

Inv ==
  /\ MainTypes /\ ScheduleInv
  /\ pc \in Locations
  /\ pc \in {"getopt", "dispatch"} => schedule = <<>> /\ mapped = 0

(* The option that is looked at is one of the command line's.              *)
LEMMA OptionTyped ==
  ASSUME MainTypes, Taking
  PROVE  /\ optind + 1 \in 1 .. Len(argv) + 1
         /\ Option \in Members => Value \in Int
<1>1. Len(argv) \in Nat /\ DOMAIN argv = 1 .. Len(argv)
  <2>1. CASE argv \in Argvs
    BY <2>1, ArgvsAssumption
  <2>2. CASE argv = <<>>
    BY <2>2
  <2> QED
    BY <2>1, <2>2 DEF MainTypes
<1>2. optind \in DOMAIN argv
  BY <1>1 DEF MainTypes, Taking
<1>3. argv \in Argvs
  BY <1>2 DEF MainTypes
<1> QED
  BY <1>1, <1>2, <1>3, ArgvsAssumption DEF Option, Value

(* The defaults are numbers.                                               *)
LEMMA DefaultsTyped ==
  ASSUME pargs \in [Members -> Int], NEW cmd \in Commands
  PROVE  Initialized(cmd) \in [Members -> Int]
<1>1. ASSUME NEW m \in DOMAIN Defaults(cmd) PROVE Defaults(cmd)[m] \in Int
  BY DEF Defaults, Commands, DEFAULT_CACHE_INFO_SHM_FILE
<1> QED
  BY <1>1 DEF Initialized

LEMMA InvInit == Init => Inv
<1> SUFFICES ASSUME Init PROVE Inv
  OBVIOUS
<1>1. /\ argv \in Argvs /\ optind = 1 /\ cmd_name = "none" /\ pargs = Unset
      /\ started = "none" /\ pc = "getopt" /\ show_perf = FALSE /\ schedule = <<>>
      /\ i = 0 /\ kind = "none" /\ iter_results = <<>> /\ lpcs = NoRows
      /\ mapped = 0 /\ ret = NotCalled
  BY DEF Init, Idle
<1>2. MainTypes
  <2>1. Unset \in [Members -> Int]
    BY DEF Unset
  <2>2. 1 \in 1 .. Len(argv) + 1
    BY <1>1, ArgvsAssumption
  <2> QED
    BY <1>1, <2>1, <2>2 DEF MainTypes
<1>3. ScheduleTypes
  <2>1. Multiple(0, Page)
    BY ScheduleAssumption DEF Multiple
  <2>2. NoRows \in [there : BOOLEAN, rows : Seq(Kinds)]
    BY DEF NoRows
  <2>3. schedule \in Seq(Entries) /\ Len(schedule) = 0 /\ iter_results \in Seq(Kinds \cup {"none"})
    BY <1>1
  <2>4. i \in Nat /\ i <= Len(schedule) + 1 /\ mapped \in Nat
    BY <1>1, <2>3
  <2> QED
    BY <1>1, <2>1, <2>2, <2>3, <2>4 DEF ScheduleTypes
<1> QED
  BY <1>1, <1>2, <1>3
     DEF Inv, ScheduleInv, BufferForLast, TestOfEntry, CollectsThisTest, WellFormedSafe,
         Locations

(* main has no part in the schedule until it starts it.                    *)
LEMMA MainStep == ASSUME Inv, Main PROVE Inv'
<1> USE DEF Inv
<1>1. /\ UNCHANGED <<schedule, local, mapped, ret>>
      /\ pc \in {"getopt", "dispatch"}
      /\ pc' \in {"getopt", "dispatch", "done", "aborted", "crashed", "open"}
      /\ show_perf' \in BOOLEAN
  BY DEF Main, TakeCommand, TakeSecondCommand, TakeMember, TakeGarbage, TakeTiming,
         TakeHelp, RefuseOption, SearchPastOptions, LastOption, PrintMessage,
         StartCommand, Taking, scheduleVars, parameters, ScheduleInv, ScheduleTypes
<1>2. ScheduleInv'
  BY <1>1 DEF ScheduleInv, ScheduleTypes, local, BufferForLast, TestOfEntry,
              CollectsThisTest, WellFormedSafe
<1>3. MainTypes'
  <2>1. CASE TakeCommand
    BY <2>1, OptionTyped, DefaultsTyped DEF TakeCommand, MainTypes
  <2>2. CASE TakeMember
    BY <2>2, OptionTyped DEF TakeMember, MainTypes
  <2>3. CASE TakeTiming \/ TakeHelp
    BY <2>3, OptionTyped DEF TakeTiming, TakeHelp, MainTypes
  <2>4. CASE StartCommand
    <3>1. /\ argv' = <<>> /\ optind' = 1 /\ pargs' = Unset
          /\ cmd_name' = cmd_name /\ started' = cmd_name
          /\ cmd_name # "none"
      BY <2>4 DEF StartCommand, HelpRequested
    <3>2. Unset \in [Members -> Int]
      BY DEF Unset
    <3>3. 1 \in 1 .. Len(<<>>) + 1
      OBVIOUS
    <3> QED
      BY <3>1, <3>2, <3>3 DEF MainTypes
  <2>5. CASE UNCHANGED mainVars
    BY <2>5 DEF mainVars, MainTypes
  <2> QED
    BY <2>1, <2>2, <2>3, <2>4, <2>5
       DEF Main, TakeSecondCommand, TakeGarbage, RefuseOption, SearchPastOptions,
           LastOption, PrintMessage
<1> QED
  BY <1>1, <1>2, <1>3 DEF local, Locations, Ended

LEMMA Invariant == Spec => []Inv
<1>1. Inv /\ [Next]_vars => Inv'
  <2> SUFFICES ASSUME Inv, [Next]_vars PROVE Inv'
    OBVIOUS
  <2>1. CASE Main
    BY <2>1, MainStep
  <2>2. CASE RunSchedule /\ UNCHANGED mainVars
    <3>1. ScheduleInv'
      BY <2>2, ScheduleStep DEF Inv
    <3>2. MainTypes'
      BY <2>2 DEF Inv, MainTypes, mainVars
    <3>3. pc' \in Locations \ {"getopt", "dispatch"}
      BY <2>2 DEF RunSchedule, Open, OpenFails, ParseEntry, ParseThrows, ParseEnds, Check,
           Map, MapFails, BeginEntry, BeginEntryCrashes, Throughput, ThroughputFails,
           Latency, TestExits, TestCrashes, Collect, CollectCrashes, Finish, Leave, Locations, Ended
    <3> QED
      BY <3>1, <3>2, <3>3 DEF Inv
  <2>3. CASE UNCHANGED vars
    BY <2>3 DEF vars, mainVars, scheduleVars, parameters, local, Inv, MainTypes,
                ScheduleInv, ScheduleTypes, BufferForLast, TestOfEntry, Entry,
                CollectsThisTest, N, WellFormedSafe, WellFormed, Sound
  <2> QED
    BY <2>1, <2>2, <2>3 DEF Next
<1> QED
  BY <1>1, InvInit, PTL DEF Spec

(* The members of parsed_args and the state of a schedule keep their       *)
(* types; the buffer is always whole pages.                                *)
THEOREM TypeCorrect == Spec => []TypeOK
<1>1. Inv => TypeOK
  <2> SUFFICES ASSUME Inv, pc \notin {"getopt", "dispatch"} PROVE ScheduleTypeOK
    BY DEF Inv, TypeOK, MainTypes
  <2>1. mapped % Page = 0
    BY RemainderZero, ScheduleAssumption DEF Inv, ScheduleInv, ScheduleTypes
  <2>2. i \in 0 .. Len(schedule) + 1
    BY DEF Inv, ScheduleInv, ScheduleTypes
  <2> QED
    BY <2>1, <2>2 DEF Inv, ScheduleInv, ScheduleTypes, ScheduleTypeOK, Locations, Ended
<1> QED
  BY <1>1, Invariant, PTL

(* Whatever the schedule and the faults, the collector is called with the  *)
(* results and the rows of the test that was just run and of no other.     *)
THEOREM ThisTestCollected == Spec => []CollectsThisTest
<1>1. Inv => CollectsThisTest
  BY DEF Inv, ScheduleInv
<1> QED
  BY <1>1, Invariant, PTL

(* For every size of page, chunk, list entry and stack, any faults and any *)
(* number of entries: one buffer of the last entry's size, rounded up, is  *)
(* enough for a schedule whose entries are no larger and each sound.       *)
THEOREM WellFormedRuns == Spec => []WellFormedSafe
<1>1. Inv => WellFormedSafe
  BY DEF Inv, ScheduleInv
<1> QED
  BY <1>1, Invariant, PTL

-----------------------------------------------------------------------------
(* What the options leave in the members of parsed_args.                   *)
Before == 1 .. optind - 1

(* What m is given when v was the last value for it, which may be the one  *)
(* it has from the start.                                                  *)
Settled(m, v, afterCommand) ==
  IF m \in DOMAIN Defaults(cmd_name) /\ v = 0 /\ ~afterCommand
  THEN Defaults(cmd_name)[m] ELSE v

CommandSeen ==
  /\ cmd_name = "none" => \A k \in Before : argv[k].option \notin Commands
  /\ cmd_name # "none" =>
       \E c \in Before : argv[c].option = cmd_name

NotGiven(m) ==
  /\ \A k \in Before : argv[k].option # m
  /\ pargs[m] = Settled(m, Unset[m], FALSE)

GivenLast(m, k) ==
  /\ argv[k].option = m
  /\ \A j \in Before : argv[j].option = m => j <= k
  /\ pargs[m] = Settled(m, argv[k].value,
                        \E j \in Before : j < k /\ argv[j].option = cmd_name)

MemberTaken(m) == NotGiven(m) \/ \E k \in Before : GivenLast(m, k)

ArgumentsSoFar ==
  pc \in {"getopt", "dispatch"} =>
    /\ CommandSeen
    /\ \A m \in Members : MemberTaken(m)
    /\ pc = "dispatch" => DOMAIN argv = Before

(* One more option has been looked at.                                     *)
LEMMA NextBefore ==
  ASSUME MainTypes, Taking, optind' = optind + 1
  PROVE  /\ Before' = Before \cup {optind}
         /\ \A k \in Before : k \in Int /\ k < optind /\ ~(optind <= k)
         /\ optind \in Int /\ optind <= optind
<1>1. optind \in Nat /\ optind >= 1
  BY OptionTyped DEF MainTypes
<1> QED
  BY <1>1 DEF Before

(* The names of commands and of members are different words.               *)
LEMMA WordsDiffer ==
  /\ Commands \cap Members = {}
  /\ "none" \notin Commands
  /\ \A w \in {"timing_by", "help"} : w \notin Commands \cup Members
  /\ DOMAIN Defaults("none") = {}
<1>1. Defaults("none") = <<>>
  BY DEF Defaults
<1> QED
  BY <1>1 DEF Commands, Members, Numbers, Strings, Flags

(* The command gives its defaults to the members that are still 0; none of *)
(* them was given after it.                                                *)
LEMMA CommandTaken ==
  ASSUME MainTypes, ArgumentsSoFar, TakeCommand
  PROVE  ArgumentsSoFar'
<1>1. /\ Taking /\ Option \in Commands /\ cmd_name = "none" /\ cmd_name' = Option
      /\ pargs' = Initialized(Option) /\ optind' = optind + 1
      /\ argv' = argv /\ pc = "getopt" /\ pc' = "getopt"
  BY DEF TakeCommand, Taking, scheduleVars
<1>2. /\ Before' = Before \cup {optind}
      /\ \A k \in Before : k \in Int /\ k < optind /\ ~(optind <= k)
      /\ optind \in Int
  BY <1>1, NextBefore
<1>3. argv[optind].option = Option /\ cmd_name' # "none"
  BY <1>1, WordsDiffer DEF Option
<1>4. CommandSeen'
  BY <1>1, <1>2, <1>3 DEF CommandSeen
<1>5. \A k \in Before : argv[k].option # cmd_name'
  BY <1>1 DEF ArgumentsSoFar, CommandSeen
<1>6. ASSUME NEW m \in Members PROVE MemberTaken(m)'
  <2>1. m # Option
    BY <1>1, WordsDiffer
  <2>2. pargs'[m] = IF m \in DOMAIN Defaults(cmd_name') /\ pargs[m] = 0
                    THEN Defaults(cmd_name')[m] ELSE pargs[m]
    BY <1>1 DEF Initialized
  <2>3. CASE NotGiven(m)
    <3>1. pargs[m] = Unset[m]
      BY <1>1, <2>3, WordsDiffer DEF NotGiven, Settled
    <3>2. pargs'[m] = Settled(m, Unset[m], FALSE)'
      BY <2>2, <3>1 DEF Settled
    <3>3. \A k \in Before' : argv'[k].option # m
      BY <1>1, <1>2, <1>3, <2>1, <2>3 DEF NotGiven
    <3> QED
      BY <3>2, <3>3 DEF MemberTaken, NotGiven
  <2>4. ASSUME NEW k \in Before, GivenLast(m, k) PROVE MemberTaken(m)'
    <3>1. pargs[m] = argv[k].value
      BY <1>1, <2>4, WordsDiffer DEF GivenLast, Settled
    <3>2. ~ \E j \in Before' : j < k /\ argv'[j].option = cmd_name'
      BY <1>1, <1>2, <1>5
    <3>3. pargs'[m] = Settled(m, argv[k].value, FALSE)'
      BY <2>2, <3>1, <1>1 DEF Settled
    <3>4. /\ argv'[k].option = m
          /\ \A j \in Before' : argv'[j].option = m => j <= k
      BY <1>1, <1>2, <1>3, <2>1, <2>4 DEF GivenLast
    <3>5. GivenLast(m, k)'
      BY <1>1, <3>2, <3>3, <3>4 DEF GivenLast, Settled
    <3> QED
      BY <1>2, <3>5 DEF MemberTaken
  <2> QED
    BY <1>1, <2>3, <2>4 DEF ArgumentsSoFar, MemberTaken
<1> QED
  BY <1>1, <1>4, <1>6 DEF ArgumentsSoFar

(* A value replaces what the member had before; if there is a command, it  *)
(* was given after it.                                                     *)
LEMMA OptionTaken ==
  ASSUME MainTypes, ArgumentsSoFar, TakeMember \/ TakeTiming \/ TakeHelp
  PROVE  ArgumentsSoFar'
<1>1. /\ Taking /\ optind' = optind + 1 /\ argv' = argv /\ cmd_name' = cmd_name
      /\ pc = "getopt" /\ pc' = "getopt"
      /\ Option \notin Commands
      /\ \/ Option \in Members /\ pargs' = [pargs EXCEPT ![Option] = Value]
         \/ Option \notin Members /\ pargs' = pargs
  BY WordsDiffer DEF TakeMember, TakeTiming, TakeHelp, Taking, scheduleVars
<1>2. /\ Before' = Before \cup {optind}
      /\ \A k \in Before : k \in Int /\ k < optind /\ ~(optind <= k)
      /\ optind \in Int /\ optind <= optind
  BY <1>1, NextBefore
<1>3. argv[optind].option = Option /\ argv[optind].value = Value
  BY DEF Option, Value
<1>4. CommandSeen'
  BY <1>1, <1>2, <1>3 DEF ArgumentsSoFar, CommandSeen
<1>5. ASSUME NEW m \in Members, m # Option PROVE MemberTaken(m)'
  <2>1. pargs'[m] = pargs[m]
    BY <1>1, <1>5 DEF MainTypes
  <2>2. CASE NotGiven(m)
    BY <1>1, <1>2, <1>3, <1>5, <2>1, <2>2 DEF NotGiven, MemberTaken, Settled
  <2>3. ASSUME NEW k \in Before, GivenLast(m, k) PROVE MemberTaken(m)'
    <3>1. (\E j \in Before' : j < k /\ argv'[j].option = cmd_name') <=>
          (\E j \in Before : j < k /\ argv[j].option = cmd_name)
      BY <1>1, <1>2
    <3>2. /\ argv'[k].option = m
          /\ \A j \in Before' : argv'[j].option = m => j <= k
      BY <1>1, <1>2, <1>3, <1>5, <2>3 DEF GivenLast
    <3>3. GivenLast(m, k)'
      BY <1>1, <2>1, <2>3, <3>1, <3>2 DEF GivenLast, Settled
    <3> QED
      BY <1>2, <3>3 DEF MemberTaken
  <2> QED
    BY <1>1, <2>2, <2>3 DEF ArgumentsSoFar, MemberTaken
<1>6. ASSUME NEW m \in Members, m = Option PROVE MemberTaken(m)'
  <2> PICK k : k = optind
    OBVIOUS
  <2> DEFINE after == \E j \in Before' : j < k /\ argv'[j].option = cmd_name'
  <2>1. pargs'[m] = Value
    BY <1>1, <1>6 DEF MainTypes
  <2>2. m \in DOMAIN Defaults(cmd_name') => after
    BY <1>1, <1>2, WordsDiffer DEF ArgumentsSoFar, CommandSeen
  <2>3. pargs'[m] = IF m \in DOMAIN Defaults(cmd_name') /\ Value = 0 /\ ~after
                    THEN Defaults(cmd_name')[m] ELSE Value
    BY <2>1, <2>2
  <2>4. \A j \in Before' : j <= k
    <3>1. \A j \in Before : j <= optind
      BY <1>2
    <3> QED
      BY <1>2, <3>1
  <2>5. argv'[k].option = m /\ argv'[k].value = Value
    BY <1>1, <1>3, <1>6
  <2>6. GivenLast(m, k)'
    BY <2>3, <2>4, <2>5 DEF GivenLast, Settled
  <2> QED
    BY <1>2, <2>6 DEF MemberTaken
<1>7. \A m \in Members : MemberTaken(m)'
  BY <1>5, <1>6
<1> QED
  BY <1>1, <1>4, <1>7 DEF ArgumentsSoFar

LEMMA ArgumentsStep ==
  ASSUME Inv, ArgumentsSoFar, [Next]_vars
  PROVE  ArgumentsSoFar'
<1>1. CASE TakeCommand
  BY <1>1, CommandTaken DEF Inv
<1>2. CASE TakeMember \/ TakeTiming \/ TakeHelp
  BY <1>2, OptionTaken DEF Inv
<1>3. CASE LastOption
  <2>1. /\ UNCHANGED <<argv, optind, cmd_name, pargs>> /\ pc = "getopt" /\ optind > Len(argv)
    BY <1>3 DEF LastOption, mainVars
  <2>2. DOMAIN argv = Before
    <3>1. DOMAIN argv = 1 .. Len(argv) /\ Len(argv) \in Nat
      BY ArgvsAssumption DEF Inv, MainTypes
    <3>2. optind = Len(argv) + 1
      BY <2>1, <3>1 DEF Inv, MainTypes
    <3> QED
      BY <3>1, <3>2 DEF Before
  <2>3. CommandSeen' /\ \A m \in Members : MemberTaken(m)'
    BY <2>1 DEF ArgumentsSoFar, CommandSeen, MemberTaken, NotGiven, GivenLast, Settled, Before
  <2> QED
    BY <2>1, <2>2, <2>3 DEF ArgumentsSoFar, Before
<1>4. CASE UNCHANGED vars
  BY <1>4 DEF vars, mainVars, scheduleVars, ArgumentsSoFar, CommandSeen, MemberTaken,
              NotGiven, GivenLast, Settled, Before
<1>5. CASE RunSchedule
  <2>1. pc' \notin {"getopt", "dispatch"}
    BY <1>5 DEF RunSchedule, Open, OpenFails, ParseEntry, ParseThrows, ParseEnds, Check,
         Map, MapFails, BeginEntry, BeginEntryCrashes, Throughput, ThroughputFails, Latency, TestExits,
         TestCrashes, Collect, CollectCrashes, Finish, Leave
  <2> QED
    BY <2>1 DEF ArgumentsSoFar
<1>6. CASE TakeSecondCommand \/ TakeGarbage \/ RefuseOption \/ SearchPastOptions
           \/ PrintMessage \/ StartCommand
  <2>1. pc' \notin {"getopt", "dispatch"}
    BY <1>6 DEF TakeSecondCommand, TakeGarbage, RefuseOption, SearchPastOptions,
                PrintMessage, StartCommand
  <2> QED
    BY <2>1 DEF ArgumentsSoFar
<1> QED
  BY <1>1, <1>2, <1>3, <1>4, <1>5, <1>6 DEF Next, Main

(* However the options are ordered, and however many there are, a command  *)
(* works with the last value given for each member, or with its default.   *)
THEOREM ValuesAsGiven == Spec => []ArgumentsTaken
<1>1. Init => ArgumentsSoFar
  <2> SUFFICES ASSUME Init PROVE ArgumentsSoFar
    OBVIOUS
  <2>1. optind = 1 /\ cmd_name = "none" /\ pargs = Unset /\ pc = "getopt"
    BY DEF Init
  <2>2. Before = {}
    BY <2>1 DEF Before
  <2> QED
    BY <2>1, <2>2, WordsDiffer
       DEF ArgumentsSoFar, CommandSeen, MemberTaken, NotGiven, Settled
<1>2. Inv /\ ArgumentsSoFar => ArgumentsTaken
  <2> SUFFICES ASSUME Inv, ArgumentsSoFar, pc = "dispatch", NEW m \in Members
               PROVE  LET last == LastValue(m, argv)
                          afterCommand == \E k, l \in DOMAIN argv :
                            k < l /\ argv[k].option = cmd_name /\ argv[l].option = m
                      IN  pargs[m] = Settled(m, last, afterCommand)
    BY DEF ArgumentsTaken, Settled
  <2> DEFINE given == {k \in DOMAIN argv : argv[k].option = m}
             afterCommand == \E k, l \in DOMAIN argv :
               k < l /\ argv[k].option = cmd_name /\ argv[l].option = m
  <2>1. DOMAIN argv = Before /\ MemberTaken(m)
    BY DEF ArgumentsSoFar
  <2>2. CASE NotGiven(m)
    <3>1. given = {} /\ ~afterCommand
      BY <2>1, <2>2 DEF NotGiven
    <3>2. LastValue(m, argv) = Unset[m]
      BY <3>1 DEF LastValue
    <3> QED
      BY <2>2, <3>1, <3>2 DEF NotGiven, Settled
  <2>3. ASSUME NEW k \in Before, GivenLast(m, k)
        PROVE  pargs[m] = Settled(m, LastValue(m, argv), afterCommand)
    <3>1. given \subseteq Int
      BY <2>1 DEF Before
    <3>2. k \in given /\ \A j \in given : k >= j
      <4>1. k \in given /\ \A j \in given : j <= k
        BY <2>1, <2>3 DEF GivenLast
      <4> QED
        BY <3>1, <4>1
    <3>3. Max(given) = k
      <4> HIDE DEF given
      <4>1. \A x \in given : (\A y \in given : x >= y) => x = k
        BY <3>1, <3>2
      <4> QED
        BY <3>2, <4>1 DEF Max
    <3>4. LastValue(m, argv) = argv[k].value
      <4>1. given # {}
        BY <3>2
      <4> QED
        BY <3>3, <4>1 DEF LastValue
    <3>5. afterCommand <=> \E j \in Before : j < k /\ argv[j].option = cmd_name
      <4>1. ASSUME NEW j \in Before, NEW l \in Before, j < l, argv[l].option = m
            PROVE  j < k
        <5>1. j \in Int /\ l \in Int /\ k \in Int /\ l <= k
          BY <2>3, <4>1 DEF GivenLast, Before
        <5> QED
          BY <4>1, <5>1
      <4> QED
        BY <2>1, <2>3, <4>1 DEF GivenLast
    <3> QED
      BY <2>3, <3>4, <3>5 DEF GivenLast, Settled
  <2> QED
    BY <2>1, <2>2, <2>3 DEF MemberTaken
<1>3. Inv /\ ArgumentsSoFar /\ [Next]_vars => ArgumentsSoFar'
  BY ArgumentsStep
<1> QED
  BY <1>1, <1>2, <1>3, Invariant, PTL DEF Spec

-----------------------------------------------------------------------------
(* What FlattenSeq computes, lines put together one by one.                *)
Flattens(f, lines) ==
  f = [k \in 1 .. Len(lines) |-> IF k = 1 THEN lines[k] ELSE f[k - 1] \o lines[k]]

(* There is one such function.                                             *)
LEMMA FlattensOnce ==
  ASSUME NEW lines, Len(lines) \in Nat, NEW f, NEW g,
         Flattens(f, lines), Flattens(g, lines)
  PROVE  f = g
<1> DEFINE T == {k \in 1 .. Len(lines) : f[k] # g[k]}
<1>1. ASSUME T # {} PROVE FALSE
  <2>1. T \in SUBSET Nat
    OBVIOUS
  <2>2. PICK k \in T : \A j \in T : k <= j
    BY <1>1, <2>1, LeastNumber
  <2>3. /\ k \in 1 .. Len(lines) /\ f[k] # g[k]
        /\ k # 1 => k - 1 \in 1 .. Len(lines) /\ f[k - 1] = g[k - 1]
    BY <2>2
  <2>4. /\ f[k] = IF k = 1 THEN lines[k] ELSE f[k - 1] \o lines[k]
        /\ g[k] = IF k = 1 THEN lines[k] ELSE g[k - 1] \o lines[k]
    <3>1. ASSUME NEW h, Flattens(h, lines)
          PROVE  h[k] = IF k = 1 THEN lines[k] ELSE h[k - 1] \o lines[k]
      BY <2>3, <3>1 DEF Flattens
    <3> QED
      BY <3>1
  <2> QED
    BY <2>3, <2>4, Zenon
<1>2. f = [k \in 1 .. Len(lines) |-> f[k]] /\ g = [k \in 1 .. Len(lines) |-> g[k]]
  BY DEF Flattens
<1> QED
  BY <1>1, <1>2

LEMMA FlattenSeqIs ==
  ASSUME NEW lines, Len(lines) \in Nat \ {0}, NEW f, Flattens(f, lines)
  PROVE  FlattenSeq(lines) = f[Len(lines)]
<1>1. \A g : Flattens(g, lines) => g = f
  BY FlattensOnce
<1> QED
  BY <1>1 DEF FlattenSeq, Flattens

(* It begins with that of the first n lines.                               *)
Begins(f, lines, n, T) ==
  /\ f \in [1 .. n -> Seq(T)]
  /\ \A k \in 1 .. n : f[k] = IF k = 1 THEN lines[k] ELSE f[k - 1] \o lines[k]

LEMMA FlattensExists ==
  ASSUME NEW T, NEW lines \in Seq(Seq(T))
  PROVE  \E f \in [1 .. Len(lines) -> Seq(T)] : Flattens(f, lines)
<1> DEFINE None == {n \in 0 .. Len(lines) : ~ \E f : Begins(f, lines, n, T)}
<1>1. ASSUME None # {} PROVE FALSE
  <2>1. PICK n \in None : \A j \in None : n <= j
    <3>1. None \in SUBSET Nat
      OBVIOUS
    <3> QED
      BY <1>1, <3>1, LeastNumber
  <2>2. n # 0
    <3>1. Begins([k \in 1 .. 0 |-> <<>>], lines, 0, T)
      BY DEF Begins
    <3> QED
      BY <2>1, <3>1
  <2>3. n - 1 \in 0 .. Len(lines) /\ n - 1 \notin None /\ n \in 1 .. Len(lines)
    <3>1. n \in 0 .. Len(lines) /\ Len(lines) \in Nat
      BY <2>1, LenProperties
    <3>2. n - 1 \in 0 .. Len(lines) /\ n \in 1 .. Len(lines) /\ ~(n <= n - 1)
      BY <2>2, <3>1
    <3> QED
      BY <2>1, <3>2
  <2>4. PICK f : Begins(f, lines, n - 1, T)
    BY <2>3
  <2> DEFINE last == IF n = 1 THEN lines[n] ELSE f[n - 1] \o lines[n]
             g == [k \in 1 .. n |-> IF k = n THEN last ELSE f[k]]
  <2>5. last \in Seq(T)
    <3>1. lines[n] \in Seq(T)
      BY <2>3, ElementOfSeq
    <3>2. CASE n = 1
      BY <3>1, <3>2
    <3>3. CASE n # 1
      <4>1. n - 1 \in 1 .. n - 1
        BY <2>3, <3>3
      <4>2. f[n - 1] \in Seq(T)
        BY <2>4, <4>1 DEF Begins
      <4> QED
        BY <3>1, <3>3, <4>2, ConcatProperties
    <3> QED
      BY <3>2, <3>3
  <2>6. g \in [1 .. n -> Seq(T)]
    <3> HIDE DEF last
    <3>1. \A k \in 1 .. n : k # n => f[k] \in Seq(T)
      BY <2>3, <2>4 DEF Begins
    <3> QED
      BY <2>5, <3>1
  <2>7. ASSUME NEW k \in 1 .. n
        PROVE  g[k] = IF k = 1 THEN lines[k] ELSE g[k - 1] \o lines[k]
    <3>1. k # n => k \in 1 .. n - 1
      BY <2>3
    <3>2. k # 1 => k - 1 \in 1 .. n /\ k - 1 # n /\ g[k - 1] = f[k - 1]
      BY <2>3
    <3>3. CASE k = n
      BY <3>2, <3>3
    <3>4. CASE k # n
      <4>1. g[k] = f[k]
        BY <3>4
      <4>2. f[k] = IF k = 1 THEN lines[k] ELSE f[k - 1] \o lines[k]
        BY <2>4, <3>1, <3>4 DEF Begins
      <4> QED
        BY <4>1, <4>2, <3>2
    <3> QED
      BY <3>3, <3>4
  <2>8. Begins(g, lines, n, T)
    <3> HIDE DEF g
    <3> QED
      BY <2>6, <2>7 DEF Begins
  <2> QED
    BY <2>1, <2>8
<1>2. Len(lines) \in 0 .. Len(lines)
  BY LenProperties
<1>3. PICK f : Begins(f, lines, Len(lines), T)
  BY <1>1, <1>2
<1> QED
  BY <1>3 DEF Begins, Flattens

LEMMA FlattenTyped ==
  ASSUME NEW T, NEW lines \in Seq(Seq(T))
  PROVE  FlattenSeq(lines) \in Seq(T) /\ FlattenSeq(<<>>) = <<>>
<1>1. FlattenSeq(<<>>) = <<>>
  BY EmptySeq DEF FlattenSeq
<1>2. CASE lines = <<>>
  BY <1>1, <1>2, EmptySeq
<1>3. CASE lines # <<>>
  <2>1. Len(lines) \in Nat \ {0}
    BY <1>3, LenProperties, EmptySeq
  <2>2. PICK f \in [1 .. Len(lines) -> Seq(T)] : Flattens(f, lines)
    BY FlattensExists
  <2>3. FlattenSeq(lines) = f[Len(lines)]
    BY <2>1, <2>2, FlattenSeqIs
  <2>4. Len(lines) \in 1 .. Len(lines)
    BY <2>1
  <2> QED
    BY <1>1, <2>2, <2>3, <2>4
<1> QED
  BY <1>2, <1>3

(* One more line adds what is in it.                                       *)
LEMMA FlattenAppend ==
  ASSUME NEW T, NEW lines \in Seq(Seq(T)), NEW line \in Seq(T)
  PROVE  FlattenSeq(Append(lines, line)) = FlattenSeq(lines) \o line
<1> DEFINE n == Len(lines)
           more == Append(lines, line)
<1>1. /\ n \in Nat /\ Len(more) = n + 1 /\ more \in Seq(Seq(T))
      /\ \A k \in 1 .. n : more[k] = lines[k]
      /\ more[n + 1] = line
  BY AppendProperties, LenProperties
<1>2. PICK f \in [1 .. n + 1 -> Seq(T)] : Flattens(f, more)
  <2>1. \E f \in [1 .. Len(more) -> Seq(T)] : Flattens(f, more)
    BY <1>1, FlattensExists
  <2> QED
    BY <1>1, <2>1
<1>3. FlattenSeq(more) = f[n + 1]
  <2>1. Len(more) \in Nat \ {0}
    BY <1>1
  <2>2. FlattenSeq(more) = f[Len(more)]
    BY <1>2, <2>1, FlattenSeqIs
  <2> QED
    BY <1>1, <2>2
<1>4. n + 1 \in 1 .. n + 1 /\ 1 \in 1 .. n + 1
  BY <1>1
<1>5. CASE n = 0
  <2>1. lines = <<>>
    BY <1>5, EmptySeq
  <2>2. f[n + 1] = line
    BY <1>1, <1>2, <1>4, <1>5 DEF Flattens
  <2>3. FlattenSeq(lines) = <<>>
    BY <2>1, FlattenTyped
  <2> QED
    BY <1>3, <2>2, <2>3, ConcatEmptySeq
<1>6. CASE n # 0
  <2> DEFINE g == [k \in 1 .. n |-> f[k]]
  <2>1. ASSUME NEW k \in 1 .. n
        PROVE  g[k] = IF k = 1 THEN lines[k] ELSE g[k - 1] \o lines[k]
    <3>1. k \in 1 .. n + 1 /\ more[k] = lines[k] /\ (k # 1 => k - 1 \in 1 .. n)
      BY <1>1
    <3>2. f[k] = IF k = 1 THEN more[k] ELSE f[k - 1] \o more[k]
      BY <1>1, <1>2, <3>1 DEF Flattens
    <3> QED
      BY <3>1, <3>2
  <2>2. Flattens(g, lines)
    BY <2>1 DEF Flattens
  <2>3. FlattenSeq(lines) = g[n]
    BY <1>1, <1>6, <2>2, FlattenSeqIs
  <2>4. n \in 1 .. n /\ n + 1 # 1 /\ (n + 1) - 1 = n
    BY <1>1, <1>6
  <2>5. f[n + 1] = f[n] \o line
    BY <1>1, <1>2, <1>4, <2>4 DEF Flattens
  <2> QED
    BY <1>3, <2>3, <2>4, <2>5
<1> QED
  BY <1>5, <1>6

(* The lines up to the k-th.                                               *)
UpTo(lines, k) == FlattenSeq(SubSeq(lines, 1, k))

LEMMA UpToNext ==
  ASSUME NEW T, NEW lines \in Seq(Seq(T)), NEW k \in 0 .. Len(lines)
  PROVE  /\ UpTo(lines, k) \in Seq(T)
         /\ UpTo(lines, 0) = <<>>
         /\ UpTo(lines, Len(lines)) = FlattenSeq(lines)
         /\ k # Len(lines) => /\ lines[k + 1] \in Seq(T)
                              /\ UpTo(lines, k + 1) = UpTo(lines, k) \o lines[k + 1]
<1>1. Len(lines) \in Nat /\ \A j \in 1 .. Len(lines) : lines[j] \in Seq(T)
  BY LenProperties, ElementOfSeq
<1>2. SubSeq(lines, 1, k) \in Seq(Seq(T))
  <2>1. \A j \in 1 .. k : lines[j] \in Seq(T)
    BY <1>1
  <2> QED
    BY <1>1, <2>1, SubSeqProperties
<1>3. UpTo(lines, 0) = <<>>
  <2>1. SubSeq(lines, 1, 0) = <<>>
    BY SubSeqEmpty
  <2> QED
    BY <2>1, FlattenTyped DEF UpTo
<1>4. UpTo(lines, Len(lines)) = FlattenSeq(lines)
  BY SubSeqFull DEF UpTo
<1>5. ASSUME k # Len(lines)
      PROVE  lines[k + 1] \in Seq(T) /\ UpTo(lines, k + 1) = UpTo(lines, k) \o lines[k + 1]
  <2>1. k + 1 \in 1 .. Len(lines) /\ 1 \in 1 .. Len(lines) /\ (k + 1) - 1 = k
    BY <1>1, <1>5
  <2>2. lines[k + 1] \in Seq(T)
    BY <1>1, <2>1
  <2>3. SubSeq(lines, 1, k + 1) = SubSeq(lines, 1, k) \o <<lines[k + 1]>>
    BY <2>1, SubSeqRecursiveSecond
  <2>4. SubSeq(lines, 1, k + 1) = Append(SubSeq(lines, 1, k), lines[k + 1])
    BY <1>2, <2>2, <2>3, AppendIsConcat
  <2> QED
    BY <1>2, <2>2, <2>4, FlattenAppend DEF UpTo
<1> QED
  BY <1>2, <1>3, <1>4, <1>5, FlattenTyped DEF UpTo

(* They are the beginning of all.                                          *)
LEMMA UpToPrefix ==
  ASSUME NEW T, NEW lines \in Seq(Seq(T)), NEW k \in 0 .. Len(lines)
  PROVE  \E rest \in Seq(T) : FlattenSeq(lines) = UpTo(lines, k) \o rest
<1> DEFINE n == Len(lines)
           Good(j) == \E rest \in Seq(T) : FlattenSeq(lines) = UpTo(lines, j) \o rest
           Bad == {j \in 0 .. n : ~Good(n - j)}
<1>1. n \in Nat
  BY LenProperties
<1>2. Good(n)
  <2>1. <<>> \in Seq(T) /\ UpTo(lines, n) = FlattenSeq(lines) /\ FlattenSeq(lines) \in Seq(T)
    BY <1>1, UpToNext, EmptySeq, FlattenTyped
  <2>2. FlattenSeq(lines) = UpTo(lines, n) \o <<>>
    BY <2>1, ConcatEmptySeq
  <2> QED
    BY <2>1, <2>2
<1>3. ASSUME NEW j \in 0 .. n, j # n, Good(j + 1) PROVE Good(j)
  <2>1. PICK rest \in Seq(T) : FlattenSeq(lines) = UpTo(lines, j + 1) \o rest
    BY <1>3
  <2>2. /\ UpTo(lines, j) \in Seq(T) /\ lines[j + 1] \in Seq(T)
        /\ UpTo(lines, j + 1) = UpTo(lines, j) \o lines[j + 1]
    BY <1>3, UpToNext
  <2>3. FlattenSeq(lines) = UpTo(lines, j) \o (lines[j + 1] \o rest)
    <3>1. ASSUME NEW a \in Seq(T), NEW b \in Seq(T), NEW c \in Seq(T)
          PROVE  (a \o b) \o c = a \o (b \o c)
      OBVIOUS
    <3>2. (UpTo(lines, j) \o lines[j + 1]) \o rest = UpTo(lines, j) \o (lines[j + 1] \o rest)
      BY <2>1, <2>2, <3>1, Zenon
    <3> QED
      BY <2>1, <2>2, <3>2, Zenon
  <2>4. lines[j + 1] \o rest \in Seq(T)
    BY <2>1, <2>2, ConcatProperties
  <2> QED
    BY <2>3, <2>4
<1> HIDE DEF Good
<1>4. ASSUME Bad # {} PROVE FALSE
  <2>1. PICK j \in Bad : \A l \in Bad : j <= l
    <3>1. Bad \in SUBSET Nat
      OBVIOUS
    <3> QED
      BY <1>4, <3>1, LeastNumber
  <2>2. j \in 0 .. n /\ ~Good(n - j) /\ n - 0 = n
    BY <1>1, <2>1
  <2>3. j # 0
    BY <1>2, <2>2
  <2>4. /\ j - 1 \in 0 .. n /\ ~(j <= j - 1) /\ n - (j - 1) = (n - j) + 1
        /\ n - j \in 0 .. n /\ n - j # n
    <3> HIDE DEF n
    <3> QED
      BY <1>1, <2>2, <2>3
  <2>5. Good((n - j) + 1)
    BY <2>1, <2>4
  <2> QED
    BY <1>3, <2>2, <2>4, <2>5
<1>5. n - k \in 0 .. n /\ n - (n - k) = k
  BY <1>1
<1> QED
  BY <1>4, <1>5 DEF Good

LEMMA BeginsWhole ==
  ASSUME NEW T, NEW s \in Seq(T), NEW t \in Seq(T)
  PROVE  IsPrefix(s, s \o t)
<1>1. /\ Len(s) \in Nat /\ Len(t) \in Nat /\ s \o t \in Seq(T)
      /\ Len(s \o t) = Len(s) + Len(t)
      /\ \A k \in 1 .. Len(s) : (s \o t)[k] = s[k]
  BY ConcatProperties, LenProperties
<1>2. SubSeq(s, 1, Len(s)) = SubSeq(s \o t, 1, Len(s))
  BY <1>1
<1> QED
  BY <1>1, <1>2 DEF IsPrefix

-----------------------------------------------------------------------------
(* The plan of a schedule.                                                 *)
AnyTest == [kind : Kinds, buffer_size : Nat, num_datapoints : Nat]

LinesOf(entries) == [k \in DOMAIN entries |-> TestsOf(entries[k])]
PlanLines == LinesOf(schedule)
PlanOf == FlattenSeq(PlanLines)

StateOf(p, r) ==
  CASE p \in {"entry", "test", "collect"} -> "testing"
    [] p = "done" /\ r = 0 -> "succeeded"
    [] p \in Ended /\ r # 0 -> "failed"
    [] OTHER -> "planning"
PlanState == StateOf(pc, ret)

Planning == {"getopt", "dispatch", "open", "parse", "check", "map"}

LEMMA StatesOfPlan ==
  ASSUME NEW p, NEW r
  PROVE  /\ p \in {"entry", "test", "collect"} => StateOf(p, r) = "testing"
         /\ p = "done" /\ r = 0 => StateOf(p, r) = "succeeded"
         /\ p \in Ended /\ r # 0 => StateOf(p, r) = "failed"
         /\ p \in Planning => StateOf(p, r) = "planning"
BY DEF StateOf, Ended, Planning

(* Where the test of kind k is among those of e.                           *)
Place(e, k) ==
  CASE k = "read" -> 1
    [] k = "write" -> 2
    [] OTHER -> IF e.enable_thp THEN 3 ELSE 1

(* What was collected are the tests of the entries before the one that is  *)
(* worked on, and those of its own before the one that is run.             *)
PlanSoFar ==
  /\ pc # "done" => ret = NotCalled
  /\ pc \in Planning => collected = <<>>
  /\ pc = "entry" => i # 0 /\ collected = UpTo(PlanLines, i - 1)
  /\ pc \in {"test", "collect"} =>
       collected = UpTo(PlanLines, i - 1) \o
                   SubSeq(TestsOf(Entry), 1, Place(Entry, kind) - 1)

LEMMA TwoAndOne ==
  ASSUME NEW a, NEW b, NEW c
  PROVE  <<a, b>> \o <<c>> = <<a, b, c>>
<1> DEFINE S == {a, b, c}
<1>1. <<a, b>> \in Seq(S) /\ <<c>> \in Seq(S) /\ <<a, b, c>> \in Seq(S)
  OBVIOUS
<1>2. Len(<<a, b>>) = 2 /\ Len(<<c>>) = 1 /\ Len(<<a, b, c>>) = 3
  OBVIOUS
<1>3. Len(<<a, b>> \o <<c>>) = 3 /\ <<a, b>> \o <<c>> \in Seq(S)
  BY <1>1, <1>2, ConcatProperties
<1>4. \A k \in 1 .. 3 : (<<a, b>> \o <<c>>)[k] = <<a, b, c>>[k]
  BY <1>1, <1>2, ConcatProperties
<1> QED
  BY <1>1, <1>2, <1>3, <1>4, SeqEqual

(* The tests of an entry, one after the other.                             *)
LEMMA TestsPlaced ==
  ASSUME NEW e \in EntryType
  PROVE  /\ TestsOf(e) \in Seq(AnyTest)
         /\ KindAfter(e, "none") = "none" => TestsOf(e) = <<>>
         /\ KindAfter(e, "none") # "none" => Place(e, KindAfter(e, "none")) = 1
         /\ \A k \in Kinds :
              (k = "latency" => e.enable_lat) /\ (k # "latency" => e.enable_thp) =>
                /\ Place(e, k) \in 1 .. Len(TestsOf(e))
                /\ TestsOf(e)[Place(e, k)] =
                     [kind |-> k, buffer_size |-> e.buffer_size,
                      num_datapoints |-> Datapoints(e, k)]
                /\ KindAfter(e, k) = "none" => Place(e, k) = Len(TestsOf(e))
                /\ KindAfter(e, k) # "none" => Place(e, KindAfter(e, k)) = Place(e, k) + 1
<1>1. /\ e.enable_thp \in BOOLEAN /\ e.enable_lat \in BOOLEAN /\ e.buffer_size \in Nat
      /\ \A k : Datapoints(e, k) \in Nat
  BY RoomForResults DEF EntryType
<1> DEFINE t == TestsOf(e)
           of(k) == [kind |-> k, buffer_size |-> e.buffer_size,
                     num_datapoints |-> Datapoints(e, k)]
<1>2. \A k \in Kinds : of(k) \in AnyTest
  BY <1>1 DEF AnyTest
<1> HIDE DEF of
<1>3. t = [k \in DOMAIN KindsOf(e) |-> of(KindsOf(e)[k])]
  BY DEF TestsOf, of
<1>4. CASE e.enable_thp /\ e.enable_lat
  <2>1. KindsOf(e) = <<"read", "write", "latency">>
    BY <1>4, TwoAndOne, Zenon DEF KindsOf
  <2>2. t = <<of("read"), of("write"), of("latency")>>
    BY <1>3, <2>1
  <2>3. t \in Seq(AnyTest) /\ Len(t) = 3
    BY <1>2, <2>2 DEF Kinds
  <2> HIDE DEF t
  <2>4. /\ KindAfter(e, "none") = "read" /\ KindAfter(e, "read") = "write"
        /\ KindAfter(e, "write") = "latency" /\ KindAfter(e, "latency") = "none"
    BY <1>4 DEF KindAfter
  <2>5. Place(e, "read") = 1 /\ Place(e, "write") = 2 /\ Place(e, "latency") = 3
    BY <1>4 DEF Place
  <2> QED
    BY <2>2, <2>3, <2>4, <2>5 DEF Kinds, t, of
<1>5. CASE e.enable_thp /\ ~e.enable_lat
  <2>1. KindsOf(e) = <<"read", "write">>
    BY <1>5 DEF KindsOf
  <2>2. t = <<of("read"), of("write")>>
    BY <1>3, <2>1
  <2>3. t \in Seq(AnyTest) /\ Len(t) = 2
    BY <1>2, <2>2 DEF Kinds
  <2> HIDE DEF t
  <2>4. /\ KindAfter(e, "none") = "read" /\ KindAfter(e, "read") = "write"
        /\ KindAfter(e, "write") = "none"
    BY <1>5 DEF KindAfter
  <2>5. Place(e, "read") = 1 /\ Place(e, "write") = 2
    BY <1>5 DEF Place
  <2> QED
    BY <1>5, <2>2, <2>3, <2>4, <2>5 DEF Kinds, t, of
<1>6. CASE ~e.enable_thp /\ e.enable_lat
  <2>1. KindsOf(e) = <<"latency">>
    BY <1>6 DEF KindsOf
  <2>2. t = <<of("latency")>>
    BY <1>3, <2>1
  <2>3. t \in Seq(AnyTest) /\ Len(t) = 1
    BY <1>2, <2>2 DEF Kinds
  <2> HIDE DEF t
  <2>4. KindAfter(e, "none") = "latency" /\ KindAfter(e, "latency") = "none"
    BY <1>6 DEF KindAfter
  <2>5. Place(e, "latency") = 1
    BY <1>6 DEF Place
  <2> QED
    BY <1>6, <2>2, <2>3, <2>4, <2>5 DEF Kinds, t, of
<1>7. CASE ~e.enable_thp /\ ~e.enable_lat
  <2>1. KindsOf(e) = <<>>
    BY <1>7 DEF KindsOf
  <2>2. t = <<>>
    BY <1>3, <2>1
  <2>3. KindAfter(e, "none") = "none"
    BY <1>7 DEF KindAfter
  <2> QED
    BY <1>7, <2>2, <2>3 DEF Kinds
<1> QED
  BY <1>1, <1>4, <1>5, <1>6, <1>7

LEMMA LinesTyped ==
  ASSUME NEW entries \in Seq(Entries)
  PROVE  /\ LinesOf(entries) \in Seq(Seq(AnyTest))
         /\ Len(LinesOf(entries)) = Len(entries)
         /\ Len(entries) \in Nat
         /\ \A k \in 1 .. Len(entries) : LinesOf(entries)[k] = TestsOf(entries[k])
<1> DEFINE lines == LinesOf(entries)
<1>1. Len(entries) \in Nat /\ DOMAIN entries = 1 .. Len(entries)
  BY LenProperties
<1>2. \A k \in 1 .. Len(entries) : TestsOf(entries[k]) \in Seq(AnyTest)
  <2>1. \A k \in 1 .. Len(entries) : entries[k] \in EntryType
    BY ElementOfSeq, ScheduleAssumption DEF EntryType
  <2> QED
    BY <2>1, TestsPlaced
<1>3. lines = [k \in 1 .. Len(entries) |-> TestsOf(entries[k])]
  BY <1>1 DEF LinesOf
<1>4. lines \in Seq(Seq(AnyTest)) /\ Len(lines) = Len(entries)
  BY <1>1, <1>2, <1>3
<1> QED
  BY <1>1, <1>3, <1>4

(* One more of the tests t after what was collected before.                *)
LEMMA OneMore ==
  \A s, t \in Seq(AnyTest) : \A p \in 1 .. Len(t) :
    /\ t[p] \in AnyTest
    /\ s \o SubSeq(t, 1, p) \in Seq(AnyTest)
    /\ Append(s \o SubSeq(t, 1, p - 1), t[p]) = s \o SubSeq(t, 1, p)
    /\ s \o SubSeq(t, 1, p - 1) \in Seq(AnyTest)
    /\ SubSeq(t, p + 1, Len(t)) \in Seq(AnyTest)
    /\ s \o t = (s \o SubSeq(t, 1, p)) \o SubSeq(t, p + 1, Len(t))
    /\ p = Len(t) => s \o SubSeq(t, 1, p) = s \o t
<1> TAKE s, t \in Seq(AnyTest)
<1> TAKE p \in 1 .. Len(t)
<1>1. p \in Nat /\ Len(t) \in Nat /\ \A k \in 1 .. Len(t) : t[k] \in AnyTest
  BY LenProperties, ElementOfSeq
<1>2. /\ SubSeq(t, 1, p) \in Seq(AnyTest) /\ SubSeq(t, 1, p - 1) \in Seq(AnyTest)
      /\ SubSeq(t, p + 1, Len(t)) \in Seq(AnyTest)
  <2>1. /\ \A k \in 1 .. p : t[k] \in AnyTest
        /\ \A k \in 1 .. p - 1 : t[k] \in AnyTest
        /\ \A k \in p + 1 .. Len(t) : t[k] \in AnyTest
    BY <1>1
  <2>2. p - 1 \in Int /\ p + 1 \in Int
    BY <1>1
  <2> QED
    BY <1>1, <2>1, <2>2, SubSeqProperties
<1>3. SubSeq(t, 1, p) = Append(SubSeq(t, 1, p - 1), t[p])
  <2>1. SubSeq(t, 1, p) = SubSeq(t, 1, p - 1) \o <<t[p]>>
    <3>1. 1 \in 1 .. Len(t) /\ p \in 1 .. Len(t)
      BY <1>1
    <3> QED
      BY <3>1, SubSeqRecursiveSecond
  <2> QED
    BY <1>1, <1>2, <2>1, AppendIsConcat
<1>4. ASSUME NEW a \in Seq(AnyTest), NEW b \in Seq(AnyTest), NEW x \in AnyTest
      PROVE  Append(a \o b, x) = a \o Append(b, x)
  <2>1. /\ <<x>> \in Seq(AnyTest) /\ a \o b \in Seq(AnyTest)
        /\ Append(b, x) = b \o <<x>>
        /\ Append(a \o b, x) = (a \o b) \o <<x>>
    BY AppendIsConcat, ConcatProperties
  <2>2. (a \o b) \o <<x>> = a \o (b \o <<x>>)
    BY <2>1
  <2> QED
    BY <2>1, <2>2
<1>5. ASSUME NEW a \in Seq(AnyTest), NEW b \in Seq(AnyTest), NEW c \in Seq(AnyTest)
      PROVE  (a \o b) \o c = a \o (b \o c)
  OBVIOUS
<1>6. t = SubSeq(t, 1, p) \o SubSeq(t, p + 1, Len(t))
  <2>1. /\ 1 \in 1 .. Len(t) + 1 /\ p \in 1 - 1 .. Len(t) /\ Len(t) \in p .. Len(t)
    BY <1>1
  <2>2. SubSeq(t, 1, p) \o SubSeq(t, p + 1, Len(t)) = SubSeq(t, 1, Len(t))
    BY <2>1, ConcatAdjacentSubSeq
  <2> QED
    BY <2>2, SubSeqFull
<1>7. s \o t = (s \o SubSeq(t, 1, p)) \o SubSeq(t, p + 1, Len(t))
  <2> DEFINE b == SubSeq(t, 1, p)
      c == SubSeq(t, p + 1, Len(t))
  <2>1. b \in Seq(AnyTest) /\ c \in Seq(AnyTest) /\ t = b \o c
    BY <1>2, <1>6
  <2> HIDE DEF b, c
  <2>2. s \o t = (s \o b) \o c
    BY <2>1, <1>5
  <2> QED
    BY <2>2 DEF b, c
<1>8. Append(s \o SubSeq(t, 1, p - 1), t[p]) = s \o SubSeq(t, 1, p)
  <2> DEFINE b == SubSeq(t, 1, p - 1)
  <2>1. b \in Seq(AnyTest) /\ t[p] \in AnyTest /\ SubSeq(t, 1, p) = Append(b, t[p])
    BY <1>1, <1>2, <1>3
  <2> HIDE DEF b
  <2>2. Append(s \o b, t[p]) = s \o SubSeq(t, 1, p)
    BY <2>1, <1>4
  <2> QED
    BY <2>2 DEF b
<1>9. s \o SubSeq(t, 1, p) \in Seq(AnyTest) /\ s \o SubSeq(t, 1, p - 1) \in Seq(AnyTest)
  BY <1>2, ConcatProperties
<1> QED
  BY <1>1, <1>2, <1>7, <1>8, <1>9, SubSeqFull, Zenon

(* The next element of a beginning is one of the whole.                    *)
LEMMA NextOfWhole ==
  \A s, t, whole \in Seq(AnyTest) : \A x \in AnyTest :
    whole = Append(s, x) \o t => \E k \in DOMAIN whole : x = whole[k]
<1> TAKE s, t, whole \in Seq(AnyTest)
<1> TAKE x \in AnyTest
<1> HAVE whole = Append(s, x) \o t
<1>1. /\ Len(s) \in Nat /\ Append(s, x) \in Seq(AnyTest) /\ Len(Append(s, x)) = Len(s) + 1
      /\ Append(s, x)[Len(s) + 1] = x /\ Len(t) \in Nat
  BY AppendProperties, LenProperties
<1>2. /\ Len(s) + 1 \in 1 .. Len(Append(s, x)) + Len(t)
      /\ DOMAIN whole = 1 .. Len(Append(s, x)) + Len(t)
  BY <1>1, ConcatProperties, LenProperties
<1>3. whole[Len(s) + 1] = x
  BY <1>1, <1>2, ConcatProperties
<1> QED
  BY <1>2, <1>3

-----------------------------------------------------------------------------
(* Each step of main or of ci_schedule is one of the plan's, or none.      *)

(* Where nothing is collected, and no test is looked for.                  *)
LEMMA PlanUnchanged ==
  ASSUME UNCHANGED <<schedule, collected, PlanState>>
  PROVE  UNCHANGED Plan!planVars
BY DEF Plan!planVars, PlanState, StateOf, PlanLines, LinesOf

(* Every way out of main or ci_schedule fails, before Finish.              *)
LEMMA WayOut ==
  ASSUME pc \in Planning \cup {"entry", "test", "collect"}, PlanSoFar,
         pc' \in Ended, pc' = "done" \/ ret' = ret, ret' # 0,
         UNCHANGED <<schedule, collected>>
  PROVE  PlanSoFar' /\ Plan!Fail
<1>1. PlanState \in {"planning", "testing"} /\ PlanState' = "failed"
  <2>1. PlanState \in {"planning", "testing"}
    BY StatesOfPlan DEF PlanState
  <2>2. PlanState' = "failed"
    BY StatesOfPlan DEF PlanState
  <2> QED
    BY <2>1, <2>2
<1>2. Plan!Fail
  BY <1>1 DEF Plan!Fail, PlanState, StateOf, PlanLines, LinesOf
<1>3. pc # "done" /\ pc' \notin Planning \cup {"entry", "test", "collect"}
  BY DEF Planning, Ended
<1>4. PlanSoFar'
  BY <1>3 DEF PlanSoFar
<1> QED
  BY <1>2, <1>4

(* What main does is planning, and so is what the parser does.             *)
LEMMA PlanningStep ==
  ASSUME PlanSoFar, pc \in Planning, pc' \in Planning,
         UNCHANGED <<collected, ret>>
  PROVE  /\ PlanSoFar'
         /\ UNCHANGED schedule => UNCHANGED Plan!planVars
<1>1. ret = NotCalled /\ pc \notin Ended /\ pc' \notin Ended
      /\ pc \notin {"entry", "test", "collect"} /\ pc' \notin {"entry", "test", "collect"}
  BY DEF PlanSoFar, Planning, Ended
<1>2. PlanState = "planning" /\ PlanState' = "planning"
  BY StatesOfPlan DEF PlanState
<1> QED
  BY <1>1, <1>2, PlanUnchanged DEF PlanSoFar

(* An entry of the file adds its tests to the plan.                        *)
LEMMA EntryPlanned ==
  ASSUME ScheduleInv, PlanSoFar, ParseEntry
  PROVE  PlanSoFar' /\ Plan!Plan
<1>1. /\ pc = "parse" /\ UNCHANGED <<collected, ret>>
      /\ schedule \in Seq(Entries) /\ schedule' \in Seq(Entries)
  <2>1. ScheduleInv'
    BY ParsingStep
  <2> QED
    BY <2>1 DEF ParseEntry, ScheduleInv, ScheduleTypes
<1>2. PICK e \in Entries : pc' = pc /\ schedule' = Append(schedule, e)
  <2>1. PICK e \in Entries :
          IF e.buffer_size < prev_buffer_size
          THEN pc' = "done" /\ UNCHANGED schedule
          ELSE schedule' = Append(schedule, e) /\ UNCHANGED pc
    BY DEF ParseEntry
  <2>2. e.buffer_size \in Nat
    BY ScheduleAssumption
  <2>3. ~(e.buffer_size < prev_buffer_size)
    BY <2>2 DEF prev_buffer_size
  <2> QED
    BY <2>1, <2>3
<1>3. PlanSoFar'
  BY <1>1, <1>2, PlanningStep DEF Planning
<1>4. /\ PlanLines \in Seq(Seq(AnyTest)) /\ Len(PlanLines) = Len(schedule)
      /\ \A k \in 1 .. Len(schedule) : PlanLines[k] = TestsOf(schedule[k])
  BY <1>1, LinesTyped DEF PlanLines
<1>5. /\ PlanLines' \in Seq(Seq(AnyTest)) /\ Len(PlanLines') = Len(schedule')
      /\ \A k \in 1 .. Len(schedule') : PlanLines'[k] = TestsOf(schedule'[k])
  BY <1>1, LinesTyped DEF PlanLines
<1>6. e \in EntryType /\ TestsOf(e) \in Seq(AnyTest)
  BY ScheduleAssumption, TestsPlaced DEF EntryType
<1>7. PlanLines' = Append(PlanLines, TestsOf(e))
  <2> DEFINE more == Append(PlanLines, TestsOf(e))
  <2>1. /\ more \in Seq(Seq(AnyTest)) /\ Len(more) = Len(schedule) + 1
        /\ \A k \in 1 .. Len(schedule) : more[k] = PlanLines[k]
        /\ more[Len(schedule) + 1] = TestsOf(e)
    BY <1>4, <1>6, AppendProperties
  <2>2. /\ Len(schedule') = Len(schedule) + 1 /\ Len(schedule) \in Nat
        /\ \A k \in 1 .. Len(schedule) : schedule'[k] = schedule[k]
        /\ schedule'[Len(schedule) + 1] = e
    BY <1>1, <1>2, AppendProperties, LenProperties
  <2>3. ASSUME NEW k \in 1 .. Len(schedule') PROVE PlanLines'[k] = more[k]
    <3>1. CASE k \in 1 .. Len(schedule)
      BY <3>1, <1>4, <1>5, <2>1, <2>2
    <3>2. CASE k = Len(schedule) + 1
      BY <3>2, <1>5, <2>1, <2>2
    <3>3. k \in 1 .. Len(schedule) \/ k = Len(schedule) + 1
      BY <2>2
    <3> QED
      BY <3>1, <3>2, <3>3, Zenon
  <2> HIDE DEF more
  <2>4. Len(PlanLines') = Len(more)
    BY <1>5, <2>1, <2>2
  <2> QED
    BY <1>5, <2>1, <2>3, <2>4, SeqEqual DEF more
<1>8. PlanOf' = PlanOf \o TestsOf(e)
  BY <1>4, <1>6, <1>7, FlattenAppend DEF PlanOf
<1>9. PlanState = "planning" /\ PlanState' = PlanState
  <2>1. pc = "parse" /\ pc' = "parse"
    BY <1>1, <1>2
  <2> QED
    BY <2>1, StatesOfPlan DEF PlanState, Planning
<1> QED
  BY <1>1, <1>3, <1>8, <1>9 DEF Plan!Plan, PlanOf, PlanLines, LinesOf, PlanState, StateOf

(* The buffer is there and the tests begin.                                *)
LEMMA PlanBegun ==
  ASSUME ScheduleInv, PlanSoFar, Map
  PROVE  PlanSoFar' /\ Plan!Begin
<1>1. pc = "map" /\ pc' = "entry" /\ i' = 1 /\ UNCHANGED <<schedule, collected, ret>>
  BY DEF Map, parameters
<1>2. PlanState = "planning" /\ PlanState' = "testing"
  <2>1. pc = "map" /\ pc' = "entry"
    BY <1>1
  <2> QED
    BY <2>1, StatesOfPlan DEF PlanState, Planning
<1>3. Plan!Begin
  BY <1>1, <1>2 DEF Plan!Begin, PlanState, StateOf, PlanLines, LinesOf
<1>4. collected = <<>> /\ ret = NotCalled
  BY <1>1 DEF PlanSoFar, Planning
<1>5. UpTo(PlanLines, 0) = <<>>
  <2>1. PlanLines \in Seq(Seq(AnyTest)) /\ 0 \in 0 .. Len(PlanLines)
    BY LinesTyped DEF ScheduleInv, ScheduleTypes, PlanLines
  <2> QED
    BY <2>1, UpToNext
<1>6. PlanLines' = PlanLines
  BY <1>1 DEF PlanLines
<1>7. UpTo(PlanLines, i - 1)' = <<>>
  BY <1>1, <1>5, <1>6
<1>8. PlanSoFar'
  BY <1>1, <1>4, <1>7 DEF PlanSoFar, Planning
<1> QED
  BY <1>3, <1>8

(* The entry that is worked on, in the plan.                               *)
LEMMA EntryInPlan ==
  ASSUME ScheduleInv, i # 0, i <= Len(schedule)
  PROVE  /\ Entry \in EntryType /\ TestsOf(Entry) \in Seq(AnyTest)
         /\ UpTo(PlanLines, i - 1) \in Seq(AnyTest)
         /\ UpTo(PlanLines, i) = UpTo(PlanLines, i - 1) \o TestsOf(Entry)
         /\ \E rest \in Seq(AnyTest) : PlanOf = UpTo(PlanLines, i) \o rest
         /\ i \in Nat /\ (i + 1) - 1 = i
<1>1. /\ schedule \in Seq(Entries) /\ i \in 1 .. Len(schedule) /\ Len(schedule) \in Nat
  BY LenProperties DEF ScheduleInv, ScheduleTypes
<1>2. /\ PlanLines \in Seq(Seq(AnyTest)) /\ Len(PlanLines) = Len(schedule)
      /\ PlanLines[i] = TestsOf(Entry)
  BY <1>1, LinesTyped DEF Entry, PlanLines
<1>3. Entry \in EntryType /\ TestsOf(Entry) \in Seq(AnyTest)
  BY <1>1, EntryTyped, TestsPlaced DEF Entry
<1>4. i - 1 \in 0 .. Len(PlanLines) /\ i - 1 # Len(PlanLines) /\ (i - 1) + 1 = i
      /\ i \in 0 .. Len(PlanLines)
  BY <1>1, <1>2
<1>5. /\ UpTo(PlanLines, i - 1) \in Seq(AnyTest)
      /\ UpTo(PlanLines, i) = UpTo(PlanLines, i - 1) \o TestsOf(Entry)
  BY <1>2, <1>4, UpToNext
<1>6. \E rest \in Seq(AnyTest) : PlanOf = UpTo(PlanLines, i) \o rest
  BY <1>2, <1>4, UpToPrefix DEF PlanOf
<1>7. i \in Nat /\ (i + 1) - 1 = i
  BY <1>1
<1> QED
  BY <1>3, <1>5, <1>6, <1>7

(* An entry begins with the first of its tests, or is passed over if it    *)
(* has none.                                                               *)
LEMMA EntryBegun ==
  ASSUME ScheduleInv, PlanSoFar, BeginEntry
  PROVE  PlanSoFar' /\ UNCHANGED Plan!planVars
<1>1. /\ pc = "entry" /\ i <= Len(schedule) /\ UNCHANGED <<schedule, collected, ret>>
      /\ kind' = KindAfter(Entry, "none")
      /\ IF kind' = "none" THEN i' = i + 1 /\ UNCHANGED pc ELSE pc' = "test" /\ UNCHANGED i
  BY DEF BeginEntry, parameters
<1>2. i # 0 /\ collected = UpTo(PlanLines, i - 1) /\ ret = NotCalled
  BY <1>1 DEF PlanSoFar
<1>3. /\ Entry \in EntryType /\ TestsOf(Entry) \in Seq(AnyTest)
      /\ UpTo(PlanLines, i - 1) \in Seq(AnyTest)
      /\ UpTo(PlanLines, i) = UpTo(PlanLines, i - 1) \o TestsOf(Entry)
      /\ i \in Nat /\ (i + 1) - 1 = i
  BY <1>1, <1>2, EntryInPlan
<1>4. PlanLines' = PlanLines
  BY <1>1 DEF PlanLines
<1>5. CASE kind' = "none"
  <2>1. TestsOf(Entry) = <<>>
    BY <1>1, <1>3, <1>5, TestsPlaced
  <2>2. collected = UpTo(PlanLines, i)
    BY <1>2, <1>3, <2>1, ConcatEmptySeq
  <2>3. collected' = UpTo(PlanLines, i - 1)'
    BY <1>1, <1>3, <1>4, <1>5, <2>2
  <2>4. i' # 0 /\ pc' = "entry"
    BY <1>1, <1>3, <1>5
  <2>5. PlanSoFar'
    BY <1>1, <1>2, <2>3, <2>4 DEF PlanSoFar, Planning
  <2>6. PlanState = "testing" /\ PlanState' = "testing"
    <3>1. pc = "entry" /\ pc' = "entry"
      BY <1>1, <2>4
    <3> QED
      BY <3>1, StatesOfPlan DEF PlanState
  <2> QED
    BY <1>1, <2>5, <2>6, PlanUnchanged
<1>6. CASE kind' # "none"
  <2>1. pc' = "test" /\ i' = i
    BY <1>1, <1>6
  <2>2. Entry' = Entry
    BY <1>1, <2>1 DEF Entry
  <2>3. Place(Entry', kind') - 1 = 0
    BY <1>1, <1>3, <1>6, <2>2, TestsPlaced
  <2>4. SubSeq(TestsOf(Entry'), 1, 0) = <<>>
    BY SubSeqEmpty
  <2>5. collected = UpTo(PlanLines, i - 1) \o <<>>
    BY <1>2, <1>3, ConcatEmptySeq
  <2>6. collected' = (UpTo(PlanLines, i - 1) \o
                      SubSeq(TestsOf(Entry), 1, Place(Entry, kind) - 1))'
    BY <1>1, <1>4, <2>1, <2>3, <2>4, <2>5
  <2>7. PlanSoFar'
    BY <1>1, <1>2, <2>1, <2>6 DEF PlanSoFar, Planning
  <2>8. PlanState = "testing" /\ PlanState' = "testing"
    <3>1. pc = "entry" /\ pc' = "test"
      BY <1>1, <2>1
    <3> QED
      BY <3>1, StatesOfPlan DEF PlanState
  <2> QED
    BY <1>1, <2>7, <2>8, PlanUnchanged
<1> QED
  BY <1>5, <1>6

(* The results of a test are there, to be collected.                       *)
LEMMA TestRun ==
  ASSUME PlanSoFar, Throughput \/ Latency
  PROVE  PlanSoFar' /\ UNCHANGED Plan!planVars
<1>1. /\ pc = "test" /\ pc' = "collect" /\ UNCHANGED <<schedule, i, kind, collected, ret>>
  BY DEF Throughput, Latency
<1>2. PlanLines' = PlanLines /\ Entry' = Entry
  BY <1>1 DEF PlanLines, Entry
<1>3. PlanSoFar'
  BY <1>1, <1>2 DEF PlanSoFar, Planning
<1>4. PlanState = "testing" /\ PlanState' = "testing"
  <2>1. pc = "test" /\ pc' = "collect"
    BY <1>1
  <2> QED
    BY <2>1, StatesOfPlan DEF PlanState
<1> QED
  BY <1>1, <1>3, <1>4, PlanUnchanged

(* The next test of the plan is collected.                                 *)
LEMMA TestCollected ==
  ASSUME ScheduleInv, PlanSoFar, Collect
  PROVE  PlanSoFar' /\ Plan!Collect
<1> DEFINE tests == TestsOf(Entry)
           place == Place(Entry, kind)
           before == UpTo(PlanLines, i - 1)
<1>1. /\ pc = "collect" /\ UNCHANGED <<schedule, ret>>
      /\ collected' = Append(collected, Call)
      /\ kind' = KindAfter(Entry, kind)
      /\ IF kind' = "none"
         THEN pc' = "entry" /\ i' = i + 1
         ELSE pc' = "test" /\ UNCHANGED i
  BY DEF Collect, parameters
<1>2. /\ i # 0 /\ i <= Len(schedule) /\ kind \in Kinds
      /\ kind = "latency" => Entry.enable_lat
      /\ kind # "latency" => Entry.enable_thp
  BY <1>1 DEF ScheduleInv, TestOfEntry
<1>3. collected = before \o SubSeq(tests, 1, place - 1) /\ ret = NotCalled
  BY <1>1 DEF PlanSoFar
<1>4. /\ Entry \in EntryType /\ tests \in Seq(AnyTest) /\ before \in Seq(AnyTest)
      /\ UpTo(PlanLines, i) = before \o tests
      /\ i \in Nat /\ (i + 1) - 1 = i
  BY <1>1, <1>2, EntryInPlan
<1>5. PICK rest \in Seq(AnyTest) : PlanOf = UpTo(PlanLines, i) \o rest
  BY <1>1, <1>2, EntryInPlan
<1>6. /\ place \in 1 .. Len(tests)
      /\ tests[place] = [kind |-> kind, buffer_size |-> Entry.buffer_size,
                         num_datapoints |-> Datapoints(Entry, kind)]
      /\ kind' = "none" => place = Len(tests)
      /\ kind' # "none" => Place(Entry, kind') = place + 1
  BY <1>1, <1>2, <1>4, TestsPlaced
<1>7. Call = tests[place]
  BY <1>6 DEF Call, N
<1> DEFINE now == before \o SubSeq(tests, 1, place)
           later == SubSeq(tests, place + 1, Len(tests))
<1> HIDE DEF tests, place, before
<1>a. /\ before \in Seq(AnyTest) /\ tests \in Seq(AnyTest)
      /\ place \in 1 .. Len(tests)
  BY <1>4, <1>6
<1>b. /\ tests[place] \in AnyTest /\ now \in Seq(AnyTest)
      /\ Append(before \o SubSeq(tests, 1, place - 1), tests[place]) = now
      /\ before \o SubSeq(tests, 1, place - 1) \in Seq(AnyTest)
      /\ later \in Seq(AnyTest) /\ before \o tests = now \o later
      /\ place = Len(tests) => now = before \o tests
  BY <1>a, OneMore, Zenon DEF now, later
<1>8. /\ tests[place] \in AnyTest /\ now \in Seq(AnyTest) /\ collected \in Seq(AnyTest)
      /\ later \in Seq(AnyTest) /\ before \o tests = now \o later
      /\ collected' = now
      /\ place = Len(tests) => now = before \o tests
  <2>1. collected' = now
    BY <1>1, <1>3, <1>7, <1>b, Zenon
  <2> QED
    BY <1>3, <2>1, <1>b, Zenon
<1> HIDE DEF now, later
<1>9. PlanOf = now \o (later \o rest) /\ later \o rest \in Seq(AnyTest)
  <2>1. PlanOf = (now \o later) \o rest
    BY <1>4, <1>5, <1>8
  <2>2. later \o rest \in Seq(AnyTest)
    BY <1>5, <1>8, ConcatProperties
  <2>3. ASSUME NEW a \in Seq(AnyTest), NEW b \in Seq(AnyTest), NEW c \in Seq(AnyTest)
        PROVE  (a \o b) \o c = a \o (b \o c)
    OBVIOUS
  <2> QED
    BY <1>8, <2>1, <2>2, <2>3, Zenon
<1>10. /\ IsPrefix(collected', PlanOf)
       /\ \E k \in DOMAIN PlanOf : Call = PlanOf[k]
  <2>1. now = Append(collected, Call)
    BY <1>1, <1>8
  <2>2. Call \in AnyTest /\ collected' = now
    BY <1>7, <1>8
  <2>3. IsPrefix(now, now \o (later \o rest))
    BY <1>8, <1>9, BeginsWhole, Zenon
  <2>4. \E k \in DOMAIN PlanOf : Call = PlanOf[k]
    <3>1. PlanOf = Append(collected, Call) \o (later \o rest)
      BY <1>9, <2>1
    <3>2. collected \in Seq(AnyTest) /\ PlanOf \in Seq(AnyTest)
      BY <1>8, <1>9, ConcatProperties
    <3> QED
      BY <1>9, <2>2, <3>1, <3>2, NextOfWhole, Zenon
  <2> QED
    BY <1>9, <2>1, <2>2, <2>3, <2>4
<1>11. PlanLines' = PlanLines /\ PlanOf' = PlanOf
  BY <1>1 DEF PlanLines, PlanOf
<1>12. PlanState = "testing" /\ PlanState' = "testing"
  <2>1. pc = "collect" /\ pc' \in {"entry", "test"}
    BY <1>1
  <2> QED
    BY <2>1, StatesOfPlan DEF PlanState
<1>13. Plan!Collect
  <2>1. \E test \in {PlanOf[k] : k \in DOMAIN PlanOf} : collected' = Append(collected, test)
    BY <1>1, <1>10
  <2>2. Len(collected') <= Len(PlanOf)
        /\ SubSeq(collected', 1, Len(collected')) = SubSeq(PlanOf, 1, Len(collected'))
    BY <1>10 DEF IsPrefix
  <2> QED
    BY <1>11, <1>12, <2>1, <2>2
       DEF Plan!Collect, Plan!IsPrefix, PlanState, StateOf, PlanOf, PlanLines, LinesOf
<1>14. PlanSoFar'
  <2>1. CASE kind' = "none"
    <3>1. pc' = "entry" /\ i' = i + 1 /\ i' # 0
      BY <1>1, <1>4, <2>1
    <3>2. collected' = UpTo(PlanLines, i)
      BY <1>4, <1>6, <1>8, <2>1
    <3>3. collected' = UpTo(PlanLines, i - 1)'
      BY <1>4, <1>11, <3>1, <3>2
    <3> QED
      BY <1>1, <1>3, <3>1, <3>3 DEF PlanSoFar, Planning
  <2>2. CASE kind' # "none"
    <3>1. pc' = "test" /\ i' = i
      BY <1>1, <2>2
    <3>2. Entry' = Entry
      BY <1>1, <3>1 DEF Entry
    <3>3. Place(Entry', kind') - 1 = place
      <4>1. place \in Nat
        BY <1>6
      <4> QED
        BY <1>6, <2>2, <3>2, <4>1
    <3>4. collected' = (UpTo(PlanLines, i - 1) \o
                        SubSeq(TestsOf(Entry), 1, Place(Entry, kind) - 1))'
      BY <1>8, <1>11, <3>1, <3>2, <3>3 DEF now, before, tests
    <3> QED
      BY <1>1, <1>3, <3>1, <3>4 DEF PlanSoFar, Planning
  <2> QED
    BY <2>1, <2>2
<1> QED
  BY <1>13, <1>14

(* Success is returned after the last test only.                           *)
LEMMA PlanFinished ==
  ASSUME ScheduleInv, PlanSoFar, Finish
  PROVE  PlanSoFar' /\ Plan!Succeed
<1>1. pc = "entry" /\ i > Len(schedule) /\ pc' = "done" /\ ret' = 0
      /\ UNCHANGED <<schedule, collected>>
  BY DEF Finish, Leave
<1>2. /\ schedule \in Seq(Entries) /\ i \in Nat /\ i <= Len(schedule) + 1
      /\ collected = UpTo(PlanLines, i - 1)
  BY <1>1 DEF ScheduleInv, ScheduleTypes, PlanSoFar
<1>3. PlanLines \in Seq(Seq(AnyTest)) /\ Len(PlanLines) = Len(schedule) /\ Len(schedule) \in Nat
  BY <1>2, LinesTyped DEF PlanLines
<1>4. i - 1 = Len(PlanLines) /\ Len(PlanLines) \in 0 .. Len(PlanLines)
  BY <1>1, <1>2, <1>3
<1>5. collected = PlanOf
  BY <1>2, <1>3, <1>4, UpToNext DEF PlanOf
<1>6. PlanState = "testing" /\ PlanState' = "succeeded"
  <2>1. pc = "entry" /\ pc' = "done" /\ ret' = 0
    BY <1>1
  <2> QED
    BY <2>1, StatesOfPlan DEF PlanState
<1>7. Plan!Succeed
  BY <1>1, <1>5, <1>6 DEF Plan!Succeed, PlanState, StateOf, PlanOf, PlanLines, LinesOf
<1>8. PlanSoFar'
  BY <1>1 DEF PlanSoFar, Planning
<1> QED
  BY <1>7, <1>8

LEMMA PlanStep ==
  ASSUME Inv, PlanSoFar, [Next]_vars
  PROVE  PlanSoFar' /\ [Plan!Next]_(Plan!planVars)
<1> USE DEF Inv
<1>1. CASE ParseEntry
  BY <1>1, EntryPlanned DEF Plan!Next
<1>2. CASE Map
  BY <1>2, PlanBegun DEF Plan!Next
<1>3. CASE BeginEntry
  BY <1>3, EntryBegun
<1>4. CASE Throughput \/ Latency
  BY <1>4, TestRun
<1>5. CASE Collect
  BY <1>5, TestCollected DEF Plan!Next
<1>6. CASE Finish
  BY <1>6, PlanFinished DEF Plan!Next
<1>7. CASE TakeCommand \/ TakeMember \/ TakeTiming \/ TakeHelp \/ LastOption \/ Open \/ ParseEnds
  <2>1. /\ pc \in Planning /\ pc' \in Planning /\ UNCHANGED <<schedule, collected, ret>>
    BY <1>7 DEF TakeCommand, TakeMember, TakeTiming, TakeHelp, LastOption, Open, ParseEnds,
                Taking, scheduleVars, Planning
  <2> QED
    BY <2>1, PlanningStep
<1>8. CASE StartCommand \/ Check
  <2>1. /\ pc \in Planning /\ UNCHANGED <<schedule, collected>>
        /\ \/ pc' \in Planning /\ ret' = ret
           \/ pc' = "done" /\ ret' \in {ret, -1, -65535}
    BY <1>8 DEF StartCommand, Check, Leave, Planning
  <2>2. ret = NotCalled
    BY <2>1 DEF PlanSoFar, Planning
  <2>3. CASE pc' \in Planning /\ ret' = ret
    BY <2>1, <2>3, PlanningStep
  <2>4. CASE pc' = "done"
    <3>1. ret' # 0
      BY <2>1, <2>2, <2>4 DEF NotCalled, Planning
    <3> QED
      BY <2>1, <2>4, <3>1, WayOut DEF Ended, Plan!Next
  <2> QED
    BY <2>1, <2>3, <2>4
<1>9. CASE TakeSecondCommand \/ TakeGarbage \/ RefuseOption \/ SearchPastOptions
           \/ PrintMessage \/ OpenFails \/ ParseThrows \/ MapFails
           \/ BeginEntryCrashes \/ ThroughputFails \/ TestExits \/ TestCrashes
           \/ CollectCrashes
  <2>1. /\ pc \in Planning \cup {"entry", "test", "collect"} /\ pc' \in Ended
        /\ pc' = "done" \/ ret' = ret
        /\ ret' \in {ret, -2, -4}
        /\ UNCHANGED <<schedule, collected>>
    BY <1>9 DEF TakeSecondCommand, TakeGarbage, RefuseOption, SearchPastOptions, PrintMessage,
                OpenFails, ParseThrows, MapFails, BeginEntryCrashes, ThroughputFails,
                TestExits, TestCrashes, CollectCrashes, Leave, Taking, Planning, Ended
  <2>2. ret = NotCalled
    BY <2>1 DEF PlanSoFar, Planning
  <2>3. ret' # 0
    BY <2>1, <2>2 DEF NotCalled
  <2> QED
    BY <2>1, <2>3, WayOut DEF Plan!Next
<1>10. CASE UNCHANGED vars
  <2>1. UNCHANGED <<pc, schedule, collected, ret, i, kind>>
    BY <1>10 DEF vars, scheduleVars, local
  <2>2. PlanLines' = PlanLines /\ Entry' = Entry
    BY <2>1 DEF PlanLines, Entry
  <2>3. PlanSoFar'
    BY <2>1, <2>2 DEF PlanSoFar
  <2> QED
    BY <2>1, <2>3, PlanUnchanged DEF PlanState
<1> QED
  BY <1>1, <1>2, <1>3, <1>4, <1>5, <1>6, <1>7, <1>8, <1>9, <1>10
     DEF Next, Main, RunSchedule

(* Whatever schedule is given, and whatever fails: its tests are run and   *)
(* collected in the order of the file, each once, and ci_schedule returns  *)
(* 0 only after the last of them.                                          *)
THEOREM PlanFollowed == Spec => Plan!SafeSpec
<1>1. Init => Plan!Init /\ PlanSoFar
  <2> SUFFICES ASSUME Init PROVE Plan!Init /\ PlanSoFar
    OBVIOUS
  <2>1. schedule = <<>> /\ collected = <<>> /\ pc = "getopt" /\ ret = NotCalled
    BY DEF Init, Idle
  <2>2. PlanOf = <<>>
    <3>1. PlanLines = <<>>
      BY <2>1 DEF PlanLines, LinesOf
    <3>2. <<>> \in Seq(Seq(AnyTest))
      BY EmptySeq
    <3> QED
      BY <3>1, <3>2, FlattenTyped DEF PlanOf
  <2>3. PlanState = "planning"
    BY <2>1, StatesOfPlan DEF PlanState, Planning
  <2>4. Plan!Init
    BY <2>1, <2>2, <2>3 DEF Plan!Init, PlanState, StateOf, PlanOf, PlanLines, LinesOf
  <2>5. PlanSoFar
    BY <2>1 DEF PlanSoFar, Planning
  <2> QED
    BY <2>4, <2>5
<1>2. Inv /\ PlanSoFar /\ [Next]_vars => PlanSoFar' /\ [Plan!Next]_(Plan!planVars)
  BY PlanStep
<1> QED
  BY <1>1, <1>2, Invariant, PTL DEF Spec, Plan!SafeSpec
=============================================================================
