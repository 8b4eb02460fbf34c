-------------------------------- MODULE Schedule --------------------------------
(***************************************************************************)
(* `ci --schedule': run_schedule, parse_schedule and ConsoleCollector      *)
(* (CacheInspector/src/ci.cpp), and ci_schedule (schedule.cpp), which runs *)
(* the tests of a schedule in one buffer that it allocates for all.        *)
(*                                                                         *)
(* A file is the sequence of lines it yields.  A comment, an empty line    *)
(* and a line without six columns leave no trace, and a line of 1024       *)
(* characters ends the file like its end does.  total_data_size is handed  *)
(* through to sequential_throughput (SeqThp) and left out here: a          *)
(* throughput test may scan its buffer, or not at all.  Sizes are in a     *)
(* unit of which Page make a huge page; that they are rounded up to whole  *)
(* pages modulo 2^64 is left out.                                          *)
(*                                                                         *)
(* The results of a test are abstracted to the kind of the test: it is     *)
(* what each element of iter_results was computed by, and each row of the  *)
(* counters was counted in.                                                *)
(***************************************************************************)
EXTENDS Integers, SequencesExt

CONSTANTS
  Entries,     (* the lines with six columns, as the entries they become    *)
  MaxEntries,  (* bound on the entries of a schedule                        *)
  Page,        (* units of a huge page                                      *)
  Chunk,       (* units a turn of the throughput loops touches, 1 KiB       *)
  ListEntry,   (* units of an entry of rand_latency's list, 8 bytes         *)
  StackRoom,   (* the doubles that fit on the stack, less than 2^32         *)
  Supported,   (* the timing mechanisms this build has                      *)
  Faults       (* TRUE if calls to the system and tests may fail            *)

ASSUME ScheduleAssumption ==
  /\ Entries \subseteq
       [buffer_size : Nat, enable_thp : BOOLEAN, thp_num_datapoints : Nat,
        enable_lat : BOOLEAN, lat_num_datapoints : Nat]
  /\ MaxEntries \in Nat /\ Faults \in BOOLEAN
  /\ Page \in Nat \ {0} /\ Chunk \in Nat \ {0} /\ ListEntry \in Nat \ {0}
  /\ StackRoom \in Nat

VARIABLES
  pc,            (* what is done next                                       *)
  timing,        (* parameter timing of ci_schedule                         *)
  show_perf,     (* parameter show_perf_counters                            *)
  schedule,      (* the entries parsed                                      *)
  i,             (* the entry whose tests are run                           *)
  kind,          (* the test of that entry which is next                    *)
  iter_results,  (* what each element of the array was computed by          *)
  lpcs,          (* the optional rows of counters                           *)
  mapped,        (* the size of the buffer, 0 if there is none              *)
  collected,     (* what the collector was called with                      *)
  ret            (* what ci_schedule returned                               *)

parameters == <<timing, show_perf>>
local == <<i, kind, iter_results, lpcs>>
scheduleVars == <<pc, parameters, schedule, local, mapped, collected, ret>>

Kinds == {"read", "write", "latency"}
Ended == {"done", "aborted", "crashed"}
NotCalled == 1
ReturnCodes == {0, -1, -2, -4, -65535}
NoRows == [there |-> FALSE, rows |-> <<>>]

(* Definitions named Variant_... are faulty forms of the definition they   *)
(* stand before.  No specification uses them: put in its place, each shows *)
(* that a property of a run tells the two apart.                           *)
Variant_RoundUp_not(n, m) == n
Variant_RoundUp_down(n, m) == (n \div m) * m
RoundUp(n, m) == ((n + m - 1) \div m) * m
Larger(x, y) == IF x > y THEN x ELSE y

(* How many results the test of kind k has in entry e.                     *)
Datapoints(e, k) ==
  IF k = "latency" THEN e.lat_num_datapoints ELSE e.thp_num_datapoints

(* The test of entry e that follows k, or "none": read, write, latency.    *)
KindAfter(e, k) ==
  CASE e.enable_thp /\ k = "none" -> "read"
    [] k = "read" -> "write"
    [] e.enable_lat /\ k = (IF e.enable_thp THEN "write" ELSE "none") -> "latency"
    [] OTHER -> "none"

(* Before run_schedule.                                                    *)
Idle ==
  /\ schedule = <<>>
  /\ i = 0 /\ kind = "none" /\ iter_results = <<>> /\ lpcs = NoRows
  /\ mapped = 0 /\ collected = <<>> /\ ret = NotCalled

Entry == schedule[i]
N == Datapoints(Entry, kind)

Leave(code) == pc' = "done" /\ ret' = code

-----------------------------------------------------------------------------
(* parse_schedule: ifstream, and the while loop.                           *)
Open ==
  /\ pc = "open"
  /\ pc' = "parse"
  /\ UNCHANGED <<parameters, schedule, local, mapped, collected, ret>>

OpenFails ==
  /\ pc = "open" /\ Faults
  /\ pc' = "done"
  /\ UNCHANGED <<parameters, schedule, local, mapped, collected, ret>>

(* It is declared in the loop: the size of the line before is forgotten.   *)
prev_buffer_size == 0

ParseEntry ==
  /\ pc = "parse" /\ Len(schedule) < MaxEntries
  /\ \E e \in Entries :
       IF e.buffer_size < prev_buffer_size
       THEN pc' = "done" /\ UNCHANGED schedule
       ELSE schedule' = Append(schedule, e) /\ UNCHANGED pc
  /\ UNCHANGED <<parameters, local, mapped, collected, ret>>

(* A column that is no number: stoull throws, and nobody catches.          *)
ParseThrows ==
  /\ pc = "parse" /\ Faults
  /\ pc' = "aborted"
  /\ UNCHANGED <<parameters, schedule, local, mapped, collected, ret>>

ParseEnds ==
  /\ pc = "parse"
  /\ pc' = "check"
  /\ UNCHANGED <<parameters, schedule, local, mapped, collected, ret>>

-----------------------------------------------------------------------------
(* ci_schedule: the parameters, and the buffer.                            *)

Check ==
  /\ pc = "check"
  /\ CASE timing \notin Supported -> Leave(-65535)
       [] timing \in Supported /\ schedule = <<>> -> Leave(-1)
       [] OTHER -> pc' = "map" /\ UNCHANGED ret
  /\ UNCHANGED <<parameters, schedule, local, mapped, collected>>

(* One buffer for all entries, as large as the last of them.               *)
Map ==
  /\ pc = "map" /\ Last(schedule).buffer_size > 0
  /\ mapped' = RoundUp(Last(schedule).buffer_size, Page)
  /\ i' = 1
  /\ pc' = "entry"
  /\ UNCHANGED <<parameters, schedule, kind, iter_results, lpcs, collected, ret>>

(* mmap refuses a length of 0, and may lack huge pages.                    *)
MapFails ==
  /\ pc = "map" /\ (Faults \/ Last(schedule).buffer_size = 0)
  /\ Leave(-2)
  /\ UNCHANGED <<parameters, schedule, local, mapped, collected>>

-----------------------------------------------------------------------------
(* ci_schedule: the loop over the entries.                                 *)

(* iter_results is an array on the stack.                                  *)
Cells(e) == Larger(e.thp_num_datapoints, e.lat_num_datapoints)

(* The array and the optional are new for each entry; the optional is      *)
(* given rows only in the branch of the throughput tests.                  *)
BeginEntry ==
  /\ pc = "entry" /\ i <= Len(schedule)
  /\ Cells(Entry) <= StackRoom \/ KindAfter(Entry, "none") = "none"
  /\ iter_results' = [k \in 1 .. Cells(Entry) |-> "none"]
  /\ lpcs' = [there |-> Entry.enable_thp /\ show_perf, rows |-> <<>>]
  /\ kind' = KindAfter(Entry, "none")
  /\ IF kind' = "none" THEN i' = i + 1 /\ UNCHANGED pc ELSE pc' = "test" /\ UNCHANGED i
  /\ UNCHANGED <<parameters, schedule, mapped, collected, ret>>

(* The first function that is called finds the end of the stack.           *)
BeginEntryCrashes ==
  /\ pc = "entry" /\ i <= Len(schedule)
  /\ Cells(Entry) > StackRoom
  /\ pc' = "crashed"
  /\ UNCHANGED <<parameters, schedule, local, mapped, collected, ret>>

(* A test accesses Entry.buffer_size bytes of the buffer, divides by that  *)
(* size and writes N elements of the array.                                *)
InReach == Entry.buffer_size \in 1 .. mapped /\ N <= Len(iter_results)

(* The loops of a throughput test stop at the end of a buffer of whole     *)
(* chunks (SeqThp, KiBNotOverrun); with any other size the first scan runs *)
(* on until it leaves the mapping (SeqThp, Segv).                          *)
WholeChunks(e) == e.buffer_size % Chunk = 0

(* fill_cyclic_linked_list divides by the number of entries of the list.   *)
HasList(e) == e.buffer_size \div ListEntry > 0

Results == [k \in DOMAIN iter_results |-> IF k <= N THEN kind ELSE iter_results[k]]

(* sequential_throughput: a row for each result (SeqThp, ResultsComplete). *)
Throughput ==
  /\ pc = "test" /\ kind # "latency" /\ InReach
  /\ iter_results' = Results
  /\ lpcs' = IF lpcs.there
             THEN [lpcs EXCEPT !.rows = @ \o [k \in 1 .. N |-> kind]] ELSE lpcs
  /\ pc' = "collect"
  /\ UNCHANGED <<parameters, schedule, i, kind, mapped, collected, ret>>

(* The return in the middle of the loop leaves the buffer mapped.  It may  *)
(* come before the buffer is touched.                                      *)
ThroughputFails ==
  /\ pc = "test" /\ kind # "latency" /\ Entry.buffer_size > 0 /\ Faults
  /\ Leave(-4)
  /\ UNCHANGED <<parameters, schedule, local, mapped, collected>>

(* rand_latency: a data point that could not be measured has a result but  *)
(* no row.  It fails only where it has to allocate (RandLat, AllocateFails) *)
(* and here it has not.  Without a list there is nothing to measure, and   *)
(* it gets there only if fill_cyclic_linked_list failed before it divided. *)
Latency ==
  /\ pc = "test" /\ kind = "latency" /\ InReach
  /\ HasList(Entry) \/ (Faults /\ N = 0)
  /\ iter_results' = Results
  /\ \E counted \in IF Faults THEN 0 .. N ELSE {N} :
       lpcs' = IF lpcs.there
               THEN [lpcs EXCEPT !.rows = @ \o [k \in 1 .. counted |-> kind]] ELSE lpcs
  /\ pc' = "collect"
  /\ UNCHANGED <<parameters, schedule, i, kind, mapped, collected, ret>>

(* A call that failed ends the process: a counter that cannot be used, by  *)
(* exit() (PerfCounters), or a list that could not be built, by what the   *)
(* traversal takes for an address (RandLat, FillFails).                    *)
TestExits ==
  /\ pc = "test" /\ InReach /\ Faults
  /\ pc' = "aborted"
  /\ UNCHANGED <<parameters, schedule, local, mapped, collected, ret>>

TestCrashes ==
  /\ pc = "test"
  /\ \/ ~InReach
     \/ kind # "latency" /\ ~WholeChunks(Entry) /\ N > 0
     \/ kind = "latency" /\ ~HasList(Entry)
  /\ pc' = "crashed"
  /\ UNCHANGED <<parameters, schedule, local, mapped, collected, ret>>

(* The collector prints the results and, with show_perf, the rows of       *)
(* *lpcs, there or not; then lpcs is cleared.                              *)
Call == [kind |-> kind, buffer_size |-> Entry.buffer_size, num_datapoints |-> N]

Variant_Collect_keeps_rows ==
  /\ pc = "collect"
  /\ collected' = Append(collected, Call)
  /\ kind' = KindAfter(Entry, kind)
  /\ IF kind' = "none"
     THEN pc' = "entry" /\ i' = i + 1
     ELSE pc' = "test" /\ UNCHANGED i
  /\ UNCHANGED <<parameters, schedule, iter_results, lpcs, mapped, ret>>
Collect ==
  /\ pc = "collect"
  /\ collected' = Append(collected, Call)
  /\ lpcs' = [lpcs EXCEPT !.rows = <<>>]
  /\ kind' = KindAfter(Entry, kind)
  /\ IF kind' = "none"
     THEN pc' = "entry" /\ i' = i + 1
     ELSE pc' = "test" /\ UNCHANGED i
  /\ UNCHANGED <<parameters, schedule, iter_results, mapped, ret>>

(* What *lpcs is when lpcs is empty may look like no rows (Collect), or    *)
(* not.                                                                    *)
CollectCrashes ==
  /\ pc = "collect" /\ show_perf /\ ~lpcs.there
  /\ pc' = "crashed"
  /\ UNCHANGED <<parameters, schedule, local, mapped, collected, ret>>

Variant_Finish_early ==
  /\ pc = "entry" /\ i >= Len(schedule)
  /\ mapped' = 0
  /\ Leave(0)
  /\ UNCHANGED <<parameters, schedule, local, collected>>
Finish ==
  /\ pc = "entry" /\ i > Len(schedule)
  /\ mapped' = 0
  /\ Leave(0)
  /\ UNCHANGED <<parameters, schedule, local, collected>>

RunSchedule ==
  \/ Open \/ OpenFails \/ ParseEntry \/ ParseThrows \/ ParseEnds
  \/ Check \/ Map \/ MapFails
  \/ BeginEntry \/ BeginEntryCrashes \/ Throughput \/ ThroughputFails \/ Latency
  \/ TestExits \/ TestCrashes \/ Collect \/ CollectCrashes \/ Finish

-----------------------------------------------------------------------------
(* Properties                                                              *)

ScheduleTypeOK ==
  /\ pc \in Ended \cup {"open", "parse", "check", "map", "entry", "test", "collect"}
  /\ show_perf \in BOOLEAN
  /\ schedule \in Seq(Entries)
  /\ i \in 0 .. Len(schedule) + 1
  /\ kind \in Kinds \cup {"none"}
  /\ iter_results \in Seq(Kinds \cup {"none"})
  /\ lpcs.there \in BOOLEAN /\ lpcs.rows \in Seq(Kinds)
  /\ mapped \in Nat /\ mapped % Page = 0
  /\ ret \in ReturnCodes \cup {NotCalled}

(* The collector is called with the results of the test that was just run  *)
(* and of no other, as many as it is told, and its rows of counters are of *)
(* that test too and no more than the results they are printed beside.     *)
CollectsThisTest ==
  pc = "collect" =>
    /\ Len(iter_results) >= N
    /\ \A k \in 1 .. N : iter_results[k] = kind
    /\ \A k \in DOMAIN lpcs.rows : lpcs.rows[k] = kind
    /\ Len(lpcs.rows) <= N

(* Whatever its other columns, its order but for the last entry and the    *)
(* calls that fail: once it has a buffer, a schedule does not crash if     *)
(* every entry has a size that its tests can end at and that the last      *)
(* entry's is not smaller than, results that fit on the stack, and, if     *)
(* counters are shown, no test for latency alone.  One buffer of the last  *)
(* entry's size is enough for all of them.                                 *)
Sound(e) ==
  /\ e.enable_thp => WholeChunks(e)
  /\ e.enable_lat => HasList(e)
  /\ Cells(e) <= StackRoom
  /\ show_perf /\ e.enable_lat => e.enable_thp

WellFormed ==
  \A k \in DOMAIN schedule :
    /\ schedule[k].buffer_size \in 1 .. Last(schedule).buffer_size
    /\ Sound(schedule[k])

WellFormedSafe == pc = "crashed" /\ mapped > 0 => ~WellFormed

(* ci.cpp:307: "has a buffer size smaller than previous one" -- no test is *)
(* run in a buffer that is too small for it.                               *)
TestsInBuffer == pc = "test" => Entry.buffer_size <= mapped

(* Each entry's tests are run and collected, once and in order.            *)
KindsOf(e) ==
  (IF e.enable_thp THEN <<"read", "write">> ELSE <<>>) \o
  (IF e.enable_lat THEN <<"latency">> ELSE <<>>)

TestsOf(e) ==
  [k \in DOMAIN KindsOf(e) |->
     [kind |-> KindsOf(e)[k], buffer_size |-> e.buffer_size,
      num_datapoints |-> Datapoints(e, KindsOf(e)[k])]]

Plan == INSTANCE TestPlan WITH
  Tests <- {TestsOf(e) : e \in Entries},
  plan <- FlattenSeq([k \in DOMAIN schedule |-> TestsOf(schedule[k])]),
  state <- CASE pc \in {"entry", "test", "collect"} -> "testing"
             [] pc = "done" /\ ret = 0 -> "succeeded"
             [] pc \in Ended /\ ret # 0 -> "failed"
             [] OTHER -> "planning"

RunsThePlan == Plan!Spec
=============================================================================
