------------------------------ MODULE MCCommandLine ------------------------------
(* Command lines and schedule files for TLC.                               *)
EXTENDS CommandLine

Opt(o, v) == [option |-> o, value |-> v]

(* Each command, each member with 0 and another value where 0 means        *)
(* something, and what is refused.                                         *)
Options ==
  {Opt(c, 0) : c \in Commands} \cup
  {Opt(m, v) : m \in {"num_datapoints", "sampling_interval", "total_size"},
               v \in {0, 3}} \cup
  {Opt("num_datapoints", 4), Opt("buffer_size", 3), Opt("buffer_size", Garbage),
   Opt("cache_size_hint", 3), Opt("faster_throughput", 5), Opt("slower_throughput", 3),
   Opt("exec", 2), Opt("schedule_file", 2), Opt("cache_info_file", 2),
   Opt("show_perf_counters", 1), Opt("is_write", 1),
   Opt("timing_by", "rdtsc"), Opt("timing_by", "hw_cpu_cycle"),
   Opt("timing_by", "tsc"), Opt("help", 0), Opt(Unknown, 0), Opt(Incomplete, 0)}

(* All command lines of up to two options, of up to four among those whose *)
(* order matters, two that start the application, and two for a schedule   *)
(* with its other options.                                                 *)
Mixed == {Opt("runapp", 0), Opt("cache_size", 0), Opt("num_datapoints", 0),
          Opt("num_datapoints", 3), Opt("num_datapoints", 4),
          Opt("sampling_interval", 0), Opt("schedule", 0), Opt("schedule_file", 2)}

SomeArgvs ==
  UNION {[1 .. n -> Options] : n \in 0 .. 2} \cup
  UNION {[1 .. n -> Mixed] : n \in 3 .. 4} \cup
  {<<Opt("runapp", 0), Opt("exec", 2), Opt("faster_throughput", 5),
     Opt("slower_throughput", 3)>>,
   <<Opt("slower_throughput", 3), Opt("sampling_interval", 0), Opt("exec", 2),
     Opt("runapp", 0), Opt("faster_throughput", 5), Opt("num_datapoints", 0)>>,
   <<Opt("schedule", 0), Opt("schedule_file", 2), Opt("show_perf_counters", 1),
     Opt("timing_by", "rdtsc")>>,
   <<Opt("timing_by", "hw_cpu_cycle"), Opt("schedule", 0), Opt("schedule_file", 2)>>}
ScheduleArgvs ==
  {<<Opt("schedule", 0), Opt("schedule_file", 2)>>}

E(size, thp, n, lat, m) ==
  [buffer_size |-> size, enable_thp |-> thp, thp_num_datapoints |-> n,
   enable_lat |-> lat, lat_num_datapoints |-> m]

(* Of size 0, of less than a list's entry, of less than a page, of a page, *)
(* of more, and of no whole chunks; with either kind of test, with both    *)
(* and with none; with more points of either kind, with none, and with     *)
(* more than the stack has room for.                                       *)
SomeEntries ==
  {E(0, TRUE, 1, FALSE, 0), E(1, FALSE, 0, TRUE, 0), E(4, TRUE, 1, TRUE, 2),
   E(8, TRUE, 2, TRUE, 1), E(8, FALSE, 1, TRUE, 1), E(12, TRUE, 2, FALSE, 1),
   E(12, FALSE, 0, FALSE, 0), E(6, TRUE, 1, TRUE, 0), E(8, TRUE, 3, FALSE, 0)}
AscendingTests == {E(4, TRUE, 1, TRUE, 2), E(12, TRUE, 2, FALSE, 1)}
=============================================================================
