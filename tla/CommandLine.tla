------------------------------- MODULE CommandLine -------------------------------
(***************************************************************************)
(* main() and struct parsed_args (CacheInspector/src/ci.cpp): the options  *)
(* are taken one after the other, the command among them sets defaults,    *)
(* and the function of the command begins its work if its arguments are    *)
(* good enough for it.  --schedule goes on with Schedule.                  *)
(*                                                                         *)
(* Values are numbers, 0 being the value of a member that was not set      *)
(* (false, nullptr), -1 that of the two throughputs; timing_by alone is a  *)
(* string.  Words that are no options are passed over by getopt_long and   *)
(* left out here.                                                          *)
(***************************************************************************)
EXTENDS Schedule

CONSTANTS
  Argvs   (* the command lines considered: sequences of options             *)

Commands == {"sequential_throughput", "read_latency", "schedule", "cache_size",
             "runapp"}
Numbers == {"buffer_size", "total_size", "num_datapoints", "faster_throughput",
            "slower_throughput", "cache_size_hint", "sampling_interval"}
Strings == {"schedule_file", "exec", "cache_info_file"}
Flags == {"show_perf_counters", "is_write"}
Members == Numbers \cup Strings \cup Flags

(* What stands for a number that is none, for an option that is not in     *)
(* long_options, and for one that lacks its argument.                      *)
Garbage == -2
Unknown == "unknown"
Incomplete == "incomplete"

ASSUME ArgvsAssumption ==
  \A argv \in Argvs :
    /\ Len(argv) \in Nat /\ DOMAIN argv = 1 .. Len(argv)
    /\ \A k \in DOMAIN argv :
         /\ argv[k].option \in Commands \cup Members \cup
                                {"timing_by", "help", Unknown, Incomplete}
         /\ argv[k].option \in Members => argv[k].value \in Int

VARIABLES
  argv,      (* the options                                                 *)
  optind,    (* the next one                                                *)
  cmd_name,  (* the command, or "none"                                      *)
  pargs,     (* the other members                                           *)
  started    (* the command whose function began its work                   *)

mainVars == <<argv, optind, cmd_name, pargs, started>>
vars == <<mainVars, scheduleVars>>

Unset == [m \in Members |-> IF m \in {"faster_throughput", "slower_throughput"}
                            THEN -1 ELSE 0]
DEFAULT_CACHE_INFO_SHM_FILE == 1

Init ==
  /\ argv \in Argvs
  /\ optind = 1
  /\ cmd_name = "none"
  /\ pargs = Unset
  /\ started = "none"
  /\ pc = "getopt"
  /\ timing = "clock_gettime" /\ show_perf = FALSE
  /\ Idle

-----------------------------------------------------------------------------
(* Definitions named Variant_... are faulty forms of the definition they   *)
(* stand before.  No specification uses them: put in its place, each shows *)
(* that a property of a run tells the two apart.                           *)

(* parsed_args::initialize: what a member is given that is still 0.        *)
Defaults(cmd) ==
  CASE cmd = "sequential_throughput" -> [total_size |-> 128, num_datapoints |-> 32]
    [] cmd = "read_latency" -> [num_datapoints |-> 32]
    [] cmd = "cache_size" -> [num_datapoints |-> 1, cache_size_hint |-> 20480]
    [] cmd = "runapp" -> [num_datapoints |-> 1, cache_size_hint |-> 20480,
                          cache_info_file |-> DEFAULT_CACHE_INFO_SHM_FILE,
                          sampling_interval |-> 10]
    [] OTHER -> <<>>

Variant_Initialized_overrides(cmd) ==
  [m \in Members |-> IF m \in DOMAIN Defaults(cmd) THEN Defaults(cmd)[m] ELSE pargs[m]]
Initialized(cmd) ==
  [m \in Members |-> IF m \in DOMAIN Defaults(cmd) /\ pargs[m] = 0
                     THEN Defaults(cmd)[m] ELSE pargs[m]]

(* parsed_args::set_timing_by.                                             *)
TimingOf(string) ==
  IF string \in {"rdtsc", "perf_cpu_cycle", "hw_cpu_cycle"}
  THEN string ELSE "clock_gettime"

Option == argv[optind].option
Value == argv[optind].value
Taking == pc = "getopt" /\ optind <= Len(argv)

TakeCommand ==
  /\ Taking /\ Option \in Commands /\ cmd_name = "none"
  /\ cmd_name' = Option
  /\ pargs' = Initialized(Option)
  /\ optind' = optind + 1
  /\ UNCHANGED <<argv, started, scheduleVars>>

(* "expect only one command but saw multiple": return -1.                  *)
TakeSecondCommand ==
  /\ Taking /\ Option \in Commands /\ cmd_name # "none"
  /\ pc' = "done"
  /\ UNCHANGED <<mainVars, parameters, schedule, local, mapped, collected, ret>>

TakeMember ==
  /\ Taking /\ Option \in Members /\ Value # Garbage
  /\ pargs' = [pargs EXCEPT ![Option] = Value]
  /\ optind' = optind + 1
  /\ UNCHANGED <<argv, cmd_name, started, scheduleVars>>

(* stoull and stod throw what nobody catches.                              *)
TakeGarbage ==
  /\ Taking /\ Option \in Numbers /\ Value = Garbage
  /\ pc' = "aborted"
  /\ UNCHANGED <<mainVars, parameters, schedule, local, mapped, collected, ret>>

TakeTiming ==
  /\ Taking /\ Option = "timing_by"
  /\ timing' = TimingOf(Value)
  /\ optind' = optind + 1
  /\ UNCHANGED <<argv, cmd_name, pargs, started, pc, show_perf,
                 schedule, local, mapped, collected, ret>>

(* --help only sets request_help, which is looked at in the end.           *)
TakeHelp ==
  /\ Taking /\ Option = "help"
  /\ optind' = optind + 1
  /\ UNCHANGED <<argv, cmd_name, pargs, started, scheduleVars>>

(* '?': return -1.                                                         *)
RefuseOption ==
  /\ Taking /\ Option \in {Unknown, Incomplete}
  /\ pc' = "done"
  /\ UNCHANGED <<mainVars, parameters, schedule, local, mapped, collected, ret>>

(* long_options lacks the element of zeros that ends it: getopt_long looks *)
(* for a name that is not there in what follows the array.                 *)
SearchPastOptions ==
  /\ Taking /\ Option = Unknown
  /\ pc' = "crashed"
  /\ UNCHANGED <<mainVars, parameters, schedule, local, mapped, collected, ret>>

LastOption ==
  /\ pc = "getopt" /\ optind > Len(argv)
  /\ pc' = "dispatch"
  /\ UNCHANGED <<mainVars, parameters, schedule, local, mapped, collected, ret>>

-----------------------------------------------------------------------------
(* The checks with which the function of a command begins.  run_read_lat   *)
(* and run_cache_size have none.                                           *)
Accepted ==
  CASE cmd_name = "sequential_throughput" ->
         \A m \in {"buffer_size", "num_datapoints", "total_size"} : pargs[m] # 0
    [] cmd_name = "runapp" ->
         pargs["faster_throughput"] >= 0 /\ pargs["slower_throughput"] >= 0
         /\ pargs["exec"] # 0
    [] cmd_name = "schedule" -> pargs["schedule_file"] # 0
    [] OTHER -> TRUE

HelpRequested ==
  cmd_name = "none" \/ \E k \in DOMAIN argv : argv[k].option = "help"

(* Help, or a message of the function: main returns 0.                     *)
PrintMessage ==
  /\ pc = "dispatch" /\ (HelpRequested \/ ~Accepted)
  /\ pc' = "done"
  /\ UNCHANGED <<mainVars, parameters, schedule, local, mapped, collected, ret>>

(* The function works with pargs; main does not look at them again.        *)
StartCommand ==
  /\ pc = "dispatch" /\ ~HelpRequested /\ Accepted
  /\ started' = cmd_name
  /\ show_perf' = (pargs["show_perf_counters"] # 0)
  /\ pc' = IF cmd_name = "schedule" THEN "open" ELSE "done"
  /\ argv' = <<>> /\ optind' = 1 /\ pargs' = Unset
  /\ UNCHANGED <<cmd_name, timing, schedule, local, mapped, collected, ret>>

Main ==
  \/ TakeCommand \/ TakeSecondCommand \/ TakeMember \/ TakeGarbage
  \/ TakeTiming \/ TakeHelp \/ RefuseOption \/ SearchPastOptions
  \/ LastOption \/ PrintMessage \/ StartCommand

Next == Main \/ (RunSchedule /\ UNCHANGED mainVars)

Spec == Init /\ [][Next]_vars
FairSpec == Spec /\ WF_vars(Next)

-----------------------------------------------------------------------------
(* Properties                                                              *)

TypeOK ==
  /\ IF pc \in {"getopt", "dispatch"} THEN schedule = <<>> ELSE ScheduleTypeOK
  /\ argv \in Argvs \cup {<<>>}
  /\ optind \in 1 .. Len(argv) + 1
  /\ cmd_name \in Commands \cup {"none"}
  /\ pargs \in [Members -> Int]
  /\ started \in Commands \cup {"none"}

(* What the command is given does not depend on how the options are mixed: *)
(* a member has the last value given for it, or its default if there is    *)
(* none -- but for a 0, which holds after the command and not before it.   *)
LastValue(m, options) ==
  LET given == {k \in DOMAIN options : options[k].option = m}
  IN  IF given = {} THEN Unset[m] ELSE options[Max(given)].value

ArgumentsTaken ==
  pc = "dispatch" =>
    \A m \in Members :
      LET last == LastValue(m, argv)
          afterCommand == \E k, l \in DOMAIN argv :
            k < l /\ argv[k].option = cmd_name /\ argv[l].option = m
      IN  pargs[m] = IF m \in DOMAIN Defaults(cmd_name) /\ last = 0 /\ ~afterCommand
                     THEN Defaults(cmd_name)[m] ELSE last
=============================================================================
