-------------------------- MODULE PerfCounters_proofs --------------------------
(***************************************************************************)
(* What every step that uses the operators of PerfCounters may rely on,    *)
(* for any set of counters.                                                *)
(***************************************************************************)
EXTENDS PerfCounters, TLAPS

(* Each operator on the counters keeps their type and their descriptors;   *)
(* only counters that are open are started.                                *)
LEMMA PerfStep ==
  ASSUME PerfTypeOK, DescriptorsOwned,
         \/ UNCHANGED perf \/ Construct \/ StopPerfEvents \/ DestroyCounters
         \/ StartPerfEvents /\ \A c \in Counters : lpcs[c].fd
  PROVE  PerfTypeOK' /\ DescriptorsOwned'
<1> USE DEF PerfTypeOK, DescriptorsOwned, LinuxPerfCounter, Events
<1>1. CASE UNCHANGED perf
  BY <1>1 DEF perf
<1>2. CASE Construct
  BY <1>2 DEF Construct, Moved, GivenUp, Opened, Destroyed
<1>3. CASE StartPerfEvents /\ \A c \in Counters : lpcs[c].fd
  <2>1. ASSUME NEW c \in Counters
        PROVE  /\ lpcs'[c] \in LinuxPerfCounter /\ event'[c] \in Events
               /\ lpcs'[c].fd = lpcs[c].fd /\ lpcs'[c].started = TRUE
               /\ event'[c] = "enabled"
    <3>1. CASE lpcs[c].started
      BY <1>3, <3>1 DEF StartPerfEvents
    <3>2. CASE ~lpcs[c].started
      BY <1>3, <3>2 DEF StartPerfEvents
    <3> QED BY <3>1, <3>2
  <2>2. PerfTypeOK'
    BY <1>3, <2>1 DEF StartPerfEvents
  <2>3. DescriptorsOwned'
    BY <1>3, <2>1
  <2> QED BY <2>2, <2>3
<1>4. CASE StopPerfEvents
  <2>e. event' = [c \in Counters |->
                    IF lpcs[c].started THEN "disabled" ELSE event[c]]
    BY <1>4 DEF StopPerfEvents
  <2>1. ASSUME NEW c \in Counters
        PROVE  /\ lpcs'[c] \in LinuxPerfCounter
               /\ lpcs'[c].started = FALSE
               /\ event'[c] \in {"closed", "disabled"}
               /\ event'[c] # "closed" <=> lpcs'[c].fd
    <3>1. CASE lpcs[c].started
      <4>1. event[c] = "enabled" /\ lpcs[c].fd
        BY <3>1
      <4>2. event'[c] = "disabled"
        BY ONLY <2>e, <3>1, c \in Counters
      <4>3. PICK readable : lpcs'[c] =
              [lpcs[c] EXCEPT !.started = FALSE,
                              !.counter = IF c \in readable THEN "count" ELSE @]
        BY <1>4, <3>1 DEF StopPerfEvents
      <4>4. lpcs'[c] \in LinuxPerfCounter /\ lpcs'[c].fd = lpcs[c].fd
            /\ lpcs'[c].started = FALSE
        <5>1. lpcs[c] \in LinuxPerfCounter
          OBVIOUS
        <5>2. CASE c \in readable
          BY <4>3, <5>1, <5>2
        <5>3. CASE c \notin readable
          BY <4>3, <5>1, <5>3
        <5> QED BY <5>2, <5>3
      <4>5. lpcs'[c].fd
        BY <4>1, <4>4
      <4> QED BY <4>2, <4>4, <4>5
    <3>2. CASE ~lpcs[c].started
      <4>1. lpcs'[c] = lpcs[c]
        BY <1>4, <3>2 DEF StopPerfEvents
      <4>a. event'[c] = event[c]
        BY ONLY <2>e, <3>2, c \in Counters
      <4>2. event[c] # "enabled" /\ lpcs[c].started = FALSE
        BY <3>2
      <4> QED BY <4>1, <4>a, <4>2
    <3> QED BY <3>1, <3>2
  <2>2. PerfTypeOK'
    BY <1>4, <2>1 DEF StopPerfEvents
  <2>3. DescriptorsOwned'
    BY <2>1
  <2> QED BY <2>2, <2>3
<1>5. CASE DestroyCounters
  BY <1>5 DEF DestroyCounters, Destroyed, Absent
<1> QED BY <1>1, <1>2, <1>3, <1>4, <1>5
================================================================================
