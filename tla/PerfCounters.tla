------------------------------ MODULE PerfCounters ------------------------------
(***************************************************************************)
(* LinuxPerfCounters (CacheInspector/src/linux_perf_counters.cpp): the     *)
(* hardware counters around one measurement.  SeqThp and RandLat extend    *)
(* this module and conjoin its operators to their own steps.               *)
(*                                                                         *)
(* An object of the class owns one LinuxPerfCounter for each counter that  *)
(* was compiled in; that counter owns a descriptor of the kernel.  A       *)
(* counter is built as a temporary and moved into the map.  Where an ioctl *)
(* or perf_event_open fails, the code calls exit(), which is left to the   *)
(* step that uses the operator; the ...Fails operators say when it can be. *)
(***************************************************************************)
EXTENDS Naturals

CONSTANTS
  Counters,     (* the counters compiled in, the USE_... macros             *)
  PerfMayFail   (* TRUE if perf_event_open, ioctl and read may fail         *)

ASSUME PerfAssumption == PerfMayFail \in BOOLEAN

VARIABLES
  lpcs,    (* lpcs[c]: the element of the map for counter c                 *)
  event    (* event[c]: what the kernel has behind the descriptor of c      *)

perf == <<lpcs, event>>

Events == {"closed", "disabled", "enabled"}

(* fd: it owns the descriptor (fd # -1).  counter: 0 or what was counted.  *)
LinuxPerfCounter ==
  [fd : BOOLEAN, started : BOOLEAN, counter : {"zero", "count"}]

Absent == [fd |-> FALSE, started |-> FALSE, counter |-> "zero"]
Opened == [fd |-> TRUE, started |-> FALSE, counter |-> "zero"]

(* The moving constructor: what the new counter is, and what is left.      *)
Moved(rhs) == rhs
Variant_GivenUp_keeps_descriptor(rhs) == rhs
GivenUp(rhs) == [rhs EXCEPT !.fd = FALSE]

(* The destructor: stop() disables a started counter, close() follows.     *)
Destroyed(lpc, e) == IF lpc.fd THEN "closed" ELSE e

NoCounters ==
  /\ lpcs = [c \in Counters |-> Absent]
  /\ event = [c \in Counters |-> "closed"]

PerfFails == PerfMayFail /\ Counters # {}

(* Each counter is opened as a temporary, moved into the map, and what is  *)
(* left of the temporary is destroyed.                                     *)
Construct ==
  /\ lpcs' = [c \in Counters |-> Moved(Opened)]
  /\ event' = [c \in Counters |-> Destroyed(GivenUp(Opened), "disabled")]

StartPerfEvents ==
  /\ lpcs' = [c \in Counters |->
       IF lpcs[c].started THEN lpcs[c]
       ELSE [lpcs[c] EXCEPT !.counter = "zero", !.started = TRUE]]
  /\ event' = [c \in Counters |->
       IF lpcs[c].started THEN event[c] ELSE "enabled"]

(* The counters that cannot be read keep the 0 they were started with.     *)
StopPerfEvents ==
  \E readable \in {Counters} \cup (IF PerfFails THEN SUBSET Counters ELSE {}) :
    /\ lpcs' = [c \in Counters |->
         IF ~lpcs[c].started THEN lpcs[c]
         ELSE [lpcs[c] EXCEPT !.started = FALSE,
                              !.counter = IF c \in readable THEN "count" ELSE @]]
    /\ event' = [c \in Counters |->
         IF lpcs[c].started THEN "disabled" ELSE event[c]]

DestroyCounters ==
  /\ lpcs' = [c \in Counters |-> Absent]
  /\ event' = [c \in Counters |-> Destroyed(lpcs[c], event[c])]

PerfTypeOK ==
  /\ lpcs \in [Counters -> LinuxPerfCounter]
  /\ event \in [Counters -> Events]

(* Every descriptor the kernel holds is owned by exactly the counter that  *)
(* may use it: none is closed twice, used after it was closed, or leaked.  *)
(* A started counter counts, and only a started one does.                  *)
DescriptorsOwned ==
  \A c \in Counters :
    /\ event[c] # "closed" <=> lpcs[c].fd
    /\ event[c] = "enabled" <=> lpcs[c].started
=============================================================================
