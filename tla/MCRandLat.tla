------------------------------- MODULE MCRandLat -------------------------------
(***************************************************************************)
(* Arguments for model-checking RandLat: buffers of one to five entries,   *)
(* of which three are no multiple of the stride or the page and the        *)
(* largest is more than a word can count; NULL and a larger buffer of the  *)
(* caller.                                                                 *)
(***************************************************************************)
EXTENDS RandLat

SmallArgs ==
  [arch : {"x86_64", "aarch64"}, buffer : {0, 8}, num_entries : 1 .. 5,
   num_points : {2}, timing : {"CLOCK_GETTIME", "PERF_CPU_CYCLE", "HW_CPU_CYCLE"},
   counted : {TRUE}]
=============================================================================
