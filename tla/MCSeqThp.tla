-------------------------------- MODULE MCSeqThp --------------------------------
(***************************************************************************)
(* Arguments for model-checking SeqThp: buffers of one to three chunks,    *)
(* and one that is no multiple of a chunk; NULL and a larger buffer of the *)
(* caller; nothing to measure, less than a buffer, and several scans.      *)
(***************************************************************************)
EXTENDS SeqThp

SmallArgs ==
  {a \in [arch : {"x86_64", "aarch64"}, buffer : {0, 8},
          buffer_size : {2, 3, 4, 6}, num_iter : {0, 1, 2}, timing : Timings,
          is_write : BOOLEAN, bytes_per_iter : {0, 3, 7},
          counted : BOOLEAN] :
     \* one data point is enough for all but one combination
     a.num_iter # 1 => a.timing = "CLOCK_GETTIME" /\ a.counted}
=============================================================================
