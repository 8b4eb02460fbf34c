----------------------------- MODULE MCCacheSize -----------------------------
(***************************************************************************)
(* Argument sets for the model-checking runs of CacheSize.                 *)
(***************************************************************************)
EXTENDS CacheSize

Args(hints, ns, depths, bufs, warms) ==
  [hint: hints, n: ns, depth: depths, buf: bufs, warm: warms]

(* One sample: every hint from 0 to MaxCross, depths that run out and      *)
(* depths that do not, no buffer, a buffer too small and a big one; and a  *)
(* hint whose double does not fit the word.  Two to four: fewer hints, a   *)
(* depth that runs out, or none at all, and one that does not.             *)
FirstSample == Args((0 .. 20) \cup {255}, {1}, 0 .. 8, {0, 16, 40}, BOOLEAN) \cup
               Args({1, 5, 17}, {2}, {3, 9}, {0}, BOOLEAN) \cup
               Args({5, 17}, {3}, {0, 9}, {0}, {FALSE}) \cup
               Args({5}, {4}, {9}, {0}, {FALSE})

(* Several samples, with depths that become 0 and less in the recursion;   *)
(* with five the larger half is divided again.                             *)
ManySamples == Args({0, 3}, 2 .. 4, {0, 1}, {0}, {FALSE}) \cup
               Args({3}, {5}, {2}, {0}, {FALSE})

(* Three samples, with the default depth.                                  *)
DeepSearches == Args({1, 3}, {3}, {12}, {0}, {FALSE})
=============================================================================
