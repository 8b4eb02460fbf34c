----------------------------- MODULE MCCacheInfo -----------------------------
(***************************************************************************)
(* Threads for model-checking CacheInfo: two that want the same page, and  *)
(* a third that may ask for another.                                       *)
(***************************************************************************)
EXTENDS CacheInfo

CONSTANTS t1, t2, t3, a, b

ThreeThreads == {t1, t2, t3}
TwoNames == {a, b}
OneMayDiffer == [t \in ThreeThreads |-> IF t = t3 THEN {a, b} ELSE {a}]

TwoThreads == {t1, t2}
OneName == {a}
TheSame == [t \in TwoThreads |-> {a}]
=============================================================================
