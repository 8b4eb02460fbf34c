----------------------------- MODULE RunApp_proofs -----------------------------
(***************************************************************************)
(* Theorems about RunApp, for every set of intervals, every number of data *)
(* points and every combination of faults.                                 *)
(***************************************************************************)
EXTENDS RunApp, TLAPS

(* A stop that waitid has yet to report is a stop that still lasts; only a *)
(* child that has stopped is measured for; the row is rewritten in order,  *)
(* and is whole before and after.                                          *)
EventFresh ==
  /\ event = "stopped" => app = "stopped"
  /\ pc \in {"init", "fork"} => app = "none"
  /\ pc \in {"eval", "store", "cont"} => app # "none"

RowFilled ==
  /\ pc = "store" => stored < n /\ \A i \in DOMAIN page : i < stored => page[i] = res
  /\ pc \in {"init", "fork", "cont"} => \A i \in DOMAIN page : i < n => page[i] = res

Inv ==
  /\ TypeOK
  /\ EventFresh
  /\ RowFilled
  /\ MeasuredWhileStopped
  /\ PageWhole
  /\ SamplerOutlivesApp

LEMMA InitInv == Init => Inv
<1> SUFFICES ASSUME Init PROVE Inv
  OBVIOUS
<1>1. TypeOK
  <2>1. n \in Nat
    BY OptionsAssumption DEF Init
  <2>2. page \in [0 .. PageLength - 1 -> 0 .. 2] /\ stored \in 0 .. n /\ res \in 0 .. 2
    BY <2>1 DEF Init
  <2> QED
    BY <2>2 DEF Init, TypeOK, Never, Ended
<1>2. EventFresh /\ RowFilled /\ MeasuredWhileStopped /\ PageWhole
  BY DEF Init, EventFresh, RowFilled, MeasuredWhileStopped, PageWhole
<1>3. SamplerOutlivesApp
  BY DEF Init, SamplerOutlivesApp
<1> QED
  BY <1>1, <1>2, <1>3 DEF Inv

LEMMA TypeStep == TypeOK /\ RowFilled /\ [Next]_vars => TypeOK'
<1> SUFFICES ASSUME TypeOK, RowFilled, [Next]_vars PROVE TypeOK'
  OBVIOUS
<1> USE DEF TypeOK, vars, options, sample, child, Never, Ended
<1>n. n \in Nat /\ interval \in Nat
  BY OptionsAssumption
<1>m. ASSUME NapAgainOrSample, pc = "nap"
      PROVE  left' \in Nat \cup {Never} /\ pc' \in {"nap", "stop"}
  BY <1>m, <1>n DEF NapAgainOrSample
<1>1. CASE Initialize \/ InitializeFails \/ Fork \/ ForkFails
  BY <1>1 DEF Initialize, InitializeFails, Fork, ForkFails
<1>2. CASE AllocateBuffer \/ AllocateBufferFails
  BY <1>2, <1>n DEF AllocateBuffer, AllocateBufferFails
<1>3. CASE Nap \/ NapReapKilled
  BY <1>3, <1>m DEF Nap, NapReapKilled
<1>4. CASE NapReapExited \/ NapNoChild
  BY <1>4, <1>n DEF NapReapExited, NapNoChild
<1>5. CASE Stop
  <2>1. pending' \in BOOLEAN
    BY <1>5 DEF Stop
  <2> QED
    BY <1>5, <2>1 DEF Stop
<1>6. CASE StopNothing \/ StopOthers
  BY <1>6 DEF StopNothing, StopOthers
<1>7. CASE WaitStopped \/ WaitStoppedFails
  BY <1>7 DEF WaitStopped, WaitStoppedFails
<1>8. CASE Evaluate
  <2>1. pc' \in {"store", "cont", "returned"} /\ res' \in 0 .. 2 /\ stored' \in 0 .. n
    BY <1>8, <1>n DEF Evaluate, NextMeasurement
  <2> QED
    BY <1>8, <2>1 DEF Evaluate
<1>9. CASE Store
  <2>1. stored' \in 0 .. n /\ pc' \in {"store", "cont"}
    BY <1>9, <1>n DEF Store, StoreAnd, RowFilled
  <2>2. page' \in [0 .. PageLength - 1 -> 0 .. 2]
    BY <1>9 DEF Store, StoreAnd
  <2> QED
    BY <1>9, <2>1, <2>2 DEF Store, StoreAnd
<1>17. CASE StoreAstray
  <2>1. stored' \in 0 .. n /\ pc' \in {"store", "cont"}
    BY <1>17, <1>n DEF StoreAstray, RowFilled
  <2> QED
    BY <1>17, <2>1 DEF StoreAstray
<1>18. CASE StoreCrashes
  BY <1>18 DEF StoreCrashes
<1>10. CASE Continue
  <2>1. app' \in {"running", "zombie", "gone", "none", "stopped"}
    BY <1>10 DEF Continue
  <2>2. event' \in {"none", "stopped", "continued"}
    BY <1>10 DEF Continue
  <2>3. /\ pc' = "waitcont"
        /\ UNCHANGED <<options, pid, left, sample, shm, code, killed, pending, bystander>>
    BY <1>10 DEF Continue
  <2> QED
    BY <2>1, <2>2, <2>3
<1>11. CASE WaitContinued \/ WaitContinuedFails
  BY <1>11 DEF WaitContinued, WaitContinuedFails
<1>16. CASE Destroy
  BY <1>16 DEF Destroy
<1>12. CASE SamplerKilled
  BY <1>12 DEF SamplerKilled
<1>13. CASE Exec \/ ExecFails \/ StopArrives
  BY <1>13 DEF Exec, ExecFails, StopArrives
<1>14. CASE AppExits \/ AppKilled
  BY <1>14 DEF AppExits, AppKilled, Dies
<1>15. CASE UNCHANGED vars
  BY <1>15
<1> QED
  BY <1>1, <1>2, <1>3, <1>4, <1>5, <1>6, <1>7, <1>8, <1>9, <1>10, <1>11, <1>12,
     <1>13, <1>14, <1>15, <1>16, <1>17, <1>18 DEF Next, Sampler

(* How each action treats the rest of the invariant.                       *)
LEMMA InvStep == Inv /\ TypeOK' /\ [Next]_vars => Inv'
<1> SUFFICES ASSUME Inv, TypeOK', [Next]_vars
             PROVE  /\ EventFresh' /\ RowFilled' /\ MeasuredWhileStopped'
                    /\ PageWhole' /\ SamplerOutlivesApp'
  BY DEF Inv
<1> USE DEF Inv, EventFresh, RowFilled, MeasuredWhileStopped, PageWhole,
            SamplerOutlivesApp, Alive, Ended, vars, options, sample, child
<1>1. CASE Initialize
  BY <1>1 DEF Initialize
<1>2. CASE InitializeFails
  BY <1>2 DEF InitializeFails
<1>3. CASE Fork
  BY <1>3 DEF Fork
<1>4. CASE ForkFails
  BY <1>4 DEF ForkFails
<1>5. CASE AllocateBuffer
  BY <1>5 DEF AllocateBuffer
<1>6. CASE AllocateBufferFails
  BY <1>6 DEF AllocateBufferFails
<1>7. CASE Nap
  BY <1>7 DEF Nap, NapAgainOrSample
<1>8. CASE NapReapExited
  BY <1>8 DEF NapReapExited
<1>9. CASE NapReapKilled
  BY <1>9 DEF NapReapKilled, NapAgainOrSample
<1>10. CASE NapNoChild
  BY <1>10 DEF NapNoChild
<1>11. CASE Stop
  BY <1>11 DEF Stop
<1>12. CASE StopNothing
  BY <1>12 DEF StopNothing
<1>13. CASE StopOthers
  BY <1>13 DEF StopOthers
<1>14. CASE WaitStopped
  BY <1>14 DEF WaitStopped
<1>15. CASE WaitStoppedFails
  BY <1>15 DEF WaitStoppedFails
<1>16. CASE Evaluate
  <2>1. /\ app # "running" /\ pc' \in {"store", "cont", "returned"}
        /\ UNCHANGED <<n, page, app, event>> /\ pc = "eval"
        /\ pc' = "store" => stored' = 0 /\ n # 0
        /\ pc' = "cont" => n = 0
    BY <1>16 DEF Evaluate
  <2>2. n \in Nat /\ DOMAIN page \subseteq Nat
    BY OptionsAssumption DEF TypeOK
  <2>3. RowFilled'
    BY <2>1, <2>2
  <2> QED
    BY <2>1, <2>3
<1>17. CASE Store
  <2>1. /\ page' = [page EXCEPT ![stored] = res] /\ stored' = stored + 1
        /\ pc = "store" /\ pc' = IF stored' = n THEN "cont" ELSE "store"
        /\ UNCHANGED <<n, res, shm, app, code, event>> /\ app # "running"
    BY <1>17 DEF Store, StoreAnd
  <2>2. /\ n \in Nat /\ stored \in Nat /\ stored < n
        /\ DOMAIN page = 0 .. PageLength - 1 /\ DOMAIN page' = 0 .. PageLength - 1
    BY <2>1, OptionsAssumption DEF TypeOK
  <2>3. \A i \in DOMAIN page' : i < stored' => page'[i] = res
    BY <2>1, <2>2, LayoutAssumption
  <2>4. RowFilled'
    BY <2>1, <2>2, <2>3
  <2> QED
    BY <2>1, <2>4
<1>29. CASE StoreAstray
  <2>1. /\ stored' = stored + 1 /\ stored \notin DOMAIN page
        /\ pc = "store" /\ pc' = IF stored' = n THEN "cont" ELSE "store"
        /\ UNCHANGED <<n, page, res, shm, app, code, event>> /\ app # "running"
    BY <1>29 DEF StoreAstray
  <2>2. n \in Nat /\ stored \in Nat /\ stored < n /\ DOMAIN page = 0 .. PageLength - 1
    BY <2>1, OptionsAssumption DEF TypeOK
  <2>3. \A i \in DOMAIN page : i < stored' => page[i] = res
    BY <2>1, <2>2, LayoutAssumption
  <2>4. RowFilled'
    BY <2>1, <2>2, <2>3
  <2> QED
    BY <2>1, <2>4
<1>30. CASE StoreCrashes
  BY <1>30 DEF StoreCrashes
<1>18. CASE Continue
  BY <1>18 DEF Continue
<1>19. CASE WaitContinued
  BY <1>19 DEF WaitContinued
<1>20. CASE WaitContinuedFails
  BY <1>20 DEF WaitContinuedFails
<1>21. CASE Destroy
  BY <1>21 DEF Destroy
<1>22. CASE SamplerKilled
  BY <1>22 DEF SamplerKilled
<1>23. CASE Exec
  BY <1>23 DEF Exec
<1>24. CASE ExecFails
  BY <1>24 DEF ExecFails
<1>25. CASE AppExits
  BY <1>25 DEF AppExits, Dies
<1>26. CASE AppKilled
  BY <1>26 DEF AppKilled, Dies
<1>27. CASE StopArrives
  BY <1>27 DEF StopArrives
<1>28. CASE UNCHANGED vars
  BY <1>28
<1> QED
  BY <1>1, <1>2, <1>3, <1>4, <1>5, <1>6, <1>7, <1>8, <1>9, <1>10, <1>11, <1>12, <1>13, <1>14, <1>15, <1>16, <1>17, <1>18, <1>19, <1>20, <1>21, <1>22, <1>23, <1>24, <1>25, <1>26, <1>27, <1>28, <1>29, <1>30 DEF Next, Sampler

LEMMA Invariant == Spec => []Inv
<1>1. Inv /\ [Next]_vars => Inv'
  BY TypeStep, InvStep DEF Inv
<1> QED
  BY <1>1, InitInv, InvStep, PTL DEF Spec

(* Every variable keeps its type; in particular no more samples are stored *)
(* than were measured.                                                     *)
THEOREM TypeCorrect == Spec => []TypeOK
BY Invariant, PTL DEF Inv

(* No measurement, and no write to the page, while the application runs.   *)
THEOREM StoppedForMeasurement == Spec => []MeasuredWhileStopped
BY Invariant, PTL DEF Inv

(* A running application reads the row of one measurement, the latest.     *)
THEOREM RowIsWhole == Spec => []PageWhole
BY Invariant, PTL DEF Inv

(* As many samples as a row has cells leave the rest of the page alone.    *)
THEOREM RowNotOverrun == Spec => []RowKept
<1>1. Init => RowKept
  BY DEF Init, RowKept
<1>2. ASSUME Inv, RowKept, [Next]_vars PROVE RowKept'
  <2>1. CASE Store
    <3>1. /\ page' = [page EXCEPT ![stored] = res] /\ stored \in DOMAIN page /\ n' = n
          /\ stored < n
      BY <1>2, <2>1 DEF Store, StoreAnd, Inv, RowFilled, options
    <3>2. n \in Nat /\ DOMAIN page = 0 .. PageLength - 1
      BY <1>2, OptionsAssumption DEF Inv, TypeOK
    <3> SUFFICES ASSUME n <= RowLength, NEW i \in DOMAIN page, i >= RowLength
                 PROVE  page'[i] = 0
      BY <3>1 DEF RowKept
    <3>3. i # stored
      BY <3>1, <3>2, LayoutAssumption
    <3> QED BY <1>2, <3>1, <3>3 DEF RowKept
  <2>2. CASE ~Store
    <3>1. UNCHANGED <<n, page>>
      BY <1>2, <2>2 DEF Next, vars, options, sample, child, Sampler, Initialize,
         InitializeFails, Fork, ForkFails, AllocateBuffer, AllocateBufferFails, Nap,
         NapReapExited, NapReapKilled, NapNoChild, NapAgainOrSample, Stop, StopNothing,
         StopOthers, WaitStopped, WaitStoppedFails, Evaluate, StoreAstray, StoreCrashes,
         Continue, WaitContinued, WaitContinuedFails, Destroy, SamplerKilled, Exec,
         ExecFails, AppExits, AppKilled, Dies, StopArrives
    <3> QED BY <1>2, <3>1 DEF RowKept
  <2> QED BY <2>1, <2>2
<1> QED
  BY <1>1, <1>2, Invariant, PTL DEF Spec

(* The sampler leaves its loops only when no application is alive.         *)
THEOREM AppNotAbandoned == Spec => []SamplerOutlivesApp
BY Invariant, PTL DEF Inv

-----------------------------------------------------------------------------
(* The refinement.  What the application sees is one measurement.          *)
LEMMA ViewWhole ==
  ASSUME NEW size \in Nat \ {0}, NEW row \in [0 .. PageLength - 1 -> 0 .. 2], NEW m,
         \A k \in DOMAIN row : k < size => row[k] = m
  PROVE  {row[k] : k \in {l \in DOMAIN row : l < size}} = {m}
<1>1. 0 \in {l \in DOMAIN row : l < size}
  BY LayoutAssumption
<1> QED
  BY <1>1

LEMMA InitPromised == Init => Promise!Init
BY OptionsAssumption DEF Init, Promise!Init, AppPhase, AppView, SamplerPhase

LEMMA StepPromised ==
  Inv /\ Inv' /\ [Next]_vars => [Promise!Next]_Promise!samplingVars
<1> SUFFICES ASSUME Inv, Inv', [Next]_vars
             PROVE  Promise!Next \/ UNCHANGED Promise!samplingVars
  OBVIOUS
<1>a. n \in Nat /\ page \in [0 .. PageLength - 1 -> 0 .. 2]
  BY OptionsAssumption DEF Inv, TypeOK
<1>b. n' \in Nat /\ page' \in [0 .. PageLength - 1 -> 0 .. 2]
  BY OptionsAssumption DEF Inv, TypeOK
<1>v. /\ app = "running" => AppView = {res}
      /\ app # "running" => AppView = {}
  <2>1. CASE app = "running" /\ n > 0
    <3>1. AppView = {page[k] : k \in {l \in DOMAIN page : l < n}}
      BY <2>1 DEF AppView
    <3>2. n \in Nat \ {0} /\ \A k \in DOMAIN page : k < n => page[k] = res
      BY <2>1, <1>a DEF Inv, PageWhole
    <3> QED
      BY <2>1, <3>1, <3>2, <1>a, ViewWhole
  <2>2. CASE app = "running" /\ n = 0
    BY <2>2 DEF AppView
  <2>3. CASE app # "running"
    BY <2>3 DEF AppView
  <2> QED
    BY <2>1, <2>2, <2>3, <1>a
<1>w. /\ app' = "running" => AppView' = {res'}
      /\ app' # "running" => AppView' = {}
  <2>1. CASE app' = "running" /\ n' > 0
    <3>1. AppView' = {page'[k] : k \in {l \in DOMAIN page' : l < n'}}
      BY <2>1 DEF AppView
    <3>2. n' \in Nat \ {0} /\ \A k \in DOMAIN page' : k < n' => page'[k] = res'
      BY <2>1, <1>b DEF Inv, PageWhole
    <3> QED
      BY <2>1, <3>1, <3>2, <1>b, ViewWhole
  <2>2. CASE app' = "running" /\ n' = 0
    BY <2>2 DEF AppView
  <2>3. CASE app' # "running"
    BY <2>3 DEF AppView
  <2> QED
    BY <2>1, <2>2, <2>3, <1>b
<1>s. /\ MeasuredWhileStopped /\ SamplerOutlivesApp /\ EventFresh
      /\ app \in {"none", "running", "stopped", "zombie", "gone"}
      /\ pc \in {"init", "fork", "buffer", "nap", "stop", "waitstop", "eval",
                "store", "cont", "waitcont", "destroy"} \cup Ended
  BY DEF Inv, TypeOK
<1> HIDE DEF AppView
<1> USE <1>s, <1>v, <1>w
        DEF EventFresh, MeasuredWhileStopped, SamplerOutlivesApp, Alive, Ended,
            AppPhase, SamplerPhase, Promise!samplingVars, Promise!Next,
            vars, options, sample, child
<1>1. CASE Initialize
  BY <1>1 DEF Initialize
<1>2. CASE InitializeFails
  BY <1>2 DEF InitializeFails, Promise!Break
<1>3. CASE Fork
  BY <1>3 DEF Fork, Promise!Start
<1>4. CASE ForkFails
  BY <1>4 DEF ForkFails
<1>5. CASE AllocateBuffer
  BY <1>5 DEF AllocateBuffer
<1>6. CASE AllocateBufferFails
  BY <1>6 DEF AllocateBufferFails, Promise!Break
<1>7. CASE Nap
  BY <1>7 DEF Nap, NapAgainOrSample
<1>8. CASE NapReapExited
  BY <1>8 DEF NapReapExited, Promise!Leave
<1>9. CASE NapReapKilled
  BY <1>9 DEF NapReapKilled, NapAgainOrSample
<1>10. CASE NapNoChild
  BY <1>10 DEF NapNoChild
<1>11. CASE Stop
  BY <1>11 DEF Stop
<1>12. CASE StopNothing
  BY <1>12 DEF StopNothing, Promise!Leave
<1>13. CASE StopOthers
  BY <1>13 DEF StopOthers
<1>14. CASE WaitStopped
  BY <1>14 DEF WaitStopped
<1>15. CASE WaitStoppedFails
  BY <1>15 DEF WaitStoppedFails, Promise!Leave
<1>16. CASE Evaluate
  BY <1>16 DEF Evaluate, NextMeasurement, Promise!Measure, Promise!Newer, Promise!Break
<1>17. CASE Store
  BY <1>17 DEF Store, StoreAnd
<1>29. CASE StoreAstray
  BY <1>29 DEF StoreAstray
<1>30. CASE StoreCrashes
  BY <1>30 DEF StoreCrashes, Promise!Break
<1>18. CASE Continue
  BY <1>18 DEF Continue, Promise!Resume
<1>19. CASE WaitContinued
  BY <1>19 DEF WaitContinued
<1>20. CASE WaitContinuedFails
  BY <1>20 DEF WaitContinuedFails, Promise!Leave
<1>21. CASE Destroy
  BY <1>21 DEF Destroy
<1>22. CASE SamplerKilled
  BY <1>22 DEF SamplerKilled, Promise!Break
<1>23. CASE Exec
  BY <1>23 DEF Exec
<1>24. CASE ExecFails
  BY <1>24 DEF ExecFails
<1>25. CASE AppExits
  BY <1>25 DEF AppExits, Dies, Promise!Die
<1>26. CASE AppKilled
  BY <1>26 DEF AppKilled, Dies, Promise!Die
<1>27. CASE StopArrives
  BY <1>27 DEF StopArrives, Promise!Stop
<1>28. CASE UNCHANGED vars
  BY <1>28
<1> QED
  BY ONLY <1>1, <1>2, <1>3, <1>4, <1>5, <1>6, <1>7, <1>8, <1>9, <1>10, <1>11,
     <1>12, <1>13, <1>14, <1>15, <1>16, <1>17, <1>18, <1>19, <1>20, <1>21, <1>22,
     <1>23, <1>24, <1>25, <1>26, <1>27, <1>28, <1>29, <1>30, [Next]_vars DEF Next, Sampler

(* run_app samples as Sampling says, but for the two properties that need  *)
(* fairness: every stop is followed by one measurement, and the            *)
(* application goes on with that one and nothing else in its page.         *)
THEOREM SamplesSafely == Spec => Promise!SafeSpec
<1>1. Inv /\ Inv' /\ [Next]_vars => [Promise!Next]_Promise!samplingVars
  BY StepPromised
<1> QED
  BY <1>1, InitPromised, Invariant, PTL DEF Spec, Promise!SafeSpec
=============================================================================
