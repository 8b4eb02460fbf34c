-------------------------------- MODULE TestPlan --------------------------------
(***************************************************************************)
(* What `ci --schedule' promises, whatever buffer, array or counters it    *)
(* works with: the tests that were planned are run in the order of the     *)
(* plan, each result is handed over once, and the run succeeds only after  *)
(* the last of them.  Schedule implements this specification.              *)
(***************************************************************************)
EXTENDS Naturals, Sequences, SequencesExt

CONSTANT Tests   (* everything that can be asked for in one line of a file *)

VARIABLES
  plan,       (* the tests to run, in order                                *)
  collected,  (* the tests whose results were handed over                  *)
  state       (* "planning", "testing", "succeeded" or "failed"            *)

planVars == <<plan, collected, state>>

Init ==
  /\ plan = <<>>
  /\ collected = <<>>
  /\ state = "planning"

Plan ==
  /\ state = "planning"
  /\ \E tests \in Tests : plan' = plan \o tests
  /\ UNCHANGED <<collected, state>>

Begin ==
  /\ state = "planning"
  /\ state' = "testing"
  /\ UNCHANGED <<plan, collected>>

Collect ==
  /\ state = "testing"
  /\ \E test \in {plan[k] : k \in DOMAIN plan} : collected' = Append(collected, test)
  /\ IsPrefix(collected', plan)
  /\ UNCHANGED <<plan, state>>

Succeed ==
  /\ state = "testing"
  /\ collected = plan
  /\ state' = "succeeded"
  /\ UNCHANGED <<plan, collected>>

(* An error, or the end of the process: what was collected remains.        *)
Fail ==
  /\ state \in {"planning", "testing"}
  /\ state' = "failed"
  /\ UNCHANGED <<plan, collected>>

Next == Plan \/ Begin \/ Collect \/ Succeed \/ Fail

SafeSpec == Init /\ [][Next]_planVars

(* A run that has begun to test comes to its end.                          *)
Ends == state = "testing" ~> state \in {"succeeded", "failed"}

Spec == SafeSpec /\ Ends
=============================================================================
