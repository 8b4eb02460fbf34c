-------------------------------- MODULE Sampling --------------------------------
(***************************************************************************)
(* What `ci --runapp' promises to the application it samples, without      *)
(* signals, waiting or a page that is filled piece by piece: between a     *)
(* stop and the resume that follows it the cache is measured, and what the *)
(* application sees whenever it runs is the latest measurement and nothing *)
(* else.  RunApp implements this specification.                            *)
(***************************************************************************)
EXTENDS Naturals

VARIABLES
  app,      (* "none", "running", "stopped", "measured" (stopped, and the   *)
            (* cache was measured since then) or "dead"                     *)
  view,     (* the measurements the application can see                     *)
  latest,   (* the latest measurement, 0 before there is one                *)
  sampler   (* "on", "left" (came to its end) or "lost" (broke off)         *)

samplingVars == <<app, view, latest, sampler>>

Init ==
  /\ app = "none"
  /\ view = {}
  /\ latest = 0
  /\ sampler = "on"

(* Measurements are told apart from the one before only.                   *)
Newer == IF latest = 1 THEN 2 ELSE 1

Start ==
  /\ app = "none" /\ sampler = "on"
  /\ app' = "running"
  /\ view' = {latest}
  /\ UNCHANGED <<latest, sampler>>

(* A stop that was sent arrives, if only after the sampler broke off.      *)
Stop ==
  /\ app = "running" /\ sampler # "left"
  /\ app' = "stopped"
  /\ view' = {}
  /\ UNCHANGED <<latest, sampler>>

Measure ==
  /\ app \in {"stopped", "dead"} /\ sampler = "on"
  /\ app' = IF app = "stopped" THEN "measured" ELSE app
  /\ latest' = Newer
  /\ UNCHANGED <<view, sampler>>

Resume ==
  /\ app = "measured" /\ sampler = "on"
  /\ app' = "running"
  /\ view' = {latest}
  /\ UNCHANGED <<latest, sampler>>

Die ==
  /\ app \in {"running", "stopped", "measured"}
  /\ app' = "dead"
  /\ view' = {}
  /\ UNCHANGED <<latest, sampler>>

(* The sampler comes to its end only where there is nobody to sample.      *)
Leave ==
  /\ app \in {"none", "dead"} /\ sampler = "on"
  /\ sampler' = "left"
  /\ UNCHANGED <<app, view, latest>>

Break ==
  /\ sampler # "lost"
  /\ sampler' = "lost"
  /\ app' = IF app = "measured" THEN "stopped" ELSE app
  /\ UNCHANGED <<view, latest>>

Next == Start \/ Stop \/ Measure \/ Resume \/ Die \/ Leave \/ Break

SafeSpec == Init /\ [][Next]_samplingVars

(* A stop does not last, and the sampler follows the application.          *)
Resumed == app \in {"stopped", "measured"} ~> app \in {"running", "dead"} \/ sampler = "lost"
Followed == app = "dead" ~> sampler # "on"

Spec == SafeSpec /\ Resumed /\ Followed
=============================================================================
