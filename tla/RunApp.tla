-------------------------------- MODULE RunApp --------------------------------
(***************************************************************************)
(* run_app() (CacheInspector/src/ci.cpp), the sampling phase: `ci' creates *)
(* a page in shared memory, starts an application as its child and then,   *)
(* again and again, stops the application, measures the cache, publishes   *)
(* the sizes in the page and continues the application.  With it come      *)
(* initialize_cache_info and destroy_cache_info (cache_info_shm.cpp).      *)
(*                                                                         *)
(* The sampler is sequential: `pc' is the system call it is about to make. *)
(* Beside it run the child, which may still be run_app's own code after    *)
(* fork, and the kernel, which delivers SIGSTOP some time after kill()     *)
(* returned and remembers one stop or continue event for waitid().         *)
(*                                                                         *)
(* Time is counted in naps of SLEEP_USEC: `left' naps at most remain until *)
(* the next sample is due.  The size measured by one call of               *)
(* eval_cache_size is abstracted to the number of that call.               *)
(***************************************************************************)
EXTENDS Integers

CONSTANTS
  Intervals,     (* sampling intervals considered, in naps; 0 is --interval 0 *)
  Datapoints,    (* numbers of data points considered; 0 is one of them       *)
  RowLength,     (* MAX_CACHE_SIZE_SAMPLES, the cells of one cache level: 10  *)
  PageLength,    (* the cells of the page, of which the levels are the first: *)
                 (* 512                                                       *)
  ShmMayFail,    (* TRUE if creating the page may fail half way               *)
  ForkMayFail,   (* TRUE if fork may fail                                     *)
  BufferMayFail, (* TRUE if the measuring buffer may not be available         *)
  ExecMayFail,   (* TRUE if execv may fail                                    *)
  EvalMayFail,   (* TRUE if eval_cache_size may report a failure, which it    *)
                 (* never does as it stands                                   *)
  PidMayBeReused,      (* TRUE if the kernel may give a reaped pid away       *)
  AppMayBeKilled,      (* TRUE if a signal may end the child                  *)
  SamplerMayBeKilled   (* TRUE if a signal may end the sampler                *)

ASSUME OptionsAssumption ==
  /\ Intervals \subseteq Nat
  /\ Datapoints \subseteq Nat
ASSUME LayoutAssumption ==
  /\ RowLength \in Nat \ {0} /\ PageLength \in Nat
  /\ RowLength <= PageLength
ASSUME FaultsAssumption ==
  {ShmMayFail, ForkMayFail, BufferMayFail, ExecMayFail, EvalMayFail,
   PidMayBeReused, AppMayBeKilled, SamplerMayBeKilled} \subseteq BOOLEAN

VARIABLES
  pc,        (* what the sampler does next                                  *)
  interval,  (* pargs.sampling_interval                                     *)
  n,         (* pargs.num_datapoints                                        *)
  pid,       (* "app", or "all" for the -1 of a failed fork                 *)
  left,      (* naps left until the next sample is due, or Never            *)
  res,       (* the measurement whose sizes are in res                      *)
  stored,    (* how many of them are in the page                            *)
  page,      (* the cells of the page, in the order in which they lie: the  *)
             (* measurement that each was written by                        *)
  shm,       (* the name of the page exists                                 *)
  app,       (* state of the child: "none" before fork, "gone" once reaped  *)
  code,      (* what the child runs                                         *)
  killed,    (* the child was ended by a signal                             *)
  pending,   (* a SIGSTOP was sent to the child and has not arrived yet     *)
  event,     (* the state change waitid has not reported yet                *)
  bystander  (* state of the processes that are not the application         *)

options == <<interval, n>>
sample == <<res, stored, page>>
child == <<app, code, killed, pending, event>>
vars == <<pc, options, pid, left, sample, shm, child, bystander>>

Never == -1       (* numeric_limits<uint64_t>::max()                        *)
Ended == {"done", "returned", "crashed", "killed"}
Alive == app \in {"running", "stopped"}

(* Measurements are numbered 1, 2, 1, 2, ...; 0 is the page before any.    *)
NextMeasurement == IF res = 1 THEN 2 ELSE 1

Init ==
  /\ pc = "init"
  /\ interval \in Intervals
  /\ n \in Datapoints
  /\ pid = "app"
  /\ left = Never
  /\ res = 0
  /\ stored = 0
  /\ page = [i \in 0 .. PageLength - 1 |-> 0]
  /\ shm \in BOOLEAN
  /\ app = "none"
  /\ code = "none"
  /\ killed = FALSE
  /\ pending = FALSE
  /\ event = "none"
  /\ bystander = "running"

-----------------------------------------------------------------------------
(* Definitions named Variant_... are faulty forms of the definition they   *)
(* stand before.  No specification uses them: put in its place, each shows *)
(* that a property of a run tells the two apart.                           *)

(* The sampler.                                                            *)

(* initialize_cache_info: shm_open with O_EXCL, ftruncate and mmap, then   *)
(* the initial value of the page.                                          *)
Initialize ==
  /\ pc = "init"
  /\ ~shm
  /\ shm' = TRUE
  /\ pc' = "fork"
  /\ UNCHANGED <<options, pid, left, sample, child, bystander>>

(* It returns nullptr when the name exists and, having removed the name    *)
(* again, when ftruncate or mmap fails; run_app writes through the result. *)
InitializeFails ==
  /\ pc = "init"
  /\ shm \/ ShmMayFail
  /\ pc' = "crashed"
  /\ UNCHANGED <<options, pid, left, sample, shm, child, bystander>>

Fork ==
  /\ pc = "fork"
  /\ app' = "running"
  /\ code' = "child"
  /\ pc' = "buffer"
  /\ UNCHANGED <<options, pid, left, sample, shm, killed, pending, event, bystander>>

(* A fork that fails returns -1, which is not 0: the parent's branch runs. *)
ForkFails ==
  /\ pc = "fork"
  /\ ForkMayFail
  /\ pid' = "all"
  /\ pc' = "buffer"
  /\ UNCHANGED <<options, left, sample, shm, child, bystander>>

(* Allocate and warm the buffer, and set the time of the first sample: an  *)
(* interval of 0 is never due.                                             *)
AllocateBuffer ==
  /\ pc = "buffer"
  /\ left' = IF interval = 0 THEN Never ELSE interval
  /\ pc' = "nap"
  /\ UNCHANGED <<options, pid, sample, shm, child, bystander>>

AllocateBufferFails ==
  /\ pc = "buffer"
  /\ BufferMayFail
  /\ pc' = "returned"
  /\ UNCHANGED <<options, pid, left, sample, shm, child, bystander>>

(* while (get_monotonic_usec() < next_sample_usec): another nap, or the    *)
(* sample is due and the time of the one after it is set.  A nap takes its *)
(* time at least.                                                          *)
Variant_NapAgainOrSample_never_due ==
  \/ /\ left = Never
     /\ UNCHANGED <<pc, left>>
  \/ \E l \in 1 .. left : left' = l /\ UNCHANGED pc

NapAgainOrSample ==
  \/ /\ left = Never
     /\ UNCHANGED <<pc, left>>
  \/ \E l \in 1 .. left - 1 : left' = l /\ UNCHANGED pc
  \/ left # Never /\ pc' = "stop" /\ left' = IF interval = 0 THEN 1 ELSE interval

(* usleep, then waitpid(WNOHANG) finds the child alive.                    *)
Nap ==
  /\ pc = "nap"
  /\ pid = "app" /\ Alive
  /\ NapAgainOrSample
  /\ UNCHANGED <<options, pid, sample, shm, child, bystander>>

(* ... or reaps it: an exit ends the loops, death by a signal does not.    *)
NapReapExited ==
  /\ pc = "nap"
  /\ app = "zombie" /\ ~killed
  /\ app' = "gone"
  /\ pc' = "destroy"
  /\ UNCHANGED <<options, pid, left, sample, shm, code, killed, pending, event, bystander>>

NapReapKilled ==
  /\ pc = "nap"
  /\ app = "zombie" /\ killed
  /\ app' = "gone"
  /\ NapAgainOrSample
  /\ UNCHANGED <<options, pid, sample, shm, code, killed, pending, event, bystander>>

(* ... or fails, there being no child (any more): the break leaves the     *)
(* inner loop only, and goes on to stop the application.                   *)
NapNoChild ==
  /\ pc = "nap"
  /\ pid = "all" \/ app = "gone"
  /\ pc' = "stop"
  /\ left' = IF interval = 0 THEN 1 ELSE interval
  /\ UNCHANGED <<options, pid, sample, shm, child, bystander>>

(* kill(pid, SIGSTOP).  A child that has not been reaped can be signalled, *)
(* a zombie to no effect; a pid of -1 means every process there is.        *)
Stop ==
  /\ pc = "stop"
  /\ pid = "app" /\ app # "gone"
  /\ pending' = (app = "running")
  /\ pc' = "waitstop"
  /\ UNCHANGED <<options, pid, left, sample, shm, app, code, killed, event, bystander>>

StopNothing ==
  /\ pc = "stop"
  /\ pid = "app" /\ app = "gone"
  /\ pc' = "destroy"
  /\ UNCHANGED <<options, pid, left, sample, shm, child, bystander>>

StopOthers ==
  /\ pc = "stop"
  /\ \/ pid = "all"
     \/ app = "gone" /\ PidMayBeReused
  /\ bystander' = "stopped"
  /\ pc' = "waitstop"
  /\ UNCHANGED <<options, pid, left, sample, shm, child>>

(* waitid(WSTOPPED) blocks until the child has stopped ...                 *)
Variant_WaitStopped_does_not_wait ==
  /\ pc = "waitstop"
  /\ Alive
  /\ event' = "none"
  /\ pc' = "eval"
  /\ UNCHANGED <<options, pid, left, sample, shm, app, code, killed, pending, bystander>>

WaitStopped ==
  /\ pc = "waitstop"
  /\ Alive /\ event = "stopped"
  /\ event' = "none"
  /\ pc' = "eval"
  /\ UNCHANGED <<options, pid, left, sample, shm, app, code, killed, pending, bystander>>

(* ... and fails when there is no child left that could stop.              *)
Variant_WaitStoppedFails_when_not_yet_stopped ==
  /\ pc = "waitstop"
  /\ event # "stopped"
  /\ pc' = "destroy"
  /\ UNCHANGED <<options, pid, left, sample, shm, child, bystander>>

WaitStoppedFails ==
  /\ pc = "waitstop"
  /\ ~Alive
  /\ pc' = "destroy"
  /\ UNCHANGED <<options, pid, left, sample, shm, child, bystander>>

(* eval_cache_size; run_app returns from here when it fails.  Without data *)
(* points there is nothing to search and nothing to store.                 *)
Evaluate ==
  /\ pc = "eval"
  /\ \E ok \in {TRUE, ~EvalMayFail} :
       IF ok
       THEN /\ pc' = IF n = 0 THEN "cont" ELSE "store"
            /\ res' = NextMeasurement /\ stored' = 0
       ELSE pc' = "returned" /\ UNCHANGED <<res, stored>>
  /\ UNCHANGED <<options, pid, left, page, shm, child, bystander>>

(* One iteration of the loop that writes res[i] to cache_size[0][i].  The  *)
(* number of points is compared with nothing: those that the row of level  *)
(* 0 has no room for go to the rows of the other levels and what follows.  *)
StoreAnd(next) ==
  /\ pc = "store" /\ stored \in DOMAIN page
  /\ page' = [page EXCEPT ![stored] = res]
  /\ stored' = stored + 1
  /\ pc' = next
  /\ UNCHANGED <<options, pid, left, res, shm, child, bystander>>

Variant_Store_one_less == StoreAnd(IF stored' >= n - 1 THEN "cont" ELSE "store")
Variant_Store_one_more == StoreAnd(IF stored = n THEN "cont" ELSE "store")
Variant_Store_too_wide ==
  /\ pc = "store" /\ stored \in DOMAIN page
  /\ page' = [page EXCEPT ![stored] = res, ![stored + 1] = res]
  /\ stored' = stored + 1
  /\ pc' = IF stored' = n THEN "cont" ELSE "store"
  /\ UNCHANGED <<options, pid, left, res, shm, child, bystander>>

Store == StoreAnd(IF stored' = n THEN "cont" ELSE "store")

(* Beyond the page is memory of the sampler's, which is left out here, ... *)
StoreAstray ==
  /\ pc = "store" /\ stored \notin DOMAIN page
  /\ stored' = stored + 1
  /\ pc' = IF stored' = n THEN "cont" ELSE "store"
  /\ UNCHANGED <<options, pid, left, res, page, shm, child, bystander>>

(* ... or nothing that could be written to.                                *)
StoreCrashes ==
  /\ pc = "store" /\ stored \notin DOMAIN page
  /\ pc' = "crashed"
  /\ UNCHANGED <<options, pid, left, sample, shm, child, bystander>>

(* kill(pid, SIGCONT); again a zombie can be signalled to no effect.       *)
Variant_Continue_not_sent ==
  /\ pc = "cont"
  /\ pc' = "waitcont"
  /\ UNCHANGED <<options, pid, left, sample, shm, child, bystander>>

Continue ==
  /\ pc = "cont"
  /\ app' = IF app = "stopped" THEN "running" ELSE app
  /\ event' = IF app = "stopped" THEN "continued" ELSE event
  /\ pc' = "waitcont"
  /\ UNCHANGED <<options, pid, left, sample, shm, code, killed, pending, bystander>>

WaitContinued ==
  /\ pc = "waitcont"
  /\ Alive /\ event = "continued"
  /\ event' = "none"
  /\ pc' = "nap"
  /\ UNCHANGED <<options, pid, left, sample, shm, app, code, killed, pending, bystander>>

WaitContinuedFails ==
  /\ pc = "waitcont"
  /\ ~Alive
  /\ pc' = "destroy"
  /\ UNCHANGED <<options, pid, left, sample, shm, child, bystander>>

(* After the loops: release the buffer, destroy_cache_info.                *)
Destroy ==
  /\ pc = "destroy"
  /\ shm' = FALSE
  /\ pc' = "done"
  /\ UNCHANGED <<options, pid, left, sample, child, bystander>>

Sampler ==
  \/ Initialize \/ InitializeFails \/ Fork \/ ForkFails
  \/ AllocateBuffer \/ AllocateBufferFails
  \/ Nap \/ NapReapExited \/ NapReapKilled \/ NapNoChild
  \/ Stop \/ StopNothing \/ StopOthers \/ WaitStopped \/ WaitStoppedFails
  \/ Evaluate \/ Store \/ StoreAstray \/ StoreCrashes \/ Continue \/ WaitContinued \/ WaitContinuedFails
  \/ Destroy

(* Ctrl-C, an out-of-memory kill: run_app handles no signal.               *)
SamplerKilled ==
  /\ SamplerMayBeKilled
  /\ pc \notin Ended
  /\ pc' = "killed"
  /\ UNCHANGED <<options, pid, left, sample, shm, child, bystander>>

-----------------------------------------------------------------------------
(* The child, and what the kernel does to it.                              *)

(* The child's branch of run_app: execv, or ...                            *)
Exec ==
  /\ app = "running" /\ code = "child"
  /\ code' = "app"
  /\ UNCHANGED <<pc, options, pid, left, sample, shm, app, killed, pending, event, bystander>>

(* ... when it fails, on to destroy_cache_info below the if: the child     *)
(* removes the name of the page and returns to main, which exits with 0.   *)
ExecFails ==
  /\ app = "running" /\ code = "child"
  /\ ExecMayFail
  /\ code' = "exiting"
  /\ shm' = FALSE
  /\ UNCHANGED <<pc, options, pid, left, sample, app, killed, pending, event, bystander>>

Dies(bySignal) ==
  /\ app' = "zombie"
  /\ killed' = bySignal
  /\ pending' = FALSE
  /\ event' = "none"
  /\ UNCHANGED <<pc, options, pid, left, sample, shm, code, bystander>>

AppExits ==
  /\ app = "running" /\ code \in {"app", "exiting"}
  /\ Dies(FALSE)

AppKilled ==
  /\ AppMayBeKilled
  /\ Alive
  /\ Dies(TRUE)

(* The pending SIGSTOP stops the child.                                    *)
StopArrives ==
  /\ app = "running" /\ pending
  /\ app' = "stopped"
  /\ pending' = FALSE
  /\ event' = "stopped"
  /\ UNCHANGED <<pc, options, pid, left, sample, shm, code, killed, bystander>>

Next ==
  \/ Sampler \/ SamplerKilled
  \/ Exec \/ ExecFails \/ AppExits \/ AppKilled \/ StopArrives

Spec == Init /\ [][Next]_vars

(* The sampler and the kernel go on; the application owes nothing.         *)
Fairness == WF_vars(Sampler) /\ WF_vars(StopArrives)
FairSpec == Spec /\ Fairness
-----------------------------------------------------------------------------
TypeOK ==
  /\ pc \in {"init", "fork", "buffer", "nap", "stop", "waitstop", "eval",
             "store", "cont", "waitcont", "destroy"} \cup Ended
  /\ interval \in Intervals
  /\ n \in Datapoints
  /\ pid \in {"app", "all"}
  /\ left \in Nat \cup {Never}
  /\ res \in 0 .. 2
  /\ stored \in 0 .. n
  /\ page \in [0 .. PageLength - 1 -> 0 .. 2]
  /\ shm \in BOOLEAN
  /\ app \in {"none", "running", "stopped", "zombie", "gone"}
  /\ code \in {"none", "child", "app", "exiting"}
  /\ killed \in BOOLEAN
  /\ pending \in BOOLEAN
  /\ event \in {"none", "stopped", "continued"}
  /\ bystander \in {"running", "stopped"}

(* The application never runs while the cache is measured or the page is   *)
(* written, however late SIGSTOP arrives.                                  *)
MeasuredWhileStopped == pc \in {"eval", "store", "cont"} => app # "running"

(* Whenever the application runs, the cells of the samples are all of one  *)
(* measurement, the latest.                                                *)
PageWhole ==
  app = "running" => \A i \in DOMAIN page : i < n => page[i] = res

(* A row that has a cell for every sample is not overrun: the rows of the  *)
(* other levels, which "currently" are not detected, keep their 0.         *)
RowKept ==
  n <= RowLength => \A i \in DOMAIN page : i >= RowLength => page[i] = 0

(* The loops are left only when there is no application any more to stop   *)
(* or to continue.                                                         *)
SamplerOutlivesApp == pc \in {"destroy", "done"} => ~Alive

(* Signals, waiting and the row that is filled cell by cell amount to the  *)
(* sampling that was promised: whenever the application runs it sees one   *)
(* measurement, the latest; each stop is followed by one new measurement   *)
(* before the application goes on; it does go on, or has died, and then    *)
(* the sampler comes to its end -- unless the sampler breaks off.          *)
AppPhase ==
  CASE app = "stopped" /\ pc \in {"store", "cont"} -> "measured"
    [] app \in {"zombie", "gone"} -> "dead"
    [] OTHER -> app

(* A measurement without data points is seen as such.                      *)
AppView ==
  CASE app # "running" -> {}
    [] app = "running" /\ n > 0 -> {page[k] : k \in {l \in DOMAIN page : l < n}}
    [] app = "running" /\ n = 0 -> {res}

SamplerPhase ==
  CASE pc \in {"destroy", "done"} -> "left"
    [] pc \in {"crashed", "returned", "killed"} -> "lost"
    [] OTHER -> "on"

Promise == INSTANCE Sampling WITH
  app <- AppPhase, view <- AppView, latest <- res, sampler <- SamplerPhase

SamplesAsPromised == Promise!Spec

(* While the application runs and an interval is set, it is sampled again. *)
SampledAgain ==
  [](pc = "nap" /\ left # Never =>
       <>(pc = "eval" \/ ~Alive \/ pc \in Ended))

(* "stop application", says the comment at the kill: nobody else is        *)
(* stopped by it.                                                          *)
OnlyAppStopped == bystander = "running"
=============================================================================
