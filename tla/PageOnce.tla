-------------------------------- MODULE PageOnce --------------------------------
(***************************************************************************)
(* What get_cache_info amounts to for the threads that call it, without    *)
(* locks and with one step for each thing that matters: a call is answered *)
(* with the page that is remembered for the name, the same one for all     *)
(* threads and for ever, or with NULL if nothing is remembered and         *)
(* something failed during the call.  CacheInfo implements this.           *)
(*                                                                         *)
(* Answers that are no page and not NULL are allowed only where the code's *)
(* own races give them: see Answers.                                       *)
(***************************************************************************)
EXTENDS Integers

CONSTANTS
  Threads, Names,
  Asks,         (* Asks[t]: the names thread t asks for                     *)
  NoThread,     (* nobody                                                   *)
  MAP_FAILED, UNDEFINED,  (* answers that are no page                       *)
  CallsMayFail  (* TRUE if a page that is there may not be had              *)

VARIABLES
  busy,       (* busy[t]: thread t is in a call                             *)
  name,       (* name[t]: for this name                                     *)
  excused,    (* excused[t]: what failed during that call                   *)
  result,     (* result[t]: the last answer                                 *)
  remembered, (* remembered[f]: the page all threads are given, or 0        *)
  failing,    (* failing[f]: who could not map it and has not answered yet  *)
  page,       (* page[f]: the page of that name, 0 when there is none       *)
  created     (* created[f]: how many there have been                       *)

call == <<busy, name, excused, result>>
pageVars == <<call, remembered, failing, page, created>>

Calling(f) == {t \in Threads : name[t] = f /\ busy[t]}

Init ==
  /\ busy = [t \in Threads |-> FALSE]
  /\ name \in [Threads -> Names]
  /\ excused = [t \in Threads |-> {}]
  /\ result = [t \in Threads |-> 0]
  /\ remembered = [f \in Names |-> 0]
  /\ failing = [f \in Names |-> NoThread]
  /\ page = [f \in Names |-> 0]
  /\ created = [f \in Names |-> 0]

Ask(t) ==
  /\ ~busy[t]
  /\ busy' = [busy EXCEPT ![t] = TRUE]
  /\ \E f \in Asks[t] :
       /\ name' = [name EXCEPT ![t] = f]
       /\ excused' = [excused EXCEPT ![t] =
                         IF failing[f] # NoThread THEN {"mmap"} ELSE {}]
  /\ UNCHANGED <<result, remembered, failing, page, created>>

(* The page need not have the name any more when it is remembered.         *)
Remember(f) ==
  /\ remembered[f] = 0 /\ failing[f] = NoThread /\ Calling(f) # {}
  /\ \E p \in 1 .. created[f] : remembered' = [remembered EXCEPT ![f] = p]
  /\ UNCHANGED <<call, failing, page, created>>

(* A thread cannot open the page, there being none or for another reason.  *)
CannotOpen(t) ==
  /\ busy[t] /\ remembered[name[t]] = 0
  /\ page[name[t]] = 0 \/ CallsMayFail
  /\ excused' = [excused EXCEPT ![t] = @ \cup {"shm_open"}]
  /\ UNCHANGED <<busy, name, result, remembered, failing, page, created>>

(* It cannot map it: all calls for that name that are under way, and those *)
(* that begin before it has answered, may be told.                         *)
CannotMap(t) ==
  /\ busy[t] /\ CallsMayFail
  /\ remembered[name[t]] = 0 /\ failing[name[t]] = NoThread
  /\ failing' = [failing EXCEPT ![name[t]] = t]
  /\ excused' = [u \in Threads |->
       IF u \in Calling(name[t]) THEN excused[u] \cup {"mmap"} ELSE excused[u]]
  /\ UNCHANGED <<busy, name, result, remembered, page, created>>

(* Who could not map the page answers NULL.  MAP_FAILED is for others, in  *)
(* whose call that happened; UNDEFINED for who meets a first call for      *)
(* another name.                                                           *)
MeetsFirstCall(t) ==
  \E u \in Threads : busy[u] /\ name[u] # name[t] /\ remembered[name[u]] = 0

Answers(t) ==
  {r \in {remembered[name[t]], MAP_FAILED, UNDEFINED} :
     /\ r = 0 => excused[t] # {}
     /\ r = MAP_FAILED => "mmap" \in excused[t]
     /\ r = UNDEFINED => MeetsFirstCall(t)
     /\ failing[name[t]] = t => r = 0}

Answer(t) ==
  /\ busy[t]
  /\ busy' = [busy EXCEPT ![t] = FALSE]
  /\ \E r \in Answers(t) : result' = [result EXCEPT ![t] = r]
  /\ failing' = [failing EXCEPT ![name[t]] = IF @ = t THEN NoThread ELSE @]
  /\ UNCHANGED <<name, excused, remembered, page, created>>

Create(f) ==
  /\ page[f] = 0
  /\ page' = [page EXCEPT ![f] = created[f] + 1]
  /\ created' = [created EXCEPT ![f] = @ + 1]
  /\ UNCHANGED <<call, remembered, failing>>

Remove(f) ==
  /\ page[f] # 0
  /\ page' = [page EXCEPT ![f] = 0]
  /\ UNCHANGED <<call, remembered, failing, created>>

Next ==
  \/ \E t \in Threads : Ask(t) \/ CannotOpen(t) \/ CannotMap(t) \/ Answer(t)
  \/ \E f \in Names : Remember(f) \/ Create(f) \/ Remove(f)

Spec == Init /\ [][Next]_pageVars
=============================================================================
