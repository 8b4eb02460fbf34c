------------------------------- MODULE CacheInfo -------------------------------
(***************************************************************************)
(* get_cache_info() (CacheInspector/src/cache_info_shm.cpp): how the       *)
(* threads of an application obtain the page that `ci' publishes.          *)
(*                                                                         *)
(* A process-wide map, guarded by a shared_mutex, holds one CacheInfoShm   *)
(* per name; that object maps the page on first use, guarded by its own    *)
(* mutex with a check before and after locking.  Threads interleave at the *)
(* accesses to shared state; pc[t] names the next one of thread t.         *)
(*                                                                         *)
(* Pages come and go with runs of `ci', modelled in RunApp: each time a    *)
(* name is created it names a new page, and pages of a name are numbered   *)
(* from 1.  A pointer is the number of the page it maps, NULL or           *)
(* MAP_FAILED.                                                             *)
(*                                                                         *)
(* Two threads race where one of them writes and no lock orders them.  A   *)
(* lookup in the map that overlaps with an insertion may go wrong, which   *)
(* is the result UNDEFINED; a racing read of readonly_ptr returns a value  *)
(* that is there, and whether line 46 reads it anew is up to the compiler. *)
(*                                                                         *)
(* An object keeps the pointer to the name it was made with, and a later   *)
(* call of another thread may be the first to open it: the strings that    *)
(* callers pass are taken to stay what they are.                           *)
(***************************************************************************)
EXTENDS Integers, FiniteSets

CONSTANTS
  Threads,       (* the threads of the application                          *)
  Names,         (* the names there are                                     *)
  Asks,          (* Asks[t]: the names thread t asks for                    *)
  NoThread,      (* the holder of a free lock                               *)
  MaxCalls,      (* bound on the calls of each thread                       *)
  MaxPages,      (* bound on the pages created for each name                *)
  CallsMayFail   (* TRUE if shm_open or mmap may fail although there is a   *)
                 (* page                                                    *)

ASSUME ThreadsAssumption ==
  NoThread \notin Threads /\ Asks \in [Threads -> (SUBSET Names) \ {{}}]
ASSUME LimitsAssumption ==
  MaxCalls \in Nat /\ MaxPages \in Nat /\ CallsMayFail \in BOOLEAN

NULL == 0
MAP_FAILED == -1
UNDEFINED == -2

VARIABLES
  pc,       (* pc[t]: what thread t does next                               *)
  name,     (* name[t]: the argument of its call                            *)
  seen,     (* seen[t]: the pointer it read last                            *)
  result,   (* result[t]: what its last call returned                       *)
  calls,    (* calls[t]: how many calls it made                             *)
  known,    (* names that g_cache_info_map holds                            *)
  readers,  (* threads that hold g_cache_info_map_mutex shared              *)
  writer,   (* the thread that holds it exclusively                         *)
  ptr,      (* ptr[f]: readonly_ptr of the object for f                     *)
  owner,    (* owner[f]: the holder of its readonly_ptr_mutex               *)
  page,     (* page[f]: the page of that name, 0 when there is none         *)
  created,  (* created[f]: how many pages of that name there have been      *)
  mappings, (* history, mappings[f]: successful calls of mmap               *)
  excused   (* history, excused[t]: what went wrong during its call: its    *)
            (* shm_open failed, or somebody's mmap for that name             *)

thread == <<name, seen, result, calls>>
map == <<known, readers, writer>>
object == <<ptr, owner, mappings>>
pages == <<page, created>>
vars == <<pc, thread, map, object, pages, excused>>

Pointers == {NULL, MAP_FAILED} \cup 1 .. MaxPages
Locations == {"idle", "rlock", "find", "wlock", "find again", "emplace", "at",
              "check", "lock", "check again", "open", "give up", "mmap", "unmap",
              "return"}
Causes == {"shm_open", "mmap"}

Init ==
  /\ pc = [t \in Threads |-> "idle"]
  /\ name = [t \in Threads |-> CHOOSE f \in Asks[t] : TRUE]
  /\ seen = [t \in Threads |-> NULL]
  /\ result = [t \in Threads |-> NULL]
  /\ calls = [t \in Threads |-> 0]
  /\ known = {}
  /\ readers = {}
  /\ writer = NoThread
  /\ ptr = [f \in Names |-> NULL]
  /\ owner = [f \in Names |-> NoThread]
  /\ page = [f \in Names |-> 0]
  /\ created = [f \in Names |-> 0]
  /\ mappings = [f \in Names |-> 0]
  /\ excused = [t \in Threads |-> {}]

Goto(t, l) == pc' = [pc EXCEPT ![t] = l]

(* Thread t leaves get_cache_info: a shared lock it still has is released, *)
(* and what it read is forgotten.                                          *)
Finish(t, r) ==
  /\ Goto(t, "idle")
  /\ result' = [result EXCEPT ![t] = r]
  /\ seen' = [seen EXCEPT ![t] = NULL]
  /\ readers' = readers \ {t}

(* Calls for name f that are under way.                                    *)
Calling(f) == {t \in Threads : name[t] = f /\ pc[t] # "idle"}

-----------------------------------------------------------------------------
(* Definitions named Variant_... are faulty forms of the definition they   *)
(* stand before.  No specification uses them: put in its place, each shows *)
(* that a property of a run tells the two apart.                           *)

(* get_cache_info(const char* ).                                           *)
Call(t) ==
  /\ pc[t] = "idle" /\ calls[t] < MaxCalls
  /\ \E f \in Asks[t] :
       /\ name' = [name EXCEPT ![t] = f]
       /\ excused' = [excused EXCEPT ![t] =
                         IF ptr[f] = MAP_FAILED THEN {"mmap"} ELSE {}]
  /\ calls' = [calls EXCEPT ![t] = @ + 1]
  /\ Goto(t, "rlock")
  /\ UNCHANGED <<seen, result, map, object, pages>>

LockShared(t) ==
  /\ pc[t] = "rlock"
  /\ writer = NoThread
  /\ readers' = readers \cup {t}
  /\ Goto(t, "find")
  /\ UNCHANGED <<thread, known, writer, object, pages, excused>>

(* The first find: a name that is there keeps the shared lock until the    *)
(* call returns, one that is not gives it up.                              *)
Find(t) ==
  /\ pc[t] = "find"
  /\ IF name[t] \in known
     THEN Goto(t, "at") /\ UNCHANGED readers
     ELSE Goto(t, "wlock") /\ readers' = readers \ {t}
  /\ UNCHANGED <<thread, known, writer, object, pages, excused>>

Variant_LockUnique_beside_readers(t) ==
  /\ pc[t] = "wlock"
  /\ writer = NoThread
  /\ writer' = t
  /\ Goto(t, "find again")
  /\ UNCHANGED <<thread, known, readers, object, pages, excused>>

LockUnique(t) ==
  /\ pc[t] = "wlock"
  /\ writer = NoThread /\ readers = {}
  /\ writer' = t
  /\ Goto(t, "find again")
  /\ UNCHANGED <<thread, known, readers, object, pages, excused>>

(* The second find; wlck is released at the end of the block.              *)
FindAgain(t) ==
  /\ pc[t] = "find again"
  /\ IF name[t] \in known
     THEN Goto(t, "at") /\ writer' = NoThread
     ELSE Goto(t, "emplace") /\ UNCHANGED writer
  /\ UNCHANGED <<thread, known, readers, object, pages, excused>>

Emplace(t) ==
  /\ pc[t] = "emplace"
  /\ known' = known \cup {name[t]}
  /\ writer' = NoThread
  /\ Goto(t, "at")
  /\ UNCHANGED <<thread, readers, object, pages, excused>>

(* g_cache_info_map.at(): by now a thread that came the second way holds   *)
(* no lock.                                                                *)
At(t) ==
  /\ pc[t] = "at"
  /\ Goto(t, "check")
  /\ UNCHANGED <<thread, map, object, pages, excused>>

AtWhileInserting(t) ==
  /\ pc[t] = "at"
  /\ \E u \in Threads : pc[u] = "emplace"
  /\ Finish(t, UNDEFINED)
  /\ UNCHANGED <<name, calls, known, writer, object, pages, excused>>

(* CacheInfoShm::get_cache_info: the check without the mutex.              *)
Check(t) ==
  /\ pc[t] = "check"
  /\ seen' = [seen EXCEPT ![t] = ptr[name[t]]]
  /\ Goto(t, IF seen'[t] = NULL THEN "lock" ELSE "return")
  /\ UNCHANGED <<name, result, calls, map, object, pages, excused>>

Variant_LockMutex_gives_up(t) ==
  /\ pc[t] = "lock"
  /\ IF owner[name[t]] = NoThread
     THEN /\ owner' = [owner EXCEPT ![name[t]] = t]
          /\ Goto(t, "check again")
          /\ UNCHANGED <<seen, result, readers>>
     ELSE Finish(t, NULL) /\ UNCHANGED owner
  /\ UNCHANGED <<name, calls, known, writer, ptr, mappings, pages, excused>>

LockMutex(t) ==
  /\ pc[t] = "lock"
  /\ owner[name[t]] = NoThread
  /\ owner' = [owner EXCEPT ![name[t]] = t]
  /\ Goto(t, "check again")
  /\ UNCHANGED <<thread, map, ptr, mappings, pages, excused>>

Variant_CheckAgain_missing(t) ==
  /\ pc[t] = "check again"
  /\ Goto(t, "open")
  /\ UNCHANGED <<thread, map, object, pages, excused>>

CheckAgain(t) ==
  /\ pc[t] = "check again"
  /\ seen' = [seen EXCEPT ![t] = ptr[name[t]]]
  /\ IF seen'[t] = NULL
     THEN Goto(t, "open") /\ UNCHANGED owner
     ELSE Goto(t, "return") /\ owner' = [owner EXCEPT ![name[t]] = NoThread]
  /\ UNCHANGED <<name, result, calls, map, ptr, mappings, pages, excused>>

(* shm_open: a descriptor of the page that has the name now ...            *)
Open(t) ==
  /\ pc[t] = "open"
  /\ page[name[t]] # 0
  /\ seen' = [seen EXCEPT ![t] = page[name[t]]]
  /\ Goto(t, "mmap")
  /\ UNCHANGED <<name, result, calls, map, object, pages, excused>>

(* There is no page, or the system refuses: too many descriptors (none is  *)
(* ever closed), no permission.                                            *)
OpenFails(t) ==
  /\ pc[t] = "open"
  /\ page[name[t]] = 0 \/ CallsMayFail
  /\ excused' = [excused EXCEPT ![t] = @ \cup {"shm_open"}]
  /\ Goto(t, "give up")
  /\ UNCHANGED <<thread, map, object, pages>>

(* return nullptr, from inside the block of the mutex.                     *)
Variant_GiveUp_keeps_mutex(t) ==
  /\ pc[t] = "give up"
  /\ Finish(t, NULL)
  /\ UNCHANGED <<name, calls, known, writer, object, pages, excused>>

GiveUp(t) ==
  /\ pc[t] = "give up"
  /\ owner' = [owner EXCEPT ![name[t]] = NoThread]
  /\ Finish(t, NULL)
  /\ UNCHANGED <<name, calls, known, writer, ptr, mappings, pages, excused>>

(* readonly_ptr is assigned what mmap returns, whatever it is ...          *)
Mmap(t) ==
  /\ pc[t] = "mmap"
  /\ ptr' = [ptr EXCEPT ![name[t]] = seen[t]]
  /\ mappings' = [mappings EXCEPT ![name[t]] = @ + 1]
  /\ owner' = [owner EXCEPT ![name[t]] = NoThread]
  /\ Goto(t, "return")
  /\ UNCHANGED <<thread, map, pages, excused>>

MmapFails(t) ==
  /\ pc[t] = "mmap"
  /\ CallsMayFail
  /\ ptr' = [ptr EXCEPT ![name[t]] = MAP_FAILED]
  /\ excused' = [u \in Threads |->
       IF u \in Calling(name[t]) THEN excused[u] \cup {"mmap"} ELSE excused[u]]
  /\ Goto(t, "unmap")
  /\ UNCHANGED <<thread, map, owner, mappings, pages>>

(* ... and reset when that was MAP_FAILED.                                 *)
Variant_ResetPointer_falls_through(t) ==
  /\ pc[t] = "unmap"
  /\ owner' = [owner EXCEPT ![name[t]] = NoThread]
  /\ Goto(t, "return")
  /\ UNCHANGED <<thread, map, ptr, mappings, pages, excused>>

ResetPointer(t) ==
  /\ pc[t] = "unmap"
  /\ ptr' = [ptr EXCEPT ![name[t]] = NULL]
  /\ owner' = [owner EXCEPT ![name[t]] = NoThread]
  /\ Finish(t, NULL)
  /\ UNCHANGED <<name, calls, known, writer, mappings, pages, excused>>

(* The last line is outside the block of the mutex: it returns the pointer *)
(* that was checked, or reads it once more.                                *)
Return(t) ==
  /\ pc[t] = "return"
  /\ \E p \in {seen[t], ptr[name[t]]} : Finish(t, p)
  /\ UNCHANGED <<name, calls, known, writer, object, pages, excused>>

Step(t) ==
  \/ Call(t) \/ LockShared(t) \/ Find(t) \/ LockUnique(t) \/ FindAgain(t)
  \/ Emplace(t) \/ At(t) \/ AtWhileInserting(t) \/ Check(t) \/ LockMutex(t)
  \/ CheckAgain(t) \/ Open(t) \/ OpenFails(t) \/ GiveUp(t) \/ Mmap(t)
  \/ MmapFails(t) \/ ResetPointer(t) \/ Return(t)

-----------------------------------------------------------------------------
(* Runs of `ci', which create the name and remove it.  The page can be     *)
(* opened and mapped from shm_open on; that it has bytes only after        *)
(* ftruncate makes no difference here, where no thread looks into it.      *)
CreatePage(f) ==
  /\ page[f] = 0 /\ created[f] < MaxPages
  /\ page' = [page EXCEPT ![f] = created[f] + 1]
  /\ created' = [created EXCEPT ![f] = @ + 1]
  /\ UNCHANGED <<pc, thread, map, object, excused>>

RemovePage(f) ==
  /\ page[f] # 0
  /\ page' = [page EXCEPT ![f] = 0]
  /\ UNCHANGED <<pc, thread, map, object, created, excused>>

Next ==
  \/ \E t \in Threads : Step(t)
  \/ \E f \in Names : CreatePage(f) \/ RemovePage(f)

Spec == Init /\ [][Next]_vars

(* Each thread is scheduled; locks are granted to some waiter; nothing     *)
(* makes a thread call, and pages come and go as they like.                *)
Fairness == \A t \in Threads : WF_vars(Step(t) /\ pc[t] # "idle")
FairSpec == Spec /\ Fairness
-----------------------------------------------------------------------------
Typed ==
  /\ pc \in [Threads -> Locations]
  /\ name \in [Threads -> Names]
  /\ seen \in [Threads -> Pointers]
  /\ result \in [Threads -> Pointers \cup {UNDEFINED}]
  /\ calls \in [Threads -> 0 .. MaxCalls]
  /\ known \subseteq Names
  /\ readers \subseteq Threads
  /\ writer \in Threads \cup {NoThread}
  /\ ptr \in [Names -> Pointers]
  /\ owner \in [Names -> Threads \cup {NoThread}]
  /\ page \in [Names -> 0 .. MaxPages]
  /\ created \in [Names -> 0 .. MaxPages]
  /\ mappings \in [Names -> Nat]
  /\ excused \in [Threads -> SUBSET Causes]

(* Every variable keeps its type; that of readonly_ptr is a page or NULL   *)
(* wherever its mutex is free: MAP_FAILED is there only until the thread   *)
(* that stored it has reset it.                                            *)
TypeOK == Typed /\ \A f \in Names : owner[f] = NoThread => ptr[f] # MAP_FAILED

(* However many threads ask first, a page is mapped once for each name.    *)
OneMapping == \A f \in Names : mappings[f] <= 1

(* No lookup made under the lock meets an insertion.                       *)
LockedLookupsSafe ==
  \A t, u \in Threads :
    pc[t] = "emplace" /\ t # u =>
      /\ pc[u] \notin {"find", "find again", "emplace"}
      /\ u \notin readers

(* All the interleavings of the threads amount to calls that are answered  *)
(* in one step: every thread is given the page that was mapped for the     *)
(* name, whichever thread did it, and NULL only if nothing is mapped and   *)
(* its own shm_open or an mmap made during its call failed.  Two answers   *)
(* remain that nobody wants, each confined to the race it comes from:      *)
(* MAP_FAILED while another thread's mmap has failed and readonly_ptr is   *)
(* not reset yet, and what at() makes of the map while another thread      *)
(* asks for a name that is new.                                            *)
Busy == [t \in Threads |-> pc[t] # "idle"]
Remembered == [f \in Names |-> IF ptr[f] = MAP_FAILED THEN NULL ELSE ptr[f]]
Failing == [f \in Names |-> IF ptr[f] = MAP_FAILED THEN owner[f] ELSE NoThread]

Once == INSTANCE PageOnce WITH
  busy <- Busy, remembered <- Remembered, failing <- Failing

AnswersOnce == Once!Spec

(* Every call returns: no thread waits for a lock forever.                 *)
CallsReturn == \A t \in Threads : []<>(pc[t] = "idle")

(* cache_info_shm.hpp: "@return the cache info pointer".                   *)
ResultIsPage ==
  \A t \in Threads : result[t] \in {NULL} \cup 1 .. created[name[t]]
=============================================================================
