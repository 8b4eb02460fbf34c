---------------------------- MODULE CacheInfo_proofs ----------------------------
(***************************************************************************)
(* Theorems about CacheInfo, for any threads, names and pages: the         *)
(* invariants of the two locks, of the pointer and of the excuses for      *)
(* NULL, and from them that the interleaved calls implement PageOnce.      *)
(***************************************************************************)
EXTENDS CacheInfo, TLAPS

(* The lock of the map: a writer is where only a writer is, readers are    *)
(* where readers may be, and there is no reader beside a writer.           *)
LockInv ==
  /\ \A t \in Threads : writer = t <=> pc[t] \in {"find again", "emplace"}
  /\ \A t \in readers :
       pc[t] \notin {"idle", "rlock", "wlock", "find again", "emplace"}
  /\ \A t \in Threads : pc[t] = "find" => t \in readers
  /\ writer # NoThread => readers = {}

(* A name is in the map from its insertion on, and has no page before.     *)
Inside == {"at", "check", "lock", "check again", "open", "give up", "mmap", "unmap",
           "return"}
KnownInv ==
  /\ \A t \in Threads :
       /\ pc[t] \in Inside => name[t] \in known
       /\ pc[t] = "emplace" => name[t] \notin known
  /\ \A f \in Names : ptr[f] # NULL => f \in known

(* The mutex of an object belongs to the thread that is in its block, and  *)
(* to no other.                                                            *)
Holding == {"check again", "open", "give up", "mmap", "unmap"}
HoldersOwn == \A t \in Threads : pc[t] \in Holding => owner[name[t]] = t
OwnersHold ==
  \A f \in Names :
    owner[f] # NoThread => name[owner[f]] = f /\ pc[owner[f]] \in Holding

(* The pointer is NULL for who is about to map the page, and MAP_FAILED    *)
(* only until who failed to map it has reset it.                           *)
BlockInv(t) ==
  /\ pc[t] \in {"open", "give up", "mmap"} => ptr[name[t]] = NULL
  /\ pc[t] = "unmap" => ptr[name[t]] = MAP_FAILED
FailedInv(f) ==
  ptr[f] = MAP_FAILED => owner[f] # NoThread /\ pc[owner[f]] = "unmap"

(* A pointer that was read is the one that is there, and for good.         *)
ReadInv(t) ==
  /\ pc[t] = "mmap" => seen[t] \in 1 .. created[name[t]]
  /\ pc[t] = "return" =>
       seen[t] = MAP_FAILED \/ (seen[t] = ptr[name[t]] /\ seen[t] > 0)

(* A page that was mapped stays mapped, and was mapped once.               *)
MappedInv(f) ==
  /\ mappings[f] = IF ptr[f] > 0 THEN 1 ELSE 0
  /\ page[f] <= created[f]

(* Who may come to return NULL or MAP_FAILED has the excuse for it.         *)
ExcusedInv(t) ==
  /\ pc[t] # "idle" /\ ptr[name[t]] = MAP_FAILED => "mmap" \in excused[t]
  /\ pc[t] = "return" /\ seen[t] = MAP_FAILED => "mmap" \in excused[t]
  /\ pc[t] = "give up" => "shm_open" \in excused[t]

Inv ==
  /\ Typed /\ LockInv /\ KnownInv /\ HoldersOwn /\ OwnersHold
  /\ \A t \in Threads : BlockInv(t) /\ ReadInv(t) /\ ExcusedInv(t)
  /\ \A f \in Names : FailedInv(f) /\ MappedInv(f)

LEMMA InitInv == Init => Inv
<1> SUFFICES ASSUME Init PROVE Inv
  OBVIOUS
<1>1. name \in [Threads -> Names]
  BY ThreadsAssumption DEF Init
<1>2. Typed
  BY <1>1, LimitsAssumption DEF Init, Typed, Locations, Pointers, NULL, UNDEFINED
<1>3. LockInv /\ KnownInv /\ HoldersOwn /\ OwnersHold
  BY ThreadsAssumption
     DEF Init, LockInv, KnownInv, HoldersOwn, OwnersHold, Inside, Holding
<1>4. ASSUME NEW t \in Threads
      PROVE  BlockInv(t) /\ ReadInv(t) /\ ExcusedInv(t)
  BY DEF Init, BlockInv, ReadInv, ExcusedInv
<1>5. ASSUME NEW f \in Names PROVE FailedInv(f) /\ MappedInv(f)
  BY DEF Init, FailedInv, MappedInv, NULL, MAP_FAILED
<1> QED
  BY <1>2, <1>3, <1>4, <1>5 DEF Inv

LEMMA TypeStep == Typed /\ [Next]_vars => Typed'
<1> SUFFICES ASSUME Typed, [Next]_vars PROVE Typed'
  OBVIOUS
<1>a. /\ NULL \in Pointers /\ MAP_FAILED \in Pointers
      /\ \A p \in 0 .. MaxPages : p \in Pointers
      /\ \A t \in Threads : Asks[t] \subseteq Names
  BY ThreadsAssumption, LimitsAssumption DEF Pointers, NULL
<1>b. /\ {} \in SUBSET Causes /\ {"mmap"} \in SUBSET Causes
      /\ \A c \in SUBSET Causes :
           c \cup {"mmap"} \in SUBSET Causes /\ c \cup {"shm_open"} \in SUBSET Causes
  BY DEF Causes
<1> USE DEF Typed, thread, map, object, pages, Goto, Finish, Locations
<1>1. ASSUME NEW t \in Threads, Call(t) PROVE Typed'
  <2>1. calls' \in [Threads -> 0 .. MaxCalls]
    <3>1. calls[t] \in 0 .. MaxCalls /\ calls[t] < MaxCalls
      BY <1>1 DEF Call
    <3>2. calls[t] + 1 \in 0 .. MaxCalls
      BY ONLY <3>1, LimitsAssumption
    <3> QED
      BY <1>1, <3>2 DEF Call
  <2>2. name' \in [Threads -> Names]
    BY <1>1, <1>a DEF Call
  <2>4. excused' \in [Threads -> SUBSET Causes]
    <3>1. PICK f \in Asks[t] :
            excused' = [excused EXCEPT ![t] =
                          IF ptr[f] = MAP_FAILED THEN {"mmap"} ELSE {}]
      BY <1>1 DEF Call
    <3>2. excused \in [Threads -> SUBSET Causes]
      OBVIOUS
    <3> QED
      BY ONLY <3>1, <3>2, <1>b
  <2>3. pc' \in [Threads -> Locations]
    BY <1>1 DEF Call
  <2> QED
    BY <1>1, <2>1, <2>2, <2>3, <2>4 DEF Call
<1>2. ASSUME NEW t \in Threads, LockShared(t) PROVE Typed'
  BY <1>2, <1>a DEF LockShared
<1>3. ASSUME NEW t \in Threads, Find(t) PROVE Typed'
  BY <1>3, <1>a DEF Find
<1>4. ASSUME NEW t \in Threads, LockUnique(t) PROVE Typed'
  BY <1>4, <1>a DEF LockUnique
<1>5. ASSUME NEW t \in Threads, FindAgain(t) PROVE Typed'
  BY <1>5, <1>a DEF FindAgain
<1>6. ASSUME NEW t \in Threads, Emplace(t) PROVE Typed'
  BY <1>6, <1>a DEF Emplace
<1>7. ASSUME NEW t \in Threads, At(t) PROVE Typed'
  BY <1>7, <1>a DEF At
<1>8. ASSUME NEW t \in Threads, AtWhileInserting(t) PROVE Typed'
  BY <1>8, <1>a DEF AtWhileInserting
<1>9. ASSUME NEW t \in Threads, Check(t) PROVE Typed'
  BY <1>9, <1>a DEF Check
<1>10. ASSUME NEW t \in Threads, LockMutex(t) PROVE Typed'
  BY <1>10, <1>a DEF LockMutex
<1>11. ASSUME NEW t \in Threads, CheckAgain(t) PROVE Typed'
  BY <1>11, <1>a DEF CheckAgain
<1>12. ASSUME NEW t \in Threads, Open(t) PROVE Typed'
  BY <1>12, <1>a DEF Open
<1>13. ASSUME NEW t \in Threads, OpenFails(t) PROVE Typed'
  <2>1. excused' \in [Threads -> SUBSET Causes]
    <3>1. /\ excused' = [excused EXCEPT ![t] = @ \cup {"shm_open"}]
          /\ excused \in [Threads -> SUBSET Causes]
      BY <1>13 DEF OpenFails
    <3> QED
      BY ONLY <3>1, <1>b
  <2>2. pc' \in [Threads -> Locations]
    BY <1>13 DEF OpenFails
  <2> QED
    BY <1>13, <2>1, <2>2 DEF OpenFails
<1>21. ASSUME NEW t \in Threads, GiveUp(t) PROVE Typed'
  BY <1>21, <1>a DEF GiveUp
<1>14. ASSUME NEW t \in Threads, Mmap(t) PROVE Typed'
  <2>1. mappings' \in [Names -> Nat]
    <3>1. mappings' = [mappings EXCEPT ![name[t]] = @ + 1]
      BY <1>14 DEF Mmap
    <3>2. mappings \in [Names -> Nat] /\ name[t] \in Names
      OBVIOUS
    <3>3. mappings[name[t]] + 1 \in Nat
      BY ONLY <3>2
    <3> QED
      BY ONLY <3>1, <3>2, <3>3
  <2>2. /\ ptr' \in [Names -> Pointers] /\ pc' \in [Threads -> Locations]
        /\ owner' \in [Names -> Threads \cup {NoThread}]
    BY <1>14 DEF Mmap
  <2> QED
    BY <1>14, <2>1, <2>2 DEF Mmap
<1>15. ASSUME NEW t \in Threads, MmapFails(t) PROVE Typed'
  <2>1. excused' \in [Threads -> SUBSET Causes]
    <3>1. /\ excused' = [u \in Threads |->
               IF u \in Calling(name[t]) THEN excused[u] \cup {"mmap"} ELSE excused[u]]
          /\ excused \in [Threads -> SUBSET Causes]
      BY <1>15 DEF MmapFails
    <3> QED
      BY ONLY <3>1, <1>b
  <2>2. pc' \in [Threads -> Locations]
    BY <1>15 DEF MmapFails
  <2>3. ptr' \in [Names -> Pointers]
    BY <1>15, <1>a DEF MmapFails
  <2> QED
    BY <1>15, <2>1, <2>2, <2>3 DEF MmapFails
<1>16. ASSUME NEW t \in Threads, ResetPointer(t) PROVE Typed'
  BY <1>16, <1>a DEF ResetPointer
<1>17. ASSUME NEW t \in Threads, Return(t) PROVE Typed'
  <2>1. result' \in [Threads -> Pointers \cup {UNDEFINED}]
    BY <1>17 DEF Return
  <2>2. pc' \in [Threads -> Locations]
    BY <1>17 DEF Return
  <2>3. seen' \in [Threads -> Pointers]
    BY <1>17, <1>a DEF Return
  <2>4. readers' \subseteq Threads
    <3>1. readers' = readers \ {t}
      BY <1>17 DEF Return
    <3> QED
      BY <3>1
  <2> QED
    BY <1>17, <2>1, <2>2, <2>3, <2>4 DEF Return
<1>18. ASSUME NEW f \in Names, CreatePage(f) PROVE Typed'
  <2>1. created[f] \in 0 .. MaxPages /\ created[f] < MaxPages
    BY <1>18 DEF CreatePage
  <2>2. created[f] + 1 \in 0 .. MaxPages
    BY ONLY <2>1, LimitsAssumption
  <2> QED
    BY <1>18, <2>2 DEF CreatePage
<1>19. ASSUME NEW f \in Names, RemovePage(f) PROVE Typed'
  <2>1. page' \in [Names -> 0 .. MaxPages]
    <3>1. 0 \in 0 .. MaxPages
      BY ONLY LimitsAssumption
    <3> QED
      BY <1>19, <3>1 DEF RemovePage
  <2> QED
    BY <1>19, <2>1 DEF RemovePage
<1>20. CASE UNCHANGED vars
  BY <1>20, <1>a DEF vars
<1> QED
  BY <1>1, <1>2, <1>3, <1>4, <1>5, <1>6, <1>7, <1>8, <1>9, <1>10, <1>11, <1>12, <1>13, <1>14, <1>15, <1>16, <1>17, <1>18, <1>19, <1>20,
     <1>21 DEF Next, Step

LEMMA LockStep == Typed /\ LockInv /\ [Next]_vars => LockInv'
<1> SUFFICES ASSUME Typed, LockInv, [Next]_vars PROVE LockInv'
  OBVIOUS
<1>a. /\ pc \in [Threads -> Locations] /\ readers \subseteq Threads
      /\ NoThread \notin Threads
  BY ThreadsAssumption DEF Typed
<1> USE DEF LockInv, thread, map, object, pages, Goto, Finish
<1>1. ASSUME NEW t \in Threads, Call(t) PROVE LockInv'
  BY <1>1, <1>a DEF Call
<1>2. ASSUME NEW t \in Threads, LockShared(t) PROVE LockInv'
  BY <1>2, <1>a DEF LockShared
<1>3. ASSUME NEW t \in Threads, Find(t) PROVE LockInv'
  BY <1>3, <1>a DEF Find
<1>4. ASSUME NEW t \in Threads, LockUnique(t) PROVE LockInv'
  BY <1>4, <1>a DEF LockUnique
<1>5. ASSUME NEW t \in Threads, FindAgain(t) PROVE LockInv'
  BY <1>5, <1>a DEF FindAgain
<1>6. ASSUME NEW t \in Threads, Emplace(t) PROVE LockInv'
  BY <1>6, <1>a DEF Emplace
<1>7. ASSUME NEW t \in Threads, At(t) PROVE LockInv'
  BY <1>7, <1>a DEF At
<1>8. ASSUME NEW t \in Threads, AtWhileInserting(t) PROVE LockInv'
  BY <1>8, <1>a DEF AtWhileInserting
<1>9. ASSUME NEW t \in Threads, Check(t) PROVE LockInv'
  BY <1>9, <1>a DEF Check
<1>10. ASSUME NEW t \in Threads, LockMutex(t) PROVE LockInv'
  BY <1>10, <1>a DEF LockMutex
<1>11. ASSUME NEW t \in Threads, CheckAgain(t) PROVE LockInv'
  BY <1>11, <1>a DEF CheckAgain
<1>12. ASSUME NEW t \in Threads, Open(t) PROVE LockInv'
  BY <1>12, <1>a DEF Open
<1>13. ASSUME NEW t \in Threads, OpenFails(t) PROVE LockInv'
  BY <1>13, <1>a DEF OpenFails
<1>21. ASSUME NEW t \in Threads, GiveUp(t) PROVE LockInv'
  BY <1>21, <1>a DEF GiveUp
<1>14. ASSUME NEW t \in Threads, Mmap(t) PROVE LockInv'
  BY <1>14, <1>a DEF Mmap
<1>15. ASSUME NEW t \in Threads, MmapFails(t) PROVE LockInv'
  BY <1>15, <1>a DEF MmapFails
<1>16. ASSUME NEW t \in Threads, ResetPointer(t) PROVE LockInv'
  BY <1>16, <1>a DEF ResetPointer
<1>17. ASSUME NEW t \in Threads, Return(t) PROVE LockInv'
  BY <1>17, <1>a DEF Return
<1>18. ASSUME NEW f \in Names, CreatePage(f) PROVE LockInv'
  BY <1>18, <1>a DEF CreatePage
<1>19. ASSUME NEW f \in Names, RemovePage(f) PROVE LockInv'
  BY <1>19, <1>a DEF RemovePage
<1>20. CASE UNCHANGED vars
  BY <1>20, <1>a DEF vars
<1> QED
  BY <1>1, <1>2, <1>3, <1>4, <1>5, <1>6, <1>7, <1>8, <1>9, <1>10, <1>11, <1>12, <1>13, <1>14, <1>15, <1>16, <1>17, <1>18, <1>19, <1>20,
     <1>21 DEF Next, Step

LEMMA KnownStep == Typed /\ LockInv /\ KnownInv /\ [Next]_vars => KnownInv'
<1> SUFFICES ASSUME Typed, LockInv, KnownInv, [Next]_vars PROVE KnownInv'
  OBVIOUS
<1>a. /\ pc \in [Threads -> Locations] /\ name \in [Threads -> Names]
      /\ ptr \in [Names -> Pointers] /\ LockInv /\ KnownInv
  BY DEF Typed
<1> USE DEF LockInv, KnownInv, Inside, thread, map, object, pages, Goto, Finish
<1>1. ASSUME NEW t \in Threads, Call(t) PROVE KnownInv'
  BY <1>1, <1>a DEF Call
<1>2. ASSUME NEW t \in Threads, LockShared(t) PROVE KnownInv'
  BY <1>2, <1>a DEF LockShared
<1>3. ASSUME NEW t \in Threads, Find(t) PROVE KnownInv'
  BY <1>3, <1>a DEF Find
<1>4. ASSUME NEW t \in Threads, LockUnique(t) PROVE KnownInv'
  BY <1>4, <1>a DEF LockUnique
<1>5. ASSUME NEW t \in Threads, FindAgain(t) PROVE KnownInv'
  BY <1>5, <1>a DEF FindAgain
<1>6. ASSUME NEW t \in Threads, Emplace(t) PROVE KnownInv'
  BY <1>6, <1>a DEF Emplace
<1>7. ASSUME NEW t \in Threads, At(t) PROVE KnownInv'
  BY <1>7, <1>a DEF At
<1>8. ASSUME NEW t \in Threads, AtWhileInserting(t) PROVE KnownInv'
  BY <1>8, <1>a DEF AtWhileInserting
<1>9. ASSUME NEW t \in Threads, Check(t) PROVE KnownInv'
  BY <1>9, <1>a DEF Check
<1>10. ASSUME NEW t \in Threads, LockMutex(t) PROVE KnownInv'
  BY <1>10, <1>a DEF LockMutex
<1>11. ASSUME NEW t \in Threads, CheckAgain(t) PROVE KnownInv'
  BY <1>11, <1>a DEF CheckAgain
<1>12. ASSUME NEW t \in Threads, Open(t) PROVE KnownInv'
  BY <1>12, <1>a DEF Open
<1>13. ASSUME NEW t \in Threads, OpenFails(t) PROVE KnownInv'
  BY <1>13, <1>a DEF OpenFails
<1>21. ASSUME NEW t \in Threads, GiveUp(t) PROVE KnownInv'
  BY <1>21, <1>a DEF GiveUp
<1>14. ASSUME NEW t \in Threads, Mmap(t) PROVE KnownInv'
  <2>1. /\ pc[t] = "mmap" /\ pc' = [pc EXCEPT ![t] = "return"]
        /\ ptr' = [ptr EXCEPT ![name[t]] = seen[t]] /\ UNCHANGED <<name, known>>
    BY <1>14 DEF Mmap
  <2>2. name[t] \in known
    BY <2>1
  <2>3. \A f \in Names : ptr'[f] # NULL => f \in known
    BY <2>1, <2>2, <1>a
  <2>4. \A v \in Threads : /\ pc'[v] \in Inside => name[v] \in known
                           /\ pc'[v] = "emplace" => name[v] \notin known
    BY <2>1, <2>2, <1>a
  <2> QED
    BY <2>1, <2>3, <2>4
<1>15. ASSUME NEW t \in Threads, MmapFails(t) PROVE KnownInv'
  <2>1. /\ pc[t] = "mmap" /\ pc' = [pc EXCEPT ![t] = "unmap"]
        /\ ptr' = [ptr EXCEPT ![name[t]] = MAP_FAILED] /\ UNCHANGED <<name, known>>
    BY <1>15 DEF MmapFails
  <2>2. name[t] \in known
    BY <2>1
  <2>3. \A f \in Names : ptr'[f] # NULL => f \in known
    BY <2>1, <2>2, <1>a
  <2>4. \A v \in Threads : /\ pc'[v] \in Inside => name[v] \in known
                           /\ pc'[v] = "emplace" => name[v] \notin known
    BY <2>1, <2>2, <1>a
  <2> QED
    BY <2>1, <2>3, <2>4
<1>16. ASSUME NEW t \in Threads, ResetPointer(t) PROVE KnownInv'
  <2>1. /\ pc[t] = "unmap" /\ pc' = [pc EXCEPT ![t] = "idle"]
        /\ ptr' = [ptr EXCEPT ![name[t]] = NULL] /\ UNCHANGED <<name, known>>
    BY <1>16 DEF ResetPointer
  <2>2. name[t] \in known
    BY <2>1
  <2>3. \A f \in Names : ptr'[f] # NULL => f \in known
    BY <2>1, <2>2, <1>a
  <2>4. \A v \in Threads : /\ pc'[v] \in Inside => name[v] \in known
                           /\ pc'[v] = "emplace" => name[v] \notin known
    BY <2>1, <2>2, <1>a
  <2> QED
    BY <2>1, <2>3, <2>4
<1>17. ASSUME NEW t \in Threads, Return(t) PROVE KnownInv'
  BY <1>17, <1>a DEF Return
<1>18. ASSUME NEW f \in Names, CreatePage(f) PROVE KnownInv'
  BY <1>18, <1>a DEF CreatePage
<1>19. ASSUME NEW f \in Names, RemovePage(f) PROVE KnownInv'
  BY <1>19, <1>a DEF RemovePage
<1>20. CASE UNCHANGED vars
  BY <1>20, <1>a DEF vars
<1> QED
  BY <1>1, <1>2, <1>3, <1>4, <1>5, <1>6, <1>7, <1>8, <1>9, <1>10, <1>11, <1>12, <1>13, <1>14, <1>15, <1>16, <1>17, <1>18, <1>19, <1>20,
     <1>21 DEF Next, Step

LEMMA HoldersStep == Inv /\ [Next]_vars => HoldersOwn'
<1> SUFFICES ASSUME Inv, [Next]_vars PROVE HoldersOwn'
  OBVIOUS
<1>a. /\ pc \in [Threads -> Locations] /\ name \in [Threads -> Names]
      /\ owner \in [Names -> Threads \cup {NoThread}] /\ NoThread \notin Threads
      /\ HoldersOwn
  BY ThreadsAssumption DEF Inv, Typed
<1> USE DEF HoldersOwn, Holding, thread, map, object, pages, Goto, Finish
<1>1. ASSUME NEW t \in Threads, Call(t) PROVE HoldersOwn'
  BY <1>1, <1>a DEF Call
<1>2. ASSUME NEW t \in Threads, LockShared(t) PROVE HoldersOwn'
  BY <1>2, <1>a DEF LockShared
<1>3. ASSUME NEW t \in Threads, Find(t) PROVE HoldersOwn'
  BY <1>3, <1>a DEF Find
<1>4. ASSUME NEW t \in Threads, LockUnique(t) PROVE HoldersOwn'
  BY <1>4, <1>a DEF LockUnique
<1>5. ASSUME NEW t \in Threads, FindAgain(t) PROVE HoldersOwn'
  BY <1>5, <1>a DEF FindAgain
<1>6. ASSUME NEW t \in Threads, Emplace(t) PROVE HoldersOwn'
  BY <1>6, <1>a DEF Emplace
<1>7. ASSUME NEW t \in Threads, At(t) PROVE HoldersOwn'
  BY <1>7, <1>a DEF At
<1>8. ASSUME NEW t \in Threads, AtWhileInserting(t) PROVE HoldersOwn'
  BY <1>8, <1>a DEF AtWhileInserting
<1>9. ASSUME NEW t \in Threads, Check(t) PROVE HoldersOwn'
  BY <1>9, <1>a DEF Check
<1>10. ASSUME NEW t \in Threads, LockMutex(t) PROVE HoldersOwn'
  BY <1>10, <1>a DEF LockMutex
<1>11. ASSUME NEW t \in Threads, CheckAgain(t) PROVE HoldersOwn'
  BY <1>11, <1>a DEF CheckAgain
<1>12. ASSUME NEW t \in Threads, Open(t) PROVE HoldersOwn'
  BY <1>12, <1>a DEF Open
<1>13. ASSUME NEW t \in Threads, OpenFails(t) PROVE HoldersOwn'
  BY <1>13, <1>a DEF OpenFails
<1>21. ASSUME NEW t \in Threads, GiveUp(t) PROVE HoldersOwn'
  BY <1>21, <1>a DEF GiveUp
<1>14. ASSUME NEW t \in Threads, Mmap(t) PROVE HoldersOwn'
  BY <1>14, <1>a DEF Mmap
<1>15. ASSUME NEW t \in Threads, MmapFails(t) PROVE HoldersOwn'
  BY <1>15, <1>a DEF MmapFails
<1>16. ASSUME NEW t \in Threads, ResetPointer(t) PROVE HoldersOwn'
  BY <1>16, <1>a DEF ResetPointer
<1>17. ASSUME NEW t \in Threads, Return(t) PROVE HoldersOwn'
  BY <1>17, <1>a DEF Return
<1>18. ASSUME NEW f \in Names, CreatePage(f) PROVE HoldersOwn'
  BY <1>18, <1>a DEF CreatePage
<1>19. ASSUME NEW f \in Names, RemovePage(f) PROVE HoldersOwn'
  BY <1>19, <1>a DEF RemovePage
<1>20. CASE UNCHANGED vars
  BY <1>20, <1>a DEF vars
<1> QED
  BY <1>1, <1>2, <1>3, <1>4, <1>5, <1>6, <1>7, <1>8, <1>9, <1>10, <1>11, <1>12, <1>13, <1>14, <1>15, <1>16, <1>17, <1>18, <1>19, <1>20,
     <1>21 DEF Next, Step

LEMMA OwnersStep == Inv /\ [Next]_vars => OwnersHold'
<1> SUFFICES ASSUME Inv, [Next]_vars, NEW g \in Names, owner'[g] # NoThread
             PROVE  name'[owner'[g]] = g /\ pc'[owner'[g]] \in Holding
  BY DEF OwnersHold
<1>a. /\ pc \in [Threads -> Locations] /\ name \in [Threads -> Names]
      /\ owner \in [Names -> Threads \cup {NoThread}] /\ NoThread \notin Threads
      /\ owner[g] # NoThread =>
           owner[g] \in Threads /\ name[owner[g]] = g /\ pc[owner[g]] \in Holding
  BY ThreadsAssumption DEF Inv, Typed, OwnersHold
<1> USE DEF Holding, thread, map, object, pages, Goto, Finish
<1>1. ASSUME NEW t \in Threads, Call(t) PROVE name'[owner'[g]] = g /\ pc'[owner'[g]] \in Holding
  <2>1. owner' = owner /\ \A v \in Threads \ {t} : name'[v] = name[v] /\ pc'[v] = pc[v]
    BY <1>1, <1>a DEF Call
  <2>2. owner[g] \in Threads \ {t}
    BY <1>1, <2>1, <1>a DEF Call
  <2> QED
    BY <2>1, <2>2, <1>a
<1>2. ASSUME NEW t \in Threads, LockShared(t) PROVE name'[owner'[g]] = g /\ pc'[owner'[g]] \in Holding
  BY <1>2, <1>a DEF LockShared
<1>3. ASSUME NEW t \in Threads, Find(t) PROVE name'[owner'[g]] = g /\ pc'[owner'[g]] \in Holding
  BY <1>3, <1>a DEF Find
<1>4. ASSUME NEW t \in Threads, LockUnique(t) PROVE name'[owner'[g]] = g /\ pc'[owner'[g]] \in Holding
  BY <1>4, <1>a DEF LockUnique
<1>5. ASSUME NEW t \in Threads, FindAgain(t) PROVE name'[owner'[g]] = g /\ pc'[owner'[g]] \in Holding
  BY <1>5, <1>a DEF FindAgain
<1>6. ASSUME NEW t \in Threads, Emplace(t) PROVE name'[owner'[g]] = g /\ pc'[owner'[g]] \in Holding
  BY <1>6, <1>a DEF Emplace
<1>7. ASSUME NEW t \in Threads, At(t) PROVE name'[owner'[g]] = g /\ pc'[owner'[g]] \in Holding
  BY <1>7, <1>a DEF At
<1>8. ASSUME NEW t \in Threads, AtWhileInserting(t) PROVE name'[owner'[g]] = g /\ pc'[owner'[g]] \in Holding
  BY <1>8, <1>a DEF AtWhileInserting
<1>9. ASSUME NEW t \in Threads, Check(t) PROVE name'[owner'[g]] = g /\ pc'[owner'[g]] \in Holding
  BY <1>9, <1>a DEF Check
<1>10. ASSUME NEW t \in Threads, LockMutex(t) PROVE name'[owner'[g]] = g /\ pc'[owner'[g]] \in Holding
  BY <1>10, <1>a DEF LockMutex
<1>11. ASSUME NEW t \in Threads, CheckAgain(t) PROVE name'[owner'[g]] = g /\ pc'[owner'[g]] \in Holding
  BY <1>11, <1>a DEF CheckAgain
<1>12. ASSUME NEW t \in Threads, Open(t) PROVE name'[owner'[g]] = g /\ pc'[owner'[g]] \in Holding
  BY <1>12, <1>a DEF Open
<1>13. ASSUME NEW t \in Threads, OpenFails(t) PROVE name'[owner'[g]] = g /\ pc'[owner'[g]] \in Holding
  BY <1>13, <1>a DEF OpenFails
<1>21. ASSUME NEW t \in Threads, GiveUp(t) PROVE name'[owner'[g]] = g /\ pc'[owner'[g]] \in Holding
  BY <1>21, <1>a DEF GiveUp
<1>14. ASSUME NEW t \in Threads, Mmap(t) PROVE name'[owner'[g]] = g /\ pc'[owner'[g]] \in Holding
  BY <1>14, <1>a DEF Mmap
<1>15. ASSUME NEW t \in Threads, MmapFails(t) PROVE name'[owner'[g]] = g /\ pc'[owner'[g]] \in Holding
  BY <1>15, <1>a DEF MmapFails
<1>16. ASSUME NEW t \in Threads, ResetPointer(t) PROVE name'[owner'[g]] = g /\ pc'[owner'[g]] \in Holding
  BY <1>16, <1>a DEF ResetPointer
<1>17. ASSUME NEW t \in Threads, Return(t) PROVE name'[owner'[g]] = g /\ pc'[owner'[g]] \in Holding
  BY <1>17, <1>a DEF Return
<1>18. ASSUME NEW f \in Names, CreatePage(f) PROVE name'[owner'[g]] = g /\ pc'[owner'[g]] \in Holding
  BY <1>18, <1>a DEF CreatePage
<1>19. ASSUME NEW f \in Names, RemovePage(f) PROVE name'[owner'[g]] = g /\ pc'[owner'[g]] \in Holding
  BY <1>19, <1>a DEF RemovePage
<1>20. CASE UNCHANGED vars
  BY <1>20, <1>a DEF vars
<1> QED
  BY <1>1, <1>2, <1>3, <1>4, <1>5, <1>6, <1>7, <1>8, <1>9, <1>10, <1>11, <1>12, <1>13, <1>14, <1>15, <1>16, <1>17, <1>18, <1>19, <1>20,
     <1>21 DEF Next, Step

LEMMA BlockStep ==
  ASSUME Inv, [Next]_vars, NEW u \in Threads PROVE BlockInv(u)'
<1>a. /\ pc \in [Threads -> Locations] /\ name \in [Threads -> Names]
      /\ owner \in [Names -> Threads \cup {NoThread}] /\ NoThread \notin Threads
      /\ ptr \in [Names -> Pointers]
      /\ \A f \in Names : ptr[f] \in {NULL, MAP_FAILED} \/ ptr[f] > 0
      /\ BlockInv(u) /\ seen \in [Threads -> Pointers]
      /\ \A v \in Threads : pc[v] \in Holding => owner[name[v]] = v
  BY ThreadsAssumption, LimitsAssumption
     DEF Inv, Typed, HoldersOwn, OwnersHold, Pointers, NULL, MAP_FAILED
<1> USE DEF BlockInv, Holding, thread, map, object, pages, Goto, Finish, NULL, MAP_FAILED
<1>1. ASSUME NEW t \in Threads, Call(t) PROVE BlockInv(u)'
  BY <1>1, <1>a DEF Call
<1>2. ASSUME NEW t \in Threads, LockShared(t) PROVE BlockInv(u)'
  BY <1>2, <1>a DEF LockShared
<1>3. ASSUME NEW t \in Threads, Find(t) PROVE BlockInv(u)'
  BY <1>3, <1>a DEF Find
<1>4. ASSUME NEW t \in Threads, LockUnique(t) PROVE BlockInv(u)'
  BY <1>4, <1>a DEF LockUnique
<1>5. ASSUME NEW t \in Threads, FindAgain(t) PROVE BlockInv(u)'
  BY <1>5, <1>a DEF FindAgain
<1>6. ASSUME NEW t \in Threads, Emplace(t) PROVE BlockInv(u)'
  BY <1>6, <1>a DEF Emplace
<1>7. ASSUME NEW t \in Threads, At(t) PROVE BlockInv(u)'
  BY <1>7, <1>a DEF At
<1>8. ASSUME NEW t \in Threads, AtWhileInserting(t) PROVE BlockInv(u)'
  BY <1>8, <1>a DEF AtWhileInserting
<1>9. ASSUME NEW t \in Threads, Check(t) PROVE BlockInv(u)'
  BY <1>9, <1>a DEF Check
<1>10. ASSUME NEW t \in Threads, LockMutex(t) PROVE BlockInv(u)'
  BY <1>10, <1>a DEF LockMutex
<1>11. ASSUME NEW t \in Threads, CheckAgain(t) PROVE BlockInv(u)'
  <2>1. /\ pc[t] = "check again" /\ UNCHANGED <<ptr, name>>
        /\ pc' = [pc EXCEPT ![t] = IF ptr[name[t]] = NULL THEN "open" ELSE "return"]
    BY <1>11, <1>a DEF CheckAgain
  <2> QED
    BY <2>1, <1>a
<1>12. ASSUME NEW t \in Threads, Open(t) PROVE BlockInv(u)'
  BY <1>12, <1>a DEF Open
<1>13. ASSUME NEW t \in Threads, OpenFails(t) PROVE BlockInv(u)'
  BY <1>13, <1>a DEF OpenFails
<1>21. ASSUME NEW t \in Threads, GiveUp(t) PROVE BlockInv(u)'
  BY <1>21, <1>a DEF GiveUp
<1>14. ASSUME NEW t \in Threads, Mmap(t) PROVE BlockInv(u)'
  BY <1>14, <1>a DEF Mmap
<1>15. ASSUME NEW t \in Threads, MmapFails(t) PROVE BlockInv(u)'
  BY <1>15, <1>a DEF MmapFails
<1>16. ASSUME NEW t \in Threads, ResetPointer(t) PROVE BlockInv(u)'
  BY <1>16, <1>a DEF ResetPointer
<1>17. ASSUME NEW t \in Threads, Return(t) PROVE BlockInv(u)'
  BY <1>17, <1>a DEF Return
<1>18. ASSUME NEW f \in Names, CreatePage(f) PROVE BlockInv(u)'
  BY <1>18, <1>a DEF CreatePage
<1>19. ASSUME NEW f \in Names, RemovePage(f) PROVE BlockInv(u)'
  BY <1>19, <1>a DEF RemovePage
<1>20. CASE UNCHANGED vars
  BY <1>20, <1>a DEF vars
<1> QED
  BY <1>1, <1>2, <1>3, <1>4, <1>5, <1>6, <1>7, <1>8, <1>9, <1>10, <1>11, <1>12, <1>13, <1>14, <1>15, <1>16, <1>17, <1>18, <1>19, <1>20,
     <1>21 DEF Next, Step

LEMMA ReadStep ==
  ASSUME Inv, [Next]_vars, NEW u \in Threads PROVE ReadInv(u)'
<1>a. /\ pc \in [Threads -> Locations] /\ name \in [Threads -> Names]
      /\ owner \in [Names -> Threads \cup {NoThread}] /\ NoThread \notin Threads
      /\ ptr \in [Names -> Pointers]
      /\ \A f \in Names : ptr[f] \in {NULL, MAP_FAILED} \/ ptr[f] > 0
      /\ seen \in [Threads -> Pointers]
      /\ page \in [Names -> 0 .. MaxPages] /\ created \in [Names -> 0 .. MaxPages]
      /\ \A f \in Names : MappedInv(f)
      /\ \A v \in Threads : BlockInv(v) /\ ReadInv(v)
  BY ThreadsAssumption, LimitsAssumption
     DEF Inv, Typed, HoldersOwn, OwnersHold, Pointers, NULL, MAP_FAILED
<1>b. ASSUME NEW t \in Threads, UNCHANGED <<name, ptr, created>>,
             pc'[t] \notin {"mmap", "return"},
             \A v \in Threads \ {t} : pc'[v] = pc[v] /\ seen'[v] = seen[v]
      PROVE  ReadInv(u)'
  BY <1>a, <1>b DEF ReadInv
<1> USE DEF ReadInv, Holding, thread, map, object, pages, Goto, Finish, NULL, MAP_FAILED, MappedInv, BlockInv
<1>1. ASSUME NEW t \in Threads, Call(t) PROVE ReadInv(u)'
  BY <1>1, <1>a DEF Call
<1>2. ASSUME NEW t \in Threads, LockShared(t) PROVE ReadInv(u)'
  BY <1>2, <1>a DEF LockShared
<1>3. ASSUME NEW t \in Threads, Find(t) PROVE ReadInv(u)'
  <2>1. /\ pc[t] = "find" /\ UNCHANGED <<seen, name, ptr, created>>
        /\ pc' = [pc EXCEPT ![t] = IF name[t] \in known THEN "at" ELSE "wlock"]
    BY <1>3 DEF Find
  <2> QED
    BY <2>1, <1>a
<1>4. ASSUME NEW t \in Threads, LockUnique(t) PROVE ReadInv(u)'
  BY <1>4, <1>a DEF LockUnique
<1>5. ASSUME NEW t \in Threads, FindAgain(t) PROVE ReadInv(u)'
  <2>1. /\ pc[t] = "find again" /\ UNCHANGED <<seen, name, ptr, created>>
        /\ pc' = [pc EXCEPT ![t] = IF name[t] \in known THEN "at" ELSE "emplace"]
    BY <1>5 DEF FindAgain
  <2> QED
    BY <2>1, <1>a
<1>6. ASSUME NEW t \in Threads, Emplace(t) PROVE ReadInv(u)'
  BY <1>6, <1>a DEF Emplace
<1>7. ASSUME NEW t \in Threads, At(t) PROVE ReadInv(u)'
  BY <1>7, <1>a DEF At
<1>8. ASSUME NEW t \in Threads, AtWhileInserting(t) PROVE ReadInv(u)'
  <2>1. /\ UNCHANGED <<name, ptr, created>> /\ pc' = [pc EXCEPT ![t] = "idle"]
        /\ seen' = [seen EXCEPT ![t] = NULL]
    BY <1>8 DEF AtWhileInserting
  <2> QED
    BY <2>1, <1>a, <1>b
<1>9. ASSUME NEW t \in Threads, Check(t) PROVE ReadInv(u)'
  <2>1. /\ pc[t] = "check" /\ UNCHANGED <<ptr, name, created>>
        /\ seen' = [seen EXCEPT ![t] = ptr[name[t]]]
        /\ pc' = [pc EXCEPT ![t] = IF ptr[name[t]] = NULL THEN "lock" ELSE "return"]
    BY <1>9, <1>a DEF Check
  <2>2. CASE u = t
    <3>1. seen'[t] = ptr[name[t]] /\ name[t] \in Names /\ pc'[t] # "mmap"
      BY <2>1, <1>a
    <3>2. pc'[t] = "return" => ptr[name[t]] # NULL
      BY <2>1, <1>a
    <3>3. ptr[name[t]] \in {NULL, MAP_FAILED} \/ ptr[name[t]] > 0
      BY <3>1, <1>a
    <3>4. /\ pc'[u] # "mmap" /\ seen'[u] = ptr'[name'[u]]
          /\ pc'[u] = "return" => ptr[name[t]] # NULL
      BY <3>1, <3>2, <2>1, <2>2
    <3>5. ptr[name[t]] # NULL => seen'[u] = MAP_FAILED \/ seen'[u] > 0
      BY ONLY <3>1, <3>3, <2>2
    <3> QED
      BY ONLY <3>4, <3>5, Zenon DEF ReadInv
  <2>3. CASE u # t
    BY <2>1, <2>3, <1>a
  <2> QED
    BY <2>2, <2>3
<1>10. ASSUME NEW t \in Threads, LockMutex(t) PROVE ReadInv(u)'
  BY <1>10, <1>a DEF LockMutex
<1>11. ASSUME NEW t \in Threads, CheckAgain(t) PROVE ReadInv(u)'
  <2>1. /\ pc[t] = "check again" /\ UNCHANGED <<ptr, name, created>>
        /\ seen' = [seen EXCEPT ![t] = ptr[name[t]]]
        /\ pc' = [pc EXCEPT ![t] = IF ptr[name[t]] = NULL THEN "open" ELSE "return"]
    BY <1>11, <1>a DEF CheckAgain
  <2>2. CASE u = t
    <3>1. seen'[t] = ptr[name[t]] /\ name[t] \in Names /\ pc'[t] # "mmap"
      BY <2>1, <1>a
    <3>2. pc'[t] = "return" => ptr[name[t]] # NULL
      BY <2>1, <1>a
    <3>3. ptr[name[t]] \in {NULL, MAP_FAILED} \/ ptr[name[t]] > 0
      BY <3>1, <1>a
    <3>4. /\ pc'[u] # "mmap" /\ seen'[u] = ptr'[name'[u]]
          /\ pc'[u] = "return" => ptr[name[t]] # NULL
      BY <3>1, <3>2, <2>1, <2>2
    <3>5. ptr[name[t]] # NULL => seen'[u] = MAP_FAILED \/ seen'[u] > 0
      BY ONLY <3>1, <3>3, <2>2
    <3> QED
      BY ONLY <3>4, <3>5, Zenon DEF ReadInv
  <2>3. CASE u # t
    BY <2>1, <2>3, <1>a
  <2> QED
    BY <2>2, <2>3
<1>12. ASSUME NEW t \in Threads, Open(t) PROVE ReadInv(u)'
  <2>1. /\ pc' = [pc EXCEPT ![t] = "mmap"] /\ UNCHANGED <<ptr, name, created>>
        /\ seen' = [seen EXCEPT ![t] = page[name[t]]] /\ page[name[t]] # 0
    BY <1>12 DEF Open
  <2>2. CASE u = t
    <3>1. name[t] \in Names
      BY <1>a
    <3>2. page[name[t]] \in 0 .. MaxPages /\ page[name[t]] <= created[name[t]]
      BY <3>1, <1>a
    <3>3. page[name[t]] \in 1 .. created[name[t]]
      <4>1. created[name[t]] \in 0 .. MaxPages
        BY <3>1, <1>a
      <4> QED
        BY ONLY <2>1, <3>2, <4>1, LimitsAssumption
    <3> QED
      BY <2>1, <2>2, <3>3, <1>a
  <2>3. CASE u # t
    BY <2>1, <2>3, <1>a
  <2> QED
    BY <2>2, <2>3
<1>13. ASSUME NEW t \in Threads, OpenFails(t) PROVE ReadInv(u)'
  <2>1. /\ UNCHANGED <<name, ptr, created>> /\ pc' = [pc EXCEPT ![t] = "give up"]
        /\ seen' = seen
    BY <1>13 DEF OpenFails
  <2> QED
    BY <2>1, <1>a, <1>b
<1>21. ASSUME NEW t \in Threads, GiveUp(t) PROVE ReadInv(u)'
  <2>1. /\ UNCHANGED <<name, ptr, created>> /\ pc' = [pc EXCEPT ![t] = "idle"]
        /\ seen' = [seen EXCEPT ![t] = NULL]
    BY <1>21 DEF GiveUp
  <2> QED
    BY <2>1, <1>a, <1>b
<1>14. ASSUME NEW t \in Threads, Mmap(t) PROVE ReadInv(u)'
  <2>1. /\ pc[t] = "mmap" /\ pc' = [pc EXCEPT ![t] = "return"]
        /\ ptr' = [ptr EXCEPT ![name[t]] = seen[t]]
        /\ UNCHANGED <<seen, name, created>>
    BY <1>14 DEF Mmap
  <2>2. name[t] \in Names /\ ptr[name[t]] = 0 /\ seen[t] \in 1 .. created[name[t]]
    BY <2>1, <1>a
  <2>3. CASE u = t
    <3>1. seen[t] > 0
      BY ONLY <2>2
    <3> QED
      BY <2>1, <2>2, <2>3, <3>1, <1>a
  <2>4. CASE u # t
    <3>1. pc'[u] = pc[u] /\ name[u] \in Names
      BY <2>1, <2>4, <1>a
    <3>2. name[u] # name[t] => ptr'[name[u]] = ptr[name[u]]
      BY <2>1, <3>1, <1>a
    <3>3. seen[u] = ptr[name[u]] /\ seen[u] > 0 => name[u] # name[t]
      BY ONLY <2>2
    <3>4. ReadInv(u) /\ name' = name /\ created' = created /\ seen'[u] = seen[u]
      BY <2>1, <3>1, <1>a
    <3> QED
      BY ONLY <3>1, <3>2, <3>3, <3>4, Zenon DEF ReadInv
  <2> QED
    BY <2>3, <2>4
<1>15. ASSUME NEW t \in Threads, MmapFails(t) PROVE ReadInv(u)'
  <2>1. /\ pc[t] = "mmap" /\ pc' = [pc EXCEPT ![t] = "unmap"]
        /\ ptr' = [ptr EXCEPT ![name[t]] = MAP_FAILED]
        /\ UNCHANGED <<seen, name, created>>
    BY <1>15 DEF MmapFails
  <2>2. name[t] \in Names /\ ptr[name[t]] = 0
    BY <2>1, <1>a
  <2>3. CASE u = t
    BY <2>1, <2>3, <1>a
  <2>4. CASE u # t
    <3>1. pc'[u] = pc[u] /\ seen'[u] = seen[u] /\ name[u] \in Names
      BY <2>1, <2>4, <1>a
    <3>2. name[u] # name[t] => ptr'[name[u]] = ptr[name[u]]
      BY <2>1, <3>1, <1>a
    <3>3. seen[u] = ptr[name[u]] /\ seen[u] > 0 => name[u] # name[t]
      BY ONLY <2>2
    <3>4. ReadInv(u) /\ name' = name /\ created' = created /\ seen'[u] = seen[u]
      BY <2>1, <3>1, <1>a
    <3> QED
      BY ONLY <3>1, <3>2, <3>3, <3>4, Zenon DEF ReadInv
  <2> QED
    BY <2>3, <2>4
<1>16. ASSUME NEW t \in Threads, ResetPointer(t) PROVE ReadInv(u)'
  <2>1. /\ pc[t] = "unmap" /\ pc' = [pc EXCEPT ![t] = "idle"]
        /\ ptr' = [ptr EXCEPT ![name[t]] = NULL]
        /\ seen' = [seen EXCEPT ![t] = NULL]
        /\ UNCHANGED <<name, created>>
    BY <1>16 DEF ResetPointer
  <2>2. name[t] \in Names /\ ptr[name[t]] = -1
    BY <2>1, <1>a
  <2>3. CASE u = t
    BY <2>1, <2>3, <1>a
  <2>4. CASE u # t
    <3>1. pc'[u] = pc[u] /\ seen'[u] = seen[u] /\ name[u] \in Names
      BY <2>1, <2>4, <1>a
    <3>2. name[u] # name[t] => ptr'[name[u]] = ptr[name[u]]
      BY <2>1, <3>1, <1>a
    <3>3. seen[u] = ptr[name[u]] /\ seen[u] > 0 => name[u] # name[t]
      BY ONLY <2>2
    <3>4. ReadInv(u) /\ name' = name /\ created' = created /\ seen'[u] = seen[u]
      BY <2>1, <3>1, <1>a
    <3> QED
      BY ONLY <3>1, <3>2, <3>3, <3>4, Zenon DEF ReadInv
  <2> QED
    BY <2>3, <2>4
<1>17. ASSUME NEW t \in Threads, Return(t) PROVE ReadInv(u)'
  <2>1. /\ UNCHANGED <<name, ptr, created>> /\ pc' = [pc EXCEPT ![t] = "idle"]
        /\ seen' = [seen EXCEPT ![t] = NULL]
    BY <1>17 DEF Return
  <2> QED
    BY <2>1, <1>a, <1>b
<1>18. ASSUME NEW f \in Names, CreatePage(f) PROVE ReadInv(u)'
  <2>1. /\ created' = [created EXCEPT ![f] = @ + 1]
        /\ UNCHANGED <<pc, seen, name, ptr>>
    BY <1>18 DEF CreatePage
  <2>2. name[u] \in Names /\ created[name[u]] \in 0 .. MaxPages
    BY <1>a
  <2>3. created'[name[u]] = created[name[u]] \/ created'[name[u]] = created[name[u]] + 1
    BY <2>1, <2>2, <1>a
  <2>4. pc[u] = "mmap" => seen[u] \in 1 .. created[name[u]]
    BY <1>a
  <2>5. pc[u] = "mmap" => seen[u] \in 1 .. created'[name[u]]
    BY ONLY <2>2, <2>3, <2>4, LimitsAssumption
  <2> QED
    BY <2>1, <2>5, <1>a
<1>19. ASSUME NEW f \in Names, RemovePage(f) PROVE ReadInv(u)'
  BY <1>19, <1>a DEF RemovePage
<1>20. CASE UNCHANGED vars
  BY <1>20, <1>a DEF vars
<1> QED
  BY <1>1, <1>2, <1>3, <1>4, <1>5, <1>6, <1>7, <1>8, <1>9, <1>10, <1>11, <1>12, <1>13, <1>14, <1>15, <1>16, <1>17, <1>18, <1>19, <1>20,
     <1>21 DEF Next, Step

LEMMA FailedStep ==
  ASSUME Inv, [Next]_vars, NEW g \in Names PROVE FailedInv(g)'
<1>a. /\ pc \in [Threads -> Locations] /\ name \in [Threads -> Names]
      /\ owner \in [Names -> Threads \cup {NoThread}] /\ NoThread \notin Threads
      /\ ptr \in [Names -> Pointers]
      /\ \A f \in Names : ptr[f] \in {NULL, MAP_FAILED} \/ ptr[f] > 0
      /\ FailedInv(g) /\ seen \in [Threads -> Pointers]
      /\ owner[g] # NoThread => owner[g] \in Threads /\ name[owner[g]] = g
      /\ \A v \in Threads : pc[v] \in Holding => owner[name[v]] = v
  BY ThreadsAssumption, LimitsAssumption
     DEF Inv, Typed, HoldersOwn, OwnersHold, Pointers, NULL, MAP_FAILED
<1>b. \A v \in Threads : pc[v] = "mmap" => seen[v] # MAP_FAILED
  <2> SUFFICES ASSUME NEW v \in Threads, pc[v] = "mmap" PROVE seen[v] # MAP_FAILED
    OBVIOUS
  <2>1. name[v] \in Names /\ seen[v] \in 1 .. created[name[v]]
    BY <1>a DEF Inv, ReadInv
  <2>2. created[name[v]] \in Nat
    BY <2>1, LimitsAssumption DEF Inv, Typed
  <2> QED
    BY ONLY <2>1, <2>2 DEF MAP_FAILED
<1> USE DEF FailedInv, Holding, thread, map, object, pages, Goto, Finish, NULL, MAP_FAILED
<1>1. ASSUME NEW t \in Threads, Call(t) PROVE FailedInv(g)'
  BY <1>1, <1>a DEF Call
<1>2. ASSUME NEW t \in Threads, LockShared(t) PROVE FailedInv(g)'
  BY <1>2, <1>a DEF LockShared
<1>3. ASSUME NEW t \in Threads, Find(t) PROVE FailedInv(g)'
  BY <1>3, <1>a DEF Find
<1>4. ASSUME NEW t \in Threads, LockUnique(t) PROVE FailedInv(g)'
  BY <1>4, <1>a DEF LockUnique
<1>5. ASSUME NEW t \in Threads, FindAgain(t) PROVE FailedInv(g)'
  BY <1>5, <1>a DEF FindAgain
<1>6. ASSUME NEW t \in Threads, Emplace(t) PROVE FailedInv(g)'
  BY <1>6, <1>a DEF Emplace
<1>7. ASSUME NEW t \in Threads, At(t) PROVE FailedInv(g)'
  BY <1>7, <1>a DEF At
<1>8. ASSUME NEW t \in Threads, AtWhileInserting(t) PROVE FailedInv(g)'
  BY <1>8, <1>a DEF AtWhileInserting
<1>9. ASSUME NEW t \in Threads, Check(t) PROVE FailedInv(g)'
  BY <1>9, <1>a DEF Check
<1>10. ASSUME NEW t \in Threads, LockMutex(t) PROVE FailedInv(g)'
  BY <1>10, <1>a DEF LockMutex
<1>11. ASSUME NEW t \in Threads, CheckAgain(t) PROVE FailedInv(g)'
  <2>1. /\ pc[t] = "check again" /\ UNCHANGED <<ptr, name>>
        /\ pc' = [pc EXCEPT ![t] = IF ptr[name[t]] = NULL THEN "open" ELSE "return"]
        /\ owner' = IF ptr[name[t]] = NULL THEN owner
                    ELSE [owner EXCEPT ![name[t]] = NoThread]
    BY <1>11, <1>a DEF CheckAgain
  <2> QED
    BY <2>1, <1>a
<1>12. ASSUME NEW t \in Threads, Open(t) PROVE FailedInv(g)'
  BY <1>12, <1>a DEF Open
<1>13. ASSUME NEW t \in Threads, OpenFails(t) PROVE FailedInv(g)'
  BY <1>13, <1>a DEF OpenFails
<1>21. ASSUME NEW t \in Threads, GiveUp(t) PROVE FailedInv(g)'
  BY <1>21, <1>a DEF GiveUp
<1>14. ASSUME NEW t \in Threads, Mmap(t) PROVE FailedInv(g)'
  <2>1. /\ pc[t] = "mmap" /\ ptr' = [ptr EXCEPT ![name[t]] = seen[t]]
        /\ pc' = [pc EXCEPT ![t] = "return"]
        /\ owner' = [owner EXCEPT ![name[t]] = NoThread]
    BY <1>14 DEF Mmap
  <2>2. CASE g = name[t]
    <3>1. ptr'[g] = seen[t]
      BY <2>1, <2>2, <1>a
    <3>2. ptr'[g] # MAP_FAILED
      BY <3>1, <1>b, <2>1
    <3> QED
      BY <3>2
  <2>3. CASE g # name[t]
    <3>1. ptr'[g] = ptr[g] /\ owner'[g] = owner[g] /\ owner[g] # t
      BY <2>1, <2>3, <1>a
    <3> QED
      BY <2>1, <3>1, <1>a
  <2> QED
    BY <2>2, <2>3
<1>15. ASSUME NEW t \in Threads, MmapFails(t) PROVE FailedInv(g)'
  BY <1>15, <1>a DEF MmapFails
<1>16. ASSUME NEW t \in Threads, ResetPointer(t) PROVE FailedInv(g)'
  <2>1. /\ pc[t] = "unmap" /\ ptr' = [ptr EXCEPT ![name[t]] = NULL]
        /\ pc' = [pc EXCEPT ![t] = "idle"]
        /\ owner' = [owner EXCEPT ![name[t]] = NoThread]
    BY <1>16 DEF ResetPointer
  <2>2. CASE g = name[t]
    <3>1. ptr'[g] = NULL
      BY <2>1, <2>2, <1>a
    <3>2. ptr'[g] # MAP_FAILED
      BY <3>1
    <3> QED
      BY <3>2
  <2>3. CASE g # name[t]
    <3>1. ptr'[g] = ptr[g] /\ owner'[g] = owner[g] /\ owner[g] # t
      BY <2>1, <2>3, <1>a
    <3> QED
      BY <2>1, <3>1, <1>a
  <2> QED
    BY <2>2, <2>3
<1>17. ASSUME NEW t \in Threads, Return(t) PROVE FailedInv(g)'
  BY <1>17, <1>a DEF Return
<1>18. ASSUME NEW f \in Names, CreatePage(f) PROVE FailedInv(g)'
  BY <1>18, <1>a DEF CreatePage
<1>19. ASSUME NEW f \in Names, RemovePage(f) PROVE FailedInv(g)'
  BY <1>19, <1>a DEF RemovePage
<1>20. CASE UNCHANGED vars
  BY <1>20, <1>a DEF vars
<1> QED
  BY <1>1, <1>2, <1>3, <1>4, <1>5, <1>6, <1>7, <1>8, <1>9, <1>10, <1>11, <1>12, <1>13, <1>14, <1>15, <1>16, <1>17, <1>18, <1>19, <1>20,
     <1>21 DEF Next, Step

LEMMA MappedStep ==
  ASSUME Inv, [Next]_vars, NEW g \in Names PROVE MappedInv(g)'
<1>a. /\ pc \in [Threads -> Locations] /\ name \in [Threads -> Names]
      /\ owner \in [Names -> Threads \cup {NoThread}] /\ NoThread \notin Threads
      /\ ptr \in [Names -> Pointers]
      /\ \A f \in Names : ptr[f] \in {NULL, MAP_FAILED} \/ ptr[f] > 0
      /\ MappedInv(g) /\ seen \in [Threads -> Pointers]
      /\ page \in [Names -> 0 .. MaxPages] /\ created \in [Names -> 0 .. MaxPages]
      /\ mappings \in [Names -> Nat]
  BY ThreadsAssumption, LimitsAssumption
     DEF Inv, Typed, Pointers, NULL, MAP_FAILED
<1> USE DEF MappedInv, thread, map, object, pages, NULL, MAP_FAILED
<1>1. ASSUME NEW t \in Threads, Call(t) PROVE MappedInv(g)'
  BY <1>1, <1>a DEF Call
<1>2. ASSUME NEW t \in Threads, LockShared(t) PROVE MappedInv(g)'
  BY <1>2, <1>a DEF LockShared
<1>3. ASSUME NEW t \in Threads, Find(t) PROVE MappedInv(g)'
  BY <1>3, <1>a DEF Find
<1>4. ASSUME NEW t \in Threads, LockUnique(t) PROVE MappedInv(g)'
  BY <1>4, <1>a DEF LockUnique
<1>5. ASSUME NEW t \in Threads, FindAgain(t) PROVE MappedInv(g)'
  BY <1>5, <1>a DEF FindAgain
<1>6. ASSUME NEW t \in Threads, Emplace(t) PROVE MappedInv(g)'
  BY <1>6, <1>a DEF Emplace
<1>7. ASSUME NEW t \in Threads, At(t) PROVE MappedInv(g)'
  BY <1>7, <1>a DEF At
<1>8. ASSUME NEW t \in Threads, AtWhileInserting(t) PROVE MappedInv(g)'
  BY <1>8, <1>a DEF AtWhileInserting
<1>9. ASSUME NEW t \in Threads, Check(t) PROVE MappedInv(g)'
  BY <1>9, <1>a DEF Check
<1>10. ASSUME NEW t \in Threads, LockMutex(t) PROVE MappedInv(g)'
  BY <1>10, <1>a DEF LockMutex
<1>11. ASSUME NEW t \in Threads, CheckAgain(t) PROVE MappedInv(g)'
  BY <1>11, <1>a DEF CheckAgain
<1>12. ASSUME NEW t \in Threads, Open(t) PROVE MappedInv(g)'
  BY <1>12, <1>a DEF Open
<1>13. ASSUME NEW t \in Threads, OpenFails(t) PROVE MappedInv(g)'
  BY <1>13, <1>a DEF OpenFails
<1>21. ASSUME NEW t \in Threads, GiveUp(t) PROVE MappedInv(g)'
  BY <1>21, <1>a DEF GiveUp
<1>14. ASSUME NEW t \in Threads, Mmap(t) PROVE MappedInv(g)'
  <2>1. /\ pc[t] = "mmap" /\ ptr' = [ptr EXCEPT ![name[t]] = seen[t]]
        /\ mappings' = [mappings EXCEPT ![name[t]] = @ + 1]
        /\ UNCHANGED <<page, created>>
    BY <1>14 DEF Mmap
  <2>2. /\ name[t] \in Names /\ ptr[name[t]] = NULL
        /\ seen[t] \in 1 .. created[name[t]]
    BY <2>1, <1>a DEF Inv, BlockInv, ReadInv
  <2>3. created[name[t]] \in 0 .. MaxPages
    BY <2>2, <1>a
  <2>4. seen[t] > 0
    BY ONLY <2>2, <2>3, LimitsAssumption
  <2>5. CASE g = name[t]
    <3>1. ptr[g] = 0 /\ ptr'[g] = seen[t] /\ mappings'[g] = mappings[g] + 1
      BY <2>1, <2>2, <2>5, <1>a
    <3> QED
      BY <3>1, <2>1, <2>4, <1>a
  <2>6. CASE g # name[t]
    <3>1. ptr'[g] = ptr[g] /\ mappings'[g] = mappings[g]
      BY <2>1, <2>6, <1>a
    <3> QED
      BY <3>1, <2>1, <1>a
  <2> QED
    BY <2>5, <2>6
<1>15. ASSUME NEW t \in Threads, MmapFails(t) PROVE MappedInv(g)'
  <2>1. /\ pc[t] = "mmap" /\ ptr' = [ptr EXCEPT ![name[t]] = MAP_FAILED]
        /\ UNCHANGED <<mappings, page, created>>
    BY <1>15 DEF MmapFails
  <2>2. name[t] \in Names /\ ptr[name[t]] = NULL
    BY <2>1, <1>a DEF Inv, BlockInv
  <2>3. ptr'[g] > 0 <=> ptr[g] > 0
    <3>1. CASE g = name[t]
      <4>1. ptr[g] = NULL /\ ptr'[g] = MAP_FAILED
        BY <2>1, <2>2, <3>1, <1>a
      <4> QED
        BY ONLY <4>1 DEF NULL, MAP_FAILED
    <3>2. CASE g # name[t]
      BY <2>1, <3>2, <1>a
    <3> QED
      BY <3>1, <3>2
  <2> QED
    BY <2>1, <2>3, <1>a
<1>16. ASSUME NEW t \in Threads, ResetPointer(t) PROVE MappedInv(g)'
  <2>1. /\ pc[t] = "unmap" /\ ptr' = [ptr EXCEPT ![name[t]] = NULL]
        /\ UNCHANGED <<mappings, page, created>>
    BY <1>16 DEF ResetPointer
  <2>2. name[t] \in Names /\ ptr[name[t]] = MAP_FAILED
    BY <2>1, <1>a DEF Inv, BlockInv
  <2>3. ptr'[g] > 0 <=> ptr[g] > 0
    <3>1. CASE g = name[t]
      <4>1. ptr[g] = MAP_FAILED /\ ptr'[g] = NULL
        BY <2>1, <2>2, <3>1, <1>a
      <4> QED
        BY ONLY <4>1 DEF NULL, MAP_FAILED
    <3>2. CASE g # name[t]
      BY <2>1, <3>2, <1>a
    <3> QED
      BY <3>1, <3>2
  <2> QED
    BY <2>1, <2>3, <1>a
<1>17. ASSUME NEW t \in Threads, Return(t) PROVE MappedInv(g)'
  BY <1>17, <1>a DEF Return
<1>18. ASSUME NEW f \in Names, CreatePage(f) PROVE MappedInv(g)'
  <2>1. /\ page' = [page EXCEPT ![f] = created[f] + 1]
        /\ created' = [created EXCEPT ![f] = @ + 1]
        /\ UNCHANGED <<ptr, mappings>>
    BY <1>18 DEF CreatePage
  <2>2. page[g] \in 0 .. MaxPages /\ created[g] \in 0 .. MaxPages
    BY <1>a
  <2>3. page'[g] <= created'[g]
    <3>1. CASE g = f
      <4>1. page'[g] = created[g] + 1 /\ created'[g] = created[g] + 1
        BY <2>1, <3>1, <1>a
      <4> QED
        BY ONLY <4>1, <2>2, LimitsAssumption
    <3>2. CASE g # f
      BY <2>1, <3>2, <1>a
    <3> QED
      BY <3>1, <3>2
  <2> QED
    BY <2>1, <2>3, <1>a
<1>19. ASSUME NEW f \in Names, RemovePage(f) PROVE MappedInv(g)'
  <2>1. page' = [page EXCEPT ![f] = 0] /\ UNCHANGED <<ptr, mappings, created>>
    BY <1>19 DEF RemovePage
  <2>2. page'[g] = page[g] \/ page'[g] = 0
    BY <2>1, <1>a
  <2>3. created[g] \in 0 .. MaxPages
    BY <1>a
  <2>4. page'[g] <= created[g]
    <3>1. page[g] <= created[g]
      BY <1>a
    <3> QED
      BY ONLY <2>2, <2>3, <3>1, LimitsAssumption
  <2> QED
    BY <2>1, <2>4, <1>a
<1>20. CASE UNCHANGED vars
  BY <1>20, <1>a DEF vars
<1> QED
  BY <1>1, <1>2, <1>3, <1>4, <1>5, <1>6, <1>7, <1>8, <1>9, <1>10, <1>11, <1>12, <1>13, <1>14, <1>15, <1>16, <1>17, <1>18, <1>19, <1>20,
     <1>21 DEF Next, Step

LEMMA ExcusedStep ==
  ASSUME Inv, [Next]_vars, NEW u \in Threads PROVE ExcusedInv(u)'
<1>a. /\ pc \in [Threads -> Locations] /\ name \in [Threads -> Names]
      /\ owner \in [Names -> Threads \cup {NoThread}] /\ NoThread \notin Threads
      /\ ptr \in [Names -> Pointers]
      /\ \A f \in Names : ptr[f] \in {NULL, MAP_FAILED} \/ ptr[f] > 0
      /\ ExcusedInv(u) /\ seen \in [Threads -> Pointers]
      /\ page \in [Names -> 0 .. MaxPages]
      /\ excused \in [Threads -> SUBSET Causes]
      /\ \A v \in Threads : ReadInv(v) /\ BlockInv(v)
  BY ThreadsAssumption, LimitsAssumption
     DEF Inv, Typed, HoldersOwn, OwnersHold, Pointers, NULL, MAP_FAILED
<1> USE DEF ExcusedInv, Holding, thread, map, object, pages, Goto, Finish, NULL, MAP_FAILED, ReadInv, BlockInv, Calling
<1>1. ASSUME NEW t \in Threads, Call(t) PROVE ExcusedInv(u)'
  BY <1>1, <1>a DEF Call
<1>2. ASSUME NEW t \in Threads, LockShared(t) PROVE ExcusedInv(u)'
  BY <1>2, <1>a DEF LockShared
<1>3. ASSUME NEW t \in Threads, Find(t) PROVE ExcusedInv(u)'
  BY <1>3, <1>a DEF Find
<1>4. ASSUME NEW t \in Threads, LockUnique(t) PROVE ExcusedInv(u)'
  BY <1>4, <1>a DEF LockUnique
<1>5. ASSUME NEW t \in Threads, FindAgain(t) PROVE ExcusedInv(u)'
  BY <1>5, <1>a DEF FindAgain
<1>6. ASSUME NEW t \in Threads, Emplace(t) PROVE ExcusedInv(u)'
  BY <1>6, <1>a DEF Emplace
<1>7. ASSUME NEW t \in Threads, At(t) PROVE ExcusedInv(u)'
  BY <1>7, <1>a DEF At
<1>8. ASSUME NEW t \in Threads, AtWhileInserting(t) PROVE ExcusedInv(u)'
  BY <1>8, <1>a DEF AtWhileInserting
<1>9. ASSUME NEW t \in Threads, Check(t) PROVE ExcusedInv(u)'
  BY <1>9, <1>a DEF Check
<1>10. ASSUME NEW t \in Threads, LockMutex(t) PROVE ExcusedInv(u)'
  BY <1>10, <1>a DEF LockMutex
<1>11. ASSUME NEW t \in Threads, CheckAgain(t) PROVE ExcusedInv(u)'
  BY <1>11, <1>a DEF CheckAgain
<1>12. ASSUME NEW t \in Threads, Open(t) PROVE ExcusedInv(u)'
  BY <1>12, <1>a DEF Open
<1>13. ASSUME NEW t \in Threads, OpenFails(t) PROVE ExcusedInv(u)'
  BY <1>13, <1>a DEF OpenFails
<1>21. ASSUME NEW t \in Threads, GiveUp(t) PROVE ExcusedInv(u)'
  BY <1>21, <1>a DEF GiveUp
<1>14. ASSUME NEW t \in Threads, Mmap(t) PROVE ExcusedInv(u)'
  <2>1. /\ pc[t] = "mmap" /\ pc' = [pc EXCEPT ![t] = "return"]
        /\ ptr' = [ptr EXCEPT ![name[t]] = seen[t]]
        /\ UNCHANGED <<seen, name, excused>>
    BY <1>14 DEF Mmap
  <2>2. name[t] \in Names /\ seen[t] \in 1 .. created[name[t]]
    BY <2>1, <1>a
  <2>3. seen[t] # MAP_FAILED
    <3>1. created[name[t]] \in 0 .. MaxPages
      BY <2>2 DEF Inv, Typed
    <3> QED
      BY ONLY <2>2, <3>1, LimitsAssumption DEF MAP_FAILED
  <2>4. ptr'[name[u]] = MAP_FAILED => ptr[name[u]] = MAP_FAILED
    BY <2>1, <2>2, <2>3, <1>a
  <2>5. pc'[u] = "return" /\ seen[u] = MAP_FAILED => pc[u] = "return"
    BY <2>1, <2>3, <1>a
  <2>6. /\ pc'[u] # "idle" => pc[u] # "idle"
        /\ pc'[u] = "give up" => pc[u] = "give up"
    BY <2>1, <1>a
  <2> QED
    BY <2>1, <2>4, <2>5, <2>6, <1>a
<1>15. ASSUME NEW t \in Threads, MmapFails(t) PROVE ExcusedInv(u)'
  BY <1>15, <1>a DEF MmapFails
<1>16. ASSUME NEW t \in Threads, ResetPointer(t) PROVE ExcusedInv(u)'
  BY <1>16, <1>a DEF ResetPointer
<1>17. ASSUME NEW t \in Threads, Return(t) PROVE ExcusedInv(u)'
  BY <1>17, <1>a DEF Return
<1>18. ASSUME NEW f \in Names, CreatePage(f) PROVE ExcusedInv(u)'
  BY <1>18, <1>a DEF CreatePage
<1>19. ASSUME NEW f \in Names, RemovePage(f) PROVE ExcusedInv(u)'
  BY <1>19, <1>a DEF RemovePage
<1>20. CASE UNCHANGED vars
  BY <1>20, <1>a DEF vars
<1> QED
  BY <1>1, <1>2, <1>3, <1>4, <1>5, <1>6, <1>7, <1>8, <1>9, <1>10, <1>11, <1>12, <1>13, <1>14, <1>15, <1>16, <1>17, <1>18, <1>19, <1>20,
     <1>21 DEF Next, Step

LEMMA Invariant == Spec => []Inv
<1>1. Inv /\ [Next]_vars => Inv'
  <2> SUFFICES ASSUME Inv, [Next]_vars PROVE Inv'
    OBVIOUS
  <2>1. Typed' /\ LockInv' /\ KnownInv' /\ HoldersOwn' /\ OwnersHold'
    BY TypeStep, LockStep, KnownStep, HoldersStep, OwnersStep DEF Inv
  <2>2. ASSUME NEW t \in Threads
        PROVE  BlockInv(t)' /\ ReadInv(t)' /\ ExcusedInv(t)'
    BY BlockStep, ReadStep, ExcusedStep
  <2>3. ASSUME NEW f \in Names PROVE FailedInv(f)' /\ MappedInv(f)'
    BY FailedStep, MappedStep
  <2> QED
    BY <2>1, <2>2, <2>3 DEF Inv
<1> QED
  BY <1>1, InitInv, PTL DEF Spec

(* Every variable keeps its type, and MAP_FAILED is in readonly_ptr only    *)
(* while the thread that stored it holds the mutex.                        *)
THEOREM TypeCorrect == Spec => []TypeOK
<1>1. Inv => TypeOK
  BY DEF Inv, FailedInv, TypeOK
<1> QED
  BY <1>1, Invariant, PTL

(* However many threads ask, whatever fails in between and whatever `ci'   *)
(* does with the page, it is mapped once for each name.                    *)
THEOREM MappedOnce == Spec => []OneMapping
<1>1. Inv => OneMapping
  <2> SUFFICES ASSUME Inv, NEW f \in Names PROVE mappings[f] <= 1
    BY DEF OneMapping
  <2>1. mappings[f] = IF ptr[f] > 0 THEN 1 ELSE 0
    BY DEF Inv, MappedInv
  <2> QED
    BY <2>1
<1> QED
  BY <1>1, Invariant, PTL

(* No lookup that is made under the lock meets an insertion.               *)
THEOREM LookupsSafe == Spec => []LockedLookupsSafe
<1>1. Inv => LockedLookupsSafe
  BY ThreadsAssumption DEF Inv, LockInv, LockedLookupsSafe
<1> QED
  BY <1>1, Invariant, PTL

-----------------------------------------------------------------------------
(* The refinement: what a step is to a caller.                             *)

(* A step within a call that changes nothing a caller can see.             *)
LEMMA Silent ==
  ASSUME Inv, NEW t \in Threads, NEW l, l # "idle", pc[t] # "idle",
         pc' = [pc EXCEPT ![t] = l],
         \A f \in Names : ptr[f] = MAP_FAILED => owner'[f] = owner[f],
         UNCHANGED <<name, excused, result, ptr, page, created>>
  PROVE  UNCHANGED Once!pageVars
<1>1. Busy' = Busy
  BY DEF Busy, Inv, Typed
<1>2. Remembered' = Remembered /\ Failing' = Failing
  BY DEF Remembered, Failing
<1> QED
  BY <1>1, <1>2 DEF Once!pageVars, Once!call

(* The mutex of an object stays with the thread whose mmap failed.         *)
LEMMA FailedIsHeld ==
  ASSUME Inv, NEW t \in Threads, pc[t] # "unmap", NEW f \in Names,
         ptr[f] = MAP_FAILED
  PROVE  owner[f] \in Threads /\ owner[f] # t
BY DEF Inv, Typed, FailedInv

(* The end of a call, where nothing is remembered or forgotten.            *)
LEMMA Answers ==
  ASSUME Inv, NEW t \in Threads, NEW r \in Once!Answers(t), pc[t] # "idle",
         pc' = [pc EXCEPT ![t] = "idle"], result' = [result EXCEPT ![t] = r],
         Remembered' = Remembered,
         Failing' = [Failing EXCEPT ![name[t]] = IF @ = t THEN NoThread ELSE @],
         UNCHANGED <<name, excused, page, created>>
  PROVE  Once!Answer(t)
<1>1. Busy[t]
  BY DEF Busy
<1>2. Busy' = [Busy EXCEPT ![t] = FALSE]
  BY DEF Busy, Inv, Typed
<1> QED
  BY <1>1, <1>2 DEF Once!Answer

(* The end of a call of a thread that is not the one whose mmap failed.    *)
LEMMA OthersFail ==
  ASSUME Inv, NEW t \in Threads, pc[t] # "unmap",
         \A f \in Names : ptr[f] = MAP_FAILED => owner'[f] = owner[f],
         UNCHANGED ptr
  PROVE  /\ Remembered' = Remembered /\ Failing[name[t]] # t
         /\ Failing' = [Failing EXCEPT ![name[t]] = IF @ = t THEN NoThread ELSE @]
<1>1. Remembered' = Remembered /\ Failing' = Failing
  BY DEF Remembered, Failing
<1>2. name[t] \in Names /\ NoThread # t
  BY ThreadsAssumption DEF Inv, Typed
<1>3. Failing[name[t]] # t
  BY <1>2, FailedIsHeld DEF Failing
<1>4. Failing = [Failing EXCEPT ![name[t]] = IF @ = t THEN NoThread ELSE @]
  BY <1>2, <1>3 DEF Failing
<1> QED
  BY <1>1, <1>3, <1>4

LEMMA InitOnce == Init => Once!Init
<1> SUFFICES ASSUME Init PROVE Once!Init
  OBVIOUS
<1>1. name \in [Threads -> Names]
  BY ThreadsAssumption DEF Init
<1>2. /\ Busy = [t \in Threads |-> FALSE] /\ Remembered = [f \in Names |-> 0]
      /\ Failing = [f \in Names |-> NoThread]
  BY DEF Init, Busy, Remembered, Failing, NULL, MAP_FAILED
<1> QED
  BY <1>1, <1>2 DEF Init, Once!Init, NULL

LEMMA CallIsAsk ==
  ASSUME Inv, NEW t \in Threads, Call(t) PROVE Once!Ask(t)
<1>1. /\ ~Busy[t] /\ Busy' = [Busy EXCEPT ![t] = TRUE]
      /\ Remembered' = Remembered /\ Failing' = Failing
  BY DEF Call, Goto, object, Busy, Remembered, Failing, Inv, Typed
<1>2. PICK f \in Asks[t] :
        /\ name' = [name EXCEPT ![t] = f]
        /\ excused' = [excused EXCEPT ![t] =
                          IF ptr[f] = MAP_FAILED THEN {"mmap"} ELSE {}]
  BY DEF Call
<1>3. ptr[f] = MAP_FAILED <=> Failing[f] # NoThread
  <2>1. f \in Names
    BY ThreadsAssumption
  <2>2. ptr[f] = MAP_FAILED => owner[f] # NoThread
    BY <2>1 DEF Inv, FailedInv
  <2> QED
    BY <2>1, <2>2 DEF Failing
<1> QED
  BY <1>1, <1>2, <1>3 DEF Once!Ask, Call, pages

(* NULL and MAP_FAILED are the same to who looks at what is remembered.    *)
LEMMA NothingRemembered ==
  ASSUME Inv, NEW g \in Names, NEW p \in {NULL, MAP_FAILED},
         ptr[g] \in {NULL, MAP_FAILED}, ptr' = [ptr EXCEPT ![g] = p]
  PROVE  Remembered' = Remembered
BY DEF Remembered, NULL, MAP_FAILED, Inv, Typed

LEMMA MmapIsRemember ==
  ASSUME Inv, NEW t \in Threads, Mmap(t) PROVE Once!Remember(name[t])
<1>1. /\ pc[t] = "mmap" /\ pc' = [pc EXCEPT ![t] = "return"]
      /\ ptr' = [ptr EXCEPT ![name[t]] = seen[t]]
      /\ owner' = [owner EXCEPT ![name[t]] = NoThread]
      /\ UNCHANGED <<name, excused, result, page, created>>
  BY DEF Mmap, Goto, thread, pages
<1>2. /\ name[t] \in Names /\ ptr \in [Names -> Pointers] /\ ptr[name[t]] = NULL
      /\ owner \in [Names -> Threads \cup {NoThread}]
  BY <1>1 DEF Inv, Typed, BlockInv
<1>3. seen[t] \in 1 .. created[name[t]] /\ created[name[t]] \in 0 .. MaxPages
  BY <1>1, <1>2 DEF Inv, Typed, ReadInv
<1>4. seen[t] # MAP_FAILED
  BY ONLY <1>3, LimitsAssumption DEF MAP_FAILED
<1>5. NULL # MAP_FAILED /\ NULL = 0
  BY DEF NULL, MAP_FAILED
<1>6. Remembered' = [Remembered EXCEPT ![name[t]] = seen[t]]
  BY <1>1, <1>2, <1>4 DEF Remembered
<1>7. Remembered[name[t]] = 0 /\ Failing[name[t]] = NoThread
  BY <1>2, <1>5 DEF Remembered, Failing
<1>8. Busy' = Busy /\ Busy[t]
  BY <1>1 DEF Busy, Inv, Typed
<1>9. Failing' = Failing
  <2>1. Failing'[name[t]] = Failing[name[t]]
    BY <1>1, <1>2, <1>4, <1>5 DEF Failing
  <2>2. ASSUME NEW f \in Names, f # name[t] PROVE Failing'[f] = Failing[f]
    BY <1>1, <1>2, <2>2 DEF Failing
  <2> QED
    BY <2>1, <2>2 DEF Failing
<1> QED
  BY <1>1, <1>3, <1>6, <1>7, <1>8, <1>9
     DEF Once!Remember, Once!Calling, Once!call

LEMMA OpenFailsIsCannotOpen ==
  ASSUME Inv, NEW t \in Threads, OpenFails(t) PROVE Once!CannotOpen(t)
<1>1. /\ pc[t] = "open" /\ pc' = [pc EXCEPT ![t] = "give up"]
      /\ UNCHANGED <<name, result, ptr, owner, page, created>>
  BY DEF OpenFails, Goto, thread, object, pages
<1>n. NULL = 0 /\ NULL # MAP_FAILED
  BY DEF NULL, MAP_FAILED
<1>2. name[t] \in Names /\ ptr[name[t]] = NULL
  BY <1>1 DEF Inv, Typed, BlockInv
<1>3. Busy' = Busy /\ Busy[t]
  BY <1>1 DEF Busy, Inv, Typed
<1>4. Remembered' = Remembered /\ Failing' = Failing /\ Remembered[name[t]] = 0
  BY <1>1, <1>2, <1>n DEF Remembered, Failing
<1> QED
  BY <1>1, <1>3, <1>4 DEF OpenFails, Once!CannotOpen

LEMMA MmapFailsIsCannotMap ==
  ASSUME Inv, NEW t \in Threads, MmapFails(t) PROVE Once!CannotMap(t)
<1>1. /\ pc[t] = "mmap" /\ pc' = [pc EXCEPT ![t] = "unmap"] /\ CallsMayFail
      /\ ptr' = [ptr EXCEPT ![name[t]] = MAP_FAILED]
      /\ excused' = [u \in Threads |->
           IF u \in Calling(name[t]) THEN excused[u] \cup {"mmap"} ELSE excused[u]]
      /\ UNCHANGED <<name, result, owner, page, created>>
  BY DEF MmapFails, Goto, thread, pages
<1>2. /\ name[t] \in Names /\ ptr[name[t]] = NULL /\ ptr \in [Names -> Pointers]
      /\ owner[name[t]] = t
  BY <1>1 DEF Inv, Typed, BlockInv, HoldersOwn, Holding
<1>n. NULL = 0 /\ NULL # MAP_FAILED
  BY DEF NULL, MAP_FAILED
<1>3. Remembered' = Remembered
  BY <1>1, <1>2, <1>n, NothingRemembered
<1>4. Busy' = Busy /\ Busy[t]
  BY <1>1 DEF Busy, Inv, Typed
<1>5. Once!Calling(name[t]) = Calling(name[t])
  BY DEF Once!Calling, Calling, Busy
<1>6. Failing' = [Failing EXCEPT ![name[t]] = t]
  BY <1>1, <1>2, <1>n DEF Failing
<1>7. Remembered[name[t]] = 0 /\ Failing[name[t]] = NoThread
  BY <1>2, <1>n DEF Remembered, Failing
<1> QED
  BY <1>1, <1>3, <1>4, <1>5, <1>6, <1>7 DEF Once!CannotMap

LEMMA ReturnIsAnswer ==
  ASSUME Inv, NEW t \in Threads, Return(t) PROVE Once!Answer(t)
<1>1. /\ pc[t] = "return" /\ pc' = [pc EXCEPT ![t] = "idle"]
      /\ UNCHANGED <<name, excused, ptr, owner, page, created>>
  BY DEF Return, Finish, Goto, object, pages
<1>2. PICK p \in {seen[t], ptr[name[t]]} : result' = [result EXCEPT ![t] = p]
  BY DEF Return, Finish
<1>3. /\ name[t] \in Names
      /\ seen[t] = MAP_FAILED \/ (seen[t] = ptr[name[t]] /\ seen[t] > 0)
      /\ seen[t] = MAP_FAILED => "mmap" \in excused[t]
      /\ ptr[name[t]] = MAP_FAILED => "mmap" \in excused[t]
  BY <1>1 DEF Inv, Typed, ReadInv, ExcusedInv
<1>4. p = MAP_FAILED \/ p = ptr[name[t]]
  BY <1>2, <1>3
<1>5. p \in {Remembered[name[t]], MAP_FAILED}
  BY <1>3, <1>4 DEF Remembered
<1>6. p # UNDEFINED
  <2>1. ptr[name[t]] \in {0, -1} \/ ptr[name[t]] > 0
    BY <1>3, LimitsAssumption DEF Inv, Typed, Pointers, NULL, MAP_FAILED
  <2> QED
    BY ONLY <1>4, <2>1 DEF UNDEFINED, MAP_FAILED
<1>7. p = 0 => excused[t] # {}
  <2> SUFFICES ASSUME p = 0 PROVE excused[t] # {}
    OBVIOUS
  <2>1. ~(seen[t] = ptr[name[t]] /\ seen[t] > 0)
    BY <1>2
  <2> QED
    BY <2>1, <1>3
<1>8. p = MAP_FAILED => "mmap" \in excused[t]
  BY <1>2, <1>3
<1>9. /\ Remembered' = Remembered /\ Failing[name[t]] # t
      /\ Failing' = [Failing EXCEPT ![name[t]] = IF @ = t THEN NoThread ELSE @]
  BY <1>1, OthersFail
<1>10. p \in Once!Answers(t)
  BY <1>5, <1>6, <1>7, <1>8, <1>9 DEF Once!Answers
<1> QED
  BY <1>1, <1>2, <1>9, <1>10, Answers

LEMMA GiveUpIsAnswer ==
  ASSUME Inv, NEW t \in Threads, GiveUp(t) PROVE Once!Answer(t)
<1>1. /\ pc[t] = "give up" /\ pc' = [pc EXCEPT ![t] = "idle"]
      /\ result' = [result EXCEPT ![t] = NULL]
      /\ owner' = [owner EXCEPT ![name[t]] = NoThread]
      /\ UNCHANGED <<name, excused, ptr, page, created>>
  BY DEF GiveUp, Finish, Goto, pages
<1>2. /\ name[t] \in Names /\ ptr[name[t]] = NULL
      /\ owner \in [Names -> Threads \cup {NoThread}]
  BY <1>1 DEF Inv, Typed, BlockInv
<1>n. NULL = 0 /\ NULL # MAP_FAILED /\ NULL # UNDEFINED
  BY DEF NULL, MAP_FAILED, UNDEFINED
<1>3. excused[t] # {}
  BY <1>1 DEF Inv, ExcusedInv
<1>4. \A f \in Names : ptr[f] = MAP_FAILED => owner'[f] = owner[f]
  BY <1>1, <1>2, <1>n
<1>5. /\ Remembered' = Remembered /\ Failing[name[t]] # t
      /\ Failing' = [Failing EXCEPT ![name[t]] = IF @ = t THEN NoThread ELSE @]
  BY <1>1, <1>4, OthersFail
<1>6. Remembered[name[t]] = NULL
  BY <1>2, <1>n DEF Remembered
<1>7. NULL \in Once!Answers(t)
  BY <1>2, <1>n, <1>3, <1>6 DEF Once!Answers
<1> QED
  BY <1>1, <1>5, <1>7, Answers

LEMMA ResetIsAnswer ==
  ASSUME Inv, NEW t \in Threads, ResetPointer(t) PROVE Once!Answer(t)
<1>1. /\ pc[t] = "unmap" /\ pc' = [pc EXCEPT ![t] = "idle"]
      /\ result' = [result EXCEPT ![t] = NULL]
      /\ ptr' = [ptr EXCEPT ![name[t]] = NULL]
      /\ owner' = [owner EXCEPT ![name[t]] = NoThread]
      /\ UNCHANGED <<name, excused, page, created>>
  BY DEF ResetPointer, Finish, Goto, pages
<1>2. /\ name[t] \in Names /\ ptr[name[t]] = MAP_FAILED
      /\ owner \in [Names -> Threads \cup {NoThread}] /\ owner[name[t]] = t
      /\ ptr \in [Names -> Pointers]
  BY <1>1 DEF Inv, Typed, BlockInv, HoldersOwn, Holding
<1>n. NULL = 0 /\ NULL # MAP_FAILED /\ NULL # UNDEFINED
  BY DEF NULL, MAP_FAILED, UNDEFINED
<1>3. "mmap" \in excused[t]
  BY <1>1, <1>2, <1>n DEF Inv, ExcusedInv
<1>4. Remembered' = Remembered
  BY <1>1, <1>2, <1>n, NothingRemembered
<1>5. Remembered[name[t]] = NULL
  BY <1>2, <1>n DEF Remembered
<1>6. Failing' = [Failing EXCEPT ![name[t]] = IF @ = t THEN NoThread ELSE @]
  <2>1. Failing[name[t]] = t /\ Failing'[name[t]] = NoThread
    BY <1>1, <1>2, <1>n DEF Failing
  <2>2. ASSUME NEW f \in Names, f # name[t] PROVE Failing'[f] = Failing[f]
    BY <1>1, <1>2, <1>n, <2>2 DEF Failing
  <2> QED
    BY <2>1, <2>2 DEF Failing
<1>7. NULL \in Once!Answers(t)
  BY <1>2, <1>n, <1>3, <1>5 DEF Once!Answers
<1> QED
  BY <1>1, <1>4, <1>6, <1>7, Answers

LEMMA UndefinedIsAnswer ==
  ASSUME Inv, NEW t \in Threads, AtWhileInserting(t) PROVE Once!Answer(t)
<1>1. /\ pc[t] = "at" /\ pc' = [pc EXCEPT ![t] = "idle"]
      /\ result' = [result EXCEPT ![t] = UNDEFINED]
      /\ UNCHANGED <<name, excused, ptr, owner, page, created>>
  BY DEF AtWhileInserting, Finish, Goto, object, pages
<1>2. PICK u \in Threads : pc[u] = "emplace"
  BY DEF AtWhileInserting
<1>3. name[t] # name[u] /\ ptr[name[u]] = NULL
  BY <1>1, <1>2 DEF Inv, Typed, KnownInv, Inside
<1>4. /\ name[t] \in Names /\ name[u] \in Names
      /\ UNDEFINED # 0 /\ UNDEFINED # MAP_FAILED /\ NULL = 0 /\ NULL # MAP_FAILED
  BY DEF Inv, Typed, UNDEFINED, NULL, MAP_FAILED
<1>5. Once!MeetsFirstCall(t)
  BY <1>2, <1>3, <1>4 DEF Once!MeetsFirstCall, Busy, Remembered
<1>6. /\ Remembered' = Remembered /\ Failing[name[t]] # t
      /\ Failing' = [Failing EXCEPT ![name[t]] = IF @ = t THEN NoThread ELSE @]
  BY <1>1, OthersFail
<1>7. UNDEFINED \in Once!Answers(t)
  BY <1>4, <1>5, <1>6 DEF Once!Answers
<1> QED
  BY <1>1, <1>6, <1>7, Answers

LEMMA PagesComeAndGo ==
  ASSUME Inv, NEW f \in Names, CreatePage(f) \/ RemovePage(f)
  PROVE  Once!Create(f) \/ Once!Remove(f)
<1>1. UNCHANGED <<pc, name, result, excused, ptr, owner>>
  BY DEF CreatePage, RemovePage, thread, object
<1>2. Busy' = Busy /\ Remembered' = Remembered /\ Failing' = Failing
  BY <1>1 DEF Busy, Remembered, Failing
<1>3. CASE CreatePage(f)
  BY <1>1, <1>2, <1>3 DEF CreatePage, Once!Create, Once!call
<1>4. CASE RemovePage(f)
  BY <1>1, <1>2, <1>4 DEF RemovePage, Once!Remove, Once!call
<1> QED
  BY <1>3, <1>4

LEMMA StepOnce == Inv /\ [Next]_vars => [Once!Next]_Once!pageVars
<1> SUFFICES ASSUME Inv, [Next]_vars PROVE Once!Next \/ UNCHANGED Once!pageVars
  OBVIOUS
<1>1. ASSUME NEW t \in Threads, Call(t) PROVE Once!Next
  BY <1>1, CallIsAsk DEF Once!Next
<1>2. ASSUME NEW t \in Threads, LockShared(t) PROVE UNCHANGED Once!pageVars
  BY <1>2, Silent DEF LockShared, Goto, thread, object, pages
<1>3. ASSUME NEW t \in Threads, LockUnique(t) PROVE UNCHANGED Once!pageVars
  BY <1>3, Silent DEF LockUnique, Goto, thread, object, pages
<1>4. ASSUME NEW t \in Threads, Emplace(t) PROVE UNCHANGED Once!pageVars
  BY <1>4, Silent DEF Emplace, Goto, thread, object, pages
<1>5. ASSUME NEW t \in Threads, At(t) PROVE UNCHANGED Once!pageVars
  BY <1>5, Silent DEF At, Goto, thread, object, pages
<1>6. ASSUME NEW t \in Threads, LockMutex(t) PROVE UNCHANGED Once!pageVars
  <2>1. /\ pc[t] = "lock" /\ owner[name[t]] = NoThread
        /\ owner' = [owner EXCEPT ![name[t]] = t]
        /\ pc' = [pc EXCEPT ![t] = "check again"]
        /\ UNCHANGED <<name, excused, result, ptr, page, created>>
    BY <1>6 DEF LockMutex, Goto, thread, pages
  <2>2. \A f \in Names : ptr[f] = MAP_FAILED => owner'[f] = owner[f]
    BY <2>1 DEF Inv, Typed, FailedInv
  <2> QED
    BY <2>1, <2>2, Silent
<1>7. ASSUME NEW t \in Threads, Open(t) PROVE UNCHANGED Once!pageVars
  BY <1>7, Silent DEF Open, Goto, thread, object, pages
<1>8. ASSUME NEW t \in Threads, Find(t) PROVE UNCHANGED Once!pageVars
  <2>1. PICK l \in {"at", "wlock"} : pc' = [pc EXCEPT ![t] = l]
    BY <1>8 DEF Find, Goto
  <2> QED
    BY <1>8, <2>1, Silent DEF Find, thread, object, pages
<1>9. ASSUME NEW t \in Threads, FindAgain(t) PROVE UNCHANGED Once!pageVars
  <2>1. PICK l \in {"at", "emplace"} : pc' = [pc EXCEPT ![t] = l]
    BY <1>9 DEF FindAgain, Goto
  <2> QED
    BY <1>9, <2>1, Silent DEF FindAgain, thread, object, pages
<1>10. ASSUME NEW t \in Threads, Check(t) PROVE UNCHANGED Once!pageVars
  <2>1. PICK l \in {"lock", "return"} : pc' = [pc EXCEPT ![t] = l]
    BY <1>10 DEF Check, Goto, Inv, Typed
  <2> QED
    BY <1>10, <2>1, Silent DEF Check, thread, object, pages
<1>11. ASSUME NEW t \in Threads, CheckAgain(t) PROVE UNCHANGED Once!pageVars
  <2>1. PICK l \in {"open", "return"} : pc' = [pc EXCEPT ![t] = l]
    BY <1>11 DEF CheckAgain, Goto, Inv, Typed
  <2>2. /\ pc[t] = "check again"
        /\ owner' = owner \/ owner' = [owner EXCEPT ![name[t]] = NoThread]
        /\ UNCHANGED <<name, excused, result, ptr, page, created>>
    BY <1>11 DEF CheckAgain, pages
  <2>3. /\ name[t] \in Names /\ owner[name[t]] = t
        /\ owner \in [Names -> Threads \cup {NoThread}]
    BY <2>2 DEF Inv, Typed, HoldersOwn, Holding
  <2>4. ptr[name[t]] # MAP_FAILED
    BY <2>2, <2>3, FailedIsHeld
  <2>5. \A f \in Names : ptr[f] = MAP_FAILED => owner'[f] = owner[f]
    BY <2>2, <2>3, <2>4
  <2> QED
    BY <2>1, <2>2, <2>5, Silent
<1>12. ASSUME NEW t \in Threads, Mmap(t) PROVE Once!Next
  <2>1. Once!Remember(name[t]) /\ name[t] \in Names
    BY <1>12, MmapIsRemember DEF Inv, Typed
  <2> QED
    BY <2>1 DEF Once!Next
<1>13. ASSUME NEW t \in Threads, OpenFails(t) PROVE Once!Next
  BY <1>13, OpenFailsIsCannotOpen DEF Once!Next
<1>14. ASSUME NEW t \in Threads, MmapFails(t) PROVE Once!Next
  BY <1>14, MmapFailsIsCannotMap DEF Once!Next
<1>15. ASSUME NEW t \in Threads,
              AtWhileInserting(t) \/ GiveUp(t) \/ ResetPointer(t) \/ Return(t)
       PROVE  Once!Next
  <2>1. Once!Answer(t)
    BY <1>15, UndefinedIsAnswer, GiveUpIsAnswer, ResetIsAnswer, ReturnIsAnswer
  <2> QED
    BY <2>1 DEF Once!Next
<1>16. ASSUME NEW f \in Names, CreatePage(f) \/ RemovePage(f) PROVE Once!Next
  BY <1>16, PagesComeAndGo DEF Once!Next
<1>17. CASE UNCHANGED vars
  BY <1>17 DEF vars, thread, map, object, pages, Busy, Remembered, Failing,
               Once!pageVars, Once!call
<1> QED
  BY <1>1, <1>2, <1>3, <1>4, <1>5, <1>6, <1>7, <1>8, <1>9, <1>10, <1>11, <1>12,
     <1>13, <1>14, <1>15, <1>16, <1>17 DEF Next, Step

(* For any number of threads and names, the calls that interleave are      *)
(* answered like calls that take one step: with the page that is           *)
(* remembered for all; with NULL only where nothing is, and the call's own *)
(* shm_open or an mmap during it failed; with MAP_FAILED only where an     *)
(* mmap of another thread failed during it.                                *)
THEOREM ImplementsOnce == Spec => AnswersOnce
<1>1. Inv /\ [Next]_vars => [Once!Next]_Once!pageVars
  BY StepOnce
<1> QED
  BY <1>1, InitOnce, Invariant, PTL DEF Spec, AnswersOnce, Once!Spec
=============================================================================
