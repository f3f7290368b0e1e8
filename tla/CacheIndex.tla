----------------------------- MODULE CacheIndex -----------------------------
(***************************************************************************)
(* CacheIndex gives each lidar, known by its handle, the index of its      *)
(* LidarDevice.  Lidars are registered by GetFreeIndex, from               *)
(* LdsLidar::InitLivoxLidar and later from the SDK's report of an unknown  *)
(* lidar; every other thread looks them up by GetIndex for each frame, IMU *)
(* sample and answer.                                                      *)
(*                                                                         *)
(* GetFreeIndex takes index_mutex_ twice, once to look the handle up and   *)
(* once to give it an index, and GetIndex searches the map before it takes *)
(* the mutex.  Searching a map while another thread inserts into it is     *)
(* undefined: here the search may then miss a handle that is in the map.   *)
(***************************************************************************)
EXTENDS Naturals

CONSTANTS Handles,       \* the handles (addresses) of lidars
          Threads,       \* the threads that call CacheIndex
          MaxLidars,     \* kMaxSourceLidar
          None           \* no index, no thread

Indices == 0 .. (MaxLidars - 1)

ASSUME IndexAssumption == /\ MaxLidars \in Nat
                          /\ None \notin Threads
                          /\ None \notin Nat

VARIABLES
  map_index,    \* the index of each handle, None for those not in the map
  index_cache,  \* index_cache[i]: whether index i was given away
  mutex,        \* the thread that holds index_mutex_, or None
  at,           \* at[t]: where thread t is
  handle,       \* handle[t]: the handle it asks for
  index         \* index[t]: the index it got last

vars == <<map_index, index_cache, mutex, at, handle, index>>

Steps == {"idle", "claim", "insert", "fetch"}

TypeOK == /\ map_index \in [Handles -> Indices \cup {None}]
          /\ index_cache \in [Indices -> BOOLEAN]
          /\ mutex \in Threads \cup {None}
          /\ at \in [Threads -> Steps]
          /\ handle \in [Threads -> Handles]
          /\ index \in [Threads -> Indices \cup {None}]

Init == /\ map_index = [h \in Handles |-> None]
        /\ index_cache = [i \in Indices |-> FALSE]
        /\ mutex = None
        /\ at = [t \in Threads |-> "idle"]
        /\ handle \in [Threads -> Handles]
        /\ index = [t \in Threads |-> None]

Registering(t) == at[t] \in {"claim", "insert"}

(* The SDK reports a lidar from one thread at a time, so no two threads    *)
(* register the same handle together.                                      *)
ReportedOnce(t, h) == \A u \in Threads \ {t} : ~(Registering(u) /\ handle[u] = h)

-----------------------------------------------------------------------------
(* Mutant of GetFreeIndex: the handle is not looked up first.              *)
GetFreeIndexBlindly(t, h) ==
  /\ at[t] = "idle"
  /\ ReportedOnce(t, h)
  /\ mutex = None
  /\ handle' = [handle EXCEPT ![t] = h]
  /\ at' = [at EXCEPT ![t] = "claim"]
  /\ UNCHANGED <<map_index, index_cache, mutex, index>>

(* GetFreeIndex, its first locked block.                                   *)
GetFreeIndex(t, h) ==
  /\ at[t] = "idle"
  /\ ReportedOnce(t, h)
  /\ mutex = None
  /\ handle' = [handle EXCEPT ![t] = h]
  /\ IF map_index[h] # None
       THEN /\ index' = [index EXCEPT ![t] = map_index[h]]
            /\ UNCHANGED at
       ELSE /\ at' = [at EXCEPT ![t] = "claim"]
            /\ UNCHANGED index
  /\ UNCHANGED <<map_index, index_cache, mutex>>

(* Mutant of IsFirstFree: marked indices are not passed over.              *)
IsAnyIndex(i) == \A j \in Indices : j < i => index_cache[j]

(* Its second locked block: the first free index is marked ...             *)
IsFirstFree(i) == ~index_cache[i] /\ \A j \in Indices : j < i => index_cache[j]

(* Mutant of ClaimIndex: the index is not marked.                          *)
ClaimUnmarked(t, i) ==
  /\ at[t] = "claim"
  /\ mutex = None
  /\ IsFirstFree(i)
  /\ mutex' = t
  /\ index' = [index EXCEPT ![t] = i]
  /\ at' = [at EXCEPT ![t] = "insert"]
  /\ UNCHANGED <<map_index, index_cache, handle>>

ClaimIndex(t, i) ==
  /\ at[t] = "claim"
  /\ mutex = None
  /\ IsFirstFree(i)
  /\ mutex' = t
  /\ index_cache' = [index_cache EXCEPT ![i] = TRUE]
  /\ index' = [index EXCEPT ![t] = i]
  /\ at' = [at EXCEPT ![t] = "insert"]
  /\ UNCHANGED <<map_index, handle>>

(* ... and put into the map.                                               *)
InsertIndex(t) ==
  /\ at[t] = "insert"
  /\ map_index' = [map_index EXCEPT ![handle[t]] = index[t]]
  /\ mutex' = None
  /\ at' = [at EXCEPT ![t] = "idle"]
  /\ UNCHANGED <<index_cache, handle, index>>

(* Mutant of NoFreeIndex: the loop's end is taken for an index.            *)
NoFreeIndexOverrun(t) ==
  /\ at[t] = "claim"
  /\ mutex = None
  /\ \A i \in Indices : index_cache[i]
  /\ index' = [index EXCEPT ![t] = MaxLidars]
  /\ at' = [at EXCEPT ![t] = "idle"]
  /\ UNCHANGED <<map_index, index_cache, mutex, handle>>

NoFreeIndex(t) ==
  /\ at[t] = "claim"
  /\ mutex = None
  /\ \A i \in Indices : index_cache[i]
  /\ index' = [index EXCEPT ![t] = None]
  /\ at' = [at EXCEPT ![t] = "idle"]
  /\ UNCHANGED <<map_index, index_cache, mutex, handle>>

(* GetIndex: the search without the mutex finds the handle ...             *)
GetIndexFound(t, h) ==
  /\ at[t] = "idle"
  /\ map_index[h] # None
  /\ handle' = [handle EXCEPT ![t] = h]
  /\ at' = [at EXCEPT ![t] = "fetch"]
  /\ UNCHANGED <<map_index, index_cache, mutex, index>>

(* ... or does not, or misses it because of an insertion under way.        *)
GetIndexMissed(t, h) ==
  /\ at[t] = "idle"
  /\ map_index[h] = None \/ mutex # None
  /\ handle' = [handle EXCEPT ![t] = h]
  /\ index' = [index EXCEPT ![t] = None]
  /\ UNCHANGED <<map_index, index_cache, mutex, at>>

FetchIndex(t) ==
  /\ at[t] = "fetch"
  /\ mutex = None
  /\ index' = [index EXCEPT ![t] = map_index[handle[t]]]
  /\ at' = [at EXCEPT ![t] = "idle"]
  /\ UNCHANGED <<map_index, index_cache, mutex, handle>>

Next == \E t \in Threads :
          \/ \E h \in Handles : \/ GetFreeIndex(t, h)
                                \/ GetIndexFound(t, h)
                                \/ GetIndexMissed(t, h)
          \/ \E i \in Indices : ClaimIndex(t, i)
          \/ InsertIndex(t)
          \/ NoFreeIndex(t)
          \/ FetchIndex(t)

Spec == Init /\ [][Next]_vars

-----------------------------------------------------------------------------
(* Properties.                                                             *)

(* Two lidars never share a LidarDevice, though the handle is looked up    *)
(* under one lock and given an index under another (cache_index.cpp:28,37).*)
OneLidarPerIndex ==
  \A g, h \in Handles : map_index[g] # None /\ g # h => map_index[g] # map_index[h]

(* An index is marked exactly when a lidar has it or is about to get it:   *)
(* the thirty indices are not used up by repeated reports.                 *)
NoIndexLost ==
  \A i \in Indices :
    index_cache[i] <=> \/ \E h \in Handles : map_index[h] = i
                       \/ \E t \in Threads : at[t] = "insert" /\ index[t] = i

(* A lidar keeps its index for ever, so the configuration, the queues and  *)
(* the publishers found through it stay the same lidar's.                  *)
IndexStable ==
  [][\A h \in Handles : map_index[h] # None => map_index'[h] = map_index[h]]_vars
=============================================================================
