-------------------------- MODULE CacheIndexProofs --------------------------
(***************************************************************************)
(* Proofs about CacheIndex, for every set of handles and threads and every *)
(* number of indices.                                                      *)
(***************************************************************************)
EXTENDS CacheIndex, TLAPS

(* Only the thread that inserts holds the mutex, and the index it has      *)
(* marked is nobody's yet.                                                 *)
Inserting ==
  /\ \A t \in Threads : at[t] = "insert" <=> mutex = t
  /\ \A t \in Threads :
       at[t] = "insert" => /\ index[t] \in Indices
                           /\ \A h \in Handles : map_index[h] # index[t]

(* A thread registers a handle that is not in the map and that no other    *)
(* thread registers.                                                       *)
Exclusive ==
  /\ \A t \in Threads : Registering(t) => map_index[handle[t]] = None
  /\ \A t, u \in Threads :
       Registering(t) /\ Registering(u) /\ t # u => handle[t] # handle[u]

IInv == TypeOK /\ Inserting /\ Exclusive /\ OneLidarPerIndex /\ NoIndexLost

LEMMA IInvInit == Init => IInv
<1> SUFFICES ASSUME Init PROVE IInv
  OBVIOUS
<1> USE IndexAssumption DEF Init
<1>1. TypeOK
  BY DEF TypeOK, Steps
<1>2. Inserting
  BY DEF Inserting
<1>3. Exclusive
  BY DEF Exclusive, Registering
<1>4. OneLidarPerIndex
  BY DEF OneLidarPerIndex
<1>5. NoIndexLost
  BY DEF NoIndexLost, Indices
<1> QED  BY <1>1, <1>2, <1>3, <1>4, <1>5 DEF IInv

(* The steps that write neither the map nor the marks.                     *)
LEMMA ReadersInv ==
  ASSUME IInv, NEW t \in Threads, NEW h \in Handles,
         \/ GetFreeIndex(t, h)
         \/ GetIndexFound(t, h)
         \/ GetIndexMissed(t, h)
         \/ NoFreeIndex(t)
         \/ FetchIndex(t)
  PROVE  IInv'
<1> USE DEF GetFreeIndex, GetIndexFound, GetIndexMissed, NoFreeIndex, FetchIndex
<1>1. at[t] # "insert" /\ at'[t] # "insert"
  BY DEF IInv, TypeOK
<1>2. \A u \in Threads : /\ at'[u] = "insert" <=> at[u] = "insert"
                         /\ u # t => /\ index'[u] = index[u]
                                     /\ at'[u] = at[u]
                                     /\ handle'[u] = handle[u]
  BY <1>1 DEF IInv, TypeOK
<1>3. UNCHANGED <<map_index, index_cache, mutex>>
  OBVIOUS
<1>4. TypeOK'
  BY DEF IInv, TypeOK, Steps
<1>5. Inserting'
  BY <1>1, <1>2, <1>3 DEF IInv, Inserting
<1>6. Exclusive'
  <2>1. at'[t] \in {"claim", "insert"} =>
          /\ map_index[handle'[t]] = None
          /\ handle'[t] = h
          /\ ReportedOnce(t, h)
    BY DEF IInv, TypeOK
  <2> QED  BY <1>2, <1>3, <2>1 DEF IInv, Exclusive, Registering, ReportedOnce
<1>7. OneLidarPerIndex'
  BY <1>3 DEF IInv, OneLidarPerIndex
<1>8. NoIndexLost'
  BY <1>1, <1>2, <1>3 DEF IInv, NoIndexLost
<1> QED  BY <1>4, <1>5, <1>6, <1>7, <1>8 DEF IInv

LEMMA ClaimInv ==
  ASSUME IInv, NEW t \in Threads, NEW i \in Indices, ClaimIndex(t, i)
  PROVE  IInv'
<1> USE DEF ClaimIndex
<1>1. \A u \in Threads : at[u] # "insert"
  BY IndexAssumption DEF IInv, Inserting
<1>2. \A u \in Threads : /\ at'[u] = "insert" <=> u = t
                         /\ u # t => index'[u] = index[u] /\ at'[u] = at[u]
  BY <1>1 DEF IInv, TypeOK
<1>3. index'[t] = i /\ \A h \in Handles : map_index[h] # i
  BY DEF IInv, TypeOK, NoIndexLost, IsFirstFree
<1>4. TypeOK'
  BY DEF IInv, TypeOK, Steps
<1>5. Inserting'
  BY <1>2, <1>3 DEF Inserting
<1>6. Exclusive'
  BY DEF IInv, TypeOK, Exclusive, Registering
<1>7. OneLidarPerIndex'
  BY DEF IInv, OneLidarPerIndex
<1>8. NoIndexLost'
  BY <1>1, <1>2, <1>3 DEF IInv, TypeOK, NoIndexLost
<1> QED  BY <1>4, <1>5, <1>6, <1>7, <1>8 DEF IInv

LEMMA InsertInv ==
  ASSUME IInv, NEW t \in Threads, InsertIndex(t)
  PROVE  IInv'
<1> USE DEF InsertIndex
<1> DEFINE h == handle[t]
           i == index[t]
<1>1. /\ h \in Handles /\ i \in Indices /\ i # None
      /\ map_index[h] = None
      /\ \A g \in Handles : map_index[g] # i
  BY IndexAssumption DEF IInv, TypeOK, Inserting, Exclusive, Registering, Indices
<1>2. map_index'[h] = i /\ \A g \in Handles : g # h => map_index'[g] = map_index[g]
  BY <1>1 DEF IInv, TypeOK
<1>3. \A u \in Threads : at'[u] # "insert" /\ (u # t => at[u] # "insert" /\ at'[u] = at[u])
  BY DEF IInv, TypeOK, Inserting
<1>4. at'[t] = "idle"
  BY DEF IInv, TypeOK
<1>5. TypeOK'
  BY <1>1 DEF IInv, TypeOK, Steps
<1>6. Inserting'
  BY <1>3, IndexAssumption DEF Inserting
<1>7. Exclusive'
  <2>1. \A u \in Threads : Registering(u)' => u # t /\ Registering(u)
    BY <1>3, <1>4 DEF Registering
  <2>2. \A u \in Threads : u # t /\ Registering(u) => handle[u] # h
    BY DEF IInv, Exclusive, Registering
  <2>3. \A u \in Threads : handle[u] \in Handles
    BY DEF IInv, TypeOK
  <2> QED  BY <1>2, <2>1, <2>2, <2>3 DEF IInv, Exclusive
<1>8. OneLidarPerIndex'
  BY <1>1, <1>2 DEF IInv, OneLidarPerIndex
<1>9. NoIndexLost'
  <2> SUFFICES ASSUME NEW j \in Indices
               PROVE  index_cache[j] <=> \E g \in Handles : map_index'[g] = j
    BY <1>3 DEF NoIndexLost
  <2>1. CASE j = i
    <3>1. index_cache[i]
      BY <1>1 DEF IInv, NoIndexLost
    <3> QED  BY <1>1, <1>2, <2>1, <3>1
  <2>2. CASE j # i
    <3>1. index_cache[j] <=> \E g \in Handles : map_index[g] = j
      BY <1>3, <2>2 DEF IInv, NoIndexLost
    <3>2. None # j
      BY IndexAssumption DEF Indices
    <3> QED  BY <1>1, <1>2, <2>2, <3>1, <3>2
  <2> QED  BY <2>1, <2>2
<1> QED  BY <1>5, <1>6, <1>7, <1>8, <1>9 DEF IInv

LEMMA IInvNext == IInv /\ [Next]_vars => IInv'
<1> SUFFICES ASSUME IInv, [Next]_vars PROVE IInv'
  OBVIOUS
<1>1. ASSUME NEW t \in Threads, NEW h \in Handles,
             GetFreeIndex(t, h) \/ GetIndexFound(t, h) \/ GetIndexMissed(t, h)
      PROVE  IInv'
  BY <1>1, ReadersInv
<1>2. ASSUME NEW t \in Threads, NoFreeIndex(t) \/ FetchIndex(t)
      PROVE  IInv'
  <2>1. handle[t] \in Handles
    BY DEF IInv, TypeOK
  <2> QED  BY <1>2, <2>1, ReadersInv
<1>3. ASSUME NEW t \in Threads, NEW i \in Indices, ClaimIndex(t, i)
      PROVE  IInv'
  BY <1>3, ClaimInv
<1>4. ASSUME NEW t \in Threads, InsertIndex(t)
      PROVE  IInv'
  BY <1>4, InsertInv
<1>5. CASE UNCHANGED vars
  BY <1>5 DEF vars, IInv, TypeOK, Inserting, Exclusive, Registering,
              OneLidarPerIndex, NoIndexLost
<1> QED  BY <1>1, <1>2, <1>3, <1>4, <1>5 DEF Next

-----------------------------------------------------------------------------
(* The invariant holds in every reachable state.                           *)
THEOREM Invariance == Spec => []IInv
  BY IInvInit, IInvNext, PTL DEF Spec

(* No two lidars ever share an index.                                      *)
THEOREM IndicesDistinct == Spec => []OneLidarPerIndex
<1>1. IInv => OneLidarPerIndex
  BY DEF IInv
<1> QED  BY <1>1, Invariance, PTL

(* Every marked index belongs to a lidar that has it or is getting it.     *)
THEOREM MarksExact == Spec => []NoIndexLost
<1>1. IInv => NoIndexLost
  BY DEF IInv
<1> QED  BY <1>1, Invariance, PTL

(* Every variable keeps its type.                                          *)
THEOREM TypeCorrect == Spec => []TypeOK
<1>1. IInv => TypeOK
  BY DEF IInv
<1> QED  BY <1>1, Invariance, PTL

(* An index once given is never changed.                                   *)
THEOREM IndexNeverChanges == Spec => IndexStable
<1>1. IInv /\ [Next]_vars =>
        [\A h \in Handles : map_index[h] # None => map_index'[h] = map_index[h]]_vars
  <2> SUFFICES ASSUME IInv, Next,
                      NEW h \in Handles, map_index[h] # None
               PROVE  map_index'[h] = map_index[h]
    OBVIOUS
  <2>1. ASSUME NEW t \in Threads, InsertIndex(t)
        PROVE  map_index'[h] = map_index[h]
    <3>1. handle[t] # h
      BY <2>1 DEF InsertIndex, IInv, Exclusive, Registering
    <3> QED  BY <2>1, <3>1 DEF InsertIndex, IInv, TypeOK
  <2> QED  BY <2>1 DEF Next, GetFreeIndex, GetIndexFound, GetIndexMissed,
                       ClaimIndex, NoFreeIndex, FetchIndex
<1> QED  BY <1>1, Invariance, PTL DEF Spec, IndexStable
=============================================================================
