-------------------------- MODULE ImuPipelineProofs --------------------------
(***************************************************************************)
(* Proofs about the hand-over of IMU samples of ImuPipeline, for every     *)
(* number of lidars and of SDK threads.                                    *)
(***************************************************************************)
EXTENDS ImuPipeline, FiniteSetTheorems, TLAPS

(* The samples in a queue and those about to be pushed are within the      *)
(* bound on arrivals.                                                      *)
Room == \A l \in Lidars : queue[l] + Cardinality(Arriving(l)) <= MaxQueue

FreshSampling == \A l \in Lidars : l \notin sampling => fresh[l] = 0

(* Only the poll thread pops, so the sample it saw is still there.         *)
PopHasSample == PollAt("pop") => queue[poll.lidar] > 0

(* Somebody will look at the queue of l: a signal is pending, a thread has *)
(* pushed to l and not yet decided whether to signal, the scan of the poll *)
(* thread has yet to pass l, or the poll thread is on its way out.         *)
Noticed(l) ==
  \/ count > 0
  \/ \E t \in Sdk : sdk[t].lidar = l /\ sdk[t].at \in {"empty", "count", "signal"}
  \/ poll.lidar <= l /\ poll.at \in {"scan", "empty", "pop"}
  \/ request_exit /\ ~PollAt("wait")

AllNoticed == \A l \in Lidars : fresh[l] = 0 \/ Noticed(l)

IInv == /\ TypeOK
        /\ Room
        /\ FreshSampling
        /\ PopHasSample
        /\ SignalBound
        /\ AllNoticed

(* Every set of threads is finite.                                         *)
LEMMA ThreadsFinite ==
  ASSUME NEW S \in SUBSET Sdk
  PROVE  IsFiniteSet(S) /\ Cardinality(S) \in Nat /\ Cardinality(S) <= Cardinality(Sdk)
<1> QED  BY ImuAssumption, FS_Subset, FS_CardinalityType

(* A set of threads that gains, or loses, one.                             *)
LEMMA ThreadJoins ==
  ASSUME NEW S \in SUBSET Sdk, NEW t \in Sdk, t \notin S
  PROVE  Cardinality(S \cup {t}) = Cardinality(S) + 1
<1> QED  BY ThreadsFinite, FS_AddElement

LEMMA ThreadLeaves ==
  ASSUME NEW S \in SUBSET Sdk, NEW t \in S
  PROVE  Cardinality(S \ {t}) = Cardinality(S) - 1
<1> QED  BY ThreadsFinite, FS_RemoveElement

LEMMA Sizes ==
  /\ Cardinality(Sdk) \in Nat
  /\ Cardinality(Signalling) \in Nat
  /\ \A l \in Lidars : Cardinality(Arriving(l)) \in Nat
<1>1. Signalling \in SUBSET Sdk /\ \A l \in Lidars : Arriving(l) \in SUBSET Sdk
  BY DEF Signalling, Arriving
<1> QED  BY <1>1, ThreadsFinite, ImuAssumption, FS_CardinalityType

LEMMA IInvInit == Init => IInv
<1> SUFFICES ASSUME Init PROVE IInv
  OBVIOUS
<1>1. 0 \in Lidars
  BY ImuAssumption DEF Lidars
<1>2. {request_exit, exit_signal, traffic} \subseteq BOOLEAN
  BY DEF Init
<1>3. TypeOK
  BY <1>1, <1>2, ImuAssumption DEF Init, TypeOK, SdkSteps, PollSteps
<1>4. Signalling = {} /\ \A l \in Lidars : Arriving(l) = {}
  BY DEF Init, Signalling, SdkAt, Arriving
<1>5. Cardinality(Signalling) = 0 /\ \A l \in Lidars : Cardinality(Arriving(l)) = 0
  BY <1>4, FS_EmptySet
<1>6. Room /\ SignalBound
  BY <1>5, Sizes, ImuAssumption DEF Init, Room, SignalBound
<1>7. FreshSampling /\ PopHasSample /\ AllNoticed
  BY DEF Init, FreshSampling, PopHasSample, PollAt, AllNoticed
<1> QED  BY <1>3, <1>6, <1>7 DEF IInv

-----------------------------------------------------------------------------
(* What an action leaves alone.                                            *)

LEMMA ThreadsUntouched ==
  ASSUME UNCHANGED sdk
  PROVE  Signalling' = Signalling /\ \A l \in Lidars : Arriving(l)' = Arriving(l)
<1> QED  BY DEF Signalling, SdkAt, Arriving

LEMMA SlotsUntouched ==
  ASSUME IInv, UNCHANGED <<queue, count, sdk>>
  PROVE  (Room /\ SignalBound)'
<1> QED  BY ThreadsUntouched DEF IInv, Room, SignalBound

(* A thread on its way from the push to the signal.                        *)
LEMMA DecidingThread ==
  ASSUME IInv, NEW t \in Sdk, NEW step \in SdkSteps, sdk[t].at # "push",
         SdkTo(t, step)
  PROVE  /\ sdk' \in [Sdk -> [at : SdkSteps, lidar : Lidars]]
         /\ \A l \in Lidars : step # "push" => Arriving(l)' = Arriving(l)
         /\ step = "signal" => Signalling' = Signalling \cup {t}
         /\ step # "signal" => Signalling' = Signalling \ {t}
<1>1. sdk' \in [Sdk -> [at : SdkSteps, lidar : Lidars]]
  BY DEF IInv, TypeOK, SdkTo
<1>2. \A l \in Lidars : step # "push" => Arriving(l)' = Arriving(l)
  BY DEF IInv, TypeOK, SdkTo, Arriving
<1>3. \A u \in Sdk : sdk'[u].at = IF u = t THEN step ELSE sdk[u].at
  BY DEF IInv, TypeOK, SdkTo
<1>4. step = "signal" => Signalling' = Signalling \cup {t}
  BY <1>3 DEF Signalling, SdkAt
<1>5. step # "signal" => Signalling' = Signalling \ {t}
  BY <1>3 DEF Signalling, SdkAt
<1> QED  BY <1>1, <1>2, <1>4, <1>5

(* The scan goes on to every lidar beyond the one it looks at.             *)
LEMMA NextLidarFacts ==
  ASSUME TypeOK, NextLidar
  PROVE  /\ poll' \in [at : PollSteps, lidar : Lidars]
         /\ poll'.at \in {"scan", "exit_signal"}
         /\ \A l \in Lidars : poll.lidar < l => /\ poll'.at = "scan"
                                               /\ poll'.lidar <= l
<1>1. poll.lidar \in Lidars
  BY DEF TypeOK
<1>2. 0 \in Lidars
  BY ImuAssumption DEF Lidars
<1>3. CASE poll.lidar + 1 < LidarCount
  <2>1. poll.lidar + 1 \in Lidars
    BY <1>1, <1>3, ImuAssumption DEF Lidars
  <2>2. poll' = [at |-> "scan", lidar |-> poll.lidar + 1]
    BY <1>3 DEF NextLidar, PollTo
  <2> QED  BY <1>1, <2>1, <2>2 DEF Lidars, PollSteps
<1>4. CASE ~(poll.lidar + 1 < LidarCount)
  <2>1. poll' = [at |-> "exit_signal", lidar |-> 0]
    BY <1>4 DEF NextLidar, PollTo
  <2> QED  BY <1>1, <1>2, <1>4, <2>1, ImuAssumption DEF Lidars, PollSteps
<1> QED  BY <1>3, <1>4

(* The scan may leave a lidar without fresh samples, and any lidar once an *)
(* exit was requested.                                                     *)
LEMMA PassedOver ==
  ASSUME IInv, NextLidar, fresh[poll.lidar] = 0 \/ request_exit,
         UNCHANGED <<fresh, count, sdk, request_exit>>
  PROVE  AllNoticed'
<1> SUFFICES ASSUME NEW l \in Lidars
             PROVE  fresh[l] = 0 \/ Noticed(l)'
  BY DEF AllNoticed
<1>1. CASE request_exit
  BY <1>1, NextLidarFacts DEF IInv, Noticed, PollAt
<1>2. CASE l = poll.lidar /\ ~request_exit
  BY <1>2
<1>3. CASE l # poll.lidar /\ ~request_exit
  <2>1. l \in Int /\ poll.lidar \in Int
    BY ImuAssumption DEF IInv, TypeOK, Lidars
  <2>2. CASE poll.lidar < l
    BY <2>2, NextLidarFacts DEF IInv, Noticed
  <2>3. CASE l < poll.lidar
    BY <1>3, <2>1, <2>3 DEF IInv, AllNoticed, Noticed
  <2> QED  BY <1>3, <2>1, <2>2, <2>3
<1> QED  BY <1>1, <1>2, <1>3

-----------------------------------------------------------------------------
(* One lemma for each action.                                              *)

LEMMA StorageImuDataKeeps ==
  ASSUME NEW t \in Sdk, NEW l \in Lidars, IInv, StorageImuData(t, l)
  PROVE  IInv'
<1>1. TypeOK'
  BY DEF IInv, TypeOK, StorageImuData, SdkSteps, flags
<1>2. \A u \in Sdk : sdk'[u] = IF u = t THEN [at |-> "push", lidar |-> l] ELSE sdk[u]
  BY DEF IInv, TypeOK, StorageImuData
<1>3. sdk[t].at = "idle"
  BY DEF StorageImuData, SdkAt
<1>4. Room'
  <2> SUFFICES ASSUME NEW k \in Lidars
               PROVE  queue[k] + Cardinality(Arriving(k)') <= MaxQueue
    BY DEF Room, StorageImuData
  <2>1. CASE k = l
    <3>1. Arriving(k)' = Arriving(k) \cup {t} /\ t \notin Arriving(k)
      BY <1>2, <1>3, <2>1 DEF Arriving
    <3>2. Cardinality(Arriving(k)') = Cardinality(Arriving(k)) + 1
      BY <3>1, ThreadJoins DEF Arriving
    <3> QED  BY <2>1, <3>2, Sizes, ImuAssumption DEF StorageImuData, IInv, TypeOK
  <2>2. CASE k # l
    <3>1. Arriving(k)' = Arriving(k)
      BY <1>2, <1>3, <2>2 DEF Arriving
    <3> QED  BY <3>1 DEF IInv, Room
  <2> QED  BY <2>1, <2>2
<1>5. SignalBound'
  <2>1. Signalling' = Signalling
    BY <1>2, <1>3 DEF Signalling, SdkAt
  <2> QED  BY <2>1 DEF IInv, SignalBound, StorageImuData
<1>6. (FreshSampling /\ PopHasSample)'
  BY DEF IInv, StorageImuData, FreshSampling, PopHasSample, PollAt, flags
<1>7. AllNoticed'
  BY <1>2, <1>3 DEF IInv, StorageImuData, AllNoticed, Noticed, PollAt, flags
<1> QED  BY <1>1, <1>4, <1>5, <1>6, <1>7 DEF IInv

LEMMA PushKeeps ==
  ASSUME NEW t \in Sdk, IInv, Push(t)
  PROVE  IInv'
<1>1. PICK l \in Lidars : sdk[t] = [at |-> "push", lidar |-> l]
  BY DEF IInv, TypeOK, Push, SdkAt
<1>2. \A u \in Sdk : sdk'[u] = IF u = t THEN [at |-> "empty", lidar |-> l] ELSE sdk[u]
  BY <1>1 DEF IInv, TypeOK, Push, SdkTo
<1>3. Arriving(l)' = Arriving(l) \ {t} /\ t \in Arriving(l)
  BY <1>1, <1>2 DEF Arriving
<1>4. Cardinality(Arriving(l)') = Cardinality(Arriving(l)) - 1
  BY <1>3, ThreadLeaves DEF Arriving
<1>5. Cardinality(Arriving(l)) \in Nat /\ Cardinality(Arriving(l)') \in Nat
  <2>1. Arriving(l) \in SUBSET Sdk /\ Arriving(l)' \in SUBSET Sdk
    BY DEF Arriving
  <2> QED  BY <2>1, ThreadsFinite
<1>6. \A k \in Lidars : queue'[k] = IF k = l THEN queue[k] + 1 ELSE queue[k]
  BY <1>1 DEF IInv, TypeOK, Push
<1>7. \A k \in Lidars :
        fresh'[k] = IF k = l /\ l \in sampling THEN fresh[k] + 1 ELSE fresh[k]
  BY <1>1 DEF IInv, TypeOK, Push
<1>8. Room'
  <2> SUFFICES ASSUME NEW k \in Lidars
               PROVE  queue'[k] + Cardinality(Arriving(k)') <= MaxQueue
    BY DEF Room
  <2>1. CASE k = l
    BY <1>1, <1>4, <1>5, <1>6, <2>1, ImuAssumption DEF IInv, TypeOK, Room
  <2>2. CASE k # l
    <3>1. Arriving(k)' = Arriving(k)
      BY <1>1, <1>2, <2>2 DEF Arriving
    <3> QED  BY <3>1, <1>6, <2>2 DEF IInv, Room
  <2> QED  BY <2>1, <2>2
<1>9. TypeOK'
  <2>1. queue' \in [Lidars -> 0 .. MaxQueue]
    BY <1>1, <1>3, <1>4, <1>5, <1>6, ImuAssumption DEF IInv, TypeOK, Room, Push
  <2>2. fresh' \in [Lidars -> 0 .. MaxQueue] /\ \A k \in Lidars : fresh'[k] <= queue'[k]
    BY <1>1, <1>6, <1>7, <2>1, ImuAssumption DEF IInv, TypeOK, Push
  <2>3. sdk' \in [Sdk -> [at : SdkSteps, lidar : Lidars]]
    BY DEF IInv, TypeOK, Push, SdkTo, SdkSteps
  <2> QED  BY <2>1, <2>2, <2>3 DEF IInv, TypeOK, Push, flags
<1>10. SignalBound'
  <2>1. Signalling' = Signalling
    BY <1>1, <1>2 DEF Signalling, SdkAt
  <2> QED  BY <2>1 DEF IInv, SignalBound, Push
<1>11. FreshSampling'
  BY <1>1, <1>7 DEF IInv, FreshSampling, Push, flags
<1>12. PopHasSample'
  BY <1>6, ImuAssumption DEF IInv, TypeOK, PopHasSample, PollAt, Push
<1>13. AllNoticed'
  <2> SUFFICES ASSUME NEW k \in Lidars, fresh'[k] # 0
               PROVE  Noticed(k)'
    BY DEF AllNoticed
  <2>1. CASE k = l
    BY <1>2, <2>1 DEF Noticed
  <2>2. CASE k # l
    <3>1. Noticed(k)
      BY <1>7, <2>2 DEF IInv, AllNoticed
    <3> QED  BY <1>1, <1>2, <2>2, <3>1 DEF Noticed, PollAt, Push, flags
  <2> QED  BY <2>1, <2>2
<1> QED  BY <1>8, <1>9, <1>10, <1>11, <1>12, <1>13 DEF IInv

LEMMA CheckEmptyKeeps ==
  ASSUME NEW t \in Sdk, IInv, CheckEmpty(t)
  PROVE  IInv'
<1> DEFINE step == IF queue[sdk[t].lidar] = 0 THEN "idle" ELSE "count"
<1>1. step \in SdkSteps /\ sdk[t].at = "empty" /\ SdkTo(t, step)
  BY DEF CheckEmpty, SdkAt, SdkSteps
<1>2. \A u \in Sdk : sdk'[u] = IF u = t THEN [sdk[u] EXCEPT !.at = step] ELSE sdk[u]
  BY <1>1 DEF IInv, TypeOK, SdkTo
<1>3. Signalling' = Signalling /\ \A l \in Lidars : Arriving(l)' = Arriving(l)
  BY <1>1, DecidingThread DEF Signalling, SdkAt
<1>4. TypeOK'
  BY <1>1, DecidingThread DEF IInv, TypeOK, CheckEmpty, flags
<1>5. (Room /\ SignalBound /\ FreshSampling /\ PopHasSample)'
  BY <1>3 DEF IInv, Room, SignalBound, FreshSampling, PopHasSample, PollAt,
              CheckEmpty, flags
<1>6. AllNoticed'
  <2> SUFFICES ASSUME NEW l \in Lidars, fresh[l] # 0
               PROVE  Noticed(l)'
    BY DEF AllNoticed, CheckEmpty
  <2>1. Noticed(l) /\ queue[l] # 0
    BY ImuAssumption DEF IInv, TypeOK, AllNoticed
  <2> QED  BY <1>1, <1>2, <2>1 DEF Noticed, PollAt, CheckEmpty, flags, IInv, TypeOK
<1> QED  BY <1>4, <1>5, <1>6 DEF IInv

LEMMA CheckCountKeeps ==
  ASSUME NEW t \in Sdk, IInv, CheckCount(t)
  PROVE  IInv'
<1> DEFINE step == IF count <= 0 THEN "signal" ELSE "idle"
<1>1. step \in SdkSteps /\ sdk[t].at = "count" /\ SdkTo(t, step)
  BY DEF CheckCount, SdkAt, SdkSteps
<1>2. \A u \in Sdk : sdk'[u] = IF u = t THEN [sdk[u] EXCEPT !.at = step] ELSE sdk[u]
  BY <1>1 DEF IInv, TypeOK, SdkTo
<1>3. \A l \in Lidars : Arriving(l)' = Arriving(l)
  BY <1>1, DecidingThread
<1>4. TypeOK'
  BY <1>1, DecidingThread DEF IInv, TypeOK, CheckCount, flags
<1>5. (Room /\ FreshSampling /\ PopHasSample)'
  BY <1>3 DEF IInv, Room, FreshSampling, PopHasSample, PollAt, CheckCount,
              flags
<1>6. SignalBound'
  <2>1. CASE count = 0
    <3>1. Signalling' \in SUBSET Sdk
      BY DEF Signalling
    <3> QED  BY <2>1, <3>1, ThreadsFinite, Sizes DEF SignalBound, CheckCount
  <2>2. CASE count # 0
    <3>1. Signalling' = Signalling
      BY <1>1, <2>2, DecidingThread DEF Signalling, SdkAt, IInv, TypeOK
    <3> QED  BY <3>1 DEF IInv, SignalBound, CheckCount
  <2> QED  BY <2>1, <2>2
<1>7. AllNoticed'
  <2> SUFFICES ASSUME NEW l \in Lidars, Noticed(l)
               PROVE  Noticed(l)'
    BY DEF AllNoticed, CheckCount, IInv
  <2>1. CASE count > 0
    BY <2>1 DEF Noticed, CheckCount
  <2>2. CASE ~(count > 0)
    <3>1. step = "signal"
      BY <2>2 DEF IInv, TypeOK
    <3>2. \A u \in Sdk : /\ sdk'[u].lidar = sdk[u].lidar
                         /\ sdk'[u].at = IF u = t THEN "signal" ELSE sdk[u].at
      BY <1>2, <3>1 DEF IInv, TypeOK
    <3> QED  BY <1>1, <2>2, <3>2 DEF Noticed, PollAt, CheckCount, flags
  <2> QED  BY <2>1, <2>2
<1> QED  BY <1>4, <1>5, <1>6, <1>7 DEF IInv

LEMMA SignalKeeps ==
  ASSUME NEW t \in Sdk, IInv, Signal(t)
  PROVE  IInv'
<1>1. sdk[t].at = "signal" /\ SdkTo(t, "idle") /\ "idle" \in SdkSteps
  BY DEF Signal, SdkAt, SdkSteps
<1>2. Signalling' = Signalling \ {t} /\ t \in Signalling
  BY <1>1, DecidingThread DEF Signalling, SdkAt
<1>3. Cardinality(Signalling') = Cardinality(Signalling) - 1
  BY <1>2, ThreadLeaves DEF Signalling
<1>4. SignalBound'
  BY <1>3, Sizes DEF IInv, TypeOK, SignalBound, Signal
<1>5. TypeOK'
  BY <1>1, DecidingThread DEF IInv, TypeOK, Signal, flags
<1>6. (Room /\ FreshSampling /\ PopHasSample)'
  BY <1>1, DecidingThread
  DEF IInv, Room, FreshSampling, PopHasSample, PollAt, Signal, flags
<1>7. AllNoticed'
  BY DEF AllNoticed, Noticed, Signal, IInv, TypeOK
<1> QED  BY <1>4, <1>5, <1>6, <1>7 DEF IInv

LEMMA CheckExitSignalKeeps ==
  ASSUME IInv, CheckExitSignal
  PROVE  IInv'
<1>1. TypeOK'
  BY ImuAssumption
  DEF IInv, TypeOK, CheckExitSignal, PollAt, PollTo, PollSteps, Lidars, flags
<1>2. (FreshSampling /\ PopHasSample)'
  BY DEF IInv, FreshSampling, PopHasSample, CheckExitSignal, PollAt, PollTo, flags
<1>3. AllNoticed'
  BY DEF IInv, AllNoticed, Noticed, CheckExitSignal, PollAt, PollTo, flags
<1> QED  BY <1>1, <1>2, <1>3, SlotsUntouched DEF IInv, CheckExitSignal

LEMMA CheckRequestExitKeeps ==
  ASSUME IInv, CheckRequestExit
  PROVE  IInv'
<1>1. TypeOK'
  BY ImuAssumption
  DEF IInv, TypeOK, CheckRequestExit, PollAt, PollTo, PollSteps, Lidars, flags
<1>2. (FreshSampling /\ PopHasSample)'
  BY DEF IInv, FreshSampling, PopHasSample, CheckRequestExit, PollAt, PollTo, flags
<1>3. AllNoticed'
  BY DEF IInv, AllNoticed, Noticed, CheckRequestExit, PollAt, PollTo, flags
<1> QED  BY <1>1, <1>2, <1>3, SlotsUntouched DEF IInv, CheckRequestExit

LEMMA WaitKeeps ==
  ASSUME IInv, Wait
  PROVE  IInv'
<1>1. TypeOK'
  BY ImuAssumption
  DEF IInv, TypeOK, Wait, PollAt, PollTo, PollSteps, Lidars, flags
<1>2. (Room /\ SignalBound)'
  BY ThreadsUntouched, Sizes DEF IInv, TypeOK, Room, SignalBound, Wait
<1>3. (FreshSampling /\ PopHasSample)'
  BY DEF IInv, FreshSampling, PopHasSample, Wait, PollAt, PollTo, flags
<1>4. AllNoticed'
  BY DEF AllNoticed, Noticed, Wait, PollTo, Lidars
<1> QED  BY <1>1, <1>2, <1>3, <1>4 DEF IInv

LEMMA ScanLidarKeeps ==
  ASSUME IInv, ScanLidar
  PROVE  IInv'
<1>1. CASE poll.lidar \in sampling
  <2>1. poll' = [at |-> "empty", lidar |-> poll.lidar]
    BY <1>1 DEF ScanLidar, PollTo
  <2>2. TypeOK'
    BY <2>1 DEF IInv, TypeOK, ScanLidar, PollSteps, flags
  <2>3. (FreshSampling /\ PopHasSample /\ AllNoticed)'
    BY <2>1 DEF IInv, FreshSampling, PopHasSample, AllNoticed, Noticed,
                ScanLidar, PollAt, flags
  <2> QED  BY <2>2, <2>3, SlotsUntouched DEF IInv, ScanLidar
<1>2. CASE poll.lidar \notin sampling
  <2>1. NextLidar
    BY <1>2 DEF ScanLidar
  <2>2. TypeOK'
    BY <2>1, NextLidarFacts DEF IInv, TypeOK, ScanLidar, flags
  <2>3. (FreshSampling /\ PopHasSample)'
    BY <2>1, NextLidarFacts DEF IInv, FreshSampling, PopHasSample, ScanLidar,
                                PollAt, flags
  <2>4. fresh[poll.lidar] = 0
    BY <1>2 DEF IInv, TypeOK, FreshSampling
  <2>5. AllNoticed'
    BY <2>1, <2>4, PassedOver DEF ScanLidar, flags
  <2> QED  BY <2>2, <2>3, <2>5, SlotsUntouched DEF IInv, ScanLidar
<1> QED  BY <1>1, <1>2

LEMMA PollingLidarImuDataKeeps ==
  ASSUME IInv, PollingLidarImuData
  PROVE  IInv'
<1>1. CASE ~request_exit /\ queue[poll.lidar] > 0
  <2>1. poll' = [at |-> "pop", lidar |-> poll.lidar]
    BY <1>1 DEF PollingLidarImuData, PollTo
  <2>2. TypeOK'
    BY <2>1 DEF IInv, TypeOK, PollingLidarImuData, PollSteps, flags
  <2>3. (FreshSampling /\ PopHasSample /\ AllNoticed)'
    BY <1>1, <2>1
    DEF IInv, FreshSampling, PopHasSample, AllNoticed, Noticed,
        PollingLidarImuData, PollAt, flags
  <2> QED  BY <2>2, <2>3, SlotsUntouched DEF IInv, PollingLidarImuData
<1>2. CASE ~(~request_exit /\ queue[poll.lidar] > 0)
  <2>1. NextLidar
    BY <1>2 DEF PollingLidarImuData
  <2>2. TypeOK'
    BY <2>1, NextLidarFacts DEF IInv, TypeOK, PollingLidarImuData, flags
  <2>3. (FreshSampling /\ PopHasSample)'
    BY <2>1, NextLidarFacts DEF IInv, FreshSampling, PopHasSample,
                                PollingLidarImuData, PollAt, flags
  <2>4. fresh[poll.lidar] = 0 \/ request_exit
    BY <1>2, ImuAssumption DEF IInv, TypeOK
  <2>5. AllNoticed'
    BY <2>1, <2>4, PassedOver DEF PollingLidarImuData, flags
  <2> QED  BY <2>2, <2>3, <2>5, SlotsUntouched DEF IInv, PollingLidarImuData
<1> QED  BY <1>1, <1>2

LEMMA PopKeeps ==
  ASSUME IInv, Pop
  PROVE  IInv'
<1> DEFINE l == poll.lidar
<1>1. l \in Lidars /\ queue[l] > 0 /\ poll.at = "pop"
  BY DEF IInv, TypeOK, Pop, PopHasSample, PollAt
<1>2. \A k \in Lidars : queue'[k] = IF k = l THEN queue[k] - 1 ELSE queue[k]
  BY <1>1 DEF IInv, TypeOK, Pop
<1>3. \A k \in Lidars :
        fresh'[k] = IF k = l /\ fresh[l] = queue[l] THEN fresh[k] - 1 ELSE fresh[k]
  BY <1>1 DEF IInv, TypeOK, Pop
<1>4. poll' = [at |-> "empty", lidar |-> l]
  BY DEF Pop, PollTo
<1>5. TypeOK'
  <2>1. queue' \in [Lidars -> 0 .. MaxQueue]
    BY <1>1, <1>2, ImuAssumption DEF IInv, TypeOK, Pop
  <2>2. fresh' \in [Lidars -> 0 .. MaxQueue] /\ \A k \in Lidars : fresh'[k] <= queue'[k]
    BY <1>1, <1>2, <1>3, ImuAssumption DEF IInv, TypeOK, Pop
  <2> QED  BY <1>1, <1>4, <2>1, <2>2 DEF IInv, TypeOK, Pop, PollSteps, flags
<1>6. (Room /\ SignalBound)'
  BY <1>2, ThreadsUntouched, Sizes, ImuAssumption
  DEF IInv, TypeOK, Room, SignalBound, Pop
<1>7. (FreshSampling /\ PopHasSample)'
  BY <1>1, <1>3, <1>4, ImuAssumption
  DEF IInv, TypeOK, FreshSampling, PopHasSample, PollAt, Pop, flags
<1>8. AllNoticed'
  BY <1>1, <1>3, <1>4, ImuAssumption
  DEF IInv, TypeOK, AllNoticed, Noticed, PollAt, Pop, flags
<1> QED  BY <1>5, <1>6, <1>7, <1>8 DEF IInv

LEMMA DestructorAndWorldKeep ==
  ASSUME IInv, \/ RequestExit
               \/ SetExitSignal
               \/ TrafficStops
               \/ \E l \in Lidars : BecomeSampling(l)
  PROVE  IInv'
<1>1. UNCHANGED <<queue, count, sdk, poll, fresh>>
  BY DEF RequestExit, SetExitSignal, TrafficStops, BecomeSampling
<1>2. sampling \subseteq sampling' /\ sampling' \subseteq Lidars
  BY DEF RequestExit, SetExitSignal, TrafficStops, BecomeSampling, IInv, TypeOK
<1>3. /\ {request_exit', exit_signal', traffic'} \subseteq BOOLEAN
      /\ request_exit => request_exit'
  <2>1. CASE RequestExit
    BY <2>1 DEF RequestExit, IInv, TypeOK
  <2>2. CASE SetExitSignal
    BY <2>2 DEF SetExitSignal, IInv, TypeOK
  <2>3. CASE TrafficStops
    BY <2>3 DEF TrafficStops, IInv, TypeOK
  <2>4. CASE \E l \in Lidars : BecomeSampling(l)
    BY <2>4 DEF BecomeSampling, IInv, TypeOK
  <2> QED  BY <2>1, <2>2, <2>3, <2>4
<1>4. TypeOK'
  BY <1>1, <1>2, <1>3 DEF IInv, TypeOK
<1>5. (FreshSampling /\ PopHasSample /\ AllNoticed)'
  BY <1>1, <1>2, <1>3
  DEF IInv, FreshSampling, PopHasSample, AllNoticed, Noticed, PollAt
<1> QED  BY <1>1, <1>4, <1>5, SlotsUntouched DEF IInv

LEMMA IInvStep == IInv /\ [Next]_vars => IInv'
<1> SUFFICES ASSUME IInv, [Next]_vars PROVE IInv'
  OBVIOUS
<1>1. CASE PollThread
  BY <1>1, CheckExitSignalKeeps, CheckRequestExitKeeps, WaitKeeps,
     ScanLidarKeeps, PollingLidarImuDataKeeps, PopKeeps DEF PollThread
<1>2. CASE \/ RequestExit
           \/ SetExitSignal
           \/ TrafficStops
           \/ \E l \in Lidars : BecomeSampling(l)
  BY <1>2, DestructorAndWorldKeep
<1>3. ASSUME NEW t \in Sdk, SdkThread(t) PROVE IInv'
  BY <1>3, PushKeeps, CheckEmptyKeeps, CheckCountKeeps, SignalKeeps DEF SdkThread
<1>4. ASSUME NEW t \in Sdk, NEW l \in Lidars, StorageImuData(t, l) PROVE IInv'
  BY <1>4, StorageImuDataKeeps
<1>5. CASE UNCHANGED vars
  <2>1. TypeOK'
    BY <1>5 DEF vars, flags, IInv, TypeOK
  <2>2. (FreshSampling /\ PopHasSample /\ AllNoticed)'
    BY <1>5 DEF vars, flags, IInv, FreshSampling, PopHasSample, AllNoticed,
                Noticed, PollAt
  <2> QED  BY <1>5, <2>1, <2>2, SlotsUntouched DEF vars, IInv
<1> QED  BY <1>1, <1>2, <1>3, <1>4, <1>5 DEF Next

LEMMA Invariance == Spec => []IInv
<1> QED  BY IInvInit, IInvStep, PTL DEF Spec

(* Asleep, the poll thread has nothing that anybody would notice.          *)
LEMMA NoneLeftAsleep == IInv /\ Asleep => \A l \in Lidars : fresh[l] = 0
<1> SUFFICES ASSUME IInv, Asleep, NEW l \in Lidars PROVE fresh[l] = 0
  OBVIOUS
<1>1. ~Noticed(l)
  BY DEF Asleep, Noticed, PollAt
<1> QED  BY <1>1 DEF IInv, AllNoticed

-----------------------------------------------------------------------------
(* The theorems.                                                           *)

(* The variables keep their types; in particular the poll thread never     *)
(* takes a sample from an empty list (lidar_imu_data_queue.cpp:37-48),     *)
(* since nobody else takes any.                                            *)
THEOREM TypeCorrect == Spec => []TypeOK
<1>1. IInv => TypeOK
  BY DEF IInv
<1> QED  BY <1>1, Invariance, PTL

(* However the SDK threads interleave between reading the counter and      *)
(* signalling (lds.cpp:105-107), no more signals are pending than there    *)
(* are threads.                                                            *)
THEOREM SignalsBounded == Spec => []SignalBound
<1>1. IInv => SignalBound
  BY DEF IInv
<1> QED  BY <1>1, Invariance, PTL

(* No sample of a sampling lidar is left behind a sleeping poll thread     *)
(* once the threads that pushed have decided whether to signal             *)
(* (lds.cpp:103-108, lddc.cpp:79-88): for any number of lidars and of      *)
(* threads.                                                                *)
THEOREM NoSampleStranded == Spec => []NoStrandedSample
<1>1. IInv => NoStrandedSample
  BY NoneLeftAsleep DEF NoStrandedSample
<1> QED  BY <1>1, Invariance, PTL

-----------------------------------------------------------------------------
(* The refinement.                                                         *)

(* Which steps are a push or a pop of a fresh sample.                      *)
LEMMA PushIsPut ==
  ASSUME NEW t \in Sdk, IInv, Push(t), fresh' # fresh
  PROVE  \E l \in Lidars : Promise!Put(l)
<1> DEFINE l == sdk[t].lidar
<1>1. l \in Lidars /\ sdk'[t].at = "empty"
  BY DEF IInv, TypeOK, Push, SdkTo
<1>2. ~Asleep'
  BY <1>1 DEF Asleep
<1>3. fresh' = [fresh EXCEPT ![l] = @ + 1]
  BY <1>1 DEF IInv, TypeOK, Push
<1>4. Asleep' = FALSE
  BY <1>2 DEF Asleep
<1> QED  BY <1>1, <1>3, <1>4 DEF Promise!Put

LEMMA PopIsTake ==
  ASSUME IInv, IInv', Pop, fresh' # fresh
  PROVE  \E l \in Lidars : Promise!Take(l)
<1> DEFINE l == poll.lidar
<1>1. l \in Lidars /\ PollAt("pop") /\ poll' = [at |-> "empty", lidar |-> l]
  BY DEF IInv, TypeOK, Pop, PollTo
<1>2. ~Asleep /\ ~Asleep'
  BY <1>1 DEF Asleep, PollAt
<1>3. fresh[l] = queue[l] /\ fresh' = [fresh EXCEPT ![l] = @ - 1]
  BY <1>1 DEF IInv, TypeOK, Pop
<1>4. fresh[l] > 0
  BY <1>1, <1>3 DEF IInv, PopHasSample
<1>5. Asleep' = Asleep
  BY <1>2 DEF Asleep
<1> QED  BY <1>1, <1>2, <1>3, <1>4, <1>5 DEF Promise!Take

(* Any other step leaves the data alone, and if it puts the poll thread to *)
(* sleep, there are none.                                                  *)
LEMMA OthersSleepOrWake ==
  ASSUME IInv, IInv', fresh' = fresh
  PROVE  [Promise!HandOverNext]_(Promise!handOverVars)
<1>1. CASE ~Asleep /\ Asleep'
  <2>1. (\A l \in Lidars : fresh[l] = 0)'
    BY <1>1, NoneLeftAsleep, PTL
  <2>2. Asleep' = TRUE
    BY <1>1 DEF Asleep
  <2> QED  BY <1>1, <2>1, <2>2 DEF Promise!HandOverNext, Promise!Sleep
<1>2. CASE Asleep /\ ~Asleep'
  <2>1. Asleep' = FALSE
    BY <1>2 DEF Asleep
  <2> QED  BY <1>2, <2>1 DEF Promise!HandOverNext, Promise!WakeUp
<1>3. CASE Asleep <=> Asleep'
  <2>1. Asleep' = Asleep
    BY <1>3 DEF Asleep
  <2> QED  BY <2>1 DEF Promise!handOverVars
<1> QED  BY <1>1, <1>2, <1>3

LEMMA FreshChanges ==
  ASSUME IInv, [Next]_vars, fresh' # fresh
  PROVE  Pop \/ \E t \in Sdk : Push(t)
<1>1. CASE PollThread
  BY <1>1 DEF PollThread, CheckExitSignal, CheckRequestExit, Wait, ScanLidar,
              PollingLidarImuData
<1>2. ASSUME NEW t \in Sdk, SdkThread(t) PROVE Push(t)
  BY <1>2 DEF SdkThread, CheckEmpty, CheckCount, Signal
<1> QED  BY <1>1, <1>2 DEF Next, RequestExit, SetExitSignal, TrafficStops,
                           StorageImuData, BecomeSampling, vars

(* For any number of threads and lidars, the samples of sampling lidars    *)
(* are taken each once, and the poll thread goes to sleep only when none   *)
(* is left (lds.cpp:97-108, lddc.cpp:75-108).                              *)
THEOREM ImuImplementsHandOver == Spec => ImplementsHandOver
<1>1. Init => Promise!HandOverInit
  <2> SUFFICES ASSUME Init PROVE Promise!HandOverInit
    OBVIOUS
  <2>1. Asleep = FALSE
    BY DEF Init, Asleep, PollAt
  <2> QED  BY <2>1 DEF Init, Promise!HandOverInit
<1>2. IInv /\ IInv' /\ [Next]_vars => [Promise!HandOverNext]_(Promise!handOverVars)
  <2> SUFFICES ASSUME IInv, IInv', [Next]_vars
               PROVE  [Promise!HandOverNext]_(Promise!handOverVars)
    OBVIOUS
  <2>1. CASE fresh' = fresh
    BY <2>1, OthersSleepOrWake
  <2>2. CASE fresh' # fresh
    <3>1. \E l \in Lidars : Promise!Put(l) \/ Promise!Take(l)
      BY <2>2, FreshChanges, PushIsPut, PopIsTake
    <3> QED  BY <3>1 DEF Promise!HandOverNext
  <2> QED  BY <2>1, <2>2
<1> QED  BY <1>1, <1>2, Invariance, PTL
         DEF Spec, ImplementsHandOver, Promise!HandOverSpec
=============================================================================
