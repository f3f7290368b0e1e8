---------------------- MODULE PointCloudPipelineProofs ----------------------
(***************************************************************************)
(* Proofs about the hand-over of frames of PointCloudPipeline, for every   *)
(* number of lidars and every size of their queues.                        *)
(***************************************************************************)
EXTENDS PointCloudPipeline, TLAPS

(* Frames, delayed ones included, never exceed the slots, and the point    *)
(* thread is about to push only where there is room.                       *)
Room == /\ \A l \in Lidars : waiting[l] + Pending(l) <= QueueSize
        /\ PointAt("check") \/ PointAt("push") => point.lidar \notin buffered
        /\ PointAt("push") => waiting[point.lidar] < QueueSize

(* What `fresh' counts are frames of the queue of a sampling lidar.        *)
FreshWaits == \A l \in Lidars : /\ fresh[l] <= waiting[l] + Pending(l)
                                /\ l \notin sampling => fresh[l] = 0

(* Only the stores of these lidars are ever delayed.                       *)
Visible == buffered \subseteq Delayable

(* Somebody will look at the queue of l: a signal is pending, the point    *)
(* thread has pushed to l and not yet decided whether to signal, or the    *)
(* scan of the poll thread has yet to pass l.  Once an exit was requested  *)
(* the poll thread need not look again, but it does not sleep either.      *)
Noticed(l) ==
  \/ count > 0
  \/ point.lidar = l /\ point.at \in {"empty", "count", "signal"}
  \/ poll.lidar <= l /\ poll.at \in {"scan", "outer", "inner"}
  \/ request_exit /\ ~PollAt("wait")

AllNoticed == \A l \in Lidars : fresh[l] <= Missable(l) \/ Noticed(l)

IInv == TypeOK /\ Room /\ FreshWaits /\ Visible /\ SignalBound /\ AllNoticed

LEMMA IInvInit == Init => IInv
<1> SUFFICES ASSUME Init PROVE IInv
  OBVIOUS
<1>1. 0 \in Lidars
  BY PipelineAssumption DEF Lidars
<1>2. {request_exit, exit_signal, traffic} \subseteq BOOLEAN
  BY DEF Init
<1>3. TypeOK
  BY <1>1, <1>2, PipelineAssumption
  DEF Init, TypeOK, PointSteps, PollSteps, ExitSteps
<1>4. Room /\ FreshWaits
  BY PipelineAssumption DEF Init, Room, FreshWaits, Pending, PointAt
<1>5. Visible /\ SignalBound /\ AllNoticed
  BY PipelineAssumption
  DEF Init, Visible, SignalBound, AllNoticed, Missable, PointAt
<1> QED  BY <1>3, <1>4, <1>5 DEF IInv

(* The scan goes on to every lidar beyond the one it looks at.             *)
LEMMA NextLidarFacts ==
  ASSUME TypeOK, NextLidar
  PROVE  /\ poll' \in [at : PollSteps, lidar : Lidars]
         /\ \A l \in Lidars : poll.lidar < l => /\ poll'.at = "scan"
                                               /\ poll'.lidar <= l
<1>1. poll.lidar \in Lidars
  BY DEF TypeOK
<1>2. 0 \in Lidars
  BY PipelineAssumption DEF Lidars
<1>3. CASE poll.lidar + 1 < LidarCount
  <2>1. poll.lidar + 1 \in Lidars
    BY <1>1, <1>3, PipelineAssumption DEF Lidars
  <2>2. poll' = [at |-> "scan", lidar |-> poll.lidar + 1]
    BY <1>3 DEF NextLidar, PollTo
  <2> QED  BY <1>1, <2>1, <2>2 DEF Lidars, PollSteps
<1>4. CASE ~(poll.lidar + 1 < LidarCount)
  <2>1. poll' = [at |-> "exit_signal", lidar |-> 0]
    BY <1>4 DEF NextLidar, PollTo
  <2> QED  BY <1>1, <1>2, <1>4, <2>1, PipelineAssumption DEF Lidars, PollSteps
<1> QED  BY <1>3, <1>4

(* The scan may leave a lidar that holds no more than can be overlooked,   *)
(* and any lidar once an exit was requested.                               *)
LEMMA PassedOver ==
  ASSUME IInv, NextLidar, PollAt("scan") \/ PollAt("outer"),
         fresh[poll.lidar] <= Missable(poll.lidar) \/ request_exit,
         UNCHANGED <<fresh, count, point, request_exit>>
  PROVE  AllNoticed'
<1> SUFFICES ASSUME NEW l \in Lidars
             PROVE  fresh[l] <= Missable(l) \/ Noticed(l)'
  BY DEF AllNoticed
<1>1. poll'.at \in {"scan", "exit_signal"}
  BY DEF NextLidar, PollTo
<1>2. CASE request_exit
  BY <1>1, <1>2 DEF Noticed, PollAt
<1>3. CASE l = poll.lidar /\ ~request_exit
  BY <1>3
<1>4. CASE l # poll.lidar /\ ~request_exit
  <2>1. l \in Int /\ poll.lidar \in Int
    BY PipelineAssumption DEF IInv, TypeOK, Lidars
  <2>2. CASE poll.lidar < l
    BY <2>2, NextLidarFacts DEF IInv, Noticed
  <2>3. CASE l < poll.lidar
    BY <1>4, <2>1, <2>3 DEF IInv, AllNoticed, Noticed
  <2> QED  BY <1>4, <2>1, <2>2, <2>3
<1> QED  BY <1>2, <1>3, <1>4

-----------------------------------------------------------------------------
(* What an action leaves alone, then one lemma for each action.            *)

LEMMA QueuesUntouched ==
  ASSUME IInv, UNCHANGED <<waiting, buffered, fresh, sampling>>
  PROVE  (FreshWaits /\ Visible)'
<1> QED  BY DEF IInv, FreshWaits, Visible, Pending

LEMMA SlotsUntouched ==
  ASSUME IInv, UNCHANGED <<waiting, buffered, count, point>>
  PROVE  (Room /\ SignalBound)'
<1> QED  BY DEF IInv, Room, SignalBound, Pending, PointAt

LEMMA StoragePointDataKeeps ==
  ASSUME NEW l \in Lidars, IInv, StoragePointData(l)
  PROVE  IInv'
<1>1. TypeOK'
  BY DEF IInv, TypeOK, StoragePointData, PointAt, PointSteps, pipeline,
         flags
<1>2. (Room /\ SignalBound)'
  BY DEF IInv, TypeOK, StoragePointData, Room, SignalBound, PointAt,
         Pending, pipeline
<1>3. AllNoticed'
  BY DEF IInv, TypeOK, StoragePointData, AllNoticed, Noticed, PointAt,
         PollAt, pipeline, flags
<1> QED  BY <1>1, <1>2, <1>3, QueuesUntouched DEF IInv, StoragePointData, pipeline, flags

LEMMA CheckFullKeeps ==
  ASSUME IInv, CheckFull
  PROVE  IInv'
<1>1. TypeOK'
  BY DEF IInv, TypeOK, CheckFull, PointAt, PointTo, PointSteps, pipeline,
         flags
<1>2. (Room /\ SignalBound)'
  BY PipelineAssumption
  DEF IInv, TypeOK, CheckFull, Room, SignalBound, PointAt, PointTo,
      Pending, pipeline
<1>3. AllNoticed'
  BY DEF IInv, TypeOK, CheckFull, AllNoticed, Noticed, PointAt, PointTo,
         PollAt, pipeline, flags
<1> QED  BY <1>1, <1>2, <1>3, QueuesUntouched DEF IInv, CheckFull, pipeline, flags

LEMMA QueuePushAnyKeeps ==
  ASSUME IInv, QueuePushAny
  PROVE  IInv'
<1>1. fresh' \in [Lidars -> 0 .. QueueSize]
  BY PipelineAssumption
  DEF IInv, TypeOK, QueuePushAny, Room, FreshWaits, Pending, PointAt
<1>2. TypeOK'
  BY PipelineAssumption, <1>1
  DEF IInv, TypeOK, QueuePushAny, Room, PointAt, PointTo, PointSteps,
      flags
<1>3. (Room /\ SignalBound)'
  BY PipelineAssumption
  DEF IInv, TypeOK, QueuePushAny, Room, SignalBound, PointAt, PointTo,
      Pending
<1>4. (FreshWaits /\ Visible)'
  BY DEF IInv, TypeOK, QueuePushAny, Room, FreshWaits, Visible, Pending,
         PointAt, flags
<1>5. AllNoticed'
  BY DEF IInv, TypeOK, QueuePushAny, AllNoticed, Noticed, PointAt, PointTo,
         PollAt, flags
<1> QED  BY <1>2, <1>3, <1>4, <1>5 DEF IInv

LEMMA CheckEmptyKeeps ==
  ASSUME IInv, CheckEmpty
  PROVE  IInv'
<1>1. TypeOK'
  BY DEF IInv, TypeOK, CheckEmpty, PointAt, PointTo, PointSteps, pipeline,
         flags
<1>2. (Room /\ SignalBound)'
  BY DEF IInv, TypeOK, CheckEmpty, Room, SignalBound, PointAt, PointTo,
         Pending, pipeline
<1>3. AllNoticed'
  BY DEF IInv, TypeOK, CheckEmpty, FreshWaits, Pending, AllNoticed,
         Noticed, Missable, PointAt, PointTo, PollAt, pipeline, flags
<1> QED  BY <1>1, <1>2, <1>3, QueuesUntouched DEF IInv, CheckEmpty, pipeline, flags

LEMMA CheckCountKeeps ==
  ASSUME IInv, CheckCount
  PROVE  IInv'
<1>1. TypeOK'
  BY DEF IInv, TypeOK, CheckCount, PointAt, PointTo, PointSteps, pipeline,
         flags
<1>2. (Room /\ SignalBound)'
  BY DEF IInv, TypeOK, CheckCount, Room, SignalBound, PointAt, PointTo,
         Pending, pipeline
<1>3. AllNoticed'
  BY DEF IInv, TypeOK, CheckCount, AllNoticed, Noticed, PointAt, PointTo,
         PollAt, pipeline, flags
<1> QED  BY <1>1, <1>2, <1>3, QueuesUntouched DEF IInv, CheckCount, pipeline, flags

LEMMA SignalKeeps ==
  ASSUME IInv, Signal
  PROVE  IInv'
<1>1. TypeOK'
  BY DEF IInv, TypeOK, Signal, PointAt, PointTo, PointSteps, pipeline,
         flags
<1>2. (Room /\ SignalBound)'
  BY DEF IInv, TypeOK, Signal, Room, SignalBound, PointAt, PointTo,
         Pending, pipeline
<1>3. AllNoticed'
  BY DEF IInv, TypeOK, Signal, AllNoticed, Noticed, PointAt, pipeline,
         flags
<1> QED  BY <1>1, <1>2, <1>3, QueuesUntouched DEF IInv, Signal, pipeline, flags

LEMMA FlushKeeps ==
  ASSUME NEW l \in Lidars, IInv, Flush(l)
  PROVE  IInv'
<1>1. TypeOK'
  BY PipelineAssumption
  DEF IInv, TypeOK, Flush, Room, Pending, flags
<1>2. (Room /\ SignalBound)'
  BY DEF IInv, TypeOK, Flush, Room, SignalBound, PointAt, Pending
<1>3. (FreshWaits /\ Visible)'
  BY DEF IInv, TypeOK, Flush, FreshWaits, Visible, Pending, flags
<1>4. AllNoticed'
  BY DEF IInv, TypeOK, Flush, AllNoticed, Noticed, PollAt, flags
<1> QED  BY <1>1, <1>2, <1>3, <1>4 DEF IInv

(* The poll thread goes to a place outside of its scan, or to the start of *)
(* it.                                                                     *)
LEMMA PollTyped ==
  ASSUME TypeOK, NEW at \in PollSteps, PollTo(at, 0),
         UNCHANGED <<pipeline, flags, point, destructor>>, count' \in Nat
  PROVE  TypeOK'
<1>1. 0 \in Lidars
  BY PipelineAssumption DEF Lidars
<1>2. poll' \in [at : PollSteps, lidar : Lidars]
  BY <1>1 DEF PollTo
<1>3. {request_exit', exit_signal', traffic'} \subseteq BOOLEAN
  BY DEF TypeOK, flags
<1> QED  BY <1>2, <1>3 DEF TypeOK, pipeline, flags

LEMMA CheckExitSignalKeeps ==
  ASSUME IInv, CheckExitSignal
  PROVE  IInv'
<1>1. TypeOK'
  BY PollTyped DEF IInv, TypeOK, CheckExitSignal, PollSteps
<1>2. AllNoticed'
  BY DEF IInv, TypeOK, CheckExitSignal, AllNoticed, Noticed, PollAt,
         PollTo, pipeline, flags
<1> QED  BY <1>1, <1>2, SlotsUntouched, QueuesUntouched
         DEF IInv, CheckExitSignal, pipeline, flags

LEMMA CheckRequestExitKeeps ==
  ASSUME IInv, CheckRequestExit
  PROVE  IInv'
<1>1. TypeOK'
  BY PollTyped DEF IInv, TypeOK, CheckRequestExit, PollSteps
<1>2. AllNoticed'
  BY DEF IInv, TypeOK, CheckRequestExit, AllNoticed, Noticed, PollAt,
         PollTo, pipeline, flags
<1> QED  BY <1>1, <1>2, SlotsUntouched, QueuesUntouched
         DEF IInv, CheckRequestExit, pipeline, flags

LEMMA WaitKeeps ==
  ASSUME IInv, Wait
  PROVE  IInv'
<1>1. TypeOK'
  BY PollTyped DEF IInv, TypeOK, Wait, PollSteps
<1>2. (Room /\ SignalBound)'
  BY DEF IInv, TypeOK, Wait, Room, SignalBound, PointAt, Pending, pipeline
<1>3. AllNoticed'
  BY DEF IInv, TypeOK, Wait, AllNoticed, Noticed, PollAt, PollTo, Lidars,
         pipeline, flags
<1> QED  BY <1>1, <1>2, <1>3, QueuesUntouched DEF IInv, Wait, pipeline, flags

LEMMA ScanLidarKeeps ==
  ASSUME IInv, ScanLidar
  PROVE  IInv'
<1>1. TypeOK'
  BY NextLidarFacts
  DEF IInv, TypeOK, ScanLidar, PollAt, PollTo, PollSteps, pipeline,
      flags
<1>2. AllNoticed'
  <2>1. CASE poll.lidar \in sampling
    BY <2>1
    DEF ScanLidar, IInv, TypeOK, AllNoticed, Noticed, PollAt, PollTo,
        pipeline, flags
  <2>2. CASE poll.lidar \notin sampling
    <3>1. fresh[poll.lidar] <= Missable(poll.lidar)
      BY <2>2 DEF IInv, TypeOK, FreshWaits, Missable
    <3> QED  BY <2>2, <3>1, PassedOver DEF ScanLidar, pipeline, flags
  <2> QED  BY <2>1, <2>2
<1> QED  BY <1>1, <1>2, SlotsUntouched, QueuesUntouched
         DEF IInv, ScanLidar, pipeline, flags

LEMMA PollingLidarKeeps ==
  ASSUME IInv, PollingLidar
  PROVE  IInv'
<1>1. TypeOK'
  BY NextLidarFacts
  DEF IInv, TypeOK, PollingLidar, PollAt, PollTo, PollSteps, pipeline,
      flags
<1>2. AllNoticed'
  <2>1. CASE ~request_exit /\ waiting[poll.lidar] > 0
    BY <2>1
    DEF PollingLidar, IInv, TypeOK, AllNoticed, Noticed, PollAt, PollTo,
        pipeline, flags
  <2>2. CASE request_exit \/ waiting[poll.lidar] = 0
    <3>1. fresh[poll.lidar] <= Missable(poll.lidar) \/ request_exit
      BY <2>2
      DEF IInv, TypeOK, FreshWaits, Visible, Pending, Missable
    <3> QED  BY <2>2, <3>1, PassedOver DEF PollingLidar, pipeline, flags
  <2>3. waiting[poll.lidar] \in Nat
    BY PipelineAssumption DEF IInv, TypeOK
  <2> QED  BY <2>1, <2>2, <2>3
<1> QED  BY <1>1, <1>2, SlotsUntouched, QueuesUntouched
         DEF IInv, PollingLidar, pipeline, flags

LEMMA PublishPointcloud2Keeps ==
  ASSUME IInv, PublishPointcloud2
  PROVE  IInv'
<1>1. TypeOK'
  BY PipelineAssumption
  DEF IInv, TypeOK, PublishPointcloud2, FreshWaits, Pending, flags
<1>2. (Room /\ SignalBound)'
  BY PipelineAssumption
  DEF IInv, TypeOK, PublishPointcloud2, Room, SignalBound, PointAt,
      Pending
<1>3. (FreshWaits /\ Visible)'
  BY DEF IInv, TypeOK, PublishPointcloud2, FreshWaits, Visible, Pending,
         flags
<1>4. AllNoticed'
  BY DEF IInv, TypeOK, PublishPointcloud2, AllNoticed, Noticed, Missable,
         Pending, PollAt, flags
<1> QED  BY <1>1, <1>2, <1>3, <1>4 DEF IInv

LEMMA PublishDoneKeeps ==
  ASSUME IInv, PublishDone
  PROVE  IInv'
<1>1. TypeOK'
  BY PipelineAssumption
  DEF IInv, TypeOK, PublishDone, PollAt, PollTo, PollSteps, pipeline,
      flags
<1>2. AllNoticed'
  BY DEF IInv, TypeOK, PublishDone, AllNoticed, Noticed, PollAt, PollTo,
         pipeline, flags
<1> QED  BY <1>1, <1>2, SlotsUntouched, QueuesUntouched
         DEF IInv, PublishDone, pipeline, flags

LEMMA RequestExitKeeps ==
  ASSUME IInv, RequestExit
  PROVE  IInv'
<1>1. TypeOK'
  BY DEF IInv, TypeOK, RequestExit, ExitSteps, pipeline, flags
<1>2. AllNoticed'
  BY DEF IInv, TypeOK, RequestExit, AllNoticed, Noticed, PollAt, pipeline,
         flags
<1> QED  BY <1>1, <1>2, SlotsUntouched, QueuesUntouched
         DEF IInv, RequestExit, pipeline, flags

LEMMA SetExitSignalKeeps ==
  ASSUME IInv, SetExitSignal
  PROVE  IInv'
<1>1. TypeOK'
  BY DEF IInv, TypeOK, SetExitSignal, ExitSteps, pipeline, flags
<1>2. AllNoticed'
  BY DEF IInv, TypeOK, SetExitSignal, AllNoticed, Noticed, PollAt,
         pipeline, flags
<1> QED  BY <1>1, <1>2, SlotsUntouched, QueuesUntouched
         DEF IInv, SetExitSignal, pipeline, flags

LEMMA JoinPollThreadKeeps ==
  ASSUME IInv, JoinPollThread
  PROVE  IInv'
<1>1. TypeOK'
  BY DEF IInv, TypeOK, JoinPollThread, ExitSteps, pipeline, flags
<1>2. AllNoticed'
  BY DEF IInv, TypeOK, JoinPollThread, AllNoticed, Noticed, PollAt,
         pipeline, flags
<1> QED  BY <1>1, <1>2, SlotsUntouched, QueuesUntouched
         DEF IInv, JoinPollThread, pipeline, flags

LEMMA TrafficStopsKeeps ==
  ASSUME IInv, TrafficStops
  PROVE  IInv'
<1>1. TypeOK'
  BY DEF IInv, TypeOK, TrafficStops, pipeline
<1>2. AllNoticed'
  BY DEF IInv, TypeOK, TrafficStops, AllNoticed, Noticed, PollAt, pipeline,
         flags
<1> QED  BY <1>1, <1>2, SlotsUntouched, QueuesUntouched
         DEF IInv, TrafficStops, pipeline, flags

LEMMA BecomeSamplingKeeps ==
  ASSUME NEW l \in Lidars, IInv, BecomeSampling(l)
  PROVE  IInv'
<1>1. TypeOK'
  BY DEF IInv, TypeOK, BecomeSampling, pipeline
<1>2. (Room /\ SignalBound)'
  BY DEF IInv, TypeOK, BecomeSampling, Room, SignalBound, PointAt, Pending,
         pipeline
<1>3. (FreshWaits /\ Visible)'
  BY DEF IInv, TypeOK, BecomeSampling, FreshWaits, Visible, Pending,
         pipeline
<1>4. AllNoticed'
  BY DEF IInv, TypeOK, BecomeSampling, AllNoticed, Noticed, PollAt,
         pipeline
<1> QED  BY <1>1, <1>2, <1>3, <1>4 DEF IInv

LEMMA IInvStep == IInv /\ [Next]_vars => IInv'
<1> SUFFICES ASSUME IInv, [Next]_vars PROVE IInv'
  OBVIOUS
<1>1. CASE PointThread
  BY <1>1, CheckFullKeeps, QueuePushAnyKeeps, CheckEmptyKeeps,
     CheckCountKeeps, SignalKeeps DEF PointThread
<1>2. CASE PollThread
  BY <1>2, CheckExitSignalKeeps, CheckRequestExitKeeps, WaitKeeps,
     ScanLidarKeeps, PollingLidarKeeps, PublishPointcloud2Keeps,
     PublishDoneKeeps DEF PollThread
<1>3. CASE Destructor \/ RequestExit \/ TrafficStops
  BY <1>3, SetExitSignalKeeps, JoinPollThreadKeeps, RequestExitKeeps,
     TrafficStopsKeeps DEF Destructor
<1>4. CASE \E l \in Lidars : StoragePointData(l) \/ Flush(l) \/ BecomeSampling(l)
  BY <1>4, StoragePointDataKeeps, FlushKeeps, BecomeSamplingKeeps
<1>5. CASE UNCHANGED vars
  BY <1>5 DEF vars, pipeline, flags, IInv, TypeOK, Room, FreshWaits, Visible,
              SignalBound, AllNoticed, Noticed, Pending, PointAt, PollAt
<1> QED  BY <1>1, <1>2, <1>3, <1>4, <1>5 DEF Next

LEMMA Invariance == Spec => []IInv
<1> QED  BY IInvInit, IInvStep, PTL DEF Spec

-----------------------------------------------------------------------------
(* The theorems.                                                           *)

(* While the poll thread sleeps nothing is noticed, so a lidar holds no    *)
(* more fresh frames than can be overlooked.                               *)
LEMMA OverlookedWhileAsleep ==
  IInv => (Asleep => \A l \in Lidars : fresh[l] <= Missable(l))
<1> SUFFICES ASSUME IInv, Asleep, NEW l \in Lidars PROVE fresh[l] <= Missable(l)
  OBVIOUS
<1>1. ~Noticed(l)
  BY DEF Asleep, Noticed, PollAt
<1> QED  BY <1>1 DEF IInv, AllNoticed

(* The variables keep their types; in particular no queue holds more       *)
(* frames than it has slots and wr_idx never passes rd_idx (lds.cpp:165-   *)
(* 171), whatever the poll thread does between the test and the push.      *)
THEOREM TypeCorrect == Spec => []TypeOK
<1>1. IInv => TypeOK
  BY DEF IInv
<1> QED  BY <1>1, Invariance, PTL

(* The semaphore never counts more than one (lds.cpp:173-175, 178-180).    *)
THEOREM SignalsBounded == Spec => []SignalBound
<1>1. IInv => SignalBound
  BY DEF IInv
<1> QED  BY <1>1, Invariance, PTL

(* Signalling only when the counter was read as zero (lds.cpp:172-175)     *)
(* leaves behind a sleeping poll thread no frame of a sampling lidar but,  *)
(* of a lidar whose stores can be late, the one that was: for any number   *)
(* of lidars and slots, and whichever stores can be late.                  *)
THEOREM NoFrameStranded == Spec => []NoStrandedFrame
<1>1. IInv => NoStrandedFrame
  BY OverlookedWhileAsleep DEF NoStrandedFrame
<1> QED  BY <1>1, Invariance, PTL

-----------------------------------------------------------------------------
(* The refinement.                                                         *)

(* Which steps push a frame that counts, or pop one.                       *)
LEMMA PushIsPut ==
  ASSUME IInv, QueuePushAny, fresh' # fresh
  PROVE  \E l \in Lidars : Promise!Put(l)
<1> DEFINE l == point.lidar
<1>1. l \in Lidars /\ point'.at = "empty"
  BY DEF IInv, TypeOK, QueuePushAny, PointTo
<1>2. fresh' = [fresh EXCEPT ![l] = @ + 1]
  BY <1>1 DEF IInv, TypeOK, QueuePushAny
<1>3. Asleep' = FALSE
  BY <1>1 DEF Asleep
<1> QED  BY <1>1, <1>2, <1>3 DEF Promise!Put

LEMMA PublishIsTake ==
  ASSUME IInv, PublishPointcloud2, fresh' # fresh
  PROVE  \E l \in Lidars : Promise!Take(l)
<1> DEFINE l == poll.lidar
           held == waiting[l] - 1 + Pending(l)
<1>1. l \in Lidars /\ PollAt("inner") /\ poll' = poll /\ waiting[l] > 0
  BY DEF IInv, TypeOK, PublishPointcloud2
<1>2. ~Asleep /\ Asleep' = Asleep
  BY <1>1 DEF Asleep, PollAt
<1>3. fresh[l] \in Nat /\ held \in Nat /\ fresh[l] <= held + 1
  BY <1>1, PipelineAssumption DEF IInv, TypeOK, FreshWaits, Pending
<1>4. fresh' = [fresh EXCEPT ![l] = IF @ > held THEN held ELSE @]
  BY DEF PublishPointcloud2
<1> HIDE DEF held
<1>5. fresh[l] > held
  BY <1>1, <1>4 DEF IInv, TypeOK
<1>6. fresh[l] > 0 /\ held = fresh[l] - 1
  BY <1>3, <1>5
<1>7. fresh' = [fresh EXCEPT ![l] = @ - 1]
  BY <1>1, <1>4, <1>5, <1>6 DEF IInv, TypeOK
<1> QED  BY <1>1, <1>2, <1>6, <1>7 DEF Promise!Take

(* Any other step leaves the data alone, and if it puts the poll thread to *)
(* sleep, no more are left than can be overlooked.                         *)
LEMMA OthersSleepOrWake ==
  ASSUME IInv, IInv', fresh' = fresh
  PROVE  [Promise!HandOverNext]_(Promise!handOverVars)
<1>1. CASE ~Asleep /\ Asleep'
  <2>1. \A l \in Lidars : fresh[l] <= Missable(l)
    <3>1. (\A l \in Lidars : fresh[l] <= Missable(l))'
      BY <1>1, OverlookedWhileAsleep, PTL
    <3> QED  BY <3>1 DEF Missable
  <2>2. Asleep' = TRUE
    BY <1>1 DEF Asleep
  <2> QED  BY <1>1, <2>1, <2>2 DEF Promise!HandOverNext, Promise!Sleep, Missable
<1>2. CASE Asleep /\ ~Asleep'
  <2>1. Asleep' = FALSE
    BY <1>2 DEF Asleep
  <2> QED  BY <1>2, <2>1 DEF Promise!HandOverNext, Promise!WakeUp
<1>3. CASE Asleep <=> Asleep'
  <2>1. Asleep' = Asleep
    BY <1>3 DEF Asleep
  <2> QED  BY <2>1 DEF Promise!handOverVars
<1> QED  BY <1>1, <1>2, <1>3

LEMMA FreshChanges ==
  ASSUME [Next]_vars, fresh' # fresh
  PROVE  QueuePushAny \/ PublishPointcloud2
<1>1. CASE PointThread
  BY <1>1 DEF PointThread, CheckFull, CheckEmpty, CheckCount, Signal, pipeline
<1>2. CASE PollThread
  BY <1>2 DEF PollThread, CheckExitSignal, CheckRequestExit, Wait, ScanLidar,
              PollingLidar, PublishDone, pipeline
<1> QED  BY <1>1, <1>2
         DEF Next, Destructor, SetExitSignal, JoinPollThread, RequestExit,
             TrafficStops, StoragePointData, Flush, BecomeSampling, vars, pipeline

(* For any number of lidars and slots, and whichever stores are late, the  *)
(* frames of sampling lidars are taken each once, and the poll thread goes *)
(* to sleep only when none is left but a late one (lds.cpp:151-184,        *)
(* lddc.cpp:45-73, 94-134).                                                *)
THEOREM PointImplementsHandOver == Spec => ImplementsHandOver
<1>1. Init => Promise!HandOverInit
  <2> SUFFICES ASSUME Init PROVE Promise!HandOverInit
    OBVIOUS
  <2>1. Asleep = FALSE
    BY DEF Init, Asleep, PollAt
  <2> QED  BY <2>1 DEF Init, Promise!HandOverInit
<1>2. IInv /\ IInv' /\ [Next]_vars => [Promise!HandOverNext]_(Promise!handOverVars)
  <2> SUFFICES ASSUME IInv, IInv', [Next]_vars
               PROVE  [Promise!HandOverNext]_(Promise!handOverVars)
    OBVIOUS
  <2>1. CASE fresh' = fresh
    BY <2>1, OthersSleepOrWake
  <2>2. CASE fresh' # fresh
    <3>1. \E l \in Lidars : Promise!Put(l) \/ Promise!Take(l)
      BY <2>2, FreshChanges, PushIsPut, PublishIsTake
    <3> QED  BY <3>1 DEF Promise!HandOverNext
  <2> QED  BY <2>1, <2>2
<1> QED  BY <1>1, <1>2, Invariance, PTL
         DEF Spec, ImplementsHandOver, Promise!HandOverSpec
=============================================================================
