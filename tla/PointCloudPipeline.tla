------------------------- MODULE PointCloudPipeline -------------------------
(***************************************************************************)
(* How point-cloud frames travel from the point thread                     *)
(* (Lds::StoragePointData) to the poll thread                              *)
(* (DriverNode::PointCloudDataPollThread), and how the destructor of the   *)
(* node stops the poll thread.  The threads meet at the queues of the      *)
(* lidars (LidarDataQueue has their inside; here a queue is the number of  *)
(* frames in it), at the counting semaphore pcd_semaphore_, at the         *)
(* connect_state of each lidar and at the two exit flags.                  *)
(*                                                                         *)
(* PushLidarData reads the semaphore's counter without its mutex and only  *)
(* signals when it reads zero, so it matters whether the store to wr_idx   *)
(* is visible before that load.  x86 lets a load overtake an earlier store *)
(* of the same thread: such a store waits in `buffered' until it is        *)
(* flushed, at the latest by the next operation on a mutex.  Delayable     *)
(* says for which lidars this can happen, so that one instance has both    *)
(* kinds.                                                                  *)
(***************************************************************************)
EXTENDS Integers

CONSTANTS LidarCount,      \* lidars are 0 .. LidarCount - 1
          QueueSize,       \* slots in the queue of one lidar
          Delayable        \* lidars whose stores to wr_idx can be delayed

ASSUME PipelineAssumption == /\ LidarCount \in Nat \ {0}
                             /\ QueueSize \in Nat \ {0}

Lidars == 0 .. (LidarCount - 1)

ASSUME DelayableAssumption == Delayable \subseteq Lidars

VARIABLES
  waiting,     \* waiting[l]: frames between rd_idx and wr_idx as in memory
  buffered,    \* lidars whose last store to wr_idx is not in memory yet
  sampling,    \* lidars whose connect_state is kConnectStateSampling
  count,       \* pcd_semaphore_.count_
  request_exit,\* Lds::request_exit_
  exit_signal, \* whether exit_signal_ has its value
  traffic,     \* whether the lidars still send points
  point,       \* point thread: [at, lidar], where it is and in whose queue
  poll,        \* poll thread: [at, lidar], where it is and in whose queue
  destructor,  \* where ~DriverNode is
  fresh        \* history: of the waiting frames of l, how many were pushed
               \* since l is sampling

flags     == <<sampling, request_exit, exit_signal, traffic>>
pipeline  == <<waiting, buffered, fresh>>
vars == <<pipeline, flags, count, point, poll, destructor>>

(* Whether a store to wr_idx[l] is delayed, as a number of frames.         *)
Pending(l) == IF l \in buffered THEN 1 ELSE 0

PointSteps == {"idle", "check", "push", "empty", "count", "signal"}
PollSteps  == {"exit_signal", "request_exit", "wait", "scan", "outer", "inner", "done"}
ExitSteps  == {"running", "exit_signal", "join", "done"}

TypeOK == /\ waiting \in [Lidars -> 0 .. QueueSize]
          /\ buffered \subseteq Lidars
          /\ sampling \subseteq Lidars
          /\ count \in Nat
          /\ {request_exit, exit_signal, traffic} \subseteq BOOLEAN
          /\ point \in [at : PointSteps, lidar : Lidars]
          /\ poll \in [at : PollSteps, lidar : Lidars]
          /\ destructor \in ExitSteps
          /\ fresh \in [Lidars -> 0 .. QueueSize]

Init == /\ waiting = [l \in Lidars |-> 0]
        /\ buffered = {}
        /\ sampling = {}
        /\ count = 0
        /\ request_exit = FALSE
        /\ exit_signal = FALSE
        /\ traffic = TRUE
        /\ point = [at |-> "idle", lidar |-> 0]
        /\ poll = [at |-> "exit_signal", lidar |-> 0]
        /\ destructor = "running"
        /\ fresh = [l \in Lidars |-> 0]

-----------------------------------------------------------------------------
(* The point thread: StoragePointData calls PushLidarData for each lidar   *)
(* that has a frame.                                                       *)

PointAt(step) == point.at = step
PointTo(step) == point' = [point EXCEPT !.at = step]

(* The point thread holds its own mutexes between two frames, so nothing   *)
(* is left in the store buffer when the next one begins.                   *)
StoragePointData(l) ==
  /\ PointAt("idle")
  /\ traffic
  /\ l \notin buffered
  /\ point' = [at |-> "check", lidar |-> l]
  /\ UNCHANGED <<pipeline, flags, count, poll, destructor>>

(* Mutant of CheckFull: the frame is pushed without looking.               *)
CheckFullNever ==
  /\ PointAt("check")
  /\ PointTo("push")
  /\ UNCHANGED <<pipeline, flags, count, poll, destructor>>

(* QueueIsFull.  A frame that finds the queue full is dropped, but the     *)
(* poll thread is woken all the same.                                      *)
CheckFull ==
  /\ PointAt("check")
  /\ PointTo(IF waiting[point.lidar] = QueueSize THEN "count" ELSE "push")
  /\ UNCHANGED <<pipeline, flags, count, poll, destructor>>

(* QueuePushAny, up to its last store.                                     *)
QueuePushAny ==
  /\ PointAt("push")
  /\ LET l == point.lidar
     IN  /\ \/ /\ waiting' = [waiting EXCEPT ![l] = @ + 1]
               /\ UNCHANGED buffered
            \/ /\ l \in Delayable
               /\ buffered' = buffered \cup {l}
               /\ UNCHANGED waiting
         /\ fresh' = [fresh EXCEPT ![l] = IF l \in sampling THEN @ + 1 ELSE @]
  /\ PointTo("empty")
  /\ UNCHANGED <<flags, count, poll, destructor>>

(* QueueIsEmpty, read by the thread that made the store.                   *)
CheckEmpty ==
  /\ PointAt("empty")
  /\ PointTo(IF waiting[point.lidar] = 0 /\ point.lidar \notin buffered
               THEN "idle" ELSE "count")
  /\ UNCHANGED <<pipeline, flags, count, poll, destructor>>

(* Mutants of CheckCount: it signals once too often, or never.             *)
CheckCountEager ==
  /\ PointAt("count")
  /\ PointTo(IF count <= 1 THEN "signal" ELSE "idle")
  /\ UNCHANGED <<pipeline, flags, count, poll, destructor>>

CheckCountNegative ==
  /\ PointAt("count")
  /\ PointTo("idle")
  /\ UNCHANGED <<pipeline, flags, count, poll, destructor>>

CheckCount ==
  /\ PointAt("count")
  /\ PointTo(IF count <= 0 THEN "signal" ELSE "idle")
  /\ UNCHANGED <<pipeline, flags, count, poll, destructor>>

(* Semaphore::Signal locks a mutex, which empties the store buffer.        *)
Signal ==
  /\ PointAt("signal")
  /\ buffered = {}
  /\ count' = count + 1
  /\ PointTo("idle")
  /\ UNCHANGED <<pipeline, flags, poll, destructor>>

(* A delayed store reaches memory.                                         *)
Flush(l) ==
  /\ l \in buffered
  /\ buffered' = buffered \ {l}
  /\ waiting' = [waiting EXCEPT ![l] = @ + 1]
  /\ UNCHANGED <<flags, count, point, poll, destructor, fresh>>

-----------------------------------------------------------------------------
(* The poll thread.                                                        *)

PollAt(step) == poll.at = step
PollTo(step, l) == poll' = [at |-> step, lidar |-> l]

(* The loop of PointCloudDataPollThread.                                   *)
CheckExitSignal ==
  /\ PollAt("exit_signal")
  /\ PollTo(IF exit_signal THEN "done" ELSE "request_exit", 0)
  /\ UNCHANGED <<pipeline, flags, count, point, destructor>>

(* DistributePointCloudData returns at once when an exit was requested.    *)
CheckRequestExit ==
  /\ PollAt("request_exit")
  /\ PollTo(IF request_exit THEN "exit_signal" ELSE "wait", 0)
  /\ UNCHANGED <<pipeline, flags, count, point, destructor>>

Wait ==
  /\ PollAt("wait")
  /\ count > 0
  /\ count' = count - 1
  /\ PollTo("scan", 0)
  /\ UNCHANGED <<pipeline, flags, point, destructor>>

(* Mutant of NextLidar: the scan leaves out the last lidar.                *)
NextLidarButLast == IF poll.lidar + 2 < LidarCount
                      THEN PollTo("scan", poll.lidar + 1)
                      ELSE PollTo("exit_signal", 0)

NextLidar == IF poll.lidar + 1 < LidarCount
               THEN PollTo("scan", poll.lidar + 1)
               ELSE PollTo("exit_signal", 0)

(* A lidar that is not sampling is passed over.                            *)
ScanLidar ==
  /\ PollAt("scan")
  /\ IF poll.lidar \in sampling THEN PollTo("outer", poll.lidar) ELSE NextLidar
  /\ UNCHANGED <<pipeline, flags, count, point, destructor>>

(* The loop of PollingLidarPointCloudData.                                 *)
PollingLidar ==
  /\ PollAt("outer")
  /\ IF ~request_exit /\ waiting[poll.lidar] > 0
       THEN PollTo("inner", poll.lidar) ELSE NextLidar
  /\ UNCHANGED <<pipeline, flags, count, point, destructor>>

(* Mutant of PublishPointcloud2: one frame of each lidar and wake-up.      *)
PublishOne ==
  /\ PollAt("inner")
  /\ waiting[poll.lidar] > 0
  /\ LET l == poll.lidar
         held == waiting[l] - 1 + Pending(l)
     IN  /\ waiting' = [waiting EXCEPT ![l] = @ - 1]
         /\ fresh' = [fresh EXCEPT ![l] = IF @ > held THEN held ELSE @]
  /\ NextLidar
  /\ UNCHANGED <<buffered, flags, count, point, destructor>>

(* The loop of PublishPointcloud2, which does not look at request_exit.    *)
PublishPointcloud2 ==
  /\ PollAt("inner")
  /\ waiting[poll.lidar] > 0
  /\ LET l == poll.lidar
         held == waiting[l] - 1 + Pending(l)
     IN  /\ waiting' = [waiting EXCEPT ![l] = @ - 1]
         /\ fresh' = [fresh EXCEPT ![l] = IF @ > held THEN held ELSE @]
  /\ UNCHANGED <<buffered, flags, count, point, poll, destructor>>

PublishDone ==
  /\ PollAt("inner")
  /\ waiting[poll.lidar] = 0
  /\ PollTo("outer", poll.lidar)
  /\ UNCHANGED <<pipeline, flags, count, point, destructor>>

-----------------------------------------------------------------------------
(* The destructor of the node, and the world.                              *)

RequestExit ==
  /\ destructor = "running"
  /\ request_exit' = TRUE
  /\ destructor' = "exit_signal"
  /\ UNCHANGED <<pipeline, sampling, exit_signal, traffic, count, point, poll>>

(* Mutant of SetExitSignal: the promise never gets its value.              *)
SetNoExitSignal ==
  /\ destructor = "exit_signal"
  /\ destructor' = "join"
  /\ UNCHANGED <<pipeline, flags, count, point, poll>>

SetExitSignal ==
  /\ destructor = "exit_signal"
  /\ exit_signal' = TRUE
  /\ destructor' = "join"
  /\ UNCHANGED <<pipeline, sampling, request_exit, traffic, count, point, poll>>

JoinPollThread ==
  /\ destructor = "join"
  /\ PollAt("done")
  /\ destructor' = "done"
  /\ UNCHANGED <<pipeline, flags, count, point, poll>>

(* An SDK thread finishes the configuration of a lidar (LidarConfig).      *)
BecomeSampling(l) ==
  /\ l \notin sampling
  /\ sampling' = sampling \cup {l}
  /\ UNCHANGED <<pipeline, request_exit, exit_signal, traffic, count, point,
                 poll, destructor>>

(* The lidars are switched off or the network goes down.                   *)
TrafficStops ==
  /\ traffic
  /\ traffic' = FALSE
  /\ UNCHANGED <<pipeline, sampling, request_exit, exit_signal, count, point,
                 poll, destructor>>

PointThread == \/ CheckFull
               \/ QueuePushAny
               \/ CheckEmpty
               \/ CheckCount
               \/ Signal

PollThread == \/ CheckExitSignal
              \/ CheckRequestExit
              \/ Wait
              \/ ScanLidar
              \/ PollingLidar
              \/ PublishPointcloud2
              \/ PublishDone

Destructor == SetExitSignal \/ JoinPollThread

Next == \/ PointThread
        \/ PollThread
        \/ Destructor
        \/ RequestExit
        \/ TrafficStops
        \/ \E l \in Lidars : StoragePointData(l) \/ Flush(l) \/ BecomeSampling(l)

Spec == Init /\ [][Next]_vars

(* The operating system runs every thread that can run, and the processor  *)
(* empties its store buffer.  Nothing says that frames keep coming.        *)
FairSpec == /\ Spec
            /\ WF_vars(PointThread)
            /\ WF_vars(PollThread)
            /\ WF_vars(Destructor)
            /\ \A l \in Lidars : WF_vars(Flush(l))

-----------------------------------------------------------------------------
(* Properties.                                                             *)

(* The poll thread sleeps and nobody is about to wake it.                  *)
Asleep == /\ PollAt("wait")
          /\ count = 0
          /\ point.at \notin {"push", "empty", "count", "signal"}

(* The point thread never accumulates signals: reading the counter before  *)
(* signalling (lds.cpp:173-175, 178-180) keeps it at one at most, so that  *)
(* after a wake-up at most one more pass comes without a new frame.        *)
SignalBound == count + (IF PointAt("signal") THEN 1 ELSE 0) <= 1

(* How many frames of a lidar can be overlooked: when its store is late,   *)
(* the one it makes visible; the next frame of any lidar finds the counter *)
(* at zero and wakes the poll thread for both.                             *)
Missable(l) == IF l \in Delayable THEN 1 ELSE 0

(* No lost wake-up: while the poll thread sleeps, no lidar holds a frame   *)
(* pushed since it is sampling, but for one whose store came after the     *)
(* load of the counter (lds.cpp:171-173).  And yet a signal is given only  *)
(* when the counter was read as zero, and a wake-up passes over the lidars *)
(* that are not sampling (lddc.cpp:62-64).                                 *)
NoStrandedFrame ==
  Asleep => \A l \in Lidars : l \in sampling => fresh[l] <= Missable(l)

Promise == INSTANCE HandOver
             WITH Late <- Delayable, held <- fresh, asleep <- Asleep

(* The frames of sampling lidars are handed over each once, and the poll   *)
(* thread goes to sleep only when none is left but a late one              *)
(* (lds.cpp:151-184, lddc.cpp:45-73, 94-134): NoStrandedFrame, and besides *)
(* no step adds, loses or repeats a frame, or leaves the thread asleep     *)
(* after a push.                                                           *)
ImplementsHandOver == Promise!HandOverSpec

(* When the lidars fall silent, every frame pushed since its lidar is      *)
(* sampling is published, save a late one, unless the node is being        *)
(* destroyed.                                                              *)
DrainedWhenSilent ==
  \A l \in Lidars :
    (fresh[l] > Missable(l) /\ ~traffic) ~> (fresh[l] <= Missable(l) \/ request_exit)

(* Once the lidars are silent the destructor ends, or else the poll thread *)
(* sleeps in Semaphore::Wait: no other place of its loops (lddc.cpp:52,    *)
(* 97, 117, livox_ros_driver2.cpp:76) can hold it after the request.       *)
ExitUnlessAsleep ==
  (destructor = "join" /\ ~traffic) ~> (destructor = "done" \/ Asleep)

(* The future initialised "for Thread Exit" (livox_ros_driver2.cpp:42)     *)
(* makes the poll thread exit, so that its join in ~DriverNode returns.    *)
ThreadExits == (destructor = "join" /\ ~traffic) ~> (destructor = "done")
=============================================================================
