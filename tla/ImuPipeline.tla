---------------------------- MODULE ImuPipeline ----------------------------
(***************************************************************************)
(* How IMU samples travel from the threads of the SDK (Lds::StorageImuData)*)
(* to the IMU poll thread (DriverNode::ImuDataPollThread).  It differs     *)
(* from the point-cloud path in three ways: any number of SDK threads      *)
(* push, a queue is a list under a mutex that never refuses a sample, and  *)
(* the poll thread takes one sample per round and looks at request_exit_   *)
(* in every round.                                                         *)
(***************************************************************************)
EXTENDS Naturals, FiniteSets

CONSTANTS LidarCount,   \* lidars are 0 .. LidarCount - 1
          Sdk,          \* the SDK threads that deliver IMU samples
          MaxQueue      \* bound on a queue: no more samples arrive then

ASSUME ImuAssumption == /\ LidarCount \in Nat \ {0}
                        /\ IsFiniteSet(Sdk)
                        /\ MaxQueue \in Nat

Lidars == 0 .. (LidarCount - 1)

VARIABLES
  queue,        \* queue[l]: samples in imu_data of lidar l
  sampling,     \* lidars whose connect_state is kConnectStateSampling
  count,        \* imu_semaphore_.count_
  request_exit, \* Lds::request_exit_
  exit_signal,  \* whether exit_signal_ has its value
  traffic,      \* whether the lidars still send samples
  sdk,          \* sdk[t]: [at, lidar], where thread t is in StorageImuData
  poll,         \* [at, lidar], where the poll thread is
  fresh         \* history: samples of l in its queue pushed since l is sampling

flags == <<sampling, request_exit, exit_signal, traffic>>
vars  == <<queue, flags, count, sdk, poll, fresh>>

SdkSteps  == {"idle", "push", "empty", "count", "signal"}
PollSteps == {"exit_signal", "request_exit", "wait", "scan", "empty", "pop", "done"}

SdkAt(t, step) == sdk[t].at = step
Signalling == {t \in Sdk : SdkAt(t, "signal")}

TypeOK == /\ queue \in [Lidars -> 0 .. MaxQueue]
          /\ sampling \subseteq Lidars
          /\ count \in Nat
          /\ {request_exit, exit_signal, traffic} \subseteq BOOLEAN
          /\ sdk \in [Sdk -> [at : SdkSteps, lidar : Lidars]]
          /\ poll \in [at : PollSteps, lidar : Lidars]
          /\ fresh \in [Lidars -> 0 .. MaxQueue]
          /\ \A l \in Lidars : fresh[l] <= queue[l]

Init == /\ queue = [l \in Lidars |-> 0]
        /\ sampling = {}
        /\ count = 0
        /\ request_exit = FALSE
        /\ exit_signal = FALSE
        /\ traffic = TRUE
        /\ sdk = [t \in Sdk |-> [at |-> "idle", lidar |-> 0]]
        /\ poll = [at |-> "exit_signal", lidar |-> 0]
        /\ fresh = [l \in Lidars |-> 0]

-----------------------------------------------------------------------------
(* The SDK threads.                                                        *)

SdkTo(t, step) == sdk' = [sdk EXCEPT ![t].at = step]

(* A sample arrives, and the lidar's index is found.  The driver itself    *)
(* has no bound on the queue; MaxQueue bounds the samples that arrive.     *)
Arriving(l) == {t \in Sdk : sdk[t] = [at |-> "push", lidar |-> l]}

StorageImuData(t, l) ==
  /\ SdkAt(t, "idle")
  /\ traffic
  /\ queue[l] + Cardinality(Arriving(l)) < MaxQueue
  /\ sdk' = [sdk EXCEPT ![t] = [at |-> "push", lidar |-> l]]
  /\ UNCHANGED <<queue, flags, count, poll, fresh>>

Push(t) ==
  /\ SdkAt(t, "push")
  /\ LET l == sdk[t].lidar
     IN  /\ queue' = [queue EXCEPT ![l] = @ + 1]
         /\ fresh' = [fresh EXCEPT ![l] = IF l \in sampling THEN @ + 1 ELSE @]
  /\ SdkTo(t, "empty")
  /\ UNCHANGED <<flags, count, poll>>

CheckEmpty(t) ==
  /\ SdkAt(t, "empty")
  /\ SdkTo(t, IF queue[sdk[t].lidar] = 0 THEN "idle" ELSE "count")
  /\ UNCHANGED <<queue, flags, count, poll, fresh>>

(* Mutants of CheckCount: it signals once too often, or never.             *)
CheckCountEager(t) ==
  /\ SdkAt(t, "count")
  /\ SdkTo(t, IF count <= 1 THEN "signal" ELSE "idle")
  /\ UNCHANGED <<queue, flags, count, poll, fresh>>

CheckCountNegative(t) ==
  /\ SdkAt(t, "count")
  /\ SdkTo(t, "idle")
  /\ UNCHANGED <<queue, flags, count, poll, fresh>>

(* GetCount reads the counter without the semaphore's mutex.               *)
CheckCount(t) ==
  /\ SdkAt(t, "count")
  /\ SdkTo(t, IF count <= 0 THEN "signal" ELSE "idle")
  /\ UNCHANGED <<queue, flags, count, poll, fresh>>

Signal(t) ==
  /\ SdkAt(t, "signal")
  /\ count' = count + 1
  /\ SdkTo(t, "idle")
  /\ UNCHANGED <<queue, flags, poll, fresh>>

-----------------------------------------------------------------------------
(* The poll thread.                                                        *)

PollAt(step) == poll.at = step
PollTo(step, l) == poll' = [at |-> step, lidar |-> l]

CheckExitSignal ==
  /\ PollAt("exit_signal")
  /\ PollTo(IF exit_signal THEN "done" ELSE "request_exit", 0)
  /\ UNCHANGED <<queue, flags, count, sdk, fresh>>

(* Mutant of CheckRequestExit: the request is overlooked by the loop, and  *)
(* the thread goes round without waiting.                                  *)
CheckNoRequestExit ==
  /\ PollAt("request_exit")
  /\ PollTo(IF request_exit THEN "request_exit" ELSE "wait", 0)
  /\ UNCHANGED <<queue, flags, count, sdk, fresh>>

CheckRequestExit ==
  /\ PollAt("request_exit")
  /\ PollTo(IF request_exit THEN "exit_signal" ELSE "wait", 0)
  /\ UNCHANGED <<queue, flags, count, sdk, fresh>>

Wait ==
  /\ PollAt("wait")
  /\ count > 0
  /\ count' = count - 1
  /\ PollTo("scan", 0)
  /\ UNCHANGED <<queue, flags, sdk, fresh>>

(* Mutant of NextLidar: the scan leaves out the last lidar.                *)
NextLidarButLast == IF poll.lidar + 2 < LidarCount
                      THEN PollTo("scan", poll.lidar + 1)
                      ELSE PollTo("exit_signal", 0)

NextLidar == IF poll.lidar + 1 < LidarCount
               THEN PollTo("scan", poll.lidar + 1)
               ELSE PollTo("exit_signal", 0)

ScanLidar ==
  /\ PollAt("scan")
  /\ IF poll.lidar \in sampling THEN PollTo("empty", poll.lidar) ELSE NextLidar
  /\ UNCHANGED <<queue, flags, count, sdk, fresh>>

(* The loop of PollingLidarImuData.                                        *)
PollingLidarImuData ==
  /\ PollAt("empty")
  /\ IF ~request_exit /\ queue[poll.lidar] > 0
       THEN PollTo("pop", poll.lidar) ELSE NextLidar
  /\ UNCHANGED <<queue, flags, count, sdk, fresh>>

(* Mutant of Pop: the sample is copied but stays in the list.              *)
PopNothing ==
  /\ PollAt("pop")
  /\ PollTo("empty", poll.lidar)
  /\ UNCHANGED <<queue, flags, count, sdk, fresh>>

(* Mutant of Pop: the length of the list is not looked at again.           *)
PopTwice ==
  /\ PollAt("pop")
  /\ LET l == poll.lidar
     IN  /\ queue' = [queue EXCEPT ![l] = @ - 2]
         /\ fresh' = [fresh EXCEPT ![l] = IF @ = queue[l] THEN @ - 1 ELSE @]
  /\ PollTo("empty", poll.lidar)
  /\ UNCHANGED <<flags, count, sdk>>

(* PublishImuData.                                                         *)
Pop ==
  /\ PollAt("pop")
  /\ LET l == poll.lidar
     IN  /\ queue' = [queue EXCEPT ![l] = @ - 1]
         /\ fresh' = [fresh EXCEPT ![l] = IF @ = queue[l] THEN @ - 1 ELSE @]
  /\ PollTo("empty", poll.lidar)
  /\ UNCHANGED <<flags, count, sdk>>

-----------------------------------------------------------------------------
(* ~DriverNode, and the world.                                             *)

RequestExit ==
  /\ ~request_exit
  /\ request_exit' = TRUE
  /\ UNCHANGED <<queue, sampling, exit_signal, traffic, count, sdk, poll, fresh>>

SetExitSignal ==
  /\ request_exit
  /\ ~exit_signal
  /\ exit_signal' = TRUE
  /\ UNCHANGED <<queue, sampling, request_exit, traffic, count, sdk, poll, fresh>>

BecomeSampling(l) ==
  /\ l \notin sampling
  /\ sampling' = sampling \cup {l}
  /\ UNCHANGED <<queue, request_exit, exit_signal, traffic, count, sdk, poll, fresh>>

TrafficStops ==
  /\ traffic
  /\ traffic' = FALSE
  /\ UNCHANGED <<queue, sampling, request_exit, exit_signal, count, sdk, poll, fresh>>

SdkThread(t) == Push(t) \/ CheckEmpty(t) \/ CheckCount(t) \/ Signal(t)

PollThread == \/ CheckExitSignal
              \/ CheckRequestExit
              \/ Wait
              \/ ScanLidar
              \/ PollingLidarImuData
              \/ Pop

Next == \/ PollThread
        \/ RequestExit
        \/ SetExitSignal
        \/ TrafficStops
        \/ \E t \in Sdk : SdkThread(t) \/ \E l \in Lidars : StorageImuData(t, l)
        \/ \E l \in Lidars : BecomeSampling(l)

Spec == Init /\ [][Next]_vars

(* Every thread that can run does; nothing says that samples keep coming.  *)
FairSpec == /\ Spec
            /\ WF_vars(PollThread)
            /\ WF_vars(SetExitSignal)
            /\ \A t \in Sdk : WF_vars(SdkThread(t))

-----------------------------------------------------------------------------
(* Properties.                                                             *)

Asleep == /\ PollAt("wait")
          /\ count = 0
          /\ \A t \in Sdk : sdk[t].at \in {"idle", "push"}

(* The counter is read and incremented under different locks               *)
(* (lds.cpp:105-107), so several threads may all find it zero; but no more *)
(* than one signal of each thread is ever pending.                         *)
SignalBound == count + Cardinality(Signalling) <= Cardinality(Sdk)

(* No lost wake-up, whichever of the threads read the counter, and however *)
(* their pushes interleave with the poll thread's scan (lds.cpp:103-108,   *)
(* lddc.cpp:79-88).                                                        *)
NoStrandedSample == Asleep => \A l \in Lidars : fresh[l] = 0

Promise == INSTANCE HandOver WITH Late <- {}, held <- fresh, asleep <- Asleep

(* The samples of sampling lidars are handed over each once, and the poll  *)
(* thread goes to sleep only when none is left (lds.cpp:97-108,            *)
(* lddc.cpp:75-108): NoStrandedSample, and besides no step adds, loses or  *)
(* repeats a sample, or leaves the thread asleep after a push.             *)
ImplementsHandOver == Promise!HandOverSpec

(* When the lidars fall silent all their samples are published, unless the *)
(* node is being destroyed.                                                *)
DrainedWhenSilent ==
  \A l \in Lidars :
    (fresh[l] > 0 /\ ~traffic) ~> (fresh[l] = 0 \/ request_exit)

(* After the exit was signalled the poll thread ends or sleeps, even when  *)
(* samples keep arriving: unlike the point-cloud loop this one looks at    *)
(* request_exit_ before every sample (lddc.cpp:104).                       *)
EndsOrSleeps == exit_signal ~> (PollAt("done") \/ Asleep)
=============================================================================
