--------------------------- MODULE DriverLifecycle ---------------------------
(***************************************************************************)
(* The life cycle of the driver inside a component container: the          *)
(* constructor of DriverNode, the objects that outlive it (the LdsLidar of *)
(* GetInstance, pub_handler() and the SDK), the timer that publishes the   *)
(* transforms, ~DriverNode with the members it destroys, further loads in  *)
(* the same process, and the destruction of the static objects when the    *)
(* process ends.                                                           *)
(*                                                                         *)
(* The lidars are taken as sampling, and what waits for a poll thread is   *)
(* one bit for each kind of data: the two pipelines have the rest.         *)
(***************************************************************************)
EXTENDS Naturals

CONSTANTS Loads,     \* the container loads the driver this many times
          MaxRaw     \* bound on raw_packet_queue_: no packet arrives then

ASSUME LifecycleAssumption == Loads \in Nat \ {0} /\ MaxRaw \in Nat \ {0}

Nodes == 1 .. Loads
Kinds == {"pcd", "imu"}

VARIABLES
  node,           \* node[n]: where the n-th DriverNode is in its life
  timer,          \* post_init_timer_ of each node
  poll,           \* poll[n][k]: where the poll thread of kind k is
  is_initialized, \* LdsLidar::is_initialized_
  livox_type,     \* whether lidar_summary_info_.lidar_type has the Livox bit
  request_exit,   \* Lds::request_exit_
  sdk,            \* whether the threads of the SDK run
  observers,      \* how often the SDK calls the point cloud observer
  callbacks,      \* what pub_handler() has got so far
  point,          \* the point thread
  is_quit,        \* PubHandler::is_quit_
  raw,            \* packets in raw_packet_queue_
  queued,         \* whether data of a kind waits for its poll thread
  count,          \* pcd_semaphore_.count_ and imu_semaphore_.count_
  exit            \* where the destruction of the static objects is

lds  == <<is_initialized, livox_type, request_exit>>
pub  == <<observers, callbacks, point, is_quit>>
data == <<raw, queued, count>>
vars == <<node, timer, poll, lds, sdk, pub, data, exit>>

Settings == {"points", "imu_client", "imu_callback", "interval"}
Constructing == {"init", "observe", "imu_client", "imu_callback", "interval",
                 "point_thread", "initialized", "poll"}
Destroying == {"exit_signal", "join_pcd", "join_imu", "members", "lddc"}

TypeOK ==
  /\ node \in [Nodes -> Constructing \cup Destroying
                          \cup {"absent", "loaded", "released", "gone"}]
  /\ timer \in [Nodes -> {"off", "armed", "taken", "publishing", "stale"}]
  /\ poll \in [Nodes -> [Kinds -> {"none", "sleep", "exit_signal", "request_exit",
                                   "wait", "scan", "publish", "done"}]]
  /\ {is_initialized, livox_type, request_exit, sdk, is_quit} \subseteq BOOLEAN
  /\ observers \in Nat
  /\ callbacks \subseteq Settings
  /\ point \in {"none", "running", "done"}
  /\ raw \in 0 .. MaxRaw
  /\ queued \subseteq Kinds
  /\ count \in [Kinds -> Nat]
  /\ exit \in {"running", "join", "lds", "done"}

Init ==
  /\ node = [n \in Nodes |-> "absent"]
  /\ timer = [n \in Nodes |-> "off"]
  /\ poll = [n \in Nodes |-> [k \in Kinds |-> "none"]]
  /\ is_initialized = FALSE /\ livox_type = FALSE /\ request_exit = FALSE
  /\ sdk = FALSE
  /\ observers = 0 /\ callbacks = {} /\ point = "none" /\ is_quit = FALSE
  /\ raw = 0 /\ queued = {} /\ count = [k \in Kinds |-> 0]
  /\ exit = "running"

NodeTo(n, phase) == node' = [node EXCEPT ![n] = phase]
Present(n) == node[n] \notin {"absent", "gone"}

-----------------------------------------------------------------------------
(* The constructor.                                                        *)

(* The container loads one driver at a time, as the launch files do.       *)
(* GetInstance makes the LdsLidar, or finds the one of an earlier load.    *)
Load(n) ==
  /\ node[n] = "absent"
  /\ \A m \in Nodes : ~Present(m) /\ (m < n => node[m] = "gone")
  /\ exit = "running"
  /\ NodeTo(n, "init")
  /\ UNCHANGED <<timer, poll, lds, sdk, pub, data, exit>>

(* Mutant of RefuseInit: a second load initialises everything again.       *)
RefuseNoInit(n) ==
  /\ node[n] = "init" /\ is_initialized
  /\ NodeTo(n, "observe")
  /\ sdk' = livox_type
  /\ UNCHANGED <<timer, poll, lds, pub, data, exit>>

(* "Lds is already inited!"  The constructor goes on all the same.         *)
RefuseInit(n) ==
  /\ node[n] = "init" /\ is_initialized
  /\ NodeTo(n, "poll")
  /\ UNCHANGED <<timer, poll, lds, sdk, pub, data, exit>>

(* The summary cannot be parsed, or the SDK does not start.                *)
InitLidarsFails(n) ==
  /\ node[n] = "init" /\ ~is_initialized
  /\ NodeTo(n, "poll")
  /\ \/ UNCHANGED livox_type
     \/ livox_type' = TRUE
  /\ UNCHANGED <<timer, poll, is_initialized, request_exit, sdk, pub, data, exit>>

(* InitLivoxLidar is left out for other types of lidar.                    *)
InitLidars(n, livox) ==
  /\ node[n] = "init" /\ ~is_initialized
  /\ livox_type' = livox
  /\ sdk' = livox
  /\ NodeTo(n, "observe")
  /\ UNCHANGED <<timer, poll, is_initialized, request_exit, pub, data, exit>>

(* SetPointCloudsCallback: the observer is added last, and from then on    *)
(* the threads of the SDK bring packets.                                   *)
SetPointCloudsCallback(n) ==
  /\ node[n] = "observe"
  /\ callbacks' = callbacks \cup {"points"}
  /\ observers' = observers + 1
  /\ NodeTo(n, "imu_client")
  /\ UNCHANGED <<timer, poll, lds, sdk, point, is_quit, data, exit>>

SetImuClient(n) ==
  /\ node[n] = "imu_client"
  /\ callbacks' = callbacks \cup {"imu_client"}
  /\ NodeTo(n, "imu_callback")
  /\ UNCHANGED <<timer, poll, lds, sdk, observers, point, is_quit, data, exit>>

SetImuCallback(n) ==
  /\ node[n] = "imu_callback"
  /\ callbacks' = callbacks \cup {"imu_callback"}
  /\ NodeTo(n, "interval")
  /\ UNCHANGED <<timer, poll, lds, sdk, observers, point, is_quit, data, exit>>

(* Mutant of SetInterval: the thread is started before the interval is set.*)
SetIntervalLate(n) ==
  /\ node[n] = "interval"
  /\ point' = "running"
  /\ NodeTo(n, "point_thread")
  /\ UNCHANGED <<timer, poll, lds, sdk, observers, callbacks, is_quit, data, exit>>

(* SetPointCloudConfig sets the interval, then starts the point thread.    *)
SetInterval(n) ==
  /\ node[n] = "interval"
  /\ callbacks' = callbacks \cup {"interval"}
  /\ NodeTo(n, "point_thread")
  /\ UNCHANGED <<timer, poll, lds, sdk, observers, point, is_quit, data, exit>>

StartPointThread(n) ==
  /\ node[n] = "point_thread"
  /\ point' = IF point = "none" THEN "running" ELSE point
  /\ NodeTo(n, "initialized")
  /\ UNCHANGED <<timer, poll, lds, sdk, observers, callbacks, is_quit, data, exit>>

(* Mutant of InitDone: nobody remembers that the SDK was started.          *)
InitForgotten(n) ==
  /\ node[n] = "initialized"
  /\ NodeTo(n, "poll")
  /\ UNCHANGED <<timer, poll, lds, sdk, pub, data, exit>>

InitDone(n) ==
  /\ node[n] = "initialized"
  /\ is_initialized' = TRUE
  /\ NodeTo(n, "poll")
  /\ UNCHANGED <<timer, poll, livox_type, request_exit, sdk, pub, data, exit>>

(* Mutant of StartPolling: a new load takes the request to exit back.      *)
StartPollingAgain(n) ==
  /\ node[n] = "poll"
  /\ timer' = [timer EXCEPT ![n] = "armed"]
  /\ poll' = [poll EXCEPT ![n] = [k \in Kinds |-> "sleep"]]
  /\ NodeTo(n, "loaded")
  /\ request_exit' = FALSE
  /\ UNCHANGED <<is_initialized, livox_type, sdk, pub, data, exit>>

(* The timer and both threads are made whether InitLdsLidar succeeded or   *)
(* not.                                                                    *)
StartPolling(n) ==
  /\ node[n] = "poll"
  /\ timer' = [timer EXCEPT ![n] = "armed"]
  /\ poll' = [poll EXCEPT ![n] = [k \in Kinds |-> "sleep"]]
  /\ NodeTo(n, "loaded")
  /\ UNCHANGED <<lds, sdk, pub, data, exit>>

-----------------------------------------------------------------------------
(* The timer, run by a thread of the executor.                             *)

TimerTo(n, step) == timer' = [timer EXCEPT ![n] = step]

(* The executor picks the timer up as long as the container has the node.  *)
TakeTimer(n) ==
  /\ node[n] = "loaded"
  /\ timer[n] = "armed"
  /\ TimerTo(n, "taken")
  /\ UNCHANGED <<node, poll, lds, sdk, pub, data, exit>>

(* OnAfterConstruction takes a reference to the node; when the last one    *)
(* was dropped already, shared_from_this throws and nothing is published.  *)
SharedFromThis(n) ==
  /\ timer[n] = "taken"
  /\ node[n] # "gone"
  /\ TimerTo(n, IF node[n] = "loaded" THEN "publishing" ELSE "off")
  /\ UNCHANGED <<node, poll, lds, sdk, pub, data, exit>>

(* A callback that was picked up before the node was unloaded can start    *)
(* after it was destroyed: `this' is then undefined, and what the callback *)
(* does is not modelled further.                                           *)
StaleTimer(n) ==
  /\ timer[n] = "taken"
  /\ node[n] = "gone"
  /\ TimerTo(n, "stale")
  /\ UNCHANGED <<node, poll, lds, sdk, pub, data, exit>>

(* PublishTFs; the timer goes off again in 200 ms.                         *)
PublishTFs(n) ==
  /\ timer[n] = "publishing"
  /\ TimerTo(n, "armed")
  /\ UNCHANGED <<node, poll, lds, sdk, pub, data, exit>>

-----------------------------------------------------------------------------
(* The poll threads of node n.                                             *)

PollAt(n, k, step) == poll[n][k] = step
PollTo(n, k, step) == poll' = [poll EXCEPT ![n][k] = step]

(* They sleep for three seconds first.                                     *)
Awake(n, k) ==
  /\ PollAt(n, k, "sleep")
  /\ PollTo(n, k, "exit_signal")
  /\ UNCHANGED <<node, timer, lds, sdk, pub, data, exit>>

ExitSignalled(n) == node[n] \in {"join_pcd", "join_imu", "members", "lddc", "gone"}

CheckExitSignal(n, k) ==
  /\ PollAt(n, k, "exit_signal")
  /\ PollTo(n, k, IF ExitSignalled(n) THEN "done" ELSE "request_exit")
  /\ UNCHANGED <<node, timer, lds, sdk, pub, data, exit>>

CheckRequestExit(n, k) ==
  /\ PollAt(n, k, "request_exit")
  /\ PollTo(n, k, IF request_exit THEN "exit_signal" ELSE "wait")
  /\ UNCHANGED <<node, timer, lds, sdk, pub, data, exit>>

(* Mutant of Wait: the thread wakes up without a signal and goes on.       *)
WaitSpurious(n, k) ==
  /\ PollAt(n, k, "wait")
  /\ count' = [count EXCEPT ![k] = @ - 1]
  /\ PollTo(n, k, "scan")
  /\ UNCHANGED <<node, timer, lds, sdk, pub, raw, queued, exit>>

Wait(n, k) ==
  /\ PollAt(n, k, "wait")
  /\ count[k] > 0
  /\ count' = [count EXCEPT ![k] = @ - 1]
  /\ PollTo(n, k, "scan")
  /\ UNCHANGED <<node, timer, lds, sdk, pub, raw, queued, exit>>

(* Mutant of PollingLidar: the loops do not look at the request either.    *)
PollingLidarOn(n, k) ==
  /\ PollAt(n, k, "scan")
  /\ PollTo(n, k, IF k \in queued THEN "publish" ELSE "exit_signal")
  /\ UNCHANGED <<node, timer, lds, sdk, pub, data, exit>>

(* The scan of DistributePointCloudData or DistributeImuData with the loop *)
(* of PollingLidarPointCloudData or PollingLidarImuData, as if there were  *)
(* one lidar.                                                              *)
PollingLidar(n, k) ==
  /\ PollAt(n, k, "scan")
  /\ PollTo(n, k, IF ~request_exit /\ k \in queued THEN "publish" ELSE "exit_signal")
  /\ UNCHANGED <<node, timer, lds, sdk, pub, data, exit>>

(* It stays as long as it finds frames, whether the thread is to end or    *)
(* not.                                                                    *)
PublishPointcloud2(n) ==
  /\ PollAt(n, "pcd", "publish")
  /\ queued' = queued \ {"pcd"}
  /\ PollTo(n, "pcd", IF "pcd" \in queued THEN "publish" ELSE "scan")
  /\ UNCHANGED <<node, timer, lds, sdk, pub, raw, count, exit>>

PublishImuData(n) ==
  /\ PollAt(n, "imu", "publish")
  /\ queued' = queued \ {"imu"}
  /\ PollTo(n, "imu", "scan")
  /\ UNCHANGED <<node, timer, lds, sdk, pub, raw, count, exit>>

-----------------------------------------------------------------------------
(* The threads of the SDK and the point thread.                            *)

Store(k) == /\ queued' = queued \cup {k}
            /\ count' = [count EXCEPT ![k] = IF @ = 0 THEN 1 ELSE @]

(* OnLivoxLidarPointCloudCallback.  Packets with points wait for the point *)
(* thread, even before there is one; an IMU sample that comes before its   *)
(* callback is set is dropped.                                             *)
DeliverPoints ==
  /\ sdk /\ observers > 0
  /\ raw + observers <= MaxRaw
  /\ raw' = raw + observers
  /\ UNCHANGED <<node, timer, poll, lds, sdk, pub, queued, count, exit>>

DeliverImu ==
  /\ sdk /\ observers > 0
  /\ "imu_callback" \in callbacks
  /\ Store("imu")
  /\ UNCHANGED <<node, timer, poll, lds, sdk, pub, raw, exit>>

(* RawDataProcess: a packet may complete a frame.                          *)
RawDataProcess ==
  /\ point = "running" /\ ~is_quit
  /\ raw > 0
  /\ raw' = raw - 1
  /\ Store("pcd") \/ UNCHANGED <<queued, count>>
  /\ UNCHANGED <<node, timer, poll, lds, sdk, pub, exit>>

PointThreadQuits ==
  /\ point = "running" /\ is_quit
  /\ point' = "done"
  /\ UNCHANGED <<node, timer, poll, lds, sdk, observers, callbacks, is_quit, data, exit>>

-----------------------------------------------------------------------------
(* The destructor.                                                         *)

(* The container unloads the node, or the process ends: the reference of   *)
(* the container is dropped.                                               *)
Unload(n) ==
  /\ node[n] = "loaded"
  /\ NodeTo(n, "released")
  /\ UNCHANGED <<timer, poll, lds, sdk, pub, data, exit>>

(* ~DriverNode begins with the last reference, which a timer callback may  *)
(* hold.                                                                   *)
RequestExit(n) ==
  /\ node[n] = "released"
  /\ timer[n] # "publishing"
  /\ request_exit' = TRUE
  /\ NodeTo(n, "exit_signal")
  /\ UNCHANGED <<timer, poll, is_initialized, livox_type, sdk, pub, data, exit>>

SetExitSignal(n) ==
  /\ node[n] = "exit_signal"
  /\ NodeTo(n, "join_pcd")
  /\ UNCHANGED <<timer, poll, lds, sdk, pub, data, exit>>

JoinPointCloudDataPollThread(n) ==
  /\ node[n] = "join_pcd"
  /\ PollAt(n, "pcd", "done")
  /\ NodeTo(n, "join_imu")
  /\ UNCHANGED <<timer, poll, lds, sdk, pub, data, exit>>

JoinImuDataPollThread(n) ==
  /\ node[n] = "join_imu"
  /\ PollAt(n, "imu", "done")
  /\ NodeTo(n, "members")
  /\ UNCHANGED <<timer, poll, lds, sdk, pub, data, exit>>

(* The members go in the reverse of their order: the timer first, ...      *)
DestroyTimer(n) ==
  /\ node[n] = "members"
  /\ TimerTo(n, IF timer[n] = "armed" THEN "off" ELSE timer[n])
  /\ NodeTo(n, "lddc")
  /\ UNCHANGED <<poll, lds, sdk, pub, data, exit>>

(* ... lddc_ptr_ last: ~Lddc calls PrepareExit and DeInitLdsLidar, which   *)
(* does nothing unless InitLdsLidar succeeded once.                        *)
DestroyLddc(n) ==
  /\ node[n] = "lddc"
  /\ sdk' = (sdk /\ ~(is_initialized /\ livox_type))
  /\ NodeTo(n, "gone")
  /\ UNCHANGED <<timer, poll, lds, pub, data, exit>>

-----------------------------------------------------------------------------
(* The end of the process: pub_handler() was made after the LdsLidar and   *)
(* goes first.                                                             *)

Uninit ==
  /\ exit = "running"
  /\ \A n \in Nodes : ~Present(n)
  /\ observers' = 0
  /\ is_quit' = TRUE
  /\ exit' = "join"
  /\ UNCHANGED <<node, timer, poll, lds, sdk, callbacks, point, data>>

(* Mutant of JoinPointThread: the thread is not waited for.                *)
DetachPointThread ==
  /\ exit = "join"
  /\ exit' = "lds"
  /\ UNCHANGED <<node, timer, poll, lds, sdk, pub, data>>

JoinPointThread ==
  /\ exit = "join"
  /\ point \in {"none", "done"}
  /\ exit' = "lds"
  /\ UNCHANGED <<node, timer, poll, lds, sdk, pub, data>>

(* ~Lds frees the slots of all queues.                                     *)
DestroyLds ==
  /\ exit = "lds"
  /\ exit' = "done"
  /\ UNCHANGED <<node, timer, poll, lds, sdk, pub, data>>

Construct(n) ==
  \/ RefuseInit(n)
  \/ InitLidarsFails(n)
  \/ \E livox \in BOOLEAN : InitLidars(n, livox)
  \/ SetPointCloudsCallback(n)
  \/ SetImuClient(n)
  \/ SetImuCallback(n)
  \/ SetInterval(n)
  \/ StartPointThread(n)
  \/ InitDone(n)
  \/ StartPolling(n)

Destroy(n) ==
  \/ RequestExit(n)
  \/ SetExitSignal(n)
  \/ JoinPointCloudDataPollThread(n)
  \/ JoinImuDataPollThread(n)
  \/ DestroyTimer(n)
  \/ DestroyLddc(n)

TimerCallback(n) ==
  \/ TakeTimer(n)
  \/ SharedFromThis(n)
  \/ StaleTimer(n)
  \/ PublishTFs(n)

PollThread(n, k) ==
  \/ Awake(n, k)
  \/ CheckExitSignal(n, k)
  \/ CheckRequestExit(n, k)
  \/ Wait(n, k)
  \/ PollingLidar(n, k)
  \/ k = "pcd" /\ PublishPointcloud2(n)
  \/ k = "imu" /\ PublishImuData(n)

PointThread == RawDataProcess \/ PointThreadQuits
StaticObjects == JoinPointThread \/ DestroyLds

Next ==
  \/ \E n \in Nodes : \/ Load(n)
                      \/ Construct(n)
                      \/ TimerCallback(n)
                      \/ Unload(n)
                      \/ Destroy(n)
                      \/ \E k \in Kinds : PollThread(n, k)
  \/ DeliverPoints
  \/ DeliverImu
  \/ PointThread
  \/ Uninit
  \/ StaticObjects

Spec == Init /\ [][Next]_vars

(* Every thread that can run does.  Nothing says that the container ever   *)
(* loads or unloads a node, or that packets arrive.                        *)
FairSpec ==
  /\ Spec
  /\ \A n \in Nodes : /\ WF_vars(Construct(n))
                      /\ WF_vars(TimerCallback(n))
                      /\ WF_vars(Destroy(n))
                      /\ \A k \in Kinds : WF_vars(PollThread(n, k))
  /\ WF_vars(PointThread)
  /\ WF_vars(StaticObjects)

-----------------------------------------------------------------------------
(* Properties.                                                             *)

(* Nothing is destroyed under a thread that uses it.  An Lddc goes when    *)
(* neither poll thread of its node can use it again (driver_node.cpp:23-24 *)
(* comes before the members).  A callback that publishes transforms keeps  *)
(* its node alive, though the container unloads it meanwhile               *)
(* (shared_from_this, livox_ros_driver2.cpp:95).  The slots of the queues  *)
(* are freed (lds.cpp:36-40, ldq.cpp:53-60) when none of the threads of the*)
(* SDK, the point thread and the poll threads of all loads is left.        *)
LddcUntouched ==
  \A n \in Nodes : node[n] = "gone" => \A k \in Kinds : PollAt(n, k, "done")

TimerHoldsNode ==
  \A n \in Nodes : timer[n] = "publishing" => node[n] \in {"loaded", "released"}

QueuesUntouched ==
  exit = "done" =>
    /\ ~sdk
    /\ point # "running"
    /\ \A n \in Nodes, k \in Kinds : poll[n][k] \in {"none", "done"}

DestroyedUntouched == LddcUntouched /\ TimerHoldsNode /\ QueuesUntouched

(* The SDK runs only while there is a node, whatever failed while it was   *)
(* loaded: DeInitLdsLidar relies on is_initialized_ (lds_lidar.cpp:178),   *)
(* which is set several steps after the SDK was started.                   *)
SdkStopsWithNode == (\A n \in Nodes : ~Present(n)) => ~sdk

(* What a thread uses is there when it first can: the interval and the     *)
(* callback of the point thread, which divides by the one and calls the    *)
(* other (pub_handler.cpp:145, 155), and the client data of the IMU        *)
(* callback, stored while the threads of the SDK already run               *)
(* (pub_handler.cpp:61-64).                                                *)
ReadyBeforeUse ==
  /\ point = "running" => {"points", "interval"} \subseteq callbacks
  /\ "imu_callback" \in callbacks => "imu_client" \in callbacks

(* However often the driver is loaded, the SDK hands each packet over      *)
(* once: every call of SetPointCloudsCallback adds an observer             *)
(* (pub_handler.cpp:81), and only ~PubHandler removes one.                 *)
OneObserver == observers <= 1

(* A poll thread of n sleeps in Semaphore::Wait and nobody will wake it.   *)
Asleep(n, k) == PollAt(n, k, "wait") /\ count[k] = 0

(* The lidars send points only for a time; IMU samples may go on.          *)
PointsStop == <>[][~DeliverPoints]_vars

(* A node can be destroyed unless one of its threads sleeps: also one that *)
(* failed to initialise, and one that is unloaded in its first three       *)
(* seconds (driver_node.cpp:20-25).  The SDK is stopped only after both    *)
(* joins, so its threads bring data meanwhile: that the samples end is not *)
(* needed, because the loop of PollingLidarImuData looks at request_exit_  *)
(* (lddc.cpp:104), but that the points do, because the inner loop of       *)
(* PublishPointcloud2 does not (lddc.cpp:117).                             *)
UnloadEndsOrSleeps ==
  PointsStop =>
    \A n \in Nodes :
      node[n] = "released" ~> (node[n] = "gone" \/ \E k \in Kinds : Asleep(n, k))

(* After an unload the next node of the process can always be unloaded:    *)
(* request_exit_ is never reset (lds.cpp:62-64), so its threads never wait *)
(* for a lidar.                                                            *)
ReloadedUnloads ==
  \A n \in Nodes \ {1} : node[n] = "released" ~> node[n] = "gone"
=============================================================================
