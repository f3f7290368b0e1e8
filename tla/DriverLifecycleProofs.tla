----------------------- MODULE DriverLifecycleProofs -----------------------
(***************************************************************************)
(* Proofs about the life cycle of the driver, for any number of loads.     *)
(***************************************************************************)
EXTENDS DriverLifecycle, TLAPS

(* One node at a time.                                                     *)
Alone == \A m, n \in Nodes : Present(m) /\ Present(n) => m = n

(* The constructor is between SetPointCloudsCallback and InitDone.         *)
Registering ==
  {"imu_client", "imu_callback", "interval", "point_thread", "initialized"}

(* Or the SDK may run already, but has no observer yet.                    *)
Starting == {"observe"} \cup Registering

(* A load that is at one of these places is the first to get so far: an    *)
(* observer that is there already is its own, or is_initialized_ is set.   *)
Registered ==
  /\ OneObserver
  /\ \A n \in Nodes : node[n] \in Starting => ~is_initialized
  /\ observers # 0 => is_initialized \/ \E n \in Nodes : node[n] \in Registering

(* A running SDK has a node that will stop it.                             *)
SdkOwned ==
  sdk => /\ livox_type
         /\ \E n \in Nodes : Present(n)
         /\ is_initialized \/ \E n \in Nodes : node[n] \in Starting

(* What the constructor has set when it is at each place.                  *)
Prepared ==
  /\ ReadyBeforeUse
  /\ \A n \in Nodes :
       /\ node[n] \in Registering => "points" \in callbacks
       /\ node[n] = "imu_callback" => "imu_client" \in callbacks
       /\ node[n] = "point_thread" => "interval" \in callbacks

(* The threads of a node have ended where the destructor has joined them.  *)
Joined ==
  \A n \in Nodes :
    /\ node[n] = "absent" => \A k \in Kinds : PollAt(n, k, "none")
    /\ node[n] \in {"join_imu", "members", "lddc", "gone"} =>
         PollAt(n, "pcd", "done")
    /\ node[n] \in {"members", "lddc", "gone"} => PollAt(n, "imu", "done")

(* The static objects go when no node is left, and ~Lds comes last.        *)
Ended ==
  /\ exit # "running" => \A n \in Nodes : ~Present(n)
  /\ exit \in {"lds", "done"} => point # "running"

IInv == /\ TypeOK /\ Alone /\ Registered /\ SdkOwned /\ Prepared
        /\ Joined /\ TimerHoldsNode /\ Ended

(* What the steps that are no part of starting or stopping leave alone,    *)
(* but for the end of the point thread.                                    *)
Elsewhere ==
  /\ UNCHANGED <<node, lds, sdk, observers, callbacks, exit>>
  /\ point' \in {point, "done"}

(* Each action assigns values of the right kind; only raw_packet_queue_    *)
(* needs its guards.                                                       *)
LEMMA TypeOKStep ==
  ASSUME TypeOK, [Next]_vars
  PROVE  TypeOK'
<1> USE DEF TypeOK, Constructing, Destroying, Kinds, NodeTo, TimerTo,
    PollTo, lds, pub, data
<1>1. ASSUME NEW n \in Nodes, Load(n) \/ Unload(n) PROVE TypeOK'
  BY <1>1 DEF Load, Unload
<1>2. ASSUME NEW n \in Nodes, Construct(n) PROVE TypeOK'
  <2>1. ASSUME RefuseInit(n) PROVE TypeOK'
    BY <2>1 DEF RefuseInit
  <2>2. ASSUME InitLidarsFails(n) PROVE TypeOK'
    BY <2>2 DEF InitLidarsFails
  <2>3. ASSUME NEW livox \in BOOLEAN, InitLidars(n, livox) PROVE TypeOK'
    BY <2>3 DEF InitLidars
  <2>4. ASSUME SetPointCloudsCallback(n) PROVE TypeOK'
    BY <2>4 DEF SetPointCloudsCallback, Settings
  <2>5. ASSUME SetImuClient(n) PROVE TypeOK'
    BY <2>5 DEF SetImuClient, Settings
  <2>6. ASSUME SetImuCallback(n) PROVE TypeOK'
    BY <2>6 DEF SetImuCallback, Settings
  <2>7. ASSUME SetInterval(n) PROVE TypeOK'
    BY <2>7 DEF SetInterval, Settings
  <2>8. ASSUME StartPointThread(n) PROVE TypeOK'
    BY <2>8 DEF StartPointThread
  <2>9. ASSUME InitDone(n) PROVE TypeOK'
    BY <2>9 DEF InitDone
  <2>10. ASSUME StartPolling(n) PROVE TypeOK'
    BY <2>10 DEF StartPolling
  <2> QED  BY <1>2, <2>1, <2>2, <2>3, <2>4, <2>5, <2>6, <2>7, <2>8, <2>9,
      <2>10 DEF Construct
<1>3. ASSUME NEW n \in Nodes, Destroy(n) PROVE TypeOK'
  BY <1>3 DEF Destroy, RequestExit, SetExitSignal,
      JoinPointCloudDataPollThread, JoinImuDataPollThread, DestroyTimer,
      DestroyLddc
<1>4. ASSUME Uninit \/ StaticObjects PROVE TypeOK'
  <2>1. ASSUME Uninit PROVE TypeOK'
    BY <2>1 DEF Uninit
  <2>2. ASSUME JoinPointThread PROVE TypeOK'
    BY <2>2 DEF JoinPointThread
  <2>3. ASSUME DestroyLds PROVE TypeOK'
    BY <2>3 DEF DestroyLds
  <2> QED  BY <1>4, <2>1, <2>2, <2>3 DEF StaticObjects
<1>5. ASSUME NEW n \in Nodes, TimerCallback(n) PROVE TypeOK'
  BY <1>5 DEF TimerCallback, TakeTimer, SharedFromThis, StaleTimer,
      PublishTFs
<1>6. ASSUME NEW n \in Nodes, NEW k \in Kinds, PollThread(n, k) PROVE TypeOK'
  <2>1. ASSUME Awake(n, k) PROVE TypeOK'
    BY <2>1 DEF Awake
  <2>2. ASSUME CheckExitSignal(n, k) PROVE TypeOK'
    BY <2>2 DEF CheckExitSignal
  <2>3. ASSUME CheckRequestExit(n, k) PROVE TypeOK'
    BY <2>3 DEF CheckRequestExit
  <2>4. ASSUME Wait(n, k) PROVE TypeOK'
    BY <2>4 DEF Wait
  <2>5. ASSUME PollingLidar(n, k) PROVE TypeOK'
    BY <2>5 DEF PollingLidar
  <2>6. ASSUME PublishPointcloud2(n) PROVE TypeOK'
    BY <2>6 DEF PublishPointcloud2
  <2>7. ASSUME PublishImuData(n) PROVE TypeOK'
    BY <2>7 DEF PublishImuData
  <2> QED  BY <1>6, <2>1, <2>2, <2>3, <2>4, <2>5, <2>6, <2>7 DEF PollThread
<1>7. ASSUME DeliverPoints \/ DeliverImu PROVE TypeOK'
  <2>1. ASSUME DeliverPoints PROVE TypeOK'
    BY <2>1 DEF DeliverPoints
  <2>2. ASSUME DeliverImu PROVE TypeOK'
    BY <2>2 DEF DeliverImu, Store
  <2> QED  BY <1>7, <2>1, <2>2
<1>8. ASSUME PointThread PROVE TypeOK'
  <2>1. ASSUME RawDataProcess PROVE TypeOK'
    <3>1. raw' \in 0 .. MaxRaw
      BY <2>1, LifecycleAssumption DEF RawDataProcess
    <3>2. queued' \subseteq Kinds
      BY <2>1 DEF RawDataProcess, Store
    <3>3. count' \in [Kinds -> Nat]
      BY <2>1 DEF RawDataProcess, Store
    <3> QED  BY <2>1, <3>1, <3>2, <3>3 DEF RawDataProcess
  <2>2. ASSUME PointThreadQuits PROVE TypeOK'
    BY <2>2 DEF PointThreadQuits
  <2> QED  BY <1>8, <2>1, <2>2 DEF PointThread
<1>9. CASE UNCHANGED vars
  BY <1>9 DEF vars
<1> QED  BY <1>1, <1>2, <1>3, <1>4, <1>5, <1>6, <1>7, <1>8, <1>9 DEF Next

(* The steps to consider for what an invariant says of the node's life.    *)
LEMMA NextCases ==
  ASSUME [Next]_vars
  PROVE  \/ \E n \in Nodes : \/ Load(n) \/ Unload(n)
                             \/ Construct(n)
                             \/ Destroy(n)
         \/ Uninit \/ StaticObjects
         \/ Elsewhere
<1> USE DEF Elsewhere, lds, pub, data
<1>1. ASSUME NEW n \in Nodes, TimerCallback(n) PROVE Elsewhere
  BY <1>1 DEF TimerCallback, TakeTimer, SharedFromThis, StaleTimer, PublishTFs
<1>2. ASSUME NEW n \in Nodes, NEW k \in Kinds, PollThread(n, k) PROVE Elsewhere
  BY <1>2 DEF PollThread, Awake, CheckExitSignal, CheckRequestExit, Wait,
      PollingLidar, PublishPointcloud2, PublishImuData
<1>3. ASSUME DeliverPoints \/ DeliverImu \/ PointThread PROVE Elsewhere
  BY <1>3 DEF DeliverPoints, DeliverImu, PointThread, RawDataProcess,
      PointThreadQuits
<1>4. CASE UNCHANGED vars
  BY <1>4 DEF vars
<1> QED  BY <1>1, <1>2, <1>3, <1>4 DEF Next

(* A node is loaded when no other is there, and only then leaves `absent'. *)
LEMMA AloneStep ==
  ASSUME TypeOK, Alone, [Next]_vars
  PROVE  Alone'
<1> USE DEF Alone, TypeOK, Present, NodeTo, lds, pub, data
<1>1. ASSUME NEW n \in Nodes, Load(n) \/ Unload(n) PROVE Alone'
  BY <1>1 DEF Load, Unload
<1>2. ASSUME NEW n \in Nodes, Construct(n) PROVE Alone'
  BY <1>2 DEF Construct, RefuseInit, InitLidarsFails, InitLidars,
      SetPointCloudsCallback, SetImuClient, SetImuCallback, SetInterval,
      StartPointThread, InitDone, StartPolling
<1>3. ASSUME NEW n \in Nodes, Destroy(n) PROVE Alone'
  BY <1>3 DEF Destroy, RequestExit, SetExitSignal,
      JoinPointCloudDataPollThread, JoinImuDataPollThread, DestroyTimer,
      DestroyLddc
<1>4. ASSUME Uninit \/ StaticObjects PROVE Alone'
  BY <1>4 DEF StaticObjects, Uninit, JoinPointThread, DestroyLds
<1>5. ASSUME Elsewhere PROVE Alone'
  BY <1>5 DEF Elsewhere
<1> QED  BY NextCases, <1>1, <1>2, <1>3, <1>4, <1>5

(* When an observer is added, no other node is there that could have added *)
(* one, and none of the past did, or the driver would be initialised.      *)
LEMMA RegisteredStep ==
  ASSUME TypeOK, Alone, Registered, [Next]_vars
  PROVE  Registered'
<1> USE DEF Registered, OneObserver, Registering, Starting, TypeOK, Present,
    NodeTo, lds, pub, data
<1>1. ASSUME NEW n \in Nodes, Load(n) \/ Unload(n) PROVE Registered'
  BY <1>1 DEF Load, Unload
<1>2. ASSUME NEW n \in Nodes, Construct(n) PROVE Registered'
  <2>1. ASSUME \/ RefuseInit(n)
               \/ InitLidarsFails(n)
               \/ (\E livox \in BOOLEAN : InitLidars(n, livox))
               \/ SetImuClient(n)
               \/ SetImuCallback(n)
               \/ SetInterval(n)
               \/ StartPointThread(n)
               \/ StartPolling(n)
       PROVE  Registered'
    BY <2>1 DEF RefuseInit, InitLidarsFails, InitLidars, SetImuClient,
        SetImuCallback, SetInterval, StartPointThread, StartPolling
  <2>2. ASSUME SetPointCloudsCallback(n) PROVE Registered'
    <3>1. \A m \in Nodes : m # n => node[m] \notin Registering
      BY <2>2 DEF SetPointCloudsCallback, Alone
    <3>2. observers = 0
      BY <2>2, <3>1 DEF SetPointCloudsCallback
    <3>3. observers' = 1 /\ node' = [node EXCEPT ![n] = "imu_client"]
      BY <2>2, <3>2 DEF SetPointCloudsCallback
    <3> QED  BY <2>2, <3>3 DEF SetPointCloudsCallback
  <2>3. ASSUME InitDone(n) PROVE Registered'
    <3>1. \A m \in Nodes : m # n => node'[m] \notin Starting
      BY <2>3 DEF InitDone, Alone
    <3>2. node'[n] = "poll" /\ is_initialized' /\ observers' = observers
      BY <2>3 DEF InitDone
    <3> QED  BY <3>1, <3>2
  <2> QED  BY <1>2, <2>1, <2>2, <2>3 DEF Construct
<1>3. ASSUME NEW n \in Nodes, Destroy(n) PROVE Registered'
  BY <1>3 DEF Destroy, RequestExit, SetExitSignal,
      JoinPointCloudDataPollThread, JoinImuDataPollThread, DestroyTimer,
      DestroyLddc
<1>4. ASSUME Uninit \/ StaticObjects PROVE Registered'
  BY <1>4 DEF StaticObjects, Uninit, JoinPointThread, DestroyLds
<1>5. ASSUME Elsewhere PROVE Registered'
  BY <1>5 DEF Elsewhere
<1> QED  BY NextCases, <1>1, <1>2, <1>3, <1>4, <1>5

(* The SDK is not running yet when a node that is not initialised fails,   *)
(* and ~Lddc stops it whenever it runs.                                    *)
LEMMA SdkOwnedStep ==
  ASSUME TypeOK, Alone, Registered, SdkOwned, [Next]_vars
  PROVE  SdkOwned'
<1> USE DEF SdkOwned, Registering, Starting, TypeOK, Present, NodeTo, lds,
    pub, data
<1>1. ASSUME NEW n \in Nodes, Load(n) \/ Unload(n) PROVE SdkOwned'
  BY <1>1 DEF Load, Unload
<1>2. ASSUME NEW n \in Nodes, Construct(n) PROVE SdkOwned'
  <2>1. ASSUME \/ RefuseInit(n)
               \/ SetImuClient(n)
               \/ SetImuCallback(n)
               \/ SetInterval(n)
               \/ StartPointThread(n)
               \/ StartPolling(n)
       PROVE  SdkOwned'
    BY <2>1 DEF RefuseInit, SetImuClient, SetImuCallback, SetInterval,
        StartPointThread, StartPolling
  <2>2. ASSUME InitLidarsFails(n) PROVE SdkOwned'
    <3>1. ~sdk
      BY <2>2 DEF InitLidarsFails, Alone
    <3>2. ~sdk'
      BY <2>2, <3>1 DEF InitLidarsFails
    <3> QED  BY <3>2
  <2>3. ASSUME NEW livox \in BOOLEAN, InitLidars(n, livox) PROVE SdkOwned'
    <3>1. node'[n] = "observe" /\ sdk' = livox /\ livox_type' = livox
      BY <2>3 DEF InitLidars
    <3> QED  BY <3>1
  <2>4. ASSUME SetPointCloudsCallback(n) PROVE SdkOwned'
    BY <2>4 DEF SetPointCloudsCallback
  <2>5. ASSUME InitDone(n) PROVE SdkOwned'
    BY <2>5 DEF InitDone
  <2> QED  BY <1>2, <2>1, <2>2, <2>3, <2>4, <2>5 DEF Construct
<1>3. ASSUME NEW n \in Nodes, Destroy(n) PROVE SdkOwned'
  <2>1. ASSUME \/ RequestExit(n)
               \/ SetExitSignal(n)
               \/ JoinPointCloudDataPollThread(n)
               \/ JoinImuDataPollThread(n)
               \/ DestroyTimer(n)
       PROVE  SdkOwned'
    BY <2>1 DEF RequestExit, SetExitSignal, JoinPointCloudDataPollThread,
        JoinImuDataPollThread, DestroyTimer
  <2>2. ASSUME DestroyLddc(n) PROVE SdkOwned'
    <3>1. ~sdk'
      BY <2>2 DEF DestroyLddc, Alone, Registered
    <3> QED  BY <3>1
  <2> QED  BY <1>3, <2>1, <2>2 DEF Destroy
<1>4. ASSUME Uninit \/ StaticObjects PROVE SdkOwned'
  BY <1>4 DEF StaticObjects, Uninit, JoinPointThread, DestroyLds
<1>5. ASSUME Elsewhere PROVE SdkOwned'
  BY <1>5 DEF Elsewhere
<1> QED  BY NextCases, <1>1, <1>2, <1>3, <1>4, <1>5

(* Each callback is set at its place of the constructor and never unset.    *)
LEMMA PreparedStep ==
  ASSUME TypeOK, Prepared, [Next]_vars
  PROVE  Prepared'
<1> USE DEF Prepared, ReadyBeforeUse, Registering, Starting, TypeOK,
    Present, NodeTo, lds, pub, data
<1>1. ASSUME NEW n \in Nodes, Load(n) \/ Unload(n) PROVE Prepared'
  BY <1>1 DEF Load, Unload
<1>2. ASSUME NEW n \in Nodes, Construct(n) PROVE Prepared'
  BY <1>2 DEF Construct, RefuseInit, InitLidarsFails, InitLidars,
      SetPointCloudsCallback, SetImuClient, SetImuCallback, SetInterval,
      StartPointThread, InitDone, StartPolling
<1>3. ASSUME NEW n \in Nodes, Destroy(n) PROVE Prepared'
  BY <1>3 DEF Destroy, RequestExit, SetExitSignal,
      JoinPointCloudDataPollThread, JoinImuDataPollThread, DestroyTimer,
      DestroyLddc
<1>4. ASSUME Uninit \/ StaticObjects PROVE Prepared'
  BY <1>4 DEF StaticObjects, Uninit, JoinPointThread, DestroyLds
<1>5. ASSUME Elsewhere PROVE Prepared'
  BY <1>5 DEF Elsewhere
<1> QED  BY NextCases, <1>1, <1>2, <1>3, <1>4, <1>5

(* The destructor goes on when a thread is done, and a thread that is done  *)
(* stays so.                                                               *)
LEMMA JoinedStep ==
  ASSUME TypeOK, Joined, [Next]_vars
  PROVE  Joined'
<1> USE DEF Joined, PollAt, PollTo, Kinds, TypeOK, Present, NodeTo, lds,
    pub, data
<1>1. ASSUME NEW n \in Nodes, Load(n) \/ Unload(n) PROVE Joined'
  BY <1>1 DEF Load, Unload
<1>2. ASSUME NEW n \in Nodes, Construct(n) PROVE Joined'
  BY <1>2 DEF Construct, RefuseInit, InitLidarsFails, InitLidars,
      SetPointCloudsCallback, SetImuClient, SetImuCallback, SetInterval,
      StartPointThread, InitDone, StartPolling
<1>3. ASSUME NEW n \in Nodes, Destroy(n) PROVE Joined'
  BY <1>3 DEF Destroy, RequestExit, SetExitSignal,
      JoinPointCloudDataPollThread, JoinImuDataPollThread, DestroyTimer,
      DestroyLddc
<1>4. ASSUME Uninit \/ StaticObjects PROVE Joined'
  BY <1>4 DEF StaticObjects, Uninit, JoinPointThread, DestroyLds
<1>5. ASSUME NEW n \in Nodes, TimerCallback(n) PROVE Joined'
  BY <1>5 DEF TimerCallback, TakeTimer, SharedFromThis, StaleTimer,
      PublishTFs
<1>6. ASSUME NEW n \in Nodes, NEW k \in Kinds, PollThread(n, k) PROVE Joined'
  BY <1>6 DEF PollThread, Awake, CheckExitSignal, CheckRequestExit, Wait,
      PollingLidar, PublishPointcloud2, PublishImuData
<1>7. ASSUME DeliverPoints \/ DeliverImu PROVE Joined'
  BY <1>7 DEF DeliverPoints, DeliverImu
<1>8. ASSUME PointThread PROVE Joined'
  BY <1>8 DEF PointThread, RawDataProcess, PointThreadQuits
<1>9. CASE UNCHANGED vars
  BY <1>9 DEF vars
<1> QED  BY <1>1, <1>2, <1>3, <1>4, <1>5, <1>6, <1>7, <1>8, <1>9 DEF Next

(* Only a timer whose node is loaded begins to publish, and ~DriverNode     *)
(* waits until it has.                                                     *)
LEMMA TimerHoldsNodeStep ==
  ASSUME TypeOK, TimerHoldsNode, [Next]_vars
  PROVE  TimerHoldsNode'
<1> USE DEF TimerHoldsNode, TimerTo, TypeOK, Present, NodeTo, lds, pub, data
<1>1. ASSUME NEW n \in Nodes, Load(n) \/ Unload(n) PROVE TimerHoldsNode'
  BY <1>1 DEF Load, Unload
<1>2. ASSUME NEW n \in Nodes, Construct(n) PROVE TimerHoldsNode'
  BY <1>2 DEF Construct, RefuseInit, InitLidarsFails, InitLidars,
      SetPointCloudsCallback, SetImuClient, SetImuCallback, SetInterval,
      StartPointThread, InitDone, StartPolling
<1>3. ASSUME NEW n \in Nodes, Destroy(n) PROVE TimerHoldsNode'
  BY <1>3 DEF Destroy, RequestExit, SetExitSignal,
      JoinPointCloudDataPollThread, JoinImuDataPollThread, DestroyTimer,
      DestroyLddc
<1>4. ASSUME Uninit \/ StaticObjects PROVE TimerHoldsNode'
  BY <1>4 DEF StaticObjects, Uninit, JoinPointThread, DestroyLds
<1>5. ASSUME NEW n \in Nodes, TimerCallback(n) PROVE TimerHoldsNode'
  BY <1>5 DEF TimerCallback, TakeTimer, SharedFromThis, StaleTimer,
      PublishTFs
<1>6. ASSUME NEW n \in Nodes, NEW k \in Kinds, PollThread(n, k)
      PROVE  TimerHoldsNode'
  BY <1>6 DEF PollThread, Awake, CheckExitSignal, CheckRequestExit, Wait,
      PollingLidar, PublishPointcloud2, PublishImuData
<1>7. ASSUME DeliverPoints \/ DeliverImu PROVE TimerHoldsNode'
  BY <1>7 DEF DeliverPoints, DeliverImu
<1>8. ASSUME PointThread PROVE TimerHoldsNode'
  BY <1>8 DEF PointThread, RawDataProcess, PointThreadQuits
<1>9. CASE UNCHANGED vars
  BY <1>9 DEF vars
<1> QED  BY <1>1, <1>2, <1>3, <1>4, <1>5, <1>6, <1>7, <1>8, <1>9 DEF Next

(* No node is loaded once the static objects go.                           *)
LEMMA EndedStep ==
  ASSUME TypeOK, Ended, [Next]_vars
  PROVE  Ended'
<1> USE DEF Ended, TypeOK, Present, NodeTo, lds, pub, data
<1>1. ASSUME NEW n \in Nodes, Load(n) \/ Unload(n) PROVE Ended'
  BY <1>1 DEF Load, Unload
<1>2. ASSUME NEW n \in Nodes, Construct(n) PROVE Ended'
  BY <1>2 DEF Construct, RefuseInit, InitLidarsFails, InitLidars,
      SetPointCloudsCallback, SetImuClient, SetImuCallback, SetInterval,
      StartPointThread, InitDone, StartPolling
<1>3. ASSUME NEW n \in Nodes, Destroy(n) PROVE Ended'
  BY <1>3 DEF Destroy, RequestExit, SetExitSignal,
      JoinPointCloudDataPollThread, JoinImuDataPollThread, DestroyTimer,
      DestroyLddc
<1>4. ASSUME Uninit \/ StaticObjects PROVE Ended'
  BY <1>4 DEF StaticObjects, Uninit, JoinPointThread, DestroyLds
<1>5. ASSUME Elsewhere PROVE Ended'
  BY <1>5 DEF Elsewhere
<1> QED  BY NextCases, <1>1, <1>2, <1>3, <1>4, <1>5

-----------------------------------------------------------------------------
LEMMA IInvInit == Init => IInv
<1> SUFFICES ASSUME Init PROVE IInv
  OBVIOUS
<1>1. {is_initialized, livox_type, request_exit, sdk, is_quit} \subseteq BOOLEAN
  BY DEF Init
<1>2. raw \in 0 .. MaxRaw /\ observers \in Nat
  BY LifecycleAssumption DEF Init
<1>3. TypeOK
  BY <1>1, <1>2 DEF Init, TypeOK, Kinds
<1>4. Alone /\ Registered /\ SdkOwned /\ Prepared
  BY DEF Init, Alone, Present, Registered, OneObserver, Registering,
      Starting, SdkOwned, Prepared, ReadyBeforeUse
<1>5. Joined /\ TimerHoldsNode /\ Ended
  BY DEF Init, Joined, PollAt, TimerHoldsNode, Ended, Present
<1> QED  BY <1>3, <1>4, <1>5 DEF IInv

LEMMA IInvStep == IInv /\ [Next]_vars => IInv'
BY TypeOKStep, AloneStep, RegisteredStep, SdkOwnedStep, PreparedStep,
   JoinedStep, TimerHoldsNodeStep, EndedStep DEF IInv

LEMMA IInvHolds == Spec => []IInv
BY IInvInit, IInvStep, PTL DEF Spec

-----------------------------------------------------------------------------
(* Every variable keeps its type, for any number of loads.                 *)
THEOREM TypeCorrect == Spec => []TypeOK
<1>1. IInv => TypeOK
  BY DEF IInv
<1> QED  BY IInvHolds, <1>1, PTL

(* No thread ever uses an Lddc, a node or the slots of a queue after they  *)
(* were destroyed (driver_node.cpp:20-25, livox_ros_driver2.cpp:95,        *)
(* lds.cpp:36-40).                                                         *)
THEOREM NothingDestroyedInUse == Spec => []DestroyedUntouched
<1>1. IInv => LddcUntouched
  BY DEF IInv, Joined, LddcUntouched, Kinds
<1>2. IInv => QueuesUntouched
  <2> SUFFICES ASSUME IInv, exit = "done" PROVE QueuesUntouched
    BY DEF QueuesUntouched
  <2>1. \A n \in Nodes : node[n] \in {"absent", "gone"}
    BY DEF IInv, Ended, Present
  <2>2. ~sdk
    BY <2>1 DEF IInv, SdkOwned, Present
  <2>3. \A n \in Nodes, k \in Kinds : poll[n][k] \in {"none", "done"}
    BY <2>1 DEF IInv, Joined, PollAt, Kinds
  <2> QED  BY <2>2, <2>3 DEF IInv, Ended, QueuesUntouched
<1>3. IInv => DestroyedUntouched
  BY <1>1, <1>2 DEF IInv, DestroyedUntouched
<1> QED  BY IInvHolds, <1>3, PTL

(* The SDK never runs without a node that could stop it, whichever steps   *)
(* of InitLdsLidar failed (lds_lidar.cpp:60-104, 177-189).                 *)
THEOREM SdkNeverOrphaned == Spec => []SdkStopsWithNode
<1>1. IInv => SdkStopsWithNode
  BY DEF IInv, SdkOwned, SdkStopsWithNode
<1> QED  BY IInvHolds, <1>1, PTL

(* The point thread and the IMU callback find what they use                *)
(* (lds_lidar.cpp:160-175).                                                *)
THEOREM AlwaysReady == Spec => []ReadyBeforeUse
<1>1. IInv => ReadyBeforeUse
  BY DEF IInv, Prepared
<1> QED  BY IInvHolds, <1>1, PTL

(* However often the driver is loaded, one observer is registered at most  *)
(* (lds_lidar.cpp:60-63, pub_handler.cpp:76-82).                           *)
THEOREM ObserverUnique == Spec => []OneObserver
<1>1. IInv => OneObserver
  BY DEF IInv, Registered
<1> QED  BY IInvHolds, <1>1, PTL
============================================================================
