# A TLA+ model of the Livox ROS driver

This directory holds TLA+ modules that model the driver in
`src/livox_ws/src` (packages `livox_core` and `livox_node`), TLC
configurations that check them on small instances, and theorems about them
that TLAPS proves for every instance. `PROJECT.json` says which definition
stands for which lines of the source.

## 1. The system

A node (`DriverNode`) receives point and IMU packets of Livox lidars from
Livox-SDK2, cuts the points into frames and publishes frames and samples as
ROS messages. Its threads:

| thread | code | what it does |
| --- | --- | --- |
| SDK threads | `OnLivoxLidarPointCloudCallback`, `LivoxLidarCallback::*` | queue packets, store IMU samples, set up lidars |
| point thread | `PubHandler::RawDataProcess` | turns packets into points, cuts frames, pushes them into the lidars' queues |
| point-cloud poll thread | `DriverNode::PointCloudDataPollThread` | pops frames and publishes them |
| IMU poll thread | `DriverNode::ImuDataPollThread` | the same for IMU samples |
| ROS executor | constructor, destructor, `post_init_timer_` of `DriverNode` | start, stop, static transforms every 200 ms |
| end of the process | `~PubHandler`, `~LdsLidar` | destruction of the static objects |

### Inventory

| component | state | operations | what makes it correct |
| --- | --- | --- | --- |
| ring buffer (`ldq.cpp`) | slots, `rd_idx`, `wr_idx`, `mask`; no lock | `InitQueue`, `QueuePushAny`, `QueuePop` | one producer and one consumer never meet in a slot; bounded FIFO; indices may wrap around |
| point hand-over (`lds.cpp`, `lddc.cpp`, `semaphore.cpp`) | queue per lidar, `pcd_semaphore_`, `connect_state`, exit flags | `PushLidarData`, `DistributePointCloudData`, `~DriverNode` | no lost wake-up, bounded signals, shutdown |
| IMU hand-over (`lidar_imu_data_queue.cpp`, `lds.cpp`, `lddc.cpp`) | locked list per lidar, `imu_semaphore_` | `StorageImuData`, `DistributeImuData` | the same with several producers |
| setup of lidars (`livox_lidar_callback.cpp`) | `set_bits`, `connect_state`, commands under way | `LidarInfoChangeCallback`, seven answer callbacks | sampling exactly when all settings took effect; timeouts are repaired |
| cache index (`cache_index.cpp`) | map handle -> index, marks | `GetFreeIndex`, `GetIndex` | indices are unique, stable and not lost |
| framing (`pub_handler.cpp`) | raw queue, points per lidar, `is_timestamp_sync_`, `last_pub_time_` | SDK callback, `RawDataProcess`, `CheckTimer`, `Uninit` | nothing lost or reordered; frames of the right length and rate |
| user configuration (`parse_livox_lidar_cfg.cpp`, `livox_ros_driver2.cpp`, `lds_lidar.cpp`) | file, configurations, frequency | two parsers, registration, derived numbers | the lidar gets what the file says |
| life cycle (`lds_lidar.cpp`, `livox_ros_driver2.cpp`, `driver_node.cpp`) | `LdsLidar::GetInstance`, `pub_handler()`, `is_initialized_`, `request_exit_`, timer | `InitLdsLidar`, `DeInitLdsLidar`, load, unload, end of the process | nothing used before it is set or after it is destroyed; the SDK stops with the node; every load can be unloaded |
| summary configuration (`parse_cfg_file.cpp`) | `lidar_summary_info_` | `ParseSummaryInfo` | decides whether Livox lidars are started and stopped |
| placement of the points (`pub_handler.cpp`, `lddc.cpp`) | `extrinsic_`, frames | `SetLidarsExtParam`, `Process*Point`, `InitPointcloud2Msg` | a point is where the file says its lidar sees it |
| static transforms (`lddc.cpp`, `livox_ros_driver2.cpp`) | `tf_broadcaster_` | `PublishTFs` | agree with the placement of the points |
| messages and publishers (`lddc.cpp`) | publishers per lidar | `InitPointcloud2Msg`, `GetCurrentPublisher` | layout of data; modelled only where a frame is named |

They interact as follows. The SDK's packet callback sets `is_timestamp_sync_`
and feeds the raw queue (points) or `StorageImuData` (IMU). `CheckTimer`
calls `StoragePointData`, which looks the lidar up in the cache index and
pushes the frame into its ring buffer, signalling `pcd_semaphore_` if its
counter is zero. A poll thread waits for its semaphore and scans all lidars
whose `connect_state` is sampling, which the setup callbacks bring about.
The setup reads the configurations that start-up registered in the cache
index. The destructor sets `request_exit_` and a promise and joins the poll
threads; the `LdsLidar`, the point thread and the observer of the SDK outlive
the node and serve the next one that is loaded in the process.

What is hard: lock-free sharing between the point thread and the poll thread,
a check-then-signal protocol around the semaphores, answers that overtake the
commands still being sent, timeouts of commands that were obeyed, one
synchronisation flag for all lidars, unsigned arithmetic on times and indices,
lengths in millimetres or centimetres by the type of the data, and shutdown
with objects that outlive the node. `PROJECT.json` lists the hazards at their lines.

## 2. The modules

| module | models | its state and actions |
| --- | --- | --- |
| `BoundedFifo` | the promise of the ring buffer | a sequence; `Enqueue`, `Dequeue` |
| `LidarDataQueue` | the ring buffer under its two threads | one action per store or load that the other thread can notice: `PushFirst` and `InitQueueIndices` are the lazy `InitQueue`, `PushBaseTime`, `PushPoints`, `PushAdvance` the parts of `QueuePushAny`, `PopBaseTime`, `PopPoints`, `PopAdvance` those of `QueuePop` |
| `HandOver` | the promise of both pipelines | data that are held for each lidar, and whether the poll thread sleeps; `Put`, `Take`, `Sleep`, `WakeUp` |
| `PointCloudPipeline` | point thread, poll thread, destructor | `point.at`, `poll.at`, `destructor` say where each thread is; a queue is the number of its frames; `buffered` holds stores to `wr_idx` that are not visible yet, which only lidars of the constant `Delayable` have |
| `ImuPipeline` | SDK threads, IMU poll thread | as above, with a set `Sdk` of producers |
| `LidarConfig` | setup of lidars | `handler` is the thread in `LidarInfoChangeCallback`, `outstanding` the commands under way; a command succeeds, times out, fails, or its answer is dropped (`DeviceNotFound`) because the lookup of its lidar misses while an unknown lidar is inserted (`InsertIndex`) |
| `CacheIndex` | `GetFreeIndex`, `GetIndex` | `at[t]` is a thread's place between the locked blocks |
| `PointFraming` | SDK callback, raw queue, point thread | `Receive`, `ReceiveImu`, `RawDataProcess` up to `CheckTimer`, then `CheckTimerSync` or `CheckTimerNoSync` by the flag as it is at that moment; `start[l]` is the instant of a lidar's first packet |
| `UserConfig` | both parsers, registration, derived numbers | one action per turn of each loop; an empty file also stands for one without the array `lidar_configs`, which can name a frequency at its root (`RootFreqs`) |
| `PointPlacement` | extrinsic parameters from the file to the messages | extends `UserConfig`: `RawDataProcess` moves and turns a point, `PublishPointcloud2` names its frame, `PublishTFs` sends the transforms |
| `DriverLifecycle` | construction, destruction and loading again of `DriverNode`, end of the process | `node[n]`, `timer[n]` and `poll[n][k]` say where the n-th load, its timer and its poll threads are; `callbacks`, `observers`, `point`, `is_quit` are those of `pub_handler()`; one action per step of `InitLdsLidar`, of the destructors and of `Uninit`; `PollingLidar`, `PublishPointcloud2` and `PublishImuData` are the loops of a poll thread |
| `LidarDataQueueProofs`, `PointCloudPipelineProofs`, `ImuPipelineProofs`, `LidarConfigProofs`, `CacheIndexProofs`, `PointFramingProofs`, `PointPlacementProofs`, `DriverLifecycleProofs` | theorems (section 4) | those of `UserConfig` are in `PointPlacementProofs` |

`LidarDataQueue` refines `BoundedFifo` (property `ImplementsFifo`), and both
pipelines refine `HandOver` (`ImplementsHandOver`): `held` is `fresh`, the
data pushed since their lidar is sampling, and `asleep` is `Asleep`, a poll
thread in `Semaphore::Wait` with no signal pending or about to be given.
`PointCloudPipeline` uses of the queue only what that refinement
justifies: a number of frames, taken in order. `PointFraming` ends where a
frame is published, which is `StoragePointData` in `PointCloudPipeline`.
`UserConfig` explains the `Wanted` of `LidarConfig`, and `PointPlacement` goes
on with what it derives from the file. `BecomeSampling` of the pipelines and of
`PointPlacement` is the last answer in `LidarConfig`, whose `InsertIndex` is
the unlocked insertion of `CacheIndex`. `DriverLifecycle` has the poll threads
of the two pipelines again, with what waits for them reduced to one bit for
each kind of data, and adds what the pipelines take as given: objects that
exist, callbacks that are set, and a node that was loaded first.

In a module an operator whose comment begins with "Mutant of" is not part of the model: it is a wrong
version of the definition after it, and with it in place TLC finds the
property named in `PROJECT.json` violated.

### What the models abstract

* Frames, samples and points have no contents beyond what a property tells
  apart: in `LidarDataQueue` a frame has two halves, so that a torn copy shows;
  in `PointFraming` a packet is its number and time.
* Shared integers are read and written in one step, as on x86-64. Stores of
  one thread are seen in program order in `LidarDataQueue`. `rd_idx` and
  `wr_idx` are `volatile`, not atomic, so the language promises neither; this
  is an assumption on the build. The only reordering x86 allows, a load before
  an earlier store, is harmless inside the ring buffer, and
  `PointCloudPipeline` has it for the lidars in `Delayable`.
* Searching the map of the cache index during an insertion is undefined; the
  model lets the search miss an entry. It does not model a crash.
* `PointCloudPipeline` and `ImuPipeline` let a lidar become sampling at any
  time. No code takes a lidar out of that state.
* The half second of `wait_for` in `RawDataProcess`, the three seconds at the
  start of the poll threads and the second before the work mode is tried again
  are delays without bounds: a thread may be slow anywhere.
* A call of the SDK that is refused counts as a failed command.
* `PointPlacement` counts in millimetres and has angles that are multiples of
  90 degrees, so that sines and cosines are whole numbers; a frame is one
  point. It has the lidars of the file only, with names of frames that are not
  empty.
* `DriverLifecycle` loads one node after the other, takes the lidars as
  sampling, and leaves out what a timer callback does whose node is already
  destroyed, which is undefined (`StaleTimer`).

## 3. The runs

| run | instance | shows |
| --- | --- | --- |
| `data_queue` | 4 slots (3 asked for), indices modulo 16, 2 frames | `NoSlotRace`, `DeliveredWhole`, `DropOnlyWhenFull`, `ImplementsFifo` |
| `point_pipeline` | 2 lidars, one with delayed stores, 2 slots | `SignalBound`, `ImplementsHandOver`, `DrainedWhenSilent`, `ExitUnlessAsleep` |
| `point_shutdown` | 1 lidar | `ThreadExits` fails |
| `imu_pipeline` | 2 lidars, 2 SDK threads, 2 samples per queue | `SignalBound`, `ImplementsHandOver`, `DrainedWhenSilent`, `EndsOrSleeps` |
| `lidar_config` | 1 configured and 2 unknown lidars, 2 indices, 2 reports, 2 settings | `SamplingMeansConfigured`, `WaitsForAnswer`, `BecomesSampling`, `WorksNormally` |
| `unknown_lidar` | 1 configured, 1 unknown lidar | `OnlyUserSettings` fails |
| `default_settings` | 1 lidar without settings | `DefaultsSuffice` fails |
| `cache_index` | 3 handles, 3 threads, 2 indices | `OneLidarPerIndex`, `NoIndexLost`, `IndexStable` |
| `point_framing` | 2 lidars that begin at different phases, interval 3 ms, 2 packets per ms, 13 instants, lag of 2, 1 mishap | `InOrder`, `RegularFrames`, `AverageRate`, `PointThreadEnds` |
| `driver_lifecycle` | 3 loads, 1 raw packet | `DestroyedUntouched`, `SdkStopsWithNode`, `ReadyBeforeUse`, `OneObserver`, `UnloadEndsOrSleeps`, `ReloadedUnloads` |
| `user_config` | files of up to 2 entries, 1 index | `SettingsAsNamed`, `PlacedAsNamed`, `QueueHoldsASecond` |
| `blind_spot` | the same | `BlindSpotAsNamed` fails |

Every passing run also checks its module's `TypeOK`. `CHECK_DEADLOCK FALSE` is
given where the system may stop: a destroyed node, a process that has ended, a
bound that was reached.

### Why the bounds are enough

* `data_queue`: the indices go four times round the four slots before they
  wrap around, so every pair of positions occurs on both sides of the
  wrap-around; two kinds of frame are enough to see a swapped or torn one. The
  proofs remove the bounds.
* Pipelines: two lidars are the least for the scan to pass one while the other
  changes; two slots for a queue that is neither empty nor full. Two SDK
  threads are the least that can both find the counter zero. One lidar of two
  has delayed stores, so that `ImplementsHandOver` is checked at once in its
  strict form and in the one that forgives a late frame. Two samples in an IMU
  queue let one that is older than the sampling of its lidar wait before one
  that counts; the code's list has no bound, and the proofs have none.
* `lidar_config`: two settings give an answer that overtakes the next command;
  two reports give a lidar that is set up again while it samples; the third
  lidar finds no index.
* `point_framing`: two packets share the millisecond of a boundary. One lidar
  begins at zero and has two frames, the other two units before the first
  boundary: too late for it, so that its first frame ends at the second one and
  is as long as a frame can be. The horizon is the second boundary. One
  mishap (a lost packet or a change of synchronisation) can happen anywhere; a
  change gives the host's clock a pause of two intervals to catch up with.
  `HostAhead` makes a frame that mixes both clocks run backwards in time. Every
  other phase of a lidar is left to the proofs.
* `user_config`: two entries can name one lidar twice, or two lidars that
  compete for an index. Values cover both ends of the documented ranges. One raw
  point with three different coordinates tells all the rotations apart; the
  translations include a missing one, a negative one and one whose millimetres
  are no whole centimetres. The frequencies, of an entry or of the file,
  include 62.5 Hz, the highest for which a queue always holds a second.
* `driver_lifecycle`: with three loads the first can fail, the second
  initialise and the third be refused. One raw packet is enough for the point
  thread to be busy or idle while the others stop.

### Fairness

`FairSpec` of each module has weak fairness of the steps of its threads,
because the operating system runs a thread that can run and no thread holds a
mutex while it waits for another; of the delayed stores, because a processor
empties its store buffer; and of the destructor once it has begun. Nothing is
assumed of the lidars, the user or the network. In `DriverLifecycle` the
executor runs a timer that is due, a constructor and a destructor that have
begun go on, and static objects are destroyed to the end once that has begun;
nobody has to load or unload a node, or to send a packet. `LidarConfig` assumes that as
long as commands are under way one succeeds at last: the code sends a command
that timed out again without end, and a lidar that never answers satisfies no
liveness property. The properties of the pipelines speak of lidars that have
fallen silent (`traffic`), because `Lddc::PublishPointcloud2` may otherwise
serve one lidar for ever: its loop (`lddc.cpp:117-129`) does not look at
`request_exit_`. For the same reason `UnloadEndsOrSleeps` supposes that the
lidars deliver no more points from some time on (`PointsStop`).

### Disagreements with the code's own words

* `~DriverNode` can wait for ever (`point_shutdown`): nothing wakes a poll
  thread that sleeps in `Semaphore::Wait`. `ExitUnlessAsleep` and
  `EndsOrSleeps` show that this is the only place where it can be held
  once no more frames come.
* A lidar that is not in the file is sent zeros on its second report
  (`unknown_lidar`).
* A lidar whose entry names no setting is never published, although the
  settings have documented defaults (`default_settings`).
* Blind spots above 127 cm are sent as negative numbers (`blind_spot`).

Other things the models make visible, which contradict no document:

* with delayed stores a frame can stay in its queue until the next one comes;
  frames that were queued before a lidar became sampling wait for the next
  frame and come out first;
* frames that keep coming can hold an unload: the loop in
  `Lddc::PublishPointcloud2` does not look at `request_exit_`, and the SDK is
  stopped only in `~Lddc`, after the threads were joined;
* a lidar that begins so shortly before a multiple of the interval that its
  frame is not yet long enough there misses it, and its first frame can last
  nearly two intervals; from then on its frames are regular;
* the host's clock catches up after a pause with a frame for every packet; a
  lost packet at a boundary doubles a frame; packets further apart than a
  millisecond would make every second boundary be missed, since the tolerance
  of `CheckTimer` is a millisecond;
* the publish interval is cut to whole milliseconds, so that there can be more
  frames in a second than the frequency asks for, and for more than 62.5 Hz
  more than the queue was made for: 63 Hz gives intervals of 15 ms, 66 frames
  in a second and a queue of 64;
* the answer to a setting is dropped when it comes just while an unknown lidar
  is inserted in the cache index, and the setup of its lidar then never ends
  (`WaitsForAnswer` counts such answers as failed);
* a node that fails to initialise and is unloaded leaves `request_exit_` set:
  the next load initialises everything, but its poll threads publish nothing
  while the SDK fills the queues;
* a timer callback that the executor took before the unload can start after
  the node is gone, and uses `this`;
* a second node in the same container would share the single-consumer queues
  with the first (not modelled: the launch files load one), and one that is
  loaded later keeps the publish interval and the queues of the first;
* the translation of a low-resolution lidar is cut to whole centimetres, and
  packets of another data type than the file's, which a lidar sends until it
  obeys, are placed ten times too far or too near;
* with `publish_tf` false a message is in the frame of the lidar, although its
  points have been moved to the parent frame;
* the default rotation in `pub_handler.h:53` has a stray 1 and shears the
  points of a lidar that is not in the file (not modelled).

## 4. The proofs

`LidarDataQueueProofs` proves for every set of frames, every requested size
and every modulus of the indices that all sizes divide (2^32 and the powers of
two are one case; `QueueAssumption`):

* `TypeCorrect`, `SlotRaceFree`, `PacketsWhole`: the invariants `TypeOK`,
  `NoSlotRace`, `DeliveredWhole`;
* `DropsOnlyWhenFull`: the action property;
* `RingImplementsFifo`: `Spec` implements `BoundedFifo`.

The invariants are not inductive by themselves: that a push does not disturb
the slot being copied needs that the queue was not full when the producer
looked, that the consumer has only made more room since, and that the slots
between the indices hold whole frames. `IInv` adds these: `Initialised` (the
mask is that of the size once `InitQueue` is over, and nothing is pushed or
popped before), `Occupancy` (at most as many frames as slots), `Claimed` (a
producer past its check has a free slot, a consumer past its check a full
one), `Filled` (slots between the indices are whole, the slot being written is
so far correct) and `Copied` (the copy agrees with the slot). The arithmetic
it rests on, that two indices less than a size apart are in different slots
also across the wrap-around, is proved in the lemmas at
the top of the module. For the
refinement each step is shown to enqueue, dequeue or leave the sequence
`Contents` of slots between the indices unchanged.

`CacheIndexProofs` proves for any number of threads, handles and indices that
indices are distinct (`IndicesDistinct`), marks exact (`MarksExact`) and
indices stable (`IndexNeverChanges`). The strengthening says that a thread
between marking and inserting holds the mutex, that no other thread holds the
same index, and that no two threads register one handle at the same time; the
last is the assumption on the SDK in `ReportedOnce`, without which a handle
could be given two indices.

`PointCloudPipelineProofs` proves for any number of lidars and any size of
queues, and whichever lidars have delayed stores, `TypeCorrect`,
`SignalsBounded` and `NoFrameStranded`. The argument is
`AllNoticed`: a frame pushed to a sampling lidar stays `Noticed`, that is, a
signal is pending, or the point thread has pushed and not yet decided whether
to signal, or the scan has still to pass that lidar, or an exit was requested
and the poll thread is not asleep. The scan can only pass a lidar whose
visible queue is empty, so what it overlooks is at most the delayed store of a
lidar in `Delayable` (`Missable`); the others lose nothing. `Room` and
`FreshWaits` tie the history `fresh` to the queue.

`PointImplementsHandOver` shows from the same invariant that every step of the
pipeline is one of `HandOver` or leaves its two variables alone. The push of a
frame of a sampling lidar is `Put`, whether its store is visible or not, and
the poll thread is awake after it, because the point thread has not yet
decided about the signal. Publishing a frame that counts is `Take`. The step
that brings the poll thread to `Wait` with no signal, or the one by which the
point thread decides to give none, is `Sleep`, whose guard is what `IInv` says
of the state after it (`OverlookedWhileAsleep`). A push that begins while the
poll thread sleeps, or a frame that finds its queue full, is `WakeUp`.

The six conjuncts of `IInv` were checked as an invariant with and without
delayed stores before they were proved.

`DriverLifecycleProofs` proves for any number of loads, and any failure of
each, `TypeCorrect`, `NothingDestroyedInUse`, `SdkNeverOrphaned`,
`AlwaysReady` and `ObserverUnique`. The strengthening says that one node is
present at a time (`Alone`, the assumption that the container loads one after
the other); that a load which is between starting the SDK and `InitDone` finds
`is_initialized_` unset and no observer but its own (`Registered`), so that a
running SDK has either set `is_initialized_`, by which `~Lddc` stops it, or a
constructor that will (`SdkOwned`); what is set at each place of the
constructor (`Prepared`); and which threads have ended at each place of the
destructors (`Joined`, `Ended`). `IInv` was checked on the instance of
`driver_lifecycle` before it was proved.

`ImuPipelineProofs` proves for any number of lidars and any finite set of SDK
threads `TypeCorrect`, `SignalsBounded` and `NoSampleStranded`. The signals
that are counted or about to be given never exceed the number of threads: a
thread decides to signal only while the counter is zero, and is itself not yet
among those that signal, so there is room for it. That
`count + Cardinality(Signalling)` is bounded is inductive; a bound on `count`
alone is not. The rest is the argument of the point cloud, with the
thread that has pushed and not yet decided now one of many (`Noticed`), and
`PopHasSample`: what the poll thread saw in a queue is still there when it
pops. `ImuImplementsHandOver` is the refinement of `HandOver` with no lidar in
`Late`: here a push by one thread is `Put` whatever the others are doing, and
the last of several threads that have pushed and give no signal is `Sleep`.

`LidarConfigProofs` proves for any lidars, any sequence of different settings
and any number of reports `TypeCorrect`, `SamplingLidarsConfigured` and
`NoForgottenSetting`. `SamplingMeansConfigured` is not inductive, because it
says nothing of the time between a report and the last answer. `Accounted`
follows a setting of the file through it: it is in the lidar, or waited for in
`set_bits`, or still ahead of the loop in `LidarInfoChangeCallback`.
`OncePerReport` and `SentToIndexed` say which commands can be under way, and
`IndexFree` that the index found is still free at the insertion. Assumed of
the constants is that the cache has an index for each configured lidar, which
start-up registers, and that the settings differ from one another and from the
commands that every lidar gets (`ConfigAssumption`, `SettingsAssumption`).

`PointFramingProofs` proves for any lidars, any interval of at least two
milliseconds, any resolution of the clock and any backlog `TypeCorrect`,
`PublishedInOrder`, `HostRateBounded` and `SteadyFramesRegular`. `HostFrames`
relates `last_pub_time_` to the number of frames the host's clock has cut,
each of which moves it on by an interval and never past the clock, and to the
first packet of some lidar, which comes before it is set (`Begun`).

For the frames of a synchronised lidar, whenever it begins, `InFrame` names the
time at which what it gathers will be cut: the first one, from the packet after
the last one published, that passes both tests of `CheckTimer` (`FirstCut`).
What is gathered has not passed that time, and has reached it only in a packet
that `CheckTimer` is about to look at, so that no boundary for which it is long
enough goes unnoticed. `SomeCut` shows that there always is such a time, at
most twice the tolerance after the beginning; it is all that can be said of a
first frame. `CutOnBoundary` and `NextCut` are what makes the later ones
regular: a frame that was cut ends in the millisecond of a boundary, the next
one begins within a millisecond after that boundary, and of the instants that
follow, the next multiple of the interval is the first to pass both tests. The
packets in between that share the boundary's millisecond fail the second test.
`RegularFrames`, and this part of the invariant, are about a steady network
only (`Steady`).

`PointPlacementProofs` proves, for files of any length and any order of their
entries, `TypeCorrect` and `SettingsCorrect` of `UserConfig` and
`PlacementCorrect` of `PointPlacement`. What a lidar is sent is traced back
through the copies of the code: `SentFromDevices` and `ParamsFromDevices` to
the registered configuration, `DevicesFromConfigs` to the last parsed
configuration of the lidar, `ConfigsFromFile` to an entry that no later one
of the same lidar follows. `FromDevices` does the same for points, messages
and transforms. That the matrix the code computes is the rotation by roll,
pitch and yaw is `SameRotation`, entry by entry; it uses of sines and cosines
only that they are whole numbers, as everything is in the model. Assumed of
the file is that its values are in the ranges of their fields
(`EntryAssumption`): a blind spot of 255 would become -1, which the code takes
for a missing one. `SecondHeld` proves `QueueHoldsASecond` for every frequency
that is a multiple of 1/`FreqUnit` Hz. Below 16 Hz, 32 Hz and up to 62.5 Hz the
interval is at least 62, 31 and 16 ms (`QuotientAtLeast`), so that a second has
at most 16, 32 and 62 frames (`AtMost`), which is what the size rounds up to;
where the interval is exact there are no more frames than the frequency says
(`ExactShare`).

The invariants `IInv`, `ConfigInv` and `PlacementInv` were checked by TLC on
the instances of the runs before they were proved. `QueueHoldsASecond` was
once stated for every frequency the instance had; the attempts to prove it
showed the case of 63 Hz, and that above 1000 Hz the interval is zero
milliseconds; it now says up to where it is true.

Every safety property that the passing runs check is proved, both refinements
and all action properties among them. Only model-checked are the liveness
properties (section 3, Fairness), since fairness and `ENABLED` are out of
TLAPS's reach. What the provers cannot do and a proof here does not need: the
search of `RoundupPowerOf2` is a choice from a list of the powers of two, as
the code's loop tries them, and not a recursive definition.

## 5. The plan

1. Done: the modules above with their runs, which cover every component whose
   logic is the driver's own, a proof of every safety property, and the
   refinement of `HandOver` by both pipelines.
2. Possible extensions: the setup with two configured lidars whose answers
   cross (a state space several times that of `lidar_config`), and two nodes
   in one container, once the repository has a launch file that loads them.

### Not modelled

* The layout of ROS messages, their time stamps, the copying of IMU samples,
  tags, lines and intensities: data that is moved and not decided upon.
* Publishers with their topics and qualities of service, names of topics: each
  is created once by the one thread that uses it.
* Files that cannot be read or parsed, other than that the summary then stops
  the initialisation: what follows is the case of a file without entries.
* Two nodes at once, packets without points, more than 32 lidars in one frame:
  not reached with the launch files and lidars the repository names.
* `ResetQueue` and `ResetIndex`, which nothing calls, and `LvxGetIndex`, which
  only data from an LVX file would use: no code makes such data.
* The launch files and the example configurations, and the SDK itself, of which
  the models have what the driver relies on.
