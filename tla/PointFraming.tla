---------------------------- MODULE PointFraming ----------------------------
(***************************************************************************)
(* How PubHandler cuts the packets of the lidars into frames.  The SDK's   *)
(* callback appends each packet to raw_packet_queue_ and the point thread  *)
(* (RawDataProcess) takes them one by one, adds their points to those its  *)
(* lidar has gathered, and decides in CheckTimer whether to publish.  With *)
(* synchronised clocks a lidar's points are published when its own clock   *)
(* reaches a multiple of the publish interval, without them those of all   *)
(* lidars are published when the host's clock says so.  Which of the two   *)
(* is decided by is_timestamp_sync_, a single flag that the last packet of *)
(* any lidar, IMU samples included, has set.                               *)
(*                                                                         *)
(* Times are counted in units finer than a millisecond; the points of a    *)
(* packet have one time at this resolution.  A packet is its number.       *)
(***************************************************************************)
EXTENDS Integers, Sequences

CONSTANTS Lidars,       \* the lidars, by handle
          UnitsPerMs,   \* time units in a millisecond
          IntervalMs,   \* publish_interval_ms_
          HostAhead,    \* how far the host's clock is ahead of the lidars'
          Starts,       \* bound: Starts[l], instants at which l may begin
          Horizon,      \* bound: the time at which the model stops
          MaxRaw,       \* bound: packets the point thread may lag behind
          MaxMishaps    \* bound: packets lost plus changes of sync

ASSUME FramingAssumption ==
  /\ UnitsPerMs \in Nat \ {0}
  /\ IntervalMs \in Nat \ {0, 1}
  /\ {HostAhead, Horizon, MaxRaw, MaxMishaps} \subseteq Nat
  /\ Starts \in [Lidars -> SUBSET Nat]

(* SetPointCloudConfig, for a frequency that divides a second.  The        *)
(* tolerance is one millisecond short of the interval.                     *)
publish_interval == IntervalMs * UnitsPerMs
publish_interval_tolerance == publish_interval - UnitsPerMs

NotSet == -1

VARIABLES
  now,            \* the host's clock
  synced,         \* lidars that have a synchronised clock
  start,          \* start[l]: when l sent its first packet, NotSet before
  sync_flag,      \* is_timestamp_sync_
  raw,            \* raw_packet_queue_
  points_clouds,  \* points_clouds[l]: packets gathered by l's LidarPubHandler
  last_pub,       \* last_pub_time_, NotSet as long as `first' is true
  checking,       \* lidars whose packet CheckTimer is about to look at
  is_quit,        \* is_quit_
  ended,          \* whether the point thread has returned
  heard,          \* lidars that have sent their packet of this instant
  received,       \* history: received[l]: packets of l put in the raw queue
  published,      \* history: published[l]: packets of l published
  last_frame,     \* history: last_frame[l]: [from, to], times of l's last frame
  ticks,          \* history: frames published by the host's clock
  lost,           \* history: packets lost
  flips           \* history: changes of synced

thread  == <<points_clouds, last_pub, checking, ended, published, last_frame, ticks>>
network == <<now, synced, start, heard, lost, flips>>
vars    == <<network, sync_flag, raw, received, is_quit, thread>>

Packets == [no : Nat, time : Nat]
Spans   == [from : Nat \cup {NotSet}, to : Nat \cup {NotSet}]
NoSpan  == [from |-> NotSet, to |-> NotSet]

TypeOK ==
  /\ now \in 0 .. Horizon
  /\ synced \subseteq Lidars
  /\ start \in [Lidars -> Nat \cup {NotSet}]
  /\ sync_flag \in BOOLEAN
  /\ raw \in Seq([lidar : Lidars, packet : Packets])
  /\ Len(raw) <= MaxRaw
  /\ points_clouds \in [Lidars -> Seq(Packets)]
  /\ last_pub \in Nat \cup {NotSet}
  /\ checking = {} \/ \E l \in Lidars : checking = {l}
  /\ is_quit \in BOOLEAN
  /\ ended \in BOOLEAN
  /\ heard \subseteq Lidars
  /\ received \in [Lidars -> Nat]
  /\ published \in [Lidars -> Nat]
  /\ last_frame \in [Lidars -> Spans]
  /\ ticks \in Nat
  /\ lost \in Nat /\ flips \in Nat /\ lost + flips <= MaxMishaps

Init ==
  /\ now = 0
  /\ synced \in {{}, Lidars}
  /\ start = [l \in Lidars |-> NotSet]
  /\ sync_flag = FALSE
  /\ raw = <<>>
  /\ points_clouds = [l \in Lidars |-> <<>>]
  /\ last_pub = NotSet
  /\ checking = {}
  /\ is_quit = FALSE
  /\ ended = FALSE
  /\ heard = {}
  /\ received = [l \in Lidars |-> 0]
  /\ published = [l \in Lidars |-> 0]
  /\ last_frame = [l \in Lidars |-> NoSpan]
  /\ ticks = 0
  /\ lost = 0
  /\ flips = 0

-----------------------------------------------------------------------------
(* The network and the SDK.                                                *)

(* Mutant of TimeOf: the lidar's time moved to the host's clock the wrong  *)
(* way round, which an unsigned integer does not survive.                  *)
TimeOfMoved(l) == IF l \in synced THEN now - HostAhead ELSE now

(* GetEthPacketTimestamp: a synchronised lidar's own time, else the host's.*)
TimeOf(l) == IF l \in synced THEN now ELSE now + HostAhead

(* OnLivoxLidarPointCloudCallback.  It sets the flag before it queues the  *)
(* packet; what happens in between is a delay of the point thread.  A      *)
(* lidar may begin at any time, whatever the phase of its clock.           *)
Receive(l) ==
  /\ ~is_quit
  /\ l \notin heard
  /\ start[l] # NotSet \/ now \in Starts[l]
  /\ Len(raw) < MaxRaw
  /\ heard' = heard \cup {l}
  /\ start' = [start EXCEPT ![l] = IF @ = NotSet THEN now ELSE @]
  /\ sync_flag' = (l \in synced)
  /\ received' = [received EXCEPT ![l] = @ + 1]
  /\ raw' = Append(raw, [lidar |-> l,
                         packet |-> [no |-> received'[l], time |-> TimeOf(l)]])
  /\ UNCHANGED <<now, synced, lost, flips, is_quit, thread>>

(* An IMU sample goes the same way, but only as far as the flag.           *)
ReceiveImu(l) ==
  /\ ~is_quit
  /\ sync_flag' = (l \in synced)
  /\ UNCHANGED <<network, raw, received, is_quit, thread>>

Lose(l) ==
  /\ ~is_quit
  /\ start[l] # NotSet
  /\ l \notin heard
  /\ lost + flips < MaxMishaps
  /\ lost' = lost + 1
  /\ heard' = heard \cup {l}
  /\ UNCHANGED <<now, synced, start, flips, sync_flag, raw, received, is_quit, thread>>

(* A lidar that has begun sends a packet in every instant.                 *)
Tick ==
  /\ ~is_quit
  /\ \A l \in Lidars : start[l] # NotSet => l \in heard
  /\ now < Horizon
  /\ now' = now + 1
  /\ heard' = {}
  /\ UNCHANGED <<synced, start, lost, flips, sync_flag, raw, received, is_quit, thread>>

(* A lidar finds its time source, or loses it.                             *)
SyncChanges(l) ==
  /\ ~is_quit
  /\ lost + flips < MaxMishaps
  /\ flips' = flips + 1
  /\ synced' = IF l \in synced THEN synced \ {l} ELSE synced \cup {l}
  /\ UNCHANGED <<now, start, heard, lost, sync_flag, raw, received, is_quit, thread>>

(* Uninit removes the observer and stops the point thread; what the lidars *)
(* do after that no longer matters.                                        *)
RequestExit ==
  /\ ~is_quit
  /\ is_quit' = TRUE
  /\ UNCHANGED <<network, sync_flag, raw, received, thread>>

-----------------------------------------------------------------------------
(* The point thread.                                                       *)

(* Mutant of RawDataProcess: the newest packet is taken first.             *)
RawDataLifo ==
  /\ ~ended
  /\ checking = {}
  /\ ~is_quit
  /\ raw # <<>>
  /\ LET last == raw[Len(raw)]
     IN  /\ points_clouds' = [points_clouds EXCEPT ![last.lidar] = Append(@, last.packet)]
         /\ checking' = {last.lidar}
  /\ raw' = SubSeq(raw, 1, Len(raw) - 1)
  /\ UNCHANGED <<network, sync_flag, received, is_quit, last_pub, ended,
                 published, last_frame, ticks>>

(* One turn of RawDataProcess, up to CheckTimer.                           *)
RawDataProcess ==
  /\ ~ended
  /\ checking = {}
  /\ ~is_quit
  /\ raw # <<>>
  /\ LET l == Head(raw).lidar
     IN  /\ points_clouds' = [points_clouds EXCEPT ![l] = Append(@, Head(raw).packet)]
         /\ checking' = {l}
  /\ raw' = Tail(raw)
  /\ UNCHANGED <<network, sync_flag, received, is_quit, last_pub, ended,
                 published, last_frame, ticks>>

(* Mutant of EndThread: the thread waits for an empty queue.               *)
EndThreadWhenEmpty ==
  /\ ~ended
  /\ checking = {}
  /\ is_quit
  /\ raw = <<>>
  /\ ended' = TRUE
  /\ UNCHANGED <<network, sync_flag, raw, received, is_quit, points_clouds,
                 last_pub, checking, published, last_frame, ticks>>

(* The thread looks at is_quit_ when a wait of half a second is over, even *)
(* if nothing comes.                                                       *)
EndThread ==
  /\ ~ended
  /\ checking = {}
  /\ is_quit
  /\ ended' = TRUE
  /\ UNCHANGED <<network, sync_flag, raw, received, is_quit, points_clouds,
                 last_pub, checking, published, last_frame, ticks>>

GetLidarBaseTime(l) == points_clouds[l][1].time
GetRecentTimeStamp(l) == points_clouds[l][Len(points_clouds[l])].time

(* PublishPointCloud for the lidars ls: their points are handed over.      *)
Publish(ls) ==
  /\ points_clouds' = [l \in Lidars |-> IF l \in ls THEN <<>> ELSE points_clouds[l]]
  /\ published' = [l \in Lidars |-> IF l \in ls
                                      THEN published[l] + Len(points_clouds[l])
                                      ELSE published[l]]
  /\ last_frame' = [l \in Lidars |->
                      IF l \in ls /\ points_clouds[l] # <<>>
                        THEN [from |-> GetLidarBaseTime(l), to |-> GetRecentTimeStamp(l)]
                        ELSE last_frame[l]]

OnBoundary(time) == LET ms == time \div UnitsPerMs
                    IN  ms # 0 /\ ms % IntervalMs = 0

(* Mutant of LongEnough: no such test.                                     *)
LongEnoughAlways(from, to) == TRUE

(* The difference of unsigned integers: when the clock has gone back it is *)
(* huge.                                                                   *)
LongEnough(from, to) == to < from \/ to - from >= publish_interval_tolerance

CheckTimerSync(l) ==
  /\ l \in checking
  /\ sync_flag
  /\ IF /\ OnBoundary(GetRecentTimeStamp(l))
        /\ LongEnough(GetLidarBaseTime(l), GetRecentTimeStamp(l))
       THEN Publish({l})
       ELSE UNCHANGED <<points_clouds, published, last_frame>>
  /\ checking' = {}
  /\ UNCHANGED <<network, sync_flag, raw, received, is_quit, last_pub, ended, ticks>>

(* Mutant of Due: some tolerance, where last_pub_time_ allows none.        *)
DueEarly == now - last_pub >= publish_interval_tolerance

Due == now - last_pub >= publish_interval

CheckTimerNoSync(l) ==
  /\ l \in checking
  /\ ~sync_flag
  /\ CASE last_pub = NotSet ->
            /\ last_pub' = now
            /\ UNCHANGED <<points_clouds, published, last_frame, ticks>>
       [] last_pub # NotSet /\ Due ->
            /\ last_pub' = last_pub + publish_interval
            /\ ticks' = ticks + 1
            /\ Publish(Lidars)
       [] OTHER -> UNCHANGED <<points_clouds, published, last_frame, last_pub, ticks>>
  /\ checking' = {}
  /\ UNCHANGED <<network, sync_flag, raw, received, is_quit, ended>>

PointThread == \/ RawDataProcess
               \/ EndThread
               \/ \E l \in Lidars : CheckTimerSync(l) \/ CheckTimerNoSync(l)

Next == \/ PointThread
        \/ Tick
        \/ RequestExit
        \/ \E l \in Lidars : Receive(l) \/ ReceiveImu(l) \/ Lose(l) \/ SyncChanges(l)

Spec == Init /\ [][Next]_vars

(* The operating system runs the point thread when it can run.             *)
FairSpec == Spec /\ WF_vars(PointThread)

-----------------------------------------------------------------------------
(* Properties.                                                             *)

PositionsOf(l) == {i \in 1 .. Len(raw) : raw[i].lidar = l}

(* What a lidar sent is published in the order it came, each packet once,  *)
(* and what is not published yet is still held: whichever clock cuts the   *)
(* frames and however often that changes, also between the moment a packet *)
(* is taken from the queue and the moment CheckTimer reads the flag        *)
(* (pub_handler.cpp:152, 218-238).                                         *)
InOrder ==
  \A l \in Lidars :
    LET held == published[l] + Len(points_clouds[l])
    IN  /\ held <= received[l]
        /\ \A i \in 1 .. Len(points_clouds[l]) :
             points_clouds[l][i].no = published[l] + i
        /\ {raw[i].packet.no : i \in PositionsOf(l)} = (held + 1) .. received[l]
        /\ \A i, j \in PositionsOf(l) : i < j => raw[i].packet.no < raw[j].packet.no

(* All clocks have always been synchronised and nothing was lost.          *)
Steady == synced = Lidars /\ flips = 0 /\ lost = 0

(* Then the frames of every lidar soon end on the multiples of the         *)
(* interval, whenever the lidar began and whichever lidar the packet before*)
(* was from.  The first frame ends in the first millisecond of an interval *)
(* for which what is gathered is long enough: up to a whole interval after *)
(* the first boundary, which is missed by a lidar that began too shortly   *)
(* before it.  From then on no boundary is missed, and each frame is one   *)
(* interval long to within a millisecond; the packets that share the       *)
(* millisecond of a boundary do not make a frame of their own              *)
(* (pub_handler.cpp:152-162).                                              *)
IsFirst(l, frame) == frame.from = start[l]

RegularFrame(l, frame) ==
  LET length == frame.to - frame.from
  IN  IF IsFirst(l, frame)
        THEN /\ OnBoundary(frame.to)
             /\ length \in publish_interval_tolerance .. 2 * publish_interval_tolerance
        ELSE /\ frame.to % publish_interval = 0
             /\ length \in publish_interval_tolerance .. (publish_interval - 1)

RegularFrames ==
  Steady =>
    \A l \in Lidars :
      /\ last_frame[l] # NoSpan => RegularFrame(l, last_frame[l])
      /\ checking = {} /\ points_clouds[l] # <<>> =>
           GetRecentTimeStamp(l) - GetLidarBaseTime(l)
             < IF last_frame[l] = NoSpan THEN 2 * publish_interval_tolerance
                                         ELSE publish_interval

(* The host's clock never cuts more frames than intervals have passed since*)
(* the first packet, although after a pause it catches up, one frame for   *)
(* each packet (pub_handler.cpp:190-193), and although the clocks of the   *)
(* lidars may have published in between.                                   *)
AverageRate ==
  ticks > 0 =>
    \E l \in Lidars : start[l] # NotSet /\ ticks * publish_interval <= now - start[l]

(* The point thread ends when PubHandler is torn down, whatever is queued, *)
(* so that its join returns (pub_handler.cpp:36-40, 217-224).              *)
PointThreadEnds == is_quit ~> ended
=============================================================================
