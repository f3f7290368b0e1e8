--------------------------- MODULE PointPlacement ---------------------------
(***************************************************************************)
(* Where a point is: from the extrinsic parameters of the user's file, on  *)
(* the one hand through LidarPubHandler, which moves and turns each point, *)
(* to the PointCloud2 message and its frame, and on the other hand through *)
(* Lddc::PublishTFs to the static transform between the frame of the lidar *)
(* and its parent.  The two compute the same thing in different ways.      *)
(*                                                                         *)
(* Points and translations are in millimetres; angles are multiples of 90  *)
(* degrees, so that sines and cosines are whole numbers.  A frame is one   *)
(* point, and one at a time is on its way to the poll thread.              *)
(***************************************************************************)
EXTENDS UserConfig

CONSTANTS CartesianRaw,   \* what a Cartesian packet can hold
          SphericalRaw,   \* what a spherical packet can hold
          None

(* What packets hold are whole numbers.                                    *)
ASSUME PacketAssumption ==
  /\ \A raw \in CartesianRaw : \A i \in 1 .. 3 : raw[i] \in Int
  /\ \A raw \in SphericalRaw : raw.depth \in Int

VARIABLES
  sampling,    \* lidars whose connect_state is kConnectStateSampling
  frame,       \* the point on its way, with the packet it comes from
  cloud,       \* the last PointCloud2 message
  transforms   \* the static transforms sent last, of the lidars that have one

placement == <<sampling, frame, cloud, transforms>>

PlacementInit == /\ Init
                 /\ sampling = {}
                 /\ frame = None
                 /\ cloud = None
                 /\ transforms = <<>>

-----------------------------------------------------------------------------
(* Rotations of the axes 1, 2, 3.                                          *)

Axes == 1 .. 3
Cos(deg) == CASE deg % 360 = 0 -> 1 [] deg % 360 = 180 -> -1 [] OTHER -> 0
Sin(deg) == CASE deg % 360 = 90 -> 1 [] deg % 360 = 270 -> -1 [] OTHER -> 0

Times(A, B) ==
  [i \in Axes |-> [j \in Axes |-> A[i][1] * B[1][j] + A[i][2] * B[2][j] + A[i][3] * B[3][j]]]
Turned(A, v) == [i \in Axes |-> A[i][1] * v[1] + A[i][2] * v[2] + A[i][3] * v[3]]
Plus(v, w) == [i \in Axes |-> v[i] + w[i]]
Scaled(n, v) == [i \in Axes |-> n * v[i]]

Translation(ext) == <<ext.x, ext.y, ext.z>>

(* The matrix SetLidarsExtParam fills in.                                  *)
Rotation(ext) ==
  LET cr == Cos(ext.roll)  sr == Sin(ext.roll)
      cp == Cos(ext.pitch) sp == Sin(ext.pitch)
      cy == Cos(ext.yaw)   sy == Sin(ext.yaw)
  IN  << <<cp * cy, sr * sp * cy - cr * sy, cr * sp * cy + sr * sy>>,
         <<cp * sy, sr * sp * sy + cr * cy, cr * sp * sy - sr * cy>>,
         <<-sp, sr * cp, cr * cp>> >>

(* The rotation tf2 makes of setRPY: about the fixed axes x, y and z, in   *)
(* this order.                                                             *)
RPY(ext) ==
  LET X == << <<1, 0, 0>>, <<0, Cos(ext.roll), -Sin(ext.roll)>>,
              <<0, Sin(ext.roll), Cos(ext.roll)>> >>
      Y == << <<Cos(ext.pitch), 0, Sin(ext.pitch)>>, <<0, 1, 0>>,
              <<-Sin(ext.pitch), 0, Cos(ext.pitch)>> >>
      Z == << <<Cos(ext.yaw), -Sin(ext.yaw), 0>>, <<Sin(ext.yaw), Cos(ext.yaw), 0>>,
              <<0, 0, 1>> >>
  IN  Times(Z, Times(Y, X))

-----------------------------------------------------------------------------
(* Packets.  The data type is that of the packet, whatever the lidar was   *)
(* told to send.                                                           *)

Packets == [data_type : {HighData, LowData}, raw : CartesianRaw]
             \cup [data_type : {SphericalData}, raw : SphericalRaw]

(* The point of a spherical packet, in the frame of the lidar.             *)
Spherical(raw) ==
  Scaled(raw.depth, << Sin(raw.theta) * Cos(raw.phi),
                       Sin(raw.theta) * Sin(raw.phi),
                       Cos(raw.theta) >>)

(* ProcessCartesianHighPoint, ProcessCartesianLowPoint and                 *)
(* ProcessSphericalPoint: raw points are turned, moved and divided by a    *)
(* thousand, but those of low resolution by a hundred, which makes 10 mm   *)
(* of one unit.                                                            *)
ProcessCartesianHighPoint(raw, ext) ==
  Plus(Turned(Rotation(ext), raw), Translation(ext))

ProcessCartesianLowPoint(raw, ext) ==
  Scaled(10, Plus(Turned(Rotation(ext), raw), Translation(ext)))

ProcessSphericalPoint(raw, ext) ==
  Plus(Turned(Rotation(ext), Spherical(raw)), Translation(ext))

LivoxLidarPointCloudProcess(pkt, ext) ==
  CASE pkt.data_type = HighData      -> ProcessCartesianHighPoint(pkt.raw, ext)
    [] pkt.data_type = LowData       -> ProcessCartesianLowPoint(pkt.raw, ext)
    [] pkt.data_type = SphericalData -> ProcessSphericalPoint(pkt.raw, ext)

(* The point thread handles a packet of a lidar of the file.  The handler  *)
(* of a lidar takes the parameters with its first packet and keeps them;   *)
(* they were all added before the first packet could come.                 *)
RawDataProcess(l, pkt) ==
  /\ step = "running"
  /\ l \in DOMAIN lidar_param
  /\ frame = None
  /\ frame' = [lidar |-> l, pkt |-> pkt,
               point |-> LivoxLidarPointCloudProcess(pkt, lidar_param[l])]
  /\ UNCHANGED <<vars, sampling, cloud, transforms>>

-----------------------------------------------------------------------------
(* The node.                                                               *)

(* Answers to the settings make a lidar sampling; LidarConfig has the rest.*)
BecomeSampling(l) ==
  /\ l \in DOMAIN sent
  /\ DOMAIN sent[l] # {}
  /\ l \notin sampling
  /\ sampling' = sampling \cup {l}
  /\ UNCHANGED <<vars, frame, cloud, transforms>>

(* InitPointcloud2Msg: the frame a message is in.                          *)
CloudFrame(config) == IF config.publish_tf THEN config.parent_frame_id ELSE config.frame_id

PublishPointcloud2 ==
  /\ frame # None
  /\ frame.lidar \in sampling
  /\ cloud' = [lidar |-> frame.lidar, pkt |-> frame.pkt, point |-> frame.point,
               frame_id |-> CloudFrame(devices[frame.lidar])]
  /\ frame' = None
  /\ UNCHANGED <<vars, sampling, transforms>>

(* The transform of one lidar, from the parameters as they are in the file.*)
Transform(config) ==
  [parent |-> config.parent_frame_id,
   child |-> config.frame_id,
   translation |-> Translation(config.extrinsic_parameter),
   rotation |-> RPY(config.extrinsic_parameter)]

PublishTFs ==
  /\ step = "running"
  /\ transforms' = [l \in {m \in sampling : devices[m].publish_tf} |-> Transform(devices[l])]
  /\ UNCHANGED <<vars, sampling, frame, cloud>>

Placement == \/ \E l \in Lidars, pkt \in Packets : RawDataProcess(l, pkt)
             \/ \E l \in Lidars : BecomeSampling(l)
             \/ PublishPointcloud2
             \/ PublishTFs

PlacementNext == \/ Placement
                 \/ Next /\ UNCHANGED placement

PlacementSpec == PlacementInit /\ [][PlacementNext]_<<vars, placement>>

-----------------------------------------------------------------------------
(* Properties.                                                             *)

(* Where the file says a lidar is mounted.                                 *)
Mount(l) ==
  LET ext == EntryOf(l).extrinsic_parameter
  IN  [k \in Extrinsics |-> IF ext = Absent THEN 0 ELSE OrDefault(ext[k], 0)]

(* What a packet measures, in the frame of the lidar.                      *)
Measured(pkt) == CASE pkt.data_type = HighData      -> pkt.raw
                   [] pkt.data_type = LowData       -> Scaled(10, pkt.raw)
                   [] pkt.data_type = SphericalData -> Spherical(pkt.raw)

Within(n, v, w) == \A i \in Axes : v[i] - w[i] \in -n .. n

(* A published point is where the lidar measured it, seen from the mount   *)
(* the file names: the rescaling at registration (lds_lidar.cpp:142-157)   *)
(* undoes the divisors of the processing (pub_handler.cpp:352-441) but for *)
(* less than a centimetre, and the matrix of pub_handler.cpp:337-347 is    *)
(* that of the same angles.  This is so for packets of the data type the   *)
(* file names; without one the lidar sends its default, high resolution.   *)
PointAsMounted ==
  cloud # None =>
    LET l == cloud.lidar
        chosen == OrDefault(EntryOf(l).pcl_data_type, HighData)
    IN  cloud.pkt.data_type = chosen =>
          Within(IF chosen = LowData THEN 9 ELSE 0, cloud.point,
                 Plus(Turned(RPY(Mount(l)), Measured(cloud.pkt)), Translation(Mount(l))))

(* The transforms of the lidars (lddc.cpp:287-345) agree with it: a point  *)
(* in the lidar's own frame, carried to the parent frame by the transform, *)
(* is the point of the cloud, whose frame is the parent frame whenever     *)
(* there is a transform (lddc.cpp:173-179).                                *)
TransformAgrees ==
  cloud # None /\ cloud.lidar \in DOMAIN transforms =>
    LET t == transforms[cloud.lidar]
        chosen == OrDefault(EntryOf(cloud.lidar).pcl_data_type, HighData)
    IN  /\ cloud.frame_id = t.parent
        /\ cloud.pkt.data_type = chosen =>
             Within(IF chosen = LowData THEN 9 ELSE 0, cloud.point,
                    Plus(Turned(t.rotation, Measured(cloud.pkt)), t.translation))

PlacedAsNamed == PointAsMounted /\ TransformAgrees
=============================================================================
