---------------------------- MODULE MCUserConfig ----------------------------
(* Entries that have or lack each field, with values of the documented     *)
(* ranges; frequencies are such that the average of two is exact.  One     *)
(* point with three different coordinates tells all rotations apart.       *)
EXTENDS PointPlacement

MCExtrinsic(roll, pitch, yaw, x, y, z) ==
  [roll |-> roll, pitch |-> pitch, yaw |-> yaw, x |-> x, y |-> y, z |-> z]

MCEntry(ip, type, mode, blind, dual, freq, child, parent, tf, ext) ==
  [ip |-> ip, pcl_data_type |-> type, pattern_mode |-> mode, blind_spot_set |-> blind,
   dual_emit_en |-> dual, publish_frq |-> freq, frame_id |-> child,
   parent_frame_id |-> parent, publish_tf |-> tf, extrinsic_parameter |-> ext]

MCTilted == MCExtrinsic(90, 270, 180, 120, -35, 7)

(* Files of the first and second kind are about the settings and the       *)
(* frequency, those of the third about the mount.                          *)
MCEntries ==
  {MCEntry(NoIp, 1, 0, 50, Absent, 10000, Absent, Absent, Absent, Absent)}
    \cup {MCEntry("1.5", type, mode, blind, 0, Absent, Absent, Absent, Absent, MCTilted) :
            type \in {Absent, 1, 2, 3}, mode \in {Absent, 2}, blind \in {Absent, 50, 200}}
    \cup {MCEntry(ip, 2, 0, 128, dual, freq, "front", "map", FALSE, Absent) :
            ip \in {"1.5", "1.7"}, dual \in {Absent, 1},
            freq \in {Absent, 50, 1000, 1050, 6250, 10000}}
    \cup {MCEntry("1.5", type, 0, Absent, Absent, Absent, "front", "map", TRUE,
                  MCExtrinsic(roll, pitch, yaw, Absent, 5, -129)) :
            type \in {2, 3}, roll \in {0, 90}, pitch \in {0, 90}, yaw \in {Absent, 270}}

(* 62.5 Hz is the limit of QueueHoldsASecond.                             *)
MCRootFreqs == {0, 50, 1500, 5000, 6250, 10000}

MCCartesianRaw == {<<1000, 20, -3>>}
MCSphericalRaw == {[depth |-> 1000, theta |-> 90, phi |-> 270]}
=============================================================================
