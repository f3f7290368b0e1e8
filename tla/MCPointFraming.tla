---------------------------- MODULE MCPointFraming ----------------------------
(* Two lidars whose packets come twice in a millisecond, an interval of    *)
(* three milliseconds, and time for two boundaries.  The first lidar begins*)
(* two units before the first of them, which is too late for it, so that   *)
(* its first frame ends at the second; the other begins at zero and has    *)
(* two frames.                                                             *)
EXTENDS PointFraming

CONSTANTS l1, l2

MCLidars == {l1, l2}
MCStarts == [l \in MCLidars |-> IF l = l1 THEN {4} ELSE {0}]
=============================================================================
