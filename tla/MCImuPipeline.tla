---------------------------- MODULE MCImuPipeline ----------------------------
(* Two lidars and two SDK threads, any of which may push for any lidar     *)
(* while the poll thread is at any point of its scan.                      *)
EXTENDS ImuPipeline
=============================================================================
