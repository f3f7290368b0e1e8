--------------------------- MODULE MCLidarConfig ---------------------------
(* Lidar 1 is in the file; lidars 2 and 3 are not, and only one index is   *)
(* left for them.                                                          *)
EXTENDS LidarConfig, TLC

MCSettings == <<"data_type", "pattern">>
MCWantAll  == (1 :> {"data_type", "pattern"})
MCWantNothing == (1 :> {})
=============================================================================
