-------------------------- MODULE MCLidarDataQueue --------------------------
(* A queue of four slots whose indices wrap around after 16 pushes.        *)
EXTENDS LidarDataQueue

MCPowers2 == {1, 2, 4, 8}
=============================================================================
