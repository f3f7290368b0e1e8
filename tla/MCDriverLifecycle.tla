------------------------- MODULE MCDriverLifecycle -------------------------
(* Three loads of the driver in one process, one packet with points at a   *)
(* time.                                                                   *)
EXTENDS DriverLifecycle
=============================================================================
