---------------------------- MODULE MCCacheIndex ----------------------------
(* Three lidars compete for two indices; three threads, so that one can    *)
(* look up while one inserts and another waits for the mutex.              *)
EXTENDS CacheIndex
=============================================================================
