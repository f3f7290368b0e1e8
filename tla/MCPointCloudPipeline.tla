------------------------ MODULE MCPointCloudPipeline ------------------------
(* Two lidars, so that one can starve, miss or hide the other's frames.    *)
EXTENDS PointCloudPipeline
=============================================================================
