------------------------------ MODULE HandOver ------------------------------
(***************************************************************************)
(* What both pipelines promise of the way from the threads that push data  *)
(* to the poll thread that publishes them: the data of sampling lidars are *)
(* taken each once, and the poll thread does not go to sleep on data.      *)
(* Every step is atomic here; PointCloudPipeline and ImuPipeline get there *)
(* with queues, a counter that is read without its mutex, and a scan over  *)
(* all lidars that others push to meanwhile.                               *)
(***************************************************************************)
EXTENDS Naturals

CONSTANTS Lidars,
          Late      \* lidars of which one datum can be overlooked

VARIABLES held,     \* held[l]: data of l that were pushed and not taken
          asleep    \* the poll thread sleeps, and nobody will wake it

handOverVars == <<held, asleep>>

HandOverInit == /\ held = [l \in Lidars |-> 0]
                /\ asleep = FALSE

(* Whoever pushes sees to it that the poll thread is awake.                *)
Put(l) == /\ held' = [held EXCEPT ![l] = @ + 1]
          /\ asleep' = FALSE

Take(l) == /\ ~asleep
           /\ held[l] > 0
           /\ held' = [held EXCEPT ![l] = @ - 1]
           /\ UNCHANGED asleep

Sleep == /\ ~asleep
         /\ \A l \in Lidars : held[l] <= IF l \in Late THEN 1 ELSE 0
         /\ asleep' = TRUE
         /\ UNCHANGED held

(* It can be woken for data that do not count, those of lidars that are    *)
(* not sampling, or that are refused in the end.                           *)
WakeUp == /\ asleep
          /\ asleep' = FALSE
          /\ UNCHANGED held

HandOverNext == \/ Sleep
                \/ WakeUp
                \/ \E l \in Lidars : Put(l) \/ Take(l)

HandOverSpec == HandOverInit /\ [][HandOverNext]_handOverVars
=============================================================================
