---------------------------- MODULE BoundedFifo ----------------------------
(***************************************************************************)
(* What the storage queue of one lidar promises to the two threads that    *)
(* share it: a first-in first-out queue of at most Capacity frames.  Every *)
(* step is atomic here; LidarDataQueue shows that the ring buffer, whose   *)
(* pushes and pops take several unsynchronised steps, behaves like this.   *)
(***************************************************************************)
EXTENDS Naturals, Sequences

CONSTANTS Frames,    \* what a frame can be
          Capacity,  \* the most frames the queue holds
          Nothing    \* nothing was delivered yet

VARIABLES queue,     \* the frames pushed and not popped, oldest first
          delivered  \* the frame the last pop returned

fifoVars == <<queue, delivered>>

FifoInit == /\ queue = <<>>
            /\ delivered = Nothing

Enqueue(f) == /\ Len(queue) < Capacity
              /\ queue' = Append(queue, f)
              /\ UNCHANGED delivered

Dequeue == /\ queue # <<>>
           /\ delivered' = Head(queue)
           /\ queue' = Tail(queue)

FifoNext == Dequeue \/ \E f \in Frames : Enqueue(f)

FifoSpec == FifoInit /\ [][FifoNext]_fifoVars
=============================================================================
