--------------------------- MODULE LidarDataQueue ---------------------------
(***************************************************************************)
(* The ring buffer that carries point-cloud frames of one lidar from the   *)
(* point thread (Lds::PushLidarData) to the poll thread                    *)
(* (Lddc::PollingLidarPointCloudData).  No lock protects it: the producer  *)
(* alone writes wr_idx and the slots, the consumer alone writes rd_idx,    *)
(* and the indices are unsigned integers that wrap around.  A frame does   *)
(* not fit in one store, so a push and a pop touch the slot in two steps,  *)
(* first base_time and then the points.                                    *)
(*                                                                         *)
(* The stores of a thread become visible in program order here (the slot   *)
(* before the index that publishes it), which is what x86 guarantees.      *)
(***************************************************************************)
EXTENDS Integers, Sequences

CONSTANTS Frames,         \* what a frame can be
          IdxMod,         \* indices are counted modulo this (2^32)
          Powers2,        \* the values 1 << i that RoundupPowerOf2 tries
          RequestedSize   \* what CalculatePacketQueueSize asks for

(* RoundupPowerOf2: the first power of two that is large enough, else the  *)
(* last one tried.  A power of two is its own rounding, which is the test  *)
(* IsPowerOf2 that InitQueue makes first.                                  *)
RoundsUpTo(n, p) == /\ n <= p \/ \A q \in Powers2 : q <= p
                    /\ \A q \in Powers2 : q < p => q < n

ASSUME QueueAssumption ==
  /\ IdxMod \in Nat \ {0}
  /\ RequestedSize \in Nat
  /\ Powers2 \subseteq 1 .. (IdxMod - 1)
  /\ \A p \in Powers2 : IdxMod % p = 0
  /\ \E p \in Powers2 : RoundsUpTo(RequestedSize, p)

QueueSize == CHOOSE p \in Powers2 : RoundsUpTo(RequestedSize, p)

VARIABLES
  storage_packet,  \* the slots; NoStorage is the null pointer
  rd_idx, wr_idx,  \* how many frames were popped and pushed, modulo IdxMod
  mask,            \* one less than the size of the queue
  producer,        \* where the point thread is in PushLidarData
  frame,           \* the frame it is pushing
  consumer,        \* where the poll thread is in QueuePop
  pkg,             \* the poll thread's copy of the slot
  delivered        \* the packet the last QueuePop returned

ring == <<storage_packet, rd_idx, wr_idx, mask>>
vars == <<ring, producer, frame, consumer, pkg, delivered>>

NoFrame   == "no frame"
Packets   == [base_time : Frames \cup {NoFrame}, points : Frames \cup {NoFrame}]
NoPacket  == [base_time |-> NoFrame, points |-> NoFrame]
NoStorage == [i \in {} |-> NoPacket]

PushSteps == {"idle", "init", "check", "base_time", "points", "advance"}
PopSteps  == {"idle", "points", "advance"}

-----------------------------------------------------------------------------
(* Mutant of Slot: the mask taken for the size.                            *)
SlotByMask(idx) == IF mask = 0 THEN 0 ELSE idx % mask

(* mask + 1 is a power of two, so the bitwise "and" with mask is this.     *)
Slot(idx) == idx % (mask + 1)

(* Mutant of Increment: an index that does not wrap around.                *)
IncrementForever(idx) == idx + 1

Increment(idx) == (idx + 1) % IdxMod

(* Mutant of QueueUsedSize: the wrap-around of the indices forgotten.      *)
QueueUsedSizeSigned == IF wr_idx >= rd_idx THEN wr_idx - rd_idx ELSE 0

QueueUsedSize == (wr_idx - rd_idx) % IdxMod

(* Mutants of QueueIsFull: off by one to either side.                      *)
QueueIsOverfull == QueueUsedSize > mask + 1

QueueIsAlmostFull == QueueUsedSize >= mask

QueueIsFull == QueueUsedSize > mask

QueueIsEmpty == rd_idx = wr_idx

-----------------------------------------------------------------------------
(* The constructor of Lds has called DeInitQueue.                          *)
Init == /\ storage_packet = NoStorage
        /\ rd_idx = 0
        /\ wr_idx = 0
        /\ mask = 0
        /\ producer = "idle"
        /\ frame = NoFrame
        /\ consumer = "idle"
        /\ pkg = NoPacket
        /\ delivered = NoPacket

(* The producer: PushLidarData, InitQueue, QueuePushAny. ----------------- *)

(* The first frame of a lidar allocates its slots: storage_packet is set   *)
(* while size, mask and the indices still have their old values.           *)
PushFirst(f) ==
  /\ producer = "idle"
  /\ storage_packet = NoStorage
  /\ storage_packet' = [i \in 0 .. (QueueSize - 1) |-> NoPacket]
  /\ frame' = f
  /\ producer' = "init"
  /\ UNCHANGED <<rd_idx, wr_idx, mask, consumer, pkg, delivered>>

InitQueueIndices ==
  /\ producer = "init"
  /\ rd_idx' = 0
  /\ wr_idx' = 0
  /\ mask' = QueueSize - 1
  /\ producer' = "check"
  /\ UNCHANGED <<storage_packet, frame, consumer, pkg, delivered>>

PushNext(f) ==
  /\ producer = "idle"
  /\ storage_packet # NoStorage
  /\ frame' = f
  /\ producer' = "check"
  /\ UNCHANGED <<ring, consumer, pkg, delivered>>

(* When the queue is full the newest frame is dropped.                     *)
PushDrop ==
  /\ producer = "check"
  /\ QueueIsFull
  /\ producer' = "idle"
  /\ frame' = NoFrame
  /\ UNCHANGED <<ring, consumer, pkg, delivered>>

PushAccept ==
  /\ producer = "check"
  /\ ~QueueIsFull
  /\ producer' = "base_time"
  /\ UNCHANGED <<ring, frame, consumer, pkg, delivered>>

PushBaseTime ==
  /\ producer = "base_time"
  /\ storage_packet' = [storage_packet EXCEPT ![Slot(wr_idx)].base_time = frame]
  /\ producer' = "points"
  /\ UNCHANGED <<rd_idx, wr_idx, mask, frame, consumer, pkg, delivered>>

PushPoints ==
  /\ producer = "points"
  /\ storage_packet' = [storage_packet EXCEPT ![Slot(wr_idx)].points = frame]
  /\ producer' = "advance"
  /\ UNCHANGED <<rd_idx, wr_idx, mask, frame, consumer, pkg, delivered>>

PushAdvance ==
  /\ producer = "advance"
  /\ wr_idx' = Increment(wr_idx)
  /\ producer' = "idle"
  /\ frame' = NoFrame
  /\ UNCHANGED <<storage_packet, rd_idx, mask, consumer, pkg, delivered>>

(* The consumer: PublishPointcloud2, QueuePop, QueuePrePop. -------------- *)

PopBaseTime ==
  /\ consumer = "idle"
  /\ storage_packet # NoStorage
  /\ ~QueueIsEmpty
  /\ pkg' = [pkg EXCEPT !.base_time = storage_packet[Slot(rd_idx)].base_time]
  /\ consumer' = "points"
  /\ UNCHANGED <<ring, producer, frame, delivered>>

PopPoints ==
  /\ consumer = "points"
  /\ pkg' = [pkg EXCEPT !.points = storage_packet[Slot(rd_idx)].points]
  /\ consumer' = "advance"
  /\ UNCHANGED <<ring, producer, frame, delivered>>

(* QueuePopUpdate, after which the packet is the caller's alone.           *)
PopAdvance ==
  /\ consumer = "advance"
  /\ rd_idx' = Increment(rd_idx)
  /\ delivered' = pkg
  /\ pkg' = NoPacket
  /\ consumer' = "idle"
  /\ UNCHANGED <<storage_packet, wr_idx, mask, producer, frame>>

Next == \/ \E f \in Frames : PushFirst(f) \/ PushNext(f)
        \/ InitQueueIndices
        \/ PushDrop
        \/ PushAccept
        \/ PushBaseTime
        \/ PushPoints
        \/ PushAdvance
        \/ PopBaseTime
        \/ PopPoints
        \/ PopAdvance

Spec == Init /\ [][Next]_vars

-----------------------------------------------------------------------------
(* Properties.                                                             *)

Slots == 0 .. (QueueSize - 1)

(* Every variable keeps its type; in particular the indices stay unsigned  *)
(* integers and mask is 0 until InitQueue has finished (ldq.cpp:20-48).    *)
TypeOK == /\ storage_packet \in [Slots -> Packets] \cup {NoStorage}
          /\ rd_idx \in 0 .. (IdxMod - 1)
          /\ wr_idx \in 0 .. (IdxMod - 1)
          /\ mask \in {0, QueueSize - 1}
          /\ producer \in PushSteps
          /\ frame \in Frames \cup {NoFrame}
          /\ consumer \in PopSteps
          /\ pkg \in Packets
          /\ delivered \in Packets

Writing == producer \in {"base_time", "points"}
Copying == consumer \in {"points", "advance"}

(* The two threads never touch the same slot at the same time, although    *)
(* each decides from an index the other one is changing (QueueIsFull in    *)
(* lds.cpp:170, QueueIsEmpty in ldq.cpp:79) and the indices wrap around.   *)
NoSlotRace == Writing /\ Copying => Slot(wr_idx) # Slot(rd_idx)

(* A packet QueuePop returns is one frame as it was pushed, never the      *)
(* base_time of one frame with the points of another (ldq.cpp:86-90).      *)
DeliveredWhole == /\ delivered.base_time = delivered.points
                  /\ consumer = "advance" => pkg.base_time = pkg.points

(* A frame is dropped only while as many frames as there are slots wait to *)
(* be popped (lds.cpp:170): the lag of the index the producer reads never  *)
(* makes it give up a frame a free slot could have held.                   *)
DropOnlyWhenFull ==
  [][producer = "check" /\ producer' = "idle"
       => QueueUsedSize = QueueSize]_vars

(* The frames between the two indices, oldest first.                       *)
Contents == [i \in 1 .. QueueUsedSize |->
               storage_packet[Slot((rd_idx + (i - 1)) % IdxMod)]]

Whole == {[base_time |-> f, points |-> f] : f \in Frames}

Fifo == INSTANCE BoundedFifo
          WITH Frames <- Whole, Capacity <- QueueSize, Nothing <- NoPacket,
               queue <- Contents

(* The ring buffer implements the atomic bounded queue: frames leave it in *)
(* the order they entered, each once and whole, across the wrap-around of  *)
(* the indices (ldq.cpp:73-135).                                           *)
ImplementsFifo == Fifo!FifoSpec
=============================================================================
