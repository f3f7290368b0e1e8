------------------------ MODULE LidarDataQueueProofs ------------------------
(***************************************************************************)
(* Proofs about the ring buffer of LidarDataQueue, for every width of the  *)
(* indices, every size of the queue and every set of frames.               *)
(***************************************************************************)
EXTENDS LidarDataQueue, TLAPS

(***************************************************************************)
(* Facts about remainders: indices are counted modulo m and a slot is an   *)
(* index modulo a divisor of m.                                            *)
(***************************************************************************)
(* A remainder is the only number below the modulus that differs from the  *)
(* dividend by a multiple of it.                                           *)
LEMMA RemainderUnique ==
  ASSUME NEW m \in Nat \ {0}, NEW a \in Int, NEW q \in Int, NEW r \in 0 .. (m - 1),
         a = m * q + r
  PROVE  a % m = r
  BY SMTT(60)

(* Division with remainder.                                                *)
LEMMA DivideWithRemainder ==
  ASSUME NEW m \in Nat \ {0}, NEW a \in Int
  PROVE  /\ a \div m \in Int
         /\ a % m \in 0 .. (m - 1)
         /\ a = m * (a \div m) + (a % m)
  BY Z3

(* Near zero a remainder is found by adding or subtracting m once.         *)
LEMMA RemainderNear ==
  ASSUME NEW m \in Nat \ {0}, NEW a \in Int
  PROVE  /\ a \in 0 .. (m - 1) => a % m = a
         /\ a \in m .. (2 * m - 1) => a % m = a - m
         /\ a \in (-m) .. (-1) => a % m = a + m
<1>1. a \in 0 .. (m - 1) => a % m = a
  BY RemainderUnique, a = m * 0 + a
<1>2. a \in m .. (2 * m - 1) => a % m = a - m
  BY RemainderUnique, a = m * 1 + (a - m)
<1>3. a \in (-m) .. (-1) => a % m = a + m
  BY RemainderUnique, a = m * (-1) + (a + m)
<1> QED  BY <1>1, <1>2, <1>3

(* Reducing modulo m first does not change the remainder by a divisor s of *)
(* m: the slot of an index does not depend on whether it wrapped around.   *)
LEMMA RemainderOfWrapped ==
  ASSUME NEW m \in Nat \ {0}, NEW s \in Nat \ {0}, m % s = 0,
         NEW a \in 0 .. (2 * m - 1)
  PROVE  (a % m) % s = a % s
<1>1. CASE a < m
  BY <1>1, RemainderNear
<1>2. CASE a >= m
  <2>1. a % m = a - m
    <3>1. a \in Int /\ a \in m .. (2 * m - 1)
      BY <1>2
    <3> QED  BY <3>1, RemainderNear, Zenon
  <2> DEFINE k == m \div s
             q == a \div s
             r == a % s
  <2>2. k \in Int /\ m = s * k
    BY DivideWithRemainder, m % s = 0
  <2>3. q \in Int /\ r \in 0 .. (s - 1) /\ a = s * q + r
    BY DivideWithRemainder
  <2> HIDE DEF k, q, r
  <2>4. a - m = s * (q - k) + r
    BY <2>2, <2>3, Z3
  <2>5. (a - m) % s = r
    BY <2>2, <2>3, <2>4, RemainderUnique
  <2> QED  BY <2>1, <2>5 DEF r
<1> QED  BY <1>1, <1>2

(* Numbers less than s apart have different remainders by s.               *)
LEMMA RemaindersDiffer ==
  ASSUME NEW s \in Nat \ {0}, NEW a \in Nat, NEW b \in Nat, a < b, b - a < s
  PROVE  a % s # b % s
<1> SUFFICES ASSUME a % s = b % s PROVE FALSE
  OBVIOUS
<1> DEFINE p == a \div s
           q == b \div s
           r == a % s
<1>1. p \in Int /\ r \in 0 .. (s - 1) /\ a = s * p + r
  BY DivideWithRemainder
<1>2. q \in Int /\ b = s * q + r
  BY DivideWithRemainder
<1> HIDE DEF p, q, r
<1>3. b - a = s * (q - p)
  BY <1>1, <1>2, Z3
<1>4. CASE q - p <= 0
  BY <1>1, <1>2, <1>3, <1>4, Z3
<1>5. CASE q - p >= 1
  BY <1>1, <1>2, <1>3, <1>5, Z3
<1> QED  BY <1>1, <1>2, <1>4, <1>5

-----------------------------------------------------------------------------
(* Two indices rd and wr counted modulo m, wr being u ahead of rd.         *)

(* The distance is below m, is zero only when the indices are equal, and   *)
(* leads from rd to wr.                                                    *)
LEMMA Distance ==
  ASSUME NEW m \in Nat \ {0}, NEW rd \in 0 .. (m - 1), NEW wr \in 0 .. (m - 1)
  PROVE  /\ (wr - rd) % m \in 0 .. (m - 1)
         /\ (wr - rd) % m = 0 <=> rd = wr
         /\ (rd + ((wr - rd) % m)) % m = wr
<1>1. CASE wr >= rd
  <2>1. wr - rd \in Int /\ wr - rd \in 0 .. (m - 1)
    BY <1>1
  <2>2. (wr - rd) % m = wr - rd
    BY <2>1, RemainderNear
  <2>3. rd + (wr - rd) = wr /\ wr % m = wr
    BY RemainderNear
  <2> QED  BY <1>1, <2>1, <2>2, <2>3
<1>2. CASE wr < rd
  <2>1. wr - rd \in Int /\ wr - rd \in (-m) .. (-1)
    BY <1>2
  <2>2. (wr - rd) % m = wr - rd + m
    BY <2>1, RemainderNear
  <2>3. wr + m \in Int /\ wr + m \in m .. (2 * m - 1)
    OBVIOUS
  <2>4. (wr + m) % m = wr
    BY <2>3, RemainderNear
  <2>5. rd + (wr - rd + m) = wr + m
    OBVIOUS
  <2> QED  BY <1>2, <2>1, <2>2, <2>4, <2>5
<1> QED  BY <1>1, <1>2

(* Incrementing an index modulo m.                                         *)
LEMMA IncrementCases ==
  ASSUME NEW m \in Nat \ {0}, NEW a \in 0 .. (m - 1)
  PROVE  /\ (a + 1) % m \in 0 .. (m - 1)
         /\ a < m - 1 => (a + 1) % m = a + 1
         /\ a = m - 1 => (a + 1) % m = 0
<1>1. a < m - 1 => (a + 1) % m = a + 1
  BY RemainderUnique, a + 1 = m * 0 + (a + 1)
<1>2. a = m - 1 => (a + 1) % m = 0
  BY RemainderUnique, a = m - 1 => a + 1 = m * 1 + 0
<1> QED  BY <1>1, <1>2

(* Incrementing wr increases the distance.                                 *)
LEMMA DistanceAfterPush ==
  ASSUME NEW m \in Nat \ {0}, NEW rd \in 0 .. (m - 1), NEW wr \in 0 .. (m - 1),
         (wr - rd) % m < m - 1
  PROVE  (((wr + 1) % m) - rd) % m = ((wr - rd) % m) + 1
<1>1. /\ wr - rd \in 0 .. (m - 1) => (wr - rd) % m = wr - rd
      /\ wr - rd \in (-m) .. (-1) => (wr - rd) % m = wr - rd + m
  BY RemainderNear, wr - rd \in Int
<1> DEFINE w == (wr + 1) % m
<1>2. /\ w \in 0 .. (m - 1)
      /\ wr < m - 1 => w = wr + 1
      /\ wr = m - 1 => w = 0
  BY IncrementCases
<1> HIDE DEF w
<1>3. /\ w - rd \in 0 .. (m - 1) => (w - rd) % m = w - rd
      /\ w - rd \in (-m) .. (-1) => (w - rd) % m = w - rd + m
  BY <1>2, RemainderNear, w - rd \in Int
<1>4. (w - rd) % m = ((wr - rd) % m) + 1
  BY <1>1, <1>2, <1>3
<1> QED  BY <1>4 DEF w

(* Incrementing rd decreases the distance, if there is any.                *)
LEMMA DistanceAfterPop ==
  ASSUME NEW m \in Nat \ {0}, NEW rd \in 0 .. (m - 1), NEW wr \in 0 .. (m - 1),
         rd # wr
  PROVE  (wr - ((rd + 1) % m)) % m = ((wr - rd) % m) - 1
<1>1. /\ wr - rd \in 0 .. (m - 1) => (wr - rd) % m = wr - rd
      /\ wr - rd \in (-m) .. (-1) => (wr - rd) % m = wr - rd + m
  BY RemainderNear, wr - rd \in Int
<1> DEFINE r == (rd + 1) % m
<1>2. /\ r \in 0 .. (m - 1)
      /\ rd < m - 1 => r = rd + 1
      /\ rd = m - 1 => r = 0
  BY IncrementCases
<1> HIDE DEF r
<1>3. /\ wr - r \in 0 .. (m - 1) => (wr - r) % m = wr - r
      /\ wr - r \in (-m) .. (-1) => (wr - r) % m = wr - r + m
  BY <1>2, RemainderNear, wr - r \in Int
<1>4. (wr - r) % m = ((wr - rd) % m) - 1
  BY <1>1, <1>2, <1>3
<1> QED  BY <1>4 DEF r

(* Position i behind the incremented index is position i + 1 behind it.    *)
LEMMA PositionAfterPop ==
  ASSUME NEW m \in Nat \ {0}, NEW rd \in 0 .. (m - 1), NEW i \in 0 .. (m - 1)
  PROVE  (((rd + 1) % m) + i) % m = (rd + (i + 1)) % m
<1>1. CASE rd < m - 1
  <2>1. (rd + 1) % m = rd + 1
    BY <1>1, IncrementCases
  <2> QED  BY <2>1
<1>2. CASE rd = m - 1
  <2>1. (rd + 1) % m = 0
    BY <1>2, IncrementCases
  <2>2. i % m = i
    BY RemainderNear
  <2>3. rd + (i + 1) \in Int /\ rd + (i + 1) \in m .. (2 * m - 1)
    BY <1>2
  <2>4. (rd + (i + 1)) % m = i
    BY <1>2, <2>3, RemainderNear
  <2> QED  BY <2>1, <2>2, <2>4
<1> QED  BY <1>1, <1>2

(* Positions less than s apart are in different slots when s divides m.    *)
LEMMA SlotsDiffer ==
  ASSUME NEW m \in Nat \ {0}, NEW s \in Nat \ {0}, s <= m, m % s = 0,
         NEW rd \in 0 .. (m - 1),
         NEW i \in 0 .. (s - 1), NEW j \in 0 .. (s - 1), i < j
  PROVE  ((rd + i) % m) % s # ((rd + j) % m) % s
<1>1. /\ rd + i \in 0 .. (2 * m - 1)
      /\ rd + j \in 0 .. (2 * m - 1)
  OBVIOUS
<1>2. /\ ((rd + i) % m) % s = (rd + i) % s
      /\ ((rd + j) % m) % s = (rd + j) % s
  BY <1>1, RemainderOfWrapped
<1>3. rd + i \in Nat /\ rd + j \in Nat /\ rd + i < rd + j /\ (rd + j) - (rd + i) < s
  OBVIOUS
<1>4. (rd + i) % s # (rd + j) % s
  BY <1>3, RemaindersDiffer
<1> QED  BY <1>2, <1>4

-----------------------------------------------------------------------------
(* The queue.                                                              *)

(* The size InitQueue allocates is one of the powers of two, so it is      *)
(* smaller than the range of the indices and divides it.                   *)
LEMMA QueueSizeFacts ==
  /\ QueueSize \in Powers2
  /\ QueueSize \in Nat \ {0}
  /\ QueueSize < IdxMod
  /\ IdxMod % QueueSize = 0
  /\ IdxMod \in Nat \ {0}
<1>1. QueueSize \in Powers2
  BY QueueAssumption DEF QueueSize
<1> QED  BY <1>1, QueueAssumption

-----------------------------------------------------------------------------
(* The inductive invariant.                                                *)

Ready == storage_packet # NoStorage /\ producer # "init"

(* Until InitQueue has finished both indices are zero, so the poll thread  *)
(* finds the queue empty; afterwards mask has its value.                   *)
Initialised == /\ storage_packet = NoStorage => producer = "idle"
               /\ ~Ready => /\ mask = 0
                            /\ rd_idx = 0
                            /\ wr_idx = 0
                            /\ consumer = "idle"
               /\ Ready => mask = QueueSize - 1

(* There are never more frames than slots, one fewer while a push that     *)
(* passed the test of fullness is under way, and at least one during a pop.*)
Occupancy == /\ QueueUsedSize <= QueueSize
             /\ producer \in {"base_time", "points", "advance"}
                  => QueueUsedSize < QueueSize
             /\ Copying => QueueUsedSize > 0

(* What the push under way has already written.                            *)
Claimed == /\ producer # "idle" => frame \in Frames
           /\ producer \in {"points", "advance"}
                => storage_packet[Slot(wr_idx)].base_time = frame
           /\ producer = "advance"
                => storage_packet[Slot(wr_idx)].points = frame

Position(i) == Slot((rd_idx + i) % IdxMod)

(* Every frame waiting between the indices is whole.                       *)
Filled == \A i \in 0 .. (QueueUsedSize - 1) : storage_packet[Position(i)] \in Whole

(* What the pop under way has already copied.                              *)
Copied == /\ Copying => pkg.base_time = storage_packet[Slot(rd_idx)].base_time
          /\ consumer = "advance"
               => pkg.points = storage_packet[Slot(rd_idx)].points
          /\ delivered \in Whole \cup {NoPacket}

IInv == TypeOK /\ Initialised /\ Occupancy /\ Claimed /\ Filled /\ Copied

LEMMA IInvInit == Init => IInv
<1> SUFFICES ASSUME Init PROVE IInv
  OBVIOUS
<1>1. 0 \in 0 .. (IdxMod - 1)
  BY QueueSizeFacts
<1>2. TypeOK
  BY <1>1 DEF Init, TypeOK, Packets, NoPacket, PushSteps, PopSteps
<1>3. QueueUsedSize = 0
  BY QueueSizeFacts, Distance, <1>1 DEF Init, QueueUsedSize
<1>4. Initialised
  BY DEF Init, Initialised, Ready
<1>5. Occupancy
  BY <1>3, QueueSizeFacts DEF Init, Occupancy, Copying
<1>6. Claimed /\ Copied
  BY DEF Init, Claimed, Copied, Copying
<1>7. Filled
  BY <1>3 DEF Filled
<1> QED  BY <1>2, <1>4, <1>5, <1>6, <1>7 DEF IInv

LEMMA IncrementType ==
  ASSUME NEW idx \in 0 .. (IdxMod - 1)
  PROVE  Increment(idx) \in 0 .. (IdxMod - 1)
  BY QueueSizeFacts, IncrementCases DEF Increment

(* Consequences of the invariant used by several steps.                    *)
LEMMA UsedType ==
  ASSUME TypeOK
  PROVE  /\ QueueUsedSize \in 0 .. (IdxMod - 1)
         /\ QueueUsedSize = 0 <=> rd_idx = wr_idx
         /\ (rd_idx + QueueUsedSize) % IdxMod = wr_idx
         /\ (rd_idx + 0) % IdxMod = rd_idx
<1>1. rd_idx \in 0 .. (IdxMod - 1) /\ wr_idx \in 0 .. (IdxMod - 1)
  BY DEF TypeOK
<1>2. (rd_idx + 0) % IdxMod = rd_idx
  BY <1>1, QueueSizeFacts, RemainderNear
<1> QED  BY <1>1, <1>2, QueueSizeFacts, Distance DEF QueueUsedSize

(* A position is a slot, and two positions less than QueueSize apart are   *)
(* different slots.                                                        *)
LEMMA PositionFacts ==
  ASSUME TypeOK, mask = QueueSize - 1
  PROVE  /\ \A idx \in Int : Slot(idx) \in Slots
         /\ Slot(wr_idx) = Position(QueueUsedSize)
         /\ Slot(rd_idx) = Position(0)
         /\ \A i, j \in Slots : i < j => Position(i) # Position(j)
<1>1. \A idx \in Int : Slot(idx) \in Slots
  BY QueueSizeFacts, DivideWithRemainder DEF Slot, Slots
<1>2. Slot(wr_idx) = Position(QueueUsedSize) /\ Slot(rd_idx) = Position(0)
  BY UsedType DEF Position
<1>3. rd_idx \in 0 .. (IdxMod - 1)
  BY DEF TypeOK
<1>4. ASSUME NEW i \in Slots, NEW j \in Slots, i < j
      PROVE  Position(i) # Position(j)
  <2>1. i \in 0 .. (QueueSize - 1) /\ j \in 0 .. (QueueSize - 1) /\ QueueSize <= IdxMod
    BY QueueSizeFacts DEF Slots
  <2>2. mask + 1 = QueueSize
    BY QueueSizeFacts
  <2>3. ((rd_idx + i) % IdxMod) % QueueSize # ((rd_idx + j) % IdxMod) % QueueSize
    BY <1>3, <1>4, <2>1, QueueSizeFacts, SlotsDiffer
  <2> QED  BY <2>2, <2>3 DEF Position, Slot
<1> QED  BY <1>1, <1>2, <1>4

(* While a push writes the slot at wr_idx, that slot is none of those that *)
(* hold a waiting frame.                                                   *)
LEMMA WriteIsElsewhere ==
  ASSUME IInv, producer \in {"base_time", "points", "advance"}
  PROVE  /\ Ready
         /\ mask = QueueSize - 1
         /\ Slot(wr_idx) \in Slots
         /\ \A i \in 0 .. (QueueUsedSize - 1) : Position(i) # Slot(wr_idx)
         /\ Copying => Slot(rd_idx) # Slot(wr_idx)
<1>1. TypeOK /\ Ready /\ mask = QueueSize - 1
  BY DEF IInv, Initialised, Ready
<1>2. QueueUsedSize < QueueSize /\ QueueUsedSize \in Nat /\ wr_idx \in Int
  BY <1>1, UsedType, QueueSizeFacts DEF IInv, Occupancy, TypeOK
<1>3. \A i \in 0 .. (QueueUsedSize - 1) : Position(i) # Slot(wr_idx)
  <2> TAKE i \in 0 .. (QueueUsedSize - 1)
  <2>1. i \in Slots /\ QueueUsedSize \in Slots /\ i < QueueUsedSize
    BY <1>2, QueueSizeFacts DEF Slots
  <2> QED  BY <1>1, <2>1, PositionFacts
<1>4. Copying => Slot(rd_idx) # Slot(wr_idx)
  <2> SUFFICES ASSUME Copying PROVE Slot(rd_idx) # Slot(wr_idx)
    OBVIOUS
  <2>1. 0 \in 0 .. (QueueUsedSize - 1)
    BY <1>2 DEF IInv, Occupancy
  <2> QED  BY <1>1, <1>3, <2>1, PositionFacts
<1> QED  BY <1>1, <1>2, <1>3, <1>4, PositionFacts

-----------------------------------------------------------------------------
(* One lemma per action: it preserves the invariant.                       *)

LEMMA PushFirstInv ==
  ASSUME IInv, NEW f \in Frames, PushFirst(f)
  PROVE  IInv'
<1> USE DEF PushFirst
<1>1. /\ rd_idx = 0 /\ wr_idx = 0 /\ mask = 0 /\ consumer = "idle"
  BY DEF IInv, Initialised, Ready
<1>2. QueueUsedSize = 0 /\ QueueUsedSize' = QueueUsedSize
  BY <1>1, UsedType DEF IInv, QueueUsedSize
<1>3. TypeOK'
  BY DEF IInv, TypeOK, Packets, NoPacket, PushSteps, Slots
<1>4. Initialised'
  <2>1. 0 \in 0 .. (QueueSize - 1) /\ 0 \notin {}
    BY QueueSizeFacts
  <2>2. storage_packet' # NoStorage
    BY <2>1 DEF NoStorage
  <2> QED  BY <1>1, <2>2 DEF Initialised, Ready
<1>5. Occupancy'
  BY <1>1, <1>2, QueueSizeFacts DEF Occupancy, Copying
<1>6. Claimed' /\ Copied'
  BY <1>1 DEF IInv, Claimed, Copied, Copying
<1>7. Filled'
  BY <1>2 DEF Filled
<1> QED  BY <1>3, <1>4, <1>5, <1>6, <1>7 DEF IInv

LEMMA InitQueueIndicesInv ==
  ASSUME IInv, InitQueueIndices
  PROVE  IInv'
<1> USE DEF InitQueueIndices
<1>1. storage_packet # NoStorage /\ consumer = "idle"
  BY DEF IInv, Initialised, Ready
<1>2. 0 \in 0 .. (IdxMod - 1)
  BY QueueSizeFacts
<1>3. QueueUsedSize' = 0
  BY <1>2, QueueSizeFacts, Distance DEF QueueUsedSize
<1>4. TypeOK'
  BY <1>2 DEF IInv, TypeOK, PushSteps
<1>5. Initialised'
  BY <1>1 DEF Initialised, Ready
<1>6. Occupancy'
  BY <1>1, <1>3, QueueSizeFacts DEF Occupancy, Copying
<1>7. Claimed' /\ Copied'
  BY <1>1 DEF IInv, Claimed, Copied, Copying
<1>8. Filled'
  BY <1>3 DEF Filled
<1> QED  BY <1>4, <1>5, <1>6, <1>7, <1>8 DEF IInv

(* The steps that decide or begin something change no shared state.        *)
LEMMA DecisionInv ==
  ASSUME IInv,
         \/ \E f \in Frames : PushNext(f)
         \/ PushDrop
         \/ PushAccept
  PROVE  IInv'
<1> USE DEF PushNext, PushDrop, PushAccept, ring
<1>1. storage_packet # NoStorage
  BY DEF IInv, Initialised, Ready
<1>2. QueueUsedSize' = QueueUsedSize /\ (QueueIsFull <=> QueueUsedSize > mask)
  BY DEF QueueUsedSize, QueueIsFull
<1>3. Ready /\ mask = QueueSize - 1
  BY <1>1 DEF IInv, Initialised, Ready
<1>4. QueueUsedSize \in Nat
  BY UsedType, QueueSizeFacts DEF IInv
<1>5. TypeOK'
  BY DEF IInv, TypeOK, PushSteps
<1>6. Initialised'
  BY <1>3 DEF IInv, Initialised, Ready
<1>7. Occupancy'
  BY <1>2, <1>3, <1>4, QueueSizeFacts DEF IInv, Occupancy, Copying
<1>8. Claimed' /\ Copied'
  BY DEF IInv, Claimed, Copied, Copying, Slot
<1>9. Filled'
  BY <1>2 DEF IInv, Filled, Position, Slot
<1> QED  BY <1>5, <1>6, <1>7, <1>8, <1>9 DEF IInv

(* A store into the slot at wr_idx leaves every waiting frame and the slot *)
(* being copied as they are.                                               *)
LEMMA PushBaseTimeInv ==
  ASSUME IInv, PushBaseTime
  PROVE  IInv'
<1> USE DEF PushBaseTime
<1> DEFINE w == Slot(wr_idx)
<1>1. /\ Ready
      /\ mask = QueueSize - 1
      /\ w \in Slots
      /\ \A i \in 0 .. (QueueUsedSize - 1) : Position(i) # w
      /\ Copying => Slot(rd_idx) # w
  BY WriteIsElsewhere
<1>2. /\ QueueUsedSize' = QueueUsedSize
      /\ w' = w
      /\ Slot(rd_idx)' = Slot(rd_idx)
      /\ \A i \in Int : Position(i)' = Position(i)
  BY DEF QueueUsedSize, Slot, Position
<1>3. storage_packet \in [Slots -> Packets] /\ frame \in Frames
  BY <1>1 DEF IInv, TypeOK, Claimed, Ready
<1>4. /\ storage_packet' \in [Slots -> Packets]
      /\ storage_packet'[w].base_time = frame
      /\ \A x \in Slots : x # w => storage_packet'[x] = storage_packet[x]
  BY <1>1, <1>3 DEF Packets
<1> HIDE DEF w
<1>5. TypeOK'
  BY <1>4 DEF IInv, TypeOK, PushSteps
<1>6. storage_packet' # NoStorage
  BY <1>1, <1>4 DEF NoStorage
<1>7. Initialised'
  BY <1>1, <1>6 DEF IInv, Initialised, Ready
<1>8. Occupancy'
  BY <1>2 DEF IInv, Occupancy, Copying
<1>9. Claimed'
  BY <1>2, <1>3, <1>4 DEF Claimed, w
<1>10. Slot(rd_idx) \in Slots /\ \A i \in Int : Position(i) \in Slots
  BY <1>1, PositionFacts, QueueSizeFacts DEF IInv, TypeOK, Position
<1>11. Copied'
  BY <1>1, <1>2, <1>4, <1>10 DEF IInv, Copied, Copying
<1>12. QueueUsedSize \in Nat
  BY UsedType, QueueSizeFacts DEF IInv
<1>13. Filled'
  BY <1>1, <1>2, <1>4, <1>10, <1>12 DEF IInv, Filled
<1> QED  BY <1>5, <1>7, <1>8, <1>9, <1>11, <1>13 DEF IInv

LEMMA PushPointsInv ==
  ASSUME IInv, PushPoints
  PROVE  IInv'
<1> USE DEF PushPoints
<1> DEFINE w == Slot(wr_idx)
<1>1. /\ Ready
      /\ mask = QueueSize - 1
      /\ w \in Slots
      /\ \A i \in 0 .. (QueueUsedSize - 1) : Position(i) # w
      /\ Copying => Slot(rd_idx) # w
  BY WriteIsElsewhere
<1>2. /\ QueueUsedSize' = QueueUsedSize
      /\ w' = w
      /\ Slot(rd_idx)' = Slot(rd_idx)
      /\ \A i \in Int : Position(i)' = Position(i)
  BY DEF QueueUsedSize, Slot, Position
<1>3. /\ storage_packet \in [Slots -> Packets]
      /\ frame \in Frames
      /\ storage_packet[w].base_time = frame
  BY <1>1 DEF IInv, TypeOK, Claimed, Ready
<1>4. /\ storage_packet' \in [Slots -> Packets]
      /\ storage_packet'[w].base_time = frame
      /\ storage_packet'[w].points = frame
      /\ \A x \in Slots : x # w => storage_packet'[x] = storage_packet[x]
  BY <1>1, <1>3 DEF Packets
<1> HIDE DEF w
<1>5. TypeOK'
  BY <1>4 DEF IInv, TypeOK, PushSteps
<1>6. storage_packet' # NoStorage
  BY <1>1, <1>4 DEF NoStorage
<1>7. Initialised'
  BY <1>1, <1>6 DEF IInv, Initialised, Ready
<1>8. Occupancy'
  BY <1>2 DEF IInv, Occupancy, Copying
<1>9. Claimed'
  BY <1>2, <1>3, <1>4 DEF Claimed, w
<1>10. Slot(rd_idx) \in Slots /\ \A i \in Int : Position(i) \in Slots
  BY <1>1, PositionFacts, QueueSizeFacts DEF IInv, TypeOK, Position
<1>11. Copied'
  BY <1>1, <1>2, <1>4, <1>10 DEF IInv, Copied, Copying
<1>12. QueueUsedSize \in Nat
  BY UsedType, QueueSizeFacts DEF IInv
<1>13. Filled'
  BY <1>1, <1>2, <1>4, <1>10, <1>12 DEF IInv, Filled
<1> QED  BY <1>5, <1>7, <1>8, <1>9, <1>11, <1>13 DEF IInv

(* Advancing wr_idx makes the slot just written the last waiting frame.    *)
LEMMA PushAdvanceFacts ==
  ASSUME IInv, PushAdvance
  PROVE  /\ QueueUsedSize' = QueueUsedSize + 1
         /\ QueueUsedSize < QueueSize
         /\ QueueUsedSize \in Nat
         /\ \A i \in Int : Position(i)' = Position(i)
         /\ frame \in Frames
         /\ storage_packet[Position(QueueUsedSize)]
              = [base_time |-> frame, points |-> frame]
<1> USE DEF PushAdvance
<1>1. Ready /\ mask = QueueSize - 1 /\ TypeOK
  BY WriteIsElsewhere DEF IInv
<1>2. QueueUsedSize < QueueSize /\ QueueUsedSize \in Nat
  BY UsedType, QueueSizeFacts DEF IInv, Occupancy
<1>3. QueueUsedSize' = QueueUsedSize + 1
  <2>1. rd_idx \in 0 .. (IdxMod - 1) /\ wr_idx \in 0 .. (IdxMod - 1)
    BY <1>1 DEF TypeOK
  <2>2. (wr_idx - rd_idx) % IdxMod < IdxMod - 1
    BY <1>2, QueueSizeFacts DEF QueueUsedSize
  <2> QED  BY <2>1, <2>2, QueueSizeFacts, DistanceAfterPush
           DEF QueueUsedSize, Increment
<1>4. \A i \in Int : Position(i)' = Position(i)
  BY DEF Position, Slot
<1>5. Slot(wr_idx) = Position(QueueUsedSize) /\ Slot(wr_idx) \in Slots
  BY <1>1, PositionFacts DEF TypeOK
<1>6. /\ storage_packet \in [Slots -> Packets]
      /\ frame \in Frames
      /\ storage_packet[Slot(wr_idx)].base_time = frame
      /\ storage_packet[Slot(wr_idx)].points = frame
  BY <1>1 DEF IInv, TypeOK, Claimed, Ready
<1>7. storage_packet[Slot(wr_idx)] = [base_time |-> frame, points |-> frame]
  BY <1>5, <1>6 DEF Packets
<1> QED  BY <1>2, <1>3, <1>4, <1>5, <1>6, <1>7

LEMMA PushAdvanceInv ==
  ASSUME IInv, PushAdvance
  PROVE  IInv'
<1> USE DEF PushAdvance
<1>1. /\ QueueUsedSize' = QueueUsedSize + 1
      /\ QueueUsedSize < QueueSize
      /\ QueueUsedSize \in Nat
      /\ \A i \in Int : Position(i)' = Position(i)
      /\ frame \in Frames
      /\ storage_packet[Position(QueueUsedSize)]
           = [base_time |-> frame, points |-> frame]
  BY PushAdvanceFacts
<1>2. TypeOK'
  BY IncrementType DEF IInv, TypeOK, PushSteps
<1>3. Initialised'
  BY WriteIsElsewhere DEF Initialised, Ready
<1>4. Occupancy'
  BY <1>1, QueueSizeFacts DEF IInv, Occupancy, Copying
<1>5. Claimed' /\ Copied'
  BY DEF IInv, Claimed, Copied, Copying, Slot
<1>6. Filled'
  <2> SUFFICES ASSUME NEW i \in 0 .. QueueUsedSize
               PROVE  storage_packet[Position(i)] \in Whole
    BY <1>1 DEF Filled
  <2>1. CASE i = QueueUsedSize
    BY <1>1, <2>1 DEF Whole
  <2>2. CASE i \in 0 .. (QueueUsedSize - 1)
    BY <2>2 DEF IInv, Filled
  <2> QED  BY <1>1, <2>1, <2>2
<1> QED  BY <1>2, <1>3, <1>4, <1>5, <1>6 DEF IInv

(* A copy begins only when a frame waits and changes nothing shared.       *)
LEMMA CopyInv ==
  ASSUME IInv, PopBaseTime \/ PopPoints
  PROVE  IInv'
<1> USE DEF PopBaseTime, PopPoints, ring
<1>1. Ready /\ mask = QueueSize - 1
  <2>1. consumer = "idle" => rd_idx # wr_idx
    BY DEF QueueIsEmpty
  <2> QED  BY <2>1 DEF IInv, Initialised
<1>2. QueueUsedSize' = QueueUsedSize /\ QueueUsedSize \in Nat
  BY UsedType, QueueSizeFacts DEF IInv, QueueUsedSize
<1>3. QueueUsedSize > 0
  BY <1>2, UsedType DEF IInv, Occupancy, Copying, QueueIsEmpty
<1>4. storage_packet[Slot(rd_idx)] \in Packets
  BY <1>1, PositionFacts DEF IInv, TypeOK, Ready
<1>5. TypeOK'
  BY <1>4 DEF IInv, TypeOK, PopSteps, Packets
<1>6. Initialised'
  BY <1>1 DEF IInv, Initialised, Ready
<1>7. Occupancy'
  BY <1>2, <1>3 DEF IInv, Occupancy, Copying
<1>8. Claimed'
  BY DEF IInv, Claimed, Slot
<1>9. Copied'
  BY DEF IInv, TypeOK, Packets, Copied, Copying, Slot
<1>10. Filled'
  BY <1>2 DEF IInv, Filled, Position, Slot
<1> QED  BY <1>5, <1>6, <1>7, <1>8, <1>9, <1>10 DEF IInv

(* Advancing rd_idx removes the first waiting frame, which pkg is a copy of.*)
LEMMA PopAdvanceFacts ==
  ASSUME IInv, PopAdvance
  PROVE  /\ QueueUsedSize' = QueueUsedSize - 1
         /\ QueueUsedSize \in 1 .. QueueSize
         /\ \A i \in 0 .. (QueueUsedSize - 2) : Position(i)' = Position(i + 1)
         /\ storage_packet[Position(0)] \in Whole
         /\ pkg = storage_packet[Position(0)]
<1> USE DEF PopAdvance
<1>1. /\ Ready /\ mask = QueueSize - 1 /\ TypeOK
      /\ QueueUsedSize > 0 /\ QueueUsedSize <= QueueSize
  BY DEF IInv, Initialised, Occupancy, Copying
<1>2. /\ QueueUsedSize \in 0 .. (IdxMod - 1)
      /\ rd_idx # wr_idx
      /\ rd_idx \in 0 .. (IdxMod - 1)
      /\ wr_idx \in 0 .. (IdxMod - 1)
  BY <1>1, UsedType DEF TypeOK
<1>3. QueueUsedSize' = QueueUsedSize - 1
  BY <1>2, QueueSizeFacts, DistanceAfterPop DEF QueueUsedSize, Increment
<1>4. QueueUsedSize \in 1 .. QueueSize
  BY <1>1, <1>2, QueueSizeFacts
<1>5. ASSUME NEW i \in 0 .. (QueueUsedSize - 2)
      PROVE  Position(i)' = Position(i + 1)
  <2>1. i \in 0 .. (IdxMod - 1)
    BY <1>2, QueueSizeFacts
  <2>2. (((rd_idx + 1) % IdxMod) + i) % IdxMod = (rd_idx + (i + 1)) % IdxMod
    BY <1>2, <2>1, QueueSizeFacts, PositionAfterPop
  <2> QED  BY <2>2 DEF Position, Slot, Increment
<1>6. 0 \in 0 .. (QueueUsedSize - 1)
  BY <1>4, QueueSizeFacts
<1>7. storage_packet[Position(0)] \in Whole
  BY <1>6 DEF IInv, Filled
<1>8. /\ Slot(rd_idx) = Position(0)
      /\ pkg.base_time = storage_packet[Slot(rd_idx)].base_time
      /\ pkg.points = storage_packet[Slot(rd_idx)].points
      /\ pkg \in Packets
  BY <1>1, PositionFacts DEF IInv, Copied, Copying, TypeOK
<1>9. pkg = storage_packet[Position(0)]
  BY <1>7, <1>8 DEF Whole, Packets
<1> QED  BY <1>3, <1>4, <1>5, <1>7, <1>9

LEMMA PopAdvanceInv ==
  ASSUME IInv, PopAdvance
  PROVE  IInv'
<1> USE DEF PopAdvance
<1>1. /\ QueueUsedSize' = QueueUsedSize - 1
      /\ QueueUsedSize \in 1 .. QueueSize
      /\ \A i \in 0 .. (QueueUsedSize - 2) : Position(i)' = Position(i + 1)
      /\ storage_packet[Position(0)] \in Whole
      /\ pkg = storage_packet[Position(0)]
  BY PopAdvanceFacts
<1>2. TypeOK'
  BY IncrementType DEF IInv, TypeOK, PopSteps, Packets, NoPacket
<1>3. Initialised'
  BY DEF IInv, Initialised, Ready
<1>4. Occupancy'
  BY <1>1, QueueSizeFacts DEF IInv, Occupancy, Copying
<1>5. Claimed'
  BY DEF IInv, Claimed, Slot
<1>6. Copied'
  BY <1>1 DEF Copied, Copying
<1>7. Filled'
  <2> SUFFICES ASSUME NEW i \in 0 .. (QueueUsedSize - 2)
               PROVE  storage_packet[Position(i)'] \in Whole
    BY <1>1, QueueSizeFacts DEF Filled
  <2>1. i + 1 \in 0 .. (QueueUsedSize - 1)
    BY <1>1, QueueSizeFacts
  <2> QED  BY <1>1, <2>1 DEF IInv, Filled
<1> QED  BY <1>2, <1>3, <1>4, <1>5, <1>6, <1>7 DEF IInv

LEMMA StutterInv ==
  ASSUME IInv, UNCHANGED vars
  PROVE  IInv'
<1> USE DEF vars, ring
<1>1. /\ QueueUsedSize' = QueueUsedSize
      /\ Slot(wr_idx)' = Slot(wr_idx)
      /\ Slot(rd_idx)' = Slot(rd_idx)
      /\ \A i \in Int : Position(i)' = Position(i)
  BY DEF QueueUsedSize, Slot, Position
<1>2. TypeOK' /\ Initialised'
  BY DEF IInv, TypeOK, Initialised, Ready
<1>3. Occupancy' /\ Claimed' /\ Copied'
  BY <1>1 DEF IInv, Occupancy, Claimed, Copied, Copying
<1>4. QueueUsedSize \in Nat
  BY UsedType, QueueSizeFacts DEF IInv
<1>5. Filled'
  BY <1>1, <1>4 DEF IInv, Filled
<1> QED  BY <1>2, <1>3, <1>5 DEF IInv

(* IInv is inductive.                                                      *)
LEMMA IInvNext == IInv /\ [Next]_vars => IInv'
<1> SUFFICES ASSUME IInv, [Next]_vars PROVE IInv'
  OBVIOUS
<1>1. ASSUME NEW f \in Frames, PushFirst(f) PROVE IInv'
  BY <1>1, PushFirstInv
<1>2. ASSUME NEW f \in Frames, PushNext(f) PROVE IInv'
  BY <1>2, DecisionInv
<1>3. CASE InitQueueIndices
  BY <1>3, InitQueueIndicesInv
<1>4. CASE PushDrop \/ PushAccept
  BY <1>4, DecisionInv
<1>5. CASE PushBaseTime
  BY <1>5, PushBaseTimeInv
<1>6. CASE PushPoints
  BY <1>6, PushPointsInv
<1>7. CASE PushAdvance
  BY <1>7, PushAdvanceInv
<1>8. CASE PopBaseTime \/ PopPoints
  BY <1>8, CopyInv
<1>9. CASE PopAdvance
  BY <1>9, PopAdvanceInv
<1>10. CASE UNCHANGED vars
  BY <1>10, StutterInv
<1> QED
  BY <1>1, <1>2, <1>3, <1>4, <1>5, <1>6, <1>7, <1>8, <1>9, <1>10 DEF Next

-----------------------------------------------------------------------------
(* The invariant holds in every reachable state.                           *)
THEOREM Invariance == Spec => []IInv
  BY IInvInit, IInvNext, PTL DEF Spec

(* Every variable keeps its type, whatever the width of the indices.       *)
THEOREM TypeCorrect == Spec => []TypeOK
<1>1. IInv => TypeOK
  BY DEF IInv
<1> QED  BY <1>1, Invariance, PTL

(* The point thread and the poll thread never touch one slot together.     *)
THEOREM SlotRaceFree == Spec => []NoSlotRace
<1>1. IInv => NoSlotRace
  BY WriteIsElsewhere DEF NoSlotRace, Writing
<1> QED  BY <1>1, Invariance, PTL

(* A packet that QueuePop returns is a single pushed frame.                *)
THEOREM PacketsWhole == Spec => []DeliveredWhole
<1>1. IInv => DeliveredWhole
  <2> SUFFICES ASSUME IInv PROVE DeliveredWhole
    OBVIOUS
  <2>1. delivered.base_time = delivered.points
    BY DEF IInv, Copied, Whole, NoPacket
  <2>2. ASSUME consumer = "advance" PROVE pkg.base_time = pkg.points
    <3>1. TypeOK /\ mask = QueueSize - 1 /\ QueueUsedSize > 0
      BY <2>2 DEF IInv, Initialised, Occupancy, Copying
    <3>2. 0 \in 0 .. (QueueUsedSize - 1) /\ Slot(rd_idx) = Position(0)
      BY <3>1, UsedType, PositionFacts, QueueSizeFacts
    <3>3. storage_packet[Slot(rd_idx)] \in Whole
      BY <3>2 DEF IInv, Filled
    <3> QED  BY <2>2, <3>3 DEF IInv, Copied, Copying, Whole
  <2> QED  BY <2>1, <2>2 DEF DeliveredWhole
<1> QED  BY <1>1, Invariance, PTL

(* No frame is given up while a slot is free.                              *)
THEOREM DropsOnlyWhenFull == Spec => DropOnlyWhenFull
<1>1. IInv /\ [Next]_vars =>
        [producer = "check" /\ producer' = "idle"
           => QueueUsedSize = QueueSize]_vars
  <2> SUFFICES ASSUME IInv, Next, producer = "check", producer' = "idle"
               PROVE  QueueUsedSize = QueueSize
    OBVIOUS
  <2>1. PushDrop
    BY DEF Next, PushFirst, PushNext, InitQueueIndices, PushAccept, PushBaseTime,
           PushPoints, PushAdvance, PopBaseTime, PopPoints, PopAdvance
  <2>2. mask = QueueSize - 1
    BY DEF IInv, Initialised, Ready
  <2>3. QueueUsedSize > mask /\ QueueUsedSize \in Nat /\ QueueUsedSize <= QueueSize
    BY <2>1, UsedType, QueueSizeFacts DEF PushDrop, QueueIsFull, IInv, Occupancy
  <2> QED  BY <2>2, <2>3, QueueSizeFacts
<1> QED  BY <1>1, Invariance, PTL DEF Spec, DropOnlyWhenFull

-----------------------------------------------------------------------------
(* The ring buffer implements the bounded queue.                           *)

(* The waiting frames as a sequence.                                       *)
ContentsShape ==
  /\ QueueUsedSize \in Nat
  /\ Contents \in Seq(Whole)
  /\ Len(Contents) = QueueUsedSize
  /\ \A i \in 1 .. QueueUsedSize : Contents[i] = storage_packet[Position(i - 1)]

LEMMA ContentsFacts == IInv => ContentsShape
<1> SUFFICES ASSUME IInv PROVE ContentsShape
  OBVIOUS
<1>1. QueueUsedSize \in Nat
  BY UsedType, QueueSizeFacts DEF IInv
<1>2. Contents = [i \in 1 .. QueueUsedSize |-> storage_packet[Position(i - 1)]]
  BY DEF Contents, Position
<1>3. \A i \in 1 .. QueueUsedSize : storage_packet[Position(i - 1)] \in Whole
  <2> TAKE i \in 1 .. QueueUsedSize
  <2>1. i - 1 \in 0 .. (QueueUsedSize - 1)
    BY <1>1
  <2> QED  BY <2>1 DEF IInv, Filled
<1> QED  BY <1>1, <1>2, <1>3 DEF ContentsShape

LEMMA SequenceOfAppend ==
  ASSUME NEW S, NEW s \in Seq(S), NEW t \in Seq(S), NEW e \in S,
         Len(t) = Len(s) + 1,
         \A i \in 1 .. Len(s) : t[i] = s[i],
         t[Len(s) + 1] = e
  PROVE  t = Append(s, e)
  OBVIOUS

LEMMA SequenceOfTail ==
  ASSUME NEW S, NEW s \in Seq(S), NEW t \in Seq(S), s # <<>>,
         Len(t) = Len(s) - 1,
         \A i \in 1 .. Len(t) : t[i] = s[i + 1]
  PROVE  t = Tail(s)
  OBVIOUS

LEMMA SequenceSame ==
  ASSUME NEW S, NEW s \in Seq(S), NEW t \in Seq(S),
         Len(t) = Len(s),
         \A i \in 1 .. Len(s) : t[i] = s[i]
  PROVE  t = s
  OBVIOUS

(* A step that moves neither index and leaves the waiting frames alone     *)
(* leaves Contents alone.                                                  *)
LEMMA ContentsSame ==
  ASSUME IInv, IInv',
         UNCHANGED <<rd_idx, wr_idx>>,
         \A i \in 0 .. (QueueUsedSize - 1) :
            storage_packet'[Position(i)'] = storage_packet[Position(i)]
  PROVE  Contents' = Contents
<1>1. QueueUsedSize' = QueueUsedSize
  BY DEF QueueUsedSize
<1>2. ContentsShape /\ ContentsShape'
  BY ContentsFacts, PTL
<1>3. Whole' = Whole
  BY DEF Whole
<1>4. \A i \in 1 .. QueueUsedSize : Contents'[i] = Contents[i]
  <2> TAKE i \in 1 .. QueueUsedSize
  <2>1. i - 1 \in 0 .. (QueueUsedSize - 1)
    BY <1>2 DEF ContentsShape
  <2> QED  BY <1>1, <1>2, <2>1 DEF ContentsShape
<1> QED  BY <1>1, <1>2, <1>3, <1>4, SequenceSame DEF ContentsShape

(* Which steps of the ring are steps of the abstract queue.                *)
LEMMA PushIsEnqueue ==
  ASSUME IInv, IInv', PushAdvance
  PROVE  \E f \in Whole : Fifo!Enqueue(f)
<1> DEFINE e == [base_time |-> frame, points |-> frame]
<1>1. /\ QueueUsedSize' = QueueUsedSize + 1
      /\ QueueUsedSize < QueueSize
      /\ QueueUsedSize \in Nat
      /\ \A i \in Int : Position(i)' = Position(i)
      /\ e \in Whole
      /\ storage_packet[Position(QueueUsedSize)] = e
  BY PushAdvanceFacts DEF Whole
<1>2. storage_packet' = storage_packet /\ delivered' = delivered
  BY DEF PushAdvance
<1> HIDE DEF e
<1>3. ContentsShape /\ ContentsShape'
  BY ContentsFacts, PTL
<1>4. \A i \in 1 .. QueueUsedSize : Contents'[i] = Contents[i]
  BY <1>1, <1>2, <1>3 DEF ContentsShape
<1>5. Contents'[QueueUsedSize + 1] = e
  BY <1>1, <1>2, <1>3 DEF ContentsShape
<1>6. Contents' = Append(Contents, e)
  <2>1. Whole' = Whole
    BY DEF Whole
  <2> QED  BY <1>1, <1>3, <1>4, <1>5, <2>1, SequenceOfAppend DEF ContentsShape
<1>7. Len(Contents) < QueueSize
  BY <1>1, <1>3 DEF ContentsShape
<1> QED  BY <1>1, <1>2, <1>6, <1>7 DEF Fifo!Enqueue

LEMMA PopIsDequeue ==
  ASSUME IInv, IInv', PopAdvance
  PROVE  Fifo!Dequeue
<1>1. /\ QueueUsedSize' = QueueUsedSize - 1
      /\ QueueUsedSize \in 1 .. QueueSize
      /\ \A i \in 0 .. (QueueUsedSize - 2) : Position(i)' = Position(i + 1)
      /\ pkg = storage_packet[Position(0)]
  BY PopAdvanceFacts
<1>2. storage_packet' = storage_packet /\ delivered' = pkg
  BY DEF PopAdvance
<1>3. ContentsShape /\ ContentsShape'
  BY ContentsFacts, PTL
<1>4. Contents # <<>> /\ Head(Contents) = delivered'
  BY <1>1, <1>2, <1>3, QueueSizeFacts DEF ContentsShape
<1>5. \A i \in 1 .. (QueueUsedSize - 1) : Contents'[i] = Contents[i + 1]
  <2> TAKE i \in 1 .. (QueueUsedSize - 1)
  <2>1. i - 1 \in 0 .. (QueueUsedSize - 2) /\ i + 1 \in 1 .. QueueUsedSize
    BY <1>3 DEF ContentsShape
  <2>2. Contents'[i] = storage_packet[Position(i - 1)']
    BY <1>1, <1>2, <1>3, <2>1 DEF ContentsShape
  <2>3. Contents[i + 1] = storage_packet[Position(i)]
    BY <1>3, <2>1 DEF ContentsShape
  <2> QED  BY <1>1, <2>1, <2>2, <2>3
<1>6. Contents' = Tail(Contents)
  <2>1. Whole' = Whole
    BY DEF Whole
  <2> QED  BY <1>1, <1>3, <1>4, <1>5, <2>1, SequenceOfTail DEF ContentsShape
<1> QED  BY <1>4, <1>6 DEF Fifo!Dequeue

LEMMA OthersStutter ==
  ASSUME IInv, IInv', [Next]_vars, ~PushAdvance, ~PopAdvance
  PROVE  UNCHANGED <<Contents, delivered>>
<1>1. ASSUME PushBaseTime \/ PushPoints PROVE Contents' = Contents
  <2>1. /\ \A i \in 0 .. (QueueUsedSize - 1) :
              Position(i) # Slot(wr_idx) /\ Position(i)' = Position(i)
              /\ storage_packet'[Position(i)] = storage_packet[Position(i)]
    <3>1. /\ \A i \in 0 .. (QueueUsedSize - 1) : Position(i) # Slot(wr_idx)
          /\ storage_packet \in [Slots -> Packets]
          /\ mask = QueueSize - 1
      BY <1>1, WriteIsElsewhere DEF PushBaseTime, PushPoints, Ready, IInv, TypeOK
    <3>2. QueueUsedSize \in Nat
      BY UsedType, QueueSizeFacts DEF IInv
    <3>3. \A i \in 0 .. (QueueUsedSize - 1) : Position(i) \in Slots
      BY <3>1, <3>2, PositionFacts, QueueSizeFacts DEF IInv, TypeOK, Position
    <3>4. \A x \in Slots : x # Slot(wr_idx) => storage_packet'[x] = storage_packet[x]
      BY <1>1, <3>1 DEF PushBaseTime, PushPoints
    <3>5. \A i \in 0 .. (QueueUsedSize - 1) : Position(i)' = Position(i)
      BY <1>1 DEF PushBaseTime, PushPoints, Position, Slot
    <3> QED  BY <3>1, <3>3, <3>4, <3>5
  <2>2. UNCHANGED <<rd_idx, wr_idx>>
    BY <1>1 DEF PushBaseTime, PushPoints
  <2> QED  BY <2>1, <2>2, ContentsSame
<1>2. ASSUME (\E f \in Frames : PushFirst(f)) \/ InitQueueIndices
      PROVE  Contents' = Contents
  <2>1. /\ rd_idx = 0 /\ wr_idx = 0
        /\ UNCHANGED <<rd_idx, wr_idx>>
    BY <1>2 DEF PushFirst, InitQueueIndices, IInv, Initialised, Ready
  <2>2. QueueUsedSize = 0
    BY <2>1, UsedType DEF IInv
  <2> QED  BY <2>1, <2>2, ContentsSame
<1>3. ASSUME \/ \E f \in Frames : PushNext(f)
             \/ PushDrop \/ PushAccept \/ PopBaseTime \/ PopPoints
             \/ UNCHANGED vars
      PROVE  Contents' = Contents
  <2>1. UNCHANGED ring
    BY <1>3 DEF PushNext, PushDrop, PushAccept, PopBaseTime, PopPoints, vars, ring
  <2> QED  BY <2>1 DEF ring, Contents, QueueUsedSize, Slot
<1>4. delivered' = delivered
  BY DEF Next, PushFirst, PushNext, InitQueueIndices, PushDrop, PushAccept,
         PushBaseTime, PushPoints, PopBaseTime, PopPoints, vars
<1> QED  BY <1>1, <1>2, <1>3, <1>4 DEF Next

(* Frames leave the ring in the order they entered it, each once and whole.*)
THEOREM RingImplementsFifo == Spec => ImplementsFifo
<1>1. Init => Fifo!FifoInit
  <2> SUFFICES ASSUME Init PROVE Fifo!FifoInit
    OBVIOUS
  <2>1. IInv /\ QueueUsedSize = 0
    BY IInvInit, UsedType DEF IInv, Init
  <2>2. Contents = <<>>
    BY <2>1, ContentsFacts DEF ContentsShape
  <2> QED  BY <2>2 DEF Init, Fifo!FifoInit
<1>2. IInv /\ IInv' /\ [Next]_vars => [Fifo!FifoNext]_(Fifo!fifoVars)
  <2> SUFFICES ASSUME IInv, IInv', [Next]_vars
               PROVE  [Fifo!FifoNext]_(Fifo!fifoVars)
    OBVIOUS
  <2>1. CASE PushAdvance
    BY <2>1, PushIsEnqueue DEF Fifo!FifoNext
  <2>2. CASE PopAdvance
    BY <2>2, PopIsDequeue DEF Fifo!FifoNext
  <2>3. CASE ~PushAdvance /\ ~PopAdvance
    BY <2>3, OthersStutter DEF Fifo!fifoVars
  <2> QED  BY <2>1, <2>2, <2>3
<1> QED  BY <1>1, <1>2, Invariance, PTL DEF Spec, ImplementsFifo, Fifo!FifoSpec
=============================================================================
