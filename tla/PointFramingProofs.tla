------------------------- MODULE PointFramingProofs -------------------------
(***************************************************************************)
(* Proofs about the framing of PointFraming, for every set of lidars, every*)
(* publish interval of at least two milliseconds and every clock           *)
(* resolution.                                                             *)
(***************************************************************************)
EXTENDS PointFraming, TLAPS

(* CheckTimer looks at a lidar that has just got a packet.                 *)
CheckingGathered == \A l \in checking : points_clouds[l] # <<>>

(* A lidar whose packets came has begun, and not in the future.            *)
Begun ==
  \A l \in Lidars : /\ start[l] <= now
                    /\ received[l] # 0 => start[l] # NotSet

(* last_pub_time_ begins when the first packet has come, goes on by an     *)
(* interval for each frame, and never passes the clock.                    *)
Since(l) == start[l] # NotSet /\ start[l] + ticks * publish_interval <= last_pub

HostFrames ==
  IF last_pub = NotSet THEN ticks = 0
                       ELSE last_pub <= now /\ \E l \in Lidars : Since(l)

(* What holds as long as the network is steady: a packet carries the       *)
(* instant it was sent at, and the lidar has sent one in each instant since*)
(* it began.                                                               *)
SentAt(l, packet) == packet.time = start[l] + packet.no - 1

PacketTimes ==
  /\ synced = Lidars
  /\ \A l \in Lidars :
       IF start[l] = NotSet
         THEN received[l] = 0 /\ l \notin heard
         ELSE received[l] = now - start[l] + (IF l \in heard THEN 1 ELSE 0)
  /\ \A i \in 1 .. Len(raw) : /\ start[raw[i].lidar] # NotSet
                              /\ SentAt(raw[i].lidar, raw[i].packet)
  /\ \A l \in Lidars : \A i \in 1 .. Len(points_clouds[l]) : SentAt(l, points_clouds[l][i])

(* The flag is set before the first packet can be looked at.               *)
FlagSet == raw # <<>> \/ checking # {} => sync_flag

(* The time at which CheckTimer publishes what began at time `base'.       *)
Cut(base, time) == OnBoundary(time) /\ LongEnough(base, time)

FirstCut(base, time) ==
  /\ time >= base
  /\ Cut(base, time)
  /\ \A t \in base .. (time - 1) : ~Cut(base, t)

(* What l gathers began with the packet after the last one published, has  *)
(* not passed the time at which it is cut, and has reached it only in the  *)
(* packet that CheckTimer is about to look at.                             *)
BaseOf(l) == start[l] + published[l]

InFrame(l, time) ==
  /\ FirstCut(BaseOf(l), time)
  /\ BaseOf(l) + Len(points_clouds[l]) <= time + (IF l \in checking THEN 1 ELSE 0)
  /\ IF published[l] = 0
       THEN time - BaseOf(l) <= 2 * publish_interval_tolerance
       ELSE time - BaseOf(l) < publish_interval /\ time % publish_interval = 0

AllInFrame ==
  \A l \in Lidars : start[l] # NotSet => \E time \in Nat : InFrame(l, time)

FramesRegular ==
  \A l \in Lidars :
    last_frame[l] # NoSpan => /\ start[l] # NotSet
                             /\ published[l] # 0
                             /\ RegularFrame(l, last_frame[l])

SteadyInv == PacketTimes /\ FlagSet /\ AllInFrame /\ FramesRegular

IInv == /\ TypeOK
        /\ InOrder
        /\ CheckingGathered
        /\ Begun
        /\ HostFrames
        /\ Steady => SteadyInv

-----------------------------------------------------------------------------
(* Arithmetic.                                                             *)

(* A remainder is the only number below the modulus that differs from the  *)
(* dividend by a multiple of it.                                           *)
LEMMA RemainderUnique ==
  ASSUME NEW m \in Nat \ {0}, NEW a \in Int, NEW q \in Int, NEW r \in 0 .. (m - 1),
         a = m * q + r
  PROVE  a % m = r
  BY SMTT(60)

(* Division with remainder.                                                *)
LEMMA DivideWithRemainder ==
  ASSUME NEW m \in Nat \ {0}, NEW a \in Int
  PROVE  /\ a \div m \in Int
         /\ a % m \in 0 .. (m - 1)
         /\ a = m * (a \div m) + (a % m)
  BY Z3

LEMMA ConstantFacts ==
  /\ UnitsPerMs \in Nat /\ UnitsPerMs >= 1
  /\ IntervalMs \in Nat /\ IntervalMs >= 2
  /\ publish_interval \in Nat
  /\ publish_interval >= 2 * UnitsPerMs
  /\ publish_interval_tolerance \in Nat
  /\ publish_interval_tolerance = publish_interval - UnitsPerMs
  /\ MaxRaw \in Nat /\ Horizon \in Nat /\ MaxMishaps \in Nat /\ HostAhead \in Nat
<1>1. /\ UnitsPerMs \in Nat /\ UnitsPerMs >= 1
      /\ IntervalMs \in Nat /\ IntervalMs >= 2
  BY FramingAssumption
<1>2. IntervalMs * UnitsPerMs \in Nat /\ IntervalMs * UnitsPerMs >= 2 * UnitsPerMs
  BY <1>1, Z3
<1> QED  BY <1>1, <1>2, FramingAssumption DEF publish_interval, publish_interval_tolerance

(* The boundaries are an interval apart.                                   *)
Boundary(k) == k * publish_interval

LEMMA Boundaries ==
  ASSUME NEW k \in Nat
  PROVE  /\ Boundary(k) \in Nat
         /\ Boundary(k + 1) = Boundary(k) + publish_interval
         /\ k = 0 => Boundary(k) = 0
         /\ Boundary(k) % publish_interval = 0
<1>1. publish_interval \in Nat \ {0}
  BY ConstantFacts
<1>2. k * publish_interval \in Nat /\ (k + 1) * publish_interval = k * publish_interval + publish_interval
  BY <1>1, Z3
<1>3. k = 0 => k * publish_interval = 0
  BY <1>1, Z3
<1>4. k * publish_interval = publish_interval * k + 0 /\ k \in Int /\ 0 \in 0 .. (publish_interval - 1)
  BY <1>1, Z3
<1>5. (k * publish_interval) % publish_interval = 0
  BY <1>1, <1>2, <1>4, RemainderUnique
<1> QED  BY <1>2, <1>3, <1>5 DEF Boundary

LEMMA IntervalGrows ==
  \A a, b \in Nat : a <= b => ((a + 1) .. b) \cup {b + 1} = (a + 1) .. (b + 1)
<1> QED  OBVIOUS

LEMMA QuotientUnique ==
  ASSUME NEW m \in Nat \ {0}, NEW a \in Int, NEW q \in Int, NEW r \in 0 .. (m - 1),
         a = m * q + r
  PROVE  a \div m = q
  BY SMTT(60)

(* A time is on a boundary when it is less than a millisecond after a      *)
(* multiple of the interval other than zero.                               *)
LEMMA BoundaryTimes ==
  ASSUME NEW k \in Nat, NEW r \in 0 .. (publish_interval - 1)
  PROVE  OnBoundary(Boundary(k) + r) <=> k # 0 /\ r < UnitsPerMs
<1> DEFINE U == UnitsPerMs
           I == IntervalMs
           q == r \div U
           s == r % U
           t == k * publish_interval + r
<1>1. /\ U \in Nat \ {0} /\ I \in Nat \ {0} /\ r \in Nat
      /\ publish_interval = I * U /\ r < I * U
  BY ConstantFacts DEF publish_interval
<1>2. q \in Int /\ s \in 0 .. (U - 1) /\ r = U * q + s
  BY <1>1, DivideWithRemainder
<1> HIDE DEF U, I, q, s
<1>3. 0 <= q /\ q <= I - 1
  <2>1. CASE q < 0
    <3>1. U * q <= 0 - U
      BY <1>1, <1>2, <2>1, Z3
    <3> QED  BY <1>1, <1>2, <3>1
  <2>2. CASE q >= I
    <3>1. U * q >= U * I
      BY <1>1, <1>2, <2>2, Z3
    <3> QED  BY <1>1, <1>2, <3>1, Z3
  <2> QED  BY <1>1, <1>2, <2>1, <2>2
<1>4. t \in Int /\ I * k + q \in Int /\ t = U * (I * k + q) + s
  BY <1>1, <1>2, Z3
<1>5. t \div U = I * k + q
  BY <1>1, <1>2, <1>4, QuotientUnique
<1>6. (I * k + q) % I = q
  BY <1>1, <1>2, <1>3, <1>4, RemainderUnique
<1>7. OnBoundary(t) <=> I * k + q # 0 /\ q = 0
  BY <1>5, <1>6 DEF OnBoundary, U, I
<1>8. I * k = 0 <=> k = 0
  BY <1>1, Z3
<1>9. q = 0 <=> r < U
  <2>1. q = 0 => r < U
    BY <1>1, <1>2
  <2>2. q >= 1 => U * q >= U
    BY <1>1, <1>2, Z3
  <2>3. q = 0 \/ q >= 1
    BY <1>2, <1>3
  <2> QED  BY <1>1, <1>2, <2>1, <2>2, <2>3
<1>10. I * k \in Int
  BY <1>1, Z3
<1>11. I * k + q # 0 /\ q = 0 <=> k # 0 /\ r < U
  <2>1. CASE q = 0
    <3>1. I * k + q = I * k
      BY <1>10, <2>1
    <3> QED  BY <1>8, <1>9, <2>1, <3>1
  <2>2. CASE q # 0
    BY <1>9, <2>2
  <2> QED  BY <2>1, <2>2
<1>12. Boundary(k) + r = t
  BY DEF Boundary
<1>13. OnBoundary(t) <=> k # 0 /\ r < U
  BY <1>7, <1>11
<1> HIDE DEF t
<1>14. OnBoundary(Boundary(k) + r) <=> k # 0 /\ r < U
  BY <1>12, <1>13
<1> QED  BY <1>14 DEF U

(* Every time lies in an interval.                                         *)
LEMMA IntervalOf ==
  ASSUME NEW t \in Nat
  PROVE  \E k \in Nat : \E r \in 0 .. (publish_interval - 1) : t = Boundary(k) + r
<1> DEFINE k == t \div publish_interval
           r == t % publish_interval
<1>1. publish_interval \in Nat \ {0}
  BY ConstantFacts
<1>2. k \in Int /\ r \in 0 .. (publish_interval - 1) /\ t = publish_interval * k + r
  BY <1>1, DivideWithRemainder
<1> HIDE DEF k, r
<1>3. k \in Nat
  <2>1. k < 0 => publish_interval * k <= 0 - publish_interval
    BY <1>1, <1>2, Z3
  <2>2. publish_interval * k \in Int
    BY <1>1, <1>2, Z3
  <2> QED  BY <1>1, <1>2, <2>1, <2>2
<1>4. publish_interval * k = Boundary(k)
  BY <1>1, <1>2, Z3 DEF Boundary
<1> QED  BY <1>2, <1>3, <1>4

(* A frame that begins within the millisecond after a boundary is cut at   *)
(* the next one.                                                           *)
LEMMA NextCut ==
  ASSUME NEW k \in Nat \ {0}, NEW j \in 0 .. (UnitsPerMs - 1)
  PROVE  LET base == Boundary(k) + j + 1
         IN  /\ base \in Nat
             /\ FirstCut(base, Boundary(k + 1))
             /\ Boundary(k + 1) - base < publish_interval
             /\ Boundary(k + 1) % publish_interval = 0
<1> DEFINE base == Boundary(k) + j + 1
           N    == publish_interval
           B    == Boundary(k)
           C    == Boundary(k + 1)
<1>1. /\ N \in Nat /\ N >= 2 * UnitsPerMs /\ UnitsPerMs \in Nat /\ UnitsPerMs >= 1
      /\ publish_interval_tolerance = N - UnitsPerMs
  BY ConstantFacts
<1>2. B \in Nat /\ C = B + N /\ C % N = 0
  BY Boundaries
<1>3. OnBoundary(C)
  <2>1. k + 1 \in Nat /\ k + 1 # 0 /\ 0 \in 0 .. (N - 1) /\ 0 < UnitsPerMs
    BY <1>1
  <2>2. OnBoundary(Boundary(k + 1) + 0)
    BY <2>1, BoundaryTimes
  <2>3. Boundary(k + 1) + 0 = C
    BY <1>1, <1>2
  <2> QED  BY <2>2, <2>3
<1>4. ASSUME NEW t \in base .. (C - 1), OnBoundary(t) PROVE ~LongEnough(base, t)
  <2> DEFINE r == t - B
  <2>1. r \in 0 .. (N - 1) /\ t = B + r /\ t \in Int /\ base \in Int /\ t >= base
    BY <1>1, <1>2
  <2>2. OnBoundary(Boundary(k) + r) <=> k # 0 /\ r < UnitsPerMs
    BY <2>1, BoundaryTimes
  <2>3. r < UnitsPerMs
    BY <1>4, <2>1, <2>2
  <2>4. t - base < publish_interval_tolerance
    BY <1>1, <1>2, <2>1, <2>3
  <2> QED  BY <1>1, <2>1, <2>4 DEF LongEnough
<1>5. base \in Nat /\ C >= base /\ C - base >= publish_interval_tolerance /\ C - base < N
  BY <1>1, <1>2
<1> QED  BY <1>2, <1>3, <1>4, <1>5 DEF FirstCut, Cut, LongEnough

(* Wherever a frame begins, it is cut in the first millisecond on a        *)
(* boundary in which it is long enough.                                    *)
LEMMA SomeCut ==
  ASSUME NEW base \in Nat
  PROVE  \E time \in Nat : /\ FirstCut(base, time)
                           /\ time - base <= 2 * publish_interval_tolerance
<1> DEFINE x == base + publish_interval_tolerance
           N == publish_interval
<1>1. /\ N \in Nat /\ N >= 2 * UnitsPerMs /\ UnitsPerMs \in Nat /\ UnitsPerMs >= 1
      /\ publish_interval_tolerance = N - UnitsPerMs /\ x \in Nat
  BY ConstantFacts
<1>2. PICK k \in Nat, r \in 0 .. (N - 1) : x = Boundary(k) + r
  BY <1>1, IntervalOf
<1>3. /\ Boundary(k) \in Nat /\ Boundary(k + 1) = Boundary(k) + N
      /\ (k = 0 => Boundary(k) = 0)
  BY Boundaries
<1>4. ASSUME NEW t \in base .. (x - 1) PROVE ~LongEnough(base, t)
  BY <1>1, <1>4 DEF LongEnough
<1>5. CASE r < UnitsPerMs
  <2>1. k # 0
    BY <1>1, <1>2, <1>3, <1>5
  <2>2. OnBoundary(x)
    BY <1>2, <1>5, <2>1, BoundaryTimes
  <2>3. LongEnough(base, x) /\ x >= base /\ x - base <= 2 * publish_interval_tolerance
    BY <1>1 DEF LongEnough
  <2>4. FirstCut(base, x)
    BY <1>4, <2>2, <2>3 DEF FirstCut, Cut
  <2> QED  BY <1>1, <2>3, <2>4
<1>6. CASE r >= UnitsPerMs
  <2> DEFINE c == Boundary(k + 1)
  <2>1. OnBoundary(c)
    <3>1. k + 1 \in Nat /\ k + 1 # 0 /\ 0 \in 0 .. (N - 1) /\ 0 < UnitsPerMs
      BY <1>1
    <3>2. OnBoundary(Boundary(k + 1) + 0)
      BY <3>1, BoundaryTimes
    <3>3. Boundary(k + 1) + 0 = c
      BY <1>1, <1>3
    <3> QED  BY <3>2, <3>3
  <2>2. /\ c \in Nat /\ c >= base /\ c - base <= 2 * publish_interval_tolerance
        /\ c - base >= publish_interval_tolerance
    BY <1>1, <1>2, <1>3, <1>6
  <2>3. ASSUME NEW t \in base .. (c - 1) PROVE ~Cut(base, t)
    <3>1. CASE t < x
      BY <1>1, <1>4, <2>2, <3>1 DEF Cut
    <3>2. CASE t >= x
      <4> DEFINE s == t - Boundary(k)
      <4>1. s \in 0 .. (N - 1) /\ s >= UnitsPerMs /\ t = Boundary(k) + s
        BY <1>1, <1>2, <1>3, <1>6, <2>2, <3>2
      <4>2. OnBoundary(Boundary(k) + s) <=> k # 0 /\ s < UnitsPerMs
        BY <4>1, BoundaryTimes
      <4>3. ~OnBoundary(t)
        BY <1>1, <4>1, <4>2
      <4> QED  BY <4>3 DEF Cut
    <3> QED  BY <1>1, <2>2, <3>1, <3>2
  <2>4. FirstCut(base, c)
    BY <2>1, <2>2, <2>3 DEF FirstCut, Cut, LongEnough
  <2> QED  BY <2>2, <2>4
<1> QED  BY <1>1, <1>5, <1>6

(* What follows a cut begins within the millisecond after a boundary.      *)
LEMMA CutOnBoundary ==
  ASSUME NEW time \in Nat, OnBoundary(time)
  PROVE  \E k \in Nat \ {0} : \E j \in 0 .. (UnitsPerMs - 1) : time = Boundary(k) + j
<1>1. PICK k \in Nat, r \in 0 .. (publish_interval - 1) : time = Boundary(k) + r
  BY IntervalOf
<1>2. k # 0 /\ r < UnitsPerMs
  BY <1>1, BoundaryTimes
<1> QED  BY <1>1, <1>2, ConstantFacts

-----------------------------------------------------------------------------
(* Initial states.                                                         *)

LEMMA SeqElement ==
  ASSUME NEW S, NEW s \in Seq(S), NEW i \in 1 .. Len(s)
  PROVE  s[i] \in S
<1> QED  OBVIOUS

LEMMA Lengths ==
  ASSUME TypeOK
  PROVE  /\ raw \in Seq([lidar : Lidars, packet : Packets])
         /\ Len(raw) \in Nat
         /\ raw # <<>> => Len(raw) >= 1
         /\ \A i \in 1 .. Len(raw) : raw[i].lidar \in Lidars /\ raw[i].packet \in Packets
         /\ \A l \in Lidars : /\ points_clouds[l] \in Seq(Packets)
                              /\ Len(points_clouds[l]) \in Nat
                              /\ points_clouds[l] # <<>> => Len(points_clouds[l]) >= 1
                              /\ published[l] \in Nat
                              /\ received[l] \in Nat
<1>1. raw \in Seq([lidar : Lidars, packet : Packets])
  BY DEF TypeOK
<1>2. /\ Len(raw) \in Nat
      /\ raw # <<>> => Len(raw) >= 1
      /\ \A i \in 1 .. Len(raw) : raw[i].lidar \in Lidars /\ raw[i].packet \in Packets
  <2>1. Len(raw) \in Nat
    BY <1>1
  <2>2. raw # <<>> => Len(raw) >= 1
    BY <1>1
  <2>3. ASSUME NEW i \in 1 .. Len(raw)
        PROVE  raw[i].lidar \in Lidars /\ raw[i].packet \in Packets
    <3>1. raw[i] \in [lidar : Lidars, packet : Packets]
      BY <1>1, SeqElement
    <3> QED  BY <3>1
  <2> QED  BY <2>1, <2>2, <2>3
<1>3. ASSUME NEW l \in Lidars
      PROVE  /\ points_clouds[l] \in Seq(Packets)
             /\ Len(points_clouds[l]) \in Nat
             /\ points_clouds[l] # <<>> => Len(points_clouds[l]) >= 1
             /\ published[l] \in Nat
             /\ received[l] \in Nat
  <2>1. points_clouds[l] \in Seq(Packets) /\ published[l] \in Nat /\ received[l] \in Nat
    BY DEF TypeOK
  <2> QED  BY <2>1
<1> QED  BY <1>1, <1>2, <1>3

LEMMA IInvInit == Init => IInv
<1> SUFFICES ASSUME Init PROVE IInv
  OBVIOUS
<1>1. TypeOK
  <2>1. /\ now \in 0 .. Horizon /\ Len(raw) <= MaxRaw
        /\ lost \in Nat /\ flips \in Nat /\ lost + flips <= MaxMishaps
        /\ ticks \in Nat
    BY ConstantFacts DEF Init
  <2>2. /\ raw \in Seq([lidar : Lidars, packet : Packets])
        /\ points_clouds \in [Lidars -> Seq(Packets)]
    BY DEF Init
  <2>3. /\ received \in [Lidars -> Nat] /\ published \in [Lidars -> Nat]
        /\ last_frame \in [Lidars -> Spans]
        /\ last_pub \in Nat \cup {NotSet}
        /\ start \in [Lidars -> Nat \cup {NotSet}]
    BY DEF Init, Spans, NoSpan
  <2> QED  BY <2>1, <2>2, <2>3 DEF Init, TypeOK
<1>2. InOrder
  <2>1. ASSUME NEW l \in Lidars
        PROVE  LET held == published[l] + Len(points_clouds[l])
               IN  /\ held <= received[l]
                   /\ \A i \in 1 .. Len(points_clouds[l]) :
                        points_clouds[l][i].no = published[l] + i
                   /\ {raw[i].packet.no : i \in PositionsOf(l)} = (held + 1) .. received[l]
                   /\ \A i, j \in PositionsOf(l) :
                        i < j => raw[i].packet.no < raw[j].packet.no
    <3>1. raw = <<>> /\ points_clouds[l] = <<>> /\ published[l] = 0 /\ received[l] = 0
      BY DEF Init
    <3>2. Len(raw) = 0 /\ Len(points_clouds[l]) = 0
      BY <3>1
    <3>3. PositionsOf(l) = {} /\ 1 .. Len(points_clouds[l]) = {}
      BY <3>2 DEF PositionsOf
    <3>4. published[l] + Len(points_clouds[l]) = 0 /\ (0 + 1) .. 0 = {} /\ 0 <= 0
      BY <3>1, <3>2
    <3>5. {raw[i].packet.no : i \in PositionsOf(l)} = {}
      BY <3>3
    <3> QED  BY <3>1, <3>3, <3>4, <3>5
  <2> QED  BY <2>1 DEF InOrder
<1>3. CheckingGathered /\ Begun /\ HostFrames
  BY DEF Init, CheckingGathered, Begun, HostFrames, NotSet
<1>4. Steady => SteadyInv
  <2> SUFFICES ASSUME Steady PROVE SteadyInv
    OBVIOUS
  <2>1. Len(raw) = 0 /\ \A l \in Lidars : Len(points_clouds[l]) = 0
    BY DEF Init
  <2>2. PacketTimes
    BY <2>1 DEF Init, Steady, PacketTimes
  <2>3. FlagSet /\ AllInFrame /\ FramesRegular
    BY DEF Init, FlagSet, AllInFrame, FramesRegular
  <2> QED  BY <2>2, <2>3 DEF SteadyInv
<1> QED  BY <1>1, <1>2, <1>3, <1>4 DEF IInv

-----------------------------------------------------------------------------
(* The network and the SDK.                                                *)

(* What the network does leaves alone the point thread and the queue,      *)
(* unless a packet comes.                                                  *)
LEMMA QueuesUntouched ==
  ASSUME IInv, UNCHANGED <<raw, received, points_clouds, published, checking>>
  PROVE  (InOrder /\ CheckingGathered)'
<1> QED  BY DEF IInv, InOrder, PositionsOf, CheckingGathered

LEMMA ClockUntouched ==
  ASSUME IInv, UNCHANGED <<now, start, received, last_pub, ticks>>
  PROVE  (Begun /\ HostFrames)'
<1> QED  BY DEF IInv, Begun, HostFrames, Since, publish_interval

LEMMA FramesUntouched ==
  ASSUME IInv, UNCHANGED <<start, points_clouds, published, checking, last_frame>>
  PROVE  Steady /\ SteadyInv => (AllInFrame /\ FramesRegular)'
<1> SUFFICES ASSUME SteadyInv PROVE (AllInFrame /\ FramesRegular)'
  OBVIOUS
<1>1. \A l \in Lidars, time \in Nat : InFrame(l, time) => InFrame(l, time)'
  BY DEF InFrame, BaseOf, FirstCut, Cut, OnBoundary, LongEnough,
         publish_interval, publish_interval_tolerance
<1>2. \A l \in Lidars : \A frame : RegularFrame(l, frame) => RegularFrame(l, frame)'
  BY DEF RegularFrame, IsFirst, OnBoundary, publish_interval, publish_interval_tolerance
<1> QED  BY <1>1, <1>2 DEF SteadyInv, AllInFrame, FramesRegular

LEMMA ReceiveKeeps ==
  ASSUME NEW l \in Lidars, IInv, Receive(l)
  PROVE  IInv'
<1> DEFINE p == [lidar |-> l, packet |-> [no |-> received[l] + 1, time |-> TimeOf(l)]]
<1>1. \A k \in Lidars : received'[k] = IF k = l THEN received[k] + 1 ELSE received[k]
  BY DEF IInv, TypeOK, Receive
<1>2. raw' = Append(raw, p)
  BY <1>1 DEF Receive
<1>3. p \in [lidar : Lidars, packet : Packets]
  BY ConstantFacts DEF IInv, TypeOK, Packets, TimeOf
<1>4. /\ raw' \in Seq([lidar : Lidars, packet : Packets])
      /\ Len(raw') = Len(raw) + 1
      /\ Len(raw) \in Nat
      /\ \A i \in 1 .. Len(raw) : raw'[i] = raw[i]
      /\ raw'[Len(raw) + 1] = p
  BY <1>2, <1>3 DEF IInv, TypeOK
<1>5. UNCHANGED <<now, synced, lost, flips, is_quit, points_clouds, last_pub,
                  checking, ended, published, last_frame, ticks>>
  BY DEF Receive, thread
<1>6. TypeOK'
  <2>1. Len(raw') <= MaxRaw
    BY <1>4, ConstantFacts DEF Receive
  <2>2. received' \in [Lidars -> Nat] /\ sync_flag' \in BOOLEAN /\ heard' \subseteq Lidars
    BY DEF IInv, TypeOK, Receive
  <2>3. start' \in [Lidars -> Nat \cup {NotSet}]
    BY ConstantFacts DEF IInv, TypeOK, Receive
  <2> QED  BY <1>4, <1>5, <2>1, <2>2, <2>3 DEF IInv, TypeOK
<1>7. InOrder'
  <2> SUFFICES ASSUME NEW k \in Lidars
               PROVE  LET held == published[k] + Len(points_clouds[k])
                      IN  /\ held <= received'[k]
                          /\ {raw'[i].packet.no : i \in PositionsOf(k)'} = (held + 1) .. received'[k]
                          /\ \A i, j \in PositionsOf(k)' :
                               i < j => raw'[i].packet.no < raw'[j].packet.no
    BY <1>5 DEF IInv, InOrder
  <2> DEFINE held == published[k] + Len(points_clouds[k])
  <2>1. held \in Nat /\ received[k] \in Nat /\ held <= received[k]
    BY DEF IInv, TypeOK, InOrder
  <2>2. \A i \in PositionsOf(k) : raw[i].packet.no \in (held + 1) .. received[k]
    BY DEF IInv, InOrder
  <2>3. CASE k = l
    <3>1. PositionsOf(k)' = PositionsOf(k) \cup {Len(raw) + 1}
      BY <1>4, <2>3 DEF PositionsOf
    <3>2. {raw'[i].packet.no : i \in PositionsOf(k)'} =
            {raw[i].packet.no : i \in PositionsOf(k)} \cup {received[k] + 1}
      BY <1>4, <2>3, <3>1 DEF PositionsOf
    <3>3. {raw'[i].packet.no : i \in PositionsOf(k)'} = (held + 1) .. received'[k]
      <4>1. {raw[i].packet.no : i \in PositionsOf(k)} = (held + 1) .. received[k]
        BY DEF IInv, InOrder
      <4>2. ((held + 1) .. received[k]) \cup {received[k] + 1} = (held + 1) .. (received[k] + 1)
        BY <2>1, IntervalGrows
      <4>3. received'[k] = received[k] + 1
        BY <1>1, <2>3
      <4> HIDE DEF held
      <4> QED  BY <3>2, <4>1, <4>2, <4>3
    <3>4. \A i, j \in PositionsOf(k)' : i < j => raw'[i].packet.no < raw'[j].packet.no
      <4> SUFFICES ASSUME NEW i \in PositionsOf(k)', NEW j \in PositionsOf(k)', i < j
                   PROVE  raw'[i].packet.no < raw'[j].packet.no
        OBVIOUS
      <4>1. i \in PositionsOf(k) /\ raw'[i] = raw[i] /\ i \in Nat
        BY <1>4, <3>1 DEF PositionsOf
      <4>2. raw[i].packet.no \in (held + 1) .. received[k]
        BY <2>2, <4>1
      <4>3. CASE j = Len(raw) + 1
        BY <1>4, <2>1, <2>3, <4>1, <4>2, <4>3
      <4>4. CASE j \in PositionsOf(k)
        BY <1>4, <4>1, <4>4 DEF IInv, InOrder, PositionsOf
      <4> QED  BY <3>1, <4>3, <4>4
    <3> QED  BY <1>1, <2>1, <2>3, <3>3, <3>4
  <2>4. CASE k # l
    <3>1. PositionsOf(k)' = PositionsOf(k)
      BY <1>4, <2>4 DEF PositionsOf
    <3>2. \A i \in PositionsOf(k) : raw'[i] = raw[i]
      BY <1>4 DEF PositionsOf
    <3>3. {raw'[i].packet.no : i \in PositionsOf(k)'} = {raw[i].packet.no : i \in PositionsOf(k)}
      BY <3>1, <3>2
    <3> QED  BY <1>1, <2>4, <3>1, <3>2, <3>3 DEF IInv, InOrder
  <2> QED  BY <2>3, <2>4
<1>8. (CheckingGathered /\ Begun /\ HostFrames)'
  <2>1. CheckingGathered'
    BY <1>5 DEF IInv, CheckingGathered
  <2>2. \A k \in Lidars : IF k = l /\ start[l] = NotSet THEN start'[k] = now
                                                      ELSE start'[k] = start[k]
    BY DEF Receive, IInv, TypeOK
  <2>3. now \in Nat
    BY ConstantFacts DEF IInv, TypeOK
  <2>4. Begun'
    BY <1>1, <1>5, <2>2, <2>3 DEF IInv, Begun, NotSet
  <2>5. \A k \in Lidars : Since(k) => Since(k)'
    BY <1>5, <2>2 DEF Since, publish_interval
  <2> QED  BY <1>5, <2>1, <2>4, <2>5 DEF IInv, HostFrames
<1>9. Steady' => SteadyInv'
  <2> SUFFICES ASSUME Steady PROVE SteadyInv'
    BY <1>5 DEF Steady
  <2>1. SteadyInv
    BY DEF IInv
  <2>2. synced = Lidars /\ p.packet.time = now /\ now \in Nat
    BY ConstantFacts DEF Steady, TimeOf, IInv, TypeOK
  <2>3. /\ start \in [Lidars -> Nat \cup {NotSet}]
        /\ \A k \in Lidars : k # l \/ start[l] # NotSet => start'[k] = start[k]
        /\ start[l] = NotSet => start'[l] = now
        /\ l \notin heard /\ heard' = heard \cup {l}
    BY DEF Receive, IInv, TypeOK
  <2>4. /\ \A k \in Lidars : published[k] \in Nat /\ Len(points_clouds[k]) \in Nat
        /\ \A k \in Lidars : received[k] \in Nat
        /\ \A i \in 1 .. Len(raw) : raw[i].lidar \in Lidars /\ raw[i].packet \in Packets
    BY Lengths DEF IInv
  <2>5. start[l] = NotSet => received[l] = 0 /\ published[l] = 0 /\ Len(points_clouds[l]) = 0
    <3>1. start[l] = NotSet => received[l] = 0
      BY <2>1 DEF SteadyInv, PacketTimes
    <3>2. published[l] + Len(points_clouds[l]) <= received[l]
      BY DEF IInv, InOrder
    <3> QED  BY <2>4, <3>1, <3>2
  <2>6. PacketTimes'
    <3>1. ASSUME NEW k \in Lidars
          PROVE  IF start'[k] = NotSet
                   THEN received'[k] = 0 /\ k \notin heard'
                   ELSE received'[k] = now - start'[k] + (IF k \in heard' THEN 1 ELSE 0)
      <4>1. CASE k # l
        BY <1>1, <2>1, <2>3, <4>1 DEF SteadyInv, PacketTimes
      <4>2. CASE k = l /\ start[l] = NotSet
        <5>1. received'[k] = 1 /\ start'[k] = now /\ k \in heard' /\ now # NotSet
          BY <1>1, <2>2, <2>3, <2>5, <4>2 DEF NotSet
        <5> QED  BY <2>2, <5>1
      <4>3. CASE k = l /\ start[l] # NotSet
        <5>1. start[k] \in Nat /\ start'[k] = start[k] /\ k \notin heard /\ k \in heard'
          BY <2>3, <4>3
        <5>2. received[k] = now - start[k] + 0 /\ received'[k] = received[k] + 1
          BY <1>1, <2>1, <4>3, <5>1 DEF SteadyInv, PacketTimes
        <5> QED  BY <2>2, <4>3, <5>1, <5>2
      <4> QED  BY <4>1, <4>2, <4>3
    <3>2. p.packet.no = received[l] + 1 /\ p.lidar = l
      OBVIOUS
    <3> HIDE DEF p
    <3>3. start'[l] # NotSet /\ p.packet.time = start'[l] + p.packet.no - 1
      <4>1. CASE start[l] = NotSet
        BY <2>2, <2>3, <2>5, <3>2, <4>1 DEF NotSet
      <4>2. CASE start[l] # NotSet
        <5>1. start[l] \in Nat /\ received[l] = now - start[l] + 0 /\ start'[l] = start[l]
          BY <2>1, <2>3, <4>2 DEF SteadyInv, PacketTimes
        <5> QED  BY <2>2, <3>2, <4>2, <5>1
      <4> QED  BY <4>1, <4>2
    <3>4. ASSUME NEW i \in 1 .. Len(raw')
          PROVE  /\ start'[raw'[i].lidar] # NotSet
                 /\ raw'[i].packet.time = start'[raw'[i].lidar] + raw'[i].packet.no - 1
      <4>1. CASE i \in 1 .. Len(raw)
        <5>1. /\ raw'[i] = raw[i] /\ raw[i].lidar \in Lidars
              /\ start[raw[i].lidar] # NotSet
              /\ raw[i].packet.time = start[raw[i].lidar] + raw[i].packet.no - 1
          BY <1>4, <2>1, <2>4, <4>1 DEF SteadyInv, PacketTimes, SentAt
        <5>2. start'[raw[i].lidar] = start[raw[i].lidar]
          BY <2>3, <5>1
        <5> QED  BY <5>1, <5>2
      <4>2. CASE i = Len(raw) + 1
        BY <1>4, <3>2, <3>3, <4>2
      <4> QED  BY <1>4, <4>1, <4>2
    <3>5. ASSUME NEW k \in Lidars, NEW i \in 1 .. Len(points_clouds[k])
          PROVE  points_clouds[k][i].time = start'[k] + points_clouds[k][i].no - 1
      <4>1. k # l \/ start[l] # NotSet
        BY <2>5
      <4> QED  BY <2>1, <2>3, <4>1 DEF SteadyInv, PacketTimes, SentAt
    <3> QED  BY <1>5, <2>2, <3>1, <3>4, <3>5 DEF PacketTimes, SentAt
  <2>7. FlagSet'
    BY <2>2 DEF FlagSet, Receive
  <2>8. AllInFrame'
    <3> SUFFICES ASSUME NEW k \in Lidars, start'[k] # NotSet
                 PROVE  \E time \in Nat : InFrame(k, time)'
      BY DEF AllInFrame
    <3>1. CASE k # l \/ start[l] # NotSet
      <4>1. PICK time \in Nat : InFrame(k, time)
        BY <2>1, <2>3, <3>1 DEF SteadyInv, AllInFrame
      <4>2. InFrame(k, time)'
        BY <1>5, <2>3, <3>1, <4>1
        DEF InFrame, BaseOf, FirstCut, Cut, OnBoundary, LongEnough,
            publish_interval, publish_interval_tolerance
      <4> QED  BY <4>2
    <3>2. CASE k = l /\ start[l] = NotSet
      <4>1. PICK time \in Nat : /\ FirstCut(now, time)
                               /\ time - now <= 2 * publish_interval_tolerance
        BY <2>2, SomeCut
      <4>2. /\ BaseOf(k)' = now /\ published'[k] = 0 /\ Len(points_clouds'[k]) = 0
        BY <1>5, <2>2, <2>3, <2>5, <3>2 DEF BaseOf
      <4>3. FirstCut(now, time)'
        BY <1>5, <4>1
        DEF FirstCut, Cut, OnBoundary, LongEnough, publish_interval, publish_interval_tolerance
      <4>4. FirstCut(BaseOf(k)', time)
        BY <4>1, <4>2
      <4>5. now + 0 <= time + (IF k \in checking' THEN 1 ELSE 0)
        BY <2>2, <4>1 DEF FirstCut
      <4> QED  BY <4>1, <4>2, <4>4, <4>5
               DEF InFrame, FirstCut, Cut, OnBoundary, LongEnough,
                   publish_interval, publish_interval_tolerance
    <3> QED  BY <3>1, <3>2
  <2>9. FramesRegular'
    <3> SUFFICES ASSUME NEW k \in Lidars, last_frame[k] # NoSpan
                 PROVE  /\ start'[k] # NotSet
                        /\ published[k] # 0
                        /\ RegularFrame(k, last_frame[k])'
      BY <1>5 DEF FramesRegular, NoSpan
    <3>1. start[k] # NotSet /\ published[k] # 0 /\ RegularFrame(k, last_frame[k])
      BY <2>1 DEF SteadyInv, FramesRegular
    <3>2. start'[k] = start[k] /\ last_frame'[k] = last_frame[k]
      BY <1>5, <2>3, <3>1
    <3> QED  BY <3>1, <3>2
             DEF RegularFrame, IsFirst, OnBoundary, publish_interval, publish_interval_tolerance
  <2> QED  BY <2>6, <2>7, <2>8, <2>9 DEF SteadyInv
<1> QED  BY <1>6, <1>7, <1>8, <1>9 DEF IInv

(* Nothing else of the network or the SDK touches what was received.       *)
LEMMA NetworkKeeps ==
  ASSUME IInv,
         \/ Tick
         \/ RequestExit
         \/ \E l \in Lidars : ReceiveImu(l) \/ Lose(l) \/ SyncChanges(l)
  PROVE  IInv'
<1>1. UNCHANGED <<start, raw, received, points_clouds, last_pub, checking, ended,
                  published, last_frame, ticks>>
  BY DEF Tick, RequestExit, ReceiveImu, Lose, SyncChanges, thread, network
<1>2. TypeOK'
  <2>1. CASE Tick
    BY <2>1, ConstantFacts DEF IInv, TypeOK, Tick, thread
  <2>2. CASE RequestExit
    BY <2>2 DEF IInv, TypeOK, RequestExit, thread, network
  <2>3. ASSUME NEW l \in Lidars, ReceiveImu(l) PROVE TypeOK'
    BY <2>3 DEF IInv, TypeOK, ReceiveImu, thread, network
  <2>4. ASSUME NEW l \in Lidars, Lose(l) PROVE TypeOK'
    BY <2>4, ConstantFacts DEF IInv, TypeOK, Lose, thread
  <2>5. ASSUME NEW l \in Lidars, SyncChanges(l) PROVE TypeOK'
    BY <2>5, ConstantFacts DEF IInv, TypeOK, SyncChanges, thread
  <2> QED  BY <2>1, <2>2, <2>3, <2>4, <2>5
<1>3. (InOrder /\ CheckingGathered)'
  BY <1>1, QueuesUntouched
<1>4. Begun' /\ HostFrames'
  <2>1. now' \in Nat /\ now \in Nat /\ now <= now'
    BY ConstantFacts
    DEF Tick, RequestExit, ReceiveImu, Lose, SyncChanges, network, IInv, TypeOK
  <2>2. last_pub \in Nat \cup {NotSet}
    BY DEF IInv, TypeOK
  <2>3. \A l \in Lidars : Since(l) => Since(l)'
    BY <1>1 DEF Since, publish_interval
  <2>4. HostFrames'
    BY <1>1, <2>1, <2>2, <2>3 DEF IInv, HostFrames, NotSet
  <2>5. \A l \in Lidars : start[l] \in Nat \cup {NotSet}
    BY DEF IInv, TypeOK
  <2>6. Begun'
    BY <1>1, <2>1, <2>5 DEF IInv, Begun, NotSet
  <2> QED  BY <2>4, <2>6
<1>5. Steady' => SteadyInv'
  <2> SUFFICES ASSUME Steady' PROVE SteadyInv'
    OBVIOUS
  <2>1. lost \in Nat /\ flips \in Nat /\ now \in Nat
    BY ConstantFacts DEF IInv, TypeOK
  <2>2. UNCHANGED synced /\ Steady /\ \A l \in Lidars : ~Lose(l) /\ ~SyncChanges(l)
    BY <2>1 DEF Tick, RequestExit, ReceiveImu, Lose, SyncChanges, network, Steady
  <2>3. SteadyInv
    BY <2>2 DEF IInv
  <2>4. PacketTimes'
    <3> SUFFICES ASSUME NEW l \in Lidars
                 PROVE  IF start[l] = NotSet
                          THEN received[l] = 0 /\ l \notin heard'
                          ELSE received[l] = now' - start[l] + (IF l \in heard' THEN 1 ELSE 0)
      BY <1>1, <2>2, <2>3 DEF SteadyInv, PacketTimes, SentAt
    <3>1. start[l] \in Nat \cup {NotSet}
      BY DEF IInv, TypeOK
    <3> QED  BY <2>1, <2>2, <2>3, <3>1
             DEF Tick, RequestExit, ReceiveImu, network, SteadyInv, PacketTimes
  <2>5. FlagSet'
    BY <1>1, <2>2, <2>3
    DEF Tick, RequestExit, ReceiveImu, network, SteadyInv, FlagSet, Steady
  <2>6. (AllInFrame /\ FramesRegular)'
    BY <1>1, <2>2, <2>3, FramesUntouched
  <2> QED  BY <2>4, <2>5, <2>6 DEF SteadyInv
<1> QED  BY <1>2, <1>3, <1>4, <1>5 DEF IInv

-----------------------------------------------------------------------------
(* The point thread.                                                       *)

(* The packet at the head is the oldest one of its lidar, so it follows    *)
(* the last one gathered.                                                  *)
LEMMA HeadFollows ==
  ASSUME IInv, raw # <<>>
  PROVE  LET l == raw[1].lidar
         IN  /\ l \in Lidars
             /\ raw[1].packet \in Packets
             /\ raw[1].packet.no = published[l] + Len(points_clouds[l]) + 1
             /\ raw[1].packet.no <= received[l]
<1> DEFINE l == raw[1].lidar
           held == published[l] + Len(points_clouds[l])
<1>1. Len(raw) \in Nat /\ Len(raw) >= 1
  BY Lengths DEF IInv
<1>2. l \in Lidars /\ raw[1].packet \in Packets
  BY <1>1, Lengths DEF IInv
<1>3. 1 \in PositionsOf(l)
  BY <1>1 DEF PositionsOf
<1>4. held \in Nat /\ received[l] \in Nat
  BY <1>2, Lengths DEF IInv
<1>5. raw[1].packet.no \in (held + 1) .. received[l]
  BY <1>2, <1>3 DEF IInv, InOrder
<1>6. held + 1 \in (held + 1) .. received[l]
  BY <1>4, <1>5
<1>7. PICK i \in PositionsOf(l) : raw[i].packet.no = held + 1
  BY <1>2, <1>6 DEF IInv, InOrder
<1>8. i = 1
  <2>1. i \in Nat /\ i >= 1
    BY <1>1, <1>7 DEF PositionsOf
  <2>2. 1 < i => raw[1].packet.no < held + 1
    BY <1>2, <1>3, <1>7 DEF IInv, InOrder
  <2> QED  BY <1>4, <1>5, <2>1, <2>2
<1> QED  BY <1>2, <1>5, <1>7, <1>8

LEMMA RawDataProcessKeeps ==
  ASSUME IInv, RawDataProcess
  PROVE  IInv'
<1>1. PICK l \in Lidars, p \in Packets :
        /\ raw[1].lidar = l /\ raw[1].packet = p
        /\ p.no = published[l] + Len(points_clouds[l]) + 1
        /\ p.no <= received[l]
  BY HeadFollows DEF RawDataProcess
<1>2. /\ raw' \in Seq([lidar : Lidars, packet : Packets])
      /\ Len(raw) \in Nat \ {0}
      /\ Len(raw') = Len(raw) - 1
      /\ \A i \in 1 .. Len(raw') : raw'[i] = raw[i + 1]
  BY DEF IInv, TypeOK, RawDataProcess
<1>3. /\ checking = {} /\ checking' = {l}
      /\ points_clouds' = [points_clouds EXCEPT ![l] = Append(@, p)]
  <2>1. Head(raw) = raw[1]
    BY Lengths DEF IInv, RawDataProcess
  <2> QED  BY <1>1, <2>1 DEF RawDataProcess
<1>4. /\ points_clouds' \in [Lidars -> Seq(Packets)]
      /\ \A k \in Lidars : k # l => points_clouds'[k] = points_clouds[k]
      /\ points_clouds'[l] = Append(points_clouds[l], p)
  BY <1>3 DEF IInv, TypeOK
<1>5. /\ Len(points_clouds[l]) \in Nat
      /\ Len(points_clouds'[l]) = Len(points_clouds[l]) + 1
      /\ \A i \in 1 .. Len(points_clouds[l]) : points_clouds'[l][i] = points_clouds[l][i]
      /\ points_clouds'[l][Len(points_clouds[l]) + 1] = p
  BY <1>4 DEF IInv, TypeOK
<1>6. UNCHANGED <<network, sync_flag, received, is_quit, last_pub, ended,
                  published, last_frame, ticks>>
  BY DEF RawDataProcess
<1>7. TypeOK'
  <2>1. Len(raw') <= MaxRaw
    BY <1>2, ConstantFacts DEF IInv, TypeOK
  <2> QED  BY <1>2, <1>3, <1>4, <1>6, <2>1 DEF IInv, TypeOK, network
<1>8. InOrder'
  <2> SUFFICES ASSUME NEW k \in Lidars
               PROVE  LET held == published[k] + Len(points_clouds'[k])
                      IN  /\ held <= received[k]
                          /\ \A i \in 1 .. Len(points_clouds'[k]) :
                               points_clouds'[k][i].no = published[k] + i
                          /\ {raw'[i].packet.no : i \in PositionsOf(k)'} = (held + 1) .. received[k]
                          /\ \A i, j \in PositionsOf(k)' :
                               i < j => raw'[i].packet.no < raw'[j].packet.no
    BY <1>6 DEF InOrder
  <2> DEFINE held == published[k] + Len(points_clouds[k])
             Behind == PositionsOf(k) \ {1}
  <2>1. held \in Nat /\ received[k] \in Nat /\ held <= received[k]
    BY DEF IInv, TypeOK, InOrder
  <2>2. /\ \A i \in PositionsOf(k)' : i + 1 \in Behind /\ raw'[i] = raw[i + 1]
        /\ \A i \in Behind : i - 1 \in PositionsOf(k)' /\ raw[i] = raw'[i - 1]
    BY <1>2 DEF PositionsOf
  <2>3. {raw'[i].packet.no : i \in PositionsOf(k)'} = {raw[i].packet.no : i \in Behind}
    <3>1. ASSUME NEW i \in PositionsOf(k)'
          PROVE  raw'[i].packet.no \in {raw[j].packet.no : j \in Behind}
      BY <2>2
    <3>2. ASSUME NEW i \in Behind
          PROVE  raw[i].packet.no \in {raw'[j].packet.no : j \in PositionsOf(k)'}
      BY <2>2
    <3> QED  BY <3>1, <3>2
  <2>4. \A i, j \in PositionsOf(k)' : i < j => raw'[i].packet.no < raw'[j].packet.no
    <3> SUFFICES ASSUME NEW i \in PositionsOf(k)', NEW j \in PositionsOf(k)', i < j
                 PROVE  raw'[i].packet.no < raw'[j].packet.no
      OBVIOUS
    <3>1. i + 1 \in PositionsOf(k) /\ j + 1 \in PositionsOf(k) /\ i + 1 < j + 1
      BY <1>2, <2>2 DEF PositionsOf
    <3> QED  BY <2>2, <3>1 DEF IInv, InOrder
  <2>5. CASE k = l
    <3>1. 1 \in PositionsOf(k)
      BY <1>1, <1>2, <2>5 DEF PositionsOf
    <3>2. \A i \in Behind : raw[i].packet.no > held + 1
      <4> SUFFICES ASSUME NEW i \in Behind PROVE raw[i].packet.no > held + 1
        OBVIOUS
      <4>1. i \in PositionsOf(k) /\ 1 < i
        BY <1>2 DEF PositionsOf
      <4>2. raw[1].packet.no < raw[i].packet.no
        BY <3>1, <4>1 DEF IInv, InOrder
      <4>3. raw[i].packet.no \in Nat
        BY <4>1, Lengths DEF IInv, PositionsOf, Packets
      <4> QED  BY <1>1, <2>1, <2>5, <4>2, <4>3
    <3>3. {raw[i].packet.no : i \in PositionsOf(k)} = (held + 1) .. received[k]
      BY DEF IInv, InOrder
    <3>4. {raw[i].packet.no : i \in Behind} = (held + 2) .. received[k]
      <4>1. ASSUME NEW i \in Behind PROVE raw[i].packet.no \in (held + 2) .. received[k]
        BY <2>1, <3>2, <3>3
      <4>2. ASSUME NEW n \in (held + 2) .. received[k]
            PROVE  n \in {raw[i].packet.no : i \in Behind}
        <5>1. PICK i \in PositionsOf(k) : raw[i].packet.no = n
          BY <2>1, <3>3
        <5>2. i # 1
          BY <1>1, <2>1, <2>5, <5>1
        <5> QED  BY <5>1, <5>2
      <4> QED  BY <4>1, <4>2
    <3>5. \A i \in 1 .. Len(points_clouds'[k]) : points_clouds'[k][i].no = published[k] + i
      <4> SUFFICES ASSUME NEW i \in 1 .. (Len(points_clouds[k]) + 1)
                   PROVE  points_clouds'[k][i].no = published[k] + i
        BY <1>5, <2>5
      <4>1. CASE i \in 1 .. Len(points_clouds[k])
        BY <1>5, <2>5, <4>1 DEF IInv, InOrder
      <4>2. CASE i = Len(points_clouds[k]) + 1
        <5>1. Len(points_clouds[k]) \in Nat /\ published[k] \in Nat
          BY Lengths DEF IInv
        <5>2. points_clouds'[k][i] = p
          BY <1>5, <2>5, <4>2, <5>1
        <5>3. p.no = published[k] + i
          BY <1>1, <2>5, <4>2, <5>1
        <5> QED  BY <5>2, <5>3
      <4>3. Len(points_clouds[k]) \in Nat
        BY Lengths DEF IInv
      <4>4. i \in 1 .. Len(points_clouds[k]) \/ i = Len(points_clouds[k]) + 1
        BY <4>3
      <4> QED  BY <4>1, <4>2, <4>4
    <3>6. published[k] + Len(points_clouds'[k]) = held + 1 /\ held + 1 <= received[k]
      <4>1. Len(points_clouds[k]) \in Nat /\ published[k] \in Nat /\ received[k] \in Nat
        BY Lengths DEF IInv
      <4>2. Len(points_clouds'[k]) = Len(points_clouds[k]) + 1
        BY <1>5, <2>5
      <4>3. held + 1 <= received[k]
        BY <1>1, <2>5
      <4> QED  BY <4>1, <4>2, <4>3
    <3>7. held + 1 + 1 = held + 2
      BY <2>1
    <3> QED  BY <2>3, <2>4, <3>4, <3>5, <3>6, <3>7
  <2>6. CASE k # l
    <3>1. 1 \notin PositionsOf(k)
      BY <1>1, <2>6 DEF PositionsOf
    <3>2. {raw[i].packet.no : i \in Behind} = {raw[i].packet.no : i \in PositionsOf(k)}
      BY <3>1
    <3> QED  BY <1>4, <2>3, <2>4, <2>6, <3>2 DEF IInv, InOrder
  <2> QED  BY <2>5, <2>6
<1>9. (CheckingGathered /\ Begun /\ HostFrames)'
  <2>1. CheckingGathered'
    BY <1>3, <1>4, <1>5 DEF CheckingGathered
  <2> QED  BY <1>6, <2>1, ClockUntouched DEF network
<1>10. Steady' => SteadyInv'
  <2> SUFFICES ASSUME Steady PROVE SteadyInv'
    BY <1>6 DEF Steady, network
  <2>1. SteadyInv
    BY DEF IInv
  <2>2. PacketTimes'
    <3>1. SentAt(l, p)
      BY <1>1, <1>2, <2>1 DEF SteadyInv, PacketTimes
    <3>2. ASSUME NEW i \in 1 .. Len(raw')
          PROVE  start[raw'[i].lidar] # NotSet /\ SentAt(raw'[i].lidar, raw'[i].packet)
      <4>1. i + 1 \in 1 .. Len(raw) /\ raw'[i] = raw[i + 1]
        BY <1>2
      <4> QED  BY <2>1, <4>1 DEF SteadyInv, PacketTimes
    <3>3. ASSUME NEW k \in Lidars, NEW i \in 1 .. Len(points_clouds'[k])
          PROVE  SentAt(k, points_clouds'[k][i])
      <4>1. CASE k # l
        BY <1>4, <2>1, <4>1 DEF SteadyInv, PacketTimes
      <4>2. CASE k = l /\ i \in 1 .. Len(points_clouds[l])
        BY <1>5, <2>1, <4>2 DEF SteadyInv, PacketTimes
      <4>3. CASE k = l /\ i = Len(points_clouds[l]) + 1
        BY <1>5, <3>1, <4>3
      <4> QED  BY <1>5, <4>1, <4>2, <4>3
    <3> QED  BY <1>6, <2>1, <3>2, <3>3 DEF SteadyInv, PacketTimes, SentAt, network
  <2>3. FlagSet'
    BY <1>6, <2>1 DEF SteadyInv, FlagSet, RawDataProcess
  <2>4. AllInFrame'
    <3> SUFFICES ASSUME NEW k \in Lidars, start[k] # NotSet
                 PROVE  \E time \in Nat : InFrame(k, time)'
      BY <1>6 DEF AllInFrame, network
    <3>1. PICK time \in Nat : InFrame(k, time)
      BY <2>1 DEF SteadyInv, AllInFrame
    <3>2. /\ published[k] \in Nat /\ Len(points_clouds[k]) \in Nat
          /\ BaseOf(k) \in Int /\ BaseOf(k)' = BaseOf(k)
      <4>1. published[k] \in Nat /\ Len(points_clouds[k]) \in Nat
        BY Lengths DEF IInv
      <4>2. start[k] \in Int
        BY DEF IInv, TypeOK, NotSet
      <4> QED  BY <1>6, <4>1, <4>2 DEF BaseOf, network
    <3>3. FirstCut(BaseOf(k), time)' /\ published'[k] = published[k]
      BY <1>6, <3>1, <3>2
      DEF InFrame, FirstCut, Cut, OnBoundary, LongEnough, publish_interval,
          publish_interval_tolerance
    <3>4. BaseOf(k) + Len(points_clouds'[k]) <= time + (IF k \in checking' THEN 1 ELSE 0)
      <4>1. BaseOf(k) + Len(points_clouds[k]) <= time + 0
        BY <1>3, <3>1 DEF InFrame
      <4>2. CASE k = l
        BY <1>3, <1>5, <3>2, <4>1, <4>2
      <4>3. CASE k # l
        BY <1>3, <1>4, <4>1, <4>3
      <4> QED  BY <4>2, <4>3
    <3> QED  BY <3>1, <3>2, <3>3, <3>4
             DEF InFrame, publish_interval, publish_interval_tolerance
  <2>5. FramesRegular'
    BY <1>6, <2>1
    DEF SteadyInv, FramesRegular, RegularFrame, IsFirst, OnBoundary, NoSpan, network,
        publish_interval, publish_interval_tolerance
  <2> QED  BY <2>2, <2>3, <2>4, <2>5 DEF SteadyInv
<1> QED  BY <1>7, <1>8, <1>9, <1>10 DEF IInv

LEMMA EndThreadKeeps ==
  ASSUME IInv, EndThread
  PROVE  IInv'
<1>1. TypeOK'
  BY DEF IInv, TypeOK, EndThread, network
<1>2. (InOrder /\ CheckingGathered)'
  BY QueuesUntouched DEF EndThread
<1>3. (Begun /\ HostFrames)'
  BY ClockUntouched DEF EndThread, network
<1>4. Steady' => SteadyInv'
  <2> SUFFICES ASSUME Steady PROVE SteadyInv'
    BY DEF Steady, EndThread, network
  <2>1. (PacketTimes /\ FlagSet)'
    BY DEF IInv, SteadyInv, PacketTimes, SentAt, FlagSet, EndThread, network
  <2>2. (AllInFrame /\ FramesRegular)'
    BY FramesUntouched DEF IInv, EndThread, network
  <2> QED  BY <2>1, <2>2 DEF SteadyInv
<1> QED  BY <1>1, <1>2, <1>3, <1>4 DEF IInv

(* Publishing hands over what is gathered, and forgets nothing.            *)
LEMMA PublishFacts ==
  ASSUME IInv, NEW ls \in SUBSET Lidars, Publish(ls)
  PROVE  /\ points_clouds' \in [Lidars -> Seq(Packets)]
         /\ published' \in [Lidars -> Nat]
         /\ last_frame' \in [Lidars -> Spans]
         /\ \A l \in Lidars : l \notin ls => /\ points_clouds'[l] = points_clouds[l]
                                            /\ published'[l] = published[l]
                                            /\ last_frame'[l] = last_frame[l]
         /\ \A l \in ls : /\ points_clouds'[l] = <<>>
                          /\ published'[l] = published[l] + Len(points_clouds[l])
<1>1. \A l \in Lidars : /\ points_clouds[l] \in Seq(Packets)
                        /\ Len(points_clouds[l]) \in Nat
                        /\ published[l] \in Nat
  BY Lengths DEF IInv
<1>2. ASSUME NEW l \in Lidars, points_clouds[l] # <<>>
      PROVE  GetLidarBaseTime(l) \in Nat /\ GetRecentTimeStamp(l) \in Nat
  <2>1. points_clouds[l] \in Seq(Packets) /\ Len(points_clouds[l]) >= 1
    BY <1>2, Lengths DEF IInv
  <2>2. points_clouds[l][1] \in Packets /\ points_clouds[l][Len(points_clouds[l])] \in Packets
    BY <2>1
  <2> QED  BY <2>2 DEF GetLidarBaseTime, GetRecentTimeStamp, Packets
<1>3. last_frame' \in [Lidars -> Spans]
  BY <1>2 DEF Publish, IInv, TypeOK, Spans
<1>4. points_clouds' \in [Lidars -> Seq(Packets)] /\ published' \in [Lidars -> Nat]
  BY <1>1 DEF Publish
<1> QED  BY <1>3, <1>4 DEF Publish

LEMMA HandOverKeepsOrder ==
  ASSUME IInv, NEW ls \in SUBSET Lidars, Publish(ls), UNCHANGED <<raw, received>>
  PROVE  InOrder'
<1> SUFFICES ASSUME NEW l \in Lidars
             PROVE  LET held == published'[l] + Len(points_clouds'[l])
                    IN  /\ held <= received[l]
                        /\ \A i \in 1 .. Len(points_clouds'[l]) :
                             points_clouds'[l][i].no = published'[l] + i
                        /\ {raw[i].packet.no : i \in PositionsOf(l)} = (held + 1) .. received[l]
                        /\ \A i, j \in PositionsOf(l) :
                             i < j => raw[i].packet.no < raw[j].packet.no
  BY DEF InOrder, PositionsOf
<1>1. published[l] \in Nat /\ Len(points_clouds[l]) \in Nat
  BY Lengths DEF IInv
<1>2. published'[l] + Len(points_clouds'[l]) = published[l] + Len(points_clouds[l])
  BY <1>1, PublishFacts
<1>3. \A i \in 1 .. Len(points_clouds'[l]) : points_clouds'[l][i].no = published'[l] + i
  <2>1. CASE l \in ls
    BY <2>1, PublishFacts
  <2>2. CASE l \notin ls
    BY <2>2, PublishFacts DEF IInv, InOrder
  <2> QED  BY <2>1, <2>2
<1> QED  BY <1>2, <1>3 DEF IInv, InOrder

(* With a steady network the packets of a frame were sent in the instants  *)
(* that follow those of the frames before.                                 *)
LEMMA SteadyTimes ==
  ASSUME IInv, Steady, NEW l \in Lidars, points_clouds[l] # <<>>
  PROVE  /\ start[l] \in Nat
         /\ BaseOf(l) \in Nat
         /\ GetLidarBaseTime(l) = BaseOf(l)
         /\ GetRecentTimeStamp(l) = BaseOf(l) + Len(points_clouds[l]) - 1
<1>1. /\ Len(points_clouds[l]) \in Nat /\ Len(points_clouds[l]) >= 1
      /\ published[l] \in Nat /\ received[l] \in Nat
  BY Lengths DEF IInv
<1>2. start[l] \in Nat
  <2>1. published[l] + Len(points_clouds[l]) <= received[l]
    BY DEF IInv, InOrder
  <2>2. received[l] # 0
    BY <1>1, <2>1
  <2>3. start[l] # NotSet
    BY <2>2 DEF IInv, SteadyInv, PacketTimes
  <2> QED  BY <2>3 DEF IInv, TypeOK
<1>3. ASSUME NEW i \in 1 .. Len(points_clouds[l])
      PROVE  points_clouds[l][i].time = BaseOf(l) + i - 1
  <2>1. points_clouds[l][i].no = published[l] + i
    BY DEF IInv, InOrder
  <2>2. points_clouds[l][i].time = start[l] + points_clouds[l][i].no - 1
    BY DEF IInv, SteadyInv, PacketTimes, SentAt
  <2>3. i \in Int /\ published[l] \in Int
    BY <1>1
  <2> QED  BY <1>2, <2>1, <2>2, <2>3 DEF BaseOf
<1>4. BaseOf(l) \in Nat
  BY <1>1, <1>2 DEF BaseOf
<1>5. points_clouds[l][1].time = BaseOf(l) + 1 - 1
  BY <1>1, <1>3
<1>6. points_clouds[l][Len(points_clouds[l])].time = BaseOf(l) + Len(points_clouds[l]) - 1
  BY <1>1, <1>3
<1> QED  BY <1>1, <1>2, <1>4, <1>5, <1>6 DEF GetLidarBaseTime, GetRecentTimeStamp

(* With a steady network CheckTimer publishes exactly when the first       *)
(* packet has come whose time cuts the frame.                              *)
LEMMA SteadyCut ==
  ASSUME IInv, Steady, NEW l \in checking, NEW time \in Nat, InFrame(l, time)
  PROVE  LET recent == GetRecentTimeStamp(l)
             base   == GetLidarBaseTime(l)
         IN  /\ recent \in Nat /\ base \in Nat
             /\ base = BaseOf(l) /\ base <= recent /\ recent <= time
             /\ recent + 1 = base + Len(points_clouds[l])
             /\ OnBoundary(recent) /\ LongEnough(base, recent) <=> recent = time
<1> DEFINE recent == GetRecentTimeStamp(l)
           base   == GetLidarBaseTime(l)
<1>1. l \in Lidars /\ points_clouds[l] # <<>>
  BY DEF IInv, TypeOK, CheckingGathered
<1>2. Len(points_clouds[l]) \in Nat /\ Len(points_clouds[l]) >= 1
  BY <1>1, Lengths DEF IInv
<1>3. /\ BaseOf(l) \in Nat /\ base = BaseOf(l)
      /\ recent = BaseOf(l) + Len(points_clouds[l]) - 1
  BY <1>1, SteadyTimes
<1>4. FirstCut(base, time) /\ base + Len(points_clouds[l]) <= time + 1
  BY <1>3 DEF InFrame
<1> HIDE DEF recent, base
<1>5. /\ recent \in Nat /\ base \in Nat /\ base <= recent /\ recent <= time
      /\ recent + 1 = base + Len(points_clouds[l])
  BY <1>2, <1>3, <1>4
<1>6. Cut(base, recent) <=> recent = time
  <2>1. recent # time => recent \in base .. (time - 1)
    BY <1>5
  <2> QED  BY <1>4, <2>1 DEF FirstCut
<1> QED  BY <1>3, <1>5, <1>6 DEF Cut, recent, base

LEMMA CheckTimerSyncKeeps ==
  ASSUME NEW l \in Lidars, IInv, CheckTimerSync(l)
  PROVE  IInv'
<1> DEFINE publishing == /\ OnBoundary(GetRecentTimeStamp(l))
                         /\ LongEnough(GetLidarBaseTime(l), GetRecentTimeStamp(l))
<1>1. /\ checking = {l} /\ checking' = {}
      /\ UNCHANGED <<network, sync_flag, raw, received, is_quit, last_pub, ended, ticks>>
  BY DEF CheckTimerSync, IInv, TypeOK
<1>2. IF publishing THEN Publish({l})
                    ELSE UNCHANGED <<points_clouds, published, last_frame>>
  BY DEF CheckTimerSync
<1>3. TypeOK' /\ InOrder'
  <2>1. CASE publishing
    <3>1. Publish({l}) /\ {l} \in SUBSET Lidars
      BY <1>2, <2>1
    <3>2. InOrder'
      BY <1>1, <3>1, HandOverKeepsOrder
    <3>3. /\ points_clouds' \in [Lidars -> Seq(Packets)]
          /\ published' \in [Lidars -> Nat]
          /\ last_frame' \in [Lidars -> Spans]
      BY <3>1, PublishFacts
    <3> QED  BY <1>1, <3>2, <3>3 DEF IInv, TypeOK, network
  <2>2. CASE ~publishing
    <3>1. UNCHANGED <<points_clouds, published, last_frame>>
      BY <1>2, <2>2
    <3>2. TypeOK'
      BY <1>1, <3>1 DEF IInv, TypeOK, network
    <3>3. InOrder'
      BY <1>1, <3>1 DEF IInv, InOrder, PositionsOf
    <3> QED  BY <3>2, <3>3
  <2> QED  BY <2>1, <2>2
<1>4. (CheckingGathered /\ Begun /\ HostFrames)'
  BY <1>1, ClockUntouched DEF CheckingGathered, network
<1>5. Steady' => SteadyInv'
  <2> SUFFICES ASSUME Steady PROVE SteadyInv'
    BY <1>1 DEF Steady, network
  <2>1. SteadyInv
    BY DEF IInv
  <2>2. l \in Lidars /\ points_clouds[l] # <<>> /\ start[l] \in Nat /\ BaseOf(l) \in Nat
    <3>1. l \in Lidars /\ points_clouds[l] # <<>>
      BY <1>1 DEF IInv, CheckingGathered
    <3> QED  BY <3>1, SteadyTimes
  <2>3. PICK time \in Nat : InFrame(l, time)
    BY <2>1, <2>2 DEF SteadyInv, AllInFrame, NotSet
  <2> DEFINE recent == GetRecentTimeStamp(l)
             base   == GetLidarBaseTime(l)
  <2>4. /\ recent \in Nat /\ base \in Nat
        /\ base = BaseOf(l) /\ base <= recent /\ recent <= time
        /\ recent + 1 = base + Len(points_clouds[l])
        /\ publishing <=> recent = time
    BY <1>1, <2>3, SteadyCut
  <2> HIDE DEF recent, base, publishing
  <2>5. /\ published[l] \in Nat /\ Len(points_clouds[l]) \in Nat
        /\ start' = start
    BY <1>1, Lengths DEF IInv, network
  <2>6. FlagSet'
    BY <1>1, <2>1 DEF SteadyInv, FlagSet
  <2>7. ASSUME NEW j \in Lidars, start[j] # NotSet, j # l,
               points_clouds'[j] = points_clouds[j], published'[j] = published[j]
        PROVE  \E t \in Nat : InFrame(j, t)'
    <3>1. PICK t \in Nat : InFrame(j, t)
      BY <2>1, <2>7 DEF SteadyInv, AllInFrame
    <3>2. InFrame(j, t)'
      BY <1>1, <2>5, <2>7, <3>1
      DEF InFrame, BaseOf, FirstCut, Cut, OnBoundary, LongEnough,
          publish_interval, publish_interval_tolerance
    <3> QED  BY <3>2
  <2>8. CASE publishing
    <3>1. Publish({l})
      BY <1>2, <2>8 DEF publishing
    <3>2. PacketTimes'
      BY <1>1, <2>1, <3>1, PublishFacts DEF SteadyInv, PacketTimes, SentAt, network
    <3>3. published'[l] = published[l] + Len(points_clouds[l]) /\ points_clouds'[l] = <<>>
      BY <2>2, <3>1, PublishFacts
    <3>4. OnBoundary(recent) /\ LongEnough(base, recent)
      BY <2>8 DEF publishing, recent, base
    <3>5. published'[l] # 0
      BY <2>4, <2>5, <3>3
    <3>6. \E t \in Nat : InFrame(l, t)'
      <4>1. PICK k \in Nat \ {0}, j \in 0 .. (UnitsPerMs - 1) : recent = Boundary(k) + j
        BY <2>4, <3>4, CutOnBoundary
      <4>2. /\ recent + 1 \in Nat
            /\ FirstCut(recent + 1, Boundary(k + 1))
            /\ Boundary(k + 1) - (recent + 1) < publish_interval
            /\ Boundary(k + 1) % publish_interval = 0
        BY <4>1, NextCut
      <4>3. BaseOf(l)' = recent + 1
        BY <2>2, <2>4, <2>5, <3>3 DEF BaseOf
      <4>4. Boundary(k + 1) \in Nat
        BY Boundaries
      <4>5. Len(points_clouds'[l]) = 0
        BY <3>3
      <4>6. BaseOf(l)' + 0 <= Boundary(k + 1) + 0
        BY <4>2, <4>3, <4>4 DEF FirstCut
      <4> HIDE DEF BaseOf
      <4>7. InFrame(l, Boundary(k + 1))'
        BY <1>1, <3>5, <4>2, <4>3, <4>5, <4>6
        DEF InFrame, FirstCut, Cut, OnBoundary, LongEnough, Boundary,
            publish_interval, publish_interval_tolerance
      <4> QED  BY <4>4, <4>7 DEF Boundary, publish_interval
    <3>7. AllInFrame'
      <4> SUFFICES ASSUME NEW j \in Lidars, start[j] # NotSet
                   PROVE  \E t \in Nat : InFrame(j, t)'
        BY <2>5 DEF AllInFrame
      <4>1. CASE j = l
        BY <3>6, <4>1
      <4>2. CASE j # l
        BY <2>2, <2>7, <3>1, <4>2, PublishFacts
      <4> QED  BY <4>1, <4>2
    <3>8. RegularFrame(l, [from |-> base, to |-> recent])
      <4> DEFINE frame == [from |-> base, to |-> recent]
      <4>1. /\ UnitsPerMs \in Nat /\ UnitsPerMs >= 1
            /\ publish_interval \in Nat /\ publish_interval >= 2 * UnitsPerMs
            /\ publish_interval_tolerance = publish_interval - UnitsPerMs
        BY ConstantFacts
      <4>2. recent - base >= publish_interval_tolerance
        BY <2>4, <3>4 DEF LongEnough
      <4>3. IsFirst(l, frame) <=> published[l] = 0
        BY <2>2, <2>4, <2>5 DEF IsFirst, BaseOf
      <4>4. CASE published[l] = 0
        <5>1. recent - base \in publish_interval_tolerance .. 2 * publish_interval_tolerance
          BY <2>3, <2>4, <2>8, <4>1, <4>2, <4>4 DEF InFrame
        <5> QED  BY <3>4, <4>3, <4>4, <5>1 DEF RegularFrame
      <4>5. CASE published[l] # 0
        <5>1. /\ recent - base \in publish_interval_tolerance .. (publish_interval - 1)
              /\ recent % publish_interval = 0
          BY <2>3, <2>4, <2>8, <4>1, <4>2, <4>5 DEF InFrame
        <5> QED  BY <4>3, <4>5, <5>1 DEF RegularFrame
      <4> QED  BY <4>4, <4>5
    <3>9. FramesRegular'
      <4> SUFFICES ASSUME NEW j \in Lidars, last_frame'[j] # NoSpan
                   PROVE  /\ start[j] # NotSet
                          /\ published'[j] # 0
                          /\ RegularFrame(j, last_frame'[j])
        BY <2>5 DEF FramesRegular, RegularFrame, IsFirst, OnBoundary, NoSpan,
                    publish_interval, publish_interval_tolerance
      <4>1. CASE j # l
        <5>1. published'[j] = published[j] /\ last_frame'[j] = last_frame[j]
          BY <2>2, <3>1, <4>1, PublishFacts
        <5>2. RegularFrame(j, last_frame[j]) /\ start[j] # NotSet /\ published[j] # 0
          BY <2>1, <5>1 DEF SteadyInv, FramesRegular
        <5> QED  BY <5>1, <5>2
      <4>2. CASE j = l
        <5>1. last_frame'[l] = [from |-> base, to |-> recent]
          BY <2>2, <3>1 DEF Publish, base, recent
        <5>2. start[l] # NotSet
          BY <2>2 DEF NotSet
        <5> QED  BY <3>5, <3>8, <4>2, <5>1, <5>2
      <4> QED  BY <4>1, <4>2
    <3> QED  BY <2>6, <3>2, <3>7, <3>9 DEF SteadyInv
  <2>9. CASE ~publishing
    <3>1. UNCHANGED <<points_clouds, published, last_frame>>
      BY <1>2, <2>9 DEF publishing
    <3>2. PacketTimes'
      BY <1>1, <2>1, <3>1 DEF SteadyInv, PacketTimes, SentAt, network
    <3>3. FramesRegular'
      BY <2>1, <2>5, <3>1
      DEF SteadyInv, FramesRegular, RegularFrame, IsFirst, OnBoundary, NoSpan,
          publish_interval, publish_interval_tolerance
    <3>4. InFrame(l, time)'
      <4>1. BaseOf(l) + Len(points_clouds[l]) <= time + 0
        BY <2>4, <2>5, <2>9
      <4> QED  BY <1>1, <2>3, <2>5, <3>1, <4>1
               DEF InFrame, BaseOf, FirstCut, Cut, OnBoundary, LongEnough,
                   publish_interval, publish_interval_tolerance
    <3>5. AllInFrame'
      <4> SUFFICES ASSUME NEW j \in Lidars, start[j] # NotSet
                   PROVE  \E t \in Nat : InFrame(j, t)'
        BY <2>5 DEF AllInFrame
      <4>1. CASE j = l
        BY <3>4, <4>1
      <4>2. CASE j # l
        BY <2>7, <3>1, <4>2
      <4> QED  BY <4>1, <4>2
    <3> QED  BY <2>6, <3>2, <3>3, <3>5 DEF SteadyInv
  <2> QED  BY <2>8, <2>9
<1> QED  BY <1>3, <1>4, <1>5 DEF IInv

LEMMA CheckTimerNoSyncKeeps ==
  ASSUME NEW l \in Lidars, IInv, CheckTimerNoSync(l)
  PROVE  IInv'
<1>1. /\ l \in checking /\ checking' = {} /\ ~sync_flag
      /\ UNCHANGED <<network, sync_flag, raw, received, is_quit, ended>>
  BY DEF CheckTimerNoSync
<1>2. CheckingGathered'
  BY <1>1 DEF CheckingGathered
<1>3. Steady' => SteadyInv'
  BY <1>1 DEF IInv, SteadyInv, FlagSet, Steady, network
<1>4. now \in Nat /\ ticks \in Nat
  BY ConstantFacts DEF IInv, TypeOK
<1>5. Begun'
  BY <1>1 DEF IInv, Begun, network
<1>6. CASE last_pub = NotSet
  <2>1. last_pub' = now /\ UNCHANGED <<points_clouds, published, last_frame, ticks>>
    BY <1>6 DEF CheckTimerNoSync
  <2>2. TypeOK' /\ InOrder'
    BY <1>1, <1>4, <2>1 DEF IInv, TypeOK, InOrder, PositionsOf, network
  <2>3. HostFrames'
    <3>1. /\ start[l] # NotSet /\ start[l] \in Nat /\ start[l] <= now
      <4>1. points_clouds[l] # <<>> /\ l \in Lidars
        BY <1>1 DEF IInv, CheckingGathered
      <4>2. published[l] + Len(points_clouds[l]) <= received[l]
        BY <4>1 DEF IInv, InOrder
      <4>3. received[l] # 0
        BY <4>1, <4>2, Lengths DEF IInv
      <4> QED  BY <4>1, <4>3 DEF IInv, Begun, TypeOK
    <3>2. ticks' = 0 /\ now' = now /\ start' = start
      BY <1>1, <1>6, <2>1 DEF IInv, HostFrames, network
    <3>3. 0 * publish_interval = 0
      BY ConstantFacts
    <3>4. start[l] + 0 * publish_interval <= now
      BY <3>1, <3>3
    <3>5. Since(l)'
      BY <2>1, <3>1, <3>2, <3>4 DEF Since, publish_interval
    <3> QED  BY <1>4, <2>1, <3>2, <3>5 DEF HostFrames
  <2> QED  BY <1>2, <1>3, <1>5, <2>2, <2>3 DEF IInv
<1>7. CASE last_pub # NotSet /\ Due
  <2>1. /\ last_pub' = last_pub + publish_interval
        /\ ticks' = ticks + 1
        /\ Publish(Lidars)
    BY <1>7 DEF CheckTimerNoSync
  <2>2. last_pub \in Nat /\ last_pub' \in Nat /\ last_pub' <= now
    BY <1>4, <1>7, <2>1, ConstantFacts DEF IInv, TypeOK, Due
  <2>3. TypeOK'
    BY <1>1, <1>4, <2>1, <2>2, PublishFacts DEF IInv, TypeOK, network
  <2>4. InOrder'
    BY <1>1, <2>1, HandOverKeepsOrder
  <2>5. HostFrames'
    <3>1. PICK k \in Lidars : Since(k)
      BY <1>7 DEF IInv, HostFrames
    <3>2. (ticks + 1) * publish_interval = ticks * publish_interval + publish_interval
      BY <1>4, ConstantFacts, Z3
    <3>3. ticks * publish_interval \in Nat /\ publish_interval \in Nat
      BY <1>4, ConstantFacts, Z3
    <3>4. start[k] \in Nat /\ start' = start
      BY <1>1, <3>1 DEF Since, IInv, TypeOK, network
    <3>5. start[k] + ticks' * publish_interval <= last_pub'
      BY <2>1, <2>2, <3>1, <3>2, <3>3, <3>4 DEF Since
    <3>6. Since(k)'
      BY <3>1, <3>4, <3>5 DEF Since, publish_interval
    <3>7. last_pub' # NotSet /\ last_pub' <= now'
      BY <1>1, <2>2 DEF NotSet, network
    <3> QED  BY <3>6, <3>7 DEF HostFrames
  <2> QED  BY <1>2, <1>3, <1>5, <2>3, <2>4, <2>5 DEF IInv
<1>8. CASE last_pub # NotSet /\ ~Due
  <2>1. UNCHANGED <<points_clouds, published, last_frame, last_pub, ticks>>
    BY <1>8 DEF CheckTimerNoSync
  <2>2. (TypeOK /\ InOrder)'
    BY <1>1, <2>1 DEF IInv, TypeOK, InOrder, PositionsOf, network
  <2>3. (Begun /\ HostFrames)'
    BY <1>1, <2>1, ClockUntouched DEF network
  <2> QED  BY <1>2, <1>3, <2>2, <2>3 DEF IInv
<1> QED  BY <1>6, <1>7, <1>8

LEMMA IInvStep == IInv /\ [Next]_vars => IInv'
<1> SUFFICES ASSUME IInv, [Next]_vars PROVE IInv'
  OBVIOUS
<1>1. CASE PointThread
  BY <1>1, RawDataProcessKeeps, EndThreadKeeps, CheckTimerSyncKeeps,
     CheckTimerNoSyncKeeps DEF PointThread
<1>2. CASE \/ Tick
           \/ RequestExit
           \/ \E l \in Lidars : ReceiveImu(l) \/ Lose(l) \/ SyncChanges(l)
  BY <1>2, NetworkKeeps
<1>3. ASSUME NEW l \in Lidars, Receive(l) PROVE IInv'
  BY <1>3, ReceiveKeeps
<1>4. CASE UNCHANGED vars
  <2>1. TypeOK' /\ (Begun /\ HostFrames)'
    BY <1>4, ClockUntouched DEF vars, network, thread, IInv, TypeOK
  <2>2. (InOrder /\ CheckingGathered)'
    BY <1>4, QueuesUntouched DEF vars, thread
  <2>3. Steady' => SteadyInv'
    BY <1>4, FramesUntouched
    DEF vars, network, thread, IInv, Steady, SteadyInv, PacketTimes, SentAt, FlagSet
  <2> QED  BY <2>1, <2>2, <2>3 DEF IInv
<1> QED  BY <1>1, <1>2, <1>3, <1>4 DEF Next

LEMMA Invariance == Spec => []IInv
<1> QED  BY IInvInit, IInvStep, PTL DEF Spec

-----------------------------------------------------------------------------
(* The theorems.                                                           *)

(* The variables keep their types: in particular no time stamp is ever     *)
(* negative, and CheckTimer looks at one lidar at a time.                  *)
THEOREM TypeCorrect == Spec => []TypeOK
<1>1. IInv => TypeOK
  BY DEF IInv
<1> QED  BY <1>1, Invariance, PTL

(* Whichever clock cuts the frames, and whenever that changes, the packets *)
(* of a lidar are published in the order they came, each once              *)
(* (pub_handler.cpp:152, 218-238): for any number of lidars, any backlog   *)
(* and any packets lost on the way.                                        *)
THEOREM PublishedInOrder == Spec => []InOrder
<1>1. IInv => InOrder
  BY DEF IInv
<1> QED  BY <1>1, Invariance, PTL

(* Adding the interval to last_pub_time_ instead of taking the time        *)
(* (pub_handler.cpp:190-193) lets the host's clock catch up after a pause  *)
(* but never cut more frames than intervals have passed since the first    *)
(* packet.                                                                 *)
THEOREM HostRateBounded == Spec => []AverageRate
<1>1. IInv => AverageRate
  <2> SUFFICES ASSUME IInv, ticks > 0
               PROVE  \E l \in Lidars : /\ start[l] # NotSet
                                        /\ ticks * publish_interval <= now - start[l]
    BY DEF AverageRate
  <2>1. now \in Nat /\ ticks \in Nat /\ publish_interval \in Nat
    BY ConstantFacts DEF IInv, TypeOK
  <2>2. last_pub # NotSet /\ last_pub \in Nat /\ last_pub <= now
    BY <2>1 DEF IInv, TypeOK, HostFrames
  <2>3. PICK l \in Lidars : Since(l)
    BY <2>2 DEF IInv, HostFrames
  <2>4. ticks * publish_interval \in Nat
    BY <2>1, Z3
  <2>5. start[l] # NotSet /\ start[l] \in Nat
    BY <2>3 DEF Since, IInv, TypeOK
  <2> QED  BY <2>1, <2>2, <2>3, <2>4, <2>5 DEF Since
<1> QED  BY <1>1, Invariance, PTL

(* Testing the millisecond of the newest packet and the length of what is  *)
(* gathered (pub_handler.cpp:152-162) cuts one frame for each multiple of  *)
(* the interval and none in between, once a lidar has had its first frame, *)
(* and lets that one last less than two intervals: for any interval of two *)
(* milliseconds or more, any number of packets in a millisecond and any    *)
(* time at which a lidar begins.                                           *)
THEOREM SteadyFramesRegular == Spec => []RegularFrames
<1>1. IInv => RegularFrames
  <2> SUFFICES ASSUME IInv, Steady, NEW l \in Lidars,
                      checking = {}, points_clouds[l] # <<>>
               PROVE  GetRecentTimeStamp(l) - GetLidarBaseTime(l)
                        < IF last_frame[l] = NoSpan THEN 2 * publish_interval_tolerance
                                                    ELSE publish_interval
    BY DEF IInv, SteadyInv, FramesRegular, RegularFrames
  <2>1. /\ start[l] \in Nat /\ BaseOf(l) \in Nat
        /\ GetLidarBaseTime(l) = BaseOf(l)
        /\ GetRecentTimeStamp(l) = BaseOf(l) + Len(points_clouds[l]) - 1
    BY SteadyTimes
  <2>2. PICK time \in Nat : InFrame(l, time)
    BY <2>1 DEF IInv, SteadyInv, AllInFrame, NotSet
  <2>3. Len(points_clouds[l]) \in Nat /\ published[l] \in Nat
    BY Lengths DEF IInv
  <2>4. /\ UnitsPerMs \in Nat /\ UnitsPerMs >= 1
        /\ publish_interval \in Nat /\ publish_interval >= 2 * UnitsPerMs
        /\ publish_interval_tolerance = publish_interval - UnitsPerMs
    BY ConstantFacts
  <2>5. BaseOf(l) + Len(points_clouds[l]) <= time + 0
    BY <2>2 DEF InFrame
  <2>6. CASE published[l] = 0
    <3>1. last_frame[l] = NoSpan
      BY <2>6 DEF IInv, SteadyInv, FramesRegular
    <3>2. time - BaseOf(l) <= 2 * publish_interval_tolerance
      BY <2>2, <2>6 DEF InFrame
    <3> QED  BY <2>1, <2>3, <2>4, <2>5, <3>1, <3>2
  <2>7. CASE published[l] # 0
    <3>1. time - BaseOf(l) < publish_interval
      BY <2>2, <2>7 DEF InFrame
    <3> QED  BY <2>1, <2>3, <2>4, <2>5, <3>1
  <2> QED  BY <2>6, <2>7
<1> QED  BY <1>1, Invariance, PTL
=============================================================================
