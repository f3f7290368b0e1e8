-------------------------- MODULE LidarConfigProofs --------------------------
(***************************************************************************)
(* Proofs about the setup of the lidars of LidarConfig, for every set of   *)
(* lidars, every sequence of settings and any number of reports.           *)
(***************************************************************************)
EXTENDS LidarConfig, FiniteSetTheorems, TLAPS

(* The setting s of l is still ahead of the handler.                       *)
Ahead(l, s) == /\ handler.at = "settings"
               /\ handler.lidar = l
               /\ \E i \in handler.next .. Len(Settings) : Settings[i] = s

(* The handler is still to send command c to l for the report it handles.  *)
ToSend(l, c) ==
  \/ Ahead(l, c)
  \/ /\ handler.lidar = l
     /\ \/ handler.at = "settings" /\ c \notin SettingSet
        \/ handler.at = "attitude" /\ c \notin SettingSet
        \/ handler.at \in {"insert", "commands"} /\ c \in {"work_mode", "imu"}

(* Every report sends a command at most once.                              *)
OncePerReport ==
  \A l \in Lidars : \A c \in Commands :
    /\ outstanding[l][c] <= reports
    /\ ToSend(l, c) => outstanding[l][c] < reports

(* The index that GetFreeIndex found is still free when it inserts.        *)
IndexFree ==
  /\ IsFiniteSet(indexed)
  /\ handler.at = "insert" => /\ handler.lidar \notin indexed
                              /\ Cardinality(indexed) < MaxLidars

(* Commands are sent only to lidars that have an index.                    *)
SentToIndexed ==
  /\ handler.at \in {"settings", "attitude", "commands"} => handler.lidar \in indexed
  /\ \A l \in Lidars : \A c \in Commands : outstanding[l][c] > 0 => l \in indexed

(* The lidar l was sent a setting, or will be: from then on each setting   *)
(* of the file is in the lidar, is waited for, or is ahead of the handler. *)
SetUp(l) == \/ \E s \in SettingSet : outstanding[l][s] > 0
            \/ handler.at = "settings" /\ handler.lidar = l

Accounted(l) ==
  \A s \in Wanted[l] : \/ device[l][s] = "user"
                       \/ s \in set_bits[l]
                       \/ Ahead(l, s)

AllAccounted == \A l \in Configured : SetUp(l) => Accounted(l)

IInv == /\ TypeOK
        /\ OncePerReport
        /\ IndexFree
        /\ SentToIndexed
        /\ AllAccounted
        /\ SamplingMeansConfigured
        /\ WaitsForAnswer

-----------------------------------------------------------------------------
(* Facts about the constants and about what actions do to the commands.    *)

LEMMA SettingFacts ==
  /\ Len(Settings) \in Nat
  /\ \A i \in 1 .. Len(Settings) : Settings[i] \in SettingSet
  /\ SettingSet \subseteq Commands
  /\ {"attitude", "work_mode", "imu"} \subseteq Commands
  /\ \A l \in Configured : Wanted[l] \subseteq SettingSet
  /\ \A l \in Lidars : Requested(l) \subseteq SettingSet
<1> QED  BY ConfigAssumption, SettingsAssumption DEF SettingSet, Commands, Requested

LEMMA Numbers ==
  TypeOK => /\ \A l \in Lidars : \A c \in Commands : outstanding[l][c] \in Nat
            /\ reports \in Nat
<1> QED  BY ConfigAssumption DEF TypeOK

(* Commands sent to a lidar are no failures any more.                      *)
LEMMA SendFacts ==
  ASSUME TypeOK, NEW l \in Lidars, NEW cs \in SUBSET Commands, Send(l, cs)
  PROVE  /\ outstanding' \in [Lidars -> [Commands -> Nat]]
         /\ failed' \in [Lidars -> SUBSET Commands]
         /\ \A k \in Lidars : \A c \in Commands :
              /\ outstanding'[k][c] = IF k = l /\ c \in cs THEN outstanding[k][c] + 1
                                                           ELSE outstanding[k][c]
              /\ k # l \/ c \notin cs => (c \in failed'[k] <=> c \in failed[k])
<1>1. outstanding[l] \in [Commands -> 0 .. MaxReports]
  BY DEF TypeOK
<1>2. outstanding' = [outstanding EXCEPT ![l] =
        [c \in Commands |-> IF c \in cs THEN outstanding[l][c] + 1 ELSE outstanding[l][c]]]
  BY DEF Send, TypeOK
<1>3. \A k \in Lidars : \A c \in Commands :
        outstanding'[k][c] = IF k = l /\ c \in cs THEN outstanding[k][c] + 1
                                                  ELSE outstanding[k][c]
  BY <1>2 DEF TypeOK
<1>4. outstanding' \in [Lidars -> [Commands -> Nat]]
  BY <1>1, <1>2, ConfigAssumption DEF TypeOK
<1>5. /\ failed' \in [Lidars -> SUBSET Commands]
      /\ \A k \in Lidars : \A c \in Commands :
           k # l \/ c \notin cs => (c \in failed'[k] <=> c \in failed[k])
  BY DEF Send, TypeOK
<1> QED  BY <1>3, <1>4, <1>5

LEMMA AnsweredFacts ==
  ASSUME TypeOK, NEW l \in Lidars, NEW c \in Commands, outstanding[l][c] > 0,
         Answered(l, c)
  PROVE  /\ outstanding' \in [Lidars -> [Commands -> 0 .. MaxReports]]
         /\ \A k \in Lidars : \A d \in Commands :
              outstanding'[k][d] = IF k = l /\ d = c THEN outstanding[k][d] - 1
                                                     ELSE outstanding[k][d]
<1>1. /\ outstanding[l] \in [Commands -> 0 .. MaxReports]
      /\ outstanding[l][c] - 1 \in 0 .. MaxReports
  BY ConfigAssumption DEF TypeOK
<1>2. outstanding' = [outstanding EXCEPT ![l] = [outstanding[l] EXCEPT ![c] = @ - 1]]
  BY <1>1 DEF Answered, TypeOK
<1> QED  BY <1>1, <1>2 DEF TypeOK

(* A lidar of the file that obeys gets a value of the file.                *)
LEMMA ObeyFacts ==
  ASSUME TypeOK, NEW l \in Lidars, NEW c \in Commands, Obey(l, c) \/ UNCHANGED device
  PROVE  /\ device' \in [Lidars -> [Commands -> Values]]
         /\ \A k \in Configured : \A d \in Commands :
              device[k][d] = "user" => device'[k][d] = "user"
         /\ Obey(l, c) /\ l \in Configured => device'[l][c] = "user"
<1>1. CASE UNCHANGED device /\ ~Obey(l, c)
  BY <1>1 DEF TypeOK
<1>2. CASE Obey(l, c)
  <2>1. device' = [device EXCEPT ![l] = [device[l] EXCEPT ![c] = ValueSent(l, c)]]
    BY <1>2 DEF Obey, TypeOK
  <2>2. ValueSent(l, c) \in Values /\ (l \in Configured => ValueSent(l, c) = "user")
    BY DEF ValueSent, Values
  <2>3. device[l] \in [Commands -> Values]
    BY DEF TypeOK
  <2>4. device' \in [Lidars -> [Commands -> Values]]
    BY <2>1, <2>2, <2>3 DEF TypeOK
  <2>5. \A k \in Lidars : \A d \in Commands :
          device'[k][d] = IF k = l /\ d = c THEN ValueSent(l, c) ELSE device[k][d]
    BY <2>1, <2>3 DEF TypeOK
  <2> QED  BY <2>2, <2>4, <2>5, ConfigAssumption
<1> QED  BY <1>1, <1>2

LEMMA IInvInit == Init => IInv
<1> SUFFICES ASSUME Init PROVE IInv
  OBVIOUS
<1>1. TypeOK
  BY ConfigAssumption, SettingFacts DEF Init, TypeOK, Values
<1>2. \A l \in Lidars : \A c \in Commands : outstanding[l][c] = 0
  BY DEF Init
<1>3. OncePerReport /\ IndexFree /\ SentToIndexed
  BY <1>2, ConfigAssumption
  DEF Init, OncePerReport, ToSend, Ahead, IndexFree, SentToIndexed
<1>4. AllAccounted
  BY <1>2, ConfigAssumption, SettingFacts DEF Init, AllAccounted, SetUp
<1>5. SamplingMeansConfigured /\ WaitsForAnswer
  BY DEF Init, SamplingMeansConfigured, WaitsForAnswer
<1> QED  BY <1>1, <1>3, <1>4, <1>5 DEF IInv

-----------------------------------------------------------------------------
(* The handler.                                                            *)

LEMMA InfoChangeUnknownKeeps ==
  ASSUME NEW l \in Lidars, IInv, InfoChangeUnknown(l)
  PROVE  IInv'
<1>1. TypeOK'
  BY ConfigAssumption, SettingFacts DEF IInv, TypeOK, InfoChangeUnknown
<1>2. OncePerReport'
  BY Numbers DEF IInv, OncePerReport, InfoChangeUnknown
<1>3. (IndexFree /\ SentToIndexed)'
  BY DEF IInv, IndexFree, SentToIndexed, InfoChangeUnknown
<1>4. AllAccounted'
  BY DEF IInv, AllAccounted, SetUp, Accounted, Ahead, InfoChangeUnknown
<1>5. (SamplingMeansConfigured /\ WaitsForAnswer)'
  BY DEF IInv, SamplingMeansConfigured, WaitsForAnswer, InfoChangeUnknown
<1> QED  BY <1>1, <1>2, <1>3, <1>4, <1>5 DEF IInv

LEMMA InsertIndexKeeps ==
  ASSUME IInv, InsertIndex
  PROVE  IInv'
<1>1. Cardinality(indexed') = Cardinality(indexed) + 1 /\ IsFiniteSet(indexed')
  BY FS_AddElement DEF IInv, IndexFree, InsertIndex
<1>2. Cardinality(indexed) \in Nat
  BY FS_CardinalityType DEF IInv, IndexFree
<1>3. TypeOK'
  <2>1. Cardinality(indexed') <= MaxLidars
    BY <1>1, <1>2, ConfigAssumption DEF IInv, IndexFree, InsertIndex
  <2>2. indexed' \subseteq Lidars /\ sampling \subseteq indexed'
    BY DEF IInv, TypeOK, InsertIndex
  <2> QED  BY <2>1, <2>2 DEF IInv, TypeOK, InsertIndex
<1>4. OncePerReport'
  BY DEF IInv, TypeOK, OncePerReport, ToSend, Ahead, InsertIndex
<1>5. (IndexFree /\ SentToIndexed)'
  BY <1>1 DEF IInv, TypeOK, IndexFree, SentToIndexed, InsertIndex
<1>6. AllAccounted'
  BY DEF IInv, TypeOK, AllAccounted, SetUp, Accounted, Ahead, InsertIndex
<1>7. (SamplingMeansConfigured /\ WaitsForAnswer)'
  BY DEF IInv, SamplingMeansConfigured, WaitsForAnswer, InsertIndex
<1> QED  BY <1>3, <1>4, <1>5, <1>6, <1>7 DEF IInv

LEMMA InfoChangeKnownKeeps ==
  ASSUME NEW l \in Lidars, IInv, InfoChangeKnown(l)
  PROVE  IInv'
<1>1. TypeOK'
  BY ConfigAssumption, SettingFacts DEF IInv, TypeOK, InfoChangeKnown
<1>2. OncePerReport'
  BY Numbers DEF IInv, OncePerReport, InfoChangeKnown
<1>3. (IndexFree /\ SentToIndexed)'
  BY DEF IInv, IndexFree, SentToIndexed, InfoChangeKnown
<1>4. AllAccounted'
  <2> SUFFICES ASSUME NEW k \in Configured, SetUp(k)'
               PROVE  Accounted(k)'
    BY DEF AllAccounted
  <2>1. CASE k = l
    <3>1. \A s \in Wanted[l] : Ahead(l, s)'
      BY <2>1, SettingFacts DEF Ahead, InfoChangeKnown, SettingSet
    <3> QED  BY <2>1, <3>1 DEF Accounted
  <2>2. CASE k # l
    <3>1. SetUp(k) /\ \A s : ~Ahead(k, s)
      BY <2>2 DEF SetUp, Ahead, InfoChangeKnown
    <3> QED  BY <3>1 DEF IInv, AllAccounted, Accounted, InfoChangeKnown
  <2> QED  BY <2>1, <2>2
<1>5. (SamplingMeansConfigured /\ WaitsForAnswer)'
  BY DEF IInv, SamplingMeansConfigured, WaitsForAnswer, InfoChangeKnown
<1> QED  BY <1>1, <1>2, <1>3, <1>4, <1>5 DEF IInv

(* The setting the handler sends next is ahead of it, and not afterwards.  *)
LEMMA NextSetting ==
  ASSUME IInv, handler.at = "settings", handler.next <= Len(Settings),
         handler' = [handler EXCEPT !.next = @ + 1]
  PROVE  /\ Settings[handler.next] \in SettingSet
         /\ handler.next \in 1 .. Len(Settings)
         /\ handler' \in [at : {"settings"}, lidar : {handler.lidar},
                          next : 1 .. (Len(Settings) + 1)]
         /\ handler'.next = handler.next + 1
         /\ \A s, l : Ahead(l, s) <=> \/ Ahead(l, s)'
                                      \/ l = handler.lidar /\ s = Settings[handler.next]
         /\ \A s, l : s = Settings[handler.next] => ~Ahead(l, s)'
<1>1. /\ handler.next \in 1 .. Len(Settings)
      /\ handler' \in [at : {"settings"}, lidar : {handler.lidar},
                       next : 1 .. (Len(Settings) + 1)]
      /\ handler'.next = handler.next + 1
  <2>1. handler.next \in 1 .. (Len(Settings) + 1)
    BY DEF IInv, TypeOK
  <2>2. handler.next \in 1 .. Len(Settings) /\ handler.next + 1 \in 1 .. (Len(Settings) + 1)
    BY <2>1, SettingFacts
  <2>3. handler' = [at |-> "settings", lidar |-> handler.lidar, next |-> handler.next + 1]
    BY DEF IInv, TypeOK
  <2> QED  BY <2>2, <2>3
<1>2. Settings[handler.next] \in SettingSet
  BY <1>1, SettingFacts
<1>3. \A s, l : Ahead(l, s) <=> \/ Ahead(l, s)'
                                \/ l = handler.lidar /\ s = Settings[handler.next]
  BY <1>1, SettingFacts DEF Ahead
<1>4. \A s, l : s = Settings[handler.next] => ~Ahead(l, s)'
  BY <1>1, SettingFacts, SettingsAssumption DEF Ahead
<1> QED  BY <1>1, <1>2, <1>3, <1>4

LEMMA SendSettingKeeps ==
  ASSUME IInv, SendSetting
  PROVE  IInv'
<1>1. PICK l \in Lidars, s \in SettingSet : l = handler.lidar /\ s = Settings[handler.next]
  BY NextSetting DEF IInv, TypeOK, SendSetting
<1>2. s \in Commands /\ {s} \in SUBSET Commands
  BY SettingFacts
<1>3. CASE s \in Requested(l)
  <2>1. Send(l, {s}) /\ set_bits' = [set_bits EXCEPT ![l] = @ \cup {s}]
    BY <1>1, <1>3 DEF SendSetting
  <2>2. OncePerReport'
    <3> SUFFICES ASSUME NEW k \in Lidars, NEW c \in Commands
                 PROVE  /\ outstanding'[k][c] <= reports
                        /\ ToSend(k, c)' => outstanding'[k][c] < reports
      BY DEF OncePerReport, SendSetting
    <3>1. CASE k = l /\ c = s
      <4>1. Ahead(l, s) /\ ~ToSend(l, s)'
        BY <1>1, NextSetting, SettingsAssumption DEF ToSend, SendSetting
      <4>2. outstanding[l][s] < reports
        BY <1>2, <4>1 DEF IInv, OncePerReport, ToSend
      <4>3. outstanding'[l][s] = outstanding[l][s] + 1
        BY <1>2, <2>1, SendFacts DEF IInv
      <4> QED  BY <1>2, <3>1, <4>1, <4>2, <4>3, ConfigAssumption DEF IInv, TypeOK
    <3>2. CASE ~(k = l /\ c = s)
      <4>1. ToSend(k, c)' => ToSend(k, c)
        BY NextSetting DEF ToSend, SendSetting
      <4>2. outstanding'[k][c] = outstanding[k][c]
        BY <1>2, <2>1, <3>2, SendFacts DEF IInv
      <4> QED  BY <4>1, <4>2 DEF IInv, OncePerReport
    <3> QED  BY <3>1, <3>2
  <2>3. TypeOK'
    <3>1. outstanding' \in [Lidars -> [Commands -> Nat]] /\ failed' \in [Lidars -> SUBSET Commands]
      BY <1>2, <2>1, SendFacts DEF IInv
    <3>2. \A k \in Lidars : \A c \in Commands : outstanding'[k][c] \in 0 .. MaxReports
      BY <2>2, <3>1, ConfigAssumption DEF IInv, TypeOK, OncePerReport, SendSetting
    <3>3. outstanding' \in [Lidars -> [Commands -> 0 .. MaxReports]]
      BY <3>1, <3>2
    <3>4. set_bits' \in [Lidars -> SUBSET SettingSet]
      BY <2>1 DEF IInv, TypeOK
    <3> QED  BY <3>1, <3>3, <3>4, NextSetting DEF IInv, TypeOK, SendSetting
  <2>4. (IndexFree /\ SentToIndexed)'
    <3>1. handler'.at = "settings" /\ handler'.lidar = l /\ l \in indexed
      BY <1>1, NextSetting DEF IInv, SentToIndexed, SendSetting
    <3>2. \A k \in Lidars : \A c \in Commands :
            k = l \/ outstanding'[k][c] = outstanding[k][c]
      BY <1>2, <2>1, SendFacts DEF IInv
    <3> QED  BY <3>1, <3>2 DEF IInv, IndexFree, SentToIndexed, SendSetting
  <2>5. AllAccounted'
    <3> SUFFICES ASSUME NEW k \in Configured, SetUp(k)'
                 PROVE  Accounted(k)'
      BY DEF AllAccounted
    <3>1. k \in Lidars /\ Wanted[k] \subseteq SettingSet
      BY ConfigAssumption
    <3>2. SetUp(k)
      <4>1. CASE k = l
        BY <1>1, <4>1 DEF SetUp, SendSetting
      <4>2. CASE k # l
        <5>1. handler'.lidar # k
          BY <1>1, <4>2, NextSetting DEF SendSetting
        <5>2. \A c \in SettingSet : outstanding'[k][c] = outstanding[k][c]
          BY <1>2, <2>1, <3>1, <4>2, SendFacts, SettingFacts DEF IInv
        <5> QED  BY <5>1, <5>2 DEF SetUp
      <4> QED  BY <4>1, <4>2
    <3>3. \A c \in SettingSet : c \in set_bits[k] \/ (k = l /\ c = s) => c \in set_bits'[k]
      BY <1>1, <2>1, <3>1 DEF IInv, TypeOK
    <3> QED  BY <1>1, <3>1, <3>2, <3>3, NextSetting
             DEF IInv, AllAccounted, Accounted, SendSetting
  <2>6. WaitsForAnswer'
    <3> SUFFICES ASSUME NEW k \in Lidars, NEW c \in set_bits'[k]
                 PROVE  outstanding'[k][c] > 0 \/ c \in failed'[k]
      BY DEF WaitsForAnswer
    <3>1. c \in Commands /\ (c \in set_bits[k] \/ (k = l /\ c = s))
      BY <1>2, <2>1, SettingFacts DEF IInv, TypeOK
    <3>2. outstanding[k][c] \in Nat
      BY <3>1, ConfigAssumption DEF IInv, TypeOK
    <3> QED  BY <1>2, <2>1, <3>1, <3>2, SendFacts DEF IInv, WaitsForAnswer
  <2>7. SamplingMeansConfigured'
    BY DEF IInv, SamplingMeansConfigured, SendSetting
  <2> QED  BY <2>2, <2>3, <2>4, <2>5, <2>6, <2>7 DEF IInv
<1>4. CASE s \notin Requested(l)
  <2>1. UNCHANGED <<set_bits, outstanding, failed>>
    BY <1>1, <1>4 DEF SendSetting
  <2>2. TypeOK'
    BY <2>1, NextSetting DEF IInv, TypeOK, SendSetting
  <2>3. OncePerReport'
    BY <2>1, NextSetting DEF IInv, OncePerReport, ToSend, SendSetting
  <2>4. (IndexFree /\ SentToIndexed)'
    BY <2>1, NextSetting DEF IInv, IndexFree, SentToIndexed, SendSetting
  <2>5. AllAccounted'
    <3> SUFFICES ASSUME NEW k \in Configured, SetUp(k)'
                 PROVE  Accounted(k)'
      BY DEF AllAccounted
    <3>1. SetUp(k)
      BY <2>1, NextSetting DEF SetUp, SendSetting
    <3>2. k = l => s \notin Wanted[k]
      BY <1>4 DEF Requested
    <3> QED  BY <1>1, <2>1, <3>1, <3>2, NextSetting
             DEF IInv, AllAccounted, Accounted, SendSetting
  <2>6. (SamplingMeansConfigured /\ WaitsForAnswer)'
    BY <2>1 DEF IInv, SamplingMeansConfigured, WaitsForAnswer, SendSetting
  <2> QED  BY <2>2, <2>3, <2>4, <2>5, <2>6 DEF IInv
<1> QED  BY <1>3, <1>4

LEMMA SettingsSentKeeps ==
  ASSUME IInv, SettingsSent
  PROVE  IInv'
<1>1. TypeOK'
  <2>1. handler' = [at |-> "attitude", lidar |-> handler.lidar, next |-> 1]
    BY DEF IInv, TypeOK, SettingsSent
  <2>2. 1 \in 1 .. (Len(Settings) + 1)
    BY SettingFacts
  <2> QED  BY <2>1, <2>2 DEF IInv, TypeOK, SettingsSent
<1>2. OncePerReport'
  BY DEF IInv, TypeOK, OncePerReport, ToSend, Ahead, SettingsSent
<1>3. (IndexFree /\ SentToIndexed)'
  BY DEF IInv, TypeOK, IndexFree, SentToIndexed, SettingsSent
<1>4. AllAccounted'
  <2>1. \A l, s : ~Ahead(l, s)
    BY SettingFacts DEF Ahead, SettingsSent, IInv, TypeOK
  <2> QED  BY <2>1 DEF IInv, TypeOK, AllAccounted, SetUp, Accounted, SettingsSent
<1>5. (SamplingMeansConfigured /\ WaitsForAnswer)'
  BY DEF IInv, SamplingMeansConfigured, WaitsForAnswer, SettingsSent
<1> QED  BY <1>1, <1>2, <1>3, <1>4, <1>5 DEF IInv

(* The commands after the settings.                                        *)
LEMMA OtherCommandsKeep ==
  ASSUME IInv, NEW l \in Lidars, l = handler.lidar, l \in indexed,
         NEW cs \in SUBSET {"attitude", "work_mode", "imu"}, Send(l, cs),
         \A c \in cs : ToSend(l, c),
         NEW at \in {"idle", "commands"}, handler.at \in {"attitude", "commands"},
         handler' = [handler EXCEPT !.at = at],
         \A c \in Commands : ToSend(l, c)' => c \notin cs /\ ToSend(l, c),
         UNCHANGED <<indexed, set_bits, sampling, device, reports>>
  PROVE  IInv'
<1>1. cs \in SUBSET Commands /\ cs \cap SettingSet = {}
  BY SettingFacts, SettingsAssumption
<1>2. /\ outstanding' \in [Lidars -> [Commands -> Nat]]
      /\ failed' \in [Lidars -> SUBSET Commands]
      /\ \A k \in Lidars : \A c \in Commands :
           /\ outstanding'[k][c] = IF k = l /\ c \in cs THEN outstanding[k][c] + 1
                                                        ELSE outstanding[k][c]
           /\ k # l \/ c \notin cs => (c \in failed'[k] <=> c \in failed[k])
  BY <1>1, SendFacts DEF IInv
<1>3. \A k \in Lidars : \A c \in Commands : outstanding[k][c] \in Nat
  BY ConfigAssumption DEF IInv, TypeOK
<1>4. /\ handler'.at = at
      /\ handler'.lidar = l
      /\ handler'.next = handler.next
  BY DEF IInv, TypeOK
<1>5. \A k, s : ~Ahead(k, s) /\ ~Ahead(k, s)'
  BY <1>4 DEF Ahead
<1>6. OncePerReport'
  <2> SUFFICES ASSUME NEW k \in Lidars, NEW c \in Commands
               PROVE  /\ outstanding'[k][c] <= reports
                      /\ ToSend(k, c)' => outstanding'[k][c] < reports
    BY DEF OncePerReport
  <2>1. CASE k = l /\ c \in cs
    BY <1>2, <1>3, <2>1, ConfigAssumption DEF IInv, TypeOK, OncePerReport
  <2>2. CASE ~(k = l /\ c \in cs)
    <3>1. ToSend(k, c)' => ToSend(k, c)
      BY <1>4, <1>5 DEF ToSend
    <3> QED  BY <1>2, <2>2, <3>1 DEF IInv, OncePerReport
  <2> QED  BY <2>1, <2>2
<1>7. TypeOK'
  <2>1. \A k \in Lidars : \A c \in Commands : outstanding'[k][c] \in 0 .. MaxReports
    BY <1>2, <1>6, ConfigAssumption DEF IInv, TypeOK, OncePerReport
  <2>2. outstanding' \in [Lidars -> [Commands -> 0 .. MaxReports]]
    BY <1>2, <2>1
  <2> QED  BY <1>2, <2>2 DEF IInv, TypeOK
<1>8. (IndexFree /\ SentToIndexed)'
  BY <1>2, <1>4 DEF IInv, IndexFree, SentToIndexed
<1>9. AllAccounted'
  BY <1>1, <1>2, <1>4, <1>5, SettingFacts, ConfigAssumption
  DEF IInv, AllAccounted, SetUp, Accounted
<1>10. WaitsForAnswer'
  BY <1>1, <1>2, SettingFacts DEF IInv, TypeOK, WaitsForAnswer
<1>11. SamplingMeansConfigured'
  BY DEF IInv, SamplingMeansConfigured
<1> QED  BY <1>6, <1>7, <1>8, <1>9, <1>10, <1>11 DEF IInv

LEMMA SendAttitudeKeeps ==
  ASSUME IInv, SendAttitude
  PROVE  IInv'
<1> DEFINE cs == IF handler.lidar \in Configured THEN {"attitude"} ELSE {}
<1>1. /\ handler.lidar \in Lidars /\ handler.lidar \in indexed
      /\ cs \in SUBSET {"attitude", "work_mode", "imu"}
      /\ "commands" \in {"idle", "commands"}
  BY DEF IInv, TypeOK, SentToIndexed, SendAttitude
<1>2. \A c \in cs : ToSend(handler.lidar, c)
  BY SettingsAssumption DEF ToSend, SendAttitude
<1>3. handler'.at = "commands"
  BY DEF IInv, TypeOK, SendAttitude
<1>4. \A c \in Commands : \A l : ToSend(l, c)' => c \in {"work_mode", "imu"}
  BY <1>3 DEF ToSend, Ahead
<1>5. \A c \in Commands : ToSend(handler.lidar, c)' => c \notin cs /\ ToSend(handler.lidar, c)
  BY <1>4, SettingsAssumption DEF ToSend, SendAttitude
<1> QED  BY <1>1, <1>2, <1>5, OtherCommandsKeep DEF SendAttitude

LEMMA SendCommandsKeeps ==
  ASSUME IInv, SendCommands
  PROVE  IInv'
<1>1. /\ handler.lidar \in Lidars /\ handler.lidar \in indexed
      /\ {"work_mode", "imu"} \in SUBSET {"attitude", "work_mode", "imu"}
      /\ "idle" \in {"idle", "commands"}
  BY DEF IInv, TypeOK, SentToIndexed, SendCommands
<1>2. \A c \in {"work_mode", "imu"} : ToSend(handler.lidar, c)
  BY DEF ToSend, SendCommands
<1>3. handler'.at = "idle"
  BY DEF IInv, TypeOK, SendCommands
<1>4. \A c, l : ~ToSend(l, c)'
  BY <1>3 DEF ToSend, Ahead
<1> QED  BY <1>1, <1>2, <1>4, OtherCommandsKeep DEF SendCommands

-----------------------------------------------------------------------------
(* The answers.                                                            *)

(* What every answer leaves to show: an answered setting is no longer      *)
(* waited for, or has failed.                                              *)
LEMMA AnswerKeeps ==
  ASSUME IInv, NEW l \in Lidars, NEW c \in Commands, outstanding[l][c] > 0,
         Answered(l, c), Obey(l, c) \/ UNCHANGED device,
         failed' = failed \/ failed' = [failed EXCEPT ![l] = @ \cup {c}],
         c \notin set_bits'[l] \/ c \in failed'[l],
         set_bits' \in [Lidars -> SUBSET SettingSet],
         \A k \in Lidars : set_bits'[k] \subseteq set_bits[k],
         \A k \in Configured : \A s \in set_bits[k] \ set_bits'[k] : device'[k][s] = "user",
         sampling' \subseteq sampling \cup {l},
         l \in (sampling' \ sampling) \cap Configured
            => \A s \in Wanted[l] : device'[l][s] = "user",
         UNCHANGED <<indexed, handler, reports>>
  PROVE  IInv'
<1>1. /\ outstanding' \in [Lidars -> [Commands -> 0 .. MaxReports]]
      /\ \A k \in Lidars : \A d \in Commands :
           outstanding'[k][d] = IF k = l /\ d = c THEN outstanding[k][d] - 1
                                                  ELSE outstanding[k][d]
  BY AnsweredFacts DEF IInv
<1>2. /\ device' \in [Lidars -> [Commands -> Values]]
      /\ \A k \in Configured : \A d \in Commands :
           device[k][d] = "user" => device'[k][d] = "user"
  BY ObeyFacts DEF IInv
<1>3. \A k \in Lidars : \A d \in Commands : /\ outstanding[k][d] \in Nat
                                            /\ outstanding'[k][d] <= outstanding[k][d]
  BY <1>1, Numbers DEF IInv
<1>4. /\ failed' \in [Lidars -> SUBSET Commands]
      /\ \A k \in Lidars : failed[k] \subseteq failed'[k]
  <2>1. CASE failed' = failed
    BY <2>1 DEF IInv, TypeOK
  <2>2. CASE failed' = [failed EXCEPT ![l] = @ \cup {c}]
    BY <2>2 DEF IInv, TypeOK
  <2> QED  BY <2>1, <2>2
<1>5. l \in indexed
  BY DEF IInv, SentToIndexed
<1>6. TypeOK'
  BY <1>1, <1>2, <1>4, <1>5 DEF IInv, TypeOK
<1>7. OncePerReport'
  <2>1. \A k, d : ToSend(k, d)' <=> ToSend(k, d)
    BY DEF ToSend, Ahead
  <2>2. reports \in Nat
    BY ConfigAssumption DEF IInv, TypeOK
  <2>3. \A k \in Lidars : \A d \in Commands : outstanding'[k][d] \in Nat
    BY <1>1, ConfigAssumption
  <2> QED  BY <1>3, <2>1, <2>2, <2>3 DEF IInv, OncePerReport
<1>8. (IndexFree /\ SentToIndexed)'
  BY <1>1, <1>3 DEF IInv, IndexFree, SentToIndexed
<1>9. AllAccounted'
  <2> SUFFICES ASSUME NEW k \in Configured, SetUp(k)'
               PROVE  Accounted(k)'
    BY DEF AllAccounted
  <2>1. k \in Lidars /\ Wanted[k] \subseteq SettingSet /\ SettingSet \subseteq Commands
    BY ConfigAssumption, SettingFacts
  <2>2. SetUp(k)
    BY <1>1, <1>3, <2>1, ConfigAssumption DEF SetUp
  <2>3. \A s : Ahead(k, s)' <=> Ahead(k, s)
    BY DEF Ahead
  <2> QED  BY <1>2, <2>1, <2>2, <2>3 DEF IInv, AllAccounted, Accounted
<1>10. SamplingMeansConfigured'
  BY <1>2, SettingFacts DEF IInv, SamplingMeansConfigured
<1>11. WaitsForAnswer'
  <2> SUFFICES ASSUME NEW k \in Lidars, NEW s \in set_bits'[k]
               PROVE  outstanding'[k][s] > 0 \/ s \in failed'[k]
    BY DEF WaitsForAnswer
  <2>1. s \in set_bits[k] /\ s \in Commands
    BY SettingFacts DEF IInv, TypeOK
  <2>2. CASE k = l /\ s = c
    BY <2>2
  <2>3. CASE ~(k = l /\ s = c)
    BY <1>1, <1>4, <2>1, <2>3 DEF IInv, WaitsForAnswer
  <2> QED  BY <2>2, <2>3
<1> QED  BY <1>6, <1>7, <1>8, <1>9, <1>10, <1>11 DEF IInv

(* The config_mutex_ keeps the answer from being looked at while the       *)
(* handler is between two settings; afterwards an empty set_bits says that *)
(* every setting of the file has arrived.                                  *)
LEMMA SettingSucceedsKeeps ==
  ASSUME NEW l \in Lidars, NEW s \in SettingSet, IInv, SettingSucceeds(l, s)
  PROVE  IInv'
<1>1. s \in Commands
  BY SettingFacts
<1>2. \A k \in Lidars : set_bits'[k] = IF k = l THEN set_bits[k] \ {s} ELSE set_bits[k]
  BY DEF SettingSucceeds, IInv, TypeOK
<1>3. set_bits' \in [Lidars -> SUBSET SettingSet]
  BY DEF SettingSucceeds, IInv, TypeOK
<1>4. \A k \in Configured : \A d \in Commands : device[k][d] = "user" => device'[k][d] = "user"
  BY <1>1, ObeyFacts DEF SettingSucceeds, IInv
<1>5. l \in Configured => device'[l][s] = "user"
  BY <1>1, ObeyFacts DEF SettingSucceeds, IInv
<1>6. ASSUME l \in (sampling' \ sampling) \cap Configured, NEW c \in Wanted[l]
      PROVE  device'[l][c] = "user"
  <2>1. set_bits'[l] = {}
    BY <1>6 DEF SettingSucceeds
  <2>2. SetUp(l) /\ ~Ahead(l, c)
    BY DEF SetUp, Ahead, SettingSucceeds, ConfigMutexFree
  <2>3. device[l][c] = "user" \/ c \in set_bits[l]
    BY <1>6, <2>2 DEF IInv, AllAccounted, Accounted
  <2>4. c \in Commands
    BY <1>6, SettingFacts
  <2> QED  BY <1>2, <1>4, <1>5, <1>6, <2>1, <2>3, <2>4
<1>7. \A k \in Configured : \A c \in set_bits[k] \ set_bits'[k] : device'[k][c] = "user"
  BY <1>2, <1>5, ConfigAssumption
<1>8. sampling' \subseteq sampling \cup {l}
  BY DEF SettingSucceeds
<1> QED
  BY <1>1, <1>2, <1>3, <1>6, <1>7, <1>8, AnswerKeeps DEF SettingSucceeds

LEMMA CommandSucceedsKeeps ==
  ASSUME NEW l \in Lidars, NEW c \in Commands \ SettingSet, IInv, CommandSucceeds(l, c)
  PROVE  IInv'
<1>1. c \notin set_bits'[l] /\ set_bits' \in [Lidars -> SUBSET SettingSet]
  BY DEF CommandSucceeds, IInv, TypeOK
<1> QED  BY <1>1, AnswerKeeps DEF CommandSucceeds

(* Dropped and failed answers.                                             *)
LEMMA AnswerLostKeeps ==
  ASSUME NEW l \in Lidars, NEW c \in Commands, IInv,
         \/ DeviceNotFound(l, c)
         \/ Fails(l, c) /\ c \notin Retried
         \/ ImuTimesOutSilently(l) /\ c = "imu"
  PROVE  IInv'
<1>1. /\ outstanding[l][c] > 0
      /\ Answered(l, c)
      /\ Obey(l, c) \/ UNCHANGED device
      /\ failed' = [failed EXCEPT ![l] = @ \cup {c}]
      /\ UNCHANGED <<indexed, set_bits, sampling, handler, reports>>
  BY DEF DeviceNotFound, Fails, ImuTimesOutSilently
<1>2. c \in failed'[l] /\ set_bits' \in [Lidars -> SUBSET SettingSet]
  BY <1>1 DEF IInv, TypeOK
<1> QED  BY <1>1, <1>2, AnswerKeeps

(* Commands that are sent again.                                           *)
LEMMA RetryKeeps ==
  ASSUME NEW l \in Lidars, NEW c \in Commands, IInv,
         TimesOut(l, c) \/ (Fails(l, c) /\ c \in Retried)
  PROVE  IInv'
<1>1. /\ Obey(l, c) \/ UNCHANGED device
      /\ UNCHANGED <<indexed, set_bits, sampling, handler, outstanding, failed, reports>>
  BY DEF TimesOut, Fails
<1>2. /\ device' \in [Lidars -> [Commands -> Values]]
      /\ \A k \in Configured : \A d \in Commands :
           device[k][d] = "user" => device'[k][d] = "user"
  BY <1>1, ObeyFacts DEF IInv
<1>3. TypeOK'
  BY <1>1, <1>2 DEF IInv, TypeOK
<1>4. (OncePerReport /\ IndexFree /\ SentToIndexed /\ WaitsForAnswer)'
  BY <1>1 DEF IInv, OncePerReport, ToSend, Ahead, IndexFree, SentToIndexed,
              WaitsForAnswer
<1>5. AllAccounted'
  <2>1. \A k \in Configured : SetUp(k)' <=> SetUp(k)
    BY <1>1 DEF SetUp
  <2>2. \A k, s : Ahead(k, s)' <=> Ahead(k, s)
    BY <1>1 DEF Ahead
  <2> QED  BY <1>1, <1>2, <2>1, <2>2, SettingFacts DEF IInv, AllAccounted, Accounted
<1>6. SamplingMeansConfigured'
  BY <1>1, <1>2, SettingFacts DEF IInv, SamplingMeansConfigured
<1> QED  BY <1>3, <1>4, <1>5, <1>6 DEF IInv

LEMMA IInvStep == IInv /\ [Next]_vars => IInv'
<1> SUFFICES ASSUME IInv, [Next]_vars PROVE IInv'
  OBVIOUS
<1>1. CASE Handler
  BY <1>1, InsertIndexKeeps, SendSettingKeeps, SettingsSentKeeps,
     SendAttitudeKeeps, SendCommandsKeeps DEF Handler
<1>2. ASSUME NEW l \in Lidars, InfoChangeUnknown(l) \/ InfoChangeKnown(l)
      PROVE  IInv'
  BY <1>2, InfoChangeUnknownKeeps, InfoChangeKnownKeeps
<1>3. ASSUME NEW l \in Lidars, ImuTimesOutSilently(l)
      PROVE  IInv'
  BY <1>3, AnswerLostKeeps, SettingFacts
<1>4. ASSUME NEW l \in Lidars, NEW c \in Commands, Succeeds(l, c)
      PROVE  IInv'
  BY <1>4, SettingSucceedsKeeps, CommandSucceedsKeeps DEF Succeeds
<1>5. ASSUME NEW l \in Lidars, NEW c \in Commands,
             TimesOut(l, c) \/ Fails(l, c) \/ DeviceNotFound(l, c)
      PROVE  IInv'
  BY <1>5, AnswerLostKeeps, RetryKeeps
<1>6. CASE UNCHANGED vars
  BY <1>6 DEF vars, IInv, TypeOK, OncePerReport, ToSend, Ahead, IndexFree,
              SentToIndexed, AllAccounted, SetUp, Accounted,
              SamplingMeansConfigured, WaitsForAnswer
<1> QED  BY <1>1, <1>2, <1>3, <1>4, <1>5, <1>6 DEF Next

LEMMA Invariance == Spec => []IInv
<1> QED  BY IInvInit, IInvStep, PTL DEF Spec

-----------------------------------------------------------------------------
(* The theorems.                                                           *)

(* The variables keep their types: no more lidars than the driver has room *)
(* for get an index (cache_index.cpp:35-48), only those sample, and no     *)
(* command is outstanding more often than its lidar was reported.          *)
THEOREM TypeCorrect == Spec => []TypeOK
<1>1. IInv => TypeOK
  BY DEF IInv
<1> QED  BY <1>1, Invariance, PTL

(* Clearing the bits under config_mutex_ and looking whether any is left   *)
(* (livox_lidar_callback.cpp:122-127) makes a lidar of the file sampling   *)
(* only when it has all its settings: for any number of settings, in any   *)
(* order of the answers, however often the lidar is reported again.        *)
THEOREM SamplingLidarsConfigured == Spec => []SamplingMeansConfigured
<1>1. IInv => SamplingMeansConfigured
  BY DEF IInv
<1> QED  BY <1>1, Invariance, PTL

(* A setting that is waited for is one whose answer is still to come,      *)
(* failed or was dropped (livox_lidar_callback.cpp:130-141, 303-317).      *)
THEOREM NoForgottenSetting == Spec => []WaitsForAnswer
<1>1. IInv => WaitsForAnswer
  BY DEF IInv
<1> QED  BY <1>1, Invariance, PTL
=============================================================================
