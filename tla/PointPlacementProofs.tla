------------------------ MODULE PointPlacementProofs ------------------------
(***************************************************************************)
(* Proofs about UserConfig and PointPlacement, for every file, however     *)
(* many entries it has for a lidar and in whatever order, and every point. *)
(***************************************************************************)
EXTENDS PointPlacement, FiniteSetTheorems, SequenceTheorems, TLAPS

Configs == {ParsedConfig(e) : e \in Entries}

(* How far the loops of the parser and of InitLivoxLidar have come.        *)
EntriesRead == CASE step = "frequency" -> 0
                 [] step = "parse"     -> next - 1
                 [] OTHER              -> Len(file)

ConfigsRegistered == CASE step = "register" -> next - 1
                       [] step = "running"  -> Len(user_configs)
                       [] OTHER             -> 0

Shape ==
  /\ file \in Seq(Entries) /\ Len(file) <= MaxEntries
  /\ step \in Steps
  /\ user_configs \in Seq(Configs) /\ Len(user_configs) <= EntriesRead
  /\ step \in {"frequency", "parse"} => next \in 1 .. (Len(file) + 1)
  /\ step = "register" => next \in 1 .. (Len(user_configs) + 1)
  /\ step = "running" => next = Len(user_configs) + 1
  /\ sum \in Nat /\ count \in 0 .. Len(file) /\ publish_freq \in Nat
  /\ step = "frequency" => count <= next - 1
  /\ DOMAIN devices \subseteq Lidars
  /\ IsFiniteSet(DOMAIN devices) /\ Cardinality(DOMAIN devices) <= MaxLidars
  /\ DOMAIN lidar_param = DOMAIN devices
  /\ DOMAIN sent \subseteq DOMAIN devices
  /\ step # "running" => DOMAIN sent = {}

(* Each configuration is that of an entry, and is not the last of its      *)
(* lidar if the entry is not.                                              *)
ConfigsFromFile ==
  \A j \in 1 .. Len(user_configs) : \E i \in 1 .. EntriesRead :
    /\ user_configs[j] = ParsedConfig(file[i])
    /\ file[i].ip # NoIp
    /\ \A m \in (i + 1) .. EntriesRead : file[m].ip = file[i].ip =>
         \E n \in (j + 1) .. Len(user_configs) : user_configs[n].ip = file[i].ip

(* A lidar has the last configuration there is for it.                     *)
DevicesFromConfigs ==
  \A l \in DOMAIN devices : \E j \in 1 .. ConfigsRegistered :
    /\ user_configs[j] = devices[l]
    /\ devices[l].ip = l
    /\ \A n \in (j + 1) .. ConfigsRegistered : user_configs[n].ip # l

ParamsFromDevices == \A l \in DOMAIN devices : lidar_param[l] = ExtParam(devices[l])

SentFromDevices ==
  \A l \in DOMAIN sent :
    /\ DOMAIN sent[l] = {s \in Settings : devices[l][s] # -1}
    /\ \A s \in DOMAIN sent[l] : sent[l][s] = devices[l][s]

ConfigInv == /\ Shape
             /\ ConfigsFromFile
             /\ DevicesFromConfigs
             /\ ParamsFromDevices
             /\ SentFromDevices

-----------------------------------------------------------------------------
(* What an entry becomes.                                                  *)

LEMMA ParsedFields ==
  ASSUME NEW e
  PROVE  /\ \A s \in Settings : ParsedConfig(e)[s] = ParsedSetting(e[s])
         /\ ParsedConfig(e).pcl_data_type = ParsedSetting(e.pcl_data_type)
         /\ ParsedConfig(e).ip = e.ip
         /\ ParsedConfig(e).parent_frame_id = OrDefault(e.parent_frame_id, "base_link")
         /\ ParsedConfig(e).extrinsic_parameter = ParseExtrinsics(e.extrinsic_parameter)
<1> QED  BY DEF ParsedConfig, Settings

(* A setting is parsed to -1 exactly when the file does not have it.       *)
LEMMA ParsedSettings ==
  ASSUME NEW e \in Entries, NEW s \in Settings
  PROVE  /\ ParsedSetting(e[s]) \in -128 .. 127
         /\ ParsedSetting(e[s]) # -1 <=> e[s] # Absent
         /\ e[s] # Absent /\ s # "blind_spot_set" => ParsedSetting(e[s]) = e[s]
<1>1. CASE e[s] = Absent
  BY <1>1 DEF ParsedSetting
<1>2. CASE e[s] # Absent
  <2>1. e[s] \in 0 .. 254 /\ (s # "blind_spot_set" => e[s] \in 0 .. 127)
    <3>1. e["pcl_data_type"] \in {Absent, 1, 2, 3}
      BY EntryAssumption DEF HighData, LowData, SphericalData
    <3>2. \A x \in {"pattern_mode", "dual_emit_en"} : e[x] = Absent \/ e[x] \in 0 .. 127
      BY EntryAssumption
    <3>3. e["blind_spot_set"] = Absent \/ e["blind_spot_set"] \in 0 .. 254
      BY EntryAssumption
    <3> QED  BY <1>2, <3>1, <3>2, <3>3 DEF Settings
  <2>2. ASSUME NEW n \in 0 .. 254
        PROVE  /\ Int8(n) \in -128 .. 127
               /\ Int8(n) # -1
               /\ n <= 127 => Int8(n) = n
    BY DEF Int8
  <2>3. ParsedSetting(e[s]) = Int8(e[s])
    BY <1>2 DEF ParsedSetting
  <2>4. /\ Int8(e[s]) \in -128 .. 127
        /\ Int8(e[s]) # -1
        /\ e[s] <= 127 => Int8(e[s]) = e[s]
    BY <2>1, <2>2
  <2>5. s # "blind_spot_set" => e[s] <= 127
    BY <2>1
  <2> QED  BY <1>2, <2>3, <2>4, <2>5
<1> QED  BY <1>1, <1>2

LEMMA ConfigFacts ==
  ASSUME Shape
  PROVE  /\ Len(file) \in Nat /\ Len(user_configs) \in Nat
         /\ \A i \in 1 .. Len(file) : file[i] \in Entries
         /\ \A j \in 1 .. Len(user_configs) : user_configs[j] \in Configs
<1>1. file \in Seq(Entries) /\ user_configs \in Seq(Configs)
  BY DEF Shape
<1> QED  BY <1>1, LenProperties, ElementOfSeq

-----------------------------------------------------------------------------
(* Initial states.                                                         *)

LEMMA ConfigInit == Init => ConfigInv
<1> SUFFICES ASSUME Init PROVE ConfigInv
  OBVIOUS
<1>1. PICK n \in 0 .. MaxEntries : file \in [1 .. n -> Entries]
  BY DEF Init
<1>2. n \in Nat /\ n <= MaxEntries
  BY UserConfigAssumption
<1>3. file \in Seq(Entries) /\ Len(file) = n
  BY <1>1, <1>2
<1>4. /\ step = "frequency" /\ next = 1
      /\ user_configs = <<>> /\ Len(user_configs) = 0
      /\ DOMAIN devices = {} /\ DOMAIN lidar_param = {} /\ DOMAIN sent = {}
  BY DEF Init
<1>5. Shape
  <2>1. EntriesRead = 0
    BY <1>4 DEF EntriesRead
  <2>2. IsFiniteSet(DOMAIN devices) /\ Cardinality(DOMAIN devices) <= MaxLidars
    BY <1>4, FS_EmptySet, UserConfigAssumption
  <2>3. user_configs \in Seq(Configs)
    BY <1>4
  <2>4. sum = 0 /\ count = 0 /\ publish_freq = 0
    BY DEF Init
  <2> QED  BY <1>2, <1>3, <1>4, <2>1, <2>2, <2>3, <2>4 DEF Shape, Steps
<1>6. ConfigsFromFile
  BY <1>4 DEF ConfigsFromFile
<1>7. DevicesFromConfigs /\ ParamsFromDevices /\ SentFromDevices
  BY <1>4 DEF DevicesFromConfigs, ParamsFromDevices, SentFromDevices
<1> QED  BY <1>5, <1>6, <1>7 DEF ConfigInv

-----------------------------------------------------------------------------
(* Steps.                                                                  *)

(* The frequency is computed before the first entry is parsed, from which  *)
(* it is independent.                                                      *)
LEMMA FrequencyKeeps ==
  ASSUME ConfigInv, AddFrequency \/ GetPublishFreqFromConfig
  PROVE  ConfigInv'
<1>1. /\ step = "frequency" /\ step' \in {"frequency", "parse"}
      /\ UNCHANGED <<file, user_configs, devices, lidar_param, sent>>
  BY DEF AddFrequency, GetPublishFreqFromConfig
<1>2. EntriesRead = 0 /\ Len(user_configs) = 0
  BY <1>1, ConfigFacts DEF EntriesRead, ConfigInv, Shape
<1>3. ConfigsRegistered = 0 /\ ConfigsRegistered' = 0
  BY <1>1 DEF ConfigsRegistered
<1>4. /\ Len(file) \in Nat /\ next \in 1 .. (Len(file) + 1)
      /\ sum \in Nat /\ count \in 0 .. Len(file) /\ count <= next - 1
      /\ publish_freq \in Nat
  BY <1>1, ConfigFacts DEF ConfigInv, Shape
<1>5. /\ EntriesRead' = 0
      /\ next' \in 1 .. (Len(file) + 1)
      /\ sum' \in Nat /\ count' \in 0 .. Len(file) /\ publish_freq' \in Nat
      /\ step' = "frequency" => count' <= next' - 1
  <2>1. CASE AddFrequency
    <3>1. next \in 1 .. Len(file) /\ next' = next + 1 /\ UNCHANGED <<step, publish_freq>>
      BY <1>4, <2>1 DEF AddFrequency
    <3>2. file[next].publish_frq = Absent \/ file[next].publish_frq \in Nat
      BY <3>1, ConfigFacts, EntryAssumption DEF ConfigInv
    <3>3. \/ UNCHANGED <<sum, count>>
          \/ sum' \in Nat /\ count' = count + 1
      BY <1>4, <2>1, <3>2 DEF AddFrequency
    <3>4. EntriesRead' = 0
      BY <1>1, <3>1 DEF EntriesRead
    <3> QED  BY <1>4, <3>1, <3>3, <3>4
  <2>2. CASE GetPublishFreqFromConfig
    <3>1. /\ next' = 1 /\ step' = "parse" /\ UNCHANGED <<sum, count>>
          /\ \/ count > 0 /\ publish_freq' = sum \div count
             \/ publish_freq' = 10 * FreqUnit
             \/ publish_freq' \in RootFreqs
      BY <2>2 DEF GetPublishFreqFromConfig
    <3>2. count > 0 => sum \div count \in Nat
      BY <1>4, Z3
    <3>3. 10 * FreqUnit \in Nat /\ RootFreqs \subseteq Nat
      BY UserConfigAssumption
    <3>4. EntriesRead' = 0
      BY <3>1 DEF EntriesRead
    <3>5. publish_freq' \in Nat
      BY <3>1, <3>2, <3>3
    <3> QED  BY <1>4, <3>1, <3>4, <3>5
  <2> QED  BY <2>1, <2>2
<1>6. Shape'
  BY <1>1, <1>2, <1>4, <1>5 DEF ConfigInv, Shape, Steps
<1>7. ConfigsFromFile'
  BY <1>1, <1>2 DEF ConfigsFromFile
<1>8. DevicesFromConfigs'
  BY <1>1, <1>3 DEF ConfigInv, DevicesFromConfigs
<1>9. (ParamsFromDevices /\ SentFromDevices)'
  BY <1>1 DEF ConfigInv, ParamsFromDevices, SentFromDevices
<1> QED  BY <1>6, <1>7, <1>8, <1>9 DEF ConfigInv

LEMMA ParseUserConfigKeeps ==
  ASSUME ConfigInv, ParseUserConfig
  PROVE  ConfigInv'
<1> DEFINE e == file[next]
           k == Len(user_configs)
<1>1. /\ step = "parse" /\ next \in 1 .. Len(file) /\ next' = next + 1
      /\ UNCHANGED <<file, step, sum, count, publish_freq, devices, lidar_param, sent>>
      /\ user_configs' = IF e.ip = NoIp THEN user_configs
                                        ELSE Append(user_configs, ParsedConfig(e))
  BY ConfigFacts DEF ParseUserConfig, average, ConfigInv, Shape
<1>2. EntriesRead = next - 1 /\ EntriesRead' = next
  BY <1>1 DEF EntriesRead
<1>3. ConfigsRegistered = 0 /\ ConfigsRegistered' = 0
  BY <1>1 DEF ConfigsRegistered
<1>4. /\ k \in Nat /\ Len(file) \in Nat /\ next \in Nat
      /\ e \in Entries /\ ParsedConfig(e) \in Configs
      /\ user_configs \in Seq(Configs) /\ k <= next - 1
      /\ ParsedConfig(e).ip = e.ip
  BY <1>1, <1>2, ConfigFacts, ParsedFields DEF ConfigInv, Shape, Configs
<1>5. CASE e.ip = NoIp
  <2>1. user_configs' = user_configs
    BY <1>1, <1>5
  <2>2. Shape'
    BY <1>1, <1>2, <1>4, <2>1 DEF ConfigInv, Shape, Steps
  <2>3. ConfigsFromFile'
    <3> SUFFICES ASSUME NEW j \in 1 .. k
                 PROVE  \E i \in 1 .. next :
                          /\ user_configs[j] = ParsedConfig(file[i])
                          /\ file[i].ip # NoIp
                          /\ \A m \in (i + 1) .. next : file[m].ip = file[i].ip =>
                               \E n \in (j + 1) .. k : user_configs[n].ip = file[i].ip
      BY <1>1, <1>2, <2>1 DEF ConfigsFromFile
    <3>1. PICK i \in 1 .. (next - 1) :
            /\ user_configs[j] = ParsedConfig(file[i])
            /\ file[i].ip # NoIp
            /\ \A m \in (i + 1) .. (next - 1) : file[m].ip = file[i].ip =>
                 \E n \in (j + 1) .. k : user_configs[n].ip = file[i].ip
      BY <1>2 DEF ConfigInv, ConfigsFromFile
    <3>2. i \in 1 .. next /\ file[next].ip # file[i].ip
      BY <1>4, <1>5, <3>1
    <3>3. \A m \in (i + 1) .. next : m \in (i + 1) .. (next - 1) \/ m = next
      BY <1>4
    <3> QED  BY <3>1, <3>2, <3>3
  <2>4. (DevicesFromConfigs /\ ParamsFromDevices /\ SentFromDevices)'
    <3>1. DevicesFromConfigs'
      BY <1>1, <1>3, <2>1 DEF ConfigInv, DevicesFromConfigs
    <3>2. (ParamsFromDevices /\ SentFromDevices)'
      BY <1>1 DEF ConfigInv, ParamsFromDevices, SentFromDevices
    <3> QED  BY <3>1, <3>2
  <2> QED  BY <2>2, <2>3, <2>4 DEF ConfigInv
<1>6. CASE e.ip # NoIp
  <2> DEFINE c == ParsedConfig(e)
  <2>1. user_configs' = Append(user_configs, c)
    BY <1>1, <1>6
  <2>2. /\ user_configs' \in Seq(Configs) /\ Len(user_configs') = k + 1
        /\ \A j \in 1 .. k : user_configs'[j] = user_configs[j]
        /\ user_configs'[k + 1] = c
    BY <1>4, <2>1, AppendProperties
  <2>3. Shape'
    BY <1>1, <1>2, <1>4, <2>2 DEF ConfigInv, Shape, Steps
  <2>4. ConfigsFromFile'
    <3> SUFFICES ASSUME NEW j \in 1 .. (k + 1)
                 PROVE  \E i \in 1 .. next :
                          /\ user_configs'[j] = ParsedConfig(file[i])
                          /\ file[i].ip # NoIp
                          /\ \A m \in (i + 1) .. next : file[m].ip = file[i].ip =>
                               \E n \in (j + 1) .. (k + 1) : user_configs'[n].ip = file[i].ip
      BY <1>1, <1>2, <2>2 DEF ConfigsFromFile
    <3>1. CASE j = k + 1
      <4>1. next \in 1 .. next /\ (next + 1) .. next = {}
        BY <1>1, <1>4
      <4> DEFINE Source(i) ==
            /\ user_configs'[j] = ParsedConfig(file[i])
            /\ file[i].ip # NoIp
            /\ \A m \in (i + 1) .. next : file[m].ip = file[i].ip =>
                 \E n \in (j + 1) .. (k + 1) : user_configs'[n].ip = file[i].ip
      <4>2. Source(next)
        BY <1>6, <2>2, <3>1, <4>1
      <4> HIDE DEF Source
      <4>3. \E i \in 1 .. next : Source(i)
        BY <4>1, <4>2
      <4> QED  BY <4>3 DEF Source
    <3>2. CASE j \in 1 .. k
      <4>1. PICK i \in 1 .. (next - 1) :
              /\ user_configs[j] = ParsedConfig(file[i])
              /\ file[i].ip # NoIp
              /\ \A m \in (i + 1) .. (next - 1) : file[m].ip = file[i].ip =>
                   \E n \in (j + 1) .. k : user_configs[n].ip = file[i].ip
        BY <1>2, <3>2 DEF ConfigInv, ConfigsFromFile
      <4>2. ASSUME NEW m \in (i + 1) .. next, file[m].ip = file[i].ip
            PROVE  \E n \in (j + 1) .. (k + 1) : user_configs'[n].ip = file[i].ip
        <5>1. CASE m = next
          <6>1. k + 1 \in (j + 1) .. (k + 1)
            BY <1>4, <3>2
          <6>2. user_configs'[k + 1].ip = file[i].ip
            BY <1>4, <2>2, <4>2, <5>1
          <6> QED  BY <6>1, <6>2
        <5>2. CASE m # next
          <6>1. m \in (i + 1) .. (next - 1)
            BY <1>4, <5>2
          <6>2. PICK n \in (j + 1) .. k : user_configs[n].ip = file[i].ip
            BY <4>1, <4>2, <6>1
          <6>3. n \in 1 .. k /\ n \in (j + 1) .. (k + 1)
            BY <1>4, <3>2
          <6> QED  BY <2>2, <6>2, <6>3
        <5> QED  BY <5>1, <5>2
      <4>3. i \in 1 .. next /\ user_configs'[j] = ParsedConfig(file[i])
        BY <1>4, <2>2, <3>2, <4>1
      <4> QED  BY <4>1, <4>2, <4>3
    <3>3. j = k + 1 \/ j \in 1 .. k
      BY <1>4
    <3> QED  BY <3>1, <3>2, <3>3
  <2>5. DevicesFromConfigs'
    BY <1>1, <1>3 DEF ConfigInv, DevicesFromConfigs
  <2>6. (ParamsFromDevices /\ SentFromDevices)'
    BY <1>1 DEF ConfigInv, ParamsFromDevices, SentFromDevices
  <2> QED  BY <2>3, <2>4, <2>5, <2>6 DEF ConfigInv
<1> QED  BY <1>5, <1>6

(* Going from one loop to the next, or to the running driver.              *)
LEMMA PhaseKeeps ==
  ASSUME ConfigInv, ParseDone \/ RegisterDone
  PROVE  ConfigInv'
<1>1. UNCHANGED <<file, sum, count, publish_freq, user_configs, devices, lidar_param, sent>>
  BY DEF ParseDone, RegisterDone, average
<1>2. Len(file) \in Nat /\ Len(user_configs) \in Nat
  BY ConfigFacts DEF ConfigInv
<1>3. EntriesRead = Len(file) /\ EntriesRead' = Len(file)
  BY <1>1, <1>2 DEF ParseDone, RegisterDone, EntriesRead, ConfigInv, Shape
<1>4. ConfigsRegistered' = ConfigsRegistered
  BY <1>1, <1>2 DEF ParseDone, RegisterDone, ConfigsRegistered, ConfigInv, Shape
<1>5. Shape'
  <2>1. CASE ParseDone
    BY <1>1, <1>2, <1>3, <2>1 DEF ParseDone, ConfigInv, Shape, Steps
  <2>2. CASE RegisterDone
    BY <1>1, <1>2, <1>3, <2>2 DEF RegisterDone, ConfigInv, Shape, Steps
  <2> QED  BY <2>1, <2>2
<1>6. ConfigsFromFile'
  BY <1>1, <1>3 DEF ConfigInv, ConfigsFromFile
<1>7. DevicesFromConfigs'
  BY <1>1, <1>4 DEF ConfigInv, DevicesFromConfigs
<1>8. (ParamsFromDevices /\ SentFromDevices)'
  BY <1>1 DEF ConfigInv, ParamsFromDevices, SentFromDevices
<1> QED  BY <1>5, <1>6, <1>7, <1>8 DEF ConfigInv

LEMMA RegisterLidarKeeps ==
  ASSUME ConfigInv, RegisterLidar
  PROVE  ConfigInv'
<1> DEFINE c == user_configs[next]
           l == c.ip
<1>1. /\ step = "register" /\ next \in 1 .. Len(user_configs) /\ next' = next + 1
      /\ UNCHANGED <<file, step, sum, count, publish_freq, user_configs, sent>>
  BY ConfigFacts DEF RegisterLidar, average, ConfigInv, Shape
<1>2. EntriesRead = Len(file) /\ EntriesRead' = Len(file)
  BY <1>1 DEF EntriesRead
<1>3. ConfigsRegistered = next - 1 /\ ConfigsRegistered' = next
  BY <1>1 DEF ConfigsRegistered
<1>4. /\ Len(file) \in Nat /\ Len(user_configs) \in Nat /\ next \in Nat
      /\ DOMAIN sent = {} /\ DOMAIN sent' = {}
  BY <1>1, ConfigFacts DEF ConfigInv, Shape
<1>5. l \in Lidars
  <2>1. PICK i \in 1 .. Len(file) : c = ParsedConfig(file[i]) /\ file[i].ip # NoIp
    BY <1>1, <1>2 DEF ConfigInv, ConfigsFromFile
  <2>2. file[i] \in Entries /\ l = file[i].ip
    BY <2>1, ConfigFacts, ParsedFields DEF ConfigInv
  <2> QED  BY <2>1, <2>2 DEF Lidars
<1> HIDE DEF c, l
<1>6. CASE l \in DOMAIN devices \/ Cardinality(DOMAIN devices) < MaxLidars
  <2>1. devices' = Put(devices, l, c) /\ lidar_param' = Put(lidar_param, l, ExtParam(c))
    BY <1>6 DEF RegisterLidar, c, l
  <2>2. /\ DOMAIN devices' = DOMAIN devices \cup {l}
        /\ \A m \in DOMAIN devices' : devices'[m] = IF m = l THEN c ELSE devices[m]
    BY <2>1 DEF Put
  <2>3. /\ DOMAIN lidar_param' = DOMAIN devices \cup {l}
        /\ \A m \in DOMAIN devices' :
             lidar_param'[m] = IF m = l THEN ExtParam(c) ELSE lidar_param[m]
    BY <2>1, <2>2 DEF Put, ConfigInv, Shape
  <2>4. Shape'
    <3>1. IsFiniteSet(DOMAIN devices') /\ Cardinality(DOMAIN devices') <= MaxLidars
      <4>1. IsFiniteSet(DOMAIN devices) /\ Cardinality(DOMAIN devices) <= MaxLidars
        BY DEF ConfigInv, Shape
      <4>2. Cardinality(DOMAIN devices) \in Nat /\ MaxLidars \in Nat
        BY <4>1, FS_CardinalityType, UserConfigAssumption
      <4>3. /\ IsFiniteSet(DOMAIN devices \cup {l})
            /\ Cardinality(DOMAIN devices \cup {l}) =
                 IF l \in DOMAIN devices THEN Cardinality(DOMAIN devices)
                                         ELSE Cardinality(DOMAIN devices) + 1
        BY <4>1, FS_AddElement
      <4>4. Cardinality(DOMAIN devices \cup {l}) <= MaxLidars
        BY <1>6, <4>1, <4>2, <4>3
      <4> QED  BY <2>2, <4>3, <4>4
    <3>2. DOMAIN devices' \subseteq Lidars /\ DOMAIN lidar_param' = DOMAIN devices'
      BY <1>5, <2>2, <2>3 DEF ConfigInv, Shape, Lidars
    <3> QED  BY <1>1, <1>2, <1>4, <3>1, <3>2 DEF ConfigInv, Shape, Steps
  <2>5. DevicesFromConfigs'
    <3> SUFFICES ASSUME NEW m \in DOMAIN devices'
                 PROVE  \E j \in 1 .. next :
                          /\ user_configs[j] = devices'[m]
                          /\ devices'[m].ip = m
                          /\ \A n \in (j + 1) .. next : user_configs[n].ip # m
      BY <1>1, <1>3 DEF DevicesFromConfigs
    <3>1. CASE m = l
      <4>1. next \in 1 .. next /\ (next + 1) .. next = {}
        BY <1>1, <1>4
      <4>2. user_configs[next] = devices'[m] /\ devices'[m].ip = m
        BY <2>2, <3>1 DEF c, l
      <4> QED  BY <4>1, <4>2
    <3>2. CASE m # l
      <4>1. m \in DOMAIN devices /\ devices'[m] = devices[m]
        BY <2>2, <3>2
      <4>2. PICK j \in 1 .. (next - 1) :
              /\ user_configs[j] = devices[m]
              /\ devices[m].ip = m
              /\ \A n \in (j + 1) .. (next - 1) : user_configs[n].ip # m
        BY <1>3, <4>1 DEF ConfigInv, DevicesFromConfigs
      <4>3. \A n \in (j + 1) .. next : n \in (j + 1) .. (next - 1) \/ n = next
        BY <1>4
      <4>4. user_configs[next].ip # m
        BY <3>2 DEF c, l
      <4>5. j \in 1 .. next
        BY <1>4
      <4> QED  BY <4>1, <4>2, <4>3, <4>4, <4>5
    <3> QED  BY <3>1, <3>2
  <2>6. ParamsFromDevices'
    <3> SUFFICES ASSUME NEW m \in DOMAIN devices'
                 PROVE  lidar_param'[m] = ExtParam(devices'[m])
      BY DEF ParamsFromDevices
    <3>1. CASE m = l
      BY <2>2, <2>3, <3>1
    <3>2. CASE m # l
      BY <2>2, <2>3, <3>2 DEF ConfigInv, ParamsFromDevices
    <3> QED  BY <3>1, <3>2
  <2>7. ConfigsFromFile' /\ SentFromDevices'
    BY <1>1, <1>2, <1>4 DEF ConfigInv, ConfigsFromFile, SentFromDevices
  <2> QED  BY <2>4, <2>5, <2>6, <2>7 DEF ConfigInv
<1>7. CASE ~(l \in DOMAIN devices \/ Cardinality(DOMAIN devices) < MaxLidars)
  <2>1. UNCHANGED <<devices, lidar_param>> /\ l \notin DOMAIN devices
    BY <1>7 DEF RegisterLidar, c, l
  <2>2. Shape'
    BY <1>1, <1>2, <1>4, <2>1 DEF ConfigInv, Shape, Steps
  <2>3. DevicesFromConfigs'
    <3> SUFFICES ASSUME NEW m \in DOMAIN devices
                 PROVE  \E j \in 1 .. next :
                          /\ user_configs[j] = devices[m]
                          /\ devices[m].ip = m
                          /\ \A n \in (j + 1) .. next : user_configs[n].ip # m
      BY <1>1, <1>3, <2>1 DEF DevicesFromConfigs
    <3>1. PICK j \in 1 .. (next - 1) :
            /\ user_configs[j] = devices[m]
            /\ devices[m].ip = m
            /\ \A n \in (j + 1) .. (next - 1) : user_configs[n].ip # m
      BY <1>3 DEF ConfigInv, DevicesFromConfigs
    <3>2. \A n \in (j + 1) .. next : n \in (j + 1) .. (next - 1) \/ n = next
      BY <1>4
    <3>3. user_configs[next].ip # m
      BY <2>1 DEF c, l
    <3>4. j \in 1 .. next
      BY <1>4
    <3> QED  BY <3>1, <3>2, <3>3, <3>4
  <2>4. (ConfigsFromFile /\ ParamsFromDevices /\ SentFromDevices)'
    BY <1>1, <1>2, <1>4, <2>1 DEF ConfigInv, ConfigsFromFile, ParamsFromDevices, SentFromDevices
  <2> QED  BY <2>2, <2>3, <2>4 DEF ConfigInv
<1> QED  BY <1>6, <1>7

LEMMA SendSettingsKeeps ==
  ASSUME NEW l \in Lidars, ConfigInv, SendSettings(l)
  PROVE  ConfigInv'
<1>1. /\ step = "running" /\ l \in DOMAIN devices
      /\ UNCHANGED <<file, step, sum, count, publish_freq, user_configs, next, devices, lidar_param>>
  BY DEF SendSettings, average
<1>2. EntriesRead' = EntriesRead /\ ConfigsRegistered' = ConfigsRegistered
  BY <1>1 DEF EntriesRead, ConfigsRegistered
<1> DEFINE named == {s \in Settings : devices[l][s] # -1}
           mine  == [s \in named |-> devices[l][s]]
<1>3. sent' = Put(sent, l, mine)
  BY DEF SendSettings
<1>4. DOMAIN mine = named /\ \A s \in named : mine[s] = devices[l][s]
  OBVIOUS
<1> HIDE DEF mine
<1>5. /\ DOMAIN sent' = DOMAIN sent \cup {l}
      /\ \A k \in DOMAIN sent' : sent'[k] = IF k = l THEN mine ELSE sent[k]
  BY <1>3 DEF Put
<1>6. Shape'
  BY <1>1, <1>2, <1>5 DEF ConfigInv, Shape
<1>7. SentFromDevices'
  <2> SUFFICES ASSUME NEW k \in DOMAIN sent'
               PROVE  /\ DOMAIN sent'[k] = {s \in Settings : devices[k][s] # -1}
                      /\ \A s \in DOMAIN sent'[k] : sent'[k][s] = devices[k][s]
    BY <1>1 DEF SentFromDevices
  <2>1. CASE k = l
    BY <1>4, <1>5, <2>1
  <2>2. CASE k # l
    BY <1>5, <2>2 DEF ConfigInv, SentFromDevices
  <2> QED  BY <2>1, <2>2
<1>8. (ConfigsFromFile /\ DevicesFromConfigs /\ ParamsFromDevices)'
  <2>1. ConfigsFromFile'
    <3>1. UNCHANGED <<file, user_configs>> /\ EntriesRead' = EntriesRead
      BY <1>1, <1>2
    <3> QED  BY <3>1 DEF ConfigInv, ConfigsFromFile
  <2>2. DevicesFromConfigs'
    BY <1>1, <1>2 DEF ConfigInv, DevicesFromConfigs
  <2>3. ParamsFromDevices'
    BY <1>1 DEF ConfigInv, ParamsFromDevices
  <2> QED  BY <2>1, <2>2, <2>3
<1> QED  BY <1>6, <1>7, <1>8 DEF ConfigInv

LEMMA ConfigUntouched == ConfigInv /\ UNCHANGED vars => ConfigInv'
<1> SUFFICES ASSUME ConfigInv, UNCHANGED vars PROVE ConfigInv'
  OBVIOUS
<1>1. EntriesRead' = EntriesRead /\ ConfigsRegistered' = ConfigsRegistered
  BY DEF vars, EntriesRead, ConfigsRegistered
<1>2. Shape'
  BY <1>1 DEF vars, average, ConfigInv, Shape
<1>3. (ConfigsFromFile /\ DevicesFromConfigs)'
  BY <1>1 DEF vars, ConfigInv, ConfigsFromFile, DevicesFromConfigs
<1>4. (ParamsFromDevices /\ SentFromDevices)'
  BY DEF vars, ConfigInv, ParamsFromDevices, SentFromDevices
<1> QED  BY <1>2, <1>3, <1>4 DEF ConfigInv

LEMMA ConfigStep == ConfigInv /\ [Next]_vars => ConfigInv'
<1> QED  BY ConfigUntouched, FrequencyKeeps, ParseUserConfigKeeps, PhaseKeeps,
            RegisterLidarKeeps, SendSettingsKeeps DEF Next

-----------------------------------------------------------------------------
(* The entry that counts.                                                  *)

(* Once the driver runs, a lidar has the configuration of its last entry.  *)
LEMMA DeviceOfEntry ==
  ASSUME ConfigInv, step = "running", NEW l \in DOMAIN devices
  PROVE  EntryOf(l) \in Entries /\ devices[l] = ParsedConfig(EntryOf(l))
<1> DEFINE mine == {i \in 1 .. Len(file) : file[i].ip = l}
<1>1. EntriesRead = Len(file) /\ ConfigsRegistered = Len(user_configs)
  BY DEF EntriesRead, ConfigsRegistered
<1>2. PICK j \in 1 .. Len(user_configs) :
        /\ user_configs[j] = devices[l]
        /\ devices[l].ip = l
        /\ \A n \in (j + 1) .. Len(user_configs) : user_configs[n].ip # l
  BY <1>1 DEF ConfigInv, DevicesFromConfigs
<1>3. PICK i \in 1 .. Len(file) :
        /\ user_configs[j] = ParsedConfig(file[i])
        /\ \A m \in (i + 1) .. Len(file) : file[m].ip = file[i].ip =>
             \E n \in (j + 1) .. Len(user_configs) : user_configs[n].ip = file[i].ip
  BY <1>1 DEF ConfigInv, ConfigsFromFile
<1>4. file[i].ip = l
  BY <1>2, <1>3, ParsedFields
<1>5. Len(file) \in Nat /\ file[i] \in Entries
  BY <1>3, ConfigFacts DEF ConfigInv
<1>6. i \in mine /\ \A m \in mine : m <= i
  BY <1>2, <1>3, <1>4, <1>5
<1> DEFINE last == CHOOSE n \in mine : \A m \in mine : m <= n
<1>7. last \in mine /\ \A m \in mine : m <= last
  BY <1>6
<1>8. last = i
  BY <1>5, <1>6, <1>7
<1>9. EntryOf(l) = file[last]
  BY DEF EntryOf
<1> QED  BY <1>2, <1>3, <1>5, <1>8, <1>9

LEMMA SettingsFollow == ConfigInv => SettingsAsNamed
<1> SUFFICES ASSUME ConfigInv, NEW l \in DOMAIN sent
             PROVE  /\ DOMAIN sent[l] = {s \in Settings : EntryOf(l)[s] # Absent}
                    /\ \A s \in DOMAIN sent[l] \ {"blind_spot_set"} : sent[l][s] = EntryOf(l)[s]
  BY DEF SettingsAsNamed
<1>1. step = "running" /\ l \in DOMAIN devices
  BY DEF ConfigInv, Shape
<1>2. PICK e \in Entries : e = EntryOf(l) /\ devices[l] = ParsedConfig(e)
  BY <1>1, DeviceOfEntry
<1>3. ASSUME NEW s \in Settings
      PROVE  /\ devices[l][s] # -1 <=> e[s] # Absent
             /\ e[s] # Absent /\ s # "blind_spot_set" => devices[l][s] = e[s]
  BY <1>2, ParsedFields, ParsedSettings
<1>4. /\ DOMAIN sent[l] = {s \in Settings : devices[l][s] # -1}
      /\ \A s \in DOMAIN sent[l] : sent[l][s] = devices[l][s]
  BY DEF ConfigInv, SentFromDevices
<1>5. DOMAIN sent[l] = {s \in Settings : e[s] # Absent}
  BY <1>3, <1>4
<1>6. \A s \in DOMAIN sent[l] \ {"blind_spot_set"} : sent[l][s] = e[s]
  BY <1>3, <1>4, <1>5
<1> QED  BY <1>2, <1>5, <1>6

-----------------------------------------------------------------------------
(* Rotations.                                                              *)

LEMMA Trigonometry ==
  ASSUME NEW deg
  PROVE  Cos(deg) \in Int /\ Sin(deg) \in Int
<1> QED  BY DEF Cos, Sin

(* The matrix of the driver is the rotation that tf2 makes of the angles.  *)
LEMMA SameRotation ==
  ASSUME NEW ext, NEW i \in Axes, NEW j \in Axes
  PROVE  Rotation(ext)[i][j] \in Int /\ RPY(ext)[i][j] = Rotation(ext)[i][j]
<1> DEFINE cr == Cos(ext.roll)  sr == Sin(ext.roll)
           cp == Cos(ext.pitch) sp == Sin(ext.pitch)
           cy == Cos(ext.yaw)   sy == Sin(ext.yaw)
           R == << <<cp * cy, sr * sp * cy - cr * sy, cr * sp * cy + sr * sy>>,
                   <<cp * sy, sr * sp * sy + cr * cy, cr * sp * sy - sr * cy>>,
                   <<-sp, sr * cp, cr * cp>> >>
           X == << <<1, 0, 0>>, <<0, cr, -sr>>, <<0, sr, cr>> >>
           Y == << <<cp, 0, sp>>, <<0, 1, 0>>, <<-sp, 0, cp>> >>
           Z == << <<cy, -sy, 0>>, <<sy, cy, 0>>, <<0, 0, 1>> >>
           YX == << <<cp, sp * sr, sp * cr>>, <<0, cr, -sr>>, <<-sp, cp * sr, cp * cr>> >>
<1>1. /\ cr \in Int /\ sr \in Int /\ cp \in Int /\ sp \in Int /\ cy \in Int /\ sy \in Int
  BY Trigonometry
<1>2. Rotation(ext) = R /\ RPY(ext) = Times(Z, Times(Y, X))
  BY DEF Rotation, RPY
<1> HIDE DEF cr, sr, cp, sp, cy, sy
<1>3. 1 \in Axes /\ 2 \in Axes /\ 3 \in Axes /\ Axes = {1, 2, 3}
  BY DEF Axes
<1>4. ASSUME NEW a \in Axes, NEW b \in Axes
      PROVE  Times(Y, X)[a][b] = YX[a][b]
  <2>1. Times(Y, X)[a][b] = Y[a][1] * X[1][b] + Y[a][2] * X[2][b] + Y[a][3] * X[3][b]
    BY DEF Times
  <2>2. CASE a = 1
    BY <1>1, <1>3, <2>1, <2>2, Z3
  <2>3. CASE a = 2
    BY <1>1, <1>3, <2>1, <2>3, Z3
  <2>4. CASE a = 3
    BY <1>1, <1>3, <2>1, <2>4, Z3
  <2> QED  BY <1>3, <2>2, <2>3, <2>4
<1>5. RPY(ext)[i][j] = Z[i][1] * YX[1][j] + Z[i][2] * YX[2][j] + Z[i][3] * YX[3][j]
  <2> DEFINE T == Times(Y, X)
  <2> HIDE DEF T, Z, YX
  <2>1. Times(Z, T)[i][j] = Z[i][1] * T[1][j] + Z[i][2] * T[2][j] + Z[i][3] * T[3][j]
    BY DEF Times
  <2>2. T[1][j] = YX[1][j] /\ T[2][j] = YX[2][j] /\ T[3][j] = YX[3][j]
    BY <1>3, <1>4 DEF T
  <2>3. RPY(ext) = Times(Z, T)
    BY <1>2 DEF T
  <2> QED  BY <2>1, <2>2, <2>3
<1> DEFINE claim == R[i][j] \in Int
                    /\ R[i][j] = Z[i][1] * YX[1][j] + Z[i][2] * YX[2][j] + Z[i][3] * YX[3][j]
<1>6. ASSUME j = 1 PROVE claim
  BY <1>1, <1>3, <1>6, Z3
<1>7. ASSUME j = 2 PROVE claim
  BY <1>1, <1>3, <1>7, Z3
<1>8. ASSUME j = 3 PROVE claim
  BY <1>1, <1>3, <1>8, Z3
<1> HIDE DEF R, Z, YX
<1> QED  BY <1>2, <1>3, <1>5, <1>6, <1>7, <1>8

(* Turning and rescaling commute.                                          *)
LEMMA TurnedTypes ==
  ASSUME NEW ext, NEW v, \A i \in Axes : v[i] \in Int
  PROVE  /\ \A i \in Axes : Turned(Rotation(ext), v)[i] \in Int
         /\ \A i \in Axes : Turned(RPY(ext), v)[i] = Turned(Rotation(ext), v)[i]
         /\ \A i \in Axes : Turned(RPY(ext), Scaled(10, v))[i] =
                              10 * Turned(Rotation(ext), v)[i]
<1> SUFFICES ASSUME NEW i \in Axes
             PROVE  /\ Turned(Rotation(ext), v)[i] \in Int
                    /\ Turned(RPY(ext), v)[i] = Turned(Rotation(ext), v)[i]
                    /\ Turned(RPY(ext), Scaled(10, v))[i] = 10 * Turned(Rotation(ext), v)[i]
  OBVIOUS
<1>1. 1 \in Axes /\ 2 \in Axes /\ 3 \in Axes
  BY DEF Axes
<1> DEFINE A == Rotation(ext)
           B == RPY(ext)
<1>2. \A j \in Axes : A[i][j] \in Int /\ B[i][j] = A[i][j]
  BY SameRotation
<1> HIDE DEF A, B
<1>3. /\ A[i][1] \in Int /\ A[i][2] \in Int /\ A[i][3] \in Int
      /\ B[i][1] = A[i][1] /\ B[i][2] = A[i][2] /\ B[i][3] = A[i][3]
      /\ v[1] \in Int /\ v[2] \in Int /\ v[3] \in Int
  BY <1>1, <1>2
<1>4. /\ Turned(A, v)[i] = A[i][1] * v[1] + A[i][2] * v[2] + A[i][3] * v[3]
      /\ Turned(B, v)[i] = B[i][1] * v[1] + B[i][2] * v[2] + B[i][3] * v[3]
  BY DEF Turned
<1>5. Turned(B, Scaled(10, v))[i] =
        B[i][1] * (10 * v[1]) + B[i][2] * (10 * v[2]) + B[i][3] * (10 * v[3])
  BY <1>1 DEF Turned, Scaled
<1>6. /\ Turned(A, v)[i] \in Int
      /\ Turned(B, v)[i] = Turned(A, v)[i]
      /\ Turned(B, Scaled(10, v))[i] = 10 * Turned(A, v)[i]
  BY <1>3, <1>4, <1>5, Z3
<1> QED  BY <1>6 DEF A, B

LEMMA TenthNear ==
  ASSUME NEW n \in Int
  PROVE  Tenth(n) \in Int /\ 10 * Tenth(n) - n \in -9 .. 9
<1> QED  BY DEF Tenth

-----------------------------------------------------------------------------
(* The point of one packet.                                                *)

LEMMA MountFacts ==
  ASSUME NEW e \in Entries
  PROVE  LET ext == ParsedConfig(e).extrinsic_parameter
         IN  /\ ext \in [Extrinsics -> {ext[k] : k \in Extrinsics}]
             /\ ext.x \in Int /\ ext.y \in Int /\ ext.z \in Int
             /\ \A i \in Axes : Translation(ext)[i] \in Int
<1> DEFINE val == e.extrinsic_parameter
           ext == ParseExtrinsics(val)
<1>1. ParsedConfig(e).extrinsic_parameter = ext
  BY ParsedFields
<1>2. \/ val = Absent
      \/ \A k \in Extrinsics : val[k] = Absent \/ val[k] \in Int
  BY EntryAssumption
<1> HIDE DEF val
<1>3. ext = [k \in Extrinsics |-> IF val = Absent THEN 0 ELSE OrDefault(val[k], 0)]
  BY DEF ParseExtrinsics
<1>4. \A k \in Extrinsics : ext[k] \in Int
  BY <1>2, <1>3 DEF OrDefault
<1>5. ext["x"] \in Int /\ ext["y"] \in Int /\ ext["z"] \in Int
  BY <1>4 DEF Extrinsics
<1>6. ext \in [Extrinsics -> {ext[k] : k \in Extrinsics}]
  BY <1>3
<1> HIDE DEF ext
<1>7. \A i \in Axes : Translation(ext)[i] \in Int
  BY <1>5 DEF Translation, Axes
<1> QED  BY <1>1, <1>5, <1>6, <1>7

(* The extrinsic parameters kept for points of low resolution.             *)
LEMMA RescaledMount ==
  ASSUME NEW e \in Entries, ParsedConfig(e).pcl_data_type = LowData
  PROVE  LET ext == ParsedConfig(e).extrinsic_parameter
             low == ExtParam(ParsedConfig(e))
         IN  /\ Rotation(low) = Rotation(ext)
             /\ \A i \in Axes : Translation(low)[i] = Tenth(Translation(ext)[i])
<1> DEFINE ext == ParsedConfig(e).extrinsic_parameter
           low == ExtParam(ParsedConfig(e))
<1>1. ext \in [Extrinsics -> {ext[k] : k \in Extrinsics}]
  BY MountFacts
<1>2. low = [ext EXCEPT !.x = Tenth(@), !.y = Tenth(@), !.z = Tenth(@)]
  BY DEF ExtParam
<1> HIDE DEF ext, low
<1>3. /\ low.roll = ext.roll /\ low.pitch = ext.pitch /\ low.yaw = ext.yaw
      /\ low.x = Tenth(ext.x) /\ low.y = Tenth(ext.y) /\ low.z = Tenth(ext.z)
  BY <1>1, <1>2 DEF Extrinsics
<1>4. Rotation(low) = Rotation(ext)
  BY <1>3 DEF Rotation
<1>5. \A i \in Axes : Translation(low)[i] = Tenth(Translation(ext)[i])
  BY <1>3 DEF Translation, Axes
<1> QED  BY <1>4, <1>5 DEF ext, low

(* A packet of the data type that the entry names is placed where the      *)
(* entry says.                                                             *)
LEMMA PointPlaced ==
  ASSUME NEW e \in Entries, NEW pkt \in Packets,
         pkt.data_type = OrDefault(e.pcl_data_type, HighData)
  PROVE  LET ext   == ParsedConfig(e).extrinsic_parameter
             point == LivoxLidarPointCloudProcess(pkt, ExtParam(ParsedConfig(e)))
         IN  Within(IF pkt.data_type = LowData THEN 9 ELSE 0, point,
                    Plus(Turned(RPY(ext), Measured(pkt)), Translation(ext)))
<1> DEFINE c     == ParsedConfig(e)
           ext   == c.extrinsic_parameter
           point == LivoxLidarPointCloudProcess(pkt, ExtParam(c))
           there == Plus(Turned(RPY(ext), Measured(pkt)), Translation(ext))
<1>1. \A i \in Axes : Translation(ext)[i] \in Int
  BY MountFacts
<1>2. c.pcl_data_type = LowData <=> pkt.data_type = LowData
  <2>1. "pcl_data_type" \in Settings /\ e.pcl_data_type \in {Absent, 1, 2, 3}
    BY EntryAssumption DEF Settings, HighData, LowData, SphericalData
  <2>2. CASE e.pcl_data_type = Absent
    BY <2>2, ParsedFields DEF ParsedSetting, OrDefault, HighData, LowData
  <2>3. CASE e.pcl_data_type # Absent
    <3>1. c.pcl_data_type = ParsedSetting(e["pcl_data_type"])
      BY ParsedFields
    <3>2. ParsedSetting(e["pcl_data_type"]) = e["pcl_data_type"]
      BY <2>1, <2>3, ParsedSettings
    <3> QED  BY <2>3, <3>1, <3>2 DEF OrDefault
  <2> QED  BY <2>2, <2>3
<1>3. CASE pkt.data_type = LowData
  <2> DEFINE low == ExtParam(c)
             raw == pkt.raw
  <2>1. \A i \in Axes : raw[i] \in Int
    BY <1>3, PacketAssumption DEF Packets, LowData, HighData, SphericalData, Axes
  <2>2. Rotation(low) = Rotation(ext) /\ \A i \in Axes : Translation(low)[i] = Tenth(Translation(ext)[i])
    BY <1>2, <1>3, RescaledMount
  <2>3. point = Scaled(10, Plus(Turned(Rotation(low), raw), Translation(low)))
    BY <1>3 DEF LivoxLidarPointCloudProcess, ProcessCartesianLowPoint, HighData, LowData, SphericalData
  <2>4. there = Plus(Turned(RPY(ext), Scaled(10, raw)), Translation(ext))
    BY <1>3 DEF Measured, HighData, LowData, SphericalData
  <2> SUFFICES ASSUME NEW i \in Axes PROVE point[i] - there[i] \in -9 .. 9
    BY <1>3 DEF Within
  <2> HIDE DEF point, there, ext, low, raw
  <2> DEFINE turned == Turned(Rotation(ext), raw)[i]
             moved  == Translation(ext)[i]
  <2>5. turned \in Int /\ Turned(RPY(ext), Scaled(10, raw))[i] = 10 * turned
    BY <2>1, TurnedTypes
  <2>6. moved \in Int /\ Tenth(moved) \in Int /\ 10 * Tenth(moved) - moved \in -9 .. 9
    BY <1>1, TenthNear
  <2>7. point[i] = 10 * (turned + Tenth(moved))
    BY <2>2, <2>3 DEF Scaled, Plus
  <2>8. there[i] = 10 * turned + moved
    BY <2>4, <2>5 DEF Plus
  <2> HIDE DEF turned, moved
  <2> QED  BY <2>5, <2>6, <2>7, <2>8
<1>4. CASE pkt.data_type # LowData
  <2> DEFINE v == Measured(pkt)
  <2>1. /\ \A i \in Axes : v[i] \in Int
        /\ point = Plus(Turned(Rotation(ext), v), Translation(ext))
    <3>1. ExtParam(c) = ext
      BY <1>2, <1>4 DEF ExtParam
    <3>2. CASE pkt.data_type = HighData
      <4>1. \A i \in Axes : pkt.raw[i] \in Int
        BY <3>2, PacketAssumption DEF Packets, LowData, HighData, SphericalData, Axes
      <4>2. v = pkt.raw
        BY <3>2 DEF Measured, LowData, HighData, SphericalData
      <4>3. point = ProcessCartesianHighPoint(pkt.raw, ext)
        BY <3>1, <3>2 DEF LivoxLidarPointCloudProcess, LowData, HighData, SphericalData
      <4> QED  BY <4>1, <4>2, <4>3 DEF ProcessCartesianHighPoint
    <3>3. CASE pkt.data_type = SphericalData
      <4> DEFINE raw == pkt.raw
      <4>1. raw.depth \in Int
        BY <3>3, PacketAssumption DEF Packets, LowData, HighData, SphericalData
      <4>2. v = Spherical(raw)
        BY <3>3 DEF Measured, LowData, HighData, SphericalData
      <4>3. \A i \in Axes : Spherical(raw)[i] \in Int
        <5>1. /\ Cos(raw.theta) \in Int /\ Sin(raw.theta) \in Int
              /\ Cos(raw.phi) \in Int /\ Sin(raw.phi) \in Int
          BY Trigonometry
        <5> HIDE DEF raw
        <5>2. /\ Sin(raw.theta) * Cos(raw.phi) \in Int
              /\ Sin(raw.theta) * Sin(raw.phi) \in Int
          BY <5>1, Z3
        <5>3. \A m, n \in Int : m * n \in Int
          OBVIOUS
        <5> QED  BY <4>1, <5>1, <5>2, <5>3 DEF Spherical, Scaled, Axes
      <4>4. point = ProcessSphericalPoint(raw, ext)
        BY <3>1, <3>3 DEF LivoxLidarPointCloudProcess, LowData, HighData, SphericalData
      <4> QED  BY <4>2, <4>3, <4>4 DEF ProcessSphericalPoint
    <3>4. pkt.data_type \in {HighData, LowData, SphericalData}
      BY DEF Packets
    <3> QED  BY <1>4, <3>2, <3>3, <3>4
  <2> SUFFICES ASSUME NEW i \in Axes PROVE point[i] - there[i] \in -0 .. 0
    BY <1>4 DEF Within
  <2> HIDE DEF v, point, ext
  <2> DEFINE turned == Turned(Rotation(ext), v)[i]
             moved  == Translation(ext)[i]
  <2>2. turned \in Int /\ Turned(RPY(ext), v)[i] = turned /\ moved \in Int
    BY <1>1, <2>1, TurnedTypes
  <2>3. point[i] = turned + moved
    BY <2>1 DEF Plus
  <2>4. there[i] = turned + moved
    BY <2>2 DEF Plus, v
  <2> HIDE DEF turned, moved, there
  <2> QED  BY <2>2, <2>3, <2>4
<1> QED  BY <1>3, <1>4

-----------------------------------------------------------------------------
(* The points on their way.                                                *)

(* Points and transforms are made of what a lidar was registered with.     *)
FromDevices ==
  /\ sampling \subseteq DOMAIN sent
  /\ frame # None =>
       /\ step = "running"
       /\ frame.lidar \in DOMAIN devices
       /\ frame.pkt \in Packets
       /\ frame.point = LivoxLidarPointCloudProcess(frame.pkt, lidar_param[frame.lidar])
  /\ cloud # None =>
       /\ step = "running"
       /\ cloud.lidar \in DOMAIN devices
       /\ cloud.pkt \in Packets
       /\ cloud.point = LivoxLidarPointCloudProcess(cloud.pkt, lidar_param[cloud.lidar])
       /\ cloud.frame_id = CloudFrame(devices[cloud.lidar])
  /\ \A l \in DOMAIN transforms :
       /\ step = "running"
       /\ l \in DOMAIN devices
       /\ devices[l].publish_tf
       /\ transforms[l] = Transform(devices[l])

PlacementInv == ConfigInv /\ FromDevices

LEMMA PlacementInvInit == PlacementInit => PlacementInv
<1> SUFFICES ASSUME PlacementInit PROVE PlacementInv
  OBVIOUS
<1>1. ConfigInv
  BY ConfigInit DEF PlacementInit
<1>2. sampling = {} /\ frame = None /\ cloud = None /\ DOMAIN transforms = {}
  BY DEF PlacementInit
<1>3. FromDevices
  BY <1>2 DEF FromDevices
<1> QED  BY <1>1, <1>3 DEF PlacementInv

(* Nothing of what the driver has set up changes once it runs.             *)
LEMMA RunningFixed ==
  ASSUME ConfigInv, [Next]_vars, step = "running"
  PROVE  UNCHANGED <<file, step, devices, lidar_param>> /\ DOMAIN sent \subseteq DOMAIN sent'
<1>1. CASE UNCHANGED vars
  BY <1>1 DEF vars
<1>2. CASE \E l \in Lidars : SendSettings(l)
  <2>1. PICK l \in Lidars : SendSettings(l)
    BY <1>2
  <2>2. DOMAIN sent' = DOMAIN sent \cup {l}
    BY <2>1 DEF SendSettings, Put
  <2> QED  BY <2>1, <2>2 DEF SendSettings
<1>3. /\ ~RegisterLidar /\ ~RegisterDone /\ ~ParseUserConfig /\ ~ParseDone
      /\ ~AddFrequency /\ ~GetPublishFreqFromConfig
  BY DEF RegisterLidar, RegisterDone, ParseUserConfig, ParseDone, AddFrequency,
         GetPublishFreqFromConfig
<1> QED  BY <1>1, <1>2, <1>3 DEF Next

LEMMA PlacementInvStep == PlacementInv /\ [PlacementNext]_<<vars, placement>> => PlacementInv'
<1> SUFFICES ASSUME PlacementInv, [PlacementNext]_<<vars, placement>> PROVE PlacementInv'
  OBVIOUS
<1> USE DEF PlacementInv
<1>1. [Next]_vars
  BY DEF PlacementNext, Placement, RawDataProcess, BecomeSampling, PublishPointcloud2, PublishTFs
<1>2. ConfigInv'
  BY <1>1, ConfigStep
<1>3. CASE UNCHANGED placement
  <2>1. CASE step = "running"
    <3>1. UNCHANGED <<file, step, devices, lidar_param>> /\ DOMAIN sent \subseteq DOMAIN sent'
      BY <1>1, <2>1, RunningFixed
    <3> QED  BY <1>2, <1>3, <3>1 DEF FromDevices, placement
  <2>2. CASE step # "running"
    <3>1. /\ sampling = {} /\ frame = None /\ cloud = None
          /\ \A l \in DOMAIN transforms : FALSE
      BY <2>2 DEF FromDevices, ConfigInv, Shape
    <3> QED  BY <1>2, <1>3, <3>1 DEF FromDevices, placement
  <2> QED  BY <2>1, <2>2
<1>4. ASSUME NEW l \in Lidars, NEW pkt \in Packets, RawDataProcess(l, pkt)
      PROVE  PlacementInv'
  <2>1. DOMAIN lidar_param = DOMAIN devices
    BY DEF ConfigInv, Shape
  <2>2. /\ step = "running" /\ l \in DOMAIN devices
        /\ frame' = [lidar |-> l, pkt |-> pkt,
                     point |-> LivoxLidarPointCloudProcess(pkt, lidar_param[l])]
        /\ UNCHANGED <<step, devices, lidar_param, sent, sampling, cloud, transforms>>
    BY <1>4, <2>1 DEF RawDataProcess, vars
  <2>3. /\ frame'.lidar = l /\ frame'.pkt = pkt
        /\ frame'.point = LivoxLidarPointCloudProcess(pkt, lidar_param[l])
    BY <2>2
  <2> QED  BY <1>2, <2>2, <2>3 DEF FromDevices
<1>5. ASSUME NEW l \in Lidars, BecomeSampling(l)
      PROVE  PlacementInv'
  BY <1>2, <1>5 DEF BecomeSampling, FromDevices, vars
<1>6. CASE PublishPointcloud2
  <2>1. /\ cloud' = [lidar |-> frame.lidar, pkt |-> frame.pkt, point |-> frame.point,
                     frame_id |-> CloudFrame(devices[frame.lidar])]
        /\ frame # None /\ frame' = None
        /\ UNCHANGED <<step, devices, lidar_param, sent, sampling, transforms>>
    BY <1>6 DEF PublishPointcloud2, vars
  <2>2. /\ cloud'.lidar = frame.lidar /\ cloud'.pkt = frame.pkt
        /\ cloud'.point = frame.point
        /\ cloud'.frame_id = CloudFrame(devices[frame.lidar])
    BY <2>1
  <2> QED  BY <1>2, <2>1, <2>2 DEF FromDevices
<1>7. CASE PublishTFs
  <2>1. /\ step = "running"
        /\ transforms' = [l \in {m \in sampling : devices[m].publish_tf} |-> Transform(devices[l])]
        /\ UNCHANGED <<step, devices, lidar_param, sent, sampling, frame, cloud>>
    BY <1>7 DEF PublishTFs, vars
  <2>2. ASSUME NEW l \in DOMAIN transforms'
        PROVE  /\ l \in DOMAIN devices /\ devices[l].publish_tf
               /\ transforms'[l] = Transform(devices[l])
    BY <2>1 DEF FromDevices, ConfigInv, Shape
  <2> QED  BY <1>2, <2>1, <2>2 DEF FromDevices
<1> QED  BY <1>3, <1>4, <1>5, <1>6, <1>7 DEF PlacementNext, Placement

LEMMA PlacementInvariance == PlacementSpec => []PlacementInv
<1> QED  BY PlacementInvInit, PlacementInvStep, PTL DEF PlacementSpec

-----------------------------------------------------------------------------
(* The theorems.                                                           *)

(* The variables keep their types: no index is left over, the settings of  *)
(* a device fit in eight bits, and nothing is sent to a lidar that is not  *)
(* registered.                                                             *)
THEOREM TypeCorrect == PlacementSpec => []TypeOK
<1>1. ConfigInv => TypeOK
  <2> SUFFICES ASSUME ConfigInv PROVE TypeOK
    OBVIOUS
  <2>1. /\ Len(file) \in Nat /\ Len(user_configs) \in Nat
        /\ \A j \in 1 .. Len(user_configs) : user_configs[j] \in Configs
    BY ConfigFacts DEF ConfigInv
  <2>2. Len(user_configs) <= Len(file) /\ next \in 1 .. (Len(file) + 1)
    BY <2>1 DEF ConfigInv, Shape, EntriesRead, Steps
  <2>3. ASSUME NEW l \in DOMAIN devices, NEW s \in Settings
        PROVE  devices[l][s] \in -128 .. 127
    <3>1. ConfigsRegistered \in 0 .. Len(user_configs)
      BY <2>1 DEF ConfigsRegistered, ConfigInv, Shape
    <3>2. PICK j \in 1 .. Len(user_configs) : devices[l] = user_configs[j]
      BY <2>1, <3>1 DEF ConfigInv, DevicesFromConfigs
    <3>3. PICK e \in Entries : devices[l] = ParsedConfig(e)
      BY <2>1, <3>2 DEF Configs
    <3>4. ParsedConfig(e)[s] = ParsedSetting(e[s]) /\ ParsedSetting(e[s]) \in -128 .. 127
      BY ParsedFields, ParsedSettings
    <3> QED  BY <3>3, <3>4
  <2> QED  BY <2>1, <2>2, <2>3 DEF ConfigInv, Shape, TypeOK
<1> QED  BY <1>1, PlacementInvariance, PTL DEF PlacementInv

(* Division with remainder, and what it says of two quotients.             *)
LEMMA Quotient ==
  ASSUME NEW m \in Nat \ {0}, NEW a \in Nat
  PROVE  /\ a \div m \in Nat
         /\ a % m \in 0 .. (m - 1)
         /\ a = m * (a \div m) + (a % m)
  BY Z3

LEMMA QuotientAtLeast ==
  ASSUME NEW m \in Nat \ {0}, NEW a \in Nat, NEW k \in Nat, k * m <= a
  PROVE  k <= a \div m
<1> DEFINE q == a \div m
<1>1. q \in Nat /\ a % m \in 0 .. (m - 1) /\ a = m * q + (a % m)
  BY Quotient
<1>2. k * m < (q + 1) * m
  BY <1>1, Z3
<1> HIDE DEF q
<1>3. k < q + 1
  BY <1>1, <1>2, SMTT(30)
<1> QED  BY <1>1, <1>3 DEF q

(* In a second there are no more intervals of d than there are of k.       *)
LEMMA AtMost ==
  ASSUME NEW d \in Nat, NEW k \in Nat \ {0}, k <= d,
         NEW room \in Nat, 1000 < (room + 1) * k
  PROVE  1000 \div d <= room
<1> DEFINE q == 1000 \div d
<1>1. q \in Nat /\ d * q <= 1000
  BY Quotient, Z3
<1> HIDE DEF q
<1>2. k * q <= d * q
  BY <1>1, Z3
<1>3. k * q < (room + 1) * k
  BY <1>1, <1>2, Z3
<1>4. q < room + 1
  BY <1>1, <1>3, SMTT(30)
<1> QED  BY <1>1, <1>4 DEF q

(* Of intervals that divide the second there are as many as the frequency  *)
(* says.                                                                   *)
LEMMA ExactShare ==
  ASSUME NEW f \in Nat, NEW U \in Nat, NEW d \in Nat \ {0}, NEW q \in Nat,
         1000 * U = f * d, q * d <= 1000
  PROVE  q * U <= f
<1>1. (q * d) * U <= 1000 * U
  BY Z3
<1>2. (q * U) * d <= f * d
  BY <1>1, Z3
<1> DEFINE x == q * U
<1>3. x \in Nat
  BY Z3
<1> HIDE DEF x
<1>4. x * d <= f * d
  BY <1>2 DEF x
<1>5. x <= f
  BY <1>3, <1>4, SMTT(30)
<1> QED  BY <1>5 DEF x

LEMMA Rounded ==
  ASSUME NEW n \in Nat, n <= 1024
  PROVE  RoundupPowerOf2(n) \in PowersOf2 /\ RoundupPowerOf2(n) >= n
<1>1. \E p \in PowersOf2 : p >= n /\ \A q \in PowersOf2 : q >= n => p <= q
  BY DEF PowersOf2
<1> QED  BY <1>1 DEF RoundupPowerOf2

(* A queue of the lidar has room for a second of frames.  What is cut from *)
(* the interval matters least just below 16, 32 and 62.5 Hz, where the     *)
(* frames just fit the power of two.                                       *)
LEMMA SecondFits ==
  ASSUME publish_freq \in Nat
  PROVE  QueueHoldsASecond
<1> DEFINE f == publish_freq
           U == FreqUnit
           d == publish_interval_ms
           n == CalculatePacketQueueSize
<1> SUFFICES ASSUME f # 0, 2 * f <= 125 * U \/ (1000 * U) % f = 0
             PROVE  d > 0 /\ 1000 \div d <= RoundupPowerOf2(n)
  BY DEF QueueHoldsASecond
<1>1. U \in Nat \ {0} /\ f \in Nat \ {0}
  BY UserConfigAssumption
<1>2. /\ d \in Nat
      /\ \A k \in Nat : k * f <= 1000 * U => k <= d
  BY <1>1, Quotient, QuotientAtLeast DEF publish_interval_ms
<1>3. /\ f \div U \in Nat
      /\ \A k \in Nat : k * U <= f => k <= f \div U
      /\ (f \div U) * U <= f
  BY <1>1, Quotient, QuotientAtLeast
<1>4. n = IF f > 10 * U THEN (f \div U) + 1 ELSE 10
  BY DEF CalculatePacketQueueSize
<1> HIDE DEF f, U, d, n
<1>5. CASE 2 * f <= 125 * U
  <2>1. f \div U <= 62
    <3>1. CASE f \div U >= 63
      <4>1. 63 * U <= f
        BY <1>1, <1>3, <3>1, Z3
      <4> QED  BY <1>1, <1>5, <4>1
    <3> QED  BY <1>3, <3>1
  <2>2. n \in Nat /\ n <= 1024 /\ RoundupPowerOf2(n) \in PowersOf2 /\ RoundupPowerOf2(n) >= n
    BY <1>3, <1>4, <2>1, Rounded
  <2>3. ASSUME NEW k \in Nat \ {0}, NEW room \in Nat, k * f <= 1000 * U,
               1000 < (room + 1) * k, room <= RoundupPowerOf2(n)
        PROVE  d > 0 /\ 1000 \div d <= RoundupPowerOf2(n)
    <3>1. d \in Nat /\ k <= d
      BY <1>2, <2>3
    <3>2. 1000 \div d <= room
      BY <2>3, <3>1, AtMost
    <3>3. RoundupPowerOf2(n) \in Nat
      BY <2>2, Rounded DEF PowersOf2
    <3>4. 1000 \div d \in Nat
      BY <2>3, <3>1
    <3> QED  BY <2>3, <3>1, <3>2, <3>3, <3>4
  <2>4. CASE 32 * U <= f
    <3>1. n >= 33
      BY <1>1, <1>3, <1>4, <2>4
    <3>2. RoundupPowerOf2(n) >= 64
      BY <2>2, <3>1 DEF PowersOf2
    <3>3. PICK k \in Nat \ {0}, room \in Nat : k = 16 /\ room = 64
      OBVIOUS
    <3>4. k * f <= 1000 * U /\ 1000 < (room + 1) * k
      BY <1>1, <1>5, <3>3
    <3> QED  BY <2>3, <2>2, <3>2, <3>3, <3>4
  <2>5. CASE 16 * U <= f /\ f < 32 * U
    <3>1. n >= 17
      BY <1>1, <1>3, <1>4, <2>5
    <3>2. RoundupPowerOf2(n) >= 32
      BY <2>2, <3>1 DEF PowersOf2
    <3> QED  BY <1>1, <2>5, <2>3, <2>2, <3>2
  <2>6. CASE f < 16 * U
    <3>1. n >= 10
      BY <1>1, <1>3, <1>4
    <3>2. RoundupPowerOf2(n) >= 16
      BY <2>2, <3>1 DEF PowersOf2
    <3> QED  BY <1>1, <2>6, <2>3, <2>2, <3>2
  <2> QED  BY <1>1, <2>4, <2>5, <2>6
<1>6. CASE (1000 * U) % f = 0
  <2>1. 1000 * U = f * d
    <3>1. 1000 * U \in Nat
      BY <1>1
    <3>2. 1000 * U = f * ((1000 * U) \div f) + ((1000 * U) % f)
      <4>1. PICK a \in Nat : a = 1000 * U
        BY <3>1
      <4>2. a = f * (a \div f) + (a % f)
        BY <1>1, Quotient
      <4> QED  BY <4>1, <4>2
    <3>3. d = (1000 * U) \div f
      BY DEF f, U, d, publish_interval_ms
    <3> QED  BY <1>1, <1>2, <1>6, <3>2, <3>3
  <2>2. d \in Nat \ {0}
    BY <1>1, <1>2, <2>1
  <2>3. f <= 1000 * U
    BY <1>1, <2>1, <2>2, Z3
  <2> DEFINE q == 1000 \div d
  <2>4. q \in Nat /\ q * d <= 1000
    BY <2>2, Quotient, Z3
  <2> HIDE DEF q
  <2>5. q * U <= f
    BY <1>1, <2>1, <2>2, <2>4, ExactShare
  <2>6. q <= f \div U
    BY <1>3, <2>4, <2>5
  <2>7. f \div U <= 1000
    BY <1>1, <1>3, <2>3, Z3
  <2>8. q <= n /\ n \in Nat /\ n <= 1024
    <3>1. CASE f > 10 * U
      BY <1>3, <1>4, <2>4, <2>6, <2>7, <3>1
    <3>2. CASE ~(f > 10 * U)
      <4>1. q * U <= 10 * U
        BY <1>1, <2>4, <2>5, <3>2
      <4>2. q <= 10
        BY <1>1, <2>4, <4>1, SMTT(30)
      <4> QED  BY <1>4, <3>2, <4>2
    <3> QED  BY <3>1, <3>2
  <2>9. RoundupPowerOf2(n) \in Nat /\ RoundupPowerOf2(n) >= n
    BY <2>8, Rounded DEF PowersOf2
  <2> QED  BY <2>2, <2>4, <2>8, <2>9 DEF q
<1> QED  BY <1>5, <1>6 DEF f, U, d, n

(* The queue of every lidar holds a second of frames, for every file whose *)
(* frequencies have an average of 62.5 Hz at most, or one that gives whole *)
(* milliseconds (pub_handler.cpp:54, comm.cpp:28-34, ldq.h:25-35).         *)
THEOREM SecondHeld == PlacementSpec => []QueueHoldsASecond
<1>1. PlacementInv => QueueHoldsASecond
  BY SecondFits DEF PlacementInv, ConfigInv, Shape
<1> QED  BY <1>1, PlacementInvariance, PTL

(* Each setting that is sent is that of the lidar's last entry, and each   *)
(* that the entry has is sent (parse_livox_lidar_cfg.cpp:61-110,           *)
(* callback.cpp:47-75): for any number of entries that name the lidar, and *)
(* whichever lidars there is no room for.                                  *)
THEOREM SettingsCorrect == PlacementSpec => []SettingsAsNamed
<1>1. PlacementInv => SettingsAsNamed
  BY SettingsFollow DEF PlacementInv
<1> QED  BY <1>1, PlacementInvariance, PTL

LEMMA PointsFollow == PlacementInv => PointAsMounted
<1> SUFFICES ASSUME PlacementInv, cloud # None
             PROVE  LET l == cloud.lidar
                        chosen == OrDefault(EntryOf(l).pcl_data_type, HighData)
                    IN  cloud.pkt.data_type = chosen =>
                          Within(IF chosen = LowData THEN 9 ELSE 0, cloud.point,
                                 Plus(Turned(RPY(Mount(l)), Measured(cloud.pkt)),
                                      Translation(Mount(l))))
  BY DEF PointAsMounted
<1> DEFINE l == cloud.lidar
<1>1. /\ ConfigInv /\ step = "running" /\ l \in DOMAIN devices /\ cloud.pkt \in Packets
      /\ cloud.point = LivoxLidarPointCloudProcess(cloud.pkt, lidar_param[l])
  BY DEF PlacementInv, FromDevices
<1>2. lidar_param[l] = ExtParam(devices[l])
  BY <1>1 DEF ConfigInv, ParamsFromDevices
<1>3. EntryOf(l) \in Entries /\ devices[l] = ParsedConfig(EntryOf(l))
  BY <1>1, DeviceOfEntry
<1>4. Mount(l) = ParsedConfig(EntryOf(l)).extrinsic_parameter
  BY ParsedFields DEF Mount, ParseExtrinsics
<1> QED  BY <1>1, <1>2, <1>3, <1>4, PointPlaced

LEMMA TransformsFollow == PlacementInv => TransformAgrees
<1> SUFFICES ASSUME PlacementInv, cloud # None, cloud.lidar \in DOMAIN transforms
             PROVE  LET t == transforms[cloud.lidar]
                        chosen == OrDefault(EntryOf(cloud.lidar).pcl_data_type, HighData)
                    IN  /\ cloud.frame_id = t.parent
                        /\ cloud.pkt.data_type = chosen =>
                             Within(IF chosen = LowData THEN 9 ELSE 0, cloud.point,
                                    Plus(Turned(t.rotation, Measured(cloud.pkt)), t.translation))
  BY DEF TransformAgrees
<1> DEFINE l == cloud.lidar
           t == transforms[l]
<1>1. /\ ConfigInv /\ step = "running" /\ l \in DOMAIN devices
      /\ devices[l].publish_tf /\ t = Transform(devices[l])
      /\ cloud.frame_id = CloudFrame(devices[l])
  BY DEF PlacementInv, FromDevices
<1>2. /\ t.parent = devices[l].parent_frame_id
      /\ t.rotation = RPY(devices[l].extrinsic_parameter)
      /\ t.translation = Translation(devices[l].extrinsic_parameter)
  BY <1>1 DEF Transform
<1>3. cloud.frame_id = t.parent
  BY <1>1, <1>2 DEF CloudFrame
<1>4. EntryOf(l) \in Entries /\ devices[l] = ParsedConfig(EntryOf(l))
  BY <1>1, DeviceOfEntry
<1>5. devices[l].extrinsic_parameter = Mount(l)
  BY <1>4, ParsedFields DEF Mount, ParseExtrinsics
<1>6. t.rotation = RPY(Mount(l)) /\ t.translation = Translation(Mount(l))
  BY <1>2, <1>5
<1> HIDE DEF t
<1>7. PointAsMounted
  BY PointsFollow
<1> QED  BY <1>3, <1>6, <1>7 DEF PointAsMounted, t

(* The matrix and the rescaled translation the points are computed with,   *)
(* and the static transform, put a point where the entry of its lidar says *)
(* (lds_lidar.cpp:142-157, pub_handler.cpp:337-441, lddc.cpp:173-179,      *)
(* 287-345): for any whole coordinates and extrinsic parameters.  Of sines *)
(* and cosines the argument uses only that they are numbers.               *)
THEOREM PlacementCorrect == PlacementSpec => []PlacedAsNamed
<1>1. PlacementInv => PlacedAsNamed
  BY PointsFollow, TransformsFollow DEF PlacedAsNamed
<1> QED  BY <1>1, PlacementInvariance, PTL
=============================================================================
