----------------------------- MODULE UserConfig -----------------------------
(***************************************************************************)
(* From the user's file to the driver's numbers.  The file is read twice:  *)
(* DriverNode::GetPublishFreqFromConfig averages the frequencies of its    *)
(* entries, or takes that of the file itself, from which follow the publish interval and the size of the     *)
(* queues, and LivoxLidarConfigParser::ParseUserConfigs makes a            *)
(* configuration of each entry, which LdsLidar::InitLivoxLidar copies to   *)
(* the lidar's LidarDevice and whose extrinsic translation it rescales.    *)
(* LidarInfoChangeCallback then sends the settings the configuration has.  *)
(*                                                                         *)
(* PointPlacement goes on with what becomes of the extrinsic parameters    *)
(* and the names of frames.  Names of topics are left out.                 *)
(***************************************************************************)
EXTENDS Integers, Sequences, FiniteSets

CONSTANTS Entries,      \* what an entry of lidar_configs can be
          RootFreqs,    \* what publish_frq can be at the root of the file
          MaxEntries,   \* bound: entries in a file
          MaxLidars,    \* kMaxSourceLidar
          FreqUnit,     \* frequencies are counted in 1/FreqUnit Hz
          Absent,       \* the value of a field an entry does not have
          NoIp          \* the ip of an entry that has none

(* The settings a lidar is sent, and those whose value is converted.       *)
Settings == {"pcl_data_type", "pattern_mode", "blind_spot_set", "dual_emit_en"}

(* The other fields of an entry.                                           *)
Others == {"ip", "publish_frq", "frame_id", "parent_frame_id", "publish_tf",
           "extrinsic_parameter"}

(* kLivoxLidarCartesianCoordinateHighData, ...LowData, ...SphericalData.   *)
HighData      == 1
LowData       == 2
SphericalData == 3

ASSUME UserConfigAssumption ==
  /\ MaxEntries \in Nat
  /\ MaxLidars \in Nat
  /\ FreqUnit \in Nat \ {0}
  /\ RootFreqs \subseteq Nat
  /\ \A e \in Entries : DOMAIN e = Settings \cup Others

(* Angles in degrees, lengths in millimetres.                              *)
Extrinsics == {"roll", "pitch", "yaw", "x", "y", "z"}

(* A file whose values are sensible.  The documented ranges are narrower   *)
(* (README.md:161-164); a blind spot of 255 would become -1, which means   *)
(* that there is none.                                                     *)
ASSUME EntryAssumption ==
  \A e \in Entries :
    /\ e.pcl_data_type \in {Absent, HighData, LowData, SphericalData}
    /\ \A s \in {"pattern_mode", "dual_emit_en"} : e[s] = Absent \/ e[s] \in 0 .. 127
    /\ e.blind_spot_set = Absent \/ e.blind_spot_set \in 0 .. 254
    /\ e.publish_frq = Absent \/ e.publish_frq \in Nat
    /\ e.extrinsic_parameter = Absent
         \/ \A k \in Extrinsics : \/ e.extrinsic_parameter[k] = Absent
                                  \/ e.extrinsic_parameter[k] \in Int

Lidars == {e.ip : e \in Entries} \ {NoIp}

VARIABLES
  file,           \* lidar_configs, a sequence of entries, empty if it is missing
  step,           \* where the construction of the driver is
  sum,            \* sum and count, locals of GetPublishFreqFromConfig: the
  count,          \* frequencies of the entries read so far and their number
  publish_freq,   \* publish_freq_, in 1/FreqUnit Hz
  user_configs,   \* the configurations made so far
  next,           \* the entry, later the configuration, that is next
  devices,        \* the configuration of each lidar, of those that have one
  lidar_param,    \* lidar_extrinsics_: where each lidar is mounted, rescaled
  sent            \* sent[l]: the settings sent to a lidar that was reported

average == <<sum, count, publish_freq>>
vars    == <<file, step, average, user_configs, next, devices, lidar_param, sent>>

Steps == {"frequency", "parse", "register", "running"}

TypeOK ==
  /\ Len(file) <= MaxEntries
  /\ step \in Steps
  /\ sum \in Nat /\ count \in 0 .. Len(file) /\ publish_freq \in Nat
  /\ Len(user_configs) <= Len(file)
  /\ next \in 1 .. (Len(file) + 1)
  /\ DOMAIN devices \subseteq Lidars /\ Cardinality(DOMAIN devices) <= MaxLidars
  /\ DOMAIN lidar_param = DOMAIN devices
  /\ DOMAIN sent \subseteq DOMAIN devices
  /\ \A l \in DOMAIN devices : \A s \in Settings : devices[l][s] \in -128 .. 127

Init ==
  /\ file \in UNION {[1 .. n -> Entries] : n \in 0 .. MaxEntries}
  /\ step = "frequency"
  /\ sum = 0
  /\ count = 0
  /\ publish_freq = 0
  /\ user_configs = <<>>
  /\ next = 1
  /\ devices = <<>>
  /\ lidar_param = <<>>
  /\ sent = <<>>

-----------------------------------------------------------------------------
(* A turn of the loop in GetPublishFreqFromConfig: also an entry without   *)
(* an address counts.                                                      *)
AddFrequency ==
  /\ step = "frequency"
  /\ next <= Len(file)
  /\ IF file[next].publish_frq = Absent
       THEN UNCHANGED <<sum, count>>
       ELSE sum' = sum + file[next].publish_frq /\ count' = count + 1
  /\ next' = next + 1
  /\ UNCHANGED <<file, step, publish_freq, user_configs, devices, lidar_param, sent>>

(* Only a file that has no array lidar_configs can name the frequency at   *)
(* its root instead.                                                       *)
GetPublishFreqFromConfig ==
  /\ step = "frequency"
  /\ next > Len(file)
  /\ \/ count > 0 /\ publish_freq' = sum \div count
     \/ count = 0 /\ publish_freq' = 10 * FreqUnit
     \/ file = <<>> /\ publish_freq' \in RootFreqs
  /\ step' = "parse"
  /\ next' = 1
  /\ UNCHANGED <<file, sum, count, user_configs, devices, lidar_param, sent>>

(* Mutant of Int8: no conversion.                                          *)
Unconverted(n) == n

(* static_cast<int8_t>.                                                    *)
Int8(n) == ((n + 128) % 256) - 128

(* Mutant of ParsedSetting: zero for a setting that is not in the file.    *)
ParsedSettingOrZero(value) == IF value = Absent THEN 0 ELSE Int8(value)

(* A setting that is not in the file is -1, the others are converted.      *)
ParsedSetting(value) == IF value = Absent THEN -1 ELSE Int8(value)

(* What is missing of the extrinsic parameters is zero.                    *)
OrDefault(value, default) == IF value = Absent THEN default ELSE value

ParseExtrinsics(value) ==
  [k \in Extrinsics |-> IF value = Absent THEN 0 ELSE OrDefault(value[k], 0)]

ParsedConfig(e) ==
  [pcl_data_type |-> ParsedSetting(e.pcl_data_type),
   pattern_mode |-> ParsedSetting(e.pattern_mode),
   blind_spot_set |-> ParsedSetting(e.blind_spot_set),
   dual_emit_en |-> ParsedSetting(e.dual_emit_en),
   ip |-> e.ip,
   frame_id |-> OrDefault(e.frame_id, "livox_frame"),
   parent_frame_id |-> OrDefault(e.parent_frame_id, "base_link"),
   publish_tf |-> OrDefault(e.publish_tf, TRUE),
   extrinsic_parameter |-> ParseExtrinsics(e.extrinsic_parameter)]

(* A turn of the loop in ParseUserConfigs; an entry needs an address.      *)
ParseUserConfig ==
  /\ step = "parse"
  /\ next <= Len(file)
  /\ user_configs' = IF file[next].ip = NoIp
                       THEN user_configs
                       ELSE Append(user_configs, ParsedConfig(file[next]))
  /\ next' = next + 1
  /\ UNCHANGED <<file, step, average, devices, lidar_param, sent>>

(* A file without usable entries is no reason to stop.                     *)
ParseDone ==
  /\ step = "parse"
  /\ next > Len(file)
  /\ step' = "register"
  /\ next' = 1
  /\ UNCHANGED <<file, average, user_configs, devices, lidar_param, sent>>

(* A division of int32_t, which rounds towards zero.                       *)
Tenth(n) == IF n >= 0 THEN n \div 10 ELSE -((-n) \div 10)

(* Mutant of ExtParam: millimetres for every resolution.                   *)
ExtParamMm(config) == config.extrinsic_parameter

(* The translation is in millimetres, the points of low-resolution data    *)
(* are in centimetres.                                                     *)
ExtParam(config) ==
  LET ext == config.extrinsic_parameter
  IN  IF config.pcl_data_type = LowData
        THEN [ext EXCEPT !.x = Tenth(@), !.y = Tenth(@), !.z = Tenth(@)]
        ELSE ext

Put(f, l, value) == [k \in DOMAIN f \cup {l} |-> IF k = l THEN value ELSE f[k]]

(* A turn of the loop in InitLivoxLidar: a lidar that is named twice keeps *)
(* its index, and one for which no index is left is passed over.           *)
RegisterLidar ==
  /\ step = "register"
  /\ next <= Len(user_configs)
  /\ LET config == user_configs[next]
     IN  IF config.ip \in DOMAIN devices \/ Cardinality(DOMAIN devices) < MaxLidars
           THEN /\ devices' = Put(devices, config.ip, config)
                /\ lidar_param' = Put(lidar_param, config.ip, ExtParam(config))
           ELSE UNCHANGED <<devices, lidar_param>>
  /\ next' = next + 1
  /\ UNCHANGED <<file, step, average, user_configs, sent>>

RegisterDone ==
  /\ step = "register"
  /\ next > Len(user_configs)
  /\ step' = "running"
  /\ UNCHANGED <<file, average, user_configs, next, devices, lidar_param, sent>>

(* LidarInfoChangeCallback, of which LidarConfig has the rest.  The SDK    *)
(* can report a lidar as soon as InitLivoxLidar has set the callback.      *)
SendSettings(l) ==
  /\ step = "running"
  /\ l \in DOMAIN devices
  /\ LET named == {s \in Settings : devices[l][s] # -1}
     IN  sent' = Put(sent, l, [s \in named |-> devices[l][s]])
  /\ UNCHANGED <<file, step, average, user_configs, next, devices, lidar_param>>

Next == \/ AddFrequency
        \/ GetPublishFreqFromConfig
        \/ ParseUserConfig
        \/ ParseDone
        \/ RegisterLidar
        \/ RegisterDone
        \/ \E l \in Lidars : SendSettings(l)

Spec == Init /\ [][Next]_vars

-----------------------------------------------------------------------------
(* What follows from the frequency.                                        *)

(* SetPointCloudConfig.                                                    *)
publish_interval_ms == (1000 * FreqUnit) \div publish_freq

(* Mutant of CalculatePacketQueueSize: always the default.                 *)
DefaultPacketQueueSize == 10

CalculatePacketQueueSize ==
  IF publish_freq > 10 * FreqUnit THEN publish_freq \div FreqUnit + 1 ELSE 10

(* The values 1 << i of RoundupPowerOf2.                                   *)
PowersOf2 ==
  {1, 2, 4, 8, 16, 32, 64, 128, 256, 512, 1024, 2048, 4096, 8192, 16384, 32768,
   65536, 131072, 262144, 524288, 1048576, 2097152, 4194304, 8388608, 16777216,
   33554432, 67108864, 134217728, 268435456, 536870912, 1073741824}

(* RoundupPowerOf2, of which InitQueue makes the number of slots.          *)
RoundupPowerOf2(n) ==
  CHOOSE p \in PowersOf2 : p >= n /\ \A q \in PowersOf2 : q >= n => p <= q

-----------------------------------------------------------------------------
(* Properties.                                                             *)

(* The entry of the file that counts for a lidar is its last.              *)
EntryOf(l) == LET mine == {i \in 1 .. Len(file) : file[i].ip = l}
              IN  file[CHOOSE i \in mine : \A j \in mine : j <= i]

(* The value a setting has in a lidar is the one the user's file has for   *)
(* it: -1, which means that the file has none, is never mistaken for one   *)
(* or one for it (parse_livox_lidar_cfg.cpp:61-110, callback.cpp:47-75).   *)
(* For the blind spot only whether it is sent; see BlindSpotAsNamed.       *)
SettingsAsNamed ==
  \A l \in DOMAIN sent :
    /\ DOMAIN sent[l] = {s \in Settings : EntryOf(l)[s] # Absent}
    /\ \A s \in DOMAIN sent[l] \ {"blind_spot_set"} : sent[l][s] = EntryOf(l)[s]

(* The frames of a second fit in a lidar's queue, although the interval is *)
(* cut to whole milliseconds, which makes frames more frequent than the    *)
(* size that is asked for allows: its rounding to a power of two makes     *)
(* room up to 62.5 Hz (pub_handler.cpp:54, comm.cpp:28-34, ldq.h:25-35).   *)
(* Above that it does where nothing is cut; at 63 Hz there are 66 frames   *)
(* for 64 slots.                                                           *)
QueueHoldsASecond ==
  /\ publish_freq # 0
  /\ 2 * publish_freq <= 125 * FreqUnit \/ (1000 * FreqUnit) % publish_freq = 0
  => /\ publish_interval_ms > 0
     /\ 1000 \div publish_interval_ms <= RoundupPowerOf2(CalculatePacketQueueSize)

(* The blind spot can be set to 50 .. 200 cm (README.md:163).              *)
BlindSpotAsNamed ==
  \A l \in DOMAIN sent :
    "blind_spot_set" \in DOMAIN sent[l] =>
      sent[l]["blind_spot_set"] = EntryOf(l)["blind_spot_set"]
=============================================================================
