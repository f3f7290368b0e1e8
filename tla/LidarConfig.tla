---------------------------- MODULE LidarConfig ----------------------------
(***************************************************************************)
(* How a lidar is set up when the SDK reports it                           *)
(* (LivoxLidarCallback::LidarInfoChangeCallback) and how the answers to    *)
(* the commands sent to it make it a sampling lidar, whose data the poll   *)
(* threads publish.  The report arrives on one thread of the SDK and the   *)
(* answers on others; config_mutex_ protects set_bits, the settings of a   *)
(* lidar that still wait for an answer.                                    *)
(*                                                                         *)
(* The SDK and the lidars are external: a command is answered once, with   *)
(* success, a timeout (the lidar may have obeyed) or a failure.  A call of *)
(* the SDK that is refused counts as a failure, as the code ignores what   *)
(* the calls return.                                                       *)
(***************************************************************************)
EXTENDS Naturals, Sequences, FiniteSets

CONSTANTS Lidars,       \* the lidars on the network, by handle
          Settings,     \* the settings sent first, a sequence
          Wanted,       \* Wanted[l]: those the file gives lidar l a value for;
                        \* the lidars of the file are DOMAIN Wanted
          MaxLidars,    \* kMaxSourceLidar
          MaxReports    \* bound: how often the SDK reports a lidar

Configured == DOMAIN Wanted

SettingSet == {Settings[i] : i \in 1 .. Len(Settings)}

ASSUME ConfigAssumption ==
  /\ Lidars # {}
  /\ Configured \subseteq Lidars
  /\ \A l \in Configured : Wanted[l] \subseteq SettingSet
  /\ IsFiniteSet(Configured)
  /\ Cardinality(Configured) <= MaxLidars
  /\ MaxLidars \in Nat
  /\ MaxReports \in Nat

(* Each setting is sent once in a report, by a command of its own.         *)
ASSUME SettingsAssumption ==
  /\ Settings \in Seq(SettingSet)
  /\ \A i, j \in 1 .. Len(Settings) : Settings[i] = Settings[j] => i = j
  /\ SettingSet \cap {"attitude", "work_mode", "imu"} = {}

(* What else is sent to every lidar, the attitude only to known ones.      *)
Commands == SettingSet \cup {"attitude", "work_mode", "imu"}

VARIABLES
  indexed,     \* lidars the cache index knows
  set_bits,    \* set_bits[l]: settings of l that wait for an answer
  sampling,    \* lidars whose connect_state is kConnectStateSampling
  handler,     \* the thread in LidarInfoChangeCallback: [at, lidar, next]
  outstanding, \* outstanding[l][c]: commands c to lidar l not answered yet
  device,      \* device[l][c]: the value of c in the lidar itself
  failed,      \* history: failed[l]: commands that failed, or whose answer was
               \* dropped, and that were not repeated
  reports      \* how many reports the SDK has made

vars == <<indexed, set_bits, sampling, handler, outstanding, device, failed, reports>>

(* A value in a lidar is the one it was shipped with, one the user asked   *)
(* for, or the zero of a LidarDevice that no configuration was copied to.  *)
Values == {"factory", "user", "zero"}

TypeOK ==
  /\ indexed \subseteq Lidars
  /\ Cardinality(indexed) <= MaxLidars
  /\ set_bits \in [Lidars -> SUBSET SettingSet]
  /\ sampling \subseteq indexed
  /\ handler \in [at : {"idle", "insert", "settings", "commands", "attitude"},
                  lidar : Lidars, next : 1 .. (Len(Settings) + 1)]
  /\ outstanding \in [Lidars -> [Commands -> 0 .. MaxReports]]
  /\ device \in [Lidars -> [Commands -> Values]]
  /\ failed \in [Lidars -> SUBSET Commands]
  /\ reports \in 0 .. MaxReports

(* InitLivoxLidar copied the configuration of each lidar of the file.      *)
Init ==
  /\ indexed = Configured
  /\ set_bits = [l \in Lidars |-> {}]
  /\ sampling = {}
  /\ handler = [at |-> "idle", lidar |-> CHOOSE l \in Lidars : TRUE, next |-> 1]
  /\ outstanding = [l \in Lidars |-> [c \in Commands |-> 0]]
  /\ device = [l \in Lidars |-> [c \in Commands |-> "factory"]]
  /\ failed = [l \in Lidars |-> {}]
  /\ reports = 0

-----------------------------------------------------------------------------
(* What the LidarDevice of an indexed lidar says.  Without a configuration *)
(* its settings are all zero, and zero is not the -1 that means "leave it".*)
Requested(l) == IF l \in Configured THEN Wanted[l] ELSE SettingSet

ValueSent(l, c) ==
  IF l \in Configured \/ c \in {"work_mode", "imu"} THEN "user" ELSE "zero"

Send(l, cs) ==
  /\ outstanding' = [outstanding EXCEPT ![l] =
                       [c \in Commands |-> IF c \in cs THEN @[c] + 1 ELSE @[c]]]
  /\ failed' = [failed EXCEPT ![l] = @ \ cs]

(* Mutant of ConfigMutexFree: the answers do not lock config_mutex_.       *)
NoConfigMutex == TRUE

ConfigMutexFree == handler.at # "settings"

(* Mutant of InfoChangeUnknown: the result of GetFreeIndex is ignored.     *)
InfoChangeUnchecked(l) ==
  /\ handler.at = "idle"
  /\ reports < MaxReports
  /\ reports' = reports + 1
  /\ l \notin indexed
  /\ handler' = [at |-> "insert", lidar |-> l, next |-> 1]
  /\ UNCHANGED <<indexed, set_bits, sampling, outstanding, device, failed>>

(* LidarInfoChangeCallback: a lidar that is not in the file gets an index, *)
(* if one is free, but no settings.                                        *)
InfoChangeUnknown(l) ==
  /\ handler.at = "idle"
  /\ reports < MaxReports
  /\ reports' = reports + 1
  /\ l \notin indexed
  /\ handler' = IF Cardinality(indexed) < MaxLidars
                  THEN [at |-> "insert", lidar |-> l, next |-> 1]
                  ELSE handler
  /\ UNCHANGED <<indexed, set_bits, sampling, outstanding, device, failed>>

(* GetFreeIndex inserts the handle in the map; until it has, lookups of    *)
(* other threads can miss what the map holds (CacheIndex).                 *)
InsertIndex ==
  /\ handler.at = "insert"
  /\ indexed' = indexed \cup {handler.lidar}
  /\ handler' = [handler EXCEPT !.at = "commands"]
  /\ UNCHANGED <<set_bits, sampling, outstanding, device, failed, reports>>

(* The handler has config_mutex_ from here to its last setting.            *)
InfoChangeKnown(l) ==
  /\ handler.at = "idle"
  /\ reports < MaxReports
  /\ reports' = reports + 1
  /\ l \in indexed
  /\ handler' = [at |-> "settings", lidar |-> l, next |-> 1]
  /\ UNCHANGED <<indexed, set_bits, sampling, outstanding, device, failed>>

SendSetting ==
  /\ handler.at = "settings"
  /\ handler.next <= Len(Settings)
  /\ handler' = [handler EXCEPT !.next = @ + 1]
  /\ LET l == handler.lidar
         s == Settings[handler.next]
     IN  IF s \in Requested(l)
           THEN /\ set_bits' = [set_bits EXCEPT ![l] = @ \cup {s}]
                /\ Send(l, {s})
           ELSE UNCHANGED <<set_bits, outstanding, failed>>
  /\ UNCHANGED <<indexed, sampling, device, reports>>

SettingsSent ==
  /\ handler.at = "settings"
  /\ handler.next > Len(Settings)
  /\ handler' = [handler EXCEPT !.at = "attitude", !.next = 1]
  /\ UNCHANGED <<indexed, set_bits, sampling, outstanding, device, failed, reports>>

(* The attitude goes to the handle of the configuration, which is zero and *)
(* no lidar's when there is none.                                          *)
SendAttitude ==
  /\ handler.at = "attitude"
  /\ handler' = [handler EXCEPT !.at = "commands"]
  /\ Send(handler.lidar, IF handler.lidar \in Configured THEN {"attitude"} ELSE {})
  /\ UNCHANGED <<indexed, set_bits, sampling, device, reports>>

SendCommands ==
  /\ handler.at = "commands"
  /\ handler' = [handler EXCEPT !.at = "idle"]
  /\ Send(handler.lidar, {"work_mode", "imu"})
  /\ UNCHANGED <<indexed, set_bits, sampling, device, reports>>

-----------------------------------------------------------------------------
(* The answers.                                                            *)

Obey(l, c) == device' = [device EXCEPT ![l][c] = ValueSent(l, c)]

Answered(l, c) == outstanding' = [outstanding EXCEPT ![l][c] = @ - 1]

(* Mutant of SettingSucceeds: the bit is never cleared.                    *)
SettingKeepsBit(l, s) ==
  /\ outstanding[l][s] > 0
  /\ ConfigMutexFree
  /\ Answered(l, s)
  /\ Obey(l, s)
  /\ sampling' = IF set_bits[l] = {} THEN sampling \cup {l} ELSE sampling
  /\ UNCHANGED <<indexed, set_bits, handler, failed, reports>>

(* SetDataTypeCallback, SetPatternModeCallback, SetBlindSpotCallback and   *)
(* SetDualEmitCallback: the last answer makes the lidar sampling.          *)
SettingSucceeds(l, s) ==
  /\ outstanding[l][s] > 0
  /\ ConfigMutexFree
  /\ Answered(l, s)
  /\ Obey(l, s)
  /\ set_bits' = [set_bits EXCEPT ![l] = @ \ {s}]
  /\ sampling' = IF set_bits'[l] = {} THEN sampling \cup {l} ELSE sampling
  /\ UNCHANGED <<indexed, handler, failed, reports>>

(* The other commands that are answered with success change nothing here.  *)
CommandSucceeds(l, c) ==
  /\ outstanding[l][c] > 0
  /\ Answered(l, c)
  /\ Obey(l, c)
  /\ UNCHANGED <<indexed, set_bits, sampling, handler, failed, reports>>

(* Mutant of TimesOut: the command is not sent again.                      *)
TimesOutForGood(l, c) ==
  /\ outstanding[l][c] > 0
  /\ Obey(l, c) \/ UNCHANGED device
  /\ Answered(l, c)
  /\ UNCHANGED <<indexed, set_bits, sampling, handler, failed, reports>>

(* A command that times out is sent again at once, so one answer is still  *)
(* to come.  The lidar may have obeyed and its answer been lost.           *)
TimesOut(l, c) ==
  /\ outstanding[l][c] > 0
  /\ Obey(l, c) \/ UNCHANGED device
  /\ UNCHANGED <<indexed, set_bits, sampling, handler, outstanding, failed, reports>>

(* EnableLivoxLidarImuDataCallback returns before it looks at the status   *)
(* when the SDK passes no response.                                        *)
ImuTimesOutSilently(l) ==
  /\ outstanding[l]["imu"] > 0
  /\ Obey(l, "imu") \/ UNCHANGED device
  /\ Answered(l, "imu")
  /\ failed' = [failed EXCEPT ![l] = @ \cup {"imu"}]
  /\ UNCHANGED <<indexed, set_bits, sampling, handler, reports>>

(* Mutant of Retried: the work mode is given up like the settings.         *)
RetriedNever == {}

(* Only the work mode is tried again after a failure.                      *)
Retried == {"work_mode"}

Fails(l, c) ==
  /\ outstanding[l][c] > 0
  /\ IF c \in Retried
       THEN UNCHANGED <<outstanding, failed>>
       ELSE /\ Answered(l, c)
            /\ failed' = [failed EXCEPT ![l] = @ \cup {c}]
  /\ UNCHANGED <<indexed, set_bits, sampling, handler, device, reports>>

(* GetLidarDevice of a callback searches the map while it is changed and   *)
(* finds nothing: the answer, whatever it is, is dropped.  Only the        *)
(* callback of the work mode does without the device.                      *)
DeviceNotFound(l, c) ==
  /\ outstanding[l][c] > 0
  /\ handler.at = "insert"
  /\ c # "work_mode"
  /\ Answered(l, c)
  /\ Obey(l, c) \/ UNCHANGED device
  /\ failed' = [failed EXCEPT ![l] = @ \cup {c}]
  /\ UNCHANGED <<indexed, set_bits, sampling, handler, reports>>

Succeeds(l, c) == IF c \in SettingSet THEN SettingSucceeds(l, c)
                                      ELSE CommandSucceeds(l, c)

Handler == InsertIndex \/ SendSetting \/ SettingsSent \/ SendAttitude \/ SendCommands

Next == \/ Handler
        \/ \E l \in Lidars :
             \/ InfoChangeUnknown(l)
             \/ InfoChangeKnown(l)
             \/ ImuTimesOutSilently(l)
             \/ \E c \in Commands : \/ Succeeds(l, c)
                                  \/ TimesOut(l, c)
                                  \/ Fails(l, c)
                                  \/ DeviceNotFound(l, c)

Spec == Init /\ [][Next]_vars

Answer == \E l \in Lidars, c \in Commands : Succeeds(l, c)

(* The callback runs to its end, and the commands that are sent again and  *)
(* again do not time out for ever: as long as some are outstanding, one    *)
(* succeeds at last (the lidars are there and obey).                       *)
FairSpec == Spec /\ WF_vars(Handler) /\ WF_vars(Answer)

-----------------------------------------------------------------------------
(* Properties.                                                             *)

(* A lidar of the file is published only when it has every setting of the  *)
(* file, although answers arrive while the handler is still sending        *)
(* (livox_lidar_callback.cpp:46-76 and 122-127).                           *)
SamplingMeansConfigured ==
  \A l \in sampling \cap Configured : \A s \in Wanted[l] : device[l][s] = "user"

(* A setting that is waited for is one whose answer is still to come,      *)
(* failed or was dropped in GetLidarDevice: no lost timeout                *)
(* (livox_lidar_callback.cpp:130-135) leaves a bit of set_bits that        *)
(* nothing will ever clear.                                                *)
WaitsForAnswer ==
  \A l \in Lidars : \A s \in set_bits[l] : outstanding[l][s] > 0 \/ s \in failed[l]

(* A reported lidar of the file with settings ends up sampling, unless one *)
(* of them fails or its answer comes while an unknown lidar is registered  *)
(* (livox_lidar_callback.cpp:111-241, 303-317).                            *)
BecomesSampling ==
  \A l \in Configured :
    (handler.at = "settings" /\ handler.lidar = l /\ Wanted[l] # {})
      ~> (l \in sampling \/ failed[l] \cap SettingSet # {})

(* Every reported lidar that has an index is put in the normal work mode,  *)
(* whatever fails in between (livox_lidar_callback.cpp:97-109).            *)
WorksNormally ==
  \A l \in Lidars :
    (handler.at = "commands" /\ handler.lidar = l) ~> (device[l]["work_mode"] = "user")

(* A lidar is set "according to the user-defined config"                   *)
(* (livox_lidar_callback.cpp:41): no setting is ever anything but the      *)
(* value it was shipped with or one the user asked for.                    *)
OnlyUserSettings ==
  \A l \in Lidars : \A s \in SettingSet : device[l][s] \in {"factory", "user"}

(* The settings have defaults (README.md:158-164), so a lidar of the file  *)
(* whose entry relies on them is published like any other.                 *)
DefaultsSuffice ==
  \A l \in Configured :
    (handler.at = "settings" /\ handler.lidar = l)
      ~> (l \in sampling \/ failed[l] \cap SettingSet # {})
=============================================================================
