\* Lidar 2 is not in the file and is reported twice.
CONSTANTS
  Lidars = {1, 2}
  Settings <- MCSettings
  Wanted <- MCWantAll
  MaxLidars = 2
  MaxReports = 2
SPECIFICATION Spec
INVARIANTS OnlyUserSettings
CHECK_DEADLOCK FALSE
