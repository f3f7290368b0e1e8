\* Once the driver is set up it only repeats the settings it sends.
CONSTANTS
  Entries <- MCEntries
  RootFreqs <- MCRootFreqs
  MaxEntries = 2
  MaxLidars = 1
  FreqUnit = 100
  Absent = Absent
  NoIp = NoIp
  CartesianRaw <- MCCartesianRaw
  SphericalRaw <- MCSphericalRaw
  None = None
SPECIFICATION PlacementSpec
INVARIANTS TypeOK SettingsAsNamed PlacedAsNamed QueueHoldsASecond
CHECK_DEADLOCK FALSE
