\* Settings are only repeated once the driver is set up.
CONSTANTS
  Entries <- MCEntries
  RootFreqs <- MCRootFreqs
  MaxEntries = 2
  MaxLidars = 1
  FreqUnit = 100
  Absent = Absent
  NoIp = NoIp
  CartesianRaw <- MCCartesianRaw
  SphericalRaw <- MCSphericalRaw
  None = None
SPECIFICATION PlacementSpec
INVARIANTS BlindSpotAsNamed
CHECK_DEADLOCK FALSE
