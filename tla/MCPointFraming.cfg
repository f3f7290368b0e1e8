\* The model stops at Horizon; the program goes on.
CONSTANTS
  l1 = l1
  l2 = l2
  Lidars <- MCLidars
  UnitsPerMs = 2
  IntervalMs = 3
  HostAhead = 5
  Starts <- MCStarts
  Horizon = 12
  MaxRaw = 2
  MaxMishaps = 1
SPECIFICATION FairSpec
INVARIANTS TypeOK InOrder RegularFrames AverageRate
PROPERTIES PointThreadEnds
CHECK_DEADLOCK FALSE
