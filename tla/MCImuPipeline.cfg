CONSTANTS
  LidarCount = 2
  Sdk = {t1, t2}
  MaxQueue = 2
SPECIFICATION FairSpec
INVARIANTS TypeOK SignalBound
PROPERTIES ImplementsHandOver DrainedWhenSilent EndsOrSleeps
CHECK_DEADLOCK FALSE
