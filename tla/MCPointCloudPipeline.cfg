\* The stores of lidar 1 can be late.  The node stops at the end of its destructor.
CONSTANTS
  LidarCount = 2
  QueueSize = 2
  Delayable = {1}
SPECIFICATION FairSpec
INVARIANTS TypeOK SignalBound
PROPERTIES ImplementsHandOver DrainedWhenSilent ExitUnlessAsleep
CHECK_DEADLOCK FALSE
