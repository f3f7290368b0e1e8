\* One lidar that is never heard of.
CONSTANTS
  LidarCount = 1
  QueueSize = 2
  Delayable = {}
SPECIFICATION FairSpec
PROPERTY ThreadExits
CHECK_DEADLOCK FALSE
