\* One handle more than there are indices.
CONSTANTS
  Handles = {h1, h2, h3}
  Threads = {t1, t2, t3}
  MaxLidars = 2
  None = None
SPECIFICATION Spec
INVARIANTS TypeOK OneLidarPerIndex NoIndexLost
PROPERTIES IndexStable
