\* Lidars 2 and 3 compete for the last index.  The lidars may be silent for ever.
CONSTANTS
  Lidars = {1, 2, 3}
  Settings <- MCSettings
  Wanted <- MCWantAll
  MaxLidars = 2
  MaxReports = 2
SPECIFICATION FairSpec
INVARIANTS TypeOK SamplingMeansConfigured WaitsForAnswer
PROPERTIES BecomesSampling WorksNormally
CHECK_DEADLOCK FALSE
