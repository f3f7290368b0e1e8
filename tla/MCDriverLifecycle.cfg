CONSTANTS
  Loads = 3
  MaxRaw = 1
SPECIFICATION FairSpec
INVARIANTS
  TypeOK
  DestroyedUntouched
  SdkStopsWithNode
  ReadyBeforeUse
  OneObserver
PROPERTIES
  UnloadEndsOrSleeps
  ReloadedUnloads
CHECK_DEADLOCK FALSE
