\* RequestedSize = 3 is rounded up to four slots.
CONSTANTS
  Frames = {f1, f2}
  IdxMod = 16
  Powers2 <- MCPowers2
  RequestedSize = 3
SPECIFICATION Spec
INVARIANTS TypeOK NoSlotRace DeliveredWhole
PROPERTIES DropOnlyWhenFull ImplementsFifo
