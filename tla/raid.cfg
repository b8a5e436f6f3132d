SPECIFICATION Spec
CONSTANTS
  Order = 3
  Exp <- ExpDef
  Plus <- PlusDef
  Contents <- ContentsDef
  Layouts <- LayoutsDef
  Deltas = {1, 3}
  Unreadable = TRUE
  MaxCalls = 2
  MaxFaults = 2
INVARIANTS NothingLost CleanScrubVouches
PROPERTIES RepairSound
CHECK_DEADLOCK FALSE
