\* Every operation on three devices; power is cut at most twice, but not
\* while a device is being added.
SPECIFICATION Spec
CONSTANTS
  h1 = h1
  h2 = h2
  Handle <- OneHandle
  NDevices = 3
  NMembers = 2
  MaxId = 4
  MaxTx = 3
  MaxCuts = 2
  MaxFaults = 0
INVARIANTS
  PoolExact
  SuperblockVouches
  PoolStaysReadable
PROPERTY
  NoLostCommit
\* Devices left at different generations are mounted for writing by nobody.
CHECK_DEADLOCK FALSE
