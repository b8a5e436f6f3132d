SPECIFICATION Spec
CONSTANTS
  Starts <- MCStarts
  Ino <- MCIno
  Home <- MCHome
  Name <- MCName
  Hash <- MCHash
  Extent <- MCExtent
  ExtentLen <- MCLen
  Born <- MCBorn
  LastSnapshot <- MCLastSnapshot
  LogBlocks = {101, 102}
  FreeBlocks = {103, 104}
  NewBlocks = 2
  Leavers = FALSE
  MaxChanges = 2
  MaxCuts = 1
CHECK_DEADLOCK FALSE
INVARIANTS TreesExact
PROPERTIES SyncedAlone SyncedRecovers
