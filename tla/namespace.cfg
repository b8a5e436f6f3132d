SPECIFICATION Spec
CONSTANTS
  Subvol = {1, 2, 3, 4}
  FsTree = 1
  Ino = {1, 2, 3, 4, 5}
  Top = 1
  Name = {"a", "b", "c"}
  Length <- Lengths
  Hash <- Hashes
  ExtHash <- ExtHashes
  Mode = {0}
  Value = {1}
  RefRoom = 1
  ItemRoom = 2
  ExtendedIref = TRUE
  MaxLinks = 3
  Starts <- MCStarts
INVARIANTS NamesExact ReadersAgree
PROPERTIES ReadOnlyUnchanged ImplementsDirectories
CHECK_DEADLOCK FALSE
