SPECIFICATION Spec
CONSTANTS
  Sector = 2
  Capability = "capability"
  Zero <- ZeroByte
  Now = 99
  LinkMode = 1
  Starts <- MCStarts
INVARIANTS Applies NamesKept Rebuilt NeverGivesUp
CHECK_DEADLOCK FALSE
