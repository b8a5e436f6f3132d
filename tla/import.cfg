SPECIFICATION Spec
CONSTANTS
  Importer = {"p", "q"}
  Partial <- MCPartial
  Replace = {"p"}
  Verify = {"p"}
  Usable = {"f", "d", "g"}
  Gathered = 2
  Starts <- MCStarts
INVARIANTS Whole StraysTold
PROPERTIES OnlyAsked
CHECK_DEADLOCK FALSE
