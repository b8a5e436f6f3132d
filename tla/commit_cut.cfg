\* One handle, blocks in two mirrors, up to two power cuts.
SPECIFICATION Spec
CONSTANTS
  a1 = a1
  a2 = a2
  a3 = a3
  a4 = a4
  m1 = m1
  m2 = m2
  h1 = h1
  h2 = h2
  Handle <- OneHandle
  Addr <- FourPlaces
  Used <- TwoUsed
  Mirror <- TwoMirrors
  NCopies = 2
  MaxTx = 2
  MaxCuts = 2
  MaxFaults = 0
INVARIANTS
  TypeOK
  CutLeavesWholeTree
  CutLeavesBeforeOrAfter
PROPERTY
  ImplementsStore
\* A volume whose primary copy is behind a mirror takes no more writes, and
\* every bound above stops the model.
SYMMETRY Symmetry
CHECK_DEADLOCK FALSE
