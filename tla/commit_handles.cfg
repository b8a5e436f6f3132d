\* Two handles of one volume; one failed device call or killed process.
SPECIFICATION FaultSpec
CONSTANTS
  a1 = a1
  a2 = a2
  a3 = a3
  a4 = a4
  m1 = m1
  m2 = m2
  h1 = h1
  h2 = h2
  Handle <- TwoHandles
  Addr <- ThreePlaces
  Used <- OneUsed
  Mirror <- OneMirror
  NCopies = 2
  MaxTx = 3
  MaxCuts = 0
  MaxFaults = 1
INVARIANTS
  OneTreePerGeneration
  FreshHandleReadsWhole
PROPERTY
  NoLostCommit
\* A volume whose primary copy is behind a mirror takes no more writes, and
\* every bound above stops the model.
CHECK_DEADLOCK FALSE
