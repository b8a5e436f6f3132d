SPECIFICATION Spec
CONSTANTS
  Tree = {1, 2, 3}
  Top = 1
  Addr = {1, 2, 3, 4, 5, 6, 7, 8, 9, 10, 11, 12, 13, 14, 15, 16, 17, 18, 19, 20, 21, 22}
  Extent = {1, 2, 3, 4, 5, 6, 7, 8}
  Sectors = 4
  LeafMax = 2
  NodeMax = 3
  MaxOps = 4
  Starts <- PunchedStarts
INVARIANTS NothingLeaked
CHECK_DEADLOCK FALSE
