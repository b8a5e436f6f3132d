SPECIFICATION Spec
CONSTANTS
  Inos <- InosDef
  Unit = 2
  Space <- SpaceDef
  Layouts <- LayoutsDef
  Requests <- RequestsDef
  MaxCalls = 3
  MaxCuts = 1
INVARIANTS ReadsRight RefsExact CountsExact
PROPERTIES DoneAsAsked
CHECK_DEADLOCK FALSE
