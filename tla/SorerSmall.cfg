SPECIFICATION Spec
CONSTANTS
  Files <- SmallFiles
  SchemaRows = 2
  InitCap = 1
CHECK_DEADLOCK FALSE
INVARIANTS SchemaIsJoin RowsAreLines OnlyNarrowDropped
