SPECIFICATION Spec
CONSTANTS
  GfBits = 3
  Pp <- MCPp
  MaxN = 8
INVARIANTS
  AnyKRebuild
CHECK_DEADLOCK FALSE
