SPECIFICATION Spec
CONSTANTS
  Window = 4
  Target = 6
  MaxHash = 255
  Paces = {1, 2, 6, 20, 50}
  Pauses <- MCPauses
  Bases <- MCBases
  MaxLength = 7
CHECK_DEADLOCK FALSE
INVARIANTS
  FastBlocksRaise
  StepBounded
