\* The search of a 64-bit image.
SPECIFICATION SearchSpec
CONSTANTS
  Byte <- Bytes64
  MaxInstructionLength = 4
  MAX_PREFIXES = 1
  CPU_MODE = 64
INVARIANTS TypeOK ZeroTail SelectionInvariant
PROPERTIES NeverRevisits ImplementsOrder SearchEnds
CHECK_DEADLOCK FALSE
