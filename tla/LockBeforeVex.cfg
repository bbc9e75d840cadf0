\* What the filter's comment says of LOCK before VEX.
SPECIFICATION SearchSpec
CONSTANTS
  Byte <- BytesLockVex
  MaxInstructionLength = 3
  MAX_PREFIXES = 1
  CPU_MODE = 64
PROPERTIES KeepsLockBeforeVex
CHECK_DEADLOCK FALSE
