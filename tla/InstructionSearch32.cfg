\* The search of a 32-bit image; five bytes are enough for every payload test.
SPECIFICATION SearchSpec
CONSTANTS
  Byte <- Bytes32
  MaxInstructionLength = 5
  MAX_PREFIXES = 1
  CPU_MODE = 32
INVARIANTS PrefixScanInBounds
PROPERTIES ImplementsOrder
CHECK_DEADLOCK FALSE
