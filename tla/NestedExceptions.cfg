\* NMI and #MC between any two steps of the handler.
SPECIFICATION Spec
CONSTANTS
  Byte <- SampleBytes
  MaxInstructionLength = 3
  MAX_PREFIXES = 1
  CPU_MODE = 64
  TssBase <- SampleTss
  Handlers <- SampleHandlers
  NoContext = no_context
  MaxNested = 2
INVARIANTS NestedTypeOK FrameRead ZeroTailInUser RunsWhatItRecords CountersOfOneRun McipRearmed
PROPERTIES EndsDespiteNesting
CHECK_DEADLOCK FALSE
