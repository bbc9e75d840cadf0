\* What the README says of repeated execution, when a machine check may interrupt it.
SPECIFICATION Spec
CONSTANTS
  Byte <- FirstAndLastByte
  MaxInstructionLength = 2
  MAX_PREFIXES = 1
  CPU_MODE = 64
  Counters = {few, many}
  ZeroCounters = zero
  NoRun = no_run
  FLUSH_PERIOD = 2
  Intruders <- OnlyMachineCheck
  FlushMayFail = FALSE
  MaxRecords = 2
PROPERTIES MeasuredTwice
CHECK_DEADLOCK FALSE
