\* What the loop promises when the CPU repeats itself and flushes succeed.
SPECIFICATION Spec
CONSTANTS
  Byte <- FirstAndLastByte
  MaxInstructionLength = 2
  MAX_PREFIXES = 1
  CPU_MODE = 64
  Counters = {few, many}
  ZeroCounters = zero
  NoRun = no_run
  FLUSH_PERIOD = 3
  Intruders = {}
  FlushMayFail = FALSE
  MaxRecords = 3
INVARIANTS LossIsBounded
PROPERTIES MeasuredTwice
CHECK_DEADLOCK FALSE
