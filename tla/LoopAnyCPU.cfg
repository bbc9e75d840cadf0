\* The loop with a CPU that may do anything and flushes that may fail.
SPECIFICATION Spec
CONSTANTS
  Byte <- FirstAndLastByte
  MaxInstructionLength = 2
  MAX_PREFIXES = 1
  CPU_MODE = 64
  Counters = {few, many}
  ZeroCounters = zero
  NoRun = no_run
  FLUSH_PERIOD = 2
  Intruders <- Exception
  FlushMayFail = TRUE
  MaxRecords = 2
INVARIANTS LoopTypeOK RecordsInSearchOrder StatisticsMatchFile
PROPERTIES SavesWhatMeetsCriteria ImplementsLog StopsOrRunsAgainForEver
CHECK_DEADLOCK FALSE
