\* What save_instruction_data says of error codes.
SPECIFICATION Spec
CONSTANTS
  Record <- SampleRecords
  Reference <- TwoCounters
  OldContents <- SampleContents
  NoData = no_data
  MaxValue = 300
  MaxRecords = 1
INVARIANTS ErrorCodesAreSaved
CHECK_DEADLOCK FALSE
