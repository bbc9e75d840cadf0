\* Every interleaving of writes, failures, flushes and power cuts.
SPECIFICATION Spec
CONSTANTS
  Record <- SampleRecords
  Reference <- TwoCounters
  OldContents <- SampleContents
  NoData = no_data
  MaxValue = 300
  MaxRecords = 3
INVARIANTS SaveTypeOK FileDecodes SurvivesPowerCut
PROPERTIES ImplementsLog
CHECK_DEADLOCK FALSE
