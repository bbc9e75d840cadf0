\* From the firmware's call to user mode, with every failure of the firmware.
SPECIFICATION Spec
CONSTANTS
  Fanout = 2
  Firmwares <- SampleFirmwares
  NoRequest = no_request
  Unmapped = unmapped
  CPU_MODE = 64
  TssBase <- SampleTss
  Handlers <- SampleHandlers
  Cpu <- SampleCpu
  StackPage <- SampleStack
  UserPage <- SampleUser
INVARIANTS BootTypeOK UserPagesReady NoReservedBits WriteProtection NoStaleTranslation TablesWithoutInterrupts ReadyForExceptions ReturnsCleanly OpenResult
PROPERTIES ImplementsAddressSpace
CHECK_DEADLOCK FALSE
