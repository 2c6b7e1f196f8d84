CONSTANTS
  NSLOTS = 3
  WIDTH = 5
  MinText <- MCMinText
  Prints <- MCPrints
  ENTRIES = 1024
  KERNBASE = 786432
  PHY = 32768
  BASE = 1024
  TEXT = 256
  STATICS <- MCStatics
  POOL <- MCPool
  VMEM <- MCVmem
SPECIFICATION MachineSpec
INVARIANTS BootMapped ReadyForInterrupts TrapInv RegistersKept PrintedOnce
