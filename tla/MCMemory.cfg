CONSTANTS
  NPAGES = 34
  NPROCS = 4
  IMAGEMAX = 2
  MAXCALLS = 5
SPECIFICATION Spec
INVARIANTS MemoryInv
PROPERTIES OnlyThreadsShare NoRemapOfOthers
