CONSTANTS
  PCBPOOLMAX = 4
  Sems = {s1}
  WORD = 5
  HZ = 1
  NULL = NULL
  SleepArgs = {}
  InitCounts = {0, 1}
  KeyCodes = {}
  MaxPid = 4
  MaxCount = 2
SPECIFICATION Spec
INVARIANTS OnePlace SemCountsWaiters NoNullPcb JoinersHaveTarget
PROPERTIES WaitersLeaveInOrder SemaphoresImplemented DeathReleasesJoiners
