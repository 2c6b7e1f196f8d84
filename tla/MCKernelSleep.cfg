CONSTANTS
  PCBPOOLMAX = 3
  Sems = {}
  WORD = 5
  HZ = 2
  NULL = NULL
  SleepArgs = {0, 1, 2}
  InitCounts = {}
  KeyCodes = {"ctrl_down", "ctrl_up", "c_down", "c_up", "other"}
  MaxPid = 5
  MaxCount = 2
SPECIFICATION FairSpec
INVARIANTS KernelInv ChainsFollowLists
PROPERTIES OnlySonsOvertake ReadyEventuallyRuns SleeperEventuallyRuns
