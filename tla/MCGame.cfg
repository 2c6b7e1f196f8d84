CONSTANTS
  VWIDTH = 3
  VHEIGHT = 2
  MARGIN = 1
  START = 1
  SIZE0 = 1
  MAXSIZE = 2
  MAXMON = 3
  MONSTER_SIZE = 2
  PID = 3
  Dirs <- MCDirs
  MAXLAG = 3
  MAXSCORE = 2
SPECIFICATION Spec
INVARIANTS GameInv SingleMoveIsShown
PROPERTIES CatchesUp
