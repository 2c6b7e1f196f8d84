CONSTANTS
  VHEIGHT = 2
  VWIDTH = 2
  Colors = {0, 1}
  STAMPS = 3
SPECIFICATION VideoSpec
INVARIANTS VideoInv
PROPERTIES FlushShowsCache
