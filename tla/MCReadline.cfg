CONSTANTS
  Chars = {"x", "y"}
  BUFLEN = 4
  HLINES = 3
  HLEN = 2
SPECIFICATION ReadlineSpec
INVARIANTS ReadlineInv LineShown HistoryKeepsLines
