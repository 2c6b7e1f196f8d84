CONSTANTS
  Keys = {8, 30, 46, 29, 157, 42, 58, 28}
SPECIFICATION KeyboardSpec
INVARIANTS KeyboardInv KillIsTyped
PROPERTIES LetterIsTyped
