\* Four lines entered, two more than the history holds.
CONSTANTS
  VGA_WIDTH = 3
  VGA_HEIGHT = 2
  Glyphs = {" ", "#", "a", "b", "o"}
  Chars = {"a", "b"}
  MAX = 3
  HIST_MAX = 2
  Prompt <- MCPrompt
  Outputs <- MCOutputs
  MaxLines = 4
SPECIFICATION Spec
INVARIANTS
  TypeOK
  RecallsEntered
  ScreenShowsLine
CHECK_DEADLOCK FALSE
