\* A pipe holds two bytes, one less than "echo" prints.
CONSTANTS
  Chars = {"e", "c", "o", "m", "k"}
  Cmds = {"echo", "cat", "false", "gone"}
  Builtins = {"echo", "cat", "false"}
  Reads = {"cat"}
  Prints <- MCPrints
  Status <- MCStatus
  Files = {"f", "g", "bad"}
  Unopenable = {"bad"}
  PIPE_MAX = 2
  Message <- MCMessage
  Keys <- MCKeys
  Lines <- MCLines
  MaxLines = 2
SPECIFICATION Spec
INVARIANTS
  TypeOK
  PromptOnConsole
  PipeFlow
  ScreenShows
  ExitIsLast
  EveryCommandRuns
PROPERTIES
  LineEnds
CHECK_DEADLOCK FALSE
