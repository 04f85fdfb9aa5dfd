CONSTANTS
  PERIOD = 10
  SECOND = 20
  WORD = 4096
  Operands <- MCOperands
  MaxTicks = 7
  StartTimes <- MCStartTimes
  Modes <- MCModes
  MaxUpdates = 2
SPECIFICATION Spec
INVARIANTS
  SleepLongEnough
  ReadIsATime
PROPERTIES
  SleepEnds
