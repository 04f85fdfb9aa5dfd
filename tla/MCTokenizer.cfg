CONSTANTS
  SIZE = 7
  MAX_ITEMS = 2
  Characters <- Letters
  Segments <- MCSegments
  Codes = {7, 42}
SPECIFICATION Spec
INVARIANTS
  UnreadIntact
  WordsAsTyped
CHECK_DEADLOCK FALSE
