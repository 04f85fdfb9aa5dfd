CONSTANTS
  SIZE = 7
  MAX_ITEMS = 2
  Characters <- Letters
  Segments <- MCSegments
  Codes = {127}
SPECIFICATION Spec
INVARIANTS
  StatusExpands
CHECK_DEADLOCK FALSE
