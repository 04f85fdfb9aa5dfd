\* The table of diff wraps at 4: texts of four lines are past it.
CONSTANTS
  Texts <- MCTexts
  Others <- MCOthers
  Counts <- MCCounts
  WORD16 = 4
SPECIFICATION TextSpec
INVARIANTS
  SortOrders
  DiffEdits
  HeadTailCut
CHECK_DEADLOCK FALSE
