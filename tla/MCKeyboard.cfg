\* A ring that holds two keys, and enough presses and releases to fill it,
\* overflow it, and hold modifiers across the overflow.
CONSTANTS
  BUFSZ = 3
  keymap <- MCkeymap
  keymap_shift <- MCkeymap_shift
  Plain = {29, 32, 42, 54}
  Extended = {72}
  MaxEvents = 4
SPECIFICATION FairSpec
INVARIANTS
  TypeOK
  NothingLostOrRepeated
  NoStrandedCode
  NoStuckModifier
PROPERTIES
  ImplementsQueue
  DevicesDrain
  WaitingCallReturns
