CONSTANTS
  A = A
  B = B
  Caller = Caller
  Nobody = Nobody
  Slots <- MCSlots
  NoSlot = NoSlot
  UMAX = 2
  UnknownBit = UnknownBit
SPECIFICATION FairSpec
PROPERTIES
  Contained
\* The observer may wait for a receipt that a call of the broker pre-empted.
CHECK_DEADLOCK FALSE
