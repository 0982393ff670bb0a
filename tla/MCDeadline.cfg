CONSTANTS
  Slots = {s1, s2}
  NoSlot = none
  UnknownBit = unknown
  UMAX = 2
  DlCalls <- MCCalls
  Readings <- MCReadings
  Requests <- MCRequests
SPECIFICATION DlSpec
INVARIANTS DlTypeOK DlValid DeadlineHolds
PROPERTIES NeverRelaxed DlRefines
SYMMETRY SlotSymmetry
