CONSTANTS
  Slots = {s1, s2}
  NoSlot = none
  UnknownBit = unknown
  UMAX = 2
  RdCalls <- MCCalls
SPECIFICATION RdSpec
INVARIANTS RdTypeOK RdValid LatchHolds
PROPERTIES NoProgressOnceAsked StopIntentKept RdRefines
SYMMETRY SlotSymmetry
