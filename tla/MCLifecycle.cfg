CONSTANTS
  Slots = {s1, s2, s3}
  NoSlot = none
  UMAX = 2
SPECIFICATION LcSpec
INVARIANTS LcTypeOK Valid ReplacementQuiescent WorkAccounted
PROPERTIES TokensOnce LcRefines
SYMMETRY SlotSymmetry
