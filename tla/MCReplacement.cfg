CONSTANTS
  A = A
  B = B
  Controller = Controller
  Nobody = Nobody
  Slots <- MCSlots
  NoSlot = NoSlot
  UMAX = 3
SPECIFICATION Spec
INVARIANTS
  Handover
