CONSTANTS
  LineMax = 4
  PacketDigits = 2
  UMAX = 12
  MaxText = 5
  Keys <- MCKeys
SPECIFICATION EditorSpec
INVARIANTS
  ExactText
  SeenIsRun
  DecimalExact
