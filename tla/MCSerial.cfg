CONSTANTS
  LineMax = 2
  PacketDigits = 1
  UMAX = 9
  Alphabet <- MCAlphabet
  MaxTyped = 5
  RxDepth = 2
  TxDepth = 2
  TxLevel = 1
  RingCapacity = 2
  ReadBound = 1
  Chunk = 2
  StepBound = 2
  OutputSize = 4
  Message = 3
SPECIFICATION FairSpec
INVARIANTS
  NoJoinedInput
  NoLostWakeup
CHECK_DEADLOCK FALSE
