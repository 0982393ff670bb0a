CONSTANTS
  LineMax = 2
  PacketDigits = 1
  UMAX = 9
  Alphabet <- MCAlphabet
  MaxTyped = 4
  RxDepth = 2
  TxDepth = 2
  TxLevel = 1
  RingCapacity = 2
  ReadBound = 1
  Chunk = 2
  StepBound = 2
  OutputSize = 4
  Message = 3
SPECIFICATION FairSpec
PROPERTIES
  Served
CHECK_DEADLOCK FALSE
