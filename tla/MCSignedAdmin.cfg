CONSTANTS
  Subjects = {client, other}
  NoSubject = nobody
  Client = client
  UMAX = 3
  CAPACITY = 2
  Contexts = {b1, b2}
  NoContext = none
  Packets <- MCPackets
  ReadRequests <- MCReadRequests
SPECIFICATION FairSpec
INVARIANTS TypeOK SequencesAgree WedgedOnlyByDamage ReportTruthful
PROPERTIES ExecutedOnce FailsClosed PendingResolved
