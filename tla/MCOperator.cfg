CONSTANTS
  r1 = r1
  r2 = r2
  grant = grant
  revoke = revoke
  Runs <- MCRuns
  Commands <- MCCommands
  Sequences = {1}
  MaxContexts = 2
SYMMETRY MCSymmetry
SPECIFICATION Spec
INVARIANTS
  LaunchedOnce
  OnePacketPerSequence
  ReportsSurvive
