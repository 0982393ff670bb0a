CONSTANTS
  Subjects = {client, other}
  NoSubject = nobody
  Client = client
  UMAX = 3
  CAPACITY = 8
  AdminRequests <- MCAdminRequests
  ReadRequests <- MCReadRequests
VIEW MCView
SPECIFICATION Spec
INVARIANTS SnapshotsValid AuditExplains
PROPERTIES NothingUnrecorded Refines
