CONSTANTS
  NoRow = NoRow
  MaxJobs = 2
  MaxSaid = 3
  MaxAbsences = 1
SPECIFICATION Spec
CHECK_DEADLOCK FALSE
INVARIANTS
  TypeOK
  PurgedIsStored
  VerdictIsTrue
  DeadlineFollowsPresence
PROPERTIES
  RecordSpec
  ClosedStaysClosed
