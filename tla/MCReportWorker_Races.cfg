CONSTANTS
  TextRequests = {g1, g2}
  AudioRequests = {v1}
  TextConsumers = {t1, t2}
  AudioConsumers = {a1}
  Messages <- AllRequests
  Consumers <- AllConsumers
  NoMessage = NoMessage
  Absent = Absent
  Nobody = Nobody
  Evaluations = {e1, e2}
  Sessions = {"spoken"}
  GiveUpAt = 3
  RetryMaxAttempts = 2
  SlowHandlers = TRUE
  AudioSettings = {TRUE, FALSE}
SYMMETRY Interchangeable
SPECIFICATION Spec
CHECK_DEADLOCK FALSE
INVARIANTS
  TypeOK
  OverallCountsDelivery
  TagsOfBothHalves
  TerminalEventsTellTheTruth
PROPERTIES
  TerminalIsFinal
  CompletedOnTime
