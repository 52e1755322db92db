CONSTANTS
  TextRequests = {g1, g2}
  AudioRequests = {v1}
  TextConsumers = {t1}
  AudioConsumers = {a1}
  Messages <- AllRequests
  Consumers <- AllConsumers
  NoMessage = NoMessage
  Absent = Absent
  Nobody = Nobody
  Evaluations = {e1}
  Sessions = {"no transcript", "no resume", "silent", "spoken"}
  GiveUpAt = 3
  RetryMaxAttempts = 1
  SlowHandlers = FALSE
  AudioSettings = {TRUE, FALSE}
SPECIFICATION FairSpec
CHECK_DEADLOCK FALSE
INVARIANTS
  WorkHasRequest
  DeliveryIsOfTheSpeech
  EvaluationIsOfTheInterview
PROPERTIES
  ReportConcludes
  RequestsDrain
