CONSTANTS
  FirstRequests = {r1, r2}
  Reanalyses = {f1}
  Reindexes = {x1}
  Messages <- AllRequests
  Consumers = {c1}
  NoMessage = NoMessage
  Absent = Absent
  Structured = {s1}
  Edits = {u1}
  Resumes = {"missing", "scan", "text"}
  GiveUpAt = 3
  RetryMaxAttempts = 1
  SlowHandlers = FALSE
SPECIFICATION FairSpec
CHECK_DEADLOCK FALSE
INVARIANTS
  TypeOK
  ParsedHasData
  WorkHasRequest
PROPERTIES
  OnlyNewRunReopens
  AnalysisConcludes
  RequestsDrain
