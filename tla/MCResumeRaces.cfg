CONSTANTS
  FirstRequests = {r1, r2}
  Reanalyses = {}
  Reindexes = {}
  Messages <- AllRequests
  Consumers = {c1, c2}
  NoMessage = NoMessage
  Absent = Absent
  Structured = {s1, s2}
  Edits = {u1}
  Resumes = {"missing", "scan", "text"}
  GiveUpAt = 3
  RetryMaxAttempts = 2
  SlowHandlers = TRUE
SYMMETRY Interchangeable
SPECIFICATION RacesSpec
CHECK_DEADLOCK FALSE
INVARIANTS
  OutcomeToldIsTrue
  ChunksSayTheResume
  WorkHasRequestUnlessOvertaken
PROPERTY AnalysisSpec
