CONSTANTS
  FirstRequests = {r1, r2}
  Reanalyses = {}
  Reindexes = {x1}
  Messages <- AllRequests
  Consumers = {c1, c2}
  NoMessage = NoMessage
  Absent = Absent
  Structured = {s1}
  Edits = {u1}
  Resumes = {"text"}
  GiveUpAt = 3
  RetryMaxAttempts = 1
  SlowHandlers = FALSE
SYMMETRY Interchangeable
SPECIFICATION Spec
CHECK_DEADLOCK FALSE
INVARIANT EmbeddedIsComplete
