CONSTANTS
  Slots = {s1, s2}
  Main = main
  Closer = closer
  InitialLogs <- AnsweredOnly
  MaxFollowups = 1
  TurnsDuringPlayout = FALSE
  UntimedSpeech = FALSE
  MaxLog = 3
  MaxDepartures = 1
SYMMETRY Interchangeable
SPECIFICATION Spec
INVARIANT RowIsWholeLog
