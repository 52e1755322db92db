CONSTANTS
  Slots = {s1, s2}
  Main = main
  Closer = closer
  InitialLogs <- NewInterview
  MaxFollowups = 1
  TurnsDuringPlayout = TRUE
  UntimedSpeech = TRUE
  MaxLog = 2
  MaxDepartures = 1
SPECIFICATION LoopSpec
PROPERTIES
  JobEnds
  AnswerFollowedUp
