CONSTANTS
  Slots = {s1, s2}
  Main = main
  Closer = closer
  InitialLogs <- EveryInterview
  MaxFollowups = 2
  TurnsDuringPlayout = TRUE
  UntimedSpeech = FALSE
  MaxLog = 4
  MaxDepartures = 1
SYMMETRY Interchangeable
SPECIFICATION Spec
INVARIANTS
  TypeOK
  OneVoice
  AbsenceHasWindow
  ClosingIsLast
  NoDeadAir
  AskedIsHeard
  RowHasEveryAnswer
  LogIsWellKept
  BranchesAreSound
  WaitingForTheFinalAnswer
PROPERTY EndStateSpec
