\* An interactive task, cancelled twice while the hub shuts down.
SPECIFICATION FairSpec
CONSTANTS
  a = a
  b = b
  chat = chat
  resume1 = resume1
  cancel1 = cancel1
  cancel2 = cancel2
  Tasks <- OneTask
  ChatOf <- ChatOfOne
  Interactive <- OneTask
  Losable <- None
  Resumers <- None
  ResumeOf <- NoResume
  Cancellers <- TwoCancellers
  AimOf <- CancelATwice
  CallerOf <- ByTurnAndButton
  TurnChats <- OneChat
  MaxParallel = 1
  ShutsDown = TRUE
  MaxRuns = 1
  MaxCrashes = 0
PROPERTIES OutcomeDelivered EveryCancelReturns EveryStopEnds
CHECK_DEADLOCK FALSE
