\* Two tasks of one chat, a resume, a lost folder, a crash.
SPECIFICATION Spec
CONSTANTS
  a = a
  b = b
  chat = chat
  resume1 = resume1
  cancel1 = cancel1
  cancel2 = cancel2
  Tasks <- TwoTasks
  ChatOf <- ChatOfTwo
  Interactive <- None
  Losable <- OneTask
  Resumers <- OneResumer
  ResumeOf <- ResumeA
  Cancellers <- None
  AimOf <- CancelNothing
  CallerOf <- CancelNothing
  TurnChats <- None
  MaxParallel = 1
  ShutsDown = FALSE
  MaxRuns = 3
  MaxCrashes = 1
INVARIANTS OneExecution RunningHasRun
PROPERTIES LifecycleSpec
CHECK_DEADLOCK FALSE
