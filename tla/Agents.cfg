\* One sub-agent, a command of the user beside the watcher of agents.json, two
\* edits of it, one crash before the supervisor gives up, a request
\* from the main agent or to it.
SPECIFICATION Spec
CONSTANTS
  main = main
  coder = coder
  r1 = r1
  r2 = r2
  r3 = r3
  command = command
  watcher = watcher
  q1 = q1
  NoRun = NoRun
  NoName = NoName
  Names <- OneName
  Main = main
  Runs <- ThreeRuns
  Commands <- OneCommand
  Watcher = watcher
  Requests <- OneRequest
  MaxRetries = 1
  MaxEdits = 2
INVARIANTS
  TablesAgree
  ResultsReachTheSender
PROPERTIES
  EventuallyInSync
  AcceptedIsSettled
