\* Two sessions at most and two tasks at a time: two new sessions, a follow-up in
\* the background and one in the foreground, two orders to end and two crashes, so
\* that a resumption can be lost in turn.
SPECIFICATION Spec
CONSTANTS
  redowl = redowl
  calmfox = calmfox
  start = start
  again = again
  ask = ask
  reply = reply
  resume = resume
  revive = revive
  retry = retry
  renew = renew
  NoName = NoName
  Names <- TwoNames
  Jobs <- EightJobs
  New <- TwoNew
  Foreground <- OnlyReply
  Resumptions <- FourResume
  MaxSessions = 2
  MaxTasks = 2
  MaxOrders = 2
  MaxCrashes = 2
SYMMETRY Symmetric
INVARIANTS
  OneWorker
  StatusIsTrue
  EndedStaysEnded
  ResumedWasRunning
