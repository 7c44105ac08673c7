\* One chat with two sessions, one /stop and a deploy restart.
SPECIFICATION FairQueueSpec
CONSTANTS
  k1 = k1
  k2 = k2
  m1 = m1
  m2 = m2
  m3 = m3
  b1 = b1
  c1 = c1
  stop1 = stop1
  NoTurn = NoTurn
  Keys <- TwoKeys
  Turns <- FourTurns
  KeyOf <- SmallSessionOfTurn
  MaxLocks = 2
  Messages <- ThreeMessages
  QueueChats <- OneChat
  ChatOfKey <- InOneChat
  Drainers <- OneStop
  DrainOf <- StopInChat
INVARIANTS SessionExclusion CancelledNeverServed PendingAgrees
PROPERTIES DrainTakesAll RestartSparesRunning EveryMessageSettled
CHECK_DEADLOCK FALSE
