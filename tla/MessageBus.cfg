\* Two bots in one process, one chat; the pool has room for every session.
SPECIFICATION FairBusSpec
CONSTANTS
  u = u
  h = h
  r = r
  r2 = r2
  a = a
  b = b
  c1 = c1
  NoTurn = NoTurn
  Transports <- TwoBots
  Chats <- OneChat
  Turns <- SixTurns
  OriginOf <- SixOrigins
  TransportOf <- SixTargets
  ChatOf <- TheChat
  After <- SecondBot
  Keys <- TheKeys
  KeyOf <- TheKeyOf
  MaxLocks = 3
INVARIANTS AnswerBeforeNextTurn FailureIsolated
PROPERTIES EverySubmissionEnds
CHECK_DEADLOCK FALSE
