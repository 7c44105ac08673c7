\* Two bots in one process: a message and a task result of one chat.
SPECIFICATION BusSpec
CONSTANTS
  u = u
  h = h
  r = r
  r2 = r2
  a = a
  b = b
  c1 = c1
  NoTurn = NoTurn
  Transports <- TwoBots
  Chats <- OneChat
  Turns <- UserAndResult
  OriginOf <- UserAndResultOrigins
  TransportOf <- ByTelegram
  ChatOf <- TheChat
  After <- NoFanOut
  Keys <- TheKeys
  KeyOf <- TheKeyOf
  MaxLocks = 3
INVARIANTS OneTurnPerChat
CHECK_DEADLOCK FALSE
