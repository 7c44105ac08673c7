\* Three replies, the first of which Telegram never takes, two files per drain.
SPECIFICATION FairSpec
CONSTANTS
  Items <- ThreeReplies
  ChunksOf <- ThirdIsLong
  WithFile <- Third
  Poison <- First
  Leftover <- AllButLast
  Limit = 2
  MaxBackoff = 2
  MaxAge = 1
  MaxRestarts = 1
INVARIANTS NothingLost KnownOnlyOnce
PROPERTIES EveryReplyDelivered
CHECK_DEADLOCK FALSE
