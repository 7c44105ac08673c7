\* A private chat with a topic: a streamed message of the topic, a message of the
\* chat, a result injected into the topic, one order of the user and a crash.
SPECIFICATION Spec
CONSTANTS
  chat = chat
  main = main
  topic = topic
  ask = ask
  next = next
  result = result
  NoTurn = NoTurn
  Chats <- OneChat
  Keys <- TwoKeys
  ChatOf <- BothOfChat
  Turns <- ThreeTurns
  KeyOf <- KeyOfThree
  Topicless <- OnlyMain
  Injected <- OnlyResult
  Streamed <- OnlyAsk
  Groups <- NoGroups
  MaxOrders = 1
  MaxCrashes = 1
INVARIANTS
  StoppedStaysStopped
  DiscardExplained
  ProcessesWatched
  LostIsAnnounced
