\* Four locks for five sessions: get() of the fifth evicts half of the idle ones.
SPECIFICATION Spec
CONSTANTS
  k1 = k1
  k2 = k2
  k3 = k3
  k4 = k4
  k5 = k5
  t1 = t1
  t2 = t2
  t3 = t3
  t4 = t4
  t5 = t5
  t6 = t6
  NoTurn = NoTurn
  Keys <- FiveKeys
  Turns <- SixTurns
  KeyOf <- TwoAndOneEach
  MaxLocks = 4
PROPERTIES GrowsOnlyWhenAllHeld HeldLockStays
CHECK_DEADLOCK FALSE
