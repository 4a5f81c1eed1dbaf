SPECIFICATION FixSpec
CONSTANTS
  FixProcs = {p1, p2}
  FixAddr = {a1, a2}
  FixFiles = 2
  FixSpan = 1
  FixLastTime = 1
  FixMaxExpire = 2
  NoEntry = NoEntry
  NoExpire = NoExpire
PROPERTY WhitelistedAreNotToppedUp
CHECK_DEADLOCK FALSE
