SPECIFICATION FilesSpec
CONSTANTS
  RngProcs = {p1, p2, p3}
  MaxSerial = 3
  NoNumber = NoNumber
  NoFile = NoFile
  ShortFile = ShortFile
  Payers = {p1, p2}
  FirstSn = 3
  MaxLine = 3
  LogBound = 4
  LastSecond = 1
  Window = 3
  Near = 3
  Callers = {p1, p2}
  MaxTemplate = 3
  Worth = 3
  MaxCalls = 2
  FixProcs = {p1, p2}
  FixAddr = {a1, a2}
  FixFiles = 2
  FixSpan = 1
  FixLastTime = 1
  FixMaxExpire = 2
  NoEntry = NoEntry
  NoExpire = NoExpire
  Tariffs <- TwoTariffs
  Wanted <- Times
  MaxInt = 15
  DefaultAcl = "default"
  NoAcl = "none"
INVARIANTS SerialsDoNotRepeat SerialsAreConsecutive InvoiceIsFound
INVARIANTS AnswerIsTrue FixRulesFollow PaymentBuysItsTime
PROPERTIES CallReturns FilesAreOneTable
CHECK_DEADLOCK FALSE
