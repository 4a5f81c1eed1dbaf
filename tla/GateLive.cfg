SPECIFICATION FairSpec
CONSTANTS
  s1 = s1
  s2 = s2
  s3 = s3
  c1 = c1
  a1 = a1
  a2 = a2
  r1 = r1
  r2 = r2
  Nobody = Nobody
  Absent = Absent
  Unlimited = Unlimited
  NoRand = NoRand
  CutRand = r2
  Script <- OneScript
  Cron <- OneCron
  Addr <- OneAddr
  Rand <- Rands
  Kinds <- Grants
  Seller = NoRand
  Tariff = 1
  Day = 3
  Price = 1
  Span = 3
  MaxTime = 1
  InitValue <- Values
  InitialAcl <- Clients
  InitialLocal <- EmptyLocal
  Faults <- LiveFaults
PROPERTY PaymentsSettle ExpiredIsHandled
