SPECIFICATION Spec
SYMMETRY SymOfPayments
CONSTANTS
  s1 = s1
  s2 = s2
  s3 = s3
  c1 = c1
  a1 = a1
  a2 = a2
  r1 = r1
  r2 = r2
  Nobody = Nobody
  Absent = Absent
  Unlimited = Unlimited
  NoRand = NoRand
  CutRand = r2
  Script <- ThreeScripts
  Cron <- NoCron
  Addr <- TwoAddrs
  Rand <- Rands
  Kinds <- GrantOrTopup
  Seller = r2
  Tariff = 1
  Day = 3
  Price = 1
  Span = 3
  MaxTime = 0
  InitValue <- Values
  InitialAcl <- EmptyAcl
  InitialLocal <- EmptyLocal
  Faults <- SomeFaults
INVARIANTS MoneyIsAccounted PaidTimeKept PaidAreLetThrough
CHECK_DEADLOCK FALSE
