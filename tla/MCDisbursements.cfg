SPECIFICATION FairSpec
CONSTANTS
  p1 = p1
  p2 = p2
  c1 = c1
  c2 = c2
  t1 = t1
  NoCategory = NoCategory
  Payouts <- MCPayouts
  Categories <- MCCategories
  Contributions <- MCContributions
  Manual <- MCManual
  Settled <- MCSettled
  Handed = "QUEUED"
  Done = "SUCCESS"
  MaxRedeliveries = 1
  MaxAllocation <- MCMaxAllocation
INVARIANTS
  TypeOK
  NeverOverpaid
  NeverBeyondReceipts
  FinalMatchesGateway
PROPERTIES
  ImplementsPool
  HandedSettles
