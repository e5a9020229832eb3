SPECIFICATION SpendingSpec
CONSTRAINT OverlapsFollowed
CONSTANTS
  c1 = c1
  c2 = c2
  t1 = t1
  m1 = m1
  h1 = h1
  h2 = h2
  v1 = v1
  p1 = p1
  p2 = p2
  Nobody = Nobody
  Categories <- MCCategories
  Contributions <- MCContributions
  Manual <- MCManual
  Settled <- MCSettled
  Goal = 7
  Precision = 10
  MaxEstimate = 1
  MaxAmount = 2
  OtherRequests <- MCOtherRequests
  Calls <- MCCalls
  Vendors <- MCVendors
  Payouts <- MCPayouts
SYMMETRY Symmetry
INVARIANTS
  SerialAllocationsCovered
  SerialApprovalStands
  FundedWasApproved
  LateChangesBounded
  SerialPaidAsApproved
  SerialPayoutKeepsItsRows
PROPERTIES
  SpendingWithinPools
CHECK_DEADLOCK FALSE
