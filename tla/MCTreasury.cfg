SPECIFICATION Spec
CONSTANTS
  p1 = p1
  p2 = p2
  t1 = t1
  m1 = m1
  s1 = s1
  i1 = i1
  Payouts <- MCPayouts
  Contributions <- MCContributions
  Manual <- MCManual
  Paystack <- MCPaystack
  Settled <- MCSettled
  Fee <- MCFee
  Personal <- MCPersonal
  Gross <- MCGross
  Earlier <- MCEarlier
  Handed = "PROCESSING"
  Done = "COMPLETED"
  MaxRedeliveries = 1
  MaxAmount = 1
SYMMETRY Symmetry
INVARIANTS
  TypeOK
  OnlyLateOverdraw
  DriftExplained
CHECK_DEADLOCK FALSE
