SPECIFICATION FairSpec
CONSTANTS
  b1 = b1
  b2 = b2
  b3 = b3
  Bundle = {b1, b2, b3}
  LegsOf <- TwoOneOne
  MaxSession = 1
  MaxOrders = 2
  AwaitsLogon = TRUE
  MaxDrops = 1
  MaxPauses = 1
  MaxBeats = 0
INVARIANT AnswersTrue
INVARIANT CountedIsFilled
INVARIANT CapOverrun
PROPERTY BundleEnds
CHECK_DEADLOCK FALSE
