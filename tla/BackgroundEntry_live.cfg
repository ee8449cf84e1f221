SPECIFICATION FairSpec
CONSTANTS
  Pair = {p1}
  NLeg = {n1}
  NoName = NoName
  Task = {t1, t2}
  p1 = p1
  p2 = p2
  Budget = 3
  MinTrade = 1
  MaxTrade = 2
  FractionPct = 100
  LegCount = 3
  MaxOpen = 9
  MaxOpenPerPair = 9
  MaxLocked = 99
  AllowMultiple = FALSE
  AllowIncremental = FALSE
  RestRecheck = TRUE
  LiveMode = TRUE
  ClosesOnConvergence = FALSE
  TakeProfit = 1
  StopLoss = 1
  MaxGain = 1
  MaxTrades = 3
  SizePct <- FlatSize
INVARIANT NoDuplicateOpen
INVARIANT PastTheCheck
PROPERTY ImplementsLedger
PROPERTY ReservationReleased
CHECK_DEADLOCK FALSE
