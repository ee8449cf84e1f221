SPECIFICATION Spec
CONSTANTS
  Pair = {p1, p2}
  NLeg = {n1}
  NoName = NoName
  Task = {t1, t2, t3}
  p1 = p1
  p2 = p2
  Budget = 4
  MinTrade = 1
  MaxTrade = 3
  FractionPct = 100
  LegCount = 3
  MaxOpen = 9
  MaxOpenPerPair = 9
  MaxLocked = 99
  AllowMultiple = FALSE
  AllowIncremental = FALSE
  RestRecheck = TRUE
  LiveMode = FALSE
  ClosesOnConvergence = TRUE
  TakeProfit = 1
  StopLoss = 1
  MaxGain = 1
  MaxTrades = 4
  SizePct <- ScaledSize
SYMMETRY TaskSymmetry
INVARIANT ReservationIffTask
INVARIANT NoOutcomeMerged
PROPERTY ImplementsLedger
CHECK_DEADLOCK FALSE
