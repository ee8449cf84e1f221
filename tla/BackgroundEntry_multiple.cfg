SPECIFICATION Spec
CONSTANTS
  Pair = {p1, p2}
  NLeg = {n1}
  NoName = NoName
  Task = {t1, t2, t3}
  p1 = p1
  p2 = p2
  Budget = 5
  MinTrade = 1
  MaxTrade = 2
  FractionPct = 100
  LegCount = 3
  MaxOpen = 2
  MaxOpenPerPair = 2
  MaxLocked = 4
  AllowMultiple = TRUE
  AllowIncremental = TRUE
  RestRecheck = TRUE
  LiveMode = FALSE
  ClosesOnConvergence = TRUE
  TakeProfit = 1
  StopLoss = 1
  MaxGain = 1
  MaxTrades = 4
  SizePct <- FlatSize
SYMMETRY Symmetry
INVARIANT PerPairCap
INVARIANT IndexesAgree
PROPERTY ImplementsLedger
PROPERTY CooldownHolds
CHECK_DEADLOCK FALSE
