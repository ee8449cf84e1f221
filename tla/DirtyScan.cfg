SPECIFICATION ScanSpec
CONSTANTS
  a = a
  b = b
  c = c
  p1 = p1
  p2 = p2
  NLeg = NLeg
  NoBook = NoBook
  All = All
  Token = {a, b, c}
  Pair = {p1, p2}
  Legs <- MCLegs
  NLegTokens = {a, c}
  FallbackToPolling = TRUE
  AllowStaleCache = FALSE
  MaxEvents = 3
  One = 4
  Level = {1, 3}
  MaxSize = 3
  Leg = {1, 2, 3}
  Payout = 8
  FeeScale = 10
  Slippage = 0
  EntryThreshold = 4
  NearThreshold = 5
  MinEdge = 0
  MinTrade = 4
  Limit = {5, 16}
  Grid = 2
INVARIANT ObservationsCurrent
INVARIANT FilterLosesNothing
INVARIANT SizesNearBest
PROPERTY UnaskedOneScan
SYMMETRY Mirror
CHECK_DEADLOCK FALSE
