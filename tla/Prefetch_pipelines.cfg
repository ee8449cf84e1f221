SPECIFICATION Spec
CONSTANTS
  a = a
  b = b
  c = c
  d = d
  p1 = p1
  p2 = p2
  n1 = n1
  n2 = n2
  Pair = {p1}
  NLeg = {n1, n2}
  NoName = NoName
  Token = {a, b, c, d}
  Legs <- MixedLegs
  MaxRounds = 3
INVARIANT HeldCoversPair
INVARIANT HeldIsOfSpec
PROPERTY StaleOnlyAfterCold
CHECK_DEADLOCK FALSE
