SPECIFICATION Spec
CONSTANTS
  x = x
  y = y
  Thread = {w1, w2}
  Leg <- Legs
  Bundle <- Bundles
  MaxSession = 4
  MaxLegs = 2
  MaxBundle = 3
  Offset <- NextTicks
  MaxFilled = 8
SYMMETRY ThreadSymmetry
INVARIANT OverrunBounded
INVARIANT FilledIsCounted
INVARIANT OrdersMatchLegs
