SPECIFICATION FeedsSpec
CONSTANTS
  a = a
  c = c
  k = k
  s0 = s0
  s1 = s1
  i = i
  j = j
  NoBook = NoBook
  Ticks = 3
  MaxSize = 2
  MaxDoubled = 1
  MaxDrops = 1
  Token = {a}
  Level = {1, 2}
  Slot = {s0, s1}
  MaxEvents = 2
  MaxUpdates = 1
  MaxSeeds = 1
  Ticker = {k}
  One = 3
  MaxQuotes = 2
  MaxWishes = 1
  MaxRest = 1
  MaxPauses = 1
  MaxBeats = 1
  SnapshotToken = {a, c}
  SnapshotPrice = {1, 2}
  SnapshotMaxAge = 0
  SnapshotTime = 2
  MaxWrites = 2
  Signal = {i, j}
  SignalMaxAge = 2
  Keep = 4
  Skew <- MCSkew
  SignalTime = 9
INVARIANT Converged
INVARIANT SizesKept
INVARIANT MissedOnlyWhileConnecting
INVARIANT MirrorsExchange
INVARIANT WishesSent
INVARIANT SequenceHolds
INVARIANT ScalarsAgree
INVARIANT SnapshotTrue
INVARIANT AtMostOnce
CHECK_DEADLOCK FALSE
SYMMETRY SlotsAlike
