SPECIFICATION LockSpec
CONSTANTS
  Proc = {b1, b2, b3}
  Pid = {k1, k2, k3}
  NoPid = NoPid
  Absent = Absent
  Foreign = {k3}
  MaxRaces = 2
INVARIANT MutualExclusion
PROPERTY RefusalJustified
PROPERTY StartDecides
