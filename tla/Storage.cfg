SPECIFICATION Spec
CONSTANTS
  k1 = k1
  k2 = k2
  k3 = k3
  Keys = {k1, k2}
  Size <- MCSize
  HardLimit = 3
  Writers = {w1, w2}
  Retained = {k1}
  Sweeps = {s1, s2}
  MaxFaults = 1
INVARIANTS
  OnlyOverlookedExceed
  CompletedIsGone
PROPERTIES
  RetentionEnds
