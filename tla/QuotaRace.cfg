SPECIFICATION Spec
CONSTANTS
  k1 = k1
  k2 = k2
  k3 = k3
  Keys = {k1, k2}
  Size <- MCSize
  HardLimit = 3
  Writers = {w1, w2}
  Retained = {}
  Sweeps = {}
  MaxFaults = 0
INVARIANT
  BytesWithinLimit
