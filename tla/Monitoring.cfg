SPECIFICATION MonSpec
CONSTANTS
  z1 = z1
  z2 = z2
  Zones = {z1, z2}
  Latencies = {20, 250, 251, 1001}
  Missing = Missing
  Text = Text
  P95Warn = 250
  P95Hold = 1000
  MinPredictions = 1
  Lengths = {2, 10, 11, 19, 20, 21}
  Inputs <- MCInputs
INVARIANT SlowTailIsWarned
INVARIANT HoldsAreOfTheMany
INVARIANT SilenceMeansServable
CHECK_DEADLOCK FALSE
