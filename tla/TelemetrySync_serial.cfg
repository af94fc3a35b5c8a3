SPECIFICATION TelSpec
CONSTANTS
  Torn = Torn
  NoRow = NoRow
  Loggers = {w1, w2}
  Syncers = {s1, s2}
  MaxRequests = 2
  Overlap = FALSE
SYMMETRY MCSymmetry
INVARIANT TelTypeOK
INVARIANT LossIsLoud
INVARIANT ShortfallIsSharedIds
PROPERTY StoreMovesForward
CHECK_DEADLOCK FALSE
