SPECIFICATION TelSpec
CONSTANTS
  Torn = Torn
  NoRow = NoRow
  Loggers = {w1, w2}
  Syncers = {s1}
  MaxRequests = 2
  Overlap = FALSE
INVARIANT SyncCopiesEveryRow
CHECK_DEADLOCK FALSE
