SPECIFICATION RedisSpec
CONSTANTS
  z1 = z1
  z2 = z2
  old = old
  new = new
  NoRow = NoRow
  Nothing = Nothing
  Zones <- MCZones
  Ages <- MCAges
  Batches <- MCBatches
  Writers = {w1, w2, w3}
  Readers = {r1}
  Overlap = TRUE
SYMMETRY MCSymmetry
INVARIANT LonePutHeals
INVARIANT QuietReadIsWhole
CHECK_DEADLOCK FALSE
