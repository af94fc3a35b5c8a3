SPECIFICATION SnapSpec
CONSTANTS
  z1 = z1
  z2 = z2
  fresh = fresh
  stale = stale
  NoRow = NoRow
  Absent = Absent
  Torn = Torn
  Zones <- MCZones
  Ages <- MCAges
  Materialisable <- MCMaterialisable
  Materialisers = {m1, m2}
  Syncers = {s1}
INVARIANT SnapTypeOK
INVARIANT TornHasCause
INVARIANT LastMaterialisedIsServed
INVARIANT ManifestMatchesSnapshot
PROPERTY ImplementsFile
PROPERTY JobsEnd
CHECK_DEADLOCK FALSE
