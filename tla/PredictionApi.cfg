SPECIFICATION Spec
CONSTANTS
  z1 = z1
  z2 = z2
  fresh = fresh
  stale = stale
  NoRow = NoRow
  Absent = Absent
  Torn = Torn
  Nobody = Nobody
  Zones <- MCZones
  Ages <- MCAges
  FreshAges <- MCFreshAges
  Materialisable <- MCMaterialisable
  Requests = {r1, r2}
  RejectStale = TRUE
  KeyRequired = TRUE
  MaxLives = 2
INVARIANT ApiTypeOK
INVARIANT MetricsAddUp
INVARIANT AnsweredIsLogged
INVARIANT IdsIncrease
INVARIANT KnownZoneNeverUnknown
INVARIANT ReadyNeverLapses
PROPERTY RequestsAnswered
CHECK_DEADLOCK FALSE
