SPECIFICATION OffSpec
CONSTANTS
  MinutesPerHour = 2
  HoursPerDay = 2
  None = None
  Configs <- MCConfigs
  Fractions <- MCFractions
INVARIANT FeaturesFollowTheRules
INVARIANT LaterEventsChangeNothing
INVARIANT SplitsAreUsable
INVARIANT TrainingKnowsNothingHeldOut
INVARIANT ScheduleIsChronological
CHECK_DEADLOCK FALSE
