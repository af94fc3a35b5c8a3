SPECIFICATION ArtSpec
CONSTANTS
  b1 = b1
  b2 = b2
  Builds <- MCBuilds
  Trainings = {t1, t2}
  Loads = {s1}
  Checks = {d1}
  Absent = Absent
  Torn = Torn
  MaxStarted = 4
  Candidates <- MCCandidates
  Mae <- MCMae
SYMMETRY MCSymmetry
INVARIANT GroupIsWhole
INVARIANT QuietReadIsOfOneRun
INVARIANT BestIsServed
CHECK_DEADLOCK FALSE
