SPECIFICATION RelSpec
CONSTANTS
  NoRows = NoRows
  Syncs = {s1, s2}
  Inspections = {i1}
  MaxGen = 2
SYMMETRY MCSymmetry
INVARIANT CommittedIsOneSync
INVARIANT StatementsFindTheirTables
INVARIANT QuietInspectionIsWhole
INVARIANT SummaryLagsOnlyByCrossing
CHECK_DEADLOCK FALSE
