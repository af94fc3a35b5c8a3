SPECIFICATION FlowSpec
CONSTANTS
  MaxCommands = 2
  Singles <- MCSingles
INVARIANT GateDecides
CHECK_DEADLOCK FALSE
