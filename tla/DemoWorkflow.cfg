SPECIFICATION FlowSpec
CONSTANTS
  MaxCommands = 3
  Singles <- MCSingles
INVARIANT PassedIsOwn
INVARIANT OwnGateDecides
INVARIANT MixedApprovalHasCause
VIEW MCView
CHECK_DEADLOCK FALSE
