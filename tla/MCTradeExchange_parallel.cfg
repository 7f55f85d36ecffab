SPECIFICATION Spec
CONSTANTS
  MaxTrades = 3
  Kinds = {"open"}
  Unruly = FALSE
INVARIANT OwnOutcome
