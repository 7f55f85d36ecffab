SPECIFICATION FairSpec
CONSTANTS
  MaxTrades = 2
  Kinds = {"open", "modify"}
  Unruly = TRUE
INVARIANTS TypeOK OnlyDisturbedStray UndisturbedExact EachMessageOnce
PROPERTIES BookOnce EveryTradeEnds PromiseKept
