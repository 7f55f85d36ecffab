SPECIFICATION FairSpec
CONSTANTS
  MaxTickets = 1
  MaxLots = 1
  Stops = {0, 1}
  MaxOps = 2
  MaxLists = 2
  UserCalls = {"buy", "partial", "modify", "bypass"}
  Outside = {"stop"}
INVARIANT TypeOK
PROPERTY StopsConverge
