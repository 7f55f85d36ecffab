SPECIFICATION Spec
CONSTANTS
  MaxTickets = 2
  MaxLots = 2
  Stops = {0}
  MaxOps = 3
  MaxLists = 1
  UserCalls = {"buy", "look", "close", "partial"}
  Outside = {"open", "reduce"}
INVARIANTS NeverUnderstated CloseWhole LotsSettle
PROPERTY VolumeOnlyFalls
