SPECIFICATION Spec
CONSTANTS
  MaxTickets = 1
  MaxLots = 1
  Stops = {0, 1}
  MaxOps = 1
  MaxLists = 1
  UserCalls = {"modify", "bypass"}
  Outside = {}
PROPERTY KeepsCurrent
