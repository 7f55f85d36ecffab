SPECIFICATION FairSpec
CONSTANTS
  Callers = {"poll", "user", "history"}
  Cmds = {"positions", "account", "candles", "deals"}
  Uses <- OwnUses
  Slow = {}
  Abortable = {}
  MaxCalls = 4
PROPERTY ExactCalls
