SPECIFICATION Spec
CONSTANTS
  Callers = {"eurusd", "gbpusd"}
  Cmds = {"candles"}
  Uses <- SharedUses
  Slow = {}
  Abortable = {}
  MaxCalls = 3
INVARIANT OwnAnswer
