SPECIFICATION FairSpec
CONSTANTS
  Callers = {"poll", "user", "guest"}
  Cmds = {"positions", "account"}
  Uses <- SharedUses
  Slow = {"positions"}
  Abortable = {"guest"}
  MaxCalls = 3
INVARIANTS TypeOK SlotHoldsLatest AnswerNotNewer LostOnlyToRival
PROPERTY EveryCallEnds
