SPECIFICATION FairSpec
CONSTANTS
  MaxEntries = 2
  MaxCancels = 1
INVARIANTS TypeOK Attended ExitStops HungOnlyIf ReentryDeaf LastRounds
PROPERTIES EntersOrFails ExitEnds TasksEnd
CHECK_DEADLOCK FALSE
