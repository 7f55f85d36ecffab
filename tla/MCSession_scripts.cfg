SPECIFICATION FairSpec
CONSTANTS
    MaxRounds = 2
    MaxFaults = 2
INVARIANTS TypeOK OwnAnswers KnowsOutcome FailsForReason Backlog
PROPERTY Ends
CHECK_DEADLOCK FALSE
