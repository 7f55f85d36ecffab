SPECIFICATION Spec
CONSTANTS
    Tasks = {"a", "b"}
    Tickets = {1, 2, 3}
    Own = {2}
    Foreign = {1}
    Symbols = {"EURUSDm", "other"}
    Known = {"EURUSDm"}
    MaxPrice = 2
    MaxStop = 1
    MaxCalls = 1
    MaxFaults = 0
INVARIANT ChangesKeepStops
CHECK_DEADLOCK FALSE
