SPECIFICATION Spec
CONSTANTS
    Tasks = {a, b}
    Tickets = {1, 2, 3}
    Own = {2}
    Foreign = {1}
    Symbols = {"EURUSDm", "other"}
    Known = {"EURUSDm"}
    MaxPrice = 2
    MaxStop = 0
    MaxCalls = 2
    MaxFaults = 1
INVARIANTS TypeOK CachedAsPlaced PriceSticks FoundWhileOpen
SYMMETRY TaskSymmetry
CHECK_DEADLOCK FALSE
