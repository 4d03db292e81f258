\* Two requests at once for one view of one person, competing for the loop.
SPECIFICATION Spec
CONSTANTS
    Requests = {r1, r2}
    NoRow = NoRow
    FirstDay = 1
    MaxDay = 1
    LastDay = 9
    NotFlat = {}
    Configs <- PairConfigs
    Rows <- PairRows
    Asks <- PairAsks
    Order <- MCOrder
INVARIANT
    SameFieldSameValue
PROPERTIES
    EveryRequestIsAnswered
