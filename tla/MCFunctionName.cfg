\* A derived field bears the name of a function and a payload reads it.
SPECIFICATION Safety
CONSTANTS
    Requests = {r1}
    NoRow = NoRow
    FirstDay = 1
    MaxDay = 2
    LastDay = 9
    NotFlat = {}
    Configs <- RenamedConfigs
    Rows <- MCRows
    Asks <- RenamedAsks
    Order <- RenamedOrder
INVARIANT RoundOneFeedsRoundTwo
