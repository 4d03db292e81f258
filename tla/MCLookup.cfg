\* One request, every row, every question: what a request is due.
SPECIFICATION Safety
CONSTANTS
    Requests = {r1}
    NoRow = NoRow
    FirstDay = 1
    MaxDay = 2
    LastDay = 9
    NotFlat = {}
    Configs <- MCConfigs
    Rows <- MCRows
    Asks <- MCAsks
    Order <- MCOrder
INVARIANTS
    TypeOK
    WorkIsExplained
    PayloadsAgreeWithDerived
    RoundOneFeedsRoundTwo
    NotComputableBlamesTheRow
PROPERTIES
    KeepsThePromise
