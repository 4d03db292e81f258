\* The day changes between the evaluations of one request.
SPECIFICATION Safety
CONSTANTS
    Requests = {r1}
    NoRow = NoRow
    FirstDay = 1
    MaxDay = 2
    LastDay = 9
    NotFlat = {}
    Configs <- MCConfigs
    Rows <- MCRows
    Asks <- MCAsks
    Order <- MCOrder
INVARIANT OneReferenceDay
