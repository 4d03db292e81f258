\* Two requests and an operator who edits while they are answered; a third for the engine.
SPECIFICATION MCSpec
CONSTANTS
    Empty = Empty
    Requests = {r1, r2, r3}
    NotFlat = {}
    LastDay = 9
    Environments <- GatewayEnvironments
    Files <- GatewayFiles
    Calls <- MCCalls
INVARIANTS
    GatewayTypeOK
    OnlyTheTokenOpensTheSeams
    LateRequestsShareTheEngine
    FailuresAreLogged
PROPERTIES
    KeepsTheContract
