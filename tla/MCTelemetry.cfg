\* Two requests that overlap, under every setting of the two backends.
SPECIFICATION Spec
CONSTANTS
    Nobody = Nobody
    anna = anna
    bert = bert
    Requests = {r1, r2}
    Calls <- MCCalls
INVARIANTS
    TelemetryTypeOK
    OnlyTheDecidedLeaves
    TagsStayWithTheirRequest
    FailuresArriveLabelled
CHECK_DEADLOCK FALSE
