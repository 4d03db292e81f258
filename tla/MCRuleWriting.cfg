\* Every rule of up to five nodes.
SPECIFICATION Spec
CONSTANTS
    LastDay = 9
    NotFlat = {}
    Data <- MCData
    Today = 2
    MaxNodes = 5
    MaxArgs = 3
    Leaves <- MCLeaves
    Functions <- MCFunctions
    Constants <- MCConstants
    Fields <- MCFields
    TypedRows <- MCTypedRows
INVARIANTS
    EvaluateFindsItsArguments
    ServedRulesReadDates
    CallsReturnWhatTheTableSays
    ReferencedFieldsSuffice
CHECK_DEADLOCK FALSE
