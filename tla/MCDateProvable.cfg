\* What stands in a date position, in every rule of up to five nodes.
SPECIFICATION Spec
CONSTANTS
    LastDay = 9
    NotFlat = {}
    Data <- MCData
    Today = 2
    MaxNodes = 5
    MaxArgs = 2
    Leaves <- DateLeaves
    Functions <- DateFunctions
    Constants <- MCConstants
    Fields <- MCFields
    TypedRows <- MCTypedRows
INVARIANT DateArgumentsYieldDates
CHECK_DEADLOCK FALSE
