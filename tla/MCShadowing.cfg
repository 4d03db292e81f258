\* A constant bears the name of a stored field.
SPECIFICATION Spec
CONSTANTS
    LastDay = 9
    NotFlat = {}
    Data <- MCData
    Today = 2
    MaxNodes = 2
    MaxArgs = 3
    Leaves <- MCLeaves
    Functions <- MCFunctions
    Constants <- ShadowingConstants
    Fields <- MCFields
    TypedRows <- MCTypedRows
INVARIANT ReferencedFieldsSuffice
CHECK_DEADLOCK FALSE
