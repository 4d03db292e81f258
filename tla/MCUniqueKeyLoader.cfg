\* Every document of three mappings.
SPECIFICATION Spec
CONSTANTS
    root = root
    a = a
    b = b
    scalar = scalar
    Merge = "<<"
    Root <- root
    Keys <- MCKeys
    Values <- MCValues
    Nodes <- MCNodes
    Documents <- MCDocuments
INVARIANTS
    TypeOK
    RefusalsAreDeserved
    NothingSlipsThrough
    MergesMeanYaml
CHECK_DEADLOCK FALSE
