\* Every way the settings and the file can be right or wrong.
SPECIFICATION Spec
CONSTANTS
    Empty = Empty
    NotFlat = {}
    LastDay = 9
    Environments <- MCEnvironments
    Files <- MCFiles
INVARIANTS
    StartupTypeOK
    ServesWhatItAccepted
    ExitsAreDeserved
PROPERTIES
    RepairedMeansServing
