\* An overflow prefix and obsolete deletion markers.
SPECIFICATION Spec
CONSTANTS
    UKeys = {1, 2, 3, 4}
    MaxSeq = 4
    Kinds = {"put", "del"}
    MinSeqs = {0, 1, 2, 3, 4}
    SkipChoices <- MCNoSkips
    DeepChoices <- MCDeep
    OPrefixKeys = {3, 4}
    TableSize = 2
    MaxGPOverlaps = 0
    Strict = FALSE
    MaxFailures = 1
INVARIANT
    PrefixNotMixed
