\* Undecodable keys passed through (non-strict).
SPECIFICATION Spec
CONSTANTS
    UKeys = {1, 2, 3, 4}
    MaxSeq = 4
    Kinds = {"put", "del", "bad"}
    MinSeqs = {0, 2, 4}
    SkipChoices <- MCNoSkips
    DeepChoices <- MCDeep
    OPrefixKeys = {}
    TableSize = 2
    MaxGPOverlaps = 0
    Strict = FALSE
    MaxFailures = 1
INVARIANT
    ReadEquivalence
