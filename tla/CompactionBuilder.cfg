\* Drops and deeper levels, strict decoding, a level-L+1 table left in place
\* by reduce and an overflow prefix; the layout properties where nothing is
\* dropped (minSeq 0).
SPECIFICATION Spec
CONSTANTS
    UKeys = {1, 2, 3, 4}
    MaxSeq = 4
    Kinds = {"put", "del", "bad"}
    MinSeqs = {0, 2, 4}
    SkipChoices <- MCSkips
    DeepChoices <- MCDeep
    OPrefixKeys = {4}
    TableSize = 2
    MaxGPOverlaps = 0
    Strict = TRUE
    MaxFailures = 1
INVARIANTS
    TypeOK
    ReadEquivalence
    OutputTablesDisjoint
    AvoidsSkipsWithoutDrops
    PrefixKeptWithoutDrops
