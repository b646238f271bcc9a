\* Copy, Update, Pick and InvalidateCache over three live objects.
SPECIFICATION Spec
CONSTANTS
    h1 = h1  h2 = h2  h3 = h3  a1 = a1  a2 = a2  a3 = a3  a4 = a4  m1 = m1  m2 = m2  m3 = m3
    Handles = {h1, h2, h3}
    ArrayIds = {a1, a2, a3, a4}
    Masters = {m1, m2, m3}
    InitLists <- MCInitLists
    Endorsed = {m2}
    MaxBlockProposers = 1
    Nil = Nil
INVARIANTS
    TypeOK
    SharedArraysReferenced
PROPERTY
    RefinesCandidatesValue
