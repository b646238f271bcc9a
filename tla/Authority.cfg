\* Every sequence of Add, Revoke and Update over three node masters.
SPECIFICATION Spec
CONSTANTS
    m1 = m1  m2 = m2  m3 = m3  e1 = e1  e2 = e2
    Masters = {m1, m2, m3}
    Endorsors = {e1, e2}
    Identities = {zid}
    ZeroAddress = zaddr
    ZeroIdentity = zid
    Nil = Nil
    Balance <- MCBalance
    Endorsements = {0, 10, 20}
    Limits = {0, 1, 2, 3}
SYMMETRY MCSymmetry
INVARIANTS
    TypeOK
    ListWellFormed
    GetAgreesWithList
    CandidatesArePrefix
