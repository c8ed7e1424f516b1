SPECIFICATION EnumFairSpec
CONSTANTS
    m1 = m1
    m2 = m2
    m3 = m3
    a1 = a1
    a2 = a2
    b2 = b2
    a3 = a3
    x1 = x1
    Null = Null
    Masters = {m1, m2, m3}
    Assets = {a1, a2, b2, a3}
    Foreign = {x1}
    MasterOf <- MCMasterOf
    Layouts <- MCLayouts
    Requests <- MCRequests
    PageSize = 2
    EmptyProbes = 2
    PairBuffer = 1
    MaxChanges = 1
    FaultSets <- MCFaults
INVARIANTS EnumTypeOK TokenCovers  SiblingsDistinct
PROPERTY StreamEnds
