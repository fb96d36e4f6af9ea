SPECIFICATION FairSpec
CONSTANTS
    c1 = c1
    c2 = c2
    c3 = c3
    s1 = s1
    s2 = s2
    ConfigLists <- Lists
    Sites <- TwoSites
    ITERATIONS = 2
    RetVals = {0, 1, 2, 130}
    Unexpanded = unexpanded
INVARIANT TypeOK
INVARIANT EveryTrialOnce
INVARIANT StopsInOneBlock
INVARIANT RepeatsHang
PROPERTY Terminates
