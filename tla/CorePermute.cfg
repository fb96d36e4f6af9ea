SPECIFICATION FairSpec
CONSTANTS
    Threads = {main}
    CoreConfigs <- AnyConfig
    MaxDepth = 2
INVARIANT TypeOK
INVARIANT InvalidHangs
INVARIANT DrawnAndLeft
PROPERTY PicksConfigured
PROPERTY EntryReturns
