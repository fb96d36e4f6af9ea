SPECIFICATION Spec
CONSTANTS
    Threads = {main}
    CoreConfigs <- Listed
    MaxDepth = 1
INVARIANT NamedCores
