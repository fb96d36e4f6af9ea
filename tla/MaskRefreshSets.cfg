SPECIFICATION FairSpec
CONSTANTS
    Procs = {b}
    Browser = b
    b = b
    Threads = {main, worker}
    Main = main
    main = main
    worker = worker
    Boot = boot
    Free = free
    f1 = f1
    f2 = f2
    Functions = {f1, f2}
    NumSets = 2
    SetOf <- TwoSets
    Pages = 1
    MaxInterrupts = 1
    Absent = absent
    Zero = zero
INVARIANT TypeOK
INVARIANT NoStaleMap
PROPERTY EveryRoundArrives
PROPERTY ChangesByRounds
