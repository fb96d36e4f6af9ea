SPECIFICATION Spec
CONSTANTS
    Procs = {b, r}
    Browser = b
    b = b
    r = r
    Threads = {main}
    Main = main
    main = main
    Boot = boot
    Free = free
    f1 = f1
    f2 = f2
    Functions = {f1}
    NumSets = 1
    SetOf <- OneSet
    Pages = 1
    MaxInterrupts = 0
    Absent = absent
    Zero = zero
INVARIANT NoStaleMap
INVARIANT UnmappedOnlyByCtrlC
PROPERTY ChangesByRounds
