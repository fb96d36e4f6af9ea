SPECIFICATION Spec
CONSTANTS
    b = b
    r1 = r1
    r2 = r2
    Browser = b
    Renderers = {r1, r2}
    t1 = t1
    t2 = t2
    Threads = {t1, t2}
    TidOf <- ThreadIds
    Runs <- RunsOfTheScripts
    Ticks = 2
    Timeout = 2
    MaxClock = 2
    Function = PerformLayout
    None = None
INVARIANTS TypeOK FirstDocumentIsThePage NothingLostByExit SummaryOfTheRun OrderWithinSeconds
PROPERTY TimerEndsTheRun
