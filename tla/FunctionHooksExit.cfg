SPECIFICATION Spec
CONSTANTS
    Threads = {main, worker}
    Functions = {layout}
    MaxDepth = 1
    MaxClock = 0
    Rounds = 1
    Absent = absent
    Zero = zero
    Unpinned = unpinned
    NoOne = noone
    NoCall = nocall
INVARIANT ExitMaskTakesEffect
