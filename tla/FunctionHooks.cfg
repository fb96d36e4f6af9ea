SPECIFICATION Spec
CONSTANTS
    MaxCalls = 3
    Threads = {main, worker}
    Functions = {layout, css}
    MaxDepth = 2
    MaxClock = 1
    Rounds = 1
    Absent = absent
    Zero = zero
    Unpinned = unpinned
    NoOne = noone
    NoCall = nocall
INVARIANT TypeOK
INVARIANT QueueMatchesCalls
 
PROPERTY MeasuresOwnCalls
SYMMETRY Symmetry
CONSTRAINT FewCalls
