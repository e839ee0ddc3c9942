SPECIFICATION Spec
CONSTANTS
    NumThreads = 2
    MaxGens = 2
    MaxRestarts = 1
    Depths = {2, 4}
    Sizes = {2, 3}
    None = None
INVARIANTS
    ThreadsReachTheirWorkers
    AnswersAreComputed
PROPERTIES
    PoolKeepsItsPromise
