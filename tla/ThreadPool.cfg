\* Two workers, three tasks, two workloads; three kinds of pool
SPECIFICATION FairSpec
CONSTANTS
    a = a
    b = b
    c = c
    Tasks <- MCTasks
    Settings <- MCSettings
    Size = 2
    None = None
    MaxLoads = 2
INVARIANT Inv
PROPERTIES BatchSpec LoadEnds DestroyEnds
