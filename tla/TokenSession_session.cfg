SPECIFICATION SessionSpec
CONSTANTS
    t1 = t1
    t2 = t2
    t3 = t3
    Tasks <- TwoTasks
    NoTask = NoTask
    NoToken = NoToken
    MaxIssued = 3
SYMMETRY Symmetry
INVARIANT RetryIsNewer
PROPERTY ImplementsVault
