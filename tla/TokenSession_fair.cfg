SPECIFICATION FairSpec
CONSTANTS
    t1 = t1
    t2 = t2
    t3 = t3
    Tasks <- TwoTasks
    NoTask = NoTask
    NoToken = NoToken
    MaxIssued = 2
INVARIANTS TypeOK RefreshNotReplayed
PROPERTIES CallsReturn LoggedOutStays
