SPECIFICATION FairSpec
CONSTANTS
    c1 = c1
    c2 = c2
    c3 = c3
    Callers <- TwoCallers
    NoToken = NoToken
    MaxIssued = 3
INVARIANTS RefreshNotReplayed RetryIsNewer
PROPERTIES ImplementsVault CallsReturn
