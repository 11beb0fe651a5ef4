SPECIFICATION CallSpec
CONSTANTS
    Statuses <- SomeStatuses
    Codes <- SomeCodes
    c1 = c1
    c2 = c2
    s1 = s1
    s2 = s2
    Ids <- TwoIds
    Secrets <- TwoSecrets
    Secret <- OwnSecrets
    Unset = Unset
INVARIANTS SameRequest GenuineIsStored EndsUsable UploadIsAddressable
    ExpiredIsRefreshed SameOutcome InvalidIsRefreshed ClosedIsLoggedOut
