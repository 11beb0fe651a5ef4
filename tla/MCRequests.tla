----------------------------- MODULE MCRequests -----------------------------
EXTENDS Requests, TLC

SomeStatuses == {200, 401, 403, 409, 500}
SomeCodes == {0, 1004, 1005, 3004, 3006, 5000}

CONSTANTS c1, c2, s1, s2
TwoIds == {c1, c2}
TwoSecrets == {s1, s2}
OwnSecrets == c1 :> s1 @@ c2 :> s2
=============================================================================
