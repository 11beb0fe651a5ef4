------------------------------- MODULE MCSync -------------------------------
EXTENDS Sync, TLC

CONSTANTS d1, d2, k1, k2
TwoDevices == {d1, d2}
TwoKeys == <<k1, k2>>
=============================================================================
