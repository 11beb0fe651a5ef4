------------------------ MODULE MCDeviceCredentials ------------------------
EXTENDS DeviceCredentials, TLC

CONSTANTS t1, t2, t3, other
TwoTasks == {t1, t2}
ThreeTasks == {t1, t2, t3}
OneDevice == {Here}
TwoDevices == {Here, other}
Symmetry == Permutations(ThreeTasks)
=============================================================================
