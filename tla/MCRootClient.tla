---------------------------- MODULE MCRootClient ----------------------------
EXTENDS RootClient, TLC

CONSTANTS t1, t2, t3, alice, bob
ThreeTasks == {t1, t2, t3}
TwoUsers == {alice, bob}
Symmetry == Permutations(ThreeTasks) \cup Permutations(TwoUsers)
=============================================================================
