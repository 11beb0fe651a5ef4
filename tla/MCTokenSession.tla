--------------------------- MODULE MCTokenSession ---------------------------
EXTENDS TokenSession, TLC

CONSTANTS t1, t2, t3
TwoTasks == {t1, t2}
ThreeTasks == {t1, t2, t3}
Symmetry == Permutations(ThreeTasks)
=============================================================================
