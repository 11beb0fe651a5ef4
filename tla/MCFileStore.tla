---------------------------- MODULE MCFileStore ----------------------------
EXTENDS InstallId, TLC

CONSTANTS t1, t2, t3, short, long1, long2, m1, m2, m3
ThreeTasks == {t1, t2, t3}
ThreeMutexes == {m1, m2, m3}
ThreeValues == {short, long1, long2}
Sizes == short :> 1 @@ long1 :> 2 @@ long2 :> 2
Symmetry == Permutations(ThreeTasks) \cup Permutations(ThreeMutexes)
              \cup Permutations({long1, long2})
=============================================================================
