----------------------------- MODULE MCLoopback -----------------------------
EXTENDS Loopback, TLC

CONSTANTS l1, l2, l3
ThreeLogins == {l1, l2, l3}
AllSdks == {"rust", "go", "ts"}
Symmetry == Permutations(ThreeLogins)
=============================================================================
