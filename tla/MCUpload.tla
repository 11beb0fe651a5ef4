------------------------------ MODULE MCUpload ------------------------------
EXTENDS Upload, TLC

CONSTANTS t1, t2, text1, text2, long
TwoTasks == {t1, t2}
AllSdks == {"rust", "go", "ts"}
ThreeContents == {text1, text2, long}
LengthOf == text1 :> 1 @@ text2 :> 1 @@ long :> 2
Symmetry == Permutations(TwoTasks) \cup Permutations({text1, text2})
=============================================================================
