----------------------------- MODULE MCDownload -----------------------------
EXTENDS Download, TLC

CONSTANTS t1, t2, short, long, stamp1, stamp2
TwoTasks == {t1, t2}
AllSdks == {"rust", "go", "ts"}
ShortAndLong == {short, long}
Sizes == short :> 1 @@ long :> 2
TwoNames == {stamp1, stamp2}
\* Of an inode that no name and no handle leads to, nothing can be read any more.
Readable == [i \in Inodes |-> IF Free(i) THEN Empty ELSE data[i]]
View == <<sdk, dir, Readable, pc, task, shared, crashed, undeleted>>
\* Bound: one removal that failed, or the crash.
OneMishap == Cardinality(undeleted) <= (IF crashed THEN 0 ELSE 1)
Symmetry == Permutations(TwoTasks) \cup Permutations(TwoNames)
=============================================================================
