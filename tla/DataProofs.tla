----------------------------- MODULE DataProofs -----------------------------
(***************************************************************************)
(* Proofs about the data a device gets from the server: the files it       *)
(* downloads (Download), for every number of downloads, names and objects  *)
(* and every size of these, and the records it synchronises (Sync), for    *)
(* every number of devices and keys, every page size and every log.        *)
(***************************************************************************)
EXTENDS Download, Sync, FiniteSetTheorems, WellFoundedInduction, TLAPS

(***************************************************************************)
(* There is always a free inode.                                           *)
(***************************************************************************)

\* A function takes no more values than it has arguments.
LEMMA FewValues ==
    ASSUME NEW S, IsFiniteSet(S), NEW f
    PROVE  /\ IsFiniteSet({f[x] : x \in S})
           /\ Cardinality({f[x] : x \in S}) <= Cardinality(S)
  <1> DEFINE g == [x \in S |-> f[x]]
  <1>1. g \in Surjection(S, {f[x] : x \in S})
    BY DEF Surjection
  <1> HIDE DEF g
  <1> QED
    BY <1>1, FS_Surjection, Zenon

LEMMA NamesFinite == IsFiniteSet(Names) /\ Cardinality(Names) \in Nat \ {0}
  <1>1. IsFiniteSet(Stamps \cup {Fixed})
    BY FiniteAssumption, FS_AddElement
  <1>2. IsFiniteSet(Names)
    BY <1>1, FS_AddElement DEF Names, Temporary
  <1>3. Cardinality(Names) # 0
    BY <1>2, FS_EmptySet DEF Names
  <1> QED
    BY <1>2, <1>3, FS_CardinalityType

\* Of a name without a file: names and tasks are more than the inodes in use.
LEMMA SomeIsFree ==
    ASSUME NEW m \in Names, dir[m] = Nothing
    PROVE  NewInode \in Inodes /\ Free(NewInode)
  <1> DEFINE others == Names \ {m}
             named == {dir[n] : n \in others}
             opened == {handle[t] : t \in Tasks}
             used == named \cup opened
  <1>1. IsFiniteSet(others) /\ Cardinality(others) = Cardinality(Names) - 1
    BY NamesFinite, FS_RemoveElement
  <1>2. IsFiniteSet(named) /\ Cardinality(named) <= Cardinality(Names) - 1
    BY <1>1, FewValues
  <1>3. IsFiniteSet(opened) /\ Cardinality(opened) <= Cardinality(Tasks)
    BY FiniteAssumption, FewValues
  <1>4. /\ IsFiniteSet(used)
        /\ Cardinality(used) = Cardinality(named) + Cardinality(opened)
                                 - Cardinality(named \cap opened)
        /\ IsFiniteSet(named \cap opened)
    <2> HIDE DEF named, opened
    <2> QED
      BY <1>2, <1>3, FS_Union, FS_Intersection
  <1> HIDE DEF named, opened, used
  <1>5. /\ Cardinality(named) \in Nat /\ Cardinality(opened) \in Nat
        /\ Cardinality(named \cap opened) \in Nat /\ Cardinality(Names) \in Nat
        /\ Cardinality(Tasks) \in Nat
    BY <1>2, <1>3, <1>4, NamesFinite, FiniteAssumption, FS_CardinalityType
  <1>6. Cardinality(used) < Cardinality(Names) + Cardinality(Tasks)
    BY <1>2, <1>3, <1>4, <1>5
  <1>7. Cardinality(Inodes) = Cardinality(Names) + Cardinality(Tasks)
    BY <1>5, <1>6, NamesFinite, FS_Interval DEF Inodes
  <1>8. ~(Inodes \subseteq used)
    <2>1. SUFFICES ASSUME Inodes \in SUBSET used PROVE FALSE
      OBVIOUS
    <2>2. Cardinality(Inodes) <= Cardinality(used)
      BY <1>4, <2>1, FS_Subset
    <2>3. Cardinality(used) \in Nat
      BY <1>4, FS_CardinalityType
    <2> QED
      BY <1>5, <1>6, <1>7, <2>2, <2>3
  <1>9. PICK i \in Inodes : i \notin used
    BY <1>8
  <1>10. i # Nothing
    BY <1>5, NothingAssumption DEF Inodes
  <1>11. Free(i)
    BY <1>9, <1>10 DEF Free, used, named, opened
  <1> QED
    BY <1>11 DEF NewInode

-----------------------------------------------------------------------------
(***************************************************************************)
(* The inductive invariant.                                                *)
(***************************************************************************)
TypeOK ==
    /\ sdk \in Sdks
    /\ dir \in [Names -> Inodes \cup {Nothing}]
    /\ data \in [Inodes -> [Chunks -> Objects \cup {Nothing}]]
    /\ pc \in [Tasks -> {"idle", "create", "fetch", "body", "replace", "rename", "cleanup"}]
    /\ obj \in [Tasks -> Objects \cup {Nothing}]
    /\ over \in [Tasks -> BOOLEAN]
    /\ stamp \in [Tasks -> Temporary \cup {Nothing}]
    /\ handle \in [Tasks -> Inodes \cup {Nothing}]
    /\ done \in [Tasks -> Nat]
    /\ shared \in BOOLEAN /\ crashed \in BOOLEAN

\* Whether a call has made its temporary name, and whether it has that file open
Unnamed(t) == pc[t] \in {"idle", "create"} \/ (pc[t] = "fetch" /\ sdk = "ts")
Writing(t) == pc[t] = "body" \/ (pc[t] = "fetch" /\ sdk # "ts")

\* What a call has at each of its steps
Stages ==
    \A t \in Tasks :
        /\ pc[t] # "idle" => obj[t] \in Objects
        /\ stamp[t] = Nothing <=> Unnamed(t)
        /\ handle[t] # Nothing <=> Writing(t)
        /\ Unnamed(t) => done[t] = 0
        /\ pc[t] = "replace" => sdk = "ts"

\* No file has two names.
OneName == \A m, n \in Names : dir[m] # Nothing /\ dir[m] = dir[n] => m = n

\* Temporary names are apart, unless two calls took one.
OwnStamp == \A t, u \in Tasks : stamp[t] # Nothing /\ stamp[t] = stamp[u] => t = u

\* An open file is the one of the temporary name, and holds the chunks received.
Beginning(o, n) == [c \in Chunks |-> IF c <= n THEN o ELSE Nothing]
OpenIsOwn ==
    \A t \in Tasks : handle[t] # Nothing => /\ dir[stamp[t]] = handle[t]
                                            /\ data[handle[t]] = Beginning(obj[t], done[t])

\* A file about to be renamed is whole.
ReadyIsWhole ==
    \A t \in Tasks : pc[t] \in {"replace", "rename"} /\ dir[stamp[t]] # Nothing
                        => data[dir[stamp[t]]] = Whole(obj[t])

\* Every temporary file is of a call under way, which will remove or rename it, or one
\* whose removal failed.
LitterIsOwned ==
    ~crashed /\ sdk # "rust" =>
        \A n \in Temporary \ undeleted : dir[n] # Nothing => \E t \in Tasks : stamp[t] = n

Files == /\ OneName
         /\ ~shared => OwnStamp /\ OpenIsOwn /\ ReadyIsWhole /\ PathIsWhole
         /\ LitterIsOwned

Inv == TypeOK /\ Stages /\ Files

LEMMA Distinct ==
    /\ Nothing \notin Names /\ Nothing \notin Nat /\ Nothing \notin Inodes
    /\ Temporary \subseteq Names /\ Path \in Names /\ Path \notin Temporary
  <1>1. Nothing \notin Inodes
    BY NamesFinite, FiniteAssumption, FS_CardinalityType, NothingAssumption DEF Inodes
  <1> QED
    BY <1>1, NameAssumption, NothingAssumption DEF Names, Temporary

LEMMA DownloadInit == Init => Inv
  <1> SUFFICES ASSUME Init PROVE Inv
    OBVIOUS
  <1>1. 1 \in Inodes
    BY NamesFinite, FiniteAssumption, FS_CardinalityType DEF Inodes
  <1>2. \A o \in Objects : Whole(o) \in [Chunks -> Objects \cup {Nothing}]
    BY DEF Whole
  <1>3. Empty \in [Chunks -> Objects \cup {Nothing}]
    BY DEF Empty
  <1>4. PICK o \in Objects : data = [i \in Inodes |-> IF i = 1 THEN Whole(o) ELSE Empty]
    BY DEF Init
  <1>5. \A n \in Names : dir[n] \in {1, Nothing} /\ (dir[n] # Nothing => n = Path)
    BY DEF Init, Names
  <1>6. TypeOK
    BY <1>1, <1>2, <1>3, <1>4 DEF Init, TypeOK
  <1>7. Stages
    BY DEF Init, Stages, Unnamed, Writing
  <1>8. PathIsWhole
    BY <1>1, <1>4, <1>5, Distinct DEF PathIsWhole
  <1>9. OneName /\ LitterIsOwned
    BY <1>5, Distinct DEF OneName, LitterIsOwned
  <1>10. OwnStamp /\ OpenIsOwn /\ ReadyIsWhole
    BY DEF Init, OwnStamp, OpenIsOwn, ReadyIsWhole
  <1> QED
    BY <1>6, <1>7, <1>8, <1>9, <1>10 DEF Inv, Files

-----------------------------------------------------------------------------
(***************************************************************************)
(* What a step does to the calls: types and stages.                        *)
(***************************************************************************)
TaskTypes ==
    /\ pc \in [Tasks -> {"idle", "create", "fetch", "body", "replace", "rename", "cleanup"}]
    /\ obj \in [Tasks -> Objects \cup {Nothing}]
    /\ over \in [Tasks -> BOOLEAN]
    /\ stamp \in [Tasks -> Temporary \cup {Nothing}]
    /\ handle \in [Tasks -> Inodes \cup {Nothing}]
    /\ done \in [Tasks -> Nat]

LEMMA ReturnTasks ==
    ASSUME TypeOK, Stages, NEW t \in Tasks, Return(t), UNCHANGED sdk
    PROVE  TaskTypes' /\ Stages'
  BY DEF TypeOK, TaskTypes, Stages, Unnamed, Writing, Return, Goto

LEMMA AbandonTasks ==
    ASSUME TypeOK, Stages, NEW t \in Tasks, pc[t] # "idle", Abandon(t), UNCHANGED sdk
    PROVE  TaskTypes' /\ Stages'
  <1>1. CASE sdk = "rust" \/ stamp[t] = Nothing
    BY <1>1, ReturnTasks DEF Abandon
  <1>2. CASE ~(sdk = "rust" \/ stamp[t] = Nothing)
    BY <1>2 DEF TypeOK, TaskTypes, Stages, Unnamed, Writing, Abandon, Goto
  <1> QED
    BY <1>1, <1>2

\* The inode a task opens, new or the one of its temporary name
Opened(n) == IF dir[n] = Nothing THEN NewInode ELSE dir[n]

LEMMA OpenedType ==
    ASSUME TypeOK, NEW n \in Names
    PROVE  Opened(n) \in Inodes /\ Opened(n) # Nothing
  BY SomeIsFree, Distinct DEF TypeOK, Opened

LEMMA StepType ==
    ASSUME TypeOK, Stages, NEW t \in Tasks, Start(t) \/ Step(t), UNCHANGED sdk
    PROVE  TypeOK' /\ Stages'
  <1> USE Distinct
  <1>1. CASE Start(t)
    BY <1>1 DEF TypeOK, Stages, Unnamed, Writing, Start, Goto
  <1>2. CASE Create(t)
    <2>1. PICK n \in NamesOf :
              /\ stamp' = [stamp EXCEPT ![t] = n]
              /\ shared' = (shared \/ InUse(n, t))
              /\ IF sdk = "ts" /\ dir[n] # Nothing
                 THEN Goto(t, "cleanup") /\ UNCHANGED <<dir, data, handle>>
                 ELSE /\ dir' = [dir EXCEPT ![n] = Opened(n)]
                      /\ data' = [data EXCEPT ![Opened(n)] = Empty]
                      /\ handle' = [handle EXCEPT ![t] = Opened(n)]
                      /\ Goto(t, IF sdk = "ts" THEN "body" ELSE "fetch")
      BY <1>2 DEF Create, Opened
    <2>2. n \in Temporary /\ n \in Names
      BY DEF NamesOf, Temporary, Names
    <2>3. Opened(n) \in Inodes /\ Opened(n) # Nothing
      BY <2>2, OpenedType
    <2>4. Empty \in [Chunks -> Objects \cup {Nothing}]
      BY DEF Empty
    <2>5. shared' \in BOOLEAN /\ UNCHANGED <<obj, over, done, crashed>> /\ pc[t] = "create"
      BY <1>2, <2>1 DEF TypeOK, Create
    <2>6. CASE sdk = "ts" /\ dir[n] # Nothing
      BY <2>1, <2>2, <2>5, <2>6 DEF TypeOK, Stages, Unnamed, Writing, Goto
    <2>7. CASE ~(sdk = "ts" /\ dir[n] # Nothing)
      <3>1. TypeOK'
        <4>1. /\ dir' = [dir EXCEPT ![n] = Opened(n)]
              /\ data' = [data EXCEPT ![Opened(n)] = Empty]
          BY <2>1, <2>7
        <4>2. dir' \in [Names -> Inodes \cup {Nothing}]
          BY <2>2, <2>3, <4>1 DEF TypeOK
        <4>3. data' \in [Inodes -> [Chunks -> Objects \cup {Nothing}]]
          BY <2>3, <2>4, <4>1 DEF TypeOK
        <4>4. pc' = [pc EXCEPT ![t] = IF sdk = "ts" THEN "body" ELSE "fetch"]
          BY <2>1, <2>7 DEF Goto
        <4>5. /\ stamp' \in [Tasks -> Temporary \cup {Nothing}]
              /\ handle' \in [Tasks -> Inodes \cup {Nothing}]
          BY <2>1, <2>2, <2>3, <2>7 DEF TypeOK
        <4> QED
          BY <2>5, <4>2, <4>3, <4>4, <4>5 DEF TypeOK
      <3>2. Stages'
        BY <2>1, <2>2, <2>3, <2>5, <2>7 DEF TypeOK, Stages, Unnamed, Writing, Goto
      <3> QED
        BY <3>1, <3>2
    <2> QED
      BY <2>6, <2>7
  <1>3. CASE Fetch(t)
    <2>1. TaskTypes' /\ Stages'
      <3>1. CASE Abandon(t)
        BY <1>3, <3>1, AbandonTasks DEF Fetch
      <3>2. CASE ~Abandon(t)
        BY <1>3, <3>2 DEF TypeOK, TaskTypes, Stages, Unnamed, Writing, Fetch, Goto, task
      <3> QED
        BY <3>1, <3>2
    <2> QED
      BY <1>3, <2>1 DEF TypeOK, TaskTypes, Fetch
  <1>4. CASE Write(t)
    <2>1. obj[t] \in Objects /\ handle[t] \in Inodes
      BY <1>4 DEF TypeOK, Stages, Writing, Write
    <2>2. data' \in [Inodes -> [Chunks -> Objects \cup {Nothing}]]
      BY <1>4, <2>1 DEF TypeOK, Write
    <2> QED
      BY <1>4, <2>2 DEF TypeOK, Stages, Unnamed, Writing, Write
  <1>5. CASE BodyEnds(t)
    <2>1. TaskTypes' /\ Stages'
      <3>1. CASE Abandon(t)
        BY <1>5, <3>1, AbandonTasks DEF BodyEnds
      <3>2. CASE ~Abandon(t)
        BY <1>5, <3>2 DEF TypeOK, TaskTypes, Stages, Unnamed, Writing, BodyEnds, Goto
      <3> QED
        BY <3>1, <3>2
    <2> QED
      BY <1>5, <2>1 DEF TypeOK, TaskTypes, BodyEnds
  <1>6. CASE Replace(t)
    <2>1. TaskTypes' /\ Stages'
      <3>1. CASE Abandon(t)
        BY <1>6, <3>1, AbandonTasks DEF Replace
      <3>2. CASE ~Abandon(t)
        BY <1>6, <3>2 DEF TypeOK, TaskTypes, Stages, Unnamed, Writing, Replace, Goto, task
      <3> QED
        BY <3>1, <3>2
    <2> QED
      BY <1>6, <2>1 DEF TypeOK, TaskTypes, Replace
  <1>7. CASE Rename(t)
    <2>1. TaskTypes' /\ Stages'
      BY <1>7, AbandonTasks, ReturnTasks DEF Rename
    <2>2. stamp[t] \in Names
      BY <1>7 DEF TypeOK, Stages, Unnamed, Rename
    <2> QED
      BY <1>7, <2>1, <2>2 DEF TypeOK, TaskTypes, Rename
  <1>8. CASE Cleanup(t)
    <2>1. TaskTypes' /\ Stages'
      BY <1>8, ReturnTasks DEF Cleanup
    <2> QED
      BY <1>8, <2>1 DEF TypeOK, TaskTypes, Cleanup
  <1> QED
    BY <1>1, <1>2, <1>3, <1>4, <1>5, <1>6, <1>7, <1>8 DEF Step

-----------------------------------------------------------------------------
(***************************************************************************)
(* What a step does to the files.                                          *)
(***************************************************************************)
\* The calls other than t are where they were.
Others(t) ==
    \A u \in Tasks \ {t} :
        /\ pc'[u] = pc[u] /\ obj'[u] = obj[u] /\ stamp'[u] = stamp[u]
        /\ handle'[u] = handle[u] /\ done'[u] = done[u]

LEMMA StepOthers ==
    ASSUME TypeOK, NEW t \in Tasks, Start(t) \/ Step(t)
    PROVE  Others(t)
  <1>1. Return(t) => Others(t)
    BY DEF TypeOK, Return, Goto, Others
  <1>2. Abandon(t) => Others(t)
    BY <1>1 DEF TypeOK, Abandon, Goto, Others
  <1>3. CASE Start(t)
    BY <1>3 DEF TypeOK, Start, Goto, Others
  <1>4. CASE Create(t)
    BY <1>4 DEF TypeOK, Create, Goto, Others
  <1>5. CASE Fetch(t)
    BY <1>2, <1>5 DEF TypeOK, Fetch, Goto, Others, task
  <1>6. CASE Write(t)
    BY <1>6 DEF TypeOK, Write, Others
  <1>7. CASE BodyEnds(t)
    BY <1>2, <1>7 DEF TypeOK, BodyEnds, Goto, Others
  <1>8. CASE Replace(t)
    BY <1>2, <1>8 DEF TypeOK, Replace, Goto, Others, task
  <1>9. CASE Rename(t)
    BY <1>1, <1>2, <1>9 DEF Rename
  <1>10. CASE Cleanup(t)
    BY <1>1, <1>10 DEF Cleanup
  <1> QED
    BY <1>3, <1>4, <1>5, <1>6, <1>7, <1>8, <1>9, <1>10 DEF Step

\* A step that leaves the files alone, closes t's or keeps it, and brings t nowhere
\* it should have a whole file without one.
LEMMA FilesKept ==
    ASSUME Inv, NEW t \in Tasks, Others(t), UNCHANGED <<sdk, dir, data, shared, crashed, undeleted>>,
           \/ stamp'[t] = stamp[t]
           \/ stamp'[t] = Nothing /\ (sdk = "rust" \/ stamp[t] = Nothing),
           handle'[t] # Nothing => handle'[t] = handle[t] /\ UNCHANGED <<stamp[t], obj[t], done[t]>>,
           ~shared /\ pc'[t] \in {"replace", "rename"} /\ dir[stamp'[t]] # Nothing =>
               data[dir[stamp'[t]]] = Whole(obj'[t])
    PROVE  Files'
  <1>1. OneName'
    BY DEF Inv, Files, OneName
  <1>2. ~shared => OwnStamp'
    BY DEF Inv, Files, OwnStamp, Others
  <1>3. ~shared => OpenIsOwn'
    BY DEF Inv, Files, OpenIsOwn, Others
  <1>4. ~shared => ReadyIsWhole'
    BY DEF Inv, Files, ReadyIsWhole, Others
  <1>5. ~shared => PathIsWhole'
    BY DEF Inv, Files, PathIsWhole
  <1>6. LitterIsOwned'
    BY Distinct DEF Inv, Files, LitterIsOwned, Others
  <1> QED
    BY <1>1, <1>2, <1>3, <1>4, <1>5, <1>6 DEF Files

\* A failed call, wherever it fails
LEMMA AbandonFiles ==
    ASSUME Inv, NEW t \in Tasks, Abandon(t), Others(t),
           UNCHANGED <<sdk, dir, data, shared, crashed, undeleted>>
    PROVE  Files'
  <1>1. handle'[t] = Nothing /\ pc'[t] \in {"idle", "cleanup"}
    BY DEF Inv, TypeOK, Abandon, Return, Goto
  <1>2. \/ stamp'[t] = stamp[t]
        \/ stamp'[t] = Nothing /\ (sdk = "rust" \/ stamp[t] = Nothing)
    BY DEF Inv, TypeOK, Abandon, Return
  <1> QED
    BY <1>1, <1>2, FilesKept

\* A file that is complete is whole.
LEMMA CompleteIsWhole ==
    ASSUME Inv, ~shared, NEW t \in Tasks, pc[t] = "body", done[t] = Size[obj[t]]
    PROVE  data[dir[stamp[t]]] = Whole(obj[t])
  <1>1. handle[t] # Nothing
    BY DEF Inv, Stages, Writing
  <1> QED
    BY <1>1 DEF Inv, Files, OpenIsOwn, Beginning, Whole

\* The steps that touch no file
LEMMA QuietFiles ==
    ASSUME Inv, NEW t \in Tasks, UNCHANGED sdk, Others(t),
           Start(t) \/ Fetch(t) \/ BodyEnds(t)
    PROVE  Files'
  <1>1. UNCHANGED <<dir, data, shared, crashed, undeleted>>
    BY DEF Start, Fetch, BodyEnds
  <1>2. CASE Start(t)
    <2>1. pc'[t] \in {"fetch", "create"} /\ UNCHANGED <<stamp, handle>> /\ handle'[t] = Nothing
      BY <1>2 DEF Inv, TypeOK, Stages, Writing, Start, Goto
    <2> QED
      BY <1>1, <2>1, FilesKept
  <1>3. CASE Fetch(t)
    <2>1. CASE Abandon(t)
      BY <1>1, <2>1, AbandonFiles
    <2>2. CASE ~Abandon(t)
      <3>1. pc'[t] \in {"create", "body"} /\ UNCHANGED <<stamp, handle, obj, done>>
        BY <1>3, <2>2 DEF Inv, TypeOK, Fetch, Goto, task
      <3> QED
        BY <1>1, <3>1, FilesKept
    <2> QED
      BY <2>1, <2>2
  <1>4. CASE BodyEnds(t)
    <2>1. CASE Abandon(t)
      BY <1>1, <2>1, AbandonFiles
    <2>2. CASE ~Abandon(t)
      <3>1. /\ pc[t] = "body" /\ done[t] = Size[obj[t]]
            /\ handle'[t] = Nothing /\ UNCHANGED <<stamp, obj>>
        BY <1>4, <2>2 DEF Inv, TypeOK, BodyEnds
      <3>2. ~shared => data[dir[stamp'[t]]] = Whole(obj'[t])
        BY <3>1, CompleteIsWhole
      <3> QED
        BY <1>1, <3>1, <3>2, FilesKept
    <2> QED
      BY <2>1, <2>2
  <1> QED
    BY <1>2, <1>3, <1>4

\* Write: of the files only t's changes, and no other name leads there.
LEMMA WriteFiles ==
    ASSUME Inv, NEW t \in Tasks, UNCHANGED sdk, Others(t), Write(t)
    PROVE  Files'
  <1>1. /\ handle[t] \in Inodes /\ obj[t] \in Objects /\ stamp[t] \in Temporary
        /\ done[t] \in Nat /\ Size[obj[t]] \in Nat
    BY SizeAssumption DEF Inv, TypeOK, Stages, Unnamed, Writing, Write
  <1>2. done[t] + 1 \in Chunks
    BY <1>1 DEF Chunks, Write
  <1>3. /\ UNCHANGED <<dir, pc, obj, stamp, handle, shared, crashed, undeleted>>
        /\ done'[t] = done[t] + 1
    BY DEF Inv, TypeOK, Write
  <1>4. \A i \in Inodes : i # handle[t] => data'[i] = data[i]
    BY DEF Inv, TypeOK, Write
  <1>5. OneName' /\ LitterIsOwned'
    BY <1>3 DEF Inv, Files, OneName, LitterIsOwned
  <1>6. ASSUME ~shared PROVE (OwnStamp /\ OpenIsOwn /\ ReadyIsWhole /\ PathIsWhole)'
    <2>1. \A n \in Names : dir[n] = handle[t] => n = stamp[t]
      BY <1>1, <1>6, Distinct DEF Inv, Files, OneName, OpenIsOwn
    <2>2. \A u \in Tasks \ {t} : stamp[u] # Nothing => dir[stamp[u]] # handle[t]
      BY <1>1, <1>6, <2>1, Distinct DEF Inv, TypeOK, Files, OwnStamp
    <2>3. OwnStamp'
      BY <1>3, <1>6 DEF Inv, Files, OwnStamp
    <2>4. data'[handle[t]] = Beginning(obj[t], done[t] + 1)
      <3>1. data[handle[t]] = Beginning(obj[t], done[t])
        BY <1>1, <1>6, Distinct DEF Inv, Files, OpenIsOwn
      <3>2. data'[handle[t]] = [data[handle[t]] EXCEPT ![done[t] + 1] = obj[t]]
        BY <1>1 DEF Inv, TypeOK, Write
      <3>3. \A c \in Chunks : c \in Nat
        BY SizeAssumption DEF Chunks
      <3> QED
        BY <1>1, <3>1, <3>2, <3>3 DEF Beginning
    <2>5. OpenIsOwn'
      <3>1. SUFFICES ASSUME NEW u \in Tasks, handle[u] # Nothing
                     PROVE  /\ dir[stamp[u]] = handle[u]
                            /\ data'[handle[u]] = Beginning(obj[u], done'[u])
        BY <1>3 DEF OpenIsOwn
      <3>2. CASE u = t
        BY <1>3, <1>6, <2>4, <3>1, <3>2 DEF Inv, Files, OpenIsOwn
      <3>3. CASE u # t
        <4>1. stamp[u] # Nothing
          BY <3>1 DEF Inv, Stages, Unnamed, Writing
        <4> QED
          BY <1>4, <1>6, <2>2, <3>1, <3>3, <4>1 DEF Inv, TypeOK, Files, OpenIsOwn, Others
      <3> QED
        BY <3>2, <3>3
    <2>6. ReadyIsWhole'
      <3>1. SUFFICES ASSUME NEW u \in Tasks, pc[u] \in {"replace", "rename"}, dir[stamp[u]] # Nothing
                     PROVE  data'[dir[stamp[u]]] = Whole(obj[u])
        BY <1>3 DEF ReadyIsWhole
      <3>2. u # t /\ stamp[u] \in Names /\ stamp[u] # Nothing
        BY <3>1, Distinct DEF Inv, TypeOK, Stages, Unnamed, Write
      <3> QED
        BY <1>4, <1>6, <2>2, <3>1, <3>2 DEF Inv, TypeOK, Files, ReadyIsWhole
    <2>7. PathIsWhole'
      BY <1>1, <1>3, <1>4, <1>6, <2>1, Distinct DEF Inv, TypeOK, Files, PathIsWhole
    <2> QED
      BY <2>3, <2>5, <2>6, <2>7
  <1> QED
    BY <1>3, <1>5, <1>6 DEF Files

\* Create: the file is empty, and no other name leads to it.
LEMMA CreateFiles ==
    ASSUME Inv, NEW t \in Tasks, UNCHANGED sdk, Others(t), Create(t)
    PROVE  Files'
  <1>1. PICK n \in NamesOf :
            /\ stamp' = [stamp EXCEPT ![t] = n]
            /\ shared' = (shared \/ InUse(n, t))
            /\ undeleted' = undeleted \ {n}
            /\ IF sdk = "ts" /\ dir[n] # Nothing
               THEN Goto(t, "cleanup") /\ UNCHANGED <<dir, data, handle>>
               ELSE /\ dir' = [dir EXCEPT ![n] = Opened(n)]
                    /\ data' = [data EXCEPT ![Opened(n)] = Empty]
                    /\ handle' = [handle EXCEPT ![t] = Opened(n)]
                    /\ Goto(t, IF sdk = "ts" THEN "body" ELSE "fetch")
    BY DEF Create, Opened
  <1>2. n \in Temporary /\ n \in Names /\ n # Nothing /\ n # Path
    BY Distinct DEF NamesOf, Temporary
  <1>3. /\ Opened(n) \in Inodes /\ Opened(n) # Nothing
    BY <1>2, OpenedType DEF Inv
  <1>4. /\ UNCHANGED <<obj, done, crashed>> /\ pc[t] = "create"
        /\ stamp[t] = Nothing /\ handle[t] = Nothing /\ done[t] = 0
        /\ stamp'[t] = n /\ shared \in BOOLEAN
        /\ pc'[t] \in {"cleanup", "body", "fetch"}
    BY <1>1 DEF Inv, TypeOK, Stages, Unnamed, Writing, Create, Goto
  <1>5. ~shared' => ~shared /\ \A u \in Tasks \ {t} : stamp[u] # n
    BY <1>1, <1>4, Zenon DEF InUse
  <1>6. ~shared' => OwnStamp'
    BY <1>4, <1>5 DEF Inv, Files, OwnStamp, Others
  <1>7. LitterIsOwned'
    <2>1. \A m \in Temporary : m # n => dir'[m] = dir[m]
      BY <1>1, <1>2, Distinct DEF Inv, TypeOK
    <2> QED
      BY <1>1, <1>4, <2>1, Distinct DEF Inv, Files, LitterIsOwned, Others
  <1>8. CASE sdk = "ts" /\ dir[n] # Nothing
    <2>1. UNCHANGED <<dir, data, handle>> /\ pc'[t] = "cleanup"
      BY <1>1, <1>8 DEF Inv, TypeOK, Goto
    <2>2. OneName'
      BY <2>1 DEF Inv, Files, OneName
    <2>3. ~shared' => (OpenIsOwn /\ ReadyIsWhole /\ PathIsWhole)'
      BY <1>4, <1>5, <2>1
      DEF Inv, Files, OpenIsOwn, ReadyIsWhole, PathIsWhole, Others
    <2> QED
      BY <1>6, <1>7, <2>2, <2>3 DEF Files
  <1>9. CASE ~(sdk = "ts" /\ dir[n] # Nothing)
    <2> DEFINE i == Opened(n)
    <2>1. /\ dir' = [dir EXCEPT ![n] = i] /\ data' = [data EXCEPT ![i] = Empty]
          /\ handle'[t] = i /\ pc'[t] \in {"body", "fetch"}
      BY <1>1, <1>9 DEF Inv, TypeOK, Goto
    <2>2. /\ \A m \in Names \ {n} : dir[m] # i /\ dir'[m] = dir[m]
          /\ dir'[n] = i
      <3>1. CASE dir[n] = Nothing
        BY <1>2, <2>1, <3>1, SomeIsFree DEF Inv, TypeOK, Opened, Free
      <3>2. CASE dir[n] # Nothing
        BY <1>2, <2>1, <3>2 DEF Inv, TypeOK, Files, OneName, Opened
      <3> QED
        BY <3>1, <3>2
    <2>3. data'[i] = Empty /\ \A j \in Inodes : j # i => data'[j] = data[j]
      BY <1>3, <2>1 DEF Inv, TypeOK
    <2> HIDE DEF i
    <2>4. OneName'
      BY <1>2, <2>2 DEF Inv, Files, OneName
    <2>5. ASSUME ~shared' PROVE (OpenIsOwn /\ ReadyIsWhole /\ PathIsWhole)'
      <3>1. ~shared /\ \A u \in Tasks \ {t} : stamp[u] # n
        BY <1>5, <2>5
      <3>2. \A u \in Tasks \ {t} : stamp[u] # Nothing =>
               dir'[stamp[u]] = dir[stamp[u]] /\ dir[stamp[u]] # i
        BY <2>2, <3>1, Distinct DEF Inv, TypeOK
      <3>3. data'[i] = Beginning(obj[t], 0)
        <4>1. \A c \in Chunks : ~(c <= 0)
          BY SizeAssumption DEF Chunks
        <4> QED
          BY <2>3, <4>1 DEF Empty, Beginning
      <3>4. OpenIsOwn'
        <4>1. SUFFICES ASSUME NEW u \in Tasks, handle'[u] # Nothing
                       PROVE  /\ dir'[stamp'[u]] = handle'[u]
                              /\ data'[handle'[u]] = Beginning(obj'[u], done'[u])
          BY DEF OpenIsOwn
        <4>2. CASE u = t
          BY <1>4, <2>1, <2>2, <3>3, <4>2
        <4>3. CASE u # t
          <5>1. stamp[u] # Nothing /\ handle[u] # Nothing /\ handle[u] \in Inodes
            BY <4>1, <4>3 DEF Inv, TypeOK, Stages, Unnamed, Writing, Others
          <5> QED
            BY <2>3, <3>1, <3>2, <4>3, <5>1 DEF Inv, Files, OpenIsOwn, Others
        <4> QED
          BY <4>2, <4>3
      <3>5. ReadyIsWhole'
        <4>1. SUFFICES ASSUME NEW u \in Tasks, pc'[u] \in {"replace", "rename"},
                              dir'[stamp'[u]] # Nothing
                       PROVE  data'[dir'[stamp'[u]]] = Whole(obj'[u])
          BY DEF ReadyIsWhole
        <4>2. u # t
          BY <2>1, <4>1
        <4>3. stamp[u] \in Names /\ stamp[u] # Nothing
          BY <4>1, <4>2, Distinct DEF Inv, TypeOK, Stages, Unnamed, Others
        <4>4. dir'[stamp'[u]] = dir[stamp[u]] /\ dir[stamp[u]] \in Inodes /\ dir[stamp[u]] # i
          BY <3>2, <4>1, <4>2, <4>3 DEF Inv, TypeOK, Others
        <4> QED
          BY <2>3, <3>1, <4>1, <4>2, <4>4 DEF Inv, Files, ReadyIsWhole, Others
      <3>6. PathIsWhole'
        BY <1>2, <2>2, <2>3, <3>1, Distinct DEF Inv, TypeOK, Files, PathIsWhole
      <3> QED
        BY <3>4, <3>5, <3>6
    <2> QED
      BY <1>6, <1>7, <2>4, <2>5 DEF Files
  <1> QED
    BY <1>8, <1>9

\* Replace: the path is empty, which spoils nothing.
LEMMA ReplaceFiles ==
    ASSUME Inv, NEW t \in Tasks, UNCHANGED sdk, Others(t), Replace(t)
    PROVE  Files'
  <1>1. UNCHANGED <<data, shared, crashed, undeleted>>
    BY DEF Replace
  <1>2. CASE Abandon(t) /\ UNCHANGED dir
    BY <1>1, <1>2, AbandonFiles
  <1>3. CASE dir' = [dir EXCEPT ![Path] = Nothing] /\ Goto(t, "rename") /\ UNCHANGED task
    <2>1. /\ dir'[Path] = Nothing /\ \A n \in Names \ {Path} : dir'[n] = dir[n]
          /\ UNCHANGED <<obj, stamp, handle, done>> /\ pc[t] = "replace"
      BY <1>3, Distinct DEF Inv, TypeOK, task, Replace
    <2>2. \A n \in Temporary : dir'[n] = dir[n]
      BY <2>1, Distinct
    <2>3. OneName' /\ LitterIsOwned' /\ PathIsWhole'
      BY <1>1, <2>1, <2>2 DEF Inv, Files, OneName, LitterIsOwned, PathIsWhole
    <2>4. ASSUME ~shared PROVE (OwnStamp /\ OpenIsOwn /\ ReadyIsWhole)'
      <3>1. \A u \in Tasks : stamp[u] # Nothing => dir'[stamp[u]] = dir[stamp[u]]
        BY <2>2 DEF Inv, TypeOK
      <3>2. OwnStamp'
        BY <2>1, <2>4 DEF Inv, Files, OwnStamp
      <3>3. OpenIsOwn'
        BY <1>1, <2>1, <2>4, <3>1 DEF Inv, Files, OpenIsOwn, Stages, Unnamed, Writing
      <3>4. ReadyIsWhole'
        BY <1>1, <2>1, <2>4, <3>1 DEF Inv, Files, ReadyIsWhole, Stages, Unnamed, Others
      <3> QED
        BY <3>2, <3>3, <3>4
    <2> QED
      BY <1>1, <2>3, <2>4 DEF Files
  <1> QED
    BY <1>2, <1>3 DEF Replace

\* A call that ends takes its temporary name with it, and no other call's.
LEMMA NameGone ==
    ASSUME Inv, NEW t \in Tasks, UNCHANGED <<sdk, data, shared, crashed, undeleted>>, Others(t),
           Return(t), stamp[t] # Nothing, dir'[stamp[t]] = Nothing,
           \A n \in Temporary \ {stamp[t]} : dir'[n] = dir[n],
           OneName', ~shared => PathIsWhole'
    PROVE  Files'
  <1>1. stamp'[t] = Nothing /\ handle'[t] = Nothing /\ pc'[t] = "idle"
    BY DEF Inv, TypeOK, Return, Goto
  <1>2. LitterIsOwned'
    BY <1>1, Distinct DEF Inv, Files, LitterIsOwned, Others
  <1>3. ASSUME ~shared PROVE (OwnStamp /\ OpenIsOwn /\ ReadyIsWhole)'
    <2>1. \A u \in Tasks \ {t} : stamp[u] # Nothing => dir'[stamp[u]] = dir[stamp[u]]
      BY <1>3 DEF Inv, TypeOK, Files, OwnStamp
    <2>2. OwnStamp'
      BY <1>1, <1>3 DEF Inv, Files, OwnStamp, Others
    <2>3. OpenIsOwn'
      BY <1>1, <1>3, <2>1 DEF Inv, Files, OpenIsOwn, Stages, Unnamed, Writing, Others
    <2>4. ReadyIsWhole'
      BY <1>1, <1>3, <2>1 DEF Inv, Files, ReadyIsWhole, Stages, Unnamed, Others
    <2> QED
      BY <2>2, <2>3, <2>4
  <1> QED
    BY <1>2, <1>3 DEF Files

\* Rename: the path gets a file that is whole, and the name is gone.
LEMMA RenameFiles ==
    ASSUME Inv, NEW t \in Tasks, UNCHANGED sdk, Others(t), Rename(t)
    PROVE  Files'
  <1>1. UNCHANGED <<data, shared, crashed, undeleted>>
    BY DEF Rename
  <1>2. CASE Abandon(t) /\ UNCHANGED dir
    BY <1>1, <1>2, AbandonFiles
  <1>3. CASE ~(Abandon(t) /\ UNCHANGED dir)
    <2>1. /\ dir[stamp[t]] # Nothing /\ Return(t) /\ pc[t] = "rename"
          /\ dir' = [dir EXCEPT ![Path] = dir[stamp[t]], ![stamp[t]] = Nothing]
      BY <1>3 DEF Rename
    <2>2. stamp[t] \in Temporary /\ stamp[t] \in Names \ {Path} /\ stamp[t] # Nothing
      BY <2>1, Distinct DEF Inv, TypeOK, Stages, Unnamed
    <2>3. /\ dir'[stamp[t]] = Nothing /\ dir'[Path] = dir[stamp[t]]
          /\ \A n \in Names \ {Path, stamp[t]} : dir'[n] = dir[n]
      BY <2>1, <2>2, Distinct DEF Inv, TypeOK
    <2>4. OneName'
      BY <2>2, <2>3 DEF Inv, Files, OneName
    <2>5. ~shared => PathIsWhole'
      <3>1. ~shared => data[dir[stamp[t]]] = Whole(obj[t]) /\ obj[t] \in Objects
        BY <2>1 DEF Inv, Files, ReadyIsWhole, Stages
      <3> QED
        BY <1>1, <2>3, <3>1 DEF PathIsWhole
    <2> QED
      BY <1>1, <2>1, <2>2, <2>3, <2>4, <2>5, Distinct, NameGone
  <1> QED
    BY <1>2, <1>3

\* Cleanup: the name is gone, or remembered as one that could not be removed.
LEMMA CleanupFiles ==
    ASSUME Inv, NEW t \in Tasks, UNCHANGED sdk, Others(t), Cleanup(t)
    PROVE  Files'
  <1>1. UNCHANGED <<data, shared, crashed>> /\ Return(t) /\ pc[t] = "cleanup"
    BY DEF Cleanup
  <1>2. stamp[t] \in Temporary /\ stamp[t] \in Names \ {Path} /\ stamp[t] # Nothing
    BY <1>1, Distinct DEF Inv, TypeOK, Stages, Unnamed
  <1>3. CASE dir' = [dir EXCEPT ![stamp[t]] = Nothing] /\ UNCHANGED undeleted
    <2>1. dir'[stamp[t]] = Nothing /\ \A n \in Names \ {stamp[t]} : dir'[n] = dir[n]
      BY <1>2, <1>3 DEF Inv, TypeOK
    <2>2. OneName'
      BY <2>1 DEF Inv, Files, OneName
    <2>3. ~shared => PathIsWhole'
      BY <1>1, <1>2, <2>1, Distinct DEF Inv, Files, PathIsWhole
    <2> QED
      BY <1>1, <1>2, <1>3, <2>1, <2>2, <2>3, Distinct, NameGone
  <1>4. CASE undeleted' = undeleted \cup {stamp[t]} /\ UNCHANGED dir
    <2>1. stamp'[t] = Nothing /\ handle'[t] = Nothing /\ pc'[t] = "idle"
      BY <1>1 DEF Inv, TypeOK, Return, Goto
    <2>2. OneName' /\ (~shared => PathIsWhole')
      BY <1>1, <1>4 DEF Inv, Files, OneName, PathIsWhole
    <2>3. LitterIsOwned'
      BY <1>1, <1>4, <2>1, Distinct DEF Inv, Files, LitterIsOwned, Others
    <2>4. ASSUME ~shared PROVE (OwnStamp /\ OpenIsOwn /\ ReadyIsWhole)'
      BY <1>1, <1>4, <2>1, <2>4 DEF Inv, Files, OwnStamp, OpenIsOwn, ReadyIsWhole, Others
    <2> QED
      BY <1>1, <2>2, <2>3, <2>4 DEF Files
  <1> QED
    BY <1>3, <1>4 DEF Cleanup

-----------------------------------------------------------------------------
(***************************************************************************)
(* The invariant is one, and what follows from it.                         *)
(***************************************************************************)
LEMMA CrashKeeps == Inv /\ Crash /\ UNCHANGED sdk => Inv'
  <1> SUFFICES ASSUME Inv, Crash, UNCHANGED sdk PROVE Inv'
    OBVIOUS
  <1>1. TypeOK'
    BY DEF Inv, TypeOK, Crash
  <1>2. Stages'
    BY DEF Stages, Unnamed, Writing, Crash
  <1>3. OneName' /\ LitterIsOwned'
    BY DEF Inv, Files, OneName, LitterIsOwned, Crash
  <1>4. (OwnStamp /\ OpenIsOwn /\ ReadyIsWhole)'
    BY DEF OwnStamp, OpenIsOwn, ReadyIsWhole, Crash
  <1>5. ~shared' => PathIsWhole'
    BY DEF Inv, Files, PathIsWhole, Crash
  <1> QED
    BY <1>1, <1>2, <1>3, <1>4, <1>5 DEF Inv, Files

LEMMA DownloadStep == Inv /\ [Next]_vars => Inv'
  <1> SUFFICES ASSUME Inv, [Next]_vars PROVE Inv'
    OBVIOUS
  <1>1. ASSUME NEW t \in Tasks, Start(t) \/ Step(t), UNCHANGED sdk PROVE Inv'
    <2>1. TypeOK' /\ Stages' /\ Others(t)
      BY <1>1, StepType, StepOthers DEF Inv
    <2>2. Files'
      BY <1>1, <2>1, QuietFiles, CreateFiles, WriteFiles, ReplaceFiles, RenameFiles, CleanupFiles
      DEF Step
    <2> QED
      BY <2>1, <2>2 DEF Inv
  <1>2. CASE UNCHANGED vars
    <2>1. TypeOK' /\ Stages'
      BY <1>2 DEF Inv, vars, task, TypeOK, Stages, Unnamed, Writing
    <2>2. (OneName /\ LitterIsOwned)'
      BY <1>2 DEF Inv, Files, vars, task, OneName, LitterIsOwned
    <2>3. ~shared' => (OwnStamp /\ OpenIsOwn /\ ReadyIsWhole /\ PathIsWhole)'
      BY <1>2 DEF Inv, Files, vars, task, OwnStamp, OpenIsOwn, ReadyIsWhole, PathIsWhole
    <2> QED
      BY <2>1, <2>2, <2>3 DEF Inv, Files
  <1> QED
    BY <1>1, <1>2, CrashKeeps DEF Next

LEMMA Invariance == Spec => []Inv
  BY DownloadInit, DownloadStep, PTL DEF Spec

\* Whatever calls run, fail or are cut off, the path holds one object, whole, as
\* long as no two took one temporary name.
THEOREM PathHoldsOne == Spec => []PathIsWhole
  <1>1. Inv => PathIsWhole
    BY DEF Inv, Files, PathIsWhole
  <1> QED
    BY Invariance, <1>1, PTL

\* Failed and cancelled calls of go and typescript leave no temporary file, even
\* where several took one name, unless the removal itself failed.
THEOREM NothingIsLeft == Spec => []NoLitter
  <1>1. Inv => NoLitter
    BY Distinct DEF Inv, Stages, Unnamed, Files, LitterIsOwned, NoLitter, Quiet
  <1> QED
    BY Invariance, <1>1, PTL

\* A call that succeeds has put its own object at the path.
THEOREM OwnIsDelivered == Spec => DeliversOwn
  <1>1. ASSUME Inv, [Next]_vars
        PROVE  [\A t \in Tasks :
                  (pc[t] = "rename" /\ pc'[t] = "idle" /\ dir'[Path] # dir[Path] /\ ~shared)
                     => data[dir'[Path]] = Whole(obj[t])]_vars
    <2>1. SUFFICES ASSUME NEW t \in Tasks, pc[t] = "rename", pc'[t] = "idle",
                          dir'[Path] # dir[Path], ~shared, Next
                   PROVE  data[dir'[Path]] = Whole(obj[t])
      BY <1>1
    <2>2. PICK u \in Tasks : Start(u) \/ Step(u)
      BY <2>1 DEF Next, Crash
    <2>3. u = t
      BY <1>1, <2>1, <2>2, StepOthers DEF Inv, Others
    <2>4. Rename(t)
      BY <2>1, <2>2, <2>3
      DEF Start, Step, Create, Fetch, Write, BodyEnds, Replace, Cleanup
    <2>5. /\ dir[stamp[t]] # Nothing
          /\ dir' = [dir EXCEPT ![Path] = dir[stamp[t]], ![stamp[t]] = Nothing]
      BY <2>1, <2>4 DEF Rename
    <2>6. stamp[t] # Path
      BY <1>1, Distinct DEF Inv, TypeOK
    <2>7. dir'[Path] = dir[stamp[t]]
      BY <1>1, <2>5, <2>6, Distinct DEF Inv, TypeOK
    <2> QED
      BY <1>1, <2>1, <2>5, <2>7 DEF Inv, Files, ReadyIsWhole
  <1> QED
    BY Invariance, <1>1, PTL DEF Spec, DeliversOwn

\* In rust and go the path is never without a file once it has one.
THEOREM PathIsKept == Spec => PathStays
  <1>1. ASSUME Inv, [Next]_vars
        PROVE  [sdk # "ts" /\ dir[Path] # Nothing => dir'[Path] # Nothing]_dir
    <2>1. SUFFICES ASSUME sdk # "ts", dir[Path] # Nothing, dir' # dir, Next
                   PROVE  dir'[Path] # Nothing
      BY <1>1 DEF vars
    <2>2. PICK t \in Tasks : Start(t) \/ Step(t)
      BY <2>1 DEF Next, Crash
    <2>3. stamp[t] # Path
      BY <1>1, Distinct DEF Inv, TypeOK
    <2>4. CASE Create(t)
      <3>1. PICK n \in NamesOf : dir' = [dir EXCEPT ![n] = Opened(n)]
        BY <2>1, <2>4 DEF Create, Opened
      <3> QED
        BY <1>1, <2>1, <3>1, Distinct DEF Inv, TypeOK, NamesOf, Temporary
    <2>5. CASE Rename(t)
      BY <1>1, <2>1, <2>3, <2>5, Distinct DEF Inv, TypeOK, Rename
    <2>6. CASE Cleanup(t)
      BY <1>1, <2>1, <2>3, <2>6, Distinct DEF Inv, TypeOK, Cleanup
    <2>7. ~Replace(t)
      BY <1>1, <2>1 DEF Inv, Stages, Replace
    <2> QED
      BY <2>1, <2>2, <2>4, <2>5, <2>6, <2>7 DEF Start, Step, Fetch, Write, BodyEnds
  <1> QED
    BY Invariance, <1>1, PTL DEF Spec, PathStays

-----------------------------------------------------------------------------
(***************************************************************************)
(* Sync: lemmas about maxima, of which the library says nothing.           *)
(***************************************************************************)
\* The largest of some numbers up to n, by the least-number principle
LEMMA Largest ==
    ASSUME NEW S, S \subseteq Nat, S # {}, NEW n \in Nat, \A s \in S : s <= n
    PROVE  \E m \in S : \A s \in S : s <= m
  <1> DEFINE T == {i \in Nat : \E s \in S : i = n - s}
  <1>1. T \subseteq Nat /\ T # {}
    <2>1. PICK s \in S : TRUE
      OBVIOUS
    <2>2. n - s \in Nat
      BY <2>1
    <2>3. n - s \in T
      BY <2>1, <2>2
    <2> QED
      BY <2>3
  <1>2. PICK x \in T : \A y \in T : <<y, x>> \notin OpToRel(<, Nat)
    BY <1>1, NatLessThanWellFounded, WFMin
  <1>3. \A y \in T : ~(y < x)
    BY <1>1, <1>2 DEF OpToRel
  <1>4. PICK m \in S : x = n - m
    OBVIOUS
  <1>5. ASSUME NEW s \in S PROVE s <= m
    <2>1. n - s \in Nat
      OBVIOUS
    <2>2. n - s \in T
      BY <2>1
    <2>3. ~(n - s < n - m)
      BY <1>3, <1>4, <2>2
    <2> QED
      BY <2>3
  <1> QED
    BY <1>5

\* So Max chooses it.
LEMMA MaxIsLargest ==
    ASSUME NEW S, S \subseteq Nat, S # {}, NEW n \in Nat, \A s \in S : s <= n
    PROVE  Max(S) \in S /\ \A s \in S : s <= Max(S)
  <1>1. PICK m \in S : \A s \in S : m >= s
    BY Largest
  <1> QED
    BY <1>1 DEF Max

-----------------------------------------------------------------------------
(***************************************************************************)
(* The log: records after n writes.                                        *)
(***************************************************************************)
LEMMA WritesFinite ==
    ASSUME NEW l, NEW n \in Nat, NEW k
    PROVE  /\ Writes(l, n, k) \subseteq 1 .. n /\ IsFiniteSet(Writes(l, n, k))
           /\ Cardinality(Writes(l, n, k)) \in Nat
  <1>1. Writes(l, n, k) \subseteq 1 .. n
    BY DEF Writes
  <1>2. IsFiniteSet(1 .. n)
    BY FS_Interval
  <1>3. IsFiniteSet(Writes(l, n, k))
    BY <1>1, <1>2, FS_Subset
  <1> QED
    BY <1>1, <1>3, FS_CardinalityType

\* The last of some writes is one of them.
LEMMA LastWrite ==
    ASSUME NEW l, NEW n \in Nat, NEW k, Writes(l, n, k) # {}
    PROVE  LET m == Max(Writes(l, n, k))
           IN  m \in Writes(l, n, k) /\ \A i \in Writes(l, n, k) : i <= m
  <1>1. Writes(l, n, k) \subseteq Nat /\ \A i \in Writes(l, n, k) : i <= n
    BY DEF Writes
  <1> QED
    BY <1>1, MaxIsLargest

\* The version of a record is the number of writes to it.
LEMMA VersionCounts ==
    ASSUME NEW l, NEW n \in Nat, NEW k
    PROVE  RecordAt(l, n, k).version = Cardinality(Writes(l, n, k))
  BY FS_EmptySet DEF RecordAt, NoRecord

\* A log of mutations makes records.
LEMMA RecordType ==
    ASSUME NEW l \in Seq(Mutations), NEW n \in Nat, n <= Len(l), NEW k
    PROVE  RecordAt(l, n, k) \in Records
  <1>1. CASE Writes(l, n, k) = {}
    BY <1>1 DEF RecordAt, NoRecord, Records
  <1>2. CASE Writes(l, n, k) # {}
    <2>1. Max(Writes(l, n, k)) \in 1 .. n
      BY <1>2, LastWrite, WritesFinite
    <2>2. l[Max(Writes(l, n, k))] \in Mutations
      BY <2>1
    <2>3. l[Max(Writes(l, n, k))].edit \in Nat
      BY <2>2 DEF Mutations
    <2> QED
      BY <1>2, <2>3, WritesFinite DEF RecordAt, Records
  <1> QED
    BY <1>1, <1>2

\* A record only gets newer, and is the same as long as its version is.
LEMMA RecordGrows ==
    ASSUME NEW l, NEW n \in Nat, NEW m \in Nat, n <= m, NEW k
    PROVE  /\ RecordAt(l, n, k).version \in Nat /\ RecordAt(l, m, k).version \in Nat
           /\ RecordAt(l, n, k).version <= RecordAt(l, m, k).version
           /\ RecordAt(l, n, k).version = RecordAt(l, m, k).version
                => RecordAt(l, n, k) = RecordAt(l, m, k)
  <1>1. Writes(l, n, k) \in SUBSET Writes(l, m, k)
    BY DEF Writes
  <1>2. /\ IsFiniteSet(Writes(l, m, k)) /\ Cardinality(Writes(l, m, k)) \in Nat
        /\ Cardinality(Writes(l, n, k)) \in Nat
    BY WritesFinite
  <1>3. /\ Cardinality(Writes(l, n, k)) <= Cardinality(Writes(l, m, k))
        /\ Cardinality(Writes(l, m, k)) = Cardinality(Writes(l, n, k))
             => Writes(l, m, k) = Writes(l, n, k)
    BY <1>1, <1>2, FS_Subset
  <1>4. /\ RecordAt(l, n, k).version = Cardinality(Writes(l, n, k))
        /\ RecordAt(l, m, k).version = Cardinality(Writes(l, m, k))
    BY VersionCounts
  <1>5. Writes(l, m, k) = Writes(l, n, k) => RecordAt(l, n, k) = RecordAt(l, m, k)
    BY DEF RecordAt
  <1> QED
    BY <1>2, <1>3, <1>4, <1>5

\* What is appended to a log changes nothing of what it was.
LEMMA RecordStays ==
    ASSUME NEW l \in Seq(Mutations), NEW h \in Seq(Mutations), Len(l) <= Len(h),
           \A i \in 1 .. Len(l) : h[i] = l[i],
           NEW n \in Nat, n <= Len(l), NEW k
    PROVE  RecordAt(h, n, k) = RecordAt(l, n, k)
  <1>1. Writes(h, n, k) = Writes(l, n, k)
    BY DEF Writes
  <1>2. CASE Writes(l, n, k) = {}
    BY <1>1, <1>2 DEF RecordAt
  <1>3. CASE Writes(l, n, k) # {}
    <2>1. Max(Writes(l, n, k)) \in 1 .. n
      BY <1>3, LastWrite, WritesFinite
    <2>2. h[Max(Writes(l, n, k))] = l[Max(Writes(l, n, k))]
      BY <2>1
    <2> QED
      BY <1>1, <1>3, <2>2 DEF RecordAt
  <1> QED
    BY <1>2, <1>3

\* A record that changed between two positions is what the last write between them
\* made it.
LEMMA ChangeBetween ==
    ASSUME NEW l, NEW n \in Nat, NEW m \in Nat, n <= m, NEW k,
           RecordAt(l, n, k) # RecordAt(l, m, k)
    PROVE  \E j \in n + 1 .. m : l[j].key = k /\ RecordAt(l, j, k) = RecordAt(l, m, k)
  <1>1. Writes(l, n, k) # Writes(l, m, k)
    BY DEF RecordAt
  <1>2. PICK i \in Writes(l, m, k) : i \notin Writes(l, n, k)
    BY <1>1 DEF Writes
  <1>3. i \in n + 1 .. m
    BY <1>2 DEF Writes
  <1> DEFINE j == Max(Writes(l, m, k))
  <1>4. j \in Writes(l, m, k) /\ \A h \in Writes(l, m, k) : h <= j
    BY <1>2, LastWrite
  <1>5. j \in n + 1 .. m /\ l[j].key = k
    BY <1>2, <1>3, <1>4, WritesFinite DEF Writes
  <1>6. Writes(l, j, k) = Writes(l, m, k)
    <2> HIDE DEF j
    <2>1. ASSUME NEW h \in Writes(l, m, k) PROVE h \in Writes(l, j, k)
      BY <1>4, <1>5, <2>1 DEF Writes
    <2>2. ASSUME NEW h \in Writes(l, j, k) PROVE h \in Writes(l, m, k)
      BY <1>5, <2>2 DEF Writes
    <2> QED
      BY <2>1, <2>2
  <1>7. RecordAt(l, j, k) = RecordAt(l, m, k)
    BY <1>6 DEF RecordAt
  <1> QED
    BY <1>5, <1>7

-----------------------------------------------------------------------------
(***************************************************************************)
(* The inductive invariant.                                                *)
(***************************************************************************)
Exchange == [mutations : SUBSET Mutations, cursor : Nat, page : Nat]
Replies == [records : SUBSET [key : Range(Keys), record : Records],
            settled : SUBSET Mutations, conflicts : SUBSET Mutations,
            next : Nat, more : BOOLEAN, reset : BOOLEAN]

SyncTypes ==
    /\ log \in Seq(Mutations)
    /\ outbox \in [Devices -> SUBSET Mutations]
    /\ \A d \in Devices : IsFiniteSet(outbox[d])
    /\ cursor \in [Devices -> Nat]
    /\ replica \in [Devices -> [Range(Keys) -> Records]]
    /\ paging \in [Devices -> Nat]
    /\ more \in [Devices -> BOOLEAN]
    /\ stage \in [Devices -> {"idle", "sent", "answered"}]
    /\ body \in [Devices -> Exchange]
    /\ reply \in [Devices -> Replies]
    /\ late \subseteq Exchange
    /\ \A b \in late : IsFiniteSet(b.mutations)
    /\ made \in Nat

\* The mutations there are, whoever has them
Known(m) ==
    \/ m \in Range(log)
    \/ \E d \in Devices : m \in outbox[d]
    \/ \E b \in late : m \in b.mutations

\* One that will never take effect
Dead(m) == m.id \notin Ids(Range(log)) /\ m.base < Current(m.key).version

\* An id is of one mutation, which takes effect once; of the mutations of an edit
\* all but the newest are dead, and only the newest can be in an outbox.
Mutated ==
    /\ \A m : Known(m) =>
          m.id <= made /\ m.edit <= made /\ m.base <= Current(m.key).version
    /\ \A m, n : Known(m) /\ Known(n) /\ m.id = n.id => m = n
    /\ \A m, n : Known(m) /\ Known(n) /\ m.edit = n.edit /\ m.id < n.id => Dead(m)
    /\ \A d \in Devices : \A m \in outbox[d] : \A n :
          Known(n) /\ m.edit = n.edit => n.id <= m.id
    /\ \A d, e \in Devices : \A m \in outbox[d] : m \in outbox[e] => d = e
    /\ \A i, j \in DOMAIN log : log[i].id = log[j].id => i = j

\* What a call is about while it is under way
CalledAt(d) ==
    /\ stage[d] = "idle" => body[d] = Idle
    /\ stage[d] # "answered" => reply[d] = Silence
    /\ body[d].mutations \subseteq outbox[d]
    /\ stage[d] # "idle" => body[d].cursor = cursor[d] /\ body[d].page = paging[d]
    /\ reply[d].conflicts \subseteq body[d].mutations
    /\ \A m \in reply[d].conflicts : Dead(m)
    /\ body[d].page # 0 => body[d].mutations = {}
    /\ stage[d] = "answered" /\ ~reply[d].reset =>
          \A m \in body[d].mutations : m \in reply[d].conflicts \/ m.id \in Ids(Range(log))

\* The records of the replica that are not older than its cursor: all, or those of
\* the pages of a snapshot so far
Covered(d, k) == paging[d] = 0 \/ \E i \in DOMAIN Keys : i < paging[d] /\ Keys[i] = k

\* r is the record of key k at some position of the log.
Was(r, k, from) == \E n \in Nat : from <= n /\ n <= Len(log) /\ r = RecordAt(log, n, k)

ReplicatedAt(d) ==
    /\ cursor[d] <= Len(log)
    /\ \A k \in Range(Keys) :
          /\ Was(replica[d][k], k, 0)
          /\ Covered(d, k) => Was(replica[d][k], k, cursor[d])

\* A page of changes, or of a snapshot
ChangesIn(r, from) == r.records = {Change(log, n) : n \in from + 1 .. r.next}

PageIn(r, page) ==
    \E end \in Nat :
        /\ end <= Len(Keys)
        /\ IF r.more THEN end = page + PullLimit - 1 ELSE end = Len(Keys)
        /\ r.records = {[key |-> Keys[i], record |-> RecordAt(log, r.next, Keys[i])] :
                           i \in page .. end}

AnsweredAt(d) ==
    stage[d] = "answered" /\ ~reply[d].reset =>
        /\ cursor[d] <= reply[d].next /\ reply[d].next <= Len(log)
        /\ IF paging[d] = 0 THEN ChangesIn(reply[d], cursor[d])
           ELSE PageIn(reply[d], paging[d])

Called == \A d \in Devices : CalledAt(d) /\ ReplicatedAt(d) /\ AnsweredAt(d)

SyncInv == SyncTypes /\ Mutated /\ Called

-----------------------------------------------------------------------------
(***************************************************************************)
(* A step that may append to the log.                                      *)
(***************************************************************************)
Added == Len(log) + 1 .. Len(log')

Longer ==
    /\ log' \in Seq(Mutations) /\ Len(log) <= Len(log')
    /\ \A i \in 1 .. Len(log) : log'[i] = log[i]

Grown ==
    /\ Longer
    /\ \A i \in Added : Known(log'[i]) /\ Effective(log'[i])
    /\ \A i, j \in Added : log'[i] = log'[j] => i = j

\* What Take appends: effective mutations of the request, each once, and all of them
\* unless the request is refused.
LEMMA Taken ==
    ASSUME log \in Seq(Mutations), NEW b, b.mutations \subseteq Mutations,
           IsFiniteSet(b.mutations), Take(b)
    PROVE  /\ Longer
           /\ \A i \in Added : log'[i] \in b.mutations /\ Effective(log'[i])
           /\ \A i, j \in Added : log'[i] = log'[j] => i = j
           /\ Behind(b) \/ \A m \in b.mutations : Effective(m) => m \in Range(log')
  <1>1. CASE Behind(b)
    <2>1. log' = log
      BY <1>1 DEF Take
    <2> QED
      BY <1>1, <2>1 DEF Longer, Added
  <1>2. CASE ~Behind(b)
    <2> DEFINE S == {m \in b.mutations : Effective(m)}
               n == Cardinality(S)
    <2>1. PICK f \in SetToSeqs(S) : log' = log \o f
      BY <1>2 DEF Take
    <2>2. S \subseteq Mutations /\ S \subseteq b.mutations /\ \A m \in S : Effective(m)
      OBVIOUS
    <2>3. IsFiniteSet(S) /\ n \in Nat
      BY FS_Subset, FS_CardinalityType
    <2> HIDE DEF S
    <2>4. f \in [1 .. n -> S] /\ \A i, j \in 1 .. n : i # j => f[i] # f[j]
      BY <2>1 DEF SetToSeqs
    <2> HIDE DEF n
    <2>5. f \in Seq(Mutations) /\ Len(f) = n
      BY <2>2, <2>3, <2>4
    <2>6. /\ log' \in Seq(Mutations) /\ Len(log') = Len(log) + n
          /\ \A i \in 1 .. Len(log) : log'[i] = log[i]
          /\ \A i \in Added : i - Len(log) \in 1 .. n /\ log'[i] = f[i - Len(log)]
      <3>0. log \in Seq(Mutations) /\ f \in Seq(Mutations) /\ log' = log \o f
        BY <2>1, <2>5
      <3>1. log' \in Seq(Mutations) /\ Len(log') = Len(log) + n
        <4>1. log' \in Seq(Mutations)
          BY <3>0
        <4>2. Len(log') = Len(log) + Len(f)
          BY <3>0
        <4> QED
          BY <2>5, <4>1, <4>2
      <3>2. \A i \in 1 .. Len(log) : log'[i] = log[i]
        BY <2>1, <2>3, <2>5
      <3>3. \A i \in Added : i - Len(log) \in 1 .. n
        BY <2>3, <3>1 DEF Added
      <3>4. \A i \in Added : log'[i] = f[i - Len(log)]
        BY <2>1, <2>3, <2>5, <3>1 DEF Added
      <3> QED
        BY <3>1, <3>2, <3>3, <3>4
    <2>7. Longer
      BY <2>3, <2>6 DEF Longer
    <2>8. \A i \in Added : log'[i] \in b.mutations /\ Effective(log'[i])
      BY <2>2, <2>4, <2>6
    <2>9. \A i, j \in Added : log'[i] = log'[j] => i = j
      BY <2>4, <2>6 DEF Added
    <2>10. ASSUME NEW m \in S PROVE m \in Range(log')
      <3>1. IsFiniteSet(1 .. n) /\ Cardinality(1 .. n) = n
        BY <2>3, FS_Interval
      <3>2. f \in Injection(1 .. n, S)
        BY <2>4 DEF Injection, IsInjective
      <3>3. f \in Surjection(1 .. n, S)
        BY <2>3, <3>1, <3>2, FS_Injection DEF n
      <3>4. PICK i \in 1 .. n : f[i] = m
        BY <3>3 DEF Surjection
      <3>5. Len(log) + i \in DOMAIN log' /\ log'[Len(log) + i] = m
        BY <2>1, <2>3, <2>5, <2>6, <3>4
      <3> QED
        BY <3>5 DEF Range
    <2> QED
      BY <2>7, <2>8, <2>9, <2>10 DEF S
  <1> QED
    BY <1>1, <1>2

\* A longer log has no older versions.
LEMMA CurrentGrows ==
    ASSUME log \in Seq(Mutations), Longer, NEW k
    PROVE  /\ Current(k).version \in Nat /\ Current(k)'.version \in Nat
           /\ Current(k).version <= Current(k)'.version
  <1>1. RecordAt(log', Len(log), k) = RecordAt(log, Len(log), k)
    BY RecordStays DEF Longer
  <1>2. /\ RecordAt(log', Len(log), k).version \in Nat
        /\ RecordAt(log', Len(log'), k).version \in Nat
        /\ RecordAt(log', Len(log), k).version <= RecordAt(log', Len(log'), k).version
    BY RecordGrows DEF Longer
  <1> QED
    BY <1>1, <1>2 DEF Current

\* What is dead stays so: versions only grow, and only effective ids are added.
LEMMA DeadStays ==
    ASSUME SyncTypes, Mutated, Grown, NEW m, Known(m), m.base \in Nat, Dead(m)
    PROVE  Dead(m)'
  <1>1. log \in Seq(Mutations) /\ Longer
    BY DEF SyncTypes, Grown
  <1>2. m.base < Current(m.key)'.version
    BY <1>1, CurrentGrows DEF Dead
  <1>3. ASSUME NEW i \in DOMAIN log' PROVE log'[i].id # m.id
    <2>1. CASE i \in 1 .. Len(log)
      <3>1. log'[i] = log[i] /\ i \in DOMAIN log
        BY <1>1, <2>1 DEF Longer
      <3> QED
        BY <3>1 DEF Dead, Ids, Range
    <2>2. CASE i \in Added
      <3>1. Known(log'[i]) /\ Effective(log'[i])
        BY <2>2 DEF Grown
      <3>2. CASE log'[i].id = m.id
        <4>1. log'[i] = m
          BY <3>1, <3>2 DEF Mutated
        <4>2. m.base = Current(m.key).version
          BY <3>1, <4>1 DEF Effective
        <4> QED
          BY <1>1, <4>2, CurrentGrows DEF Dead
      <3> QED
        BY <3>2
    <2>3. i \in 1 .. Len(log) \/ i \in Added
      BY <1>1 DEF Longer, Added
    <2> QED
      BY <2>1, <2>2, <2>3
  <1> QED
    BY <1>2, <1>3 DEF Dead, Ids, Range

\* What is known is a mutation.
LEMMA KnownType ==
    ASSUME SyncTypes, NEW m, Known(m)
    PROVE  /\ m \in Mutations /\ m.id \in Nat /\ m.edit \in Nat
           /\ m.base \in Nat /\ m.key \in Range(Keys)
  <1>1. m \in Mutations
    <2>1. m \in Range(log) => m \in Mutations
      BY DEF SyncTypes, Range
    <2>2. \A d \in Devices : m \in outbox[d] => m \in Mutations
      BY DEF SyncTypes
    <2>3. \A b \in late : m \in b.mutations => m \in Mutations
      BY DEF SyncTypes, Exchange
    <2> QED
      BY <2>1, <2>2, <2>3 DEF Known
  <1> QED
    BY <1>1 DEF Mutations

\* Mutated, kept by a step that makes no mutation.
LEMMA MutatedGrows ==
    ASSUME SyncTypes, Mutated, Grown, made' = made, \A m : Known(m)' => Known(m),
           \A d \in Devices : outbox'[d] \subseteq outbox[d]
    PROVE  Mutated'
  <1>1. log \in Seq(Mutations) /\ Longer /\ made \in Nat
    BY DEF SyncTypes, Grown
  <1>2. ASSUME NEW m, Known(m)'
        PROVE  m.id <= made' /\ m.edit <= made' /\ m.base <= Current(m.key)'.version
    <2>1. m.id <= made /\ m.edit <= made /\ m.base <= Current(m.key).version
      BY <1>2 DEF Mutated
    <2>2. m.base \in Nat
      BY <1>2, KnownType
    <2> QED
      BY <1>1, <2>1, <2>2, CurrentGrows
  <1>3. \A m, n : Known(m)' /\ Known(n)' /\ m.id = n.id => m = n
    BY DEF Mutated
  <1>4. ASSUME NEW m, NEW n, Known(m)', Known(n)', m.edit = n.edit, m.id < n.id
        PROVE  Dead(m)'
    <2>1. Known(m) /\ Dead(m)
      BY <1>4 DEF Mutated
    <2> QED
      BY <2>1, KnownType, DeadStays
  <1>5. \A d \in Devices : \A m \in outbox'[d] : \A n :
           Known(n)' /\ m.edit = n.edit => n.id <= m.id
    BY DEF Mutated
  <1>6. \A d, e \in Devices : \A m \in outbox'[d] : m \in outbox'[e] => d = e
    BY DEF Mutated
  <1>7. ASSUME NEW i \in DOMAIN log', NEW j \in DOMAIN log', log'[i].id = log'[j].id
        PROVE  i = j
    <2>1. \A h \in DOMAIN log' : h \in DOMAIN log \/ h \in Added
      BY <1>1 DEF Longer, Added
    <2>2. \A h \in DOMAIN log : log'[h] = log[h] /\ Known(log[h])
      BY <1>1 DEF Longer, Known, Range
    <2>3. \A h \in Added : \A g \in DOMAIN log : log'[h].id # log[g].id
      BY DEF Grown, Effective, Ids, Range
    <2>4. CASE i \in DOMAIN log /\ j \in DOMAIN log
      BY <1>7, <2>2, <2>4 DEF Mutated
    <2>5. CASE i \in Added /\ j \in Added
      <3>1. Known(log'[i]) /\ Known(log'[j])
        BY <2>5 DEF Grown
      <3>2. log'[i] = log'[j]
        BY <1>7, <3>1 DEF Mutated
      <3> QED
        BY <2>5, <3>2 DEF Grown
    <2> QED
      BY <1>7, <2>1, <2>2, <2>3, <2>4, <2>5
  <1>8. \A m : Known(m)' =>
           m.id <= made' /\ m.edit <= made' /\ m.base <= Current(m.key)'.version
    BY <1>2
  <1>9. \A m, n : Known(m)' /\ Known(n)' /\ m.edit = n.edit /\ m.id < n.id => Dead(m)'
    BY <1>4
  <1> QED
    BY <1>3, <1>5, <1>6, <1>7, <1>8, <1>9 DEF Mutated

\* Mutated, kept by a step that makes the mutation x and drops those that are not
\* kept from the outbox of d.
LEMMA MutatedNew ==
    ASSUME SyncTypes, Mutated, UNCHANGED <<log, late>>, made' = made + 1,
           NEW d \in Devices, NEW kept \in SUBSET outbox[d], NEW x \in Mutations,
           outbox' = [outbox EXCEPT ![d] = kept \cup {x}],
           x.id = made + 1, x.edit <= made + 1, x.base <= Current(x.key).version,
           \A m : Known(m) /\ m.edit = x.edit =>
              Dead(m) /\ \A e \in Devices : m \in outbox[e] => e = d /\ m \notin kept
    PROVE  Mutated'
  <1>1. log' = log /\ late' = late /\ made \in Nat
    BY DEF SyncTypes
  <1>2. outbox'[d] = kept \cup {x} /\ \A e \in Devices : e # d => outbox'[e] = outbox[e]
    BY DEF SyncTypes
  <1>3. \A k : Current(k)' = Current(k)
    BY <1>1 DEF Current
  <1>4. \A m : Dead(m)' = Dead(m)
    BY <1>1, <1>3 DEF Dead
  <1>5. \A m : Known(m)' => Known(m) \/ m = x
    BY <1>1, <1>2 DEF Known
  <1>6. \A m : Known(m) => /\ m.id <= made /\ m.edit <= made /\ m.base <= Current(m.key).version
                          /\ m.id \in Nat /\ m.edit \in Nat
    BY KnownType DEF Mutated
  <1>7. \A m : Known(m)' =>
           m.id <= made' /\ m.edit <= made' /\ m.base <= Current(m.key)'.version
    BY <1>1, <1>3, <1>5, <1>6
  <1>8. ASSUME NEW m, NEW n, Known(m)', Known(n)', m.id = n.id PROVE m = n
    <2>1. CASE Known(m) /\ Known(n)
      BY <1>8, <2>1 DEF Mutated
    <2>2. \A o : Known(o) => o.id # x.id
      BY <1>1, <1>6
    <2> QED
      BY <1>5, <1>8, <2>1, <2>2
  <1>9. ASSUME NEW m, NEW n, Known(m)', Known(n)', m.edit = n.edit, m.id < n.id
        PROVE  Dead(m)'
    <2>1. CASE Known(m) /\ Known(n)
      BY <1>4, <1>9, <2>1 DEF Mutated
    <2>2. CASE Known(m) /\ n = x
      BY <1>4, <1>9, <2>2
    <2>3. m # x
      BY <1>1, <1>5, <1>6, <1>9
    <2> QED
      BY <1>5, <1>9, <2>1, <2>2, <2>3
  <1>10. ASSUME NEW e \in Devices, NEW m \in outbox'[e], NEW n, Known(n)', m.edit = n.edit
         PROVE  n.id <= m.id
    <2>1. \A o : Known(o) => o.id <= x.id
      BY <1>1, <1>6
    <2>2. CASE m = x
      <3>1. x.id <= x.id
        BY <1>1
      <3> QED
        BY <1>5, <1>10, <2>1, <2>2, <3>1
    <2>3. CASE m # x
      <3>1. m \in outbox[e] /\ (e = d => m \in kept)
        BY <1>2, <2>3
      <3>2. Known(m)
        BY <3>1 DEF Known
      <3>3. n # x
        BY <1>10, <3>1, <3>2
      <3> QED
        BY <1>5, <1>10, <3>1, <3>3 DEF Mutated
    <2> QED
      BY <2>2, <2>3
  <1>11. ASSUME NEW e \in Devices, NEW f \in Devices, NEW m \in outbox'[e], m \in outbox'[f]
         PROVE  e = f
    <2>1. CASE m = x
      <3>1. \A g \in Devices : x \notin outbox[g]
        BY <1>1, <1>6 DEF Known
      <3> QED
        BY <1>2, <1>11, <2>1, <3>1
    <2>2. CASE m # x
      <3>1. m \in outbox[e] /\ m \in outbox[f]
        BY <1>2, <1>11, <2>2
      <3> QED
        BY <3>1 DEF Mutated
    <2> QED
      BY <2>1, <2>2
  <1>12. \A i, j \in DOMAIN log' : log'[i].id = log'[j].id => i = j
    BY <1>1 DEF Mutated
  <1>13. \A m, n : Known(m)' /\ Known(n)' /\ m.id = n.id => m = n
    BY <1>8
  <1>14. \A m, n : Known(m)' /\ Known(n)' /\ m.edit = n.edit /\ m.id < n.id => Dead(m)'
    BY <1>9
  <1>15. \A e \in Devices : \A m \in outbox'[e] : \A n :
            Known(n)' /\ m.edit = n.edit => n.id <= m.id
    BY <1>10
  <1>16. \A e, f \in Devices : \A m \in outbox'[e] : m \in outbox'[f] => e = f
    BY <1>11
  <1> QED
    BY <1>7, <1>12, <1>13, <1>14, <1>15, <1>16 DEF Mutated

-----------------------------------------------------------------------------
(***************************************************************************)
(* What a step does not concern.                                           *)
(***************************************************************************)
\* A record there was stays one there was.
LEMMA WasStays ==
    ASSUME log \in Seq(Mutations), Longer, NEW r, NEW k, NEW from \in Nat, Was(r, k, from)
    PROVE  Was(r, k, from)'
  <1>1. PICK n \in Nat : from <= n /\ n <= Len(log) /\ r = RecordAt(log, n, k)
    BY DEF Was
  <1>2. RecordAt(log', n, k) = r /\ n <= Len(log')
    BY <1>1, RecordStays DEF Longer
  <1> QED
    BY <1>1, <1>2 DEF Was

\* A replica is not spoilt by a longer log.
LEMMA ReplicatedStays ==
    ASSUME SyncTypes, Longer, NEW d \in Devices, ReplicatedAt(d),
           cursor'[d] = cursor[d], replica'[d] = replica[d], paging'[d] = paging[d]
    PROVE  ReplicatedAt(d)'
  <1>1. log \in Seq(Mutations) /\ cursor[d] \in Nat
    BY DEF SyncTypes
  <1>2. cursor'[d] <= Len(log')
    BY <1>1 DEF ReplicatedAt, Longer
  <1>3. \A k : Covered(d, k)' = Covered(d, k)
    BY DEF Covered
  <1>4. ASSUME NEW k \in Range(Keys)
        PROVE  /\ Was(replica[d][k], k, 0)'
               /\ Covered(d, k) => Was(replica[d][k], k, cursor[d])'
    <2>1. Was(replica[d][k], k, 0) /\ (Covered(d, k) => Was(replica[d][k], k, cursor[d]))
      BY DEF ReplicatedAt
    <2> QED
      BY <1>1, <2>1, WasStays
  <1> QED
    BY <1>2, <1>3, <1>4 DEF ReplicatedAt

\* A change of the log is the same in a longer one.
LEMMA ChangeStays ==
    ASSUME log \in Seq(Mutations), Longer, NEW n \in 1 .. Len(log)
    PROVE  Change(log', n) = Change(log, n)
  <1>1. log'[n] = log[n] /\ n \in Nat /\ n <= Len(log)
    BY DEF Longer
  <1>2. \A k : RecordAt(log', n, k) = RecordAt(log, n, k)
    BY <1>1, RecordStays DEF Longer
  <1> QED
    BY <1>1, <1>2 DEF Change

\* An answer stays true of a longer log.
LEMMA AnsweredStays ==
    ASSUME SyncTypes, Longer, NEW d \in Devices, AnsweredAt(d),
           cursor'[d] = cursor[d], paging'[d] = paging[d],
           stage'[d] = stage[d], reply'[d] = reply[d]
    PROVE  AnsweredAt(d)'
  <1>1. SUFFICES ASSUME stage[d] = "answered", ~reply[d].reset
                 PROVE  AnsweredAt(d)'
    BY DEF AnsweredAt
  <1> DEFINE r == reply[d]
  <1>2. log \in Seq(Mutations) /\ log' \in Seq(Mutations) /\ cursor[d] \in Nat /\ r.next \in Nat
    BY DEF SyncTypes, Longer, Replies
  <1>3. cursor[d] <= r.next /\ r.next <= Len(log) /\ r.next <= Len(log')
    BY <1>1, <1>2 DEF AnsweredAt, Longer
  <1>4. CASE paging[d] = 0
    <2>1. r.records = {Change(log, n) : n \in cursor[d] + 1 .. r.next}
      BY <1>1, <1>4 DEF AnsweredAt, ChangesIn
    <2>2. \A n \in cursor[d] + 1 .. r.next : Change(log', n) = Change(log, n)
      <3>1. \A n \in cursor[d] + 1 .. r.next : n \in 1 .. Len(log)
        BY <1>2, <1>3
      <3> QED
        BY <1>2, <3>1, ChangeStays
    <2>3. r.records = {Change(log', n) : n \in cursor[d] + 1 .. r.next}
      BY <2>1, <2>2
    <2>4. ChangesIn(reply[d], cursor[d])'
      BY <2>3 DEF ChangesIn
    <2> QED
      BY <1>1, <1>3, <1>4, <2>4 DEF AnsweredAt
  <1>5. CASE paging[d] # 0
    <2>1. PICK end \in Nat :
             /\ end <= Len(Keys)
             /\ IF r.more THEN end = paging[d] + PullLimit - 1 ELSE end = Len(Keys)
             /\ r.records = {[key |-> Keys[i], record |-> RecordAt(log, r.next, Keys[i])] :
                                i \in paging[d] .. end}
      BY <1>1, <1>5 DEF AnsweredAt, PageIn
    <2>2. \A k : RecordAt(log', r.next, k) = RecordAt(log, r.next, k)
      BY <1>2, <1>3, RecordStays DEF Longer
    <2>3. r.records = {[key |-> Keys[i], record |-> RecordAt(log', r.next, Keys[i])] :
                                i \in paging[d] .. end}
      BY <2>1, <2>2
    <2>4. PageIn(reply[d], paging[d])'
      BY <2>1, <2>3 DEF PageIn
    <2> QED
      BY <1>1, <1>3, <1>5, <2>4 DEF AnsweredAt
  <1> QED
    BY <1>4, <1>5

\* What a call carries stays in the outbox, its conflicts stay dead.
LEMMA CalledStays ==
    ASSUME SyncTypes, Mutated, Grown, NEW d \in Devices, CalledAt(d),
           cursor'[d] = cursor[d], paging'[d] = paging[d], stage'[d] = stage[d],
           body'[d] = body[d], reply'[d] = reply[d], outbox[d] \subseteq outbox'[d]
    PROVE  CalledAt(d)'
  <1>1. \A m \in reply[d].conflicts : Dead(m)'
    <2>1. ASSUME NEW m \in reply[d].conflicts PROVE Dead(m)'
      <3>1. Known(m) /\ Dead(m)
        BY <2>1 DEF CalledAt, Known
      <3> QED
        BY <3>1, KnownType, DeadStays
    <2> QED
      BY <2>1
  <1>2. Ids(Range(log)) \subseteq Ids(Range(log'))
    <2>1. log \in Seq(Mutations) /\ Longer
      BY DEF SyncTypes, Grown
    <2>2. \A i \in DOMAIN log : i \in DOMAIN log' /\ log'[i] = log[i]
      BY <2>1 DEF Longer
    <2> QED
      BY <2>2 DEF Ids, Range
  <1> QED
    BY <1>1, <1>2 DEF CalledAt

\* All of it, for a device that the step does not concern
LEMMA OthersStay ==
    ASSUME SyncInv, Grown, NEW d \in Devices,
           cursor'[d] = cursor[d], paging'[d] = paging[d], replica'[d] = replica[d],
           stage'[d] = stage[d], body'[d] = body[d], reply'[d] = reply[d],
           outbox[d] \subseteq outbox'[d]
    PROVE  CalledAt(d)' /\ ReplicatedAt(d)' /\ AnsweredAt(d)'
  <1>1. SyncTypes /\ Mutated /\ Longer /\ CalledAt(d) /\ ReplicatedAt(d) /\ AnsweredAt(d)
    BY DEF SyncInv, Called, Grown
  <1> QED
    BY <1>1, CalledStays, ReplicatedStays, AnsweredStays

\* A step that leaves the log as it is
LEMMA SameLog == log \in Seq(Mutations) /\ log' = log => Grown
  BY DEF Grown, Longer, Added

-----------------------------------------------------------------------------
(***************************************************************************)
(* The steps, one by one.                                                  *)
(***************************************************************************)
LEMMA SyncStart == SyncInit => SyncInv
  <1> SUFFICES ASSUME SyncInit PROVE SyncInv
    OBVIOUS
  <1>1. log = <<>> /\ Len(log) = 0 /\ Range(log) = {}
    BY DEF SyncInit, Range
  <1>2. SyncTypes
    <2>1. Idle \in Exchange /\ Silence \in Replies /\ NoRecord \in Records
      BY DEF Idle, Exchange, Silence, Replies, NoRecord, Records
    <2> QED
      BY <2>1, FS_EmptySet DEF SyncInit, SyncTypes
  <1>3. \A m : ~Known(m)
    BY <1>1 DEF SyncInit, Known
  <1>4. Mutated
    BY <1>1, <1>3 DEF Mutated, SyncInit
  <1>5. \A d \in Devices : CalledAt(d) /\ AnsweredAt(d)
    BY DEF SyncInit, CalledAt, AnsweredAt, Idle, Silence
  <1>6. \A d \in Devices : ReplicatedAt(d)
    <2>1. \A k : RecordAt(log, 0, k) = NoRecord
      BY DEF RecordAt, Writes
    <2>2. \A k : Was(NoRecord, k, 0)
      BY <1>1, <2>1 DEF Was
    <2> QED
      BY <1>1, <2>2 DEF SyncInit, ReplicatedAt
  <1> QED
    BY <1>2, <1>4, <1>5, <1>6 DEF SyncInv, Called

\* The version a replica has is not newer than the record of the server.
LEMMA WasCurrent ==
    ASSUME log \in Seq(Mutations), NEW r, NEW k, Was(r, k, 0)
    PROVE  /\ r.version \in Nat /\ Current(k).version \in Nat
           /\ r.version <= Current(k).version /\ r \in Records
  <1>1. PICK n \in Nat : n <= Len(log) /\ r = RecordAt(log, n, k)
    BY DEF Was
  <1>2. Len(log) \in Nat
    OBVIOUS
  <1> QED
    BY <1>1, <1>2, RecordGrows, RecordType DEF Current

\* An edit makes a mutation with an id and an edit there are none of.
LEMMA EditKeeps ==
    ASSUME SyncInv, NEW d \in Devices, NEW k \in Range(Keys), Edit(d, k)
    PROVE  SyncInv'
  <1> DEFINE x == [edit |-> made + 1, id |-> made + 1, key |-> k, base |-> replica[d][k].version]
  <1>1. SyncTypes /\ Mutated /\ Called /\ log \in Seq(Mutations) /\ made \in Nat
    BY DEF SyncInv, SyncTypes
  <1>2. /\ UNCHANGED <<log, cursor, replica, paging, more, stage, body, reply, late>>
        /\ made' = made + 1 /\ outbox' = [outbox EXCEPT ![d] = outbox[d] \cup {x}]
    BY DEF Edit, server
  <1>3. Was(replica[d][k], k, 0)
    BY <1>1 DEF Called, ReplicatedAt
  <1>4. replica[d][k].version \in Nat /\ replica[d][k].version <= Current(k).version
    BY <1>1, <1>3, WasCurrent
  <1>5. x \in Mutations /\ x.id = made + 1 /\ x.edit = made + 1 /\ x.key = k
        /\ x.base = replica[d][k].version
    BY <1>1, <1>4 DEF Mutations
  <1> HIDE DEF x
  <1>6. Mutated'
    <2>1. \A m : Known(m) => m.edit # x.edit
      BY <1>1, <1>5, KnownType DEF Mutated
    <2>2. /\ outbox[d] \in SUBSET outbox[d] /\ UNCHANGED <<log, late>>
          /\ x.edit <= made + 1 /\ x.base <= Current(x.key).version
      BY <1>1, <1>2, <1>4, <1>5
    <2>3. \A m : Known(m) /\ m.edit = x.edit =>
             Dead(m) /\ \A e \in Devices : m \in outbox[e] => e = d /\ m \notin outbox[d]
      BY <2>1
    <2> QED
      BY <1>1, <1>2, <1>5, <2>2, <2>3, MutatedNew
  <1>7. SyncTypes'
    <2>1. outbox' \in [Devices -> SUBSET Mutations]
      BY <1>1, <1>2, <1>5 DEF SyncTypes
    <2>2. \A e \in Devices : IsFiniteSet(outbox'[e])
      <3>1. IsFiniteSet(outbox[d] \cup {x})
        BY <1>1, FS_AddElement DEF SyncTypes
      <3> QED
        BY <1>1, <1>2, <3>1 DEF SyncTypes
    <2>3. made' \in Nat
      BY <1>1, <1>2
    <2> QED
      BY <1>1, <1>2, <2>1, <2>2, <2>3 DEF SyncTypes
  <1>8. Called'
    <2>1. \A e \in Devices : outbox[e] \subseteq outbox'[e]
      BY <1>1, <1>2 DEF SyncTypes
    <2>2. Grown
      BY <1>1, <1>2, SameLog
    <2> QED
      BY <1>2, <2>1, <2>2, OthersStay DEF Called
  <1> QED
    BY <1>6, <1>7, <1>8 DEF SyncInv

\* What is sent is what is stored.
LEMMA SendKeeps ==
    ASSUME SyncInv, NEW d \in Devices, Send(d)
    PROVE  SyncInv'
  <1>1. SyncTypes /\ Mutated /\ Called /\ log \in Seq(Mutations)
    BY DEF SyncInv, SyncTypes
  <1>2. /\ UNCHANGED <<log, outbox, cursor, replica, paging, more, reply, late, made>>
        /\ stage[d] = "idle" /\ stage' = [stage EXCEPT ![d] = "sent"]
        /\ body' = [body EXCEPT ![d] = Request(d)]
    BY DEF Send, server, local
  <1>3. Grown
    BY <1>1, <1>2, SameLog
  <1>4. Mutated'
    BY <1>1, <1>2, <1>3, MutatedGrows DEF Known
  <1>5. Request(d) \in Exchange /\ Request(d).mutations \subseteq outbox[d]
        /\ Request(d).cursor = cursor[d] /\ Request(d).page = paging[d]
    BY <1>1 DEF Request, Exchange, SyncTypes
  <1>6. SyncTypes'
    <2>1. stage' \in [Devices -> {"idle", "sent", "answered"}] /\ body' \in [Devices -> Exchange]
      BY <1>1, <1>2, <1>5 DEF SyncTypes
    <2> QED
      BY <1>1, <1>2, <2>1 DEF SyncTypes
  <1>7. stage'[d] = "sent" /\ body'[d] = Request(d)
    BY <1>1, <1>2 DEF SyncTypes
  <1>8. ASSUME NEW e \in Devices PROVE CalledAt(e)' /\ ReplicatedAt(e)' /\ AnsweredAt(e)'
    <2>1. CASE e # d
      <3>1. stage'[e] = stage[e] /\ body'[e] = body[e]
        BY <1>1, <1>2, <2>1 DEF SyncTypes
      <3> QED
        BY <1>2, <1>3, <3>1, OthersStay
    <2>2. CASE e = d
      <3>1. reply[d] = Silence
        BY <1>1, <1>2 DEF Called, CalledAt
      <3>2. CalledAt(d)'
        <4>1. body'[d].page # 0 => body'[d].mutations = {}
          BY <1>7 DEF Request
        <4> QED
          BY <1>2, <1>5, <1>7, <3>1, <4>1 DEF CalledAt, Silence
      <3>3. ReplicatedAt(d)' /\ AnsweredAt(d)'
        <4>1. ReplicatedAt(d) /\ Longer
          BY <1>1, <1>3 DEF Called, Grown
        <4>2. ReplicatedAt(d)'
          BY <1>1, <1>2, <4>1, ReplicatedStays
        <4> QED
          BY <1>7, <4>2 DEF AnsweredAt
      <3> QED
        BY <2>2, <3>2, <3>3
    <2> QED
      BY <2>1, <2>2
  <1> QED
    BY <1>4, <1>6, <1>8 DEF SyncInv, Called

\* The log grows by what a known request carries.
LEMMA TakeGrows ==
    ASSUME SyncTypes, NEW b, b.mutations \subseteq Mutations, IsFiniteSet(b.mutations),
           \A m \in b.mutations : Known(m), Take(b)
    PROVE  /\ Grown
           /\ \A m \in Range(log') : m \in Range(log) \/ m \in b.mutations
           /\ Behind(b) \/ \A m \in b.mutations : Effective(m) => m \in Range(log')
  <1>1. log \in Seq(Mutations)
    BY DEF SyncTypes
  <1>2. /\ Longer
        /\ \A i \in Added : log'[i] \in b.mutations /\ Effective(log'[i])
        /\ \A i, j \in Added : log'[i] = log'[j] => i = j
        /\ Behind(b) \/ \A m \in b.mutations : Effective(m) => m \in Range(log')
    BY <1>1, Taken
  <1>3. ASSUME NEW m \in Range(log') PROVE m \in Range(log) \/ m \in b.mutations
    <2>1. PICK i \in DOMAIN log' : m = log'[i]
      BY <1>3 DEF Range
    <2>2. CASE i \in 1 .. Len(log)
      <3>1. i \in DOMAIN log /\ m = log[i]
        BY <1>1, <1>2, <2>1, <2>2 DEF Longer
      <3> QED
        BY <3>1 DEF Range
    <2>3. CASE i \in Added
      BY <1>2, <2>1, <2>3
    <2> QED
      BY <1>1, <1>2, <2>1, <2>2, <2>3 DEF Longer, Added
  <1> QED
    BY <1>2, <1>3 DEF Grown

\* A late request finds its mutations known, whatever became of their call.
LEMMA ServeLateKeeps ==
    ASSUME SyncInv, ServeLate
    PROVE  SyncInv'
  <1>1. SyncTypes /\ Mutated /\ Called
    BY DEF SyncInv
  <1>2. PICK b \in late : Take(b) /\ late' = late \ {b}
    BY DEF ServeLate
  <1>3. UNCHANGED <<outbox, cursor, replica, paging, more, stage, body, reply, made>>
    BY DEF ServeLate, local
  <1>4. b.mutations \subseteq Mutations /\ IsFiniteSet(b.mutations)
        /\ \A m \in b.mutations : Known(m)
    BY <1>1 DEF SyncTypes, Exchange, Known
  <1>5. Grown /\ \A m \in Range(log') : m \in Range(log) \/ m \in b.mutations
    BY <1>1, <1>2, <1>4, TakeGrows
  <1>6. \A m : Known(m)' => Known(m)
    BY <1>2, <1>3, <1>5 DEF Known
  <1>7. Mutated'
    BY <1>1, <1>3, <1>5, <1>6, MutatedGrows
  <1>8. SyncTypes'
    BY <1>1, <1>2, <1>3, <1>5 DEF SyncTypes, Grown, Longer
  <1>9. Called'
    BY <1>3, <1>5, OthersStay DEF Called
  <1> QED
    BY <1>7, <1>8, <1>9 DEF SyncInv

\* Compaction changes only which requests are refused.
LEMMA CompactKeeps ==
    ASSUME SyncInv, Compact
    PROVE  SyncInv'
  <1>1. SyncTypes /\ Mutated /\ Called /\ log \in Seq(Mutations)
    BY DEF SyncInv, SyncTypes
  <1>2. UNCHANGED <<log, outbox, cursor, replica, paging, more, stage, body, reply, late, made>>
    BY DEF Compact, local
  <1>3. Grown
    BY <1>1, <1>2, SameLog
  <1>4. Mutated'
    BY <1>1, <1>2, <1>3, MutatedGrows DEF Known
  <1>5. SyncTypes'
    BY <1>1, <1>2 DEF SyncTypes
  <1>6. Called'
    BY <1>2, <1>3, OthersStay DEF Called
  <1> QED
    BY <1>4, <1>5, <1>6 DEF SyncInv

\* A lost call leaves the outbox, so its mutations stay known.
LEMMA LoseKeeps ==
    ASSUME SyncInv, NEW d \in Devices, Lose(d)
    PROVE  SyncInv'
  <1>1. SyncTypes /\ Mutated /\ Called /\ log \in Seq(Mutations)
    BY DEF SyncInv, SyncTypes
  <1>2. /\ UNCHANGED <<log, outbox, cursor, replica, paging, made>>
        /\ late' = late \/ late' = late \cup {body[d]}
        /\ stage' = [stage EXCEPT ![d] = "idle"]
        /\ body' = [body EXCEPT ![d] = Idle]
        /\ reply' = [reply EXCEPT ![d] = Silence]
        /\ more' = [more EXCEPT ![d] = FALSE]
    BY DEF Lose, server
  <1>3. Grown
    BY <1>1, <1>2, SameLog
  <1>4. body[d] \in Exchange /\ body[d].mutations \subseteq outbox[d]
        /\ IsFiniteSet(body[d].mutations)
    <2>1. body[d] \in Exchange /\ body[d].mutations \subseteq outbox[d] /\ IsFiniteSet(outbox[d])
      BY <1>1 DEF SyncTypes, Called, CalledAt
    <2> QED
      BY <2>1, FS_Subset
  <1>5. \A m : Known(m)' => Known(m)
    BY <1>2, <1>4 DEF Known
  <1>6. Mutated'
    BY <1>1, <1>2, <1>3, <1>5, MutatedGrows
  <1>7. SyncTypes'
    <2>1. stage' \in [Devices -> {"idle", "sent", "answered"}]
      BY <1>1, <1>2 DEF SyncTypes
    <2>2. body' \in [Devices -> Exchange]
      <3>1. Idle \in Exchange
        BY DEF Idle, Exchange
      <3> QED
        BY <1>1, <1>2, <3>1 DEF SyncTypes
    <2>3. reply' \in [Devices -> Replies]
      <3>1. Silence \in Replies
        BY DEF Silence, Replies
      <3> QED
        BY <1>1, <1>2, <3>1 DEF SyncTypes
    <2>4. more' \in [Devices -> BOOLEAN]
      BY <1>1, <1>2 DEF SyncTypes
    <2>5. late' \subseteq Exchange /\ \A b \in late' : IsFiniteSet(b.mutations)
      BY <1>1, <1>2, <1>4 DEF SyncTypes
    <2> QED
      BY <1>1, <1>2, <2>1, <2>2, <2>3, <2>4, <2>5 DEF SyncTypes
  <1>8. ASSUME NEW e \in Devices PROVE CalledAt(e)' /\ ReplicatedAt(e)' /\ AnsweredAt(e)'
    <2>1. CASE e # d
      <3>1. stage'[e] = stage[e] /\ body'[e] = body[e] /\ reply'[e] = reply[e]
        BY <1>1, <1>2, <2>1 DEF SyncTypes
      <3> QED
        BY <1>2, <1>3, <3>1, OthersStay
    <2>2. CASE e = d
      <3>1. stage'[d] = "idle" /\ body'[d] = Idle /\ reply'[d] = Silence
        BY <1>1, <1>2 DEF SyncTypes
      <3>2. CalledAt(d)' /\ AnsweredAt(d)'
        BY <3>1 DEF CalledAt, AnsweredAt, Idle, Silence
      <3>3. ReplicatedAt(d) /\ Longer
        BY <1>1, <1>3 DEF Called, Grown
      <3>4. ReplicatedAt(d)'
        BY <1>1, <1>2, <3>3, ReplicatedStays
      <3> QED
        BY <2>2, <3>2, <3>4
    <2> QED
      BY <2>1, <2>2
  <1> QED
    BY <1>6, <1>7, <1>8 DEF SyncInv, Called

-----------------------------------------------------------------------------
(***************************************************************************)
(* The answers of the server.                                              *)
(***************************************************************************)
LEMMA ExchangeType ==
    ASSUME NEW l \in Seq(Mutations), NEW b \in Exchange
    PROVE  ExchangeReply(b, l) \in Replies
  <1> DEFINE r == ExchangeReply(b, l)
             end == IF b.cursor + PullLimit < Len(l) THEN b.cursor + PullLimit ELSE Len(l)
  <1>1. b.cursor \in Nat /\ b.mutations \subseteq Mutations /\ PullLimit \in Nat
    BY BoundsAssumption DEF Exchange
  <1>2. end \in Nat /\ end <= Len(l)
    BY <1>1
  <1> HIDE DEF end
  <1>3. \A n \in b.cursor + 1 .. end : Change(l, n) \in [key : Range(Keys), record : Records]
    <2>1. SUFFICES ASSUME NEW n \in b.cursor + 1 .. end
                   PROVE  Change(l, n) \in [key : Range(Keys), record : Records]
      OBVIOUS
    <2>2. n \in 1 .. Len(l)
      BY <1>1, <1>2
    <2>3. l[n] \in Mutations /\ n \in Nat /\ n <= Len(l)
      BY <2>2
    <2>4. l[n].key \in Range(Keys) /\ RecordAt(l, n, l[n].key) \in Records
      <3>1. RecordAt(l, n, l[n].key) \in Records
        BY <2>3, RecordType
      <3> QED
        BY <2>3, <3>1 DEF Mutations
    <2> QED
      BY <2>4 DEF Change
  <1>4. r = [records |-> {Change(l, n) : n \in b.cursor + 1 .. end},
             settled |-> {m \in b.mutations : m.id \in Ids(b.mutations) \cap Ids(Range(l))},
             conflicts |-> {m \in b.mutations : m.id \notin Ids(b.mutations) \cap Ids(Range(l))},
             next |-> end, more |-> end < Len(l), reset |-> FALSE]
    BY DEF ExchangeReply, end
  <1>5. (end < Len(l)) \in BOOLEAN
    OBVIOUS
  <1>6. {Change(l, n) : n \in b.cursor + 1 .. end} \in SUBSET [key : Range(Keys), record : Records]
    BY <1>3
  <1>7. \A S : {m \in b.mutations : m.id \in S} \in SUBSET Mutations
    BY <1>1
  <1>8. \A S : {m \in b.mutations : m.id \notin S} \in SUBSET Mutations
    BY <1>1
  <1> DEFINE known == Ids(b.mutations) \cap Ids(Range(l))
             records == {Change(l, n) : n \in b.cursor + 1 .. end}
             settled == {m \in b.mutations : m.id \in known}
             conflicts == {m \in b.mutations : m.id \notin known}
  <1>9. settled \in SUBSET Mutations /\ conflicts \in SUBSET Mutations
        /\ records \in SUBSET [key : Range(Keys), record : Records]
    BY <1>6, <1>7, <1>8
  <1>10. r = [records |-> records, settled |-> settled, conflicts |-> conflicts,
              next |-> end, more |-> end < Len(l), reset |-> FALSE]
    BY <1>4
  <1> HIDE DEF r, records, settled, conflicts
  <1>11. r \in Replies
    BY <1>2, <1>5, <1>9, <1>10 DEF Replies
  <1> QED
    BY <1>11 DEF r

\* What an exchange answers, at a cursor the log has.
LEMMA ExchangeAnswers ==
    ASSUME NEW l \in Seq(Mutations), NEW b \in Exchange, b.cursor <= Len(l)
    PROVE  LET r == ExchangeReply(b, l)
           IN  /\ b.cursor <= r.next /\ r.next <= Len(l) /\ r.reset = FALSE
               /\ r.records = {Change(l, n) : n \in b.cursor + 1 .. r.next}
               /\ r.conflicts = {m \in b.mutations : m.id \notin Ids(Range(l))}
  <1>1. b.cursor \in Nat /\ PullLimit \in Nat
    BY BoundsAssumption DEF Exchange
  <1>2. {m \in b.mutations : m.id \notin Ids(b.mutations) \cap Ids(Range(l))}
          = {m \in b.mutations : m.id \notin Ids(Range(l))}
    BY DEF Ids
  <1> QED
    BY <1>1, <1>2 DEF ExchangeReply

\* What a page of a snapshot answers.
LEMMA SnapshotAnswers ==
    ASSUME log \in Seq(Mutations), NEW b \in Exchange, b.page # 0
    PROVE  LET r == SnapshotReply(b)
           IN  /\ r \in Replies /\ r.next = Len(log) /\ r.reset = FALSE /\ r.conflicts = {}
               /\ PageIn(r, b.page)
  <1> DEFINE r == SnapshotReply(b)
             p == b.page
             end == IF p + PullLimit - 1 < Len(Keys) THEN p + PullLimit - 1 ELSE Len(Keys)
             page == {[key |-> Keys[i], record |-> Current(Keys[i])] : i \in p .. end}
  <1>1. p \in Nat /\ p > 0 /\ PullLimit \in Nat /\ Len(Keys) \in Nat
    BY BoundsAssumption, KeysAssumption DEF Exchange
  <1>2. /\ end \in Nat /\ end <= Len(Keys)
        /\ IF end < Len(Keys) THEN end = p + PullLimit - 1 ELSE end = Len(Keys)
    BY <1>1, BoundsAssumption
  <1>3. r = [records |-> page, settled |-> {}, conflicts |-> {}, next |-> Len(log),
             more |-> end < Len(Keys), reset |-> FALSE]
    <2>1. r = [Silence EXCEPT !.records = page, !.next = Len(log), !.more = end < Len(Keys)]
      BY DEF SnapshotReply
    <2> HIDE DEF r, page, end
    <2> QED
      BY <2>1 DEF Silence
  <1> HIDE DEF r, p, end
  <1>4. page \in SUBSET [key : Range(Keys), record : Records]
    <2>1. SUFFICES ASSUME NEW i \in p .. end
                   PROVE  Keys[i] \in Range(Keys) /\ Current(Keys[i]) \in Records
      OBVIOUS
    <2>2. i \in DOMAIN Keys
      BY <1>1, <1>2, KeysAssumption
    <2>3. Current(Keys[i]) \in Records
      BY RecordType DEF Current
    <2> QED
      BY <2>2, <2>3 DEF Range
  <1>5. (end < Len(Keys)) \in BOOLEAN /\ Len(log) \in Nat
    OBVIOUS
  <1>6. r \in Replies
    <2> HIDE DEF page
    <2> QED
      BY <1>3, <1>4, <1>5 DEF Replies
  <1>7. PageIn(r, p)
    <2>1. r.records =
             {[key |-> Keys[i], record |-> RecordAt(log, r.next, Keys[i])] : i \in p .. end}
      BY <1>3 DEF Current
    <2>2. IF r.more THEN end = p + PullLimit - 1 ELSE end = Len(Keys)
      BY <1>2, <1>3
    <2> QED
      BY <1>2, <2>1, <2>2 DEF PageIn
  <1> QED
    BY <1>3, <1>6, <1>7 DEF r, p

\* Silence, or a reset
LEMMA SilentType ==
    LET r == [Silence EXCEPT !.reset = TRUE]
    IN  r \in Replies /\ r.reset = TRUE /\ r.conflicts = {}
  BY DEF Silence, Replies

\* A mutation the server did not take never takes effect.
LEMMA ConflictIsDead ==
    ASSUME SyncTypes, Mutated, Grown, NEW m, Known(m), ~Effective(m), m.id \notin Ids(Range(log'))
    PROVE  Dead(m)'
  <1>1. log \in Seq(Mutations) /\ Longer
    BY DEF SyncTypes, Grown
  <1>2. m.id \notin Ids(Range(log))
    <2>1. \A i \in DOMAIN log : i \in DOMAIN log' /\ log'[i] = log[i]
      BY <1>1 DEF Longer
    <2> QED
      BY <2>1 DEF Ids, Range
  <1>3. m.base \in Nat /\ m.base <= Current(m.key).version
    BY KnownType DEF Mutated
  <1>4. Current(m.key).version \in Nat
    BY <1>1, CurrentGrows
  <1>5. m.base < Current(m.key).version
    BY <1>2, <1>3, <1>4 DEF Effective
  <1>6. Dead(m)
    BY <1>2, <1>5 DEF Dead
  <1> QED
    BY <1>3, <1>6, DeadStays

\* An answer is about the log with the mutations of the request in it.
LEMMA ServeKeeps ==
    ASSUME SyncInv, NEW d \in Devices, Serve(d)
    PROVE  SyncInv'
  <1> DEFINE b == body[d]
             r == reply'[d]
  <1>1. SyncTypes /\ Mutated /\ Called /\ log \in Seq(Mutations)
    BY DEF SyncInv, SyncTypes
  <1>2. /\ UNCHANGED <<outbox, cursor, replica, paging, more, body, late, made>>
        /\ stage[d] = "sent" /\ stage' = [stage EXCEPT ![d] = "answered"] /\ Take(b)
        /\ reply' = [reply EXCEPT ![d] = IF b.page # 0 THEN SnapshotReply(b)
                                        ELSE IF Behind(b) THEN [Silence EXCEPT !.reset = TRUE]
                                        ELSE ExchangeReply(b, log')]
    BY DEF Serve, local
  <1>3. /\ b \in Exchange /\ b.mutations \subseteq outbox[d] /\ b.mutations \subseteq Mutations
        /\ b.cursor = cursor[d] /\ b.page = paging[d] /\ cursor[d] \in Nat
        /\ cursor[d] <= Len(log) /\ (b.page # 0 => b.mutations = {})
    BY <1>1, <1>2 DEF SyncTypes, Called, CalledAt, ReplicatedAt
  <1>4. IsFiniteSet(b.mutations) /\ \A m \in b.mutations : Known(m)
    <2>1. IsFiniteSet(outbox[d])
      BY <1>1 DEF SyncTypes
    <2> QED
      BY <1>3, <2>1, FS_Subset DEF Known
  <1>5. /\ Grown /\ \A m \in Range(log') : m \in Range(log) \/ m \in b.mutations
        /\ Behind(b) \/ \A m \in b.mutations : Effective(m) => m \in Range(log')
    BY <1>1, <1>2, <1>3, <1>4, TakeGrows
  <1>6. Longer /\ log' \in Seq(Mutations) /\ Len(log) \in Nat /\ Len(log') \in Nat
        /\ Len(log) <= Len(log')
    BY <1>1, <1>5 DEF Grown, Longer
  <1>7. \A m : Known(m)' => Known(m)
    BY <1>2, <1>3, <1>5 DEF Known
  <1>8. Mutated'
    BY <1>1, <1>2, <1>5, <1>7, MutatedGrows
  <1>9. /\ stage'[d] = "answered"
        /\ r = IF b.page # 0 THEN SnapshotReply(b)
               ELSE IF Behind(b) THEN [Silence EXCEPT !.reset = TRUE]
               ELSE ExchangeReply(b, log')
    BY <1>1, <1>2 DEF SyncTypes
  <1> HIDE DEF b, r
  <1>10. /\ r \in Replies /\ r.conflicts \subseteq b.mutations
         /\ \A m \in r.conflicts : Dead(m)'
         /\ ~r.reset => \A m \in b.mutations : m \in r.conflicts \/ m.id \in Ids(Range(log'))
         /\ ~r.reset => /\ cursor[d] <= r.next /\ r.next <= Len(log')
                        /\ IF paging[d] = 0
                           THEN r.records = {Change(log', n) : n \in cursor[d] + 1 .. r.next}
                           ELSE r.next <= Len(log) /\ PageIn(r, paging[d])
    <2>1. CASE b.page # 0
      <3>1. /\ r \in Replies /\ r.next = Len(log) /\ r.conflicts = {}
            /\ PageIn(r, paging[d])
        BY <1>1, <1>3, <1>9, <2>1, SnapshotAnswers
      <3> QED
        BY <1>3, <1>6, <2>1, <3>1
    <2>2. CASE b.page = 0 /\ Behind(b)
      BY <1>9, <2>2, SilentType
    <2>3. CASE b.page = 0 /\ ~Behind(b)
      <3>1. r = ExchangeReply(b, log') /\ b.cursor <= Len(log')
        BY <1>3, <1>6, <1>9, <2>3
      <3>2. /\ b.cursor <= r.next /\ r.next <= Len(log')
            /\ r.records = {Change(log', n) : n \in b.cursor + 1 .. r.next}
            /\ r.conflicts = {m \in b.mutations : m.id \notin Ids(Range(log'))}
        BY <1>3, <1>6, <3>1, ExchangeAnswers
      <3>3. r \in Replies
        BY <1>3, <1>6, <3>1, ExchangeType
      <3>4. ASSUME NEW m \in r.conflicts PROVE Dead(m)'
        <4>1. m \in b.mutations /\ m.id \notin Ids(Range(log'))
          BY <3>2, <3>4
        <4>2. m \notin Range(log')
          BY <4>1 DEF Ids
        <4>3. Known(m) /\ ~Effective(m)
          BY <1>4, <1>5, <2>3, <4>1, <4>2
        <4> QED
          BY <1>1, <1>5, <4>1, <4>3, ConflictIsDead
      <3> QED
        BY <1>3, <2>3, <3>2, <3>3, <3>4
    <2> QED
      BY <2>1, <2>2, <2>3
  <1>11. SyncTypes'
    <2>1. stage' \in [Devices -> {"idle", "sent", "answered"}]
      BY <1>1, <1>2 DEF SyncTypes
    <2>2. reply' \in [Devices -> Replies]
      BY <1>1, <1>2, <1>9, <1>10 DEF SyncTypes, b, r
    <2> QED
      BY <1>1, <1>2, <1>6, <2>1, <2>2 DEF SyncTypes
  <1>12. ASSUME NEW e \in Devices PROVE CalledAt(e)' /\ ReplicatedAt(e)' /\ AnsweredAt(e)'
    <2>1. CASE e # d
      <3>1. stage'[e] = stage[e] /\ reply'[e] = reply[e]
        BY <1>1, <1>2, <2>1 DEF SyncTypes
      <3> QED
        BY <1>2, <1>5, <3>1, OthersStay
    <2>2. CASE e = d
      <3>1. CalledAt(d)'
        BY <1>2, <1>3, <1>9, <1>10 DEF CalledAt, b, r
      <3>2. ReplicatedAt(d)'
        BY <1>1, <1>2, <1>6, ReplicatedStays DEF Called
      <3>3. AnsweredAt(d)'
        <4>1. cursor'[d] = cursor[d] /\ paging'[d] = paging[d] /\ reply'[d] = r
          BY <1>2 DEF r
        <4>2. CASE paging[d] = 0
          BY <1>10, <4>1, <4>2 DEF AnsweredAt, ChangesIn
        <4>3. CASE paging[d] # 0
          <5>1. ~r.reset => PageIn(reply[d], paging[d])'
            <6>1. SUFFICES ASSUME ~r.reset PROVE PageIn(reply[d], paging[d])'
              OBVIOUS
            <6>2. PICK end \in Nat :
                     /\ end <= Len(Keys)
                     /\ IF r.more THEN end = paging[d] + PullLimit - 1 ELSE end = Len(Keys)
                     /\ r.records = {[key |-> Keys[i], record |-> RecordAt(log, r.next, Keys[i])] :
                                        i \in paging[d] .. end}
              BY <1>10, <4>3, <6>1 DEF PageIn
            <6>3. r.next \in Nat /\ r.next <= Len(log)
              BY <1>10, <4>3, <6>1 DEF Replies
            <6>4. \A k : RecordAt(log', r.next, k) = RecordAt(log, r.next, k)
              BY <1>1, <1>6, <6>3, RecordStays DEF Longer
            <6> QED
              BY <4>1, <6>2, <6>4 DEF PageIn
          <5> QED
            BY <1>10, <4>1, <4>3, <5>1 DEF AnsweredAt
        <4> QED
          BY <4>2, <4>3
      <3> QED
        BY <2>2, <3>1, <3>2, <3>3
    <2> QED
      BY <2>1, <2>2
  <1> QED
    BY <1>8, <1>11, <1>12 DEF SyncInv, Called
-----------------------------------------------------------------------------
(***************************************************************************)
(* Replies applied to a replica.                                           *)
(***************************************************************************)
\* A record that is not older than one at a position is not older than it.
LEMMA WasNewer ==
    ASSUME log \in Seq(Mutations), NEW q, NEW r, NEW k, NEW from \in Nat,
           Was(q, k, from), Was(r, k, 0), q.version <= r.version
    PROVE  Was(r, k, from)
  <1>1. PICK n \in Nat : from <= n /\ n <= Len(log) /\ q = RecordAt(log, n, k)
    BY DEF Was
  <1>2. PICK m \in Nat : m <= Len(log) /\ r = RecordAt(log, m, k)
    BY DEF Was
  <1>3. CASE n <= m
    BY <1>1, <1>2, <1>3 DEF Was
  <1>4. CASE m <= n
    <2>1. r = q
      BY <1>1, <1>2, <1>4, RecordGrows
    <2> QED
      BY <1>1, <2>1 DEF Was
  <1> QED
    BY <1>1, <1>2, <1>3, <1>4

Told(d, k) == {c.record : c \in {c \in reply[d].records : c.key = k}}

\* There is a newest, since every version is at most the one of the server.
LEMMA NewestIsNewest ==
    ASSUME log \in Seq(Mutations), NEW d \in Devices, NEW k,
           Was(replica[d][k], k, 0), \A r \in Told(d, k) : Was(r, k, 0)
    PROVE  /\ Newest(d, k) \in Told(d, k) \cup {replica[d][k]}
           /\ \A r \in Told(d, k) \cup {replica[d][k]} : r.version <= Newest(d, k).version
  <1> DEFINE R == Told(d, k) \cup {replica[d][k]}
             V == {r.version : r \in R}
  <1>1. \A r \in R : r.version \in Nat /\ r.version <= Current(k).version
    BY WasCurrent
  <1>2. Current(k).version \in Nat
    BY WasCurrent
  <1>3. V \subseteq Nat /\ V # {} /\ \A v \in V : v <= Current(k).version
    BY <1>1
  <1>4. PICK v \in V : \A u \in V : u <= v
    <2> HIDE DEF V
    <2> QED
      BY <1>2, <1>3, Largest
  <1>5. PICK r \in R : v = r.version
    OBVIOUS
  <1>6. \A q \in R : q.version <= r.version
    BY <1>4, <1>5
  <1>7. Newest(d, k) = CHOOSE s \in R : \A q \in R : q.version <= s.version
    BY DEF Newest, Told
  <1> HIDE DEF R
  <1>8. Newest(d, k) \in R /\ \A q \in R : q.version <= Newest(d, k).version
    BY <1>6, <1>7
  <1> QED
    BY <1>8 DEF R

\* So the newest is not older than anything told, or already there.
LEMMA NewestWas ==
    ASSUME log \in Seq(Mutations), NEW d \in Devices, NEW k,
           Was(replica[d][k], k, 0), \A r \in Told(d, k) : Was(r, k, 0),
           NEW from \in Nat, NEW q \in Told(d, k) \cup {replica[d][k]}, Was(q, k, from)
    PROVE  Was(Newest(d, k), k, from)
  <1>1. /\ Newest(d, k) \in Told(d, k) \cup {replica[d][k]}
        /\ q.version <= Newest(d, k).version
    BY NewestIsNewest
  <1>2. Was(Newest(d, k), k, 0)
    BY <1>1
  <1> QED
    BY <1>1, <1>2, WasNewer

\* A page of changes: the record is then as at the end of the page, or newer.
LEMMA ChangesApplied ==
    ASSUME log \in Seq(Mutations), NEW d \in Devices, NEW k \in Range(Keys),
           cursor[d] \in Nat, reply[d].next \in Nat,
           cursor[d] <= reply[d].next, reply[d].next <= Len(log),
           Was(replica[d][k], k, cursor[d]), ChangesIn(reply[d], cursor[d])
    PROVE  Was(Newest(d, k), k, reply[d].next) /\ Was(Newest(d, k), k, 0)
  <1> DEFINE c == cursor[d]
             e == reply[d].next
  <1>1. c \in Nat /\ e \in Nat /\ c <= e /\ e <= Len(log)
    OBVIOUS
  <1>2. reply[d].records = {Change(log, n) : n \in c + 1 .. e}
    BY DEF ChangesIn
  <1> HIDE DEF c, e
  <1>3. ASSUME NEW r \in Told(d, k) PROVE Was(r, k, 0)
    <2>1. PICK n \in c + 1 .. e : Change(log, n).key = k /\ r = Change(log, n).record
      BY <1>2, <1>3 DEF Told
    <2>2. r = RecordAt(log, n, k)
      BY <2>1 DEF Change
    <2>3. n \in Nat /\ n <= Len(log)
      BY <1>1, <2>1
    <2> QED
      BY <2>2, <2>3 DEF Was
  <1>4. Was(replica[d][k], k, c)
    BY DEF c
  <1>5. Was(replica[d][k], k, 0)
    BY <1>1, <1>4 DEF Was
  <1>6. PICK n \in Nat : c <= n /\ n <= Len(log) /\ replica[d][k] = RecordAt(log, n, k)
    BY <1>4 DEF Was
  <1>7. \E q \in Told(d, k) \cup {replica[d][k]} : Was(q, k, e)
    <2>1. CASE e <= n
      BY <1>6, <2>1 DEF Was
    <2>2. CASE n <= e /\ RecordAt(log, n, k) = RecordAt(log, e, k)
      BY <1>1, <1>6, <2>2 DEF Was
    <2>3. CASE n <= e /\ RecordAt(log, n, k) # RecordAt(log, e, k)
      <3>1. PICK j \in n + 1 .. e : log[j].key = k /\ RecordAt(log, j, k) = RecordAt(log, e, k)
        BY <1>1, <2>3, ChangeBetween
      <3>2. j \in c + 1 .. e
        BY <1>1, <1>6, <3>1
      <3>3. Change(log, j) \in reply[d].records
        BY <1>2, <3>2
      <3>4. Change(log, j).key = k /\ Change(log, j).record = RecordAt(log, e, k)
        BY <3>1 DEF Change
      <3>5. RecordAt(log, e, k) \in Told(d, k)
        BY <3>3, <3>4 DEF Told
      <3>6. Was(RecordAt(log, e, k), k, e)
        BY <1>1 DEF Was
      <3> QED
        BY <3>5, <3>6
    <2> QED
      BY <1>1, <1>6, <2>1, <2>2, <2>3
  <1>8. \A from \in Nat : (\E q \in Told(d, k) \cup {replica[d][k]} : Was(q, k, from))
                           => Was(Newest(d, k), k, from)
    BY <1>3, <1>5, NewestWas
  <1> QED
    BY <1>1, <1>5, <1>7, <1>8 DEF e

\* A page of a snapshot: its records are then as when it was taken, or newer, and
\* the others not older than they were.
LEMMA PageApplied ==
    ASSUME log \in Seq(Mutations), NEW d \in Devices, NEW k \in Range(Keys),
           reply[d].next \in Nat, reply[d].next <= Len(log),
           paging[d] \in Nat, paging[d] # 0, Was(replica[d][k], k, 0),
           NEW end \in Nat, end <= Len(Keys),
           reply[d].records = {[key |-> Keys[i], record |-> RecordAt(log, reply[d].next, Keys[i])] :
                                 i \in paging[d] .. end}
    PROVE  /\ \A from \in Nat : Was(replica[d][k], k, from) => Was(Newest(d, k), k, from)
           /\ \A i \in paging[d] .. end : Keys[i] = k => Was(Newest(d, k), k, reply[d].next)
  <1>1. Was(RecordAt(log, reply[d].next, k), k, reply[d].next)
        /\ Was(RecordAt(log, reply[d].next, k), k, 0)
    BY DEF Was
  <1>2. \A r \in Told(d, k) : r = RecordAt(log, reply[d].next, k)
    BY DEF Told
  <1>3. \A i \in paging[d] .. end : Keys[i] = k => RecordAt(log, reply[d].next, k) \in Told(d, k)
    <2>1. SUFFICES ASSUME NEW i \in paging[d] .. end, Keys[i] = k
                   PROVE  RecordAt(log, reply[d].next, k) \in Told(d, k)
      OBVIOUS
    <2> DEFINE c == [key |-> Keys[i], record |-> RecordAt(log, reply[d].next, Keys[i])]
    <2>2. c \in reply[d].records /\ c.key = k /\ c.record = RecordAt(log, reply[d].next, k)
      BY <2>1
    <2> HIDE DEF c
    <2> QED
      BY <2>2 DEF Told
  <1>4. \A from \in Nat : \A q \in Told(d, k) \cup {replica[d][k]} :
           Was(q, k, from) => Was(Newest(d, k), k, from)
    BY <1>1, <1>2, NewestWas
  <1> QED
    BY <1>1, <1>3, <1>4

\* What a page leaves in the replica
LEMMA PageIsReplicated ==
    ASSUME SyncInv, NEW d \in Devices, stage[d] = "answered", ~reply[d].reset,
           ApplyPage(d), log' = log
    PROVE  ReplicatedAt(d)'
  <1> DEFINE c == cursor[d]
             e == reply[d].next
             p == paging[d]
  <1>1. SyncTypes /\ log \in Seq(Mutations) /\ ReplicatedAt(d) /\ AnsweredAt(d)
    BY DEF SyncInv, SyncTypes, Called
  <1>2. /\ \A k \in Range(Keys) : replica'[d][k] = Newest(d, k)
        /\ cursor'[d] = IF p > 1 THEN c ELSE e
        /\ paging'[d] = IF p # 0 /\ reply[d].more THEN p + PullLimit ELSE 0
    BY <1>1 DEF ApplyPage, SyncTypes
  <1>3. c \in Nat /\ e \in Nat /\ p \in Nat /\ c <= e /\ e <= Len(log) /\ PullLimit \in Nat
    BY <1>1, BoundsAssumption DEF SyncTypes, Replies, AnsweredAt
  <1>4. \A k \in Range(Keys) : /\ Was(replica[d][k], k, 0)
                               /\ Covered(d, k) => Was(replica[d][k], k, c)
    BY <1>1 DEF ReplicatedAt
  <1>5. cursor'[d] \in Nat /\ cursor'[d] <= e /\ cursor'[d] <= Len(log)
    BY <1>2, <1>3
  <1>6. \A r, k : Was(r, k, e) => Was(r, k, cursor'[d])
    BY <1>3, <1>5 DEF Was
  <1>7. \A r, k, from : Was(r, k, from)' <=> Was(r, k, from')
    BY DEF Was
  <1>8. CASE p = 0
    <2>1. ChangesIn(reply[d], cursor[d])
      BY <1>1, <1>8 DEF AnsweredAt
    <2>2. ASSUME NEW k \in Range(Keys)
          PROVE  Was(Newest(d, k), k, e) /\ Was(Newest(d, k), k, 0)
      <3>1. Was(replica[d][k], k, cursor[d])
        BY <1>4, <1>8 DEF Covered
      <3> QED
        BY <1>1, <1>3, <2>1, <3>1, ChangesApplied
    <2>3. \A k \in Range(Keys) : Was(replica'[d][k], k, 0) /\ Was(replica'[d][k], k, cursor'[d])
      BY <1>2, <1>6, <2>2
    <2> QED
      BY <1>5, <2>3 DEF ReplicatedAt, Was
  <1>9. CASE p # 0
    <2>1. PICK end \in Nat :
             /\ end <= Len(Keys)
             /\ IF reply[d].more THEN end = paging[d] + PullLimit - 1 ELSE end = Len(Keys)
             /\ reply[d].records =
                  {[key |-> Keys[i], record |-> RecordAt(log, reply[d].next, Keys[i])] :
                      i \in paging[d] .. end}
      BY <1>1, <1>9 DEF AnsweredAt, PageIn
    <2>2. ASSUME NEW k \in Range(Keys)
          PROVE  /\ \A from \in Nat : Was(replica[d][k], k, from) => Was(Newest(d, k), k, from)
                 /\ \A i \in p .. end : Keys[i] = k => Was(Newest(d, k), k, e)
      <3>1. Was(replica[d][k], k, 0)
        BY <1>4
      <3> QED
        BY <1>1, <1>3, <1>9, <2>1, <3>1, PageApplied
    <2>3. ASSUME NEW i \in DOMAIN Keys, paging'[d] = 0 \/ i < paging'[d]
          PROVE  Was(Newest(d, Keys[i]), Keys[i], cursor'[d])
      <3>1. i \in Nat /\ i > 0 /\ i <= end /\ Keys[i] \in Range(Keys)
        <4>1. i \in 1 .. Len(Keys) /\ Len(Keys) \in Nat
          BY KeysAssumption
        <4>2. i <= end
          BY <1>2, <1>3, <1>9, <2>1, <2>3, <4>1
        <4> QED
          BY <4>1, <4>2 DEF Range
      <3>2. CASE i < p
        <4>1. Was(replica[d][Keys[i]], Keys[i], c)
          BY <1>4, <3>1, <3>2 DEF Covered
        <4>2. cursor'[d] = c
          BY <1>2, <1>3, <3>1, <3>2
        <4> QED
          BY <1>3, <2>2, <3>1, <4>1, <4>2
      <3>3. CASE p <= i
        <4>1. i \in p .. end
          BY <1>3, <3>1, <3>3
        <4> QED
          BY <1>6, <2>2, <3>1, <4>1
      <3> QED
        BY <1>3, <3>1, <3>2, <3>3
    <2>4. \A k \in Range(Keys) : Was(replica'[d][k], k, 0)
      BY <1>2, <1>4, <2>2
    <2>5. ASSUME NEW k \in Range(Keys), Covered(d, k)'
          PROVE  Was(replica'[d][k], k, cursor'[d])
      <3>1. PICK i \in DOMAIN Keys : Keys[i] = k /\ (paging'[d] = 0 \/ i < paging'[d])
        BY <2>5 DEF Covered, Range
      <3> QED
        BY <1>2, <2>3, <3>1
    <2> QED
      BY <1>5, <2>4, <2>5 DEF ReplicatedAt, Was
  <1> QED
    BY <1>8, <1>9

\* What a page leaves has its types: every record of a replica is one of the log.
LEMMA PageType ==
    ASSUME SyncInv, NEW d \in Devices, ApplyPage(d), ReplicatedAt(d)', log' = log
    PROVE  /\ cursor' \in [Devices -> Nat] /\ paging' \in [Devices -> Nat]
           /\ more' \in [Devices -> BOOLEAN]
           /\ replica' \in [Devices -> [Range(Keys) -> Records]]
  <1>1. SyncTypes /\ log \in Seq(Mutations) /\ PullLimit \in Nat
    BY BoundsAssumption DEF SyncInv, SyncTypes
  <1>2. reply[d].next \in Nat /\ reply[d].more \in BOOLEAN /\ cursor[d] \in Nat
        /\ paging[d] \in Nat
    BY <1>1 DEF SyncTypes, Replies
  <1>3. cursor' \in [Devices -> Nat]
    BY <1>1, <1>2 DEF SyncTypes, ApplyPage
  <1>4. paging' \in [Devices -> Nat]
    BY <1>1, <1>2 DEF SyncTypes, ApplyPage
  <1>5. more' \in [Devices -> BOOLEAN]
    <2>1. (paging[d] = 0 /\ reply[d].more) \in BOOLEAN
      OBVIOUS
    <2> QED
      BY <1>1, <2>1 DEF SyncTypes, ApplyPage
  <1>6. replica' \in [Devices -> [Range(Keys) -> Records]]
    <2> DEFINE new == [k \in Range(Keys) |-> Newest(d, k)]
    <2>1. replica' = [replica EXCEPT ![d] = new] /\ replica'[d] = new
      BY <1>1 DEF SyncTypes, ApplyPage
    <2>2. \A k \in Range(Keys) : replica'[d][k] \in Records
      <3>1. SUFFICES ASSUME NEW k \in Range(Keys) PROVE replica'[d][k] \in Records
        OBVIOUS
      <3>2. Was(replica'[d][k], k, 0)
        BY DEF ReplicatedAt, Was
      <3> QED
        BY <1>1, <3>2, WasCurrent
    <2>3. new \in [Range(Keys) -> Records]
      BY <2>1, <2>2
    <2> HIDE DEF new
    <2> QED
      BY <1>1, <2>1, <2>3 DEF SyncTypes
  <1> QED
    BY <1>3, <1>4, <1>5, <1>6

\* A merge is made where the mutation it takes the place of is out for good, the
\* newest of its edit.
LEMMA MergeKeeps ==
    ASSUME SyncInv, NEW d \in Devices, NEW m \in reply[d].conflicts, Merge(m, d),
           UNCHANGED <<log, late>>, ReplicatedAt(d)'
    PROVE  /\ Mutated' /\ made' \in Nat
           /\ outbox' \in [Devices -> SUBSET Mutations]
           /\ IsFiniteSet(outbox'[d])
  <1> DEFINE kept == outbox[d] \ body[d].mutations
             x == [m EXCEPT !.id = made', !.base = replica'[d][m.key].version]
  <1>1. SyncTypes /\ Mutated /\ CalledAt(d) /\ log \in Seq(Mutations) /\ made \in Nat
    BY DEF SyncInv, SyncTypes, Called
  <1>2. made' = made + 1 /\ outbox' = [outbox EXCEPT ![d] = kept \cup {x}]
    BY DEF Merge
  <1>3. m \in body[d].mutations /\ m \in outbox[d] /\ Dead(m) /\ Known(m)
    BY <1>1 DEF CalledAt, Known
  <1>4. m \in Mutations /\ m.key \in Range(Keys) /\ m.id \in Nat
    BY <1>1, <1>3, KnownType
  <1>5. Was(replica'[d][m.key], m.key, 0)
    BY <1>4 DEF ReplicatedAt, Was
  <1>6. replica'[d][m.key].version \in Nat
        /\ replica'[d][m.key].version <= Current(m.key).version
    BY <1>1, <1>5, WasCurrent
  <1>7. x \in Mutations /\ x.id = made + 1 /\ x.key = m.key /\ x.edit = m.edit
        /\ x.base <= Current(x.key).version
    <2> DEFINE v == replica'[d][m.key].version
    <2>1. x = [m EXCEPT !.id = made + 1, !.base = v] /\ v \in Nat
      BY <1>2, <1>6
    <2> HIDE DEF x, v
    <2>2. x \in Mutations /\ x.id = made + 1 /\ x.key = m.key /\ x.edit = m.edit /\ x.base = v
      <3>1. x = [edit |-> m.edit, id |-> made + 1, key |-> m.key, base |-> v]
        BY <1>4, <2>1 DEF Mutations
      <3>2. m.edit \in Nat /\ made + 1 \in Nat
        BY <1>1, <1>3, KnownType
      <3> QED
        BY <1>4, <2>1, <3>1, <3>2 DEF Mutations
    <2> QED
      BY <1>6, <2>2 DEF v
  <1>8. x.edit <= made + 1
    <2>1. m.edit <= made /\ m.edit \in Nat
      BY <1>1, <1>3, KnownType DEF Mutated
    <2> QED
      BY <1>1, <1>7, <2>1
  <1>9. ASSUME NEW n, Known(n), n.edit = x.edit
        PROVE  Dead(n) /\ \A e \in Devices : n \in outbox[e] => e = d /\ n \notin kept
    <2>1. n.id \in Nat /\ n.id <= m.id
      BY <1>1, <1>3, <1>7, <1>9, KnownType DEF Mutated
    <2>2. CASE n.id < m.id
      <3>1. Dead(n)
        BY <1>1, <1>3, <1>7, <1>9, <2>2 DEF Mutated
      <3>2. \A e \in Devices : n \notin outbox[e]
        <4>1. SUFFICES ASSUME NEW e \in Devices, n \in outbox[e] PROVE FALSE
          OBVIOUS
        <4>2. m.id <= n.id
          BY <1>1, <1>3, <1>7, <1>9, <4>1 DEF Mutated
        <4> QED
          BY <1>4, <2>1, <2>2, <4>2
      <3> QED
        BY <3>1, <3>2
    <2>3. CASE n.id = m.id
      <3>1. n = m
        BY <1>1, <1>3, <1>9, <2>3 DEF Mutated
      <3>2. \A e \in Devices : m \in outbox[e] => e = d
        BY <1>1, <1>3 DEF Mutated
      <3> QED
        BY <1>3, <3>1, <3>2
    <2> QED
      BY <1>4, <2>1, <2>2, <2>3
  <1>10. kept \in SUBSET outbox[d] /\ IsFiniteSet(kept)
    <2>1. IsFiniteSet(outbox[d]) /\ kept \in SUBSET outbox[d]
      BY <1>1 DEF SyncTypes
    <2> QED
      BY <2>1, FS_Subset
  <1> HIDE DEF x, kept
  <1>11. Mutated'
    BY <1>1, <1>2, <1>7, <1>8, <1>9, <1>10, MutatedNew
  <1>12. outbox' \in [Devices -> SUBSET Mutations] /\ outbox'[d] = kept \cup {x}
    BY <1>1, <1>2, <1>7, <1>10 DEF SyncTypes
  <1>13. IsFiniteSet(outbox'[d])
    BY <1>10, <1>12, FS_AddElement
  <1> QED
    BY <1>1, <1>2, <1>11, <1>12, <1>13

\* A reply applied, with its outcomes
LEMMA ApplyKeeps ==
    ASSUME SyncInv, NEW d \in Devices, Apply(d)
    PROVE  SyncInv'
  <1>1. SyncTypes /\ Mutated /\ Called /\ log \in Seq(Mutations)
    BY DEF SyncInv, SyncTypes
  <1>2. /\ UNCHANGED <<log, late>> /\ stage[d] = "answered"
        /\ stage' = [stage EXCEPT ![d] = "idle"]
        /\ body' = [body EXCEPT ![d] = Idle]
        /\ reply' = [reply EXCEPT ![d] = Silence]
    BY DEF Apply, server
  <1>3. Grown /\ Longer
    BY <1>1, <1>2, SameLog DEF Grown
  <1>4. stage'[d] = "idle" /\ body'[d] = Idle /\ reply'[d] = Silence
    BY <1>1, <1>2 DEF SyncTypes
  <1>5. ReplicatedAt(d)'
    <2>1. CASE reply[d].reset
      <3>1. /\ cursor' = cursor /\ replica' = replica
            /\ paging' = [paging EXCEPT ![d] = 1] /\ paging'[d] = 1
        BY <1>1, <2>1 DEF Apply, SyncTypes
      <3>2. \A k : ~Covered(d, k)'
        BY <3>1, KeysAssumption DEF Covered
      <3>3. ReplicatedAt(d)
        BY <1>1 DEF Called
      <3> QED
        BY <1>2, <3>1, <3>2, <3>3 DEF ReplicatedAt, Was
    <2>2. CASE ~reply[d].reset
      BY <1>2, <2>2, PageIsReplicated DEF Apply
    <2> QED
      BY <2>1, <2>2
  <1>6. /\ cursor' \in [Devices -> Nat] /\ paging' \in [Devices -> Nat]
        /\ more' \in [Devices -> BOOLEAN]
        /\ replica' \in [Devices -> [Range(Keys) -> Records]]
        /\ \A e \in Devices : e # d => /\ cursor'[e] = cursor[e] /\ paging'[e] = paging[e]
                                       /\ replica'[e] = replica[e]
    <2>1. CASE reply[d].reset
      <3>1. UNCHANGED <<cursor, replica, more>> /\ paging' = [paging EXCEPT ![d] = 1]
        BY <2>1 DEF Apply
      <3>2. paging' \in [Devices -> Nat]
        BY <1>1, <3>1 DEF SyncTypes
      <3> QED
        BY <1>1, <3>1, <3>2 DEF SyncTypes
    <2>2. CASE ~reply[d].reset
      <3>1. ApplyPage(d)
        BY <2>2 DEF Apply
      <3>2. /\ cursor' \in [Devices -> Nat] /\ paging' \in [Devices -> Nat]
            /\ more' \in [Devices -> BOOLEAN]
            /\ replica' \in [Devices -> [Range(Keys) -> Records]]
        BY <1>2, <1>5, <3>1, PageType
      <3>3. \A e \in Devices : e # d => /\ cursor'[e] = cursor[e] /\ paging'[e] = paging[e]
                                       /\ replica'[e] = replica[e]
        BY <1>1, <3>1 DEF ApplyPage, SyncTypes
      <3> QED
        BY <3>2, <3>3
    <2> QED
      BY <2>1, <2>2
  <1>7. /\ Mutated' /\ made' \in Nat /\ outbox' \in [Devices -> SUBSET Mutations]
        /\ IsFiniteSet(outbox'[d])
        /\ \A e \in Devices : e # d => outbox'[e] = outbox[e]
    <2>1. CASE \E m \in reply[d].conflicts : Merge(m, d)
      <3>1. PICK m \in reply[d].conflicts : Merge(m, d)
        BY <2>1
      <3>2. \A e \in Devices : e # d => outbox'[e] = outbox[e]
        BY <1>1, <3>1 DEF Merge, SyncTypes
      <3> QED
        BY <1>2, <1>5, <3>1, <3>2, MergeKeeps
    <2>2. CASE made' = made /\ (outbox' = outbox \/ GiveUp(d))
      <3>1. /\ outbox' \in [Devices -> SUBSET Mutations]
            /\ \A e \in Devices : outbox'[e] \subseteq outbox[e]
            /\ \A e \in Devices : e # d => outbox'[e] = outbox[e]
        BY <1>1, <2>2 DEF GiveUp, SyncTypes
      <3>2. \A m : Known(m)' => Known(m)
        BY <1>2, <3>1 DEF Known
      <3>3. Mutated'
        BY <1>1, <1>3, <2>2, <3>1, <3>2, MutatedGrows
      <3>4. IsFiniteSet(outbox[d]) /\ outbox'[d] \in SUBSET outbox[d] /\ made' \in Nat
        BY <1>1, <2>2, <3>1 DEF SyncTypes
      <3>5. IsFiniteSet(outbox'[d])
        BY <3>4, FS_Subset
      <3> QED
        BY <3>1, <3>3, <3>4, <3>5
    <2>3. \/ made' = made /\ (outbox' = outbox \/ GiveUp(d))
          \/ \E m \in reply[d].conflicts : Merge(m, d)
      BY DEF Apply, GiveUp
    <2> QED
      BY <2>1, <2>2, <2>3
  <1>8. SyncTypes'
    <2>1. stage' \in [Devices -> {"idle", "sent", "answered"}]
      BY <1>1, <1>2 DEF SyncTypes
    <2>2. body' \in [Devices -> Exchange]
      <3>1. Idle \in Exchange
        BY DEF Idle, Exchange
      <3> QED
        BY <1>1, <1>2, <3>1 DEF SyncTypes
    <2>3. reply' \in [Devices -> Replies]
      <3>1. Silence \in Replies
        BY DEF Silence, Replies
      <3> QED
        BY <1>1, <1>2, <3>1 DEF SyncTypes
    <2>4. \A e \in Devices : IsFiniteSet(outbox'[e])
      BY <1>1, <1>7 DEF SyncTypes
    <2> QED
      BY <1>1, <1>2, <1>6, <1>7, <2>1, <2>2, <2>3, <2>4 DEF SyncTypes
  <1>9. ASSUME NEW e \in Devices PROVE CalledAt(e)' /\ ReplicatedAt(e)' /\ AnsweredAt(e)'
    <2>1. CASE e # d
      <3>1. stage'[e] = stage[e] /\ body'[e] = body[e] /\ reply'[e] = reply[e]
        BY <1>1, <1>2, <2>1 DEF SyncTypes
      <3> QED
        BY <1>3, <1>6, <1>7, <2>1, <3>1, OthersStay
    <2>2. CASE e = d
      <3>1. CalledAt(d)' /\ AnsweredAt(d)'
        BY <1>4 DEF CalledAt, AnsweredAt, Idle, Silence
      <3> QED
        BY <1>5, <2>2, <3>1
    <2> QED
      BY <2>1, <2>2
  <1> QED
    BY <1>7, <1>8, <1>9 DEF SyncInv, Called

-----------------------------------------------------------------------------
(***************************************************************************)
(* The invariant, and what it says of the devices.                         *)
(***************************************************************************)
LEMMA SyncStep == SyncInv /\ [SyncNext]_syncVars => SyncInv'
  <1> SUFFICES ASSUME SyncInv, [SyncNext]_syncVars PROVE SyncInv'
    OBVIOUS
  <1>1. CASE SyncNext
    BY <1>1, EditKeeps, SendKeeps, ServeKeeps, LoseKeeps, ApplyKeeps, ServeLateKeeps, CompactKeeps
       DEF SyncNext
  <1>2. CASE UNCHANGED syncVars
    <2>1. SyncTypes /\ Mutated /\ Called /\ log \in Seq(Mutations)
      BY DEF SyncInv, SyncTypes
    <2>2. UNCHANGED <<log, outbox, cursor, replica, paging, more, stage, body, reply, late, made>>
      BY <1>2 DEF syncVars
    <2>3. Grown
      BY <2>1, <2>2, SameLog
    <2>4. Mutated'
      BY <2>1, <2>2, <2>3, MutatedGrows DEF Known
    <2>5. SyncTypes'
      BY <2>1, <2>2 DEF SyncTypes
    <2>6. Called'
      BY <2>2, <2>3, OthersStay DEF Called
    <2> QED
      BY <2>4, <2>5, <2>6 DEF SyncInv
  <1> QED
    BY <1>1, <1>2

\* The invariant holds throughout.
LEMMA SyncInvariance == SyncSpec => []SyncInv
  BY SyncStart, SyncStep, PTL DEF SyncSpec

\* Whatever calls are lost, sent again or served late, and however conflicts are
\* merged, an edit is in effect once: only the newest mutation of an edit can still
\* take effect, and those before it are out for good.
THEOREM EditTakesEffectOnce == SyncSpec => []OncePerEdit
  <1>1. SyncInv => OncePerEdit
    <2>1. SUFFICES ASSUME SyncInv, NEW i \in DOMAIN log, NEW j \in DOMAIN log,
                          log[i].edit = log[j].edit
                   PROVE  i = j
      BY DEF OncePerEdit
    <2>2. SyncTypes /\ Mutated
      BY <2>1 DEF SyncInv
    <2>3. log[i] \in Range(log) /\ log[j] \in Range(log) /\ Known(log[i]) /\ Known(log[j])
      BY DEF Known, Range
    <2>4. log[i].id \in Nat /\ log[j].id \in Nat
      BY <2>2, <2>3, KnownType
    <2>5. ~Dead(log[i]) /\ ~Dead(log[j])
      BY <2>3 DEF Dead, Ids
    <2>6. log[i].id = log[j].id
      BY <2>1, <2>2, <2>3, <2>4, <2>5 DEF Mutated
    <2> QED
      BY <2>2, <2>6 DEF Mutated
  <1> QED
    BY <1>1, SyncInvariance, PTL

\* A replica that is not being reset shows of every record what it was at its cursor
\* or later, in spaces, pages and logs of every size.
THEOREM NothingIsMissed == SyncSpec => []ReplicaIsCurrent
  <1>1. SyncInv => ReplicaIsCurrent
    <2>1. SUFFICES ASSUME SyncInv, NEW d \in Devices, NEW k \in Range(Keys), paging[d] = 0
                   PROVE  \E n \in cursor[d] .. Len(log) : replica[d][k] = RecordAt(log, n, k)
      BY DEF ReplicaIsCurrent
    <2>2. log \in Seq(Mutations) /\ cursor[d] \in Nat /\ ReplicatedAt(d)
      BY <2>1 DEF SyncInv, SyncTypes, Called
    <2>3. Was(replica[d][k], k, cursor[d])
      BY <2>1, <2>2 DEF ReplicatedAt, Covered
    <2>4. PICK n \in Nat : cursor[d] <= n /\ n <= Len(log) /\ replica[d][k] = RecordAt(log, n, k)
      BY <2>3 DEF Was
    <2>5. n \in cursor[d] .. Len(log)
      BY <2>2, <2>4
    <2> QED
      BY <2>4, <2>5
  <1> QED
    BY <1>1, SyncInvariance, PTL
\* Only what is settled leaves an outbox: a mutation is in effect, or based on a
\* version its record has left behind, so that it never will be.
OnlySettledLeave ==
    [][\A d \in Devices : \A m \in outbox[d] \ outbox'[d] :
          m.id \in Ids(Range(log)) \/ m.base < Current(m.key).version]_syncVars

\* No edit is lost with a call, a reset or a page: an application drops from its
\* outbox, as a reply tells it to, what took effect or was refused for good.
THEOREM NoEditIsLost == SyncSpec => OnlySettledLeave
  <1>1. ASSUME SyncInv, [SyncNext]_syncVars, NEW d \in Devices, NEW m \in outbox[d],
               m \notin outbox'[d]
        PROVE  m.id \in Ids(Range(log)) \/ m.base < Current(m.key).version
    <2>1. SyncTypes /\ CalledAt(d)
      BY <1>1 DEF SyncInv, Called
    <2>2. Apply(d) /\ ~reply[d].reset /\ m \in body[d].mutations
      <3>1. outbox' # outbox
        BY <1>1
      <3>2. ~UNCHANGED syncVars
        BY <3>1 DEF syncVars
      <3>3. PICK e \in Devices : Apply(e) \/ \E k \in Range(Keys) : Edit(e, k)
        BY <1>1, <3>1, <3>2 DEF SyncNext, Send, Serve, Lose, ServeLate, Compact, local
      <3>4. CASE \E k \in Range(Keys) : Edit(e, k)
        BY <1>1, <2>1, <3>4 DEF Edit, SyncTypes
      <3>5. CASE Apply(e)
        <4>1. ~reply[e].reset /\ (GiveUp(e) \/ \E n \in reply[e].conflicts : Merge(n, e))
          BY <3>1, <3>5 DEF Apply
        <4>2. \A f \in Devices : f # e => outbox'[f] = outbox[f]
          BY <2>1, <4>1 DEF GiveUp, Merge, SyncTypes
        <4>3. e = d
          BY <1>1, <4>2
        <4>4. outbox[e] \ body[e].mutations \subseteq outbox'[e]
          BY <2>1, <4>1 DEF GiveUp, Merge, SyncTypes
        <4> QED
          BY <1>1, <3>5, <4>1, <4>3, <4>4
      <3> QED
        BY <3>3, <3>4, <3>5
    <2>3. stage[d] = "answered"
      BY <2>2 DEF Apply
    <2>4. m \in reply[d].conflicts \/ m.id \in Ids(Range(log))
      BY <2>1, <2>2, <2>3 DEF CalledAt
    <2> QED
      BY <2>1, <2>4 DEF CalledAt, Dead
  <1>2. SyncInv /\ [SyncNext]_syncVars
          => [\A d \in Devices : \A m \in outbox[d] \ outbox'[d] :
                 m.id \in Ids(Range(log)) \/ m.base < Current(m.key).version]_syncVars
    BY <1>1
  <1> QED
    BY <1>2, SyncInvariance, PTL DEF SyncSpec, OnlySettledLeave
=============================================================================
