------------------------------ MODULE Download ------------------------------
(***************************************************************************)
(* Downloads of backups to one local path: download_file (umbra-rust),     *)
(* DownloadFile (umbra-go), downloadFile (umbra-typescript).  All write to *)
(* a temporary name and rename it to the path at the end.  They differ in: *)
(*   - the temporary name: one fixed name per path in rust and go, one per *)
(*     process and millisecond in typescript;                              *)
(*   - when it is made: before the requests in rust and go (truncating a   *)
(*     file of that name), after them in typescript ('wx': it must be new);*)
(*   - overwriting: typescript removes the path before the rename;         *)
(*   - failures: go and typescript remove the temporary name, rust leaves  *)
(*     it.                                                                 *)
(* Files are POSIX ones: a name leads to an inode, an open handle keeps    *)
(* writing to its inode whatever becomes of the name.                      *)
(***************************************************************************)
EXTENDS Naturals, FiniteSets

CONSTANTS
    Tasks,          \* downloads that may be running at once
    Sdks,           \* the SDKs looked at, of "rust", "go" and "ts"
    Objects,        \* stored objects
    Size,           \* number of chunks of each object
    Fixed,          \* the temporary name of rust and go
    Stamps,         \* those of typescript, one per millisecond
    Path,           \* the path downloaded to
    Nothing,        \* a name without a file, a chunk that was not written
    CanCrash        \* whether the process may stop once between two steps

ASSUME SdkAssumption == Sdks \subseteq {"rust", "go", "ts"}
ASSUME SizeAssumption == Size \in [Objects -> Nat \ {0}]
ASSUME NameAssumption == Path \notin Stamps /\ Fixed \notin Stamps \cup {Path}
ASSUME NothingAssumption == Nothing \notin Stamps \cup {Fixed, Path} \cup Nat
ASSUME FiniteAssumption == IsFiniteSet(Tasks) /\ IsFiniteSet(Stamps)
ASSUME CrashAssumption == CanCrash \in BOOLEAN

Temporary == Stamps \cup {Fixed}
Names == Temporary \cup {Path}
Chunks == UNION {1 .. Size[o] : o \in Objects}
\* Every name and every handle leads to one: there is always a free one.
Inodes == 1 .. (Cardinality(Names) + Cardinality(Tasks))

VARIABLES
    sdk,        \* the SDK of this behaviour
    dir,        \* the directory: name -> inode
    data,       \* inode -> chunk -> the object the chunk is of
    pc,         \* where each task is
    obj,        \* what the task downloads
    over,       \* options.overwrite
    stamp,      \* the temporary name of the task
    handle,     \* the inode the task has open for writing
    done,       \* chunks written
    shared,     \* history: a task made a temporary name another one was using
    crashed,    \* history: the process stopped in the middle of something
    undeleted   \* history: temporary names that could not be removed, until taken again

task == <<obj, over, stamp, handle, done>>
vars == <<sdk, dir, data, pc, task, shared, crashed, undeleted>>

Whole(o) == [c \in Chunks |-> IF c <= Size[o] THEN o ELSE Nothing]
Empty == [c \in Chunks |-> Nothing]

Free(i) == /\ \A n \in Names : dir[n] # i
           /\ \A t \in Tasks : handle[t] # i
NewInode == CHOOSE i \in Inodes : Free(i)

\* The path may hold an object of an earlier run.
Init ==
    /\ sdk \in Sdks
    /\ dir \in [Names -> {1, Nothing}] /\ \A n \in Temporary : dir[n] = Nothing
    /\ \E o \in Objects : data = [i \in Inodes |-> IF i = 1 THEN Whole(o) ELSE Empty]
    /\ pc = [t \in Tasks |-> "idle"]
    /\ obj = [t \in Tasks |-> Nothing]
    /\ over = [t \in Tasks |-> FALSE]
    /\ stamp = [t \in Tasks |-> Nothing]
    /\ handle = [t \in Tasks |-> Nothing]
    /\ done = [t \in Tasks |-> 0]
    /\ shared = FALSE /\ crashed = FALSE /\ undeleted = {}

-----------------------------------------------------------------------------
Goto(t, l) == pc' = [pc EXCEPT ![t] = l]

Return(t) ==
    /\ Goto(t, "idle")
    /\ stamp' = [stamp EXCEPT ![t] = Nothing]
    /\ handle' = [handle EXCEPT ![t] = Nothing]
    /\ done' = [done EXCEPT ![t] = 0]
    /\ over' = [over EXCEPT ![t] = FALSE]
    /\ obj' = [obj EXCEPT ![t] = Nothing]

\* Where an error leads: go and typescript remove the temporary name first.
\* In rust the `?` of each call leaves it where it is.
Abandon(t) ==
    IF sdk = "rust" \/ stamp[t] = Nothing
    THEN Return(t)
    ELSE /\ Goto(t, "cleanup")
         /\ handle' = [handle EXCEPT ![t] = Nothing]
         /\ UNCHANGED <<obj, over, stamp, done>>

\* The call, and its check that the path is free, unless it is to be overwritten.
Start(t) ==
    /\ pc[t] = "idle"
    /\ \E o \in Objects, w \in BOOLEAN :
          /\ w \/ dir[Path] = Nothing
          /\ obj' = [obj EXCEPT ![t] = o]
          /\ over' = [over EXCEPT ![t] = w]
    /\ Goto(t, IF sdk = "ts" THEN "fetch" ELSE "create")
    /\ UNCHANGED <<dir, data, stamp, handle, done, shared, crashed, undeleted>>

\* The temporary names a task may take
NamesOf == IF sdk = "ts" THEN Stamps ELSE {Fixed}

\* A name in use: from its creation to the end of the call.
InUse(n, t) == \E u \in Tasks \ {t} : stamp[u] = n

\* Faulty: a file of that name is opened as it is.
CreateKeeping(t) ==
    /\ pc[t] = "create"
    /\ \E n \in NamesOf :
          /\ LET i == IF dir[n] = Nothing THEN NewInode ELSE dir[n]
             IN  /\ dir' = [dir EXCEPT ![n] = i]
                 /\ data' = IF dir[n] = Nothing THEN [data EXCEPT ![i] = Empty] ELSE data
                 /\ handle' = [handle EXCEPT ![t] = i]
          /\ stamp' = [stamp EXCEPT ![t] = n]
          /\ shared' = (shared \/ InUse(n, t))
          /\ undeleted' = undeleted \ {n}
    /\ Goto(t, IF sdk = "ts" THEN "body" ELSE "fetch")
    /\ UNCHANGED <<obj, over, done, crashed>>

\* File::create and os.Create empty a file of that name; createWriteStream
\* with 'wx' does not open it, and the failed download then removes it.
Create(t) ==
    /\ pc[t] = "create"
    /\ \E n \in NamesOf :
          /\ stamp' = [stamp EXCEPT ![t] = n]
          /\ shared' = (shared \/ InUse(n, t))
          /\ undeleted' = undeleted \ {n}
          /\ IF sdk = "ts" /\ dir[n] # Nothing
             THEN Goto(t, "cleanup") /\ UNCHANGED <<dir, data, handle>>
             ELSE LET i == IF dir[n] = Nothing THEN NewInode ELSE dir[n]
                  IN  /\ dir' = [dir EXCEPT ![n] = i]
                      /\ data' = [data EXCEPT ![i] = Empty]
                      /\ handle' = [handle EXCEPT ![t] = i]
                      /\ Goto(t, IF sdk = "ts" THEN "body" ELSE "fetch")
    /\ UNCHANGED <<obj, over, done, crashed>>

\* presign_download and the GET are answered, or one of them fails.
Fetch(t) ==
    /\ pc[t] = "fetch"
    /\ \/ Goto(t, IF sdk = "ts" THEN "create" ELSE "body") /\ UNCHANGED task
       \/ Abandon(t)
    /\ UNCHANGED <<dir, data, shared, crashed, undeleted>>

\* The next chunk is received and written at the handle's offset.
Write(t) ==
    /\ pc[t] = "body"
    /\ done[t] < Size[obj[t]]
    /\ data' = [data EXCEPT ![handle[t]][done[t] + 1] = obj[t]]
    /\ done' = [done EXCEPT ![t] = @ + 1]
    /\ UNCHANGED <<dir, pc, obj, over, stamp, handle, shared, crashed, undeleted>>

\* Faulty: an error of the transfer is taken for the end of the body.
BodyEndsUnchecked(t) ==
    /\ pc[t] = "body"
    /\ Goto(t, IF sdk = "ts" /\ over[t] THEN "replace" ELSE "rename")
    /\ handle' = [handle EXCEPT ![t] = Nothing]
    /\ UNCHANGED <<dir, data, obj, over, stamp, done, shared, crashed, undeleted>>

\* The body is complete and the file closed, or the transfer fails.  No SDK compares
\* what it received with the size presigned: that a body cut short is an error rather
\* than the end is up to HTTP, whose framing (a length, chunks) the clients check.
BodyEnds(t) ==
    /\ pc[t] = "body"
    /\ \/ /\ done[t] = Size[obj[t]]
          /\ Goto(t, IF sdk = "ts" /\ over[t] THEN "replace" ELSE "rename")
          /\ handle' = [handle EXCEPT ![t] = Nothing]
          /\ UNCHANGED <<obj, over, stamp, done>>
       \/ Abandon(t)
    /\ UNCHANGED <<dir, data, shared, crashed, undeleted>>

\* typescript: the file to overwrite is removed, or cannot be.
Replace(t) ==
    /\ pc[t] = "replace"
    /\ \/ dir' = [dir EXCEPT ![Path] = Nothing] /\ Goto(t, "rename") /\ UNCHANGED task
       \/ Abandon(t) /\ UNCHANGED dir
    /\ UNCHANGED <<data, shared, crashed, undeleted>>

\* Faulty: the name is linked to the path and left.
RenameLeaving(t) ==
    /\ pc[t] = "rename"
    /\ dir[stamp[t]] # Nothing
    /\ dir' = [dir EXCEPT ![Path] = dir[stamp[t]]]
    /\ Return(t)
    /\ UNCHANGED <<data, shared, crashed, undeleted>>

\* Faulty: the path is removed first, in every SDK.
RenameRemoving(t) ==
    /\ pc[t] = "rename"
    /\ IF dir[Path] # Nothing
       THEN dir' = [dir EXCEPT ![Path] = Nothing] /\ UNCHANGED <<pc, task>>
       ELSE /\ dir' = [dir EXCEPT ![Path] = dir[stamp[t]], ![stamp[t]] = Nothing]
            /\ Return(t)
    /\ UNCHANGED <<data, shared, crashed, undeleted>>

\* The rename fails, always so when another download took the name away.
Rename(t) ==
    /\ pc[t] = "rename"
    /\ \/ Abandon(t) /\ UNCHANGED dir
       \/ /\ dir[stamp[t]] # Nothing
          /\ dir' = [dir EXCEPT ![Path] = dir[stamp[t]], ![stamp[t]] = Nothing]
          /\ Return(t)
    /\ UNCHANGED <<data, shared, crashed, undeleted>>

\* os.Remove(tmp), rm(temporaryPath, { force: true }): their own errors are ignored.
Cleanup(t) ==
    /\ pc[t] = "cleanup"
    /\ \/ dir' = [dir EXCEPT ![stamp[t]] = Nothing] /\ UNCHANGED undeleted
       \/ undeleted' = undeleted \cup {stamp[t]} /\ UNCHANGED dir
    /\ Return(t)
    /\ UNCHANGED <<data, shared, crashed>>

\* The process stops: every call ends where it is.
Crash ==
    /\ CanCrash /\ ~crashed
    /\ \E t \in Tasks : pc[t] # "idle"
    /\ crashed' = TRUE
    /\ pc' = [t \in Tasks |-> "idle"]
    /\ over' = [t \in Tasks |-> FALSE]
    /\ stamp' = [t \in Tasks |-> Nothing]
    /\ handle' = [t \in Tasks |-> Nothing]
    /\ done' = [t \in Tasks |-> 0]
    /\ obj' = [t \in Tasks |-> Nothing]
    /\ UNCHANGED <<dir, data, shared, undeleted>>

Step(t) == \/ Create(t) \/ Fetch(t) \/ Write(t) \/ BodyEnds(t)
           \/ Replace(t) \/ Rename(t) \/ Cleanup(t)

Next == /\ \/ \E t \in Tasks : Start(t) \/ Step(t)
           \/ Crash
        /\ UNCHANGED sdk

Spec == Init /\ [][Next]_vars

-----------------------------------------------------------------------------
Quiet == \A t \in Tasks : pc[t] = "idle"

\* What is found at the path is one object, whole, whatever downloads are under
\* way, failed or were cut off by a crash (of an earlier one, longer, too); only
\* two downloads with the same temporary name at once can spoil it.
PathIsWhole ==
    dir[Path] # Nothing /\ ~shared => \E o \in Objects : data[dir[Path]] = Whole(o)

\* A download that succeeds has put its own object at the path, not that of
\* another download, unless it shared its temporary name.
DeliversOwn ==
    [][\A t \in Tasks :
          (pc[t] = "rename" /\ pc'[t] = "idle" /\ dir'[Path] # dir[Path] /\ ~shared)
             => data[dir'[Path]] = Whole(obj[t])]_vars

\* In rust and go a reader always finds the old file or the new one: overwriting
\* has no moment without a file.
PathStays == [][sdk # "ts" /\ dir[Path] # Nothing => dir'[Path] # Nothing]_dir

\* Failures and cancellations without a crash of the process leave no temporary file
\* in go and typescript, even where several downloads shared the name; only one that
\* the system did not let them remove, until a download takes the name again.
NoLitter ==
    Quiet /\ ~crashed /\ sdk # "rust" => \A n \in Temporary \ undeleted : dir[n] = Nothing

=============================================================================
