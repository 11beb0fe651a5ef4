------------------------------ MODULE FileStore ------------------------------
(***************************************************************************)
(* The stores that keep their value in a JSON file: FileTokenStore and     *)
(* FileDeviceCredentialStore (umbra-rust, umbra-typescript),               *)
(* FileTokenStore and FileDeviceStore (umbra-go).  A save truncates the    *)
(* file and writes it: tokio::fs::write, os.WriteFile, writeFile.  A file  *)
(* without content is loaded as no value; one with other text than a value *)
(* as an error.  umbra-go holds the store's mutex in every operation, the  *)
(* others hold nothing; no lock reaches another store object or process.   *)
(***************************************************************************)
EXTENDS Naturals

CONSTANTS
    Tasks,          \* operations that may be running at once
    Mutexes,        \* those of store objects
    Values,         \* what may be saved
    Size,           \* the length of each value's text
    NoValue,        \* no value
    Error           \* what a text that is no value is loaded as

ASSUME SizeAssumption == Size \in [Values -> Nat \ {0}]
ASSUME ErrorAssumption == NoValue \notin Values /\ Error \notin Values \cup {NoValue}

\* A file: its length, and the value its text begins with.
Files == [len : Nat, head : Values \cup {NoValue}]
EmptyFile == [len |-> 0, head |-> NoValue]
Absent == [len |-> 0, head |-> NoValue]     \* loaded as an empty one is

VARIABLES
    mutex,      \* the mutex each task takes; one of its own where there is no lock
    file,       \* the file of that name
    pc,         \* where each task is
    new,        \* the value a task saves
    unlinked,   \* tasks that write to a file removed since they opened it
    got,        \* what each task loaded last
    last,       \* history: the value of the last save or clear to end
    torn,       \* history: the file was left by two at once, or by a save cut off
    broken      \* history: a save was cut off

vars == <<mutex, file, pc, new, unlinked, got, last, torn, broken>>

TypeOK ==
    /\ mutex \in [Tasks -> Mutexes]
    /\ file \in Files
    /\ pc \in [Tasks -> {"idle", "write"}]
    /\ new \in [Tasks -> Values \cup {NoValue}]
    /\ unlinked \subseteq {t \in Tasks : pc[t] = "write"}
    /\ got \in [Tasks -> Values \cup {NoValue, Error}]
    /\ last \in Values \cup {NoValue}
    /\ torn \in BOOLEAN /\ broken \in BOOLEAN
    /\ \A t \in Tasks : pc[t] = "write" <=> new[t] # NoValue
    /\ \A t, u \in Tasks :
          pc[t] = "write" /\ pc[u] = "write" /\ mutex[t] = mutex[u] => t = u

Init ==
    /\ mutex \in [Tasks -> Mutexes]
    /\ file = Absent
    /\ pc = [t \in Tasks |-> "idle"]
    /\ new = [t \in Tasks |-> NoValue]
    /\ unlinked = {}
    /\ got = [t \in Tasks |-> NoValue]
    /\ last = NoValue
    /\ torn = FALSE /\ broken = FALSE

-----------------------------------------------------------------------------
Writing == {t \in Tasks : pc[t] = "write"}

\* Faulty: a mutex for each operation.
FreeAlways(t) == TRUE

\* The mutex of the task is free.
Free(t) == \A u \in Writing : mutex[u] # mutex[t]

\* What the text of a file is parsed to
Parsed(f) ==
    IF f.len = 0 THEN NoValue
    ELSE IF f.head # NoValue /\ f.len = Size[f.head] THEN f.head
    ELSE Error

\* Faulty: the file is opened without truncating it.
OpenKeeping(t) ==
    /\ pc[t] = "idle" /\ Free(t)
    /\ pc' = [pc EXCEPT ![t] = "write"]
    /\ \E v \in Values : new' = [new EXCEPT ![t] = v]
    /\ torn' = (Writing # {})
    /\ UNCHANGED <<file, unlinked, got, last, broken>>

\* The file is created, or truncated.
Open(t) ==
    /\ pc[t] = "idle" /\ Free(t)
    /\ pc' = [pc EXCEPT ![t] = "write"]
    /\ \E v \in Values : new' = [new EXCEPT ![t] = v]
    /\ file' = EmptyFile
    /\ torn' = (Writing # {})
    /\ UNCHANGED <<unlinked, got, last, broken>>

\* The text is written from the start of the file; what is longer stays.
WriteText(t) ==
    /\ pc[t] = "write"
    /\ file' = IF t \in unlinked THEN file
               ELSE [head |-> new[t],
                     len  |-> IF file.len > Size[new[t]] THEN file.len ELSE Size[new[t]]]
    /\ pc' = [pc EXCEPT ![t] = "idle"]
    /\ new' = [new EXCEPT ![t] = NoValue]
    /\ unlinked' = unlinked \ {t}
    /\ last' = new[t]
    /\ UNCHANGED <<torn, broken>>

Write(t) == WriteText(t) /\ UNCHANGED got

\* A crash, a full disk, a cancelled write: some of the text is written.  It
\* happens once at most.
Break(t) ==
    /\ ~broken
    /\ pc[t] = "write"
    /\ \/ UNCHANGED file
       \/ /\ t \notin unlinked
          /\ file' = [head |-> NoValue, len |-> IF file.len > 1 THEN file.len ELSE 1]
    /\ pc' = [pc EXCEPT ![t] = "idle"]
    /\ new' = [new EXCEPT ![t] = NoValue]
    /\ unlinked' = unlinked \ {t}
    /\ torn' = TRUE /\ broken' = TRUE
    /\ UNCHANGED <<got, last>>

\* The file is removed, if there is one.
Clear(t) ==
    /\ pc[t] = "idle" /\ Free(t)
    /\ file' = Absent
    /\ unlinked' = Writing
    /\ last' = NoValue
    /\ torn' = (Writing # {})
    /\ UNCHANGED <<pc, new, got, broken>>

Load(t) ==
    /\ pc[t] = "idle" /\ Free(t)
    /\ got' = [got EXCEPT ![t] = Parsed(file)]
    /\ UNCHANGED <<file, pc, new, unlinked, last, torn, broken>>

Step(t) == Open(t) \/ Write(t) \/ Break(t) \/ Clear(t) \/ Load(t)

Next == (\E t \in Tasks : Step(t)) /\ UNCHANGED mutex

Spec == Init /\ [][Next]_vars

-----------------------------------------------------------------------------
\* When no save is under way the file holds what was saved or cleared last,
\* unless two tasks or processes wrote at once or a save was cut off; the next
\* save that runs alone repairs either.
FileIsLast == Writing = {} /\ ~torn => Parsed(file) = last

\* Every operation takes the same mutex: one store object of umbra-go.
OneStore == \A t, u \in Tasks : mutex[t] = mutex[u]

\* A value being written counts as saved: the mutex lets no load see the file.
Kept == IF Writing = {} THEN Parsed(file) ELSE new[CHOOSE t \in Writing : TRUE]

\* Of other tasks nothing is claimed: they map to a register that is not used.
R == INSTANCE Register WITH
    value <- IF OneStore THEN Kept ELSE NoValue,
    got <- IF OneStore THEN got ELSE [t \in Tasks |-> NoValue],
    Unreadable <- Error

\* The file behind one store object of umbra-go is the register a store
\* promises: no load, save or clear sees another one half done.
ImplementsRegister == R!Spec

=============================================================================
