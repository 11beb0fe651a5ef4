----------------------------- MODULE InstallId -----------------------------
(***************************************************************************)
(* The installation id of a device: a text in a file that the first call   *)
(* creates and every later one reads, without a lock, and that is written  *)
(* like a file store's value.  Unlike there, any text that is not blank is *)
(* taken for an id.  A behaviour is that of a store or that of an id.      *)
(***************************************************************************)
EXTENDS FileStore

VARIABLES
    ids,        \* whether the file holds an id; never changes
    creating,   \* calls that found no id
    raced       \* history: two calls were creating an id at once

idVars == <<vars, ids, creating, raced>>

AnyInit ==
    /\ Init
    /\ ids \in BOOLEAN
    /\ ids => \A t, u \in Tasks : mutex[t] = mutex[u] => t = u
    /\ creating = {} /\ raced = FALSE

-----------------------------------------------------------------------------
\* Faulty: any error of the read means that there is no id.
FindAfterError(t) ==
    /\ pc[t] = "idle" /\ t \notin creating
    /\ \/ Parsed(file) # NoValue /\ got' = [got EXCEPT ![t] = Parsed(file)]
          /\ UNCHANGED <<creating, raced>>
       \/ /\ creating' = creating \cup {t}
          /\ raced' = (raced \/ creating \cup Writing # {})
          /\ UNCHANGED got
    /\ UNCHANGED <<file, pc, new, unlinked, last, torn, broken>>

\* load_or_create_windows_install_id reads the file.  What a write that was cut off
\* left of an id is an id as well.
Find(t) ==
    /\ pc[t] = "idle" /\ t \notin creating
    /\ IF Parsed(file) # NoValue
       THEN got' = [got EXCEPT ![t] = Parsed(file)] /\ UNCHANGED <<creating, raced>>
       ELSE /\ creating' = creating \cup {t}
            /\ raced' = (raced \/ creating \cup Writing # {})
            /\ UNCHANGED got
    /\ UNCHANGED <<file, pc, new, unlinked, last, torn, broken>>

\* new_install_id; the file is created, or truncated.
Create(t) ==
    /\ t \in creating
    /\ creating' = creating \ {t}
    /\ Open(t)
    /\ UNCHANGED raced

\* The id is written, and returned.
Return(t) ==
    /\ WriteText(t)
    /\ got' = [got EXCEPT ![t] = new[t]]
    /\ UNCHANGED <<creating, raced>>

\* The directory or the file cannot be created.
Fail(t) ==
    /\ t \in creating
    /\ creating' = creating \ {t}
    /\ UNCHANGED <<vars, raced>>

CutOff(t) == Break(t) /\ UNCHANGED <<creating, raced>>

IdStep(t) == Find(t) \/ Create(t) \/ Return(t) \/ Fail(t) \/ CutOff(t)

AnyNext ==
    /\ \/ ids /\ \E t \in Tasks : IdStep(t)
       \/ ~ids /\ (\E t \in Tasks : Step(t)) /\ UNCHANGED <<creating, raced>>
    /\ UNCHANGED <<mutex, ids>>

AnySpec == AnyInit /\ [][AnyNext]_idVars

-----------------------------------------------------------------------------
\* The id is stable: calls answer the same, although a call reads the file long
\* before it writes, and a write may fail or be cut off, unless two calls were
\* creating an id at once.
OneId ==
    ids /\ ~raced => \A t, u \in Tasks : NoValue \notin {got[t], got[u]} => got[t] = got[u]
=============================================================================
