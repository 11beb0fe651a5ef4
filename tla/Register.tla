------------------------------ MODULE Register ------------------------------
(***************************************************************************)
(* What a token or device store promises (the traits TokenStore and        *)
(* DeviceCredentialStore, the interfaces of the same names): one value,    *)
(* saved, cleared and loaded at once.  The in-memory stores are this, each *)
(* operation under its lock.  A save to a file can be cut off; then the    *)
(* value is lost, and what is left may be unreadable.                      *)
(***************************************************************************)
CONSTANTS Tasks, Values, NoValue, Unreadable

VARIABLES
    value,      \* the value kept, NoValue or Unreadable
    got         \* what each task loaded last

Init == value = NoValue /\ got = [t \in Tasks |-> NoValue]

Save == value' \in Values /\ UNCHANGED got
Clear == value' = NoValue /\ UNCHANGED got
CutOff == value' = Unreadable /\ UNCHANGED got
Load(t) == got' = [got EXCEPT ![t] = value] /\ UNCHANGED value

Next == Save \/ Clear \/ CutOff \/ \E t \in Tasks : Load(t)

Spec == Init /\ [][Next]_<<value, got>>

=============================================================================
