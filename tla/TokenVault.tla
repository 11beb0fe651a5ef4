----------------------------- MODULE TokenVault -----------------------------
(***************************************************************************)
(* What the SDKs promise about the stored access token during one login    *)
(* session, however a client serialises its refreshes: a token that is     *)
(* saved is newer than every token saved or given up before it.  umbra-rust*)
(* and umbra-go serialise with a mutex (TokenSession), umbra-typescript    *)
(* shares one refresh among its callers (SingleFlight).                    *)
(***************************************************************************)
EXTENDS Naturals

CONSTANT Empty      \* content of an empty vault

VARIABLES
    held,       \* number of the stored access token, or Empty
    floor       \* every token saved from now on is newer than this one

vars == <<held, floor>>

TypeOK == held \in Nat \cup {Empty} /\ floor \in Nat

Init == floor \in Nat /\ held \in {floor, Empty}

\* A newer token is saved, into an empty vault too.
Save ==
    /\ held' \in Nat
    /\ floor' = held'
    /\ held' > floor

\* A token was issued that never reaches the vault.
GiveUp == floor' \in Nat /\ floor' > floor /\ UNCHANGED held

\* logout
Clear == held' = Empty /\ UNCHANGED floor

Next == Save \/ GiveUp \/ Clear
Spec == Init /\ [][Next]_vars

\* A stored token is never newer than the floor.
HeldBelowFloor == held # Empty => held \leq floor

\* No step puts an older token in place of the stored one.
NeverOlder == [][held # Empty /\ held' # Empty => held' >= held]_vars
=============================================================================
