----------------------------- MODULE RootClient -----------------------------
(***************************************************************************)
(* UmbraClient.login and logout: what joins the OAuth session and the      *)
(* device credentials.  A login saves the token set and then registers the *)
(* device with it; a logout reports the device offline, clears its         *)
(* credentials, revokes the tokens and clears them.  Each step can fail on *)
(* its own, the process can stop between two of them, and logins and       *)
(* logouts can overlap; a token set and credentials are known here by the  *)
(* user they are of.                                                       *)
(***************************************************************************)
CONSTANTS
    Tasks,          \* logins and logouts that may be running at once
    Users,          \* accounts of the service
    NoUser          \* content of an empty store

ASSUME NoUserAssumption == NoUser \notin Users

VARIABLES
    registers,  \* whether the client has a device registration; never changes
    token,      \* the token store
    device,     \* the device store
    pc,         \* where each task is
    user,       \* the user a login is for, or the one a registration is answered for
    failed,     \* history: logouts that a store answered with an error
    overlap,    \* history: tasks that ran together with another one
    settled     \* history: how the last call ended, if it was alone and complete:
                \* a successful login, or a logout to which no store failed

vars == <<registers, token, device, pc, user, failed, overlap, settled>>

Idle(t) == pc[t] = "idle"

TypeOK ==
    /\ registers \in BOOLEAN
    /\ token \in Users \cup {NoUser} /\ device \in Users \cup {NoUser}
    /\ pc \in [Tasks -> {"idle", "save", "register", "saveDevice",
                         "report", "clearDevice", "revoke", "clearTokens"}]
    /\ user \in [Tasks -> Users \cup {NoUser}]
    /\ failed \subseteq Tasks /\ overlap \subseteq Tasks
    /\ settled \in {"no", "login", "logout"}
    /\ \A t \in Tasks : pc[t] \in {"save", "saveDevice"} => user[t] # NoUser
    /\ \A t \in failed : pc[t] \in {"report", "clearDevice", "revoke", "clearTokens"}

Init ==
    /\ registers \in BOOLEAN
    /\ token = NoUser /\ device = NoUser
    /\ pc = [t \in Tasks |-> "idle"]
    /\ user = [t \in Tasks |-> NoUser]
    /\ failed = {} /\ overlap = {}
    /\ settled = "logout"

-----------------------------------------------------------------------------
Goto(t, l) == pc' = [pc EXCEPT ![t] = l]

Starts(t, l) ==
    /\ Idle(t)
    /\ Goto(t, l)
    /\ overlap' = LET others == {u \in Tasks \ {t} : ~Idle(u)}
                  IN  IF others = {} THEN overlap ELSE overlap \cup others \cup {t}

\* The call returns: h says what it did, "no" for an error.
Ends(t, h) ==
    /\ Goto(t, "idle")
    /\ user' = [user EXCEPT ![t] = NoUser]
    /\ failed' = failed \ {t}
    /\ overlap' = overlap \ {t}
    /\ settled' = IF t \in overlap \/ \E u \in Tasks \ {t} : ~Idle(u) THEN "no" ELSE h

\* The user authorizes the client, and the code is exchanged for tokens.
Login(t) ==
    /\ Starts(t, "save")
    /\ \E u \in Users : user' = [user EXCEPT ![t] = u]
    /\ UNCHANGED <<token, device, failed, settled>>

\* token_store.save; without a registration the login is complete.
SaveTokens(t) ==
    /\ pc[t] = "save"
    /\ \/ /\ token' = user[t]
          /\ IF registers
             THEN Goto(t, "register") /\ UNCHANGED <<user, failed, overlap, settled>>
             ELSE Ends(t, "login")
       \/ Ends(t, "no") /\ UNCHANGED token
    /\ UNCHANGED device

\* Faulty: the login succeeds although the device could not be registered.
RegisterIgnored(t) ==
    /\ pc[t] = "register"
    /\ \/ /\ token # NoUser
          /\ user' = [user EXCEPT ![t] = token]
          /\ Goto(t, "saveDevice")
          /\ UNCHANGED <<failed, overlap, settled>>
       \/ Ends(t, "login")
    /\ UNCHANGED <<token, device>>

\* Faulty: a missing token is not noticed.
RegisterUnchecked(t) ==
    /\ pc[t] = "register"
    /\ user' = [user EXCEPT ![t] = token]
    /\ Goto(t, "saveDevice")
    /\ UNCHANGED <<token, device, failed, overlap, settled>>

\* The device is registered for the user whose token is stored, and registered again
\* where the store has credentials already; an error ends the login, the tokens stay.
Register(t) ==
    /\ pc[t] = "register"
    /\ \/ /\ token # NoUser
          /\ user' = [user EXCEPT ![t] = token]
          /\ Goto(t, "saveDevice")
          /\ UNCHANGED <<failed, overlap, settled>>
       \/ Ends(t, "no")
    /\ UNCHANGED <<token, device>>

SaveDevice(t) ==
    /\ pc[t] = "saveDevice"
    /\ \/ device' = user[t] /\ Ends(t, "login")
       \/ Ends(t, "no") /\ UNCHANGED device
    /\ UNCHANGED token

-----------------------------------------------------------------------------
\* The credentials are loaded; a load error ends DeviceClient.logout.
Logout(t) ==
    /\ \/ Starts(t, IF device = NoUser THEN "clearDevice" ELSE "report") /\ UNCHANGED failed
       \/ Starts(t, "revoke") /\ failed' = failed \cup {t}
    /\ UNCHANGED <<token, device, user, settled>>

\* Faulty: an error of the report ends the logout.
ReportFirst(t) ==
    /\ pc[t] = "report"
    /\ \/ Goto(t, "clearDevice") /\ UNCHANGED <<user, failed, overlap, settled>>
       \/ Ends(t, "logout")
    /\ UNCHANGED <<token, device>>

\* The report is answered, or fails: the error is returned at the end.
Report(t) ==
    /\ pc[t] = "report"
    /\ Goto(t, "clearDevice")
    /\ UNCHANGED <<token, device, user, failed, overlap, settled>>

\* Whatever happened, AuthClient.logout comes next.
ClearDevice(t) ==
    /\ pc[t] = "clearDevice"
    /\ \/ device' = NoUser /\ UNCHANGED failed
       \/ failed' = failed \cup {t} /\ UNCHANGED device
    /\ Goto(t, "revoke")
    /\ UNCHANGED <<token, user, overlap, settled>>

\* The tokens are loaded and revoked as far as possible; a load error ends the
\* logout, an error of the revocation is ignored.
Revoke(t) ==
    /\ pc[t] = "revoke"
    /\ \/ Goto(t, "clearTokens") /\ UNCHANGED <<user, failed, overlap, settled>>
       \/ Ends(t, "no")
    /\ UNCHANGED <<token, device>>

ClearTokens(t) ==
    /\ pc[t] = "clearTokens"
    /\ \/ token' = NoUser /\ Ends(t, IF t \in failed THEN "no" ELSE "logout")
       \/ Ends(t, "no") /\ UNCHANGED token
    /\ UNCHANGED device

\* The future of the call is dropped, or its context done.
Drop(t) == ~Idle(t) /\ Ends(t, "no") /\ UNCHANGED <<token, device>>

\* The process stops; the stores remain.
Crash ==
    /\ \E t \in Tasks : ~Idle(t)
    /\ pc' = [t \in Tasks |-> "idle"]
    /\ user' = [t \in Tasks |-> NoUser]
    /\ failed' = {} /\ overlap' = {}
    /\ settled' = "no"
    /\ UNCHANGED <<token, device>>

Step(t) ==
    \/ Login(t) \/ SaveTokens(t) \/ Register(t) \/ SaveDevice(t)
    \/ Logout(t) \/ Report(t) \/ ClearDevice(t) \/ Revoke(t) \/ ClearTokens(t)
    \/ Drop(t)

Next == (Crash \/ \E t \in Tasks : Step(t)) /\ UNCHANGED registers

Spec == Init /\ [][Next]_vars

-----------------------------------------------------------------------------
Quiet == \A t \in Tasks : Idle(t)

\* After a logout, alone and not cut off, both stores are empty even if the device
\* could not be reported offline or a token not be revoked; only a store that
\* fails can keep something.
LogoutClears == Quiet /\ settled = "logout" => token = NoUser /\ device = NoUser

\* A login with a device registration that reports success leaves credentials of the
\* user who logged in, whoever used the device before, and whatever an earlier login
\* that failed between the two saves, and said so, left in the stores.
LoginBinds ==
    Quiet /\ settled = "login" /\ registers => token # NoUser /\ device = token

=============================================================================
