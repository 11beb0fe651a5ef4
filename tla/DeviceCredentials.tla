------------------------- MODULE DeviceCredentials -------------------------
(***************************************************************************)
(* The device credentials of a client: DeviceClient (register, ensure      *)
(* registered, rotate secret, logout) and the signing of requests in       *)
(* ApiClient.  The server keeps one current secret per device, numbered by *)
(* its generation, and replaces it at every registration or rotation; the  *)
(* client keeps a copy in the device store and signs with it.              *)
(*                                                                         *)
(* A task is one call.  It holds no lock: between two of its steps any     *)
(* step of another task may happen, and nothing keeps the application from *)
(* registering and rotating at once.  The three SDKs differ in the retry   *)
(* after a 401: umbra-rust and umbra-typescript load the credentials again,*)
(* umbra-go signs with the ones it loaded first.                           *)
(***************************************************************************)
EXTENDS Naturals

CONSTANTS
    Tasks,          \* calls that may be running at once
    Devices,        \* devices of the user
    Here,           \* the device the client runs on: what register() returns
    Targets,        \* devices the application names to rotate_secret()
    NoCred,         \* content of an empty device store
    MaxGen          \* bound on the generations of a secret

ASSUME HereAssumption == Here \in Devices /\ Targets \subseteq Devices

Cred == [dev : Devices, gen : Nat]

ASSUME NoCredAssumption == NoCred \notin Cred

VARIABLES
    reload,     \* whether a retry loads the credentials again; never changes
    dstore,     \* the device store
    secret,     \* server: generation of each device's secret
    late,       \* devices with a register/rotate request given up but not served
    orphan,     \* history: devices whose current secret never reached the store
    crossed,    \* history: devices two of whose secrets were on their way to the
                \* store at once, until one was saved with no other on its way
    pc,         \* where each task is
    dev,        \* the device a register or rotate is about
    reply,      \* credentials the server answered with
    signer,     \* credentials a request is signed with
    retry,      \* retry_auth
    overlap     \* history: since the task loaded its signer, or was answered 401,
                \* the secret of that device changed or was still to be saved

local == <<dev, reply, signer, retry, overlap>>
vars == <<reload, dstore, secret, late, orphan, crossed, pc, local>>

Writing == {"post", "save"}     \* pcs of a register or rotate under way

\* The client starts without credentials, or with those of an earlier run; its
\* other devices are registered.
Init ==
    /\ reload \in BOOLEAN
    /\ secret \in [Devices -> {1}]
    /\ dstore \in {NoCred, [dev |-> Here, gen |-> 1]}
    /\ late = {} /\ orphan = {} /\ crossed = {}
    /\ pc = [t \in Tasks |-> "idle"]
    /\ dev = [t \in Tasks |-> Here]
    /\ reply = [t \in Tasks |-> NoCred]
    /\ signer = [t \in Tasks |-> NoCred]
    /\ retry = [t \in Tasks |-> TRUE]
    /\ overlap = [t \in Tasks |-> FALSE]

-----------------------------------------------------------------------------
Goto(t, l) == pc' = [pc EXCEPT ![t] = l]

Return(t) ==
    /\ Goto(t, "idle")
    /\ dev' = [dev EXCEPT ![t] = Here]
    /\ reply' = [reply EXCEPT ![t] = NoCred]
    /\ signer' = [signer EXCEPT ![t] = NoCred]
    /\ retry' = [retry EXCEPT ![t] = TRUE]
    /\ overlap' = [overlap EXCEPT ![t] = FALSE]

\* Another task has a secret of device d to save.
OnItsWay(t, d) == \E u \in Tasks \ {t} : pc[u] = "save" /\ dev[u] = d

StartWriter(t) ==
    /\ pc[t] = "idle"
    /\ \/ Goto(t, "post") /\ UNCHANGED dev                  \* Register
       \/ Goto(t, "ensure") /\ UNCHANGED dev                \* EnsureRegistered
       \/ Goto(t, "target") /\ UNCHANGED dev                \* RotateSecret("")
       \/ \E d \in Targets :                                \* RotateSecret(d)
             Goto(t, "post") /\ dev' = [dev EXCEPT ![t] = d]
    /\ UNCHANGED <<dstore, secret, late, orphan, crossed, reply, signer, retry, overlap>>

\* A backup or sync request, or Logout
StartSigned(t) ==
    /\ pc[t] = "idle"
    /\ \E l \in {"sign", "out"} : Goto(t, l)
    /\ UNCHANGED <<dstore, secret, late, orphan, crossed, local>>

\* Stored credentials are returned as they are, without asking the server.
EnsureRegistered(t) ==
    /\ pc[t] = "ensure"
    /\ IF dstore # NoCred
       THEN Return(t)
       ELSE Goto(t, "post") /\ UNCHANGED local
    /\ UNCHANGED <<dstore, secret, late, orphan, crossed>>

\* RotateSecret without a device: the stored one.
RotateTarget(t) ==
    /\ pc[t] = "target"
    /\ dstore # NoCred
    /\ dev' = [dev EXCEPT ![t] = dstore.dev]
    /\ Goto(t, "post")
    /\ UNCHANGED <<dstore, secret, late, orphan, crossed, reply, signer, retry, overlap>>

SignsFor(t, d) == signer[t] # NoCred /\ signer[t].dev = d

\* The server replaces the secret.  A register has the stable device of this
\* installation as its subject.
Serve(t) ==
    /\ pc[t] = "post"
    /\ secret[dev[t]] < MaxGen
    /\ secret' = [secret EXCEPT ![dev[t]] = @ + 1]
    /\ reply' = [reply EXCEPT ![t] = [dev |-> dev[t], gen |-> secret[dev[t]] + 1]]
    /\ crossed' = IF OnItsWay(t, dev[t]) THEN crossed \cup {dev[t]} ELSE crossed
    /\ overlap' = [u \in Tasks |-> overlap[u] \/ SignsFor(u, dev[t])]
    /\ Goto(t, "save")
    /\ UNCHANGED <<dstore, late, orphan, dev, signer, retry>>

\* The current secret of the device is saved, perhaps with no other on its way.
Recorded(t) ==
    LET current == reply[t].gen = secret[dev[t]]
    IN  /\ orphan' = IF current THEN orphan \ {dev[t]} ELSE orphan
        /\ crossed' = IF current /\ ~OnItsWay(t, dev[t]) THEN crossed \ {dev[t]} ELSE crossed

\* Faulty: the client keeps what is stored.
SaveKeeping(t) ==
    /\ pc[t] = "save"
    /\ dstore' = IF dstore = NoCred THEN reply[t] ELSE dstore
    /\ Recorded(t)
    /\ Return(t)
    /\ UNCHANGED <<secret, late>>

\* The answered credentials are saved, whichever device they are of.
Save(t) ==
    /\ pc[t] = "save"
    /\ dstore' = reply[t]
    /\ Recorded(t)
    /\ Return(t)
    /\ UNCHANGED <<secret, late>>

\* The request or its reply is lost, or the save fails; or the call ends
\* without the server having changed anything.
LoseWrite(t) ==
    /\ pc[t] \in Writing
    /\ \/ pc[t] = "post" /\ late' \in {late, late \cup {dev[t]}} /\ UNCHANGED orphan
       \/ /\ pc[t] = "save"
          /\ orphan' = IF reply[t].gen = secret[dev[t]] THEN orphan \cup {dev[t]} ELSE orphan
          /\ UNCHANGED late
    /\ Return(t)
    /\ UNCHANGED <<dstore, secret, crossed>>

\* A request that was given up reaches the server after all.
ServeLate ==
    /\ \E d \in late :
          /\ secret[d] < MaxGen
          /\ secret' = [secret EXCEPT ![d] = @ + 1]
          /\ late' = late \ {d}
          /\ orphan' = orphan \cup {d}
          /\ overlap' = [u \in Tasks |-> overlap[u] \/ SignsFor(u, d)]
    /\ UNCHANGED <<dstore, crossed, pc, dev, reply, signer, retry>>

-----------------------------------------------------------------------------
(* Signed requests *)

\* Logout looks whether there is a session to report at all ...
LogoutLoad(t) ==
    /\ pc[t] = "out"
    /\ Goto(t, IF dstore = NoCred THEN "clear" ELSE "report")
    /\ UNCHANGED <<dstore, secret, late, orphan, crossed, local>>

\* ... and every signed request loads the credentials it signs with.
Sign(t) ==
    /\ pc[t] \in {"sign", "report"}
    /\ dstore # NoCred
    /\ signer' = [signer EXCEPT ![t] = dstore]
    /\ overlap' = [overlap EXCEPT ![t] = OnItsWay(t, dstore.dev)]
    /\ Goto(t, IF pc[t] = "report" THEN "outSent" ELSE "sent")
    /\ UNCHANGED <<dstore, secret, late, orphan, crossed, dev, reply, retry>>

Sent == {"sent", "outSent"}

\* The server checks the signature and answers; any error ends the request.
Answered(t) ==
    /\ pc[t] \in Sent
    /\ IF pc[t] = "sent" THEN Return(t)
       ELSE Goto(t, "clear") /\ UNCHANGED local
    /\ UNCHANGED <<dstore, secret, late, orphan, crossed>>

\* Faulty: every SDK signs the retry with the credentials loaded before the 401.
RejectedReusing(t) ==
    /\ pc[t] \in Sent
    /\ retry[t]
    /\ retry' = [retry EXCEPT ![t] = FALSE]
    /\ overlap' = [overlap EXCEPT ![t] = OnItsWay(t, signer[t].dev)]
    /\ UNCHANGED <<dstore, secret, late, orphan, crossed, pc, dev, reply, signer>>

\* The first 401: the access token is refreshed and the request sent again.
Rejected(t) ==
    /\ pc[t] \in Sent
    /\ retry[t]
    /\ retry' = [retry EXCEPT ![t] = FALSE]
    /\ overlap' = [overlap EXCEPT ![t] = OnItsWay(t, signer[t].dev)]
    /\ IF reload
       THEN /\ Goto(t, IF pc[t] = "sent" THEN "sign" ELSE "report")
            /\ signer' = [signer EXCEPT ![t] = NoCred]
       ELSE UNCHANGED <<pc, signer>>
    /\ UNCHANGED <<dstore, secret, late, orphan, crossed, dev, reply>>

\* Logout clears the store whatever the server answered.
LogoutClear(t) ==
    /\ pc[t] = "clear"
    /\ dstore' = NoCred
    /\ Return(t)
    /\ UNCHANGED <<secret, late, orphan, crossed>>

\* A step fails before anything changed: a store error, no credentials, no
\* token.  A logout whose report fails still clears; one whose load fails does
\* not.
Fail(t) ==
    /\ pc[t] \in {"ensure", "target", "sign", "out", "report", "clear"}
    /\ IF pc[t] = "report" THEN Goto(t, "clear") /\ UNCHANGED local ELSE Return(t)
    /\ UNCHANGED <<dstore, secret, late, orphan, crossed>>

Step(t) ==
    \/ StartWriter(t) \/ EnsureRegistered(t) \/ RotateTarget(t)
    \/ Serve(t) \/ Save(t) \/ LoseWrite(t)
    \/ StartSigned(t) \/ LogoutLoad(t) \/ Sign(t) \/ Answered(t) \/ Rejected(t)
    \/ LogoutClear(t) \/ Fail(t)

Next == (ServeLate \/ \E t \in Tasks : Step(t)) /\ UNCHANGED reload
Spec == Init /\ [][Next]_vars

-----------------------------------------------------------------------------
(* Properties *)

\* The stored secret is the one the server expects of its device, once nothing is
\* between server and store, however many calls registered and rotated at once:
\* only a lost reply, and two answers for the same device that were under way at
\* once, can leave an older one there; and the next registration or rotation of the
\* device that is saved by itself heals both.
StoredIsCurrent ==
    dstore # NoCred /\ dstore.dev \notin orphan \cup crossed
        /\ (\A t \in Tasks : pc[t] # "save" \/ dev[t] # dstore.dev)
      => dstore.gen = secret[dstore.dev]

\* A request is signed with the server's secret, the retry after a 401 again: a
\* rotation that was saved before the 401 came does not fail the retry.  What does
\* is a change of that device's secret since the credentials were loaded, and for a
\* retry since the 401; or a stored secret that was lost or crossed.  The retry of
\* umbra-go is excepted: it does sign with what it loaded before the 401.
SignsCurrent ==
    \A t \in Tasks :
        /\ pc[t] \in Sent /\ (reload \/ retry[t])
        /\ signer[t].dev \notin orphan \cup crossed
        /\ ~overlap[t]
      => signer[t].gen = secret[signer[t].dev]

\* umbra-go/device.go:190 says that a rotated secret is stored when the rotated
\* device matches the local credentials: those of this device are not replaced
\* by another device's.
RotationKeepsDevice ==
    [][dstore # NoCred /\ dstore.dev = Here /\ dstore' # NoCred
           => dstore'.dev = Here]_vars
=============================================================================
