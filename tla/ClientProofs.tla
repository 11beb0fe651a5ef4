---------------------------- MODULE ClientProofs ----------------------------
(***************************************************************************)
(* Proofs about the calls of a client: what a login and a logout of        *)
(* UmbraClient leave in its stores (RootClient), for every set of tasks    *)
(* and users, and what a single request comes to in the three SDKs         *)
(* (Requests), for every set of device ids and secrets.                    *)
(***************************************************************************)
EXTENDS RootClient, Requests, TLAPS

-----------------------------------------------------------------------------
(***************************************************************************)
(* RootClient: the types.                                                  *)
(***************************************************************************)
LEMMA TypeInit == Init => TypeOK
  BY Zenon DEF Init, TypeOK

LEMMA TypeStep == TypeOK /\ [Next]_vars => TypeOK'
  <1> SUFFICES ASSUME TypeOK, [Next]_vars PROVE TypeOK'
    OBVIOUS
  <1> USE NoUserAssumption DEF TypeOK
  <1>1. ASSUME NEW t \in Tasks, Login(t), UNCHANGED registers PROVE TypeOK'
    BY <1>1 DEF Login, Starts, Goto, Idle
  <1>2. ASSUME NEW t \in Tasks, SaveTokens(t), UNCHANGED registers PROVE TypeOK'
    BY <1>2 DEF SaveTokens, Ends, Goto
  <1>3. ASSUME NEW t \in Tasks, Register(t), UNCHANGED registers PROVE TypeOK'
    BY <1>3 DEF Register, Ends, Goto
  <1>4. ASSUME NEW t \in Tasks, SaveDevice(t), UNCHANGED registers PROVE TypeOK'
    BY <1>4 DEF SaveDevice, Ends, Goto
  <1>5. ASSUME NEW t \in Tasks, Logout(t), UNCHANGED registers PROVE TypeOK'
    BY <1>5 DEF Logout, Starts, Goto, Idle
  <1>6. ASSUME NEW t \in Tasks, Report(t), UNCHANGED registers PROVE TypeOK'
    BY <1>6 DEF Report, Goto
  <1>7. ASSUME NEW t \in Tasks, ClearDevice(t), UNCHANGED registers PROVE TypeOK'
    BY <1>7 DEF ClearDevice, Goto
  <1>8. ASSUME NEW t \in Tasks, Revoke(t), UNCHANGED registers PROVE TypeOK'
    BY <1>8 DEF Revoke, Ends, Goto
  <1>9. ASSUME NEW t \in Tasks, ClearTokens(t), UNCHANGED registers PROVE TypeOK'
    BY <1>9 DEF ClearTokens, Ends, Goto
  <1>10. ASSUME NEW t \in Tasks, Drop(t), UNCHANGED registers PROVE TypeOK'
    BY <1>10 DEF Drop, Ends, Goto
  <1>11. CASE Crash /\ UNCHANGED registers
    BY <1>11 DEF Crash
  <1>12. CASE UNCHANGED vars
    BY <1>12 DEF vars
  <1> QED
    BY <1>1, <1>2, <1>3, <1>4, <1>5, <1>6, <1>7, <1>8, <1>9, <1>10, <1>11, <1>12
    DEF Next, Step

\* The types, and that a task about to save a user's tokens or credentials has one.
THEOREM TypeCorrect == Spec => []TypeOK
  BY TypeInit, TypeStep, PTL DEF Spec

-----------------------------------------------------------------------------
(***************************************************************************)
(* RootClient: what holds between two steps of a call that runs alone.     *)
(***************************************************************************)
Alone(t) == ~Idle(t) /\ t \notin overlap

LogInv ==
    /\ \A t, u \in Tasks : Alone(t) /\ u # t => Idle(u)
    /\ \A t \in Tasks : Alone(t) =>
          /\ pc[t] \in {"revoke", "clearTokens"} /\ t \notin failed => device = NoUser
          /\ pc[t] = "saveDevice" => token = user[t]

Inv == LogInv /\ LogoutClears /\ LoginBinds

\* A call that ends alone leaves the stores as its outcome says; the others did
\* not run alone anyway.
LEMMA EndsKeeps ==
    ASSUME TypeOK, Inv, NEW t \in Tasks, NEW h, Ends(t, h), ~Idle(t), UNCHANGED registers,
           Alone(t) /\ h = "logout" => token' = NoUser /\ device' = NoUser,
           Alone(t) /\ h = "login" /\ registers => token' # NoUser /\ device' = token'
    PROVE  Inv'
  <1>1. \A u \in Tasks : u # t => (Alone(u)' <=> Alone(u)) /\ (Idle(u)' <=> Idle(u))
    BY DEF TypeOK, Ends, Goto, Alone, Idle
  <1>2. Idle(t)' /\ ~Alone(t)'
    BY DEF TypeOK, Ends, Goto, Alone, Idle
  <1>3. \A u \in Tasks : ~Alone(u)'
    BY <1>1, <1>2 DEF Inv, LogInv
  <1>4. LogInv'
    BY <1>3 DEF LogInv
  <1>5. settled' # "no" => Alone(t) /\ settled' = h
    BY DEF Ends, Alone
  <1> QED
    BY <1>4, <1>5 DEF Inv, LogoutClears, LoginBinds

\* A call in progress goes on.
LEMMA MoveKeeps ==
    ASSUME TypeOK, Inv, NEW t \in Tasks, NEW l, Goto(t, l), l # "idle", ~Idle(t),
           UNCHANGED <<overlap, settled>>,
           Alone(t) => /\ l \in {"revoke", "clearTokens"} /\ t \notin failed' => device' = NoUser
                       /\ l = "saveDevice" => token' = user'[t]
    PROVE  Inv'
  <1>1. pc'[t] = l /\ \A u \in Tasks : u # t => pc'[u] = pc[u]
    BY DEF TypeOK, Goto
  <1>2. \A u \in Tasks : (Alone(u)' <=> Alone(u)) /\ (Idle(u)' <=> Idle(u))
    BY <1>1 DEF Alone, Idle
  <1>3. \A u \in Tasks : Alone(u)' => u = t
    BY <1>2 DEF Inv, LogInv, Alone
  <1>4. LogInv'
    BY <1>1, <1>2, <1>3 DEF Inv, LogInv
  <1>5. ~Quiet'
    BY <1>1 DEF Quiet, Idle
  <1> QED
    BY <1>4, <1>5 DEF Inv, LogoutClears, LoginBinds

\* A call that starts settles nothing: one that runs beside it is overlapped.
LEMMA StartKeeps ==
    ASSUME TypeOK, Inv, NEW t \in Tasks, NEW l, Starts(t, l), l \notin {"idle", "clearTokens",
           "saveDevice"}, l = "revoke" => t \in failed'
    PROVE  Inv'
  <1>1. pc'[t] = l /\ Idle(t) /\ \A u \in Tasks : u # t => pc'[u] = pc[u]
    BY DEF TypeOK, Starts, Goto
  <1>2. \A u \in Tasks : Alone(u)' => u = t /\ \A v \in Tasks \ {t} : Idle(v)'
    BY <1>1 DEF Starts, Alone, Idle
  <1>3. LogInv'
    BY <1>1, <1>2 DEF LogInv
  <1>4. ~Quiet'
    BY <1>1 DEF Quiet, Idle
  <1> QED
    BY <1>3, <1>4 DEF Inv, LogoutClears, LoginBinds

\* The invariant of RootClient, at the start and after each step.
LEMMA LogInit == Init => Inv
  BY DEF Init, Inv, LogInv, Alone, Idle, LogoutClears, LoginBinds

LEMMA LogStep == TypeOK /\ Inv /\ [Next]_vars => Inv'
  <1> SUFFICES ASSUME TypeOK, Inv, [Next]_vars PROVE Inv'
    OBVIOUS
  <1> USE NoUserAssumption
  <1>1. ASSUME NEW t \in Tasks, Login(t) \/ Logout(t) PROVE Inv'
    <2>1. CASE Login(t)
      BY <2>1, StartKeeps DEF Login
    <2>2. CASE Logout(t)
      BY <2>2, StartKeeps DEF Logout
    <2> QED
      BY <1>1, <2>1, <2>2
  <1>2. ASSUME NEW t \in Tasks, SaveTokens(t), UNCHANGED registers PROVE Inv'
    <2>1. CASE registers /\ Goto(t, "register") /\ UNCHANGED <<overlap, settled>>
      BY <1>2, <2>1, MoveKeeps DEF SaveTokens, Idle
    <2>2. CASE ~registers /\ Ends(t, "login")
      BY <1>2, <2>2, EndsKeeps DEF SaveTokens, Idle
    <2>3. CASE Ends(t, "no")
      BY <1>2, <2>3, EndsKeeps DEF SaveTokens, Idle
    <2> QED
      BY <1>2, <2>1, <2>2, <2>3 DEF SaveTokens, TypeOK
  <1>3. ASSUME NEW t \in Tasks, Register(t), UNCHANGED registers PROVE Inv'
    <2>1. CASE Ends(t, "no")
      BY <1>3, <2>1, EndsKeeps DEF Register, Idle
    <2>2. CASE /\ user' = [user EXCEPT ![t] = token] /\ Goto(t, "saveDevice")
               /\ UNCHANGED <<overlap, settled>>
      <3>1. token' = user'[t]
        BY <1>3, <2>2 DEF Register, TypeOK
      <3> QED
        BY <1>3, <2>2, <3>1, MoveKeeps DEF Register, Idle
    <2> QED
      BY <1>3, <2>1, <2>2 DEF Register
  <1>4. ASSUME NEW t \in Tasks, SaveDevice(t), UNCHANGED registers PROVE Inv'
    <2>1. CASE device' = user[t] /\ Ends(t, "login")
      <3>1. Alone(t) => token' # NoUser /\ device' = token'
        BY <1>4, <2>1 DEF SaveDevice, Inv, LogInv, TypeOK
      <3> QED
        BY <1>4, <2>1, <3>1, EndsKeeps DEF SaveDevice, Idle
    <2>2. CASE Ends(t, "no")
      BY <1>4, <2>2, EndsKeeps DEF SaveDevice, Idle
    <2> QED
      BY <1>4, <2>1, <2>2 DEF SaveDevice
  <1>5. ASSUME NEW t \in Tasks, Report(t) \/ ClearDevice(t) PROVE Inv'
    <2>1. CASE Report(t)
      BY <2>1, MoveKeeps DEF Report, Idle
    <2>2. CASE ClearDevice(t)
      <3>1. device' = NoUser \/ t \in failed'
        BY <2>2 DEF ClearDevice
      <3> QED
        BY <2>2, <3>1, MoveKeeps DEF ClearDevice, Idle
    <2> QED
      BY <1>5, <2>1, <2>2
  <1>6. ASSUME NEW t \in Tasks, Revoke(t), UNCHANGED registers PROVE Inv'
    <2>1. CASE Goto(t, "clearTokens") /\ UNCHANGED <<user, failed, overlap, settled>>
      <3>1. Alone(t) /\ t \notin failed' => device' = NoUser
        BY <1>6, <2>1 DEF Revoke, Inv, LogInv
      <3> QED
        BY <1>6, <2>1, <3>1, MoveKeeps DEF Revoke, Idle
    <2>2. CASE Ends(t, "no")
      BY <1>6, <2>2, EndsKeeps DEF Revoke, Idle
    <2> QED
      BY <1>6, <2>1, <2>2 DEF Revoke
  <1>7. ASSUME NEW t \in Tasks, ClearTokens(t), UNCHANGED registers PROVE Inv'
    <2>1. CASE Ends(t, "no")
      BY <1>7, <2>1, EndsKeeps DEF ClearTokens, Idle
    <2>2. CASE token' = NoUser /\ Ends(t, "logout") /\ t \notin failed
      <3>1. Alone(t) => device' = NoUser
        BY <1>7, <2>2 DEF ClearTokens, Inv, LogInv
      <3> QED
        BY <1>7, <2>2, <3>1, EndsKeeps DEF ClearTokens, Idle
    <2> QED
      BY <1>7, <2>1, <2>2 DEF ClearTokens
  <1>8. ASSUME NEW t \in Tasks, Drop(t), UNCHANGED registers PROVE Inv'
    BY <1>8, EndsKeeps DEF Drop
  <1>9. CASE Crash
    BY <1>9 DEF Crash, Inv, LogInv, Alone, Idle, LogoutClears, LoginBinds
  <1>10. CASE UNCHANGED vars
    BY <1>10 DEF vars, Inv, LogInv, Alone, Idle, Quiet, LogoutClears, LoginBinds
  <1> QED
    BY <1>1, <1>2, <1>3, <1>4, <1>5, <1>6, <1>7, <1>8, <1>9, <1>10 DEF Next, Step

\* A logout that was alone and that no store failed leaves both stores empty.
THEOREM LogoutIsComplete == Spec => []LogoutClears
  <1>1. Inv => LogoutClears
    BY DEF Inv
  <1> QED
    BY TypeInit, TypeStep, LogInit, LogStep, <1>1, PTL DEF Spec

\* A successful login with a registration binds the credentials to its user.
THEOREM LoginIsBound == Spec => []LoginBinds
  <1>1. Inv => LoginBinds
    BY DEF Inv
  <1> QED
    BY TypeInit, TypeStep, LogInit, LogStep, <1>1, PTL DEF Spec

-----------------------------------------------------------------------------
(***************************************************************************)
(* Requests: of a plain input the SDKs prepare the same request.           *)
(***************************************************************************)
\* What each operation is called with
LEMMA CallInput ==
    ASSUME call \in Calls
    PROVE  /\ call.op \in {"register", "ensure"} => call.input \in Registrations
           /\ call.op = "presign" => call.input \in Batches(Uploads, PlainUpload)
           /\ call.op = "target" => call.input \in Batches(Targets, PlainTarget)
           /\ call.op = "negotiate" => call.input \in {<<i>> : i \in Negotiations}
           /\ call.op = "list" => call.input \in Filters
           /\ call.op = "sync" => call.input \in Exchanges
           /\ call.op = "build" => call.input \in Configs
           /\ call.op = "token" => call.input \in Tokens
           /\ call.op = "detect" => call.input \in Machines
           /\ call.op \in {"register", "ensure", "presign", "target", "negotiate", "list",
                           "sync", "build", "token", "detect", "profile", "logout"}
  <1> DEFINE R == Registrations
             U == Batches(Uploads, PlainUpload)
             T == Batches(Targets, PlainTarget)
             N == {<<i>> : i \in Negotiations}
  <1> HIDE DEF R, U, T, N
  <1>1. /\ call.op \in {"register", "ensure"} => call.input \in R
        /\ call.op = "presign" => call.input \in U
        /\ call.op = "target" => call.input \in T
        /\ call.op = "negotiate" => call.input \in N
        /\ call.op = "list" => call.input \in Filters
        /\ call.op = "sync" => call.input \in Exchanges
        /\ call.op = "build" => call.input \in Configs
        /\ call.op = "token" => call.input \in Tokens
        /\ call.op = "detect" => call.input \in Machines
        /\ call.op \in {"register", "ensure", "presign", "target", "negotiate", "list",
                           "sync", "build", "token", "detect", "profile", "logout"}
    <2>1. call \in
    [op : {"register", "ensure"}, input : R]
    \cup [op : {"presign"}, input : U]
    \cup [op : {"target"}, input : T]
    \cup [op : {"negotiate"}, input : N]
    \cup [op : {"list"}, input : Filters]
    \cup [op : {"sync"}, input : Exchanges]
    \cup [op : {"build"}, input : Configs]
    \cup [op : {"token"}, input : Tokens]
    \cup [op : {"detect"}, input : Machines]
    \cup [op : {"profile", "logout"}, input : {Unset}]
      BY DEF Calls, R, U, T, N
    <2> QED
      BY <2>1
  <1> QED
    BY <1>1 DEF R, U, T, N

\* The items of a batch
LEMMA Items ==
    ASSUME NEW S, NEW o \in S, NEW b \in Batches(S, o)
    PROVE  \A n \in DOMAIN b : b[n] \in S
  BY DEF Batches

\* An address without padding
Unpadded(a) == a.subject # " a" /\ a.version # " v"

\* A backup's address is valid to all or to none: padded, rust would trim it.
LEMMA SameAddress ==
    ASSUME NEW a \in Addresses \cup {NoAddress}, Unpadded(a), NEW s \in Sdks, NEW u \in Sdks
    PROVE  ValidAddress(s, a) = ValidAddress(u, a)
  <1>1. \A b \in Addresses : b.version # " a"
    BY DEF Addresses
  <1>2. NoAddress.version # " a"
    BY DEF NoAddress
  <1> QED
    BY <1>1, <1>2 DEF Unpadded, ValidAddress, Trim, Sdks

\* The request to upload, of an address and a type without padding
LEMMA SamePresign ==
    ASSUME NEW i \in Uploads, Unpadded(i.address), i.type # " ", NEW s \in Sdks, NEW u \in Sdks
    PROVE  PresignRequest(s, i) = PresignRequest(u, i)
  <1>1. i.address \in Addresses /\ i.type \in {"", "t"}
    BY DEF Uploads
  <1>2. (IF s = "go" THEN i.type # "" ELSE ~IsBlank(i.type))
         = (IF u = "go" THEN i.type # "" ELSE ~IsBlank(i.type))
    BY <1>1, UnsetAssumption DEF IsBlank, Text, OrElse, Trim, Texts
  <1>3. ValidAddress(s, i.address) = ValidAddress(u, i.address)
    BY <1>1, SameAddress
  <1> QED
    BY <1>2, <1>3 DEF PresignRequest

\* The request to confirm, download or delete, of an id other than 0
LEMMA SameTarget ==
    ASSUME NEW i \in Targets, Unpadded(i.address), i.id # 0, NEW s \in Sdks, NEW u \in Sdks
    PROVE  TargetRequest(s, i) = TargetRequest(u, i)
  <1>1. i.address \in Addresses \cup {NoAddress} /\ i.id \in {Unset, 1}
    BY DEF Targets
  <1>2. ValidAddress(s, i.address) = ValidAddress(u, i.address)
    BY <1>1, SameAddress
  <1>3. i.id # Unset => i.id > 0
    BY <1>1
  <1> QED
    BY <1>2, <1>3 DEF TargetRequest

\* The configuration built of values that no SDK has a default of its own for
LEMMA SameBuild ==
    ASSUME NEW c \in Configs, c.redirect = "a", c.skew # 0, c.api # " ", c.endpoint # " ",
           NEW s \in Sdks, NEW u \in Sdks
    PROVE  Build(s, c) = Build(u, c)
  <1> USE UnsetAssumption DEF Texts
  <1>1. /\ c.api \in {Unset, "u", "u/", "path"} /\ c.endpoint \in {Unset, "u", "path"}
        /\ c.skew \in {Unset, 2}
    BY DEF Configs
  <1>2. Redirect(s, c) = "a" /\ Redirect(u, c) = "a"
    BY DEF Redirect, Given, IsBlank, Text, OrElse, Trim
  <1>3. /\ Given(s, c.api) = (c.api # Unset)
        /\ Given(u, c.api) = (c.api # Unset)
        /\ Given(s, c.endpoint) = (c.endpoint # Unset)
        /\ Given(u, c.endpoint) = (c.endpoint # Unset)
    BY <1>1 DEF Given, IsBlank, Text, OrElse, Trim
  <1>4. Api(s, c) = Api(u, c) /\ Endpoint(s, c) = Endpoint(u, c)
    BY <1>3 DEF Api, Endpoint
  <1>5. Skew(s, c.skew) = Skew(u, c.skew)
    BY <1>1 DEF Skew
  <1> QED
    BY <1>2, <1>4, <1>5 DEF Build

\* Whether a token is refreshed, its lifetime and skew given or positive
LEMMA SameFresh ==
    ASSUME NEW t \in Tokens, t.lifetime \notin {-1, 0}, t.skew # 0,
           NEW s \in Sdks, NEW u \in Sdks
    PROVE  Fresh(s, t) = Fresh(u, t)
  <1>1. t.lifetime \in {Unset, 1, 4, 6} /\ t.skew \in {Unset, 2}
    BY DEF Tokens
  <1>2. ExpiresAt(s, t) = ExpiresAt(u, t)
    BY <1>1 DEF ExpiresAt
  <1>3. Skew(s, t.skew) = Skew(u, t.skew)
    BY <1>1, UnsetAssumption DEF Skew
  <1> QED
    BY <1>2, <1>3 DEF Fresh, ShouldRefresh

\* The metadata detected on a machine whose values none of the SDKs cleans
LEMMA SameDetect ==
    ASSUME NEW m, PlainMachine(m), NEW s \in Sdks, NEW u \in Sdks
    PROVE  Detect(s, m) = Detect(u, m)
  <1>1. OsVersion(s, m) = OsVersion(u, m)
    BY DEF PlainMachine, OsVersion
  <1> QED
    BY <1>1 DEF Detect, PlainMachine

\* The request to register
LEMMA SameRegistration ==
    ASSUME NEW i \in Registrations, PlainRegistration(i), NEW s \in Sdks, NEW u \in Sdks
    PROVE  RegistrationRequest(s, i) = RegistrationRequest(u, i)
  <1>1. TokenParses(s, i) = TokenParses(u, i)
    BY DEF PlainRegistration, TokenParses
  <1>2. SigningSecret(s, i) = SigningSecret(u, i)
    <2>1. i.token \in Whole \cup {NoToken}
      BY DEF Registrations
    <2>2. CASE i.token = NoToken
      BY <2>2 DEF SigningSecret, NoToken
    <2>3. CASE i.token # NoToken
      <3>1. i.token.secret # Unset
        BY <2>1, <2>3, SecretAssumption DEF Whole
      <3> QED
        BY <2>3, <3>1 DEF SigningSecret, PlainRegistration
    <2> QED
      BY <2>2, <2>3
  <1>3. DeviceAccepted(s, i) = DeviceAccepted(u, i)
    BY DEF PlainRegistration, DeviceAccepted
  <1> QED
    BY <1>1, <1>2, <1>3 DEF RegistrationRequest, Resolves

-----------------------------------------------------------------------------
\* The request that any call makes: each operation by the lemma about it
LEMMA SamePrepared ==
    ASSUME call \in Calls, PlainInput, NEW s \in Sdks, NEW u \in Sdks
    PROVE  Prepared(s) = Prepared(u)
  <1> DEFINE i == call.input
  <1>1. CASE Registers
    <2>1. i \in Registrations /\ PlainRegistration(i)
      BY <1>1, CallInput DEF Registers, PlainInput
    <2>2. RegistrationRequest(s, i) = RegistrationRequest(u, i)
      BY <2>1, SameRegistration
    <2> QED
      BY <1>1, <2>2 DEF Prepared, Registers
  <1>2. CASE call.op = "presign"
    <2>1. \A n \in DOMAIN i : i[n] \in Uploads
      <3>1. PlainUpload \in Uploads
        BY DEF PlainUpload, PlainAddress, Uploads, Addresses, Categories, Hashes
      <3> QED
        BY <1>2, <3>1, CallInput, Items
    <2>2. \A n \in DOMAIN i : Unpadded(i[n].address) /\ i[n].type # " "
      BY <1>2 DEF PlainInput, Registers, Unpadded
    <2>3. \A n \in DOMAIN i : PresignRequest(s, i[n]) = PresignRequest(u, i[n])
      BY <2>1, <2>2, SamePresign
    <2>4. [n \in DOMAIN i |-> PresignRequest(s, i[n])]
             = [n \in DOMAIN i |-> PresignRequest(u, i[n])]
      BY <2>3
    <2> QED
      BY <1>2, <2>4 DEF Prepared, Registers
  <1>3. CASE call.op = "target"
    <2>1. \A n \in DOMAIN i : i[n] \in Targets
      <3>1. PlainTarget \in Targets
        BY DEF PlainTarget, PlainAddress, Targets, Addresses, Categories
      <3> QED
        BY <1>3, <3>1, CallInput, Items
    <2>2. \A n \in DOMAIN i : Unpadded(i[n].address) /\ i[n].id # 0
      BY <1>3 DEF PlainInput, Registers, Unpadded
    <2>3. \A n \in DOMAIN i : TargetRequest(s, i[n]) = TargetRequest(u, i[n])
      BY <2>1, <2>2, SameTarget
    <2>4. [n \in DOMAIN i |-> TargetRequest(s, i[n])] = [n \in DOMAIN i |-> TargetRequest(u, i[n])]
      BY <2>3
    <2> QED
      BY <1>3, <2>4 DEF Prepared, Registers
  <1>4. CASE call.op = "negotiate"
    BY <1>4 DEF Prepared, Registers, NegotiateRequest
  <1>5. CASE call.op = "list"
    <2>1. i.subject \in {Unset, "", "a"}
      BY <1>5, CallInput DEF PlainInput, Registers, Filters
    <2>2. Text(i.subject) = OrElse(i.subject, "")
      BY <2>1 DEF Text, OrElse, Trim
    <2> QED
      BY <1>5, <2>2 DEF Prepared, Registers, ListRequest
  <1>6. CASE call.op = "sync"
    BY <1>6 DEF Prepared, PlainInput, Registers, SyncRequest
  <1>7. CASE call.op = "build"
    <2>1. i \in Configs /\ i.redirect = "a" /\ i.skew # 0 /\ i.api # " " /\ i.endpoint # " "
      BY <1>7, CallInput DEF PlainInput, Registers
    <2> QED
      BY <1>7, <2>1, SameBuild DEF Prepared, Registers
  <1>8. CASE call.op = "token"
    <2>1. i \in Tokens /\ i.lifetime \notin {-1, 0} /\ i.skew # 0
      BY <1>8, CallInput DEF PlainInput, Registers
    <2> QED
      BY <1>8, <2>1, SameFresh DEF Prepared, Registers
  <1>9. CASE call.op = "detect"
    <2>1. PlainMachine(i)
      BY <1>9 DEF PlainInput, Registers
    <2> QED
      BY <1>9, <2>1, SameDetect DEF Prepared, Registers
  <1>10. CASE call.op \in {"profile", "logout"}
    BY <1>10 DEF Prepared, Registers
  <1> QED
    BY <1>1, <1>2, <1>3, <1>4, <1>5, <1>6, <1>7, <1>8, <1>9, <1>10, CallInput DEF Registers

-----------------------------------------------------------------------------
(***************************************************************************)
(* Requests: the course of a call.                                         *)
(***************************************************************************)
\* What an SDK does with nothing but d in its device store
Has(d) == d \in {"old", "new"}
Signs(s, d) == Has(d) \/ (s = "rust" /\ d = "partial")
Skips(d) == \/ call.op = "ensure" /\ Has(d)
            \/ call.op = "logout" /\ ~Has(d)
            \/ call.op \in Local
Sends(s, d) == /\ ~Skips(d) /\ request[s] # Refused
               /\ call.op \in Protected => Signs(s, d)

\* What a call that ends with r leaves where d was
Left(d, r) == IF call.op = "logout" THEN Unset
              ELSE IF Registers /\ r = Ok THEN call.input.reply ELSE d

Reading(s) == Understood(s, first)
Untouched(s) == result[s] = Ok /\ refreshed[s] = "no"
Retries(s) == result[s] = Reading(s) /\ IsInvalidToken(s, Reading(s))

\* How the answers of the server made result[s]
Resulted(s) ==
    \/ /\ refreshed[s] = "no" /\ ~IsInvalidToken(s, Reading(s))
       /\ result[s] = Reading(s)
    \/ /\ refreshed[s] = "failed" /\ IsInvalidToken(s, Reading(s))
       /\ result[s] = IF s = "go" THEN Reading(s) ELSE RefreshError
    \/ /\ refreshed[s] = "ok" /\ IsInvalidToken(s, Reading(s))
       /\ result[s] = Understood(s, answer) /\ answer \in SecondAnswers

\* Where the call of s can be that found d in the store
Course(s, d) ==
    \/ stage[s] = "begin" /\ Untouched(s) /\ dstore[s] = d
    \/ /\ stage[s] = "done" /\ Skips(d) /\ Untouched(s)
       /\ dstore[s] = IF call.op = "logout" THEN Unset ELSE d
    \/ stage[s] = "refused" /\ ~Skips(d) /\ ~Sends(s, d) /\ Untouched(s) /\ dstore[s] = d
    \/ stage[s] = "sent" /\ Sends(s, d) /\ Untouched(s) /\ dstore[s] = d
    \/ stage[s] = "refresh" /\ Sends(s, d) /\ Retries(s) /\ refreshed[s] = "no" /\ dstore[s] = d
    \/ /\ stage[s] = "resent" /\ Sends(s, d) /\ Retries(s) /\ refreshed[s] = "ok" /\ dstore[s] = d
       /\ answer \in SecondAnswers
    \/ stage[s] = "done" /\ Sends(s, d) /\ Resulted(s) /\ dstore[s] = Left(d, result[s])

\* The request is made once, from the arguments.
Sending == \/ \A s \in Sdks : stage[s] = "begin" /\ request[s] = Refused
           \/ \A s \in Sdks : stage[s] # "begin" /\ request[s] = Prepared(s)

\* The SDKs get each answer together, and the first one is the last unless one of
\* them refreshed its token.
Phases ==
    /\ \A s, u \in Sdks : refreshed[s] # "no" =>
          /\ stage[u] \notin {"begin", "sent", "refresh"}
          /\ refreshed[u] \in {"no", refreshed[s]}
    /\ \A s, u \in Sdks : stage[s] = "refresh" => stage[u] # "sent"
    /\ (\A s \in Sdks : refreshed[s] # "ok") => answer = first

RequestInv ==
    /\ call \in Calls /\ first \in FirstAnswers
    /\ Sending /\ Phases
    /\ \E d \in Devices \cup {Unset} : \A s \in Sdks : Course(s, d)

\* The invariant at the start, and kept by each of the five steps.
LEMMA RequestInit == CallInit => RequestInv
  <1> SUFFICES ASSUME CallInit PROVE RequestInv
    OBVIOUS
  <1>1. call \in Calls /\ first \in FirstAnswers /\ Sending /\ Phases
    BY DEF CallInit, Sending, Phases
  <1>2. PICK d \in Devices \cup {Unset} : dstore = [s \in Sdks |-> d]
    BY DEF CallInit
  <1>3. \A s \in Sdks : Course(s, d)
    BY <1>2 DEF CallInit, Course, Untouched
  <1> QED
    BY <1>1, <1>3 DEF RequestInv

\* Prepare: each SDK finds the same d, and skips, refuses or sends.
LEMMA PrepareKeeps == RequestInv /\ Prepare => RequestInv'
  <1> SUFFICES ASSUME RequestInv, Prepare PROVE RequestInv'
    OBVIOUS
  <1>1. PICK d \in Devices \cup {Unset} : \A s \in Sdks : Course(s, d)
    BY DEF RequestInv
  <1>2. \A s \in Sdks : stage[s] = "begin" /\ Untouched(s) /\ dstore[s] = d
    BY <1>1 DEF Course, Prepare
  <1>3. \A s \in Sdks : NothingToSend(s) = Skips(d) /\ CanSign(s) = Signs(s, d)
    BY <1>2 DEF NothingToSend, CanSign, Complete, Skips, Signs, Has
  <1>4. UNCHANGED <<call, first, answer, result, refreshed>> /\ Registers' = Registers
    BY DEF Prepare, Registers
  <1>5. \A s \in Sdks :
           /\ request'[s] = Prepared(s)
           /\ stage'[s] = IF Skips(d) THEN "done"
                          ELSE IF request'[s] = Refused \/ (call.op \in Protected /\ ~Signs(s, d))
                          THEN "refused" ELSE "sent"
    BY <1>3 DEF Prepare
  <1>6. \A s \in Sdks :
           dstore'[s] = IF call.op = "logout" /\ stage'[s] = "done" THEN Unset ELSE d
    BY <1>2 DEF Prepare, Settle
  <1>7. \A s \in Sdks : Prepared(s)' = Prepared(s)
    BY <1>4 DEF Prepared
  <1>8. Sending'
    BY <1>5, <1>7 DEF Sending
  <1>9. Phases'
    BY <1>2, <1>4, <1>5 DEF RequestInv, Phases, Untouched
  <1>10. \A s \in Sdks : Course(s, d)'
    <2>1. SUFFICES ASSUME NEW s \in Sdks PROVE Course(s, d)'
      OBVIOUS
    <2>2. Untouched(s)' /\ Skips(d)' = Skips(d)
      BY <1>2, <1>4 DEF Untouched, Skips
    <2>3. Sends(s, d)' = (~Skips(d) /\ request'[s] # Refused
                            /\ (call.op \in Protected => Signs(s, d)))
      BY <1>4, <2>2 DEF Sends
    <2> QED
      BY <1>4, <1>5, <1>6, <2>2, <2>3 DEF Course
  <1> QED
    BY <1>4, <1>8, <1>9, <1>10 DEF RequestInv, FirstAnswers

\* After Prepare the call, the request and the first answer stay.
LEMMA Unmoved ==
    ASSUME UNCHANGED <<call, request, first>>
    PROVE  /\ Registers' = Registers /\ FirstAnswers' = FirstAnswers
           /\ SecondAnswers' = SecondAnswers
           /\ \A s : Understood(s, first)' = Understood(s, first)
           /\ \A d : Skips(d)' = Skips(d)
           /\ \A d, s : Sends(s, d)' = Sends(s, d)
  <1>1. Registers' = Registers
    BY DEF Registers
  <1>2. \A s, a : Understood(s, a)' = Understood(s, a')
    BY <1>1 DEF Understood, Usable
  <1> QED
    BY <1>1, <1>2 DEF FirstAnswers, SecondAnswers, Skips, Sends

\* The first answer comes to all that have sent, before any of them refreshes.
LEMMA FirstKeeps == RequestInv /\ First => RequestInv'
  <1> SUFFICES ASSUME RequestInv, First PROVE RequestInv'
    OBVIOUS
  <1>1. UNCHANGED <<call, request, first, answer, refreshed>>
    BY DEF First
  <1>2. PICK t \in Sdks : stage[t] = "sent"
    BY DEF First, At
  <1>3. answer = first /\ \A s \in Sdks : refreshed[s] = "no"
    BY <1>2 DEF RequestInv, Phases
  <1>4. \A s \in Sdks :
           /\ stage[s] = "sent" => /\ result'[s] = Reading(s)
                                   /\ stage'[s] = IF IsInvalidToken(s, Reading(s)) THEN "refresh"
                                                  ELSE "done"
           /\ stage[s] # "sent" => stage'[s] = stage[s] /\ result'[s] = result[s]
    BY <1>3 DEF First, At, Reading
  <1>5. \A s \in Sdks :
           dstore'[s] = IF call.op = "logout" /\ stage'[s] = "done" THEN Unset
                        ELSE IF /\ Registers /\ stage[s] \in {"sent", "resent"}
                                /\ stage'[s] = "done" /\ result'[s] = Ok
                        THEN call.input.reply
                        ELSE dstore[s]
    BY DEF First, Settle
  <1>6. Sending'
    <2>1. \A s \in Sdks : Prepared(s)' = Prepared(s)
      BY <1>1 DEF Prepared, Registers
    <2>2. \A s \in Sdks : stage[s] # "begin" /\ request[s] = Prepared(s)
      BY <1>2 DEF RequestInv, Sending
    <2> QED
      BY <1>1, <1>4, <2>1, <2>2 DEF Sending
  <1>7. Phases'
    BY <1>1, <1>3, <1>4 DEF Phases
  <1>8. PICK d \in Devices \cup {Unset} : \A s \in Sdks : Course(s, d)
    BY DEF RequestInv
  <1>9. \A s \in Sdks : Course(s, d)'
    <2>1. SUFFICES ASSUME NEW s \in Sdks PROVE Course(s, d)'
      OBVIOUS
    <2>2. Course(s, d)
      BY <1>8
    <2>3. Skips(d)' = Skips(d) /\ Sends(s, d)' = Sends(s, d) /\ Reading(s)' = Reading(s)
      BY <1>1, Unmoved DEF Reading
    <2>4. CASE stage[s] = "sent"
      <3>1. Sends(s, d) /\ dstore[s] = d
        BY <2>2, <2>4 DEF Course
      <3>2. CASE IsInvalidToken(s, Reading(s))
        <4>1. stage'[s] = "refresh" /\ dstore'[s] = d /\ Retries(s)'
          BY <1>4, <1>5, <2>3, <2>4, <3>1, <3>2 DEF Retries
        <4> QED
          BY <1>1, <1>3, <2>3, <3>1, <4>1 DEF Course
      <3>3. CASE ~IsInvalidToken(s, Reading(s))
        <4>1. stage'[s] = "done" /\ Resulted(s)'
          BY <1>1, <1>3, <1>4, <2>3, <2>4, <3>3 DEF Resulted
        <4>2. dstore'[s] = Left(d, result[s])'
          BY <1>1, <1>5, <2>4, <3>1, <4>1, Unmoved DEF Left
        <4> QED
          BY <2>3, <3>1, <4>1, <4>2 DEF Course
      <3> QED
        BY <3>2, <3>3
    <2>5. CASE stage[s] # "sent"
      <3>1. stage'[s] = stage[s] /\ result'[s] = result[s] /\ stage[s] \notin {"resent", "sent"}
        BY <1>3, <1>4, <2>2, <2>5 DEF Course
      <3>2. dstore'[s] = dstore[s]
        BY <1>5, <2>2, <3>1 DEF Course, Left
      <3>3. /\ Untouched(s)' = Untouched(s) /\ Retries(s)' = Retries(s)
            /\ Left(d, result[s])' = Left(d, result[s])
        BY <1>1, <2>3, <3>1, Unmoved DEF Untouched, Retries, Left
      <3>4. Resulted(s) => Resulted(s)'
        BY <1>1, <1>3, <2>3, <3>1 DEF Resulted
      <3> QED
        BY <1>1, <2>2, <2>3, <3>1, <3>2, <3>3, <3>4 DEF Course
    <2> QED
      BY <2>4, <2>5
  <1> QED
    BY <1>1, <1>6, <1>7, <1>9, Unmoved DEF RequestInv

\* A step that sends nothing anew keeps what is sent.
LEMMA SentOnce ==
    ASSUME RequestInv, UNCHANGED <<call, request>>, NEW t \in Sdks, stage[t] # "begin",
           \A s \in Sdks : stage'[s] = "begin" => stage[s] = "begin"
    PROVE  Sending'
  <1>1. \A s \in Sdks : Prepared(s)' = Prepared(s)
    BY DEF Prepared, Registers
  <1> QED
    BY <1>1 DEF RequestInv, Sending

\* A refresh is of all whose answer called their token invalid.
LEMMA RefreshKeeps == RequestInv /\ Refresh => RequestInv'
  <1> SUFFICES ASSUME RequestInv, Refresh PROVE RequestInv'
    OBVIOUS
  <1>1. UNCHANGED <<call, request, first, result, dstore>> /\ answer' \in SecondAnswers
    BY DEF Refresh
  <1>2. PICK t \in Sdks : stage[t] = "refresh"
    BY DEF Refresh, At
  <1>3. answer = first /\ \A s \in Sdks : refreshed[s] = "no"
    BY <1>2 DEF RequestInv, Phases
  <1>4. \A s \in Sdks :
           IF stage[s] = "refresh" THEN stage'[s] = "resent" /\ refreshed'[s] = "ok"
           ELSE stage'[s] = stage[s] /\ refreshed'[s] = "no"
    BY DEF Refresh
  <1>5. Sending'
    BY <1>1, <1>2, <1>4, SentOnce
  <1>6. PICK d \in Devices \cup {Unset} : \A s \in Sdks : Course(s, d)
    BY DEF RequestInv
  <1>7. Phases'
    <2>1. \A s \in Sdks : stage[s] \notin {"begin", "sent"}
      <3>1. \A s \in Sdks : stage[s] # "begin"
        BY <1>2 DEF RequestInv, Sending
      <3>2. \A s \in Sdks : stage[s] # "sent"
        BY <1>2 DEF RequestInv, Phases
      <3> QED
        BY <3>1, <3>2
    <2> QED
      BY <1>2, <1>4, <2>1 DEF Phases
  <1>8. \A s \in Sdks : Course(s, d)'
    <2>1. SUFFICES ASSUME NEW s \in Sdks PROVE Course(s, d)'
      OBVIOUS
    <2>2. Course(s, d)
      BY <1>6
    <2>3. /\ Skips(d)' = Skips(d) /\ Sends(s, d)' = Sends(s, d) /\ Reading(s)' = Reading(s)
          /\ SecondAnswers' = SecondAnswers
      BY <1>1, Unmoved DEF Reading
    <2>4. CASE stage[s] = "refresh"
      <3>1. Sends(s, d) /\ Retries(s) /\ dstore[s] = d
        BY <2>2, <2>4 DEF Course
      <3>2. Retries(s)'
        BY <1>1, <2>3, <3>1 DEF Retries
      <3> QED
        BY <1>1, <1>4, <2>3, <2>4, <3>1, <3>2 DEF Course
    <2>5. CASE stage[s] # "refresh"
      <3>1. stage'[s] = stage[s] /\ refreshed'[s] = refreshed[s] /\ refreshed[s] = "no"
        BY <1>3, <1>4, <2>5
      <3>2. /\ Untouched(s)' = Untouched(s) /\ Left(d, result[s])' = Left(d, result[s])
        BY <1>1, <3>1, Unmoved DEF Untouched, Left
      <3>3. Resulted(s) => Resulted(s)'
        BY <1>1, <2>3, <3>1 DEF Resulted
      <3> QED
        BY <1>1, <2>2, <2>3, <2>5, <3>1, <3>2, <3>3 DEF Course
    <2> QED
      BY <2>4, <2>5
  <1> QED
    BY <1>1, <1>5, <1>7, <1>8, Unmoved DEF RequestInv

\* One that fails ends their calls, with an error of their own.
LEMMA RefreshFailsKeeps == RequestInv /\ RefreshFails => RequestInv'
  <1> SUFFICES ASSUME RequestInv, RefreshFails PROVE RequestInv'
    OBVIOUS
  <1>1. UNCHANGED <<call, request, first, answer>>
    BY DEF RefreshFails
  <1>2. PICK t \in Sdks : stage[t] = "refresh"
    BY DEF RefreshFails, At
  <1>3. answer = first /\ \A s \in Sdks : refreshed[s] = "no"
    BY <1>2 DEF RequestInv, Phases
  <1>4. \A s \in Sdks :
           IF stage[s] = "refresh"
           THEN /\ stage'[s] = "done" /\ refreshed'[s] = "failed"
                /\ result'[s] = IF s = "go" THEN result[s] ELSE RefreshError
           ELSE /\ stage'[s] = stage[s] /\ refreshed'[s] = "no" /\ result'[s] = result[s]
    BY DEF RefreshFails
  <1>5. \A s \in Sdks :
           dstore'[s] = IF call.op = "logout" /\ stage'[s] = "done" THEN Unset
                        ELSE IF /\ Registers /\ stage[s] \in {"sent", "resent"}
                                /\ stage'[s] = "done" /\ result'[s] = Ok
                        THEN call.input.reply
                        ELSE dstore[s]
    BY DEF RefreshFails, Settle
  <1>6. Sending'
    BY <1>1, <1>2, <1>4, SentOnce
  <1>7. Phases'
    <2>1. \A s \in Sdks : stage[s] \notin {"begin", "sent"}
      <3>1. \A s \in Sdks : stage[s] # "begin"
        BY <1>2 DEF RequestInv, Sending
      <3>2. \A s \in Sdks : stage[s] # "sent"
        BY <1>2 DEF RequestInv, Phases
      <3> QED
        BY <3>1, <3>2
    <2> QED
      BY <1>1, <1>3, <1>4, <2>1 DEF Phases
  <1>8. PICK d \in Devices \cup {Unset} : \A s \in Sdks : Course(s, d)
    BY DEF RequestInv
  <1>9. \A s \in Sdks : Course(s, d)'
    <2>1. SUFFICES ASSUME NEW s \in Sdks PROVE Course(s, d)'
      OBVIOUS
    <2>2. Course(s, d)
      BY <1>8
    <2>3. Skips(d)' = Skips(d) /\ Sends(s, d)' = Sends(s, d) /\ Reading(s)' = Reading(s)
      BY <1>1, Unmoved DEF Reading
    <2>4. CASE stage[s] = "refresh"
      <3>1. Sends(s, d) /\ Retries(s) /\ dstore[s] = d
        BY <2>2, <2>4 DEF Course
      <3>2. Resulted(s)'
        BY <1>4, <2>3, <2>4, <3>1 DEF Resulted, Retries
      <3>3. result'[s] # Ok
        BY <1>4, <2>4, <3>1 DEF Retries, IsInvalidToken, Ok, RefreshError
      <3>4. dstore'[s] = Left(d, result[s])'
        BY <1>1, <1>4, <1>5, <2>4, <3>1, <3>3, Unmoved DEF Left
      <3> QED
        BY <1>4, <2>3, <2>4, <3>1, <3>2, <3>4 DEF Course
    <2>5. CASE stage[s] # "refresh"
      <3>1. /\ stage'[s] = stage[s] /\ result'[s] = result[s] /\ stage[s] # "resent"
            /\ refreshed'[s] = "no" /\ refreshed[s] = "no"
        BY <1>3, <1>4, <2>2, <2>5 DEF Course
      <3>2. dstore'[s] = dstore[s]
        BY <1>5, <2>2, <3>1 DEF Course, Left
      <3>3. /\ Untouched(s)' = Untouched(s) /\ Left(d, result[s])' = Left(d, result[s])
        BY <1>1, <3>1, Unmoved DEF Untouched, Left
      <3>4. Resulted(s) => Resulted(s)'
        BY <2>3, <3>1 DEF Resulted
      <3> QED
        BY <1>1, <2>2, <2>3, <2>5, <3>1, <3>2, <3>3, <3>4 DEF Course
    <2> QED
      BY <2>4, <2>5
  <1> QED
    BY <1>1, <1>6, <1>7, <1>9, Unmoved DEF RequestInv

\* The second answer comes to those that refreshed, and the others have ended.
LEMMA SecondKeeps == RequestInv /\ Second => RequestInv'
  <1> SUFFICES ASSUME RequestInv, Second PROVE RequestInv'
    OBVIOUS
  <1>1. UNCHANGED <<call, request, first, answer, refreshed>>
    BY DEF Second
  <1>2. PICK t \in Sdks : stage[t] = "resent"
    BY DEF Second, At
  <1>3. PICK d \in Devices \cup {Unset} : \A s \in Sdks : Course(s, d)
    BY DEF RequestInv
  <1>4. \A s \in Sdks : stage[s] \notin {"begin", "sent", "refresh"}
    <2>1. refreshed[t] = "ok"
      BY <1>2, <1>3 DEF Course
    <2> QED
      BY <2>1 DEF RequestInv, Phases
  <1>5. \A s \in Sdks :
           IF stage[s] = "resent"
           THEN stage'[s] = "done" /\ result'[s] = Understood(s, answer)
           ELSE stage'[s] = stage[s] /\ result'[s] = result[s]
    BY DEF Second
  <1>6. \A s \in Sdks :
           dstore'[s] = IF call.op = "logout" /\ stage'[s] = "done" THEN Unset
                        ELSE IF /\ Registers /\ stage[s] \in {"sent", "resent"}
                                /\ stage'[s] = "done" /\ result'[s] = Ok
                        THEN call.input.reply
                        ELSE dstore[s]
    BY DEF Second, Settle
  <1>7. Sending'
    BY <1>1, <1>2, <1>5, SentOnce
  <1>8. Phases'
    BY <1>1, <1>4, <1>5 DEF RequestInv, Phases
  <1>9. \A s \in Sdks : Course(s, d)'
    <2>1. SUFFICES ASSUME NEW s \in Sdks PROVE Course(s, d)'
      OBVIOUS
    <2>2. Course(s, d)
      BY <1>3
    <2>3. /\ Skips(d)' = Skips(d) /\ Sends(s, d)' = Sends(s, d) /\ Reading(s)' = Reading(s)
          /\ SecondAnswers' = SecondAnswers
          /\ Understood(s, answer)' = Understood(s, answer)
      BY <1>1, Unmoved DEF Reading, Understood, Usable
    <2>4. CASE stage[s] = "resent"
      <3>1. /\ Sends(s, d) /\ Retries(s) /\ dstore[s] = d
            /\ refreshed[s] = "ok" /\ answer \in SecondAnswers
        BY <2>2, <2>4 DEF Course
      <3>2. Resulted(s)'
        BY <1>1, <1>5, <2>3, <2>4, <3>1 DEF Resulted, Retries
      <3>3. dstore'[s] = Left(d, result[s])'
        BY <1>1, <1>5, <1>6, <2>4, <3>1, Unmoved DEF Left
      <3> QED
        BY <1>5, <2>3, <2>4, <3>1, <3>2, <3>3 DEF Course
    <2>5. CASE stage[s] # "resent"
      <3>1. stage'[s] = stage[s] /\ result'[s] = result[s] /\ stage[s] \in {"done", "refused"}
        BY <1>4, <1>5, <2>2, <2>5 DEF Course
      <3>2. dstore'[s] = dstore[s]
        BY <1>6, <2>2, <3>1 DEF Course, Left
      <3>3. /\ Untouched(s)' = Untouched(s) /\ Left(d, result[s])' = Left(d, result[s])
        BY <1>1, <3>1, Unmoved DEF Untouched, Left
      <3>4. Resulted(s) => Resulted(s)'
        BY <1>1, <2>3, <3>1 DEF Resulted
      <3> QED
        BY <1>1, <2>2, <2>3, <2>5, <3>1, <3>2, <3>3, <3>4 DEF Course
    <2> QED
      BY <2>4, <2>5
  <1> QED
    BY <1>1, <1>7, <1>8, <1>9, Unmoved DEF RequestInv

\* Every step, and a stutter.
LEMMA RequestStep == RequestInv /\ [CallNext]_callVars => RequestInv'
  <1>1. RequestInv /\ UNCHANGED callVars => RequestInv'
    <2> SUFFICES ASSUME RequestInv, UNCHANGED callVars PROVE RequestInv'
      OBVIOUS
    <2>1. UNCHANGED <<call, stage, request, first, answer, result, refreshed, dstore>>
      BY DEF callVars
    <2>2. Sending' /\ Phases'
      BY <2>1 DEF RequestInv, Sending, Phases, Prepared, Registers
    <2>3. \A s, d : Course(s, d)' = Course(s, d)
      <3>1. \A s : Reading(s)' = Reading(s) /\ Understood(s, answer)' = Understood(s, answer)
        BY <2>1, Unmoved DEF Reading, Understood, Usable
      <3>2. \A s : /\ Resulted(s)' = Resulted(s) /\ Retries(s)' = Retries(s)
                   /\ Untouched(s)' = Untouched(s)
        BY <2>1, <3>1, Unmoved DEF Resulted, Retries, Untouched
      <3>3. \A s, d : Left(d, result[s])' = Left(d, result[s])
        BY <2>1, Unmoved DEF Left
      <3> QED
        BY <2>1, <3>2, <3>3, Unmoved DEF Course
    <2> QED
      BY <2>1, <2>2, <2>3, Unmoved DEF RequestInv
  <1> QED
    BY <1>1, PrepareKeeps, FirstKeeps, RefreshKeeps, RefreshFailsKeeps, SecondKeeps DEF CallNext

LEMMA RequestInvariance == CallSpec => []RequestInv
  BY RequestInit, RequestStep, PTL DEF CallSpec

-----------------------------------------------------------------------------
(***************************************************************************)
(* Requests: SameRequest, UploadIsAddressable, ExpiredIsRefreshed.         *)
(***************************************************************************)
\* What is sent is what was prepared.
LEMMA RequestMade ==
    ASSUME RequestInv, NEW s \in Sdks
    PROVE  request[s] \in {Refused, Prepared(s)}
  BY DEF RequestInv, Sending

\* Of a plain input the SDKs make one request.
THEOREM RequestIsSame == CallSpec => []SameRequest
  <1>1. RequestInv => SameRequest
    BY SamePrepared DEF RequestInv, Sending, SameRequest
  <1> QED
    BY RequestInvariance, <1>1, PTL

\* The address of an accepted upload, of any of a batch, is one to confirm, download
\* and delete by.
LEMMA AddressOfUpload ==
    ASSUME NEW i, NEW s \in Sdks, NEW u \in Sdks, PresignRequest(s, i) # Refused
    PROVE  LET again == TargetRequest(u, [id |-> Unset, address |-> i.address])
           IN  again = [at |-> PresignRequest(s, i).at] \/ (again = Refused /\ u # s)
  <1>1. ValidAddress(s, i.address) /\ PresignRequest(s, i).at = Place(i.address)
    BY DEF PresignRequest
  <1>2. TargetRequest(u, [id |-> Unset, address |-> i.address])
          = IF ValidAddress(u, i.address) THEN [at |-> Place(i.address)] ELSE Refused
    BY DEF TargetRequest
  <1> QED
    BY <1>1, <1>2

\* The address of an accepted upload confirms, downloads and deletes that upload, in
\* each SDK that takes it at all.
THEOREM UploadIsFound == CallSpec => []UploadIsAddressable
  <1>1. ASSUME RequestInv PROVE UploadIsAddressable
    <2>1. SUFFICES ASSUME call.op = "presign", NEW s \in Sdks, NEW u \in Sdks, request[s] # Refused,
                          NEW n \in DOMAIN call.input
                   PROVE  LET again == TargetRequest(u, [id |-> Unset,
                                                         address |-> call.input[n].address])
                          IN  again = [at |-> request[s].items[n].at] \/ (again = Refused /\ u # s)
      BY DEF UploadIsAddressable
    <2> DEFINE made == [m \in DOMAIN call.input |-> PresignRequest(s, call.input[m])]
    <2>2. request[s] = Batch(made)
      BY <1>1, <2>1, RequestMade DEF Prepared, Registers
    <2>3. request[s] = [items |-> made] /\ made[n] # Refused
      BY <2>1, <2>2 DEF Batch
    <2>4. request[s].items[n] = PresignRequest(s, call.input[n])
      BY <2>3
    <2> QED
      BY <2>3, <2>4, AddressOfUpload
  <1> QED
    BY RequestInvariance, <1>1, PTL

\* A token past its lifetime is refreshed first, if it can be.
THEOREM ExpiredIsNotSent == CallSpec => []ExpiredIsRefreshed
  <1>1. ASSUME RequestInv PROVE ExpiredIsRefreshed
    <2> DEFINE t == call.input
    <2>1. SUFFICES ASSUME call.op = "token", NEW s \in Sdks, request[s] # Refused,
                          t.refreshable, t.lifetime # Unset, t.lifetime > 0 \/ s = "rust",
                          t.age >= t.lifetime
                   PROVE  request[s].refresh
      BY DEF ExpiredIsRefreshed
    <2>2. t \in Tokens
      BY <1>1, <2>1, CallInput DEF RequestInv
    <2>3. /\ t.lifetime \in Int /\ t.age \in Int /\ t.skew \in {Unset, 0, 2}
      BY <2>1, <2>2 DEF Tokens
    <2>4. ExpiresAt(s, t) = t.lifetime
      BY <2>1, <2>3 DEF ExpiresAt
    <2>5. Skew(s, t.skew) \in Int /\ Skew(s, t.skew) >= 0
      BY <2>3 DEF Skew, DefaultSkew
    <2>6. ShouldRefresh(s, t)
      BY <2>1, <2>3, <2>4, <2>5 DEF ShouldRefresh
    <2>7. request[s] = Fresh(s, t)
      BY <1>1, <2>1, RequestMade DEF Prepared, Registers
    <2>8. (ShouldRefresh(s, t) /\ t.refreshable) = TRUE
      BY <2>1, <2>6
    <2>9. request[s] = [refresh |-> TRUE]
      BY <2>7, <2>8 DEF Fresh
    <2> QED
      BY <2>9
  <1> QED
    BY RequestInvariance, <1>1, PTL

-----------------------------------------------------------------------------
(***************************************************************************)
(* Registrations: GenuineIsStored, EndsUsable.                             *)
(***************************************************************************)
\* The request of a genuine registration is made, and verified.
LEMMA GenuineVerifies ==
    ASSUME NEW i \in Registrations, PlainRegistration(i), Genuine(i), NEW s \in Sdks
    PROVE  /\ RegistrationRequest(s, i) # Refused
           /\ Verifies(RegistrationRequest(s, i))
  <1>1. /\ i.id \in Ids \cup {Unset} /\ i.secret \in Secrets \cup {Unset}
        /\ i.token \in Whole \cup {NoToken} /\ i.text \in {"absent", "blank", "malformed", "token"}
        /\ i.text = "token" <=> i.token # NoToken
    BY DEF Registrations
  <1>2. TokenParses(s, i) /\ DeviceAccepted(s, i) /\ IdAgrees(i) /\ NamedId(i) # Unset
    BY <1>1 DEF TokenParses, DeviceAccepted, PlainRegistration, Genuine
  <1>3. i.token # NoToken =>
           i.token.id \in Ids /\ i.token.secret \in Secrets /\ i.token.secret # Unset
    BY <1>1, SecretAssumption DEF Whole
  <1>4. i.token = NoToken => i.token.id = Unset /\ i.token.secret = Unset
    BY DEF NoToken
  <1>5. NamedId(i) \in Ids
    BY <1>1, <1>2, <1>3, <1>4 DEF NamedId
  <1>6. Secret[NamedId(i)] # Unset
    BY <1>5, SecretAssumption
  <1>7. SigningSecret(s, i) = Secret[NamedId(i)]
    BY <1>6 DEF SigningSecret, Genuine
  <1>8. RegistrationRequest(s, i) = [id |-> i.id, token |-> i.token, signed |-> Secret[NamedId(i)]]
    BY <1>2, <1>6, <1>7 DEF RegistrationRequest, Resolves
  <1>9. RegistrationRequest(s, i) # Refused
    BY <1>8 DEF Refused
  <1>10. i.token # NoToken => i.token = [id |-> NamedId(i), secret |-> Secret[NamedId(i)]]
    <2>1. SUFFICES ASSUME i.token # NoToken
                   PROVE  i.token = [id |-> NamedId(i), secret |-> Secret[NamedId(i)]]
      OBVIOUS
    <2>2. i.token.secret = Secret[NamedId(i)]
      BY <1>3, <2>1 DEF Genuine
    <2>3. i.token.id = NamedId(i)
      BY <1>2, <2>1 DEF IdAgrees, NamedId
    <2> QED
      BY <1>1, <2>1, <2>2, <2>3 DEF Whole
  <1>11. Verifies([id |-> i.id, token |-> i.token, signed |-> Secret[NamedId(i)]])
    BY <1>5, <1>10 DEF Verifies, NamedId
  <1> QED
    BY <1>8, <1>9, <1>11

\* The two answers a registration gets
LEMMA TwoAnswers ==
    ASSUME NEW s \in Sdks
    PROVE  /\ Decode(s, Accepted) = Ok
           /\ Decode(s, Rejected) = ApiError(401, 1004)
           /\ IsInvalidToken(s, ApiError(401, 1004))
  BY DEF Decode, Accepted, Rejected, Success, ApiError, KindForCode, IsInvalidToken

\* So a genuine registration is Ok when the server accepts it, and otherwise retried.
LEMMA GenuineIsRead ==
    ASSUME call \in Calls, Registers, PlainInput, Genuine(call.input), call.input.reply = "new",
           NEW s \in Sdks, request[s] = Prepared(s)
    PROVE  /\ request[s] # Refused
           /\ Understood(s, Accepted) = Ok
           /\ IsInvalidToken(s, Understood(s, Rejected))
  <1>1. call.input \in Registrations /\ PlainRegistration(call.input)
    BY CallInput DEF Registers, PlainInput
  <1>2. request[s] # Refused /\ Verifies(request[s])
    BY <1>1, GenuineVerifies DEF Prepared, Registers
  <1>3. Usable(s, Accepted)
    BY DEF Usable, Accepted
  <1>4. Understood(s, Accepted) = Ok
    BY <1>2, <1>3, TwoAnswers DEF Understood
  <1>5. Understood(s, Rejected) = ApiError(401, 1004)
    BY <1>2, TwoAnswers DEF Understood, ApiError, Ok
  <1> QED
    BY <1>2, <1>4, <1>5, TwoAnswers

\* A genuine registration is turned away by nobody.
THEOREM GenuineIsKept == CallSpec => []GenuineIsStored
  <1>1. ASSUME RequestInv PROVE GenuineIsStored
    <2>1. SUFFICES ASSUME Registers, PlainInput, Genuine(call.input), call.input.reply = "new",
                          NEW s \in Sdks
                   PROVE  /\ stage[s] # "refused"
                          /\ stage[s] = "done" /\ refreshed[s] # "failed" => result[s] = Ok
      BY DEF GenuineIsStored
    <2>2. PICK d \in Devices \cup {Unset} : Course(s, d)
      BY <1>1 DEF RequestInv
    <2>3. CASE stage[s] = "begin"
      BY <2>3
    <2>4. CASE stage[s] # "begin"
      <3>1. request[s] = Prepared(s)
        BY <1>1, <2>4 DEF RequestInv, Sending
      <3>2. /\ request[s] # Refused /\ Understood(s, Accepted) = Ok
            /\ IsInvalidToken(s, Understood(s, Rejected))
        BY <1>1, <2>1, <3>1, GenuineIsRead DEF RequestInv
      <3>3. first \in {Accepted, Rejected} /\ SecondAnswers = {Accepted}
        BY <1>1, <2>1 DEF RequestInv, Registers, FirstAnswers, SecondAnswers, Local
      <3>4. stage[s] # "refused"
        <4>1. ~Skips(d) => Sends(s, d)
          BY <2>1, <3>2 DEF Sends, Registers, Protected
        <4> QED
          BY <2>2, <4>1 DEF Course
      <3>5. Resulted(s) /\ refreshed[s] # "failed" => result[s] = Ok
        BY <3>2, <3>3 DEF Resulted, Reading
      <3> QED
        BY <2>2, <3>4, <3>5 DEF Course, Untouched
    <2> QED
      BY <2>3, <2>4
  <1> QED
    BY RequestInvariance, <1>1, PTL

\* What go and typescript take for a success are credentials.
LEMMA OkIsNew ==
    ASSUME Registers, NEW s \in {"go", "ts"}, NEW a, Understood(s, a) = Ok
    PROVE  call.input.reply = "new"
  <1>1. Ok # NoData
    BY DEF Ok, NoData
  <1> QED
    BY <1>1 DEF Understood, Usable

\* A registration that go or typescript calls successful leaves whole credentials.
THEOREM RegisteredIsUsable == CallSpec => []EndsUsable
  <1>1. ASSUME RequestInv PROVE EndsUsable
    <2>1. SUFFICES ASSUME Registers, NEW s \in {"go", "ts"}, stage[s] = "done", result[s] = Ok
                   PROVE  Complete(s)
      BY DEF EndsUsable
    <2>2. s \in Sdks
      BY DEF Sdks
    <2>3. PICK d \in Devices \cup {Unset} : Course(s, d)
      BY <1>1, <2>2 DEF RequestInv
    <2>4. call.op # "logout"
      BY <2>1 DEF Registers
    <2>5. CASE Skips(d) /\ dstore[s] = d
      BY <2>1, <2>4, <2>5 DEF Skips, Registers, Local, Has, Complete
    <2>6. CASE Resulted(s) /\ dstore[s] = Left(d, Ok)
      <3>1. \E a : Understood(s, a) = Ok
        BY <2>1, <2>6 DEF Resulted, Reading, RefreshError, Ok
      <3>2. dstore[s] = "new"
        BY <2>1, <2>4, <2>6, <3>1, OkIsNew DEF Left
      <3> QED
        BY <3>2 DEF Complete
    <2> QED
      BY <2>1, <2>3, <2>4, <2>5, <2>6 DEF Course
  <1> QED
    BY RequestInvariance, <1>1, PTL

-----------------------------------------------------------------------------
(***************************************************************************)
(* Outcomes: SameOutcome, InvalidIsRefreshed, ClosedIsLoggedOut.           *)
(***************************************************************************)
\* A plain answer is read alike, and the error it is called invalid by the same.
LEMMA PlainDecode ==
    ASSUME NEW a, Plain(a), NEW s \in Sdks
    PROVE  Decode(s, a) = IF ~Success(a) \/ a.code # 0 THEN ApiError(a.status, a.code) ELSE Ok
  BY DEF Decode, Plain

\* The code of an invalid token decides, whatever the status.
LEMMA KindOf1004 == \A status : KindForCode(status, 1004) = "invalid_token"
  BY DEF KindForCode

\* Of a plain error every SDK asks the same: is its kind that of an invalid token?
LEMMA PlainInvalid ==
    ASSUME NEW a, Plain(a), NEW s \in Sdks
    PROVE  IsInvalidToken(s, ApiError(a.status, a.code)) <=>
              (KindForCode(a.status, a.code) = "invalid_token")
  <1>1. a.code = 1004 => KindForCode(a.status, a.code) = "invalid_token"
    BY KindOf1004
  <1>2. a.status = 401 => KindForCode(a.status, a.code) = "invalid_token"
    BY DEF Plain
  <1> QED
    BY <1>1, <1>2 DEF IsInvalidToken, ApiError

\* Neither a success nor the server's refusal of a signature
LEMMA NoInvalid ==
    ASSUME NEW s \in Sdks
    PROVE  /\ ~IsInvalidToken(s, Ok) /\ ~IsInvalidToken(s, NoData)
           /\ ~IsInvalidToken(s, ApiError(403, 1005))
  BY DEF IsInvalidToken, Ok, NoData, ApiError, KindForCode

\* Both for what Understood makes of it, whatever request was made.
LEMMA PlainUnderstood ==
    ASSUME NEW a, Plain(a), NEW s \in Sdks, Registers => call.input.reply = "new"
    PROVE  Understood(s, a) =
              IF ~Success(a) \/ a.code # 0 THEN ApiError(a.status, a.code)
              ELSE IF Registers /\ ~Verifies(request[s]) THEN ApiError(403, 1005) ELSE Ok
  <1> DEFINE turned == [status |-> 403, body |-> "envelope", code |-> 1005, data |-> FALSE]
  <1>1. Decode(s, turned) = ApiError(403, 1005)
    BY DEF Decode
  <1>2. ApiError(403, 1005) # Ok /\ ApiError(a.status, a.code) # Ok
    BY DEF ApiError, Ok
  <1>3. CASE ~Success(a) \/ a.code # 0
    BY <1>2, <1>3, PlainDecode DEF Understood
  <1>4. CASE ~(~Success(a) \/ a.code # 0)
    <2>1. Decode(s, a) = Ok /\ (Registers => Usable(s, a))
      <3>1. Decode(s, a) = Ok
        BY <1>4, PlainDecode
      <3>2. a.data
        BY <1>4 DEF Plain
      <3> QED
        BY <3>1, <3>2 DEF Usable
    <2> QED
      BY <1>1, <1>2, <1>4, <2>1 DEF Understood
  <1> QED
    BY <1>3, <1>4

\* A token called invalid leaves its trace in every SDK, the registering too.
LEMMA InvalidIsRead ==
    ASSUME NEW a, Plain(a), KindForCode(a.status, a.code) = "invalid_token", NEW s \in Sdks
    PROVE  IsInvalidToken(s, Understood(s, a))
  <1>1. ~Success(a) \/ a.code # 0
    BY DEF Success, KindForCode, KindForStatus
  <1>2. Decode(s, a) = ApiError(a.status, a.code) /\ ApiError(a.status, a.code) # Ok
    BY <1>1, PlainDecode DEF ApiError, Ok
  <1>3. Understood(s, a) = Decode(s, a)
    BY <1>2 DEF Understood
  <1>4. IsInvalidToken(s, ApiError(a.status, a.code))
    BY PlainInvalid
  <1> QED
    BY <1>2, <1>3, <1>4

\* A call whose token the server called invalid ends with a refresh tried.
THEOREM InvalidIsRetried == CallSpec => []InvalidIsRefreshed
  <1>1. ASSUME RequestInv PROVE InvalidIsRefreshed
    <2>1. SUFFICES ASSUME Done, Plain(first),
                          KindForCode(first.status, first.code) = "invalid_token",
                          NEW s \in Sdks
                   PROVE  refreshed[s] # "no" \/ result[s] = Ok
      BY DEF InvalidIsRefreshed
    <2>2. PICK d \in Devices \cup {Unset} : Course(s, d)
      BY <1>1 DEF RequestInv
    <2>3. IsInvalidToken(s, Reading(s))
      BY <2>1, InvalidIsRead DEF Reading
    <2>4. stage[s] \in {"done", "refused"}
      BY <2>1 DEF Done
    <2> QED
      BY <2>2, <2>3, <2>4 DEF Course, Untouched, Resulted
  <1> QED
    BY RequestInvariance, <1>1, PTL

\* Two SDKs with the same request read a plain answer alike.
LEMMA SameUnderstood ==
    ASSUME NEW a, Plain(a), NEW s \in Sdks, NEW u \in Sdks, request[s] = request[u],
           Registers => call.input.reply = "new"
    PROVE  /\ Understood(s, a) = Understood(u, a)
           /\ IsInvalidToken(s, Understood(s, a)) <=> IsInvalidToken(u, Understood(u, a))
  <1>1. Understood(s, a) = Understood(u, a)
    BY PlainUnderstood
  <1>2. CASE ~Success(a) \/ a.code # 0
    BY <1>2, PlainUnderstood, PlainInvalid
  <1>3. CASE ~(~Success(a) \/ a.code # 0)
    <2>1. \A v \in {s, u} : Understood(v, a) \in {Ok, ApiError(403, 1005)}
      BY <1>3, PlainUnderstood
    <2>2. ~IsInvalidToken(s, Understood(s, a)) /\ ~IsInvalidToken(u, Understood(u, a))
      BY <2>1, NoInvalid
    <2> QED
      BY <1>1, <2>2
  <1> QED
    BY <1>1, <1>2, <1>3

\* Of the same plain input and plain answers, all SDKs have the same outcome.
THEOREM OutcomeIsSame == CallSpec => []SameOutcome
  <1>1. ASSUME RequestInv PROVE SameOutcome
    <2>1. SUFFICES ASSUME Done, PlainInput, Plain(first), Plain(answer),
                          Registers => call.input.reply = "new",
                          \A s \in Sdks : refreshed[s] # "failed" /\ dstore[s] # "partial",
                          NEW s \in Sdks
                   PROVE  /\ stage[s] = stage["go"] /\ result[s] = result["go"]
                          /\ dstore[s] = dstore["go"]
      BY DEF SameOutcome
    <2>2. "go" \in Sdks
      BY DEF Sdks
    <2>3. PICK d \in Devices \cup {Unset} : Course(s, d) /\ Course("go", d)
      BY <1>1, <2>2 DEF RequestInv
    <2>4. stage[s] \in {"done", "refused"} /\ stage["go"] \in {"done", "refused"}
      BY <2>1, <2>2 DEF Done
    <2>5. request[s] = request["go"]
      BY <1>1, <2>1, <2>2, SamePrepared DEF RequestInv, Sending
    <2>6. CASE Skips(d)
      BY <2>3, <2>4, <2>6 DEF Course, Untouched, Sends
    <2>7. CASE ~Skips(d)
      <3>1. Sends(s, d) = Sends("go", d)
        <4>1. CASE d = "partial" /\ call.op \in Protected
          <5>1. ~Sends("go", d)
            BY <4>1, UnsetAssumption DEF Sends, Signs, Has
          <5> QED
            BY <2>1, <2>2, <2>3, <2>4, <2>7, <4>1, <5>1 DEF Course
        <4>2. CASE ~(d = "partial" /\ call.op \in Protected)
          BY <2>5, <4>2 DEF Sends, Signs
        <4> QED
          BY <4>1, <4>2
      <3>2. CASE ~Sends("go", d)
        BY <2>3, <2>4, <2>7, <3>1, <3>2 DEF Course, Untouched
      <3>3. CASE Sends("go", d)
        <4>1. /\ stage[s] = "done" /\ Resulted(s) /\ dstore[s] = Left(d, result[s])
              /\ stage["go"] = "done" /\ Resulted("go") /\ dstore["go"] = Left(d, result["go"])
          BY <2>3, <2>4, <2>7, <3>1, <3>3 DEF Course
        <4>2. /\ Reading(s) = Reading("go")
              /\ IsInvalidToken(s, Reading(s)) <=> IsInvalidToken("go", Reading("go"))
              /\ Understood(s, answer) = Understood("go", answer)
          BY <2>1, <2>2, <2>5, SameUnderstood DEF Reading
        <4>3. result[s] = result["go"]
          BY <2>1, <2>2, <4>1, <4>2 DEF Resulted
        <4> QED
          BY <4>1, <4>3
      <3> QED
        BY <3>2, <3>3
    <2> QED
      BY <2>6, <2>7
  <1> QED
    BY RequestInvariance, <1>1, PTL

\* A session the server has closed fails no logout.
THEOREM ClosedSucceeds == CallSpec => []ClosedIsLoggedOut
  <1>1. ASSUME RequestInv PROVE ClosedIsLoggedOut
    <2>1. SUFFICES ASSUME call.op = "logout", Done, Plain(first), answer.body = "envelope",
                          answer.code \in 3004 .. 3006, NEW s \in Sdks,
                          ~(refreshed[s] = "failed" /\ s # "go")
                   PROVE  LogoutSucceeds(s)
      BY DEF ClosedIsLoggedOut
    <2>2. PICK d \in Devices \cup {Unset} : \A u \in Sdks : Course(u, d)
      BY <1>1 DEF RequestInv
    <2>3. ~Registers /\ answer.code \in {3004, 3005, 3006}
      BY <2>1 DEF Registers
    <2>4. \A a : \A u \in Sdks : Understood(u, a) = Decode(u, a)
      BY <2>3 DEF Understood
    <2>5. \A u \in Sdks : Decode(u, answer) = ApiError(answer.status, answer.code)
      BY <2>1, <2>3 DEF Decode
    <2>6. \A u \in Sdks : result[u] = Decode(u, answer) => LogoutSucceeds(u)
      BY <2>3, <2>5 DEF LogoutSucceeds, IsSessionClosed, ApiError
    <2>7. CASE Untouched(s)
      BY <2>7 DEF Untouched, LogoutSucceeds, Ok
    <2>8. CASE Resulted(s)
      <3>1. CASE refreshed[s] = "ok"
        BY <2>4, <2>6, <2>8, <3>1 DEF Resulted
      <3>2. CASE refreshed[s] # "ok" /\ answer = first
        BY <2>1, <2>4, <2>6, <2>8, <3>2 DEF Resulted, Reading
      <3>3. CASE refreshed[s] # "ok" /\ answer # first
        <4>1. PICK u \in Sdks : refreshed[u] = "ok"
          BY <1>1, <3>3 DEF RequestInv, Phases
        <4>2. refreshed[s] = "no"
          BY <1>1, <3>3, <4>1 DEF RequestInv, Phases
        <4>3. IsInvalidToken(u, Reading(u)) /\ ~IsInvalidToken(s, Reading(s))
          BY <2>1, <2>2, <2>8, <4>1, <4>2 DEF Done, Course, Untouched, Resulted
        <4>4. IsInvalidToken(u, Reading(u)) <=> IsInvalidToken(s, Reading(s))
          <5>1. CASE ~Success(first) \/ first.code # 0
            BY <2>1, <2>4, <5>1, PlainDecode, PlainInvalid DEF Reading
          <5>2. CASE ~(~Success(first) \/ first.code # 0)
            <6>1. Reading(u) = Ok /\ Reading(s) = Ok
              BY <2>1, <2>4, <5>2, PlainDecode DEF Reading
            <6> QED
              BY <4>3, <6>1, NoInvalid
          <5> QED
            BY <5>1, <5>2
        <4> QED
          BY <4>3, <4>4
      <3> QED
        BY <3>1, <3>2, <3>3
    <2>9. stage[s] \in {"done", "refused"}
      BY <2>1 DEF Done
    <2> QED
      BY <2>2, <2>7, <2>8, <2>9 DEF Course
  <1> QED
    BY RequestInvariance, <1>1, PTL
=============================================================================
