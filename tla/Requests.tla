------------------------------ MODULE Requests ------------------------------
(***************************************************************************)
(* One call of the API in the three SDKs, given the same input, the same   *)
(* device credentials and the same answers of the same server: what the    *)
(* SDK makes of the arguments, the signature, the decoding of the envelope *)
(* { code, msg, data }, the kind of an error, the retry with a refreshed   *)
(* token, and what the call leaves in the device store.  The SDKs are      *)
(* written one by one and meant to behave alike; they share nothing, so    *)
(* that each step here is taken by the three of them.                      *)
(***************************************************************************)
EXTENDS Registration

CONSTANTS
    Statuses,       \* HTTP statuses the server answers with
    Codes           \* codes of the envelope

Sdks == {"rust", "go", "ts"}
Devices == {"old", "new", "partial"}        \* credentials; "partial" misses a part

\* An answer; "other" is a body that is not an envelope.
Answers == [status : Statuses, body : {"envelope", "other"}, code : Codes, data : BOOLEAN]

VARIABLES
    call,       \* the call: an operation and its input
    stage,      \* SDK -> where its call is
    request,    \* SDK -> what it sends, or Refused
    first,      \* the answer to the request
    answer,     \* the last answer: that one, or the one to the retry
    result,     \* SDK -> the result of the request so far
    refreshed,  \* SDK -> whether it refreshed the token, and how that ended
    dstore      \* SDK -> its device store

callVars == <<call, stage, request, first, answer, result, refreshed, dstore>>

Success(a) == a.status \in 200 .. 299

\* A result: done with or without data, or an error.  An error that is not one
\* of the server's has no status and no code.
Ok == [tag |-> "ok", kind |-> "none", status |-> 0, code |-> 0]
Unreadable == [tag |-> "error", kind |-> "json", status |-> 0, code |-> 0]
NoData == [tag |-> "error", kind |-> "invalid_params", status |-> 0, code |-> 0]
RefreshError == [tag |-> "error", kind |-> "auth", status |-> 0, code |-> 0]

\* kind_for_code: the code decides, then the status.
KindForStatus(status) ==
    CASE status = 401  -> "invalid_token"
      [] status = 403  -> "forbidden"
      [] status >= 500 -> "internal"
      [] OTHER         -> "invalid_params"

KindForCode(status, code) ==
    CASE code = 1001 -> "invalid_params"
      [] code = 1004 -> "invalid_token"
      [] code = 1005 -> "forbidden"
      [] code = 2001 -> "quota_insufficient"
      [] code = 2002 -> "file_not_found"
      [] code = 2010 -> "upload_not_found"
      [] code = 2005 -> "storage_unavailable"
      [] code = 5000 -> "internal"
      [] OTHER       -> KindForStatus(status)

ApiError(status, code) ==
    [tag |-> "error", kind |-> KindForCode(status, code), status |-> status, code |-> code]

\* Faulty: umbra-typescript does not look at the status of an envelope.
DecodeByCode(s, a) ==
    CASE a.body = "other" ->
            IF s = "rust" \/ Success(a) THEN Unreadable ELSE ApiError(a.status, 0)
      [] a.body = "envelope" /\ ((s # "ts" /\ ~Success(a)) \/ a.code # 0) ->
            ApiError(a.status, a.code)
      [] OTHER -> IF a.data \/ s = "go" THEN Ok ELSE NoData

\* decode_envelope.  umbra-rust has no error of its own for a body that is not
\* an envelope; umbra-go does without data.
Decode(s, a) ==
    CASE a.body = "other" ->
            IF s = "rust" \/ Success(a) THEN Unreadable ELSE ApiError(a.status, 0)
      [] a.body = "envelope" /\ (~Success(a) \/ a.code # 0) -> ApiError(a.status, a.code)
      [] OTHER -> IF a.data \/ s = "go" THEN Ok ELSE NoData

\* Faulty: umbra-go looks at the status only.
IsUnauthorized(s, r) ==
    /\ r.tag = "error"
    /\ IF s = "go" THEN r.status = 401 ELSE r.kind = "invalid_token"

\* is_invalid_token: umbra-rust looks at the kind only.
IsInvalidToken(s, r) ==
    /\ r.tag = "error"
    /\ r.kind = "invalid_token" \/ (s # "rust" /\ (r.status = 401 \/ r.code = 1004))

\* Faulty: one of the codes is missing.
IsRevoked(r) == r.tag = "error" /\ r.code \in {3004, 3005}

\* is_device_session_closed
IsSessionClosed(r) == r.tag = "error" /\ r.code \in {3004, 3005, 3006}

-----------------------------------------------------------------------------
\* The operations by what they need: "profile" stands for user calls without
\* arguments, "target" for a confirmation, a download or a deletion.
Registers == call.op \in {"register", "ensure"}
Local == {"build", "token", "detect"}
Protected == {"presign", "target", "negotiate", "list", "sync", "logout"}

\* One item, or two of which the other is plain.
Batches(items, other) == {<<i>> : i \in items} \cup {<<i, other>> : i \in items}
PlainAddress == [category |-> "game", subject |-> "a", version |-> "v"]
PlainUpload == [address |-> PlainAddress, size |-> 1, type |-> "t", hash |-> "h"]
PlainTarget == [id |-> Unset, address |-> PlainAddress]

Calls ==
    [op : {"register", "ensure"}, input : Registrations]
    \cup [op : {"presign"}, input : Batches(Uploads, PlainUpload)]
    \cup [op : {"target"}, input : Batches(Targets, PlainTarget)]
    \cup [op : {"negotiate"}, input : {<<i>> : i \in Negotiations}]
    \cup [op : {"list"}, input : Filters]
    \cup [op : {"sync"}, input : Exchanges]
    \cup [op : {"build"}, input : Configs]
    \cup [op : {"token"}, input : Tokens]
    \cup [op : {"detect"}, input : Machines]
    \cup [op : {"profile", "logout"}, input : {Unset}]

\* Two operations see every answer, the others an accepted request or a rejected
\* token.
Accepted == [status |-> 200, body |-> "envelope", code |-> 0, data |-> TRUE]
Rejected == [status |-> 401, body |-> "envelope", code |-> 1004, data |-> FALSE]
FirstAnswers == IF call.op \in {"profile", "logout"} THEN Answers
                ELSE IF call.op \in Local THEN {Accepted} ELSE {Accepted, Rejected}
SecondAnswers == IF call.op \in {"profile", "logout"} THEN Answers ELSE {Accepted}

CallInit ==
    /\ call \in Calls
    /\ stage = [s \in Sdks |-> "begin"]
    /\ request = [s \in Sdks |-> Refused]
    /\ first \in FirstAnswers /\ answer = first
    /\ result = [s \in Sdks |-> Ok]
    /\ refreshed = [s \in Sdks |-> "no"]
    /\ \E d \in Devices \cup {Unset} :
          /\ call.op \in Local \cup {"profile"} => d = Unset
          /\ dstore = [s \in Sdks |-> d]

-----------------------------------------------------------------------------
Prepared(s) ==
    LET i == call.input IN
    CASE Registers             -> RegistrationRequest(s, i)
      [] call.op = "presign"   -> Batch([n \in DOMAIN i |-> PresignRequest(s, i[n])])
      [] call.op = "target"    -> Batch([n \in DOMAIN i |-> TargetRequest(s, i[n])])
      [] call.op = "negotiate" -> Batch([n \in DOMAIN i |-> NegotiateRequest(s, i[n])])
      [] call.op = "list"      -> ListRequest(s, i)
      [] call.op = "sync"      -> SyncRequest(s, i)
      [] call.op = "build"     -> Build(s, i)
      [] call.op = "token"     -> Fresh(s, i)
      [] call.op = "detect"    -> Detect(s, i)
      [] OTHER                 -> [arguments |-> "none"]

Complete(s) == dstore[s] \in {"old", "new"}

\* A protected path is signed with the stored credentials; umbra-rust does not
\* look whether they are complete.
CanSign(s) == Complete(s) \/ (s = "rust" /\ dstore[s] = "partial")

\* Nothing is sent by an ensure that finds credentials or a logout that finds none.
NothingToSend(s) ==
    \/ call.op = "ensure" /\ Complete(s)
    \/ call.op = "logout" /\ ~Complete(s)
    \/ call.op \in Local

\* What a call that ends leaves in the device store: a logout clears it whatever
\* was answered, a registration saves its credentials.
Settle ==
    dstore' = [s \in Sdks |->
        IF call.op = "logout" /\ stage'[s] = "done" THEN Unset
        ELSE IF Registers /\ stage[s] \in {"sent", "resent"} /\ stage'[s] = "done" /\ result'[s] = Ok
        THEN call.input.reply
        ELSE dstore[s]]

\* The arguments are checked, and the request sent.
Prepare ==
    /\ \A s \in Sdks : stage[s] = "begin"
    /\ request' = [s \in Sdks |-> Prepared(s)]
    /\ stage' = [s \in Sdks |->
                IF NothingToSend(s) THEN "done"
                ELSE IF request'[s] = Refused \/ (call.op \in Protected /\ ~CanSign(s))
                THEN "refused" ELSE "sent"]
    /\ Settle
    /\ UNCHANGED <<call, first, answer, result, refreshed>>

\* Faulty: whatever the server answered is stored.
UsableAlways(s, a) == TRUE

\* umbra-rust stores the answer to a registration without looking at its fields.
Usable(s, a) == s # "rust" => call.input.reply = "new" /\ a.data

\* What SDK s makes of answer a; the server verifies each registration on its own.
Understood(s, a) ==
    LET answered == IF Registers /\ Decode(s, a) = Ok /\ ~Verifies(request[s])
                    THEN [status |-> 403, body |-> "envelope", code |-> 1005, data |-> FALSE]
                    ELSE a
        read == Decode(s, answered)
    IN  IF Registers /\ read = Ok /\ ~Usable(s, answered) THEN NoData ELSE read

At(l) == {s \in Sdks : stage[s] = l}

\* The answer to the request: an invalid token is retried.
First ==
    /\ At("sent") # {}
    /\ result' = [s \in Sdks |-> IF s \in At("sent") THEN Understood(s, answer) ELSE result[s]]
    /\ stage' = [s \in Sdks |-> IF s \notin At("sent") THEN stage[s]
                             ELSE IF IsInvalidToken(s, result'[s]) THEN "refresh" ELSE "done"]
    /\ Settle
    /\ UNCHANGED <<call, request, first, answer, refreshed>>

\* The token is refreshed, and the request sent again: the server answers anew.
Refresh ==
    /\ At("refresh") # {}
    /\ stage' = [s \in Sdks |-> IF stage[s] = "refresh" THEN "resent" ELSE stage[s]]
    /\ refreshed' = [s \in Sdks |-> IF stage[s] = "refresh" THEN "ok" ELSE "no"]
    /\ answer' \in SecondAnswers
    /\ UNCHANGED <<call, request, first, result, dstore>>

\* The refresh fails: umbra-go returns the error of the request, the others that
\* of the refresh.
RefreshFails ==
    /\ At("refresh") # {}
    /\ stage' = [s \in Sdks |-> IF stage[s] = "refresh" THEN "done" ELSE stage[s]]
    /\ refreshed' = [s \in Sdks |-> IF stage[s] = "refresh" THEN "failed" ELSE "no"]
    /\ result' = [s \in Sdks |-> IF stage[s] = "refresh" /\ s # "go" THEN RefreshError ELSE result[s]]
    /\ Settle
    /\ UNCHANGED <<call, request, first, answer>>

\* The answer to the retry is final.
Second ==
    /\ At("resent") # {}
    /\ stage' = [s \in Sdks |-> IF stage[s] = "resent" THEN "done" ELSE stage[s]]
    /\ result' = [s \in Sdks |-> IF stage[s] = "resent" THEN Understood(s, answer) ELSE result[s]]
    /\ Settle
    /\ UNCHANGED <<call, request, first, answer, refreshed>>

Done == \A s \in Sdks : stage[s] \in {"done", "refused"}

\* Every call ends; the behaviour stutters after it.
CallNext == Prepare \/ First \/ Refresh \/ RefreshFails \/ Second \/ (Done /\ UNCHANGED callVars)

CallSpec == CallInit /\ [][CallNext]_callVars

-----------------------------------------------------------------------------
\* An input the SDKs do not differ on by design: nothing padded, blank where it is
\* optional, or zero.
PlainInput ==
    LET i == call.input IN
    CASE Registers -> PlainRegistration(i)
      [] call.op = "presign" ->
            \A n \in DOMAIN i : /\ i[n].address.subject # " a" /\ i[n].address.version # " v"
                               /\ i[n].type # " "
      [] call.op = "target" ->
            \A n \in DOMAIN i : /\ i[n].address.subject # " a" /\ i[n].address.version # " v"
                               /\ i[n].id # 0
      [] call.op = "list" -> i.subject \notin {" ", " a"}
      [] call.op = "sync" -> i.limit # 0
      [] call.op = "build" -> /\ i.redirect = "a" /\ i.skew # 0
                              /\ i.api # " " /\ i.endpoint # " "
      [] call.op = "token" -> i.lifetime \notin {-1, 0} /\ i.skew # 0
      [] call.op = "detect" -> PlainMachine(i)
      [] OTHER -> TRUE

\* On a plain input the three SDKs, each with its own validation, defaults and
\* resolution of credentials, come to the same request, signed with the same secret
\* where a registration is, or all of them refuse to send one.
SameRequest == PlainInput => \A s, u \in Sdks : request[s] = request[u]

\* A registration that names a genuine credential, by its parts, by a token or
\* by both, is never turned away, neither before the request nor by the server's
\* check of its signature, unless the token cannot be refreshed.
GenuineIsStored ==
    Registers /\ PlainInput /\ Genuine(call.input) /\ call.input.reply = "new" =>
        \A s \in Sdks : /\ stage[s] # "refused"
                        /\ stage[s] = "done" /\ refreshed[s] # "failed" => result[s] = Ok

\* A register or ensure call of umbra-go or umbra-typescript that ends well leaves
\* credentials a request can be signed with, whatever was stored before and
\* whatever the server answered.
EndsUsable ==
    Registers => \A s \in {"go", "ts"} : stage[s] = "done" /\ result[s] = Ok => Complete(s)

\* A backup that was uploaded under an address with one SDK is found under that
\* address with every SDK that takes it, the one it was uploaded with included.
UploadIsAddressable ==
    call.op = "presign" => \A s, u \in Sdks : request[s] # Refused =>
        \A n \in DOMAIN call.input :
            LET again == TargetRequest(u, [id |-> Unset, address |-> call.input[n].address])
            IN  again = [at |-> request[s].items[n].at] \/ (again = Refused /\ u # s)

\* A token is not sent after its lifetime if it can be refreshed, whatever skew the
\* client is given; a lifetime of 0 or less counts as none in umbra-go and
\* umbra-typescript.
ExpiredIsRefreshed ==
    call.op = "token" => \A s \in Sdks :
        /\ request[s] # Refused
        /\ call.input.refreshable /\ call.input.lifetime # Unset
        /\ call.input.lifetime > 0 \/ s = "rust"
        /\ call.input.age >= call.input.lifetime
        => request[s].refresh

\* An answer the SDKs do not differ on: an envelope, with data if it is one of
\* success, whose code does not call a 401 something else than an invalid token.
Plain(a) ==
    /\ a.body = "envelope"
    /\ Success(a) /\ a.code = 0 => a.data
    /\ a.status = 401 => KindForCode(a.status, a.code) = "invalid_token"

\* The three SDKs end a call alike, its retry and what it stores included, as long
\* as input, credentials and answers are plain and a refresh that is needed
\* succeeds.
SameOutcome ==
    /\ Done /\ PlainInput /\ Plain(first) /\ Plain(answer)
    /\ Registers => call.input.reply = "new"
    /\ \A s \in Sdks : refreshed[s] # "failed" /\ dstore[s] # "partial"
    => \A s \in Sdks : /\ stage[s] = stage["go"] /\ result[s] = result["go"]
                       /\ dstore[s] = dstore["go"]

\* A token the server calls invalid, by the status or by the code, is refreshed in
\* every SDK before the request is given up.
InvalidIsRefreshed ==
    Done /\ Plain(first) /\ KindForCode(first.status, first.code) = "invalid_token"
        => \A s \in Sdks : refreshed[s] # "no" \/ result[s] = Ok     \* nothing was sent

\* What DeviceClient.logout makes of the result
LogoutSucceeds(s) == result[s].tag = "ok" \/ IsSessionClosed(result[s])

\* A device session the server has closed already (revoked, expired or replaced)
\* makes no logout fail: not after a retry, and in umbra-go not after a refresh
\* that failed either.
ClosedIsLoggedOut ==
    call.op = "logout" /\ Done /\ Plain(first) /\ answer.body = "envelope" /\ answer.code \in 3004 .. 3006 =>
        \A s \in Sdks : LogoutSucceeds(s) \/ (refreshed[s] = "failed" /\ s # "go")

=============================================================================
