----------------------------- MODULE Arguments -----------------------------
(***************************************************************************)
(* What each SDK s makes of the arguments of a call before it is sent: the *)
(* backup operations, sync, the configuration of a client and the decision *)
(* to refresh a token.  The SDKs validate and normalise on their own and   *)
(* are meant to agree.                                                     *)
(*                                                                         *)
(* Texts are a few strings that stand for their class: " " is blank, " a"  *)
(* padded, "a/" outside the pattern.  A field the wire leaves out when it  *)
(* is empty counts as empty.                                               *)
(***************************************************************************)
EXTENDS Integers, Sequences

CONSTANT Unset      \* a value that is not given

\* The texts a value that may be missing takes
Texts == {"", " ", "a", " a", "a/", "h", "t", "c", "u", "u/", "path", "own", "file", "1.0",
          "db", "full", "game", "asset", "other", "old", "new", "partial"}
ASSUME UnsetAssumption == Unset \notin Texts \cup Int

Refused == [refused |-> TRUE]       \* the call ends with an error before it is sent

OrElse(v, default) == IF v = Unset THEN default ELSE v
Trim(t) == CASE t = " " -> "" [] t = " a" -> "a" [] t = " v" -> "v" [] OTHER -> t
Text(t) == Trim(OrElse(t, ""))
IsBlank(t) == Text(t) = ""

-----------------------------------------------------------------------------
\* Backups.  "other" is a category that umbra-go and umbra-typescript can be
\* given; umbra-rust has no such value.
Categories == {"db", "full", "game", "asset"}
Addresses == [category : Categories \cup {"other"}, subject : {Unset, " ", "a", " a", "a/"},
              version : {"", "v", " v", "v w"}]

\* Faulty: umbra-rust requires a subject of a game only.
ValidAddressOfGame(s, a) ==
    /\ \/ a.category \in {"db", "full"} /\ IsBlank(a.subject)
       \/ s = "rust" /\ a.category = "asset"
       \/ a.category \in {"game", "asset"}
          /\ (IF s = "go" THEN Trim(a.subject) ELSE a.subject) = "a"
    /\ (IF s = "go" THEN Trim(a.version) ELSE a.version) = "v"

\* BackupAddress::validate.  umbra-go trims what it matches, and sends it untrimmed.
ValidAddress(s, a) ==
    /\ \/ a.category \in {"db", "full"} /\ IsBlank(a.subject)
       \/ a.category \in {"game", "asset"}
          /\ (IF s = "go" THEN Trim(a.subject) ELSE a.subject) = "a"
    /\ (IF s = "go" THEN Trim(a.version) ELSE a.version) = "v"

\* How a backup is found: as the address is, not as it was matched.
Place(a) == [category |-> a.category, subject |-> OrElse(a.subject, ""), version |-> a.version]

\* normalize_content_hash; Unset stands for a hash that is refused.
Hashes == {Unset, " ", "h", " H", "short"}
NormalHash(h) == IF IsBlank(h) THEN "" ELSE IF h \in {"h", " H"} THEN "h" ELSE Unset

Uploads == [address : Addresses, size : {0, 1}, type : {"", " ", "t"}, hash : Hashes]

\* make_presign_request
PresignRequest(s, i) ==
    IF /\ ValidAddress(s, i.address) /\ i.size > 0
       /\ IF s = "go" THEN i.type # "" ELSE ~IsBlank(i.type)
       /\ NormalHash(i.hash) # Unset
    THEN [at |-> Place(i.address), size |-> i.size, type |-> i.type, hash |-> NormalHash(i.hash)]
    ELSE Refused

NoAddress == [category |-> "", subject |-> Unset, version |-> ""]
Targets == [id : {Unset, 0, 1}, address : Addresses \cup {NoAddress}]

\* Faulty: umbra-go sends what it matched.
TargetRequestTrimmed(s, t) ==
    IF t.id # Unset /\ (t.id > 0 \/ s = "rust") THEN [id |-> t.id]
    ELSE IF ValidAddress(s, t.address)
         THEN [at |-> [Place(t.address) EXCEPT !.subject = IF s = "go" THEN Trim(@) ELSE @]]
         ELSE Refused

\* make_target_request, of a confirmation, a download or a deletion.  0 is an id
\* for umbra-rust only.
TargetRequest(s, t) ==
    IF t.id # Unset /\ (t.id > 0 \/ s = "rust") THEN [id |-> t.id]
    ELSE IF ValidAddress(s, t.address) THEN [at |-> Place(t.address)]
    ELSE Refused

\* The call that negotiates by hash validates nothing but the hash.
Negotiations == [category : Categories, subject : {Unset, "a", "a/"}, hash : Hashes]
NegotiateRequest(s, i) ==
    IF NormalHash(i.hash) \in {"", Unset} THEN Refused
    ELSE [category |-> i.category, subject |-> OrElse(i.subject, ""), hash |-> NormalHash(i.hash)]

\* The filter of a list; only umbra-go trims it.
Filters == [category : Categories \cup {Unset}, subject : {Unset, "", " ", "a", " a"}]
ListRequest(s, f) ==
    LET sent(t) == IF s = "go" THEN Text(t) ELSE OrElse(t, "")
    IN  [category |-> OrElse(f.category, ""), subject |-> sent(f.subject)]

\* A batch of requests: one item that is refused refuses all of them.
Batch(requests) ==
    IF \E n \in DOMAIN requests : requests[n] = Refused THEN Refused ELSE [items |-> requests]

-----------------------------------------------------------------------------
\* Sync: SyncExchangeInput, SyncSnapshotInput (without mutations).
Exchanges == [version : {0, 1, 2}, cursor : {Unset, "", "c"}, mutations : {Unset, <<>>, <<"m">>},
              limit : {Unset, 0, 1}]

\* umbra-rust sends a limit of 0, the others leave it out.
SyncRequest(s, i) ==
    [version |-> IF i.version = 0 THEN 1 ELSE i.version, cursor |-> OrElse(i.cursor, ""),
     mutations |-> OrElse(i.mutations, <<>>),
     limit |-> IF i.limit = 0 /\ s # "rust" THEN Unset ELSE i.limit]

-----------------------------------------------------------------------------
\* UmbraConfig.  "u/" is an absolute URL that ends with a slash, "u" without,
\* "path" one that is not absolute; one endpoint stands for the three.
Configs == [base : {Unset, " ", "u", "u/", "path"}, client : {" ", "a", " a"},
            redirect : {Unset, " ", "a"}, receiver : BOOLEAN, scope : {Unset, " ", "a"},
            api : {Unset, " ", "u", "u/", "path"}, endpoint : {Unset, " ", "u", "path"},
            skew : {Unset, 0, 2}]

DefaultSkew == 3
DefaultRedirect == "http://127.0.0.1:0/auth/callback"
DefaultScope == "openid offline_access"

TrimSlash(u) == IF u \in {"u", "u/"} THEN "u" ELSE Text(u)
JoinUrl(base, path) == <<TrimSlash(base), path>>
Absolute(url) == Head(url) = "u"

\* What stands for a setting: umbra-rust takes a blank one as it is, and so does
\* umbra-typescript the base of the API.
Given(s, u) == u # Unset /\ (IsBlank(u) => s = "rust")

\* UmbraConfig::endpoints
Api(s, c) == IF Given(s, c.api) \/ (s = "ts" /\ c.api # Unset) THEN <<TrimSlash(c.api)>>
             ELSE JoinUrl(c.base, "/api/v1")
Endpoint(s, c) == IF Given(s, c.endpoint) THEN <<Trim(c.endpoint)>>
                  ELSE JoinUrl(c.base, "/oauth2/token")

\* Only umbra-go has no redirect of its own, and wants one or a receiver.
Redirect(s, c) ==
    IF s = "go" THEN Text(c.redirect)
    ELSE IF Given(s, c.redirect) THEN Trim(c.redirect) ELSE DefaultRedirect

\* A skew of 0 is the default in umbra-go and umbra-typescript.
Skew(s, skew) == IF skew = Unset \/ (skew = 0 /\ s # "rust") THEN DefaultSkew ELSE skew

\* UmbraConfigBuilder::build: the settings a client is made from.
Build(s, c) ==
    IF /\ Absolute(<<TrimSlash(c.base)>>) /\ ~IsBlank(c.client)
       /\ s = "go" => Redirect(s, c) # "" \/ c.receiver
       /\ Absolute(Api(s, c)) /\ Absolute(Endpoint(s, c))
    THEN [base |-> TrimSlash(c.base), client |-> Trim(c.client), redirect |-> Redirect(s, c),
          scope |-> IF IsBlank(c.scope) THEN DefaultScope ELSE Trim(c.scope),
          api |-> Api(s, c), endpoint |-> Endpoint(s, c), skew |-> Skew(s, c.skew)]
    ELSE Refused

-----------------------------------------------------------------------------
\* A token set: the lifetime it was issued with, its age, and the client's skew.
Tokens == [lifetime : {Unset, -1, 0, 1, 4, 6}, age : 0 .. 7, skew : {Unset, 0, 2},
           refreshable : BOOLEAN]

\* token_request: umbra-go and umbra-typescript take a lifetime of 0 or less for
\* none.
ExpiresAt(s, t) ==
    IF t.lifetime = Unset \/ (s # "rust" /\ t.lifetime <= 0) THEN Unset ELSE t.lifetime

\* Faulty: the skew is added to the lifetime.
ShouldRefreshLate(s, t) ==
    ExpiresAt(s, t) # Unset /\ t.age >= ExpiresAt(s, t) + Skew(s, t.skew)

\* should_refresh
ShouldRefresh(s, t) == ExpiresAt(s, t) # Unset /\ t.age + Skew(s, t.skew) >= ExpiresAt(s, t)

\* AuthClient.token: whether the token is refreshed before it is used.
Fresh(s, t) == [refresh |-> ShouldRefresh(s, t) /\ t.refreshable]
=============================================================================
