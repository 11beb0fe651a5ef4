# Verification of the Umbra SDK

TLA+ models of the three Umbra client SDKs, umbra-rust, umbra-go and umbra-typescript, checked with
TLC and partly proved with TLAPS. The SDKs are three hand-written clients of the same services: they
log a user in (OAuth with PKCE and a loopback redirect), keep and refresh the tokens, register the
device and sign requests with its credentials, upload, download and list backups, and synchronise
structured data. Nothing here stands for the servers beyond what a client can observe of them.

Run a model with `tlc -config X.cfg MCModule` (every `.cfg` is named after its module) and the proofs
with `tlapm XProofs.tla` (eight modules, about ten minutes altogether).

## 1. The system

| Component | State it keeps | Operations | Talks to | What is hard |
|---|---|---|---|---|
| AuthClient (`auth.rs`, `auth.go`, `auth.ts`) | token store, refresh mutex (rust, go) or the promise `#refreshing` (typescript) | login, token, refresh, logout | token endpoint, callback receiver, browser opener | refresh tokens are single use; calls interleave at every await; replies get lost; logout and login do not take the lock |
| ApiClient (`api.*`) | none of its own | JSON requests, signed requests, one retry after a 401 | AuthClient for tokens, the device store for credentials | what was read before an await is stale after it; envelopes are decoded by three pieces of code |
| DeviceClient (`device.*`) | device store | register, ensure registered, rotate secret, logout, current | ApiClient, device store | the server changes the secret before the client saves it; no lock; several devices |
| UmbraClient (`client.*`) | none | login, logout | AuthClient, DeviceClient | two stores, any step of two sequences failing |
| Stores (`store.*`, `node.ts`) | a value in memory or in a JSON file | load, save, clear | file system | a save empties the file, then writes it; two stores on one file |
| Loopback receivers (`callback.*`, `node.ts`) | a listening socket; in typescript a receiver shared by all logins | bind/prepare, receive, close | AuthClient, browser | stray requests, logins at once, a port left listening |
| BackupClient (`backup.*`, `node.ts`) | local files | upload, download, negotiate, presign, confirm, delete, batches, list | ApiClient, object storage | several requests and a file that changes between them; temporary files; crashes; retries |
| Errors (`error.rs`, `errors.go`, `errors.ts`) | none | classification of statuses and codes | everything that retries or tolerates an error | three copies of one table |
| SyncClient (`sync.*`) | none | exchange, snapshot | ApiClient; the application keeps outbox, replica and cursor | an answer that is lost, a request served twice or late, pages that overlap, a compacted history |
| Config (`config.*`) | none | build, endpoints | every client | three copies of the defaults; what is blank, what is absent |
| Device metadata (`device_metadata/*`, `deviceMetadata.*`) | the installation id file | detect, load or create the id | DeviceClient, registry, file system | the id must not change; it is created without a lock |
| UserClient, openers | none | single requests, start a browser | ApiClient | nothing of their own |

A login goes Loopback receiver -> AuthClient -> token store -> DeviceClient -> device store. A request
goes ApiClient -> AuthClient (`token`, perhaps `refresh`) -> device store (when signed) -> server, and
once more after a 401.

## 2. Modules

Every module says at its head which functions it follows. Steps end where the code awaits: between
two steps of a task, any step of another task may happen.

**TokenSession** - `AuthClient` and the authenticated request of `ApiClient`, in umbra-rust and
umbra-go. A *task* is one call (`token`, `refresh`, `logout`, `login`, or a request that takes a token,
is sent and is retried once after a 401); `pc[t]` is where it waits. `store`, `lock` are the token
store and `refresh_lock`; `cur`, `got` are what a call loaded and what the token endpoint answered;
`sent` is non-zero once `retry_auth` is false. A token set is a record of numbers the server hands out
in order, so that "newer" is `>`; a refresh token 0 is an absent one. Whether a token is due for
refresh depends on the clock and is left open, which covers every reading of `expires_in`. Actions:
`Start`, `LoadToken`, `LockRefresh`, `LoadForRefresh`, `ServeRefresh`/`RefuseRefresh`, `SaveRefresh`,
`LoseRefresh` (a lost reply, a failed save, a dropped future), `Answered`, `Rejected` (the 401),
`LoadForLogout`, `Revoke`, `Clear`, `StartLogin`, `ServeExchange`, `SaveLogin`, `Fail` (a `?`), `Drop`,
and `ServeLate`: a request the client gave up on reaches the server after all.

**SingleFlight** - the same of umbra-typescript, where the callers of `refresh` share the promise
`#refreshing` instead of taking turns. `phase` is where `#refreshInner` is; `Join` starts a flight or
joins it; `Land` settles all waiting callers in one step. `Decide` runs on a token set read before an
await.

**TokenVault** - the abstract specification of both: a token that is saved is newer than all saved or
given up before it; it can be cleared at any time. `Vault == INSTANCE TokenVault WITH ...` in both
modules maps `held` to the number of the stored access token and `floor` to the last number issued,
less the one that is still on its way to the store.

**DeviceCredentials** - `DeviceClient` and the signing in `ApiClient`. The server keeps a generation
per device and increments it at each registration or rotation (`Serve`); the client saves the answer
(`Save`), whichever device it is of. `LoseWrite` and `ServeLate` are lost replies and late requests;
`orphan` remembers devices whose current secret never reached the store, `crossed` those two of whose
secrets were on their way to it at once, until one is saved by itself. `reload` distinguishes the
SDKs: after a 401 umbra-rust and umbra-typescript load the credentials again, umbra-go keeps those it
loaded first. Nothing is asked of the application: any number of calls register, rotate and sign at
once.

**Arguments**, **Metadata** and **Registration** - operators, each extending the one before, with the
SDK as a parameter: what the SDK makes of its input before anything is sent. Arguments has the
validation and normalisation of backup addresses, hashes, filters and batches, the defaults of a sync
request, `build` and the endpoints of the configuration, and `should_refresh` with the expiry it is
computed from. Metadata has what a registration says of a Windows machine. Registration has the
resolution of a `DeviceRegistrationInput` (id, secret, registration token, in any combination) and how
the server verifies the request. Texts are a few strings that stand for their class: blank, padded,
outside the pattern.

**Requests** - the machine over them: one call, of any operation, made in the three SDKs with the same
input, the same stored credentials and the same answers. `Prepare` is what the SDK makes of the
input (a refusal ends the call) and signs with, `First` decodes the answer and decides whether to
retry, `Refresh` or `RefreshFails` and `Second` are the retry; `Settle`, part of every step that can end
the call, is what it leaves in the device store. The operators are `decode_envelope`, `kind_for_code`,
the two predicates, and what `DeviceClient.logout` tolerates. Properties compare the SDKs.

**Sync** - `exchange` and `snapshot` between the applications of several devices and one server. The
SDK passes on what it is given; what makes the devices agree is the protocol its fields carry. `Send`
and the retry rule are the client's; `Edit`, `Apply`, `Merge` (the outbox, a cursor stored with the
replica in one transaction, the same mutation id on every attempt) are what the READMEs ask of an
application, and `Serve`, `ServeLate`, `Compact` what that takes of a server. Both are marked external.
A record's version is the number of writes to it, a cursor a position in the log. The mutations of a
request are of different records, so the outbox is a set, and `Take` takes those that are effective in
any order. Its specification is `SyncSpec`, and its call state `stage`, so that one module can prove about
Sync and Download both.

**RootClient** - `UmbraClient.login` and `.logout` over both stores, with every step failing
separately, a dropped call and a crash. It composes the operations of AuthClient and DeviceClient at
the granularity of their store operations: which user's tokens and credentials are kept.

**Loopback** - a login from `prepare`/`bind` to the code, for three SDKs that keep requests by
different rules (`Counts`), with other requests arriving at any moment and other logins running.

**FileStore** - open-and-truncate, write, clear and load of the file stores, with a mutex per store
object in umbra-go. A task without a lock is one with a mutex of its own. **Register** is the abstract
specification (the traits `TokenStore` and `DeviceCredentialStore`, and the memory stores); the
mapping counts a value as stored when its save starts, since the mutex hides the file until it ends.

**InstallId** - the installation id, on the file of FileStore: read; if blank, a new id is written, by
the same two steps and without a lock. A behaviour of `AnySpec` is that of a store or that of an id,
so that one run has both.

**Download** - downloads to one path: temporary name, requests, chunks, rename, and the removal of
the temporary name, which may fail like any other step (its error is ignored: `umbra-go/backup.go:286`),
on files with POSIX inodes, so that a handle outlives its name. `sdk` is chosen in the initial state.

**Upload** - measuring, hashing, negotiating, presigning, the PUT and the confirmation, while another
program writes to the file. `Open` begins the upload of a file, `OpenReader` (rust, go) that of a reader,
whose length is the caller's word. The hash is computed, supplied by the caller
(`UploadOptions.content_hash`) or absent: `Hashes` says which in each SDK, and `given`, `claimed` and
`doubtful` remember where it came from and whether it is that of the bytes to be sent. The server and the
storage record what they are told and compare nothing, so that what holds is due to the client.
`uploadBlob` takes the steps of `uploadFile` on a blob that no one can write to.

`MC*` modules give TLC its sets; `*Proofs` modules extend the module of that name by proofs
(FileStoreProofs extends InstallId, which extends FileStore; ClientProofs extends RootClient and
Requests, whose variables and formulas have names of their own, `CallSpec` and `stage`, so that the two
can stand side by side). Operators marked *Faulty* are variants of the operator below them that break
one property; nothing uses them in the specifications.

## 3. What is checked

| Run | States | Properties and what they say |
|---|---|---|
| `TokenSession_fair` | 100,188 | `RefreshNotReplayed`: a rotated refresh token is presented again only when its successor was lost, across logins and logouts; `LoggedOutStays`: an empty store that nobody is about to fill stays empty until a login; `CallsReturn`: no call waits forever |
| `TokenSession_session` | 276,398 | within one login session: `RetryIsNewer` (the retry has a newer token than the rejected one) and `ImplementsVault` (the abstract vault, whose saved token only gets newer) |
| `SingleFlight_fair` | 124,519 | the same of the shared promise, and that every caller is settled |
| `DeviceCredentials_secrets` | 2,013,128 | `StoredIsCurrent`: the stored secret is the server's, unless a reply was lost or two for one device crossed, and the next one saved by itself heals both; `SignsCurrent`: a request, in rust and typescript also its retry after a 401, is signed with the server's secret unless that changed since it was loaded |
| `DeviceCredentials_rotate` | violation | `RotationKeepsDevice`, see section 4 |
| `Requests_parity` | 202,227 | `SameRequest`: of equal input the SDKs make equal requests, or all refuse; `SameOutcome`: on plain answers they end alike; `GenuineIsStored`: a genuine registration is never turned away; `EndsUsable`: go and typescript never end well with unusable credentials; `UploadIsAddressable`: what may be uploaded can be confirmed, found and deleted by its address; `ExpiredIsRefreshed`: an expired token is refreshed when it can be; `InvalidIsRefreshed`: a token called invalid is refreshed before the request is given up; `ClosedIsLoggedOut`: a session the server has closed fails no logout |
| `Sync_converge` | 899,972 | `OncePerEdit`: an edit takes effect once, however often it is sent or merged; `ReplicaIsCurrent`: a replica misses nothing its cursor covers; `Converges`: once the users stop, all devices agree |
| `RootClient_safety` | 3,137 | `LogoutClears`, `LoginBinds`: a logout, or a login that reports success, puts both stores right whatever earlier ones left |
| `Loopback_sdks` | 107,347 | `OwnCode`: a login that succeeds has the code of its own authorization; `AuthorizedSucceeds`: one whose redirect comes first succeeds; `NoServerLeft`: no port stays taken |
| `FileStore_stores` | 85,226 | `FileIsLast`: with no write under way the file is what was written last, unless writes overlapped or broke; `ImplementsRegister`: behind one locked store it is an atomic register; `OneId`: calls answer one installation id, unless two were creating it at once |
| `Download_sdks` | 1,026,063 | `PathIsWhole`, `DeliversOwn`: the path holds one object, whole, that of the download that succeeded; `PathStays` (rust, go): overwriting never leaves no file; `NoLitter` (go, typescript): failures leave no temporary file that could be removed |
| `Upload_sdks` | 1,948,195 | `ConfirmedIsStored`: a confirmed backup has an object, in go and typescript of the size announced; `HashIsOfObject`: with the hash announced, unless the caller supplied the hash of something else or (go, typescript, readers, supplied hashes) the bytes changed after it was taken; a hash rust computed is right whatever happens to the file; `OncePerHash`: careful retries confirm a content once |

Type invariants are checked where only they say something of the state a proof starts from
(`TokenSession_fair`, `FileStore_stores`, `RootClient_safety`); the proofs of the other modules state
their types in their inductive invariants.

Each property has a faulty variant of some mapped definition that violates it under the same
configuration; PROJECT.json lists the pairs.

### Bounds, and why they are enough

- *Tasks*: two in the session, credentials, download and upload models, three elsewhere. The hazards
  are pairs of calls (two refreshes, a refresh and a retry, a rotation and a request, two downloads);
  a third adds a bystander. With two tasks a call may be followed by any number of further ones.
- `MaxIssued` = 3 in `TokenSession_session`: the first token and two refreshes, which is what it
  takes to save out of order or to rotate a rotated token. `TokenSession_fair` has 2, one reply of the token
  endpoint, a refresh or a login, since the liveness check is much dearer; what several of them do to
  `RefreshNotReplayed` when logins interleave is proved for every bound (section 6).
- `MaxGen` = 4: three rotations or registrations per device, so that a lost one can be
  followed by a healing one and by another.
- `MaxBackups` = 2: two backups of one content are what `OncePerHash` excludes; uploads start only
  while there is an id left for one. Contents: two of length 1, which a length check cannot tell apart,
  and one of length 2, so that a file grows and shrinks; readers also of length 0, which is refused.
- Downloads: objects of one and two chunks, so that a short one can meet the rest of a long one; two
  millisecond names; one crash or one failed removal (`OneMishap`). `View` leaves out what an inode that
  nothing leads to any more still holds: no step reads it.
- Files: values of two lengths and two values of the same one, three mutexes, one write cut off.
- Statuses and codes of `Requests`: one for each row of `kind_for_code` that a property tells apart.
  Inputs: each field of an input takes one value of every class that some SDK tells apart (absent,
  blank, padded, outside the pattern, plain; 0, 1; another SDK's default), in all combinations within
  one record; batches have one item, or any item next to a plain one, since items are validated one by
  one. Since all calls share one decoder, `profile` and `logout` (without and with the device store)
  see every answer, the others an accepted request or a rejected token.
- Sync: two devices, two keys, replies of one change (`PullLimit`), so that every exchange of two edits
  has pages and a snapshot has two; `MaxWrites` = 3, two conflicting edits and a merge or a third edit;
  one lost call, one compaction.
- The installation id: three calls, one cut-off write, ids of two lengths.

`SYMMETRY` is used only in runs without liveness properties, over sets the specification treats alike.

### Fairness

`TokenSession!Fairness` is weak fairness of each task's own steps and of saving a login, and strong
fairness of taking the lock. The executor polls a ready future, so a step that stays possible is taken.
That requests end, with a reply or an error, is an assumption about the network and the HTTP client: the
SDKs set no timeout, and neither have the clients they use by default (`umbra-rust/src/config.rs:257`,
`umbra-go/config.go:83`, `fetch`). An application that wants `CallsReturn` where a peer may stay silent
for ever passes a client, or a context, that has one. The lock is free only between two holders: tokio's
mutex is FIFO by documentation, and Go's hands over to a waiter that starved for a millisecond, so that a
waiter gets it after being passed a bounded number of times; weak fairness would not say that. A login
that waits for the browser (`callback`) is excepted: nothing obliges the user. Starting a call is never
fair. `SingleFlight!FairSpec` is weak fairness of the flight and of each continuation: the event loop runs
a settled promise's callbacks, and `fetch` is assumed to settle. `Sync!Fairness` is weak fairness of each
device's sending, of the server's answer to it and of its application: an application that pulls for ever,
as `more` and the outbox tell it to. Edits stop because `MaxWrites` bounds them, failures because
`MaxLost` does: with failures for ever nothing converges.

## 4. Where code and documentation differ

- `DeviceCredentials_rotate` (`RotationKeepsDevice`): `RotateSecret` of another device of the user
  saves the answer over the credentials of this one (`umbra-go/device.go:213`, alike in the other
  SDKs); the comment at `umbra-go/device.go:190` promises to save only when the device matches.

- `umbra-typescript/README.md:24-25` says that `client.login()` registers the device "when no stored
  `device_id + device_secret` exists". The code registers at every login with a device registration
  (`umbra-typescript/src/client.ts:32-34`, as in the other SDKs), and with that replaces the secret each
  time; `Register` in RootClient follows the code. It is what `LoginBinds` needs: a login of another user
  has to replace the credentials of the one before.

Behaviours the code has that no run states as a property:

- A refresh that is past its load while `logout` clears the store saves its tokens afterwards, and the
  client is logged in again (`LoggedOutStays` says that no other call does this); likewise it may save
  over the tokens of a login. `logout` and `login` do
  not take the refresh lock. Both are behaviours of TokenSession, and the reason why `ImplementsVault` and
  `RetryIsNewer` are stated for one login session.
- `DeviceClient.logout` returns before it clears the store when loading from it fails
  (`umbra-go/device.go:175`), although the comment above it says it always clears; this is the
  exception `failed` in `LogoutClears`.
- Two calls that register or rotate one device at once may save their answers in the other order than
  they were served, and leave a secret the server no longer knows: the exception `crossed` in
  `StoredIsCurrent` and `SignsCurrent`, which ends with the next answer saved by itself.
- umbra-go signs the retry after a 401 with the credentials it loaded for the first attempt
  (`umbra-go/api.go:106`), and fails if they were replaced meanwhile; the two others load them again. The
  retry of umbra-go is excepted in `SignsCurrent`.
- A hash the caller supplies is announced, and negotiated by, without being compared with the bytes sent
  (`umbra-rust/src/backup.rs:483`, `umbra-go/backup.go:203`, `umbra-typescript/src/node.ts:274`). umbra-rust
  and umbra-go replace it when asked to compute one; umbra-typescript prefers it even then. `HashIsOfObject`
  excepts a supplied hash that is not that of the bytes, and nothing else of it.
- A failed download whose temporary file cannot be removed reports the first error only: the exception
  `undeleted` in `NoLitter`.
- umbra-typescript removes the target before the rename when it overwrites (`node.ts:242`), umbra-rust
  leaves its temporary file behind after a failure, and two downloads of umbra-rust or umbra-go to one
  path at once share a temporary name: the conditions in `PathStays`, `NoLitter` and `PathIsWhole`.
- umbra-rust stores the answer to a registration without looking at it; umbra-go and umbra-typescript
  check it: the restriction of `EndsUsable`. The SDKs differ on a blank registration token and on a secret
  contradicting the token: `PlainRegistration` in Registration. Which other inputs they treat differently
  (padded addresses in go, an id or a limit of 0 in rust, blank settings) is written at the operators of
  Arguments and Metadata and excepted by the plain inputs `SameRequest` is stated for.
- Two calls that create the installation id at once answer two ids, one of which is lost: the exception
  `raced` in `OneId`. An id whose write was cut off is taken for an id by later calls.

## 5. What the properties rest on

No SDK compares the length of a downloaded body with the size presigned (`umbra-rust/src/backup.rs:591`,
`umbra-go/backup.go:323`, `umbra-typescript/src/node.ts:337`). That a body cut short is an error and not
the end, the guard of `BodyEnds`, rests on HTTP: on the framing of the body by a length or by chunks, and
on the HTTP clients checking it. `PathIsWhole` then says that no SDK takes such an error for the end. A
server that framed a short body as complete would have it stored.

The server models do what a client can observe: a refresh may or may not rotate the refresh token; a
presented token that was rotated or revoked is refused; a request given up may still be served; a
signature is checked against the current secret. They are external, and marked so in PROJECT.json.
In Sync the server also decides: a mutation takes effect if its id is new and its base version current,
changes are handed out in the order of the log, and a compacted cursor is answered by a reset. This, and
what the application does, is from the READMEs of the SDKs, which are all the repository says of it:
`Sync_converge` shows that the fields of the SDK are enough for the devices to agree, and on which rules
for their use that rests.

## 6. What is proved

Eight modules of proofs, each for every value of the constants that satisfies the assumptions of its
module; ClientProofs and DataProofs are each about two modules, with different specifications. The
assumptions are only: special values (`NoTask`, `NoToken`, `NoCred`, `None`, `NoValue`, `Error`,
`NoContent`, `NoUser`, `Nothing`, `Unset`) are none of the values they are told from; sizes and bounds
are numbers, a page is not empty, and `Keys` is a sequence; the SDKs are those there are; every device id
has a secret. Sets of tasks, callers, devices, logins, users, ids, secrets,
statuses and codes may be infinite. Only Download asks for finitely many
tasks and stamps at once (`FiniteAssumption`), as there are in any process.

| Module | Theorem | Statement |
|---|---|---|
| TokenSessionProofs | `TypeCorrect` | `Spec => []TypeOK` |
| | `NoReplay` | `Spec => []RefreshNotReplayed` |
| | `LogoutFinal` | `Spec => LoggedOutStays` |
| | `RetryNewer` | `SessionSpec => []RetryIsNewer` |
| | `NeverOlder` | `SessionSpec => StoreNeverOlder` |
| | `VaultImplemented` | `SessionSpec => ImplementsVault` |
| SingleFlightProofs | `NoReplay`, `RetryNewer` | `Spec => []RefreshNotReplayed`, `Spec => []RetryIsNewer` |
| | `VaultImplemented` | `Spec => ImplementsVault` |
| | `NeverOlder` | `Spec => Vault!NeverOlder` |
| DeviceCredentialsProofs | `SecretIsCurrent`, `SignatureIsCurrent` | `Spec => []StoredIsCurrent`, `Spec => []SignsCurrent` |
| ClientProofs | `TypeCorrect` | `Spec => []TypeOK` |
| | `LogoutIsComplete`, `LoginIsBound` | `Spec => []LogoutClears`, `Spec => []LoginBinds` |
| | `RequestIsSame`, `OutcomeIsSame` | `CallSpec => []SameRequest`, `[]SameOutcome` |
| | `GenuineIsKept`, `RegisteredIsUsable` | `CallSpec => []GenuineIsStored`, `[]EndsUsable` |
| | `UploadIsFound`, `ExpiredIsNotSent` | `CallSpec => []UploadIsAddressable`, `[]ExpiredIsRefreshed` |
| | `InvalidIsRetried`, `ClosedSucceeds` | `CallSpec => []InvalidIsRefreshed`, `[]ClosedIsLoggedOut` |
| LoopbackProofs | `CodeIsOwn`, `AuthorizationSucceeds`, `PortIsFree` | `Spec => []OwnCode`, `[]AuthorizedSucceeds`, `[]NoServerLeft` |
| FileStoreProofs | `TypeCorrect`, `LastHeld` | `Spec => []TypeOK`, `Spec => []FileIsLast` |
| | `RegisterImplemented` | `Spec => ImplementsRegister` |
| | `IdIsStable` | `AnySpec => []OneId` |
| UploadProofs | `ObjectExists`, `ObjectIsHashed`, `ContentOnce` | `Spec => []ConfirmedIsStored`, `[]HashIsOfObject`, `[]OncePerHash` |
| DataProofs | `PathHoldsOne`, `NothingIsLeft` | `Spec => []PathIsWhole`, `Spec => []NoLitter` |
| | `OwnIsDelivered`, `PathIsKept` | `Spec => DeliversOwn`, `Spec => PathStays` |
| | `EditTakesEffectOnce`, `NothingIsMissed` | `SyncSpec => []OncePerEdit`, `SyncSpec => []ReplicaIsCurrent` |
| | `NoEditIsLost` | `SyncSpec => OnlySettledLeave` |

**The session.** Both proofs have three layers, each an inductive invariant relative to the one below:

1. `BaseInv`: the types; no token set has a number above `issued`; what a task holds at each `pc`, or
   the flight in each `phase`; and, with a lock, that a task is inside `refresh` exactly when it holds it
   (`LockInv`). In SingleFlight there is nothing to exclude: the flight is one variable.
2. `ReplayInv`. `RefreshNotReplayed` alone is not inductive: it needs that no token about to be
   presented was consumed, unless it is in doubt. That is `PresentedInv` for whoever is in `refresh`,
   `StoredInv` for the store (a rotated token is stored only while its successor is in `reply`) and
   `FreshInv` for replies not yet stored (nobody else has, presents or consumed their refresh tokens).
   The case that matters is the serving of a refresh, which consumes the token the store still holds:
   the holder of the lock, or the flight, is in `reply` then, and nobody else presents the token before
   it is replaced or put in doubt.
3. `SessionInv`: `NewestInv` (a reply carries the newest token there is, all others are older) and
   `RetryInv` (what a retry loads is newer than what was rejected). In SingleFlight it is `NewestInv`
   that covers the caller who joins a flight which took off before its own 401. The refinement is then a
   step argument: `VaultInit` maps initial states, `VaultStep` maps each step to `Save`, `GiveUp`,
   `Clear` or a stutter. What the vault promises is proved of the vault (the lemma `VaultOnlyNewer`), and
   holds of SingleFlight by the refinement alone (`NeverOlder`).

`LogoutFinal` needs only `BaseInv`: with an empty store every call on its way to a refresh ends at its load.

**The credentials.** Any number of calls register and rotate at once. `StoredIsCurrent` is strengthened by
`ReplyIsCurrent` (an answer on its way to the store has the server's generation unless its device is
`Suspect`: an `orphan`, or `crossed`) and by `CrossingIsKnown` (two answers on their way for one device have
made it `crossed`), so that an answer saved by itself is the current one. `SignsCurrent` needs
`SavesAreSeen`: a request that is signed while an answer is on its way is marked as overlapped.

**The root client.** `LogInv` says what holds between two steps of a call that ran alone so far: what it
has cleared or saved is still so, since only other calls could have changed it.

**The receivers.** `HeardInv` relates the slot of a receiver to what mattered to the attempt;
`OwnReceiver` is that a login of rust or go waits for its own listener, which lives as long as the login;
`SharedReceiver` says the same of typescript's for a login that nobody overlapped.

**The files.** `LastInv`: while the file is not torn at most one task writes, to a file it emptied
itself. `StoreInv`, for the refinement, has the same from the mutex: whoever writes holds it, and the
file it hides is what the register already has. `IdInv`: as long as calls do not create at once, the one
that does found nothing, and no call has answered yet; every answer is in the file.

**Uploads.** `OwnBackup` (a task's announcement is its own until deleted), `HashedIsSent` (what will be sent
has the hash announced, unless the task is `doubtful`; what rust keeps to be sent is what it hashed),
`GivenIsClaimed` (a backup announced with a hash of the caller's is known to be), `ObjectIsRight` (once the
PUT succeeded the object is the one announced), and `OneCareful` for `OncePerHash`: one upload at a time,
past negotiation only with a content no confirmed backup has. `Opening` says what uploads of files and of
readers have in common when they begin.

**One request in three SDKs.** The operators come first, each with a lemma that two SDKs make the same of
a plain argument (`SamePresign`, `SameTarget`, `SameBuild`, `SameFresh`, ...), gathered in `SamePrepared`.
`RequestInv` then has three parts. `Sending`: nothing is prepared before `Prepare`, and afterwards every
request is the one its arguments give. `Phases`: the SDKs get each answer together, so one that has
refreshed has left all others past their first answer, and without a refresh the last answer is the
first. `Course(s, d)`: where a call that found `d` in its device store can be, and what led it there,
refused, skipped, sent, retried or ended; one `d` serves all SDKs, which is what lets the properties
compare them. Each property follows from it by cases: `EndsUsable` because a success is what `Usable` let
through, `InvalidIsRefreshed` because an answer that names the token invalid makes a call a retry whatever
the request was, `ClosedIsLoggedOut` because of two SDKs only one of which refreshed, the first answer must
have been read differently, which a plain answer is not. What the run enumerates, one value of each class
of status and code, the theorems have for all of them.

**Downloads.** The statement about the path needs the whole file system. `OneName`: no two names have one
inode. `OwnStamp`: until a name was shared, two downloads have different stamps, and with them temporary
names. `OpenIsOwn`: the handle of a download is the inode its temporary name has, holding the chunks
written so far. `ReadyIsWhole`: once the body has ended it holds the object whole. `LitterIsOwned`: a
temporary name of go or typescript is one that a download under way will try to remove or rename, or is
`undeleted`. A created file
needs an inode that no name and no handle has: there is one by counting (`SomeIsFree`, the pigeonhole
principle on the finitely many names and handles), and here the proof found what the model left implicit,
that `Nothing` is no stamp, name or number (`NothingAssumption`).

**Synchronisation.** First the log. `Writes(l, n, k)` are the positions up to n that write record k; the
version is how many they are, the record what the last of them made it. Hence, by the library's facts
about subsets of finite sets, a record only gets newer and two positions with one version have one
record (`RecordGrows`); what is appended changes nothing before it (`RecordStays`); and a record that
differs between two positions is what a write between them made it (`ChangeBetween`). The library says
nothing of maxima, so that there is one comes from the least-number principle (`Largest`). Then
`SyncInv`, in two halves:

- `Mutated`, for `OncePerEdit`, is about every mutation that is *known*: in the log, in an outbox, or in a
  request given up that may still arrive. An id is of one mutation. Of the known mutations of one edit all
  but the newest are `Dead`: not in effect, and based on a version the record has left behind, for good
  (`DeadStays`). Only the newest is in an outbox, and in one only. So a merge, made when the server
  answered that the mutation conflicts, never gives an edit a second chance: `ConflictIsDead` is the step
  where the answer, the log it was computed from, and the log of today have to agree.
- `ReplicatedAt` and `AnsweredAt`, for `ReplicaIsCurrent`: each record of a replica is one there was, and
  those that are `Covered` (all of them, or during a reset those of the pages so far) not from before the
  cursor; a reply on its way is the piece of the log after that very cursor, or that very page of a snapshot.
  The invariant is needed for replies that are applied after the log has grown, and for a reset in which
  records of earlier pages are older than the later ones: the cursor of the first page covers both.

- `CalledAt` has what a call carries: part of the outbox, and nothing during a reset; once answered, each
  mutation is in the log or a conflict, and a conflict is dead. `OnlySettledLeave` follows: what an
  application drops from its outbox took effect or never can. (It is stated in DataProofs; no run checks it.)

Nothing is assumed of how many calls are lost or mutations made.

The proof of `InvalidIsRefreshed` found that `KindForCode`, as a CASE, had overlapping guards, of which
TLA+ may take any while the code takes the first: the code decides, then the status. It is now written so.

Only model-checked: liveness (`CallsReturn` in both sessions, `Converges`), since fairness and ENABLED
are out of the prover's reach. Every invariant, action property and refinement of the runs is proved.

## 7. What is not modelled

- Reading the Windows registry, the UUID of a new installation id and the hash of the fingerprint: I/O
  and formatting. What is made of the values is in Metadata and InstallId.
- Starting an external browser: only whether it succeeds, in Loopback. UserClient is in Requests as a
  call without arguments; its data is passed through.
- PKCE, URL building, the canonical string and the HMAC of signed requests: abstracted to *which*
  verifier, credential or secret was used. HTTP parsing in the receivers: abstracted to the kind of request.
- In umbra-typescript a failed `listen` also rejects the `#callback` promise that nobody awaits yet
  (`node.ts:111-112`); what the runtime does with an unhandled rejection is left out of Loopback.
- The clock of the session: whether a token is due is a free choice in TokenSession and SingleFlight, and
  decided by `ShouldRefresh` in Arguments.
- Five hazards of PROJECT.json have no property, each with its reason: they are races or omissions the
  code has, against nothing any document promises.

## 8. Plan

Done, in this order: TokenVault, TokenSession and its proofs; SingleFlight; DeviceCredentials;
RootClient; Registration and Requests; Loopback; FileStore and Register; Download; Upload; then Arguments,
Metadata, Sync and InstallId; and the proofs of every safety property.

Left:

- a composition of TokenSession and DeviceCredentials for a signed request whose token and whose
  credentials both become stale during one retry;
- larger instances of Download, three downloads to one path with two SDKs on one machine.
