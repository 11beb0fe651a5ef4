---------------------------- MODULE TokenSession ----------------------------
(***************************************************************************)
(* The OAuth session of one SDK client: AuthClient (login, refresh, token, *)
(* logout) together with the part of ApiClient that obtains a token, sends *)
(* a request and retries it once after a 401.                              *)
(*                                                                         *)
(* A task is one call into the client.  Many tasks share the client, its   *)
(* token store and its refresh lock.  Every `.await` is a step boundary:   *)
(* between two steps of a task any step of another task may happen.  The   *)
(* text follows umbra-rust (auth.rs, api.rs); umbra-go has the same steps  *)
(* with a sync.Mutex for the lock.                                         *)
(*                                                                         *)
(* A token set is abstracted to three numbers: the login session it came   *)
(* from, its access token and its refresh token (0: none).  The server     *)
(* numbers what it issues, so a larger number is a newer token.            *)
(***************************************************************************)
EXTENDS Naturals, FiniteSets

CONSTANTS
    Tasks,      \* calls into the client that may be running at once
    NoTask,     \* holder of a free lock
    NoToken,    \* content of an empty token store
    MaxIssued   \* bound on the token sets the server issues

Token == [sess : Nat, acc : Nat, ref : Nat]

ASSUME NoTaskAssumption == NoTask \notin Tasks
ASSUME NoTokenAssumption == NoToken \notin Token \cup Nat
ASSUME MaxIssuedAssumption == MaxIssued \in Nat

VARIABLES
    store,      \* the token store: a token set or NoToken
    lock,       \* refresh_lock: the task inside refresh(), or NoTask
    pc,         \* where each task is
    then,       \* what the task does with the token set it is obtaining
    sent,       \* access token the server answered 401 to; 0: retry_auth still holds
    cur,        \* token set the task loaded
    got,        \* token set in a reply of the token endpoint not stored yet
    issued,     \* server: number of token sets issued
    consumed,   \* server: refresh tokens that were rotated away
    revoked,    \* server: refresh tokens that were revoked
    inDoubt,    \* history: refresh tokens of a request whose outcome was not stored
    replayed    \* history: refresh tokens presented after their rotation

local == <<then, sent, cur, got>>
server == <<issued, consumed, revoked>>
history == <<inDoubt, replayed>>
vars == <<store, lock, pc, local, server, history>>

Locked == {"load", "refresh", "reply"}          \* pcs inside refresh()
PCs == Locked \cup {"idle", "token", "lock", "send", "logout", "revoke", "clear",
                    "callback", "exchanged"}

TypeOK ==
    /\ store \in Token \cup {NoToken}
    /\ lock \in Tasks \cup {NoTask}
    /\ pc \in [Tasks -> PCs]
    /\ then \in [Tasks -> {"done", "send", "token"}]
    /\ sent \in [Tasks -> Nat]
    /\ cur \in [Tasks -> Token \cup {NoToken}]
    /\ got \in [Tasks -> Token \cup {NoToken}]
    /\ issued \in Nat
    /\ consumed \subseteq 1..issued
    /\ revoked \subseteq Nat
    /\ inDoubt \subseteq Nat
    /\ replayed \subseteq Nat

Init ==
    /\ issued = 1
    /\ store \in [sess : {1}, acc : {1}, ref : {0, 1}] \cup {NoToken}
    /\ lock = NoTask
    /\ pc = [t \in Tasks |-> "idle"]
    /\ then = [t \in Tasks |-> "done"]
    /\ sent = [t \in Tasks |-> 0]
    /\ cur = [t \in Tasks |-> NoToken]
    /\ got = [t \in Tasks |-> NoToken]
    /\ consumed = {} /\ revoked = {}
    /\ inDoubt = {} /\ replayed = {}

-----------------------------------------------------------------------------
Goto(t, l) == pc' = [pc EXCEPT ![t] = l]

\* The call returns, with a result or an error; its locals are gone and the
\* guard of refresh_lock, if it held it, is dropped.
Return(t) ==
    /\ Goto(t, "idle")
    /\ then' = [then EXCEPT ![t] = "done"]
    /\ sent' = [sent EXCEPT ![t] = 0]
    /\ cur' = [cur EXCEPT ![t] = NoToken]
    /\ got' = [got EXCEPT ![t] = NoToken]
    /\ lock' = IF lock = t THEN NoTask ELSE lock

-----------------------------------------------------------------------------
(* Faulty variants of actions below: each breaks a property the code keeps. *)

\* Faulty: refresh() without its lock.
LockRefreshUnlocked(t) ==
    /\ pc[t] = "lock"
    /\ lock' = t
    /\ Goto(t, "load")
    /\ UNCHANGED <<store, local, server, history>>

\* Faulty: an empty refresh token is presented like any other.
LoadForRefreshUnchecked(t) ==
    /\ pc[t] = "load"
    /\ store # NoToken
    /\ cur' = [cur EXCEPT ![t] = store]
    /\ Goto(t, "refresh")
    /\ UNCHANGED <<store, lock, then, sent, got, server, history>>

\* Faulty: after a 401 the refresh token that came with the rejected access token
\* is presented, whatever the store holds by now.
LoadForRefreshRemembered(t) ==
    /\ pc[t] = "load"
    /\ (store # NoToken /\ store.ref # 0) \/ sent[t] # 0
    /\ cur' = [cur EXCEPT ![t] =
                 IF sent[t] # 0 THEN [sess |-> 1, acc |-> sent[t], ref |-> sent[t]] ELSE store]
    /\ Goto(t, "refresh")
    /\ UNCHANGED <<store, lock, then, sent, got, server, history>>

\* Faulty: the lock covers the request but not the save.
ServeRefreshUnlocking(t) ==
    /\ pc[t] = "refresh"
    /\ issued < MaxIssued
    /\ cur[t].ref \notin consumed \cup revoked
    /\ got' = [got EXCEPT ![t] = [sess |-> cur[t].sess, acc |-> issued + 1, ref |-> 0]]
    /\ issued' = issued + 1
    /\ lock' = NoTask
    /\ Goto(t, "reply")
    /\ UNCHANGED <<store, then, sent, cur, consumed, revoked, history>>

\* Faulty: an early return without unlocking.
RefuseRefreshHolding(t) ==
    /\ pc[t] = "refresh"
    /\ Goto(t, "idle")
    /\ UNCHANGED <<store, lock, local, server, history>>

\* Faulty: the retry asks token() again without a refresh.
RejectedUnrefreshed(t) ==
    /\ pc[t] = "send"
    /\ sent[t] = 0
    /\ sent' = [sent EXCEPT ![t] = cur[t].acc]
    /\ cur' = [cur EXCEPT ![t] = NoToken]
    /\ Goto(t, "token")
    /\ UNCHANGED <<store, lock, then, got, server, history>>

-----------------------------------------------------------------------------
\* AuthClient::token / refresh / logout / login, and an ApiClient request
Start(t) ==
    /\ pc[t] = "idle"
    /\ \/ \E w \in {"done", "send"} :
             Goto(t, "token") /\ then' = [then EXCEPT ![t] = w]
       \/ \E l \in {"lock", "logout"} :
             Goto(t, l) /\ UNCHANGED then
    /\ UNCHANGED <<store, lock, sent, cur, got, server, history>>

\* The token set is at hand: token() returns it, a request is sent with it.
Use(t, token) ==
    IF then[t] = "done"
    THEN Return(t)
    ELSE /\ Goto(t, "send")
         /\ cur' = [cur EXCEPT ![t] = token]
         /\ got' = [got EXCEPT ![t] = NoToken]
         /\ lock' = IF lock = t THEN NoTask ELSE lock
         /\ UNCHANGED <<then, sent>>

\* token(): the stored set is used as it is unless the clock says it is due
\* and there is a refresh token; whether it is due is left open.
LoadToken(t) ==
    /\ pc[t] = "token"
    /\ store # NoToken
    /\ \/ Use(t, store)
       \/ /\ store.ref # 0
          /\ Goto(t, "lock")
          /\ UNCHANGED <<lock, local>>
    /\ UNCHANGED <<store, server, history>>

-----------------------------------------------------------------------------
(* refresh() *)

LockRefresh(t) ==
    /\ pc[t] = "lock"
    /\ lock = NoTask
    /\ lock' = t
    /\ Goto(t, "load")
    /\ UNCHANGED <<store, local, server, history>>

LoadForRefresh(t) ==
    /\ pc[t] = "load"
    /\ store # NoToken /\ store.ref # 0
    /\ cur' = [cur EXCEPT ![t] = store]
    /\ Goto(t, "refresh")
    /\ UNCHANGED <<store, lock, then, sent, got, server, history>>

\* The token endpoint issues a new access token; it may rotate the refresh
\* token, and then the presented one is dead, or leave it out of the reply.
ServeRefresh(t) ==
    /\ pc[t] = "refresh"
    /\ issued < MaxIssued
    /\ cur[t].ref \notin consumed \cup revoked
    /\ \E ref \in {0, issued + 1} :
          /\ got' = [got EXCEPT ![t] = [sess |-> cur[t].sess, acc |-> issued + 1, ref |-> ref]]
          /\ consumed' = IF ref = 0 THEN consumed ELSE consumed \cup {cur[t].ref}
    /\ issued' = issued + 1
    /\ Goto(t, "reply")
    /\ UNCHANGED <<store, lock, then, sent, cur, revoked, history>>

\* ... or refuses.  A refresh token that was already rotated is a replay.
RefuseRefresh(t) ==
    /\ pc[t] = "refresh"
    /\ replayed' = replayed \cup ({cur[t].ref} \cap consumed)
    /\ Return(t)
    /\ UNCHANGED <<store, server, inDoubt>>

\* A reply without a refresh token keeps the one that was presented.
Kept(t) == IF got[t].ref = 0 THEN [got[t] EXCEPT !.ref = cur[t].ref] ELSE got[t]

\* The new set is saved, the lock released, and the caller goes on: token()
\* and refresh() return, a request that asked token() is sent, a request that
\* was answered 401 starts over at token().
SaveRefresh(t) ==
    /\ pc[t] = "reply"
    /\ store' = Kept(t)
    /\ IF then[t] = "token"
       THEN /\ Goto(t, "token")
            /\ then' = [then EXCEPT ![t] = "send"]
            /\ cur' = [cur EXCEPT ![t] = NoToken]
            /\ got' = [got EXCEPT ![t] = NoToken]
            /\ lock' = NoTask
            /\ UNCHANGED sent
       ELSE Use(t, Kept(t))
    /\ UNCHANGED <<server, history>>

\* The connection breaks before or after the server has served the request, the
\* reply is malformed, the save fails, or the future is dropped.
LoseRefresh(t) ==
    /\ pc[t] \in {"refresh", "reply"}
    /\ inDoubt' = inDoubt \cup {cur[t].ref}
    /\ Return(t)
    /\ UNCHANGED <<store, server, replayed>>

\* A request the client gave up on still reaches the server.  What it issues
\* reaches nobody, so it is not numbered.
ServeLate ==
    /\ \E ref \in inDoubt \ revoked :
          /\ consumed' = consumed \cup {ref}
          /\ replayed' = replayed \cup ({ref} \cap consumed)
    /\ UNCHANGED <<store, lock, pc, local, issued, revoked, inDoubt>>

-----------------------------------------------------------------------------
(* ApiClient::send_json *)

\* Any answer but a 401, a second 401 included.
Answered(t) ==
    /\ pc[t] = "send"
    /\ Return(t)
    /\ UNCHANGED <<store, server, history>>

\* The first 401: refresh() whatever the stored set is by now, then start over
\* with retry_auth = false.
Rejected(t) ==
    /\ pc[t] = "send"
    /\ sent[t] = 0
    /\ sent' = [sent EXCEPT ![t] = cur[t].acc]
    /\ then' = [then EXCEPT ![t] = "token"]
    /\ cur' = [cur EXCEPT ![t] = NoToken]
    /\ Goto(t, "lock")
    /\ UNCHANGED <<store, lock, got, server, history>>

-----------------------------------------------------------------------------
(* logout() and login(); neither takes the refresh lock *)

LoadForLogout(t) ==
    /\ pc[t] = "logout"
    /\ cur' = [cur EXCEPT ![t] = store]
    /\ Goto(t, IF store = NoToken THEN "clear" ELSE "revoke")
    /\ UNCHANGED <<store, lock, then, sent, got, server, history>>

\* Both revocations; a failure of either is ignored.
Revoke(t) ==
    /\ pc[t] = "revoke"
    /\ revoked' \in {revoked, revoked \cup ({cur[t].ref} \ {0})}
    /\ cur' = [cur EXCEPT ![t] = NoToken]
    /\ Goto(t, "clear")
    /\ UNCHANGED <<store, lock, then, sent, got, issued, consumed, history>>

Clear(t) ==
    /\ pc[t] = "clear"
    /\ store' = NoToken
    /\ Return(t)
    /\ UNCHANGED <<server, history>>

StartLogin(t) ==
    /\ pc[t] = "idle"
    /\ Goto(t, "callback")
    /\ UNCHANGED <<store, lock, local, server, history>>

\* The browser callback arrived and the code is exchanged for a new session.
ServeExchange(t) ==
    /\ pc[t] = "callback"
    /\ issued < MaxIssued
    /\ issued' = issued + 1
    /\ \E ref \in {0, issued'} :
          got' = [got EXCEPT ![t] = [sess |-> issued', acc |-> issued', ref |-> ref]]
    /\ Goto(t, "exchanged")
    /\ UNCHANGED <<store, lock, then, sent, cur, consumed, revoked, history>>

SaveLogin(t) ==
    /\ pc[t] = "exchanged"
    /\ store' = got[t]
    /\ Return(t)
    /\ UNCHANGED <<server, history>>

\* A `?`: the step fails and changes nothing (a store error, no token set, no
\* refresh token, an unreachable server, an authorization error).
Fail(t) ==
    /\ pc[t] \in {"token", "load", "send", "logout", "clear", "callback", "exchanged"}
    /\ Return(t)
    /\ UNCHANGED <<store, server, history>>

\* The caller drops the future while it waits; elsewhere this looks like Fail
\* or LoseRefresh.
Drop(t) ==
    /\ pc[t] \in {"lock", "revoke"}
    /\ Return(t)
    /\ UNCHANGED <<store, server, history>>

-----------------------------------------------------------------------------
Progress(t) ==
    \/ LoadToken(t) \/ LoadForRefresh(t)
    \/ ServeRefresh(t) \/ RefuseRefresh(t) \/ SaveRefresh(t) \/ LoseRefresh(t)
    \/ Answered(t) \/ Rejected(t)
    \/ LoadForLogout(t) \/ Revoke(t) \/ Clear(t)
    \/ Fail(t)

SessionStep(t) == Start(t) \/ LockRefresh(t) \/ Progress(t) \/ Drop(t)
LoginStep(t) == StartLogin(t) \/ ServeExchange(t) \/ SaveLogin(t)

Next == ServeLate \/ \E t \in Tasks : SessionStep(t) \/ LoginStep(t)
Spec == Init /\ [][Next]_vars

\* One session: the store was filled by an earlier login.
SessionNext == ServeLate \/ \E t \in Tasks : SessionStep(t)
SessionSpec == Init /\ [][SessionNext]_vars

\* A task that is running keeps going: the executor polls it, every request it
\* waits for is answered or fails, and the mutex is handed over in FIFO order.
\* Nothing obliges a task to start, nor the user to finish in the browser.
Fairness ==
    \A t \in Tasks :
        WF_vars(Progress(t)) /\ WF_vars(SaveLogin(t)) /\ SF_vars(LockRefresh(t))
FairSpec == Spec /\ Fairness

-----------------------------------------------------------------------------
(* Properties *)

\* Rotating refresh tokens are single use: presenting one again makes the
\* server revoke the whole session.  refresh() loads the stored token and
\* saves its successor under refresh_lock, so that a rotated token is only
\* ever presented again when the outcome of an earlier request with it was
\* not stored, whatever logins and logouts run meanwhile.
RefreshNotReplayed == replayed \subseteq inDoubt

\* A request that was answered 401 is retried with a token newer than the one
\* the server rejected, although the refresh and the second token() load the
\* store at different times (one session).
RetryIsNewer ==
    \A t \in Tasks : pc[t] = "send" /\ sent[t] # 0 => cur[t].acc > sent[t]

\* The stored token set is never replaced by an older one (one session): of
\* two refreshes the later one to be served is the later one to be saved.
StoreNeverOlder ==
    [][store # NoToken /\ store' # NoToken => store'.acc >= store.acc]_vars

\* The one-session client implements the vault.  A token that was issued and
\* is on its way to the store does not count yet.
Vault == INSTANCE TokenVault WITH
    Empty <- NoToken,
    held <- IF store = NoToken THEN NoToken ELSE store.acc,
    floor <- IF \E t \in Tasks : pc[t] = "reply" THEN issued - 1 ELSE issued
ImplementsVault == Vault!Spec

\* Whoever is about to put a token set into the store: a refresh past the load of
\* the old one, or a login.
Filling(t) == pc[t] \in {"refresh", "reply", "callback", "exchanged"}

\* A logout is final: once the store is empty and nobody is about to fill it, it
\* stays empty until the user starts a login, whatever requests, retries after a
\* 401 and waiting refreshes of the old session go on.  A refresh that is past its
\* load when the logout clears the store does fill it again.
LoggedOutStays ==
    [][store = NoToken /\ (\A t \in Tasks : ~Filling(t))
         => /\ store' = NoToken
            /\ \A t \in Tasks : Filling(t)' => pc'[t] = "callback"]_vars

\* Every call that does not wait for the user returns, whichever of its steps
\* fails: no task waits forever for refresh_lock, also when the holder returned
\* early, and a request is not retried forever.
CallsReturn ==
    \A t \in Tasks : pc[t] \notin {"idle", "callback"} ~> pc[t] = "idle"
=============================================================================
