---------------------------- MODULE SingleFlight ----------------------------
(***************************************************************************)
(* Refreshing the OAuth session in umbra-typescript (auth.ts, api.ts).     *)
(* There is no lock: the first caller that wants a refresh starts one, the *)
(* flight, and every caller that wants one before it has landed awaits the *)
(* same promise and receives the same result.                              *)
(*                                                                         *)
(* JavaScript runs one continuation at a time, so a step reaches from one  *)
(* await to the next; what a caller read before an await may be stale in   *)
(* the continuation.  Tokens are numbered as in TokenSession; one session, *)
(* filled by an earlier login.                                             *)
(***************************************************************************)
EXTENDS Naturals

CONSTANTS
    Callers,    \* calls into the client that may be running at once
    NoToken,    \* content of an empty token store
    MaxIssued   \* bound on the token sets the server issues

Token == [acc : Nat, ref : Nat]

ASSUME NoTokenAssumption == NoToken \notin Token \cup Nat
ASSUME MaxIssuedAssumption == MaxIssued \in Nat

VARIABLES
    store,      \* the token store
    phase,      \* of #refreshInner: "none" while #refreshing is null
    pres,       \* token set the flight loaded
    got,        \* token set the token endpoint answered, not stored yet
    pc, then,   \* per caller, as in TokenSession
    cur,        \* per caller: the token set it loaded or sends
    sent,       \* per caller: access token answered 401, 0 while retryAuth
    issued, consumed,   \* server
    inDoubt, replayed   \* history, as in TokenSession

flight == <<phase, pres, got>>
caller == <<pc, then, cur, sent>>
server == <<issued, consumed>>
history == <<inDoubt, replayed>>
vars == <<store, flight, caller, server, history>>

Init ==
    /\ store \in [acc : {1}, ref : {0, 1}] \cup {NoToken}
    /\ phase = "none" /\ pres = NoToken /\ got = NoToken
    /\ pc = [t \in Callers |-> "idle"]
    /\ then = [t \in Callers |-> "done"]
    /\ cur = [t \in Callers |-> NoToken]
    /\ sent = [t \in Callers |-> 0]
    /\ issued = 1 /\ consumed = {}
    /\ inDoubt = {} /\ replayed = {}

-----------------------------------------------------------------------------
Return(t) ==
    /\ pc' = [pc EXCEPT ![t] = "idle"]
    /\ then' = [then EXCEPT ![t] = "done"]
    /\ cur' = [cur EXCEPT ![t] = NoToken]
    /\ sent' = [sent EXCEPT ![t] = 0]

\* Faulty: every caller that wants a refresh starts one.
JoinRestarting(t) ==
    /\ pc' = [pc EXCEPT ![t] = "wait"]
    /\ cur' = [cur EXCEPT ![t] = NoToken]
    /\ phase' = "load"
    /\ UNCHANGED <<pres, got>>

\* refresh(): join the flight, or start it.
Join(t) ==
    /\ pc' = [pc EXCEPT ![t] = "wait"]
    /\ cur' = [cur EXCEPT ![t] = NoToken]
    /\ phase' = IF phase = "none" THEN "load" ELSE phase
    /\ UNCHANGED <<pres, got>>

\* token(), refresh(), logout() and a request
Start(t) ==
    /\ pc[t] = "idle"
    /\ \/ /\ pc' = [pc EXCEPT ![t] = "token"]
          /\ \E w \in {"done", "send"} : then' = [then EXCEPT ![t] = w]
          /\ UNCHANGED <<flight, cur, sent>>
       \/ Join(t) /\ UNCHANGED <<then, sent>>
       \/ pc' = [pc EXCEPT ![t] = "logout"] /\ UNCHANGED <<flight, then, cur, sent>>
    /\ UNCHANGED <<store, server, history>>

LoadToken(t) ==
    /\ pc[t] = "token"
    /\ cur' = [cur EXCEPT ![t] = store]
    /\ pc' = [pc EXCEPT ![t] = "decide"]
    /\ UNCHANGED <<store, flight, then, sent, server, history>>

\* The continuation of token(), on the token set read before the await.
Decide(t) ==
    /\ pc[t] = "decide"
    /\ \/ /\ cur[t] = NoToken \/ then[t] = "done"
          /\ Return(t) /\ UNCHANGED flight
       \/ /\ cur[t] # NoToken /\ then[t] = "send"
          /\ pc' = [pc EXCEPT ![t] = "send"]
          /\ UNCHANGED <<flight, then, cur, sent>>
       \/ /\ cur[t] # NoToken /\ cur[t].ref # 0
          /\ Join(t) /\ UNCHANGED <<then, sent>>
    /\ UNCHANGED <<store, server, history>>

-----------------------------------------------------------------------------
(* #refreshInner *)

Waiting == {t \in Callers : pc[t] = "wait"}

\* Faulty: only one of the callers that await the flight is settled.
LandOne(result) ==
    /\ phase' = "none" /\ pres' = NoToken /\ got' = NoToken
    /\ \E t \in Waiting : Return(t)

\* The promise settles: #refreshing is reset, then every waiting caller goes on
\* with the result, or fails if there is none.
Land(result) ==
    LET next(t) == IF result = NoToken \/ then[t] = "done" THEN "idle" ELSE then[t]
    IN  /\ phase' = "none" /\ pres' = NoToken /\ got' = NoToken
        /\ pc' = [t \in Callers |-> IF t \in Waiting THEN next(t) ELSE pc[t]]
        /\ then' = [t \in Callers |-> IF t \notin Waiting THEN then[t]
                                      ELSE IF next(t) = "idle" THEN "done" ELSE "send"]
        /\ cur' = [t \in Callers |-> IF t \notin Waiting THEN cur[t]
                                     ELSE IF next(t) = "send" THEN result ELSE NoToken]
        /\ sent' = [t \in Callers |-> IF t \in Waiting /\ next(t) = "idle" THEN 0 ELSE sent[t]]

\* The load, which fails without a token set or a refresh token.
FlightLoad ==
    /\ phase = "load"
    /\ \/ Land(NoToken)
       \/ /\ store # NoToken /\ store.ref # 0
          /\ phase' = "refresh" /\ pres' = store
          /\ UNCHANGED <<got, caller>>
    /\ UNCHANGED <<store, server, history>>

\* The token endpoint, as in TokenSession.
FlightServe ==
    /\ phase = "refresh"
    /\ issued < MaxIssued
    /\ pres.ref \notin consumed
    /\ \E ref \in {0, issued + 1} :
          /\ got' = [acc |-> issued + 1, ref |-> ref]
          /\ consumed' = IF ref = 0 THEN consumed ELSE consumed \cup {pres.ref}
    /\ issued' = issued + 1
    /\ phase' = "reply"
    /\ UNCHANGED <<store, pres, caller, history>>

\* The token endpoint refuses, for instance because a logout has revoked the
\* refresh token.
FlightRefused ==
    /\ phase = "refresh"
    /\ replayed' = replayed \cup ({pres.ref} \cap consumed)
    /\ Land(NoToken)
    /\ UNCHANGED <<store, server, inDoubt>>

\* Faulty: only the refresh token of the stored set is replaced.
KeptOld == [acc |-> pres.acc, ref |-> IF got.ref = 0 THEN pres.ref ELSE got.ref]

Kept == IF got.ref = 0 THEN [got EXCEPT !.ref = pres.ref] ELSE got

FlightSave ==
    /\ phase = "reply"
    /\ store' = Kept
    /\ Land(Kept)
    /\ UNCHANGED <<server, history>>

\* The request, the parsing of its reply or the save fails.
FlightLost ==
    /\ phase \in {"refresh", "reply"}
    /\ inDoubt' = inDoubt \cup {pres.ref}
    /\ Land(NoToken)
    /\ UNCHANGED <<store, server, replayed>>

ServeLate ==
    /\ \E ref \in inDoubt :
          /\ consumed' = consumed \cup {ref}
          /\ replayed' = replayed \cup ({ref} \cap consumed)
    /\ UNCHANGED <<store, flight, caller, issued, inDoubt>>

-----------------------------------------------------------------------------
(* #send and logout *)

Answered(t) ==
    /\ pc[t] = "send"
    /\ Return(t)
    /\ UNCHANGED <<store, flight, server, history>>

\* Faulty: the retry does not wait for the refresh.
RejectedUnrefreshed(t) ==
    /\ pc[t] = "send"
    /\ sent[t] = 0
    /\ sent' = [sent EXCEPT ![t] = cur[t].acc]
    /\ pc' = [pc EXCEPT ![t] = "token"]
    /\ UNCHANGED <<store, flight, then, cur, server, history>>

\* The first 401: await refresh(), then #send again with retryAuth = false.
Rejected(t) ==
    /\ pc[t] = "send"
    /\ sent[t] = 0
    /\ sent' = [sent EXCEPT ![t] = cur[t].acc]
    /\ then' = [then EXCEPT ![t] = "token"]
    /\ Join(t)
    /\ UNCHANGED <<store, server, history>>

\* Load and revoke (what it revokes the server may refuse), then clear; a
\* store error ends either step.
Revoke(t) ==
    /\ pc[t] = "logout"
    /\ pc' = [pc EXCEPT ![t] = "clear"]
    /\ UNCHANGED <<store, flight, then, cur, sent, server, history>>

Clear(t) ==
    /\ pc[t] = "clear"
    /\ store' = NoToken
    /\ Return(t)
    /\ UNCHANGED <<flight, server, history>>

StoreFails(t) ==
    /\ pc[t] \in {"token", "logout", "clear"}
    /\ Return(t)
    /\ UNCHANGED <<store, flight, server, history>>

Flight == FlightLoad \/ FlightServe \/ FlightRefused \/ FlightSave \/ FlightLost
Progress(t) == LoadToken(t) \/ Decide(t) \/ Answered(t) \/ Rejected(t)
                 \/ Revoke(t) \/ Clear(t) \/ StoreFails(t)

Next == Flight \/ ServeLate \/ \E t \in Callers : Start(t) \/ Progress(t)
Spec == Init /\ [][Next]_vars

\* The event loop runs every continuation, and fetch settles.
FairSpec == Spec /\ WF_vars(Flight) /\ \A t \in Callers : WF_vars(Progress(t))

-----------------------------------------------------------------------------
(* Properties *)

\* #refreshing admits one flight at a time, and the next one loads what the
\* last one saved: a rotated refresh token is presented again only when the
\* outcome of an earlier request with it was not stored.
RefreshNotReplayed == replayed \subseteq inDoubt

\* A caller that was answered 401 may join a flight that took off before its
\* request was rejected; what it is retried with is newer all the same.
RetryIsNewer ==
    \A t \in Callers : pc[t] = "send" /\ sent[t] # 0 => cur[t].acc > sent[t]

\* The shared flight keeps the promise the refresh lock of the other clients
\* keeps.
Vault == INSTANCE TokenVault WITH
    Empty <- NoToken,
    held <- IF store = NoToken THEN NoToken ELSE store.acc,
    floor <- IF phase = "reply" THEN issued - 1 ELSE issued
ImplementsVault == Vault!Spec

\* Every caller is settled, also those whose flight fails and those that join
\* late.
CallsReturn == \A t \in Callers : pc[t] # "idle" ~> pc[t] = "idle"
=============================================================================
