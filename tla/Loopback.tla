------------------------------ MODULE Loopback ------------------------------
(***************************************************************************)
(* The OAuth redirect of a login: AuthClient.login up to the code, and the *)
(* LoopbackCallbackReceiver that listens on 127.0.0.1 for it.  Several     *)
(* logins may be running (a button pressed twice), the port may be fixed,  *)
(* and requests that are not the redirect may reach the server.            *)
(*   - umbra-rust and umbra-go make a receiver for each login; umbra-      *)
(*     typescript has one, in the configuration, which prepare() resets;   *)
(*   - umbra-rust reads one connection, whatever it brings; umbra-go and   *)
(*     umbra-typescript serve all and keep the first redirect: umbra-go    *)
(*     one with a code or an error, umbra-typescript any of that path.     *)
(* A server is named by the login that made it, and a login's attempts     *)
(* follow each other: a redirect of an earlier one is a wrong-state one.   *)
(***************************************************************************)
EXTENDS Naturals

CONSTANTS
    Logins,         \* logins that may be running at once
    Sdks,           \* the SDKs looked at, of "rust", "go" and "ts"
    None            \* no request, no server

ASSUME SdkAssumption == Sdks \subseteq {"rust", "go", "ts"}

\* What may come in: the redirect with the code or with an error (access
\* denied), a redirect of another attempt, the callback path without a code, a
\* request for another path, a connection without a request.
Requests == {"code", "denied", "wrongState", "noCode", "otherPath", "empty"}

ASSUME NoneAssumption == None \notin Logins \cup Requests

VARIABLES
    sdk,        \* the SDK of this behaviour
    fixedPort,  \* whether redirect_uri names a port; otherwise any is taken
    pc,         \* where each login is
    listening,  \* servers that are listening
    slot,       \* server -> the request its receiver keeps, "error" if it failed
    server,     \* typescript: this.#server
    callback,   \* typescript: the server this.#callback waits for
    awaits,     \* the server whose request the login waits for
    out,        \* how the last attempt ended
    heard,      \* history: the first request that mattered to the attempt
    overlap,    \* history: attempts during which another login was running
    upset       \* history: logins overlapped, or the browser could not be opened

vars == <<sdk, fixedPort, pc, listening, slot, server, callback, awaits, out, heard, overlap, upset>>

Running(l) == pc[l] # "idle"

TypeOK ==
    /\ sdk \in Sdks /\ fixedPort \in BOOLEAN
    /\ pc \in [Logins -> {"idle", "open", "receive", "wait"}]
    /\ listening \subseteq Logins
    /\ slot \in [Logins -> Requests \cup {"error", None}]
    /\ server \in Logins \cup {None} /\ callback \in Logins \cup {None}
    /\ awaits \in [Logins -> Logins \cup {None}]
    /\ out \in [Logins -> {"none", "ok", "failed", "dropped"}]
    /\ heard \in [Logins -> Requests \cup {None}]
    /\ overlap \subseteq Logins /\ upset \in BOOLEAN
    /\ \A l \in Logins : pc[l] = "wait" <=> awaits[l] # None
    /\ \A l \in Logins : Running(l) => out[l] = "none"
    /\ fixedPort => \A l, m \in listening : l = m

Init ==
    /\ sdk \in Sdks /\ fixedPort \in BOOLEAN
    /\ pc = [l \in Logins |-> "idle"]
    /\ listening = {}
    /\ slot = [l \in Logins |-> None]
    /\ server = None /\ callback = None
    /\ awaits = [l \in Logins |-> None]
    /\ out = [l \in Logins |-> "none"]
    /\ heard = [l \in Logins |-> None]
    /\ overlap = {} /\ upset = FALSE

-----------------------------------------------------------------------------
Ends(l, o) ==
    /\ pc' = [pc EXCEPT ![l] = "idle"]
    /\ out' = [out EXCEPT ![l] = o]
    /\ awaits' = [awaits EXCEPT ![l] = None]

PortTaken == fixedPort /\ listening # {}

\* Listening: the typescript receiver forgets the server and the callback it
\* had, before it knows whether it can listen.  (A dynamic port is a new one:
\* a server made in an earlier attempt and left listening is not modelled then.)
Prepare(l) ==
    /\ ~Running(l)
    /\ overlap' = LET others == {m \in Logins \ {l} : Running(m)}
                  IN  IF others = {} THEN overlap \ {l} ELSE overlap \cup others \cup {l}
    /\ heard' = [heard EXCEPT ![l] = None]
    /\ IF PortTaken
       THEN /\ slot' = [slot EXCEPT ![l] = "error"]
            /\ Ends(l, "failed")
            /\ UNCHANGED listening
       ELSE /\ slot' = [slot EXCEPT ![l] = None]
            /\ listening' = listening \cup {l}
            /\ pc' = [pc EXCEPT ![l] = "open"]
            /\ out' = [out EXCEPT ![l] = "none"]
            /\ UNCHANGED awaits
    /\ IF sdk = "ts" THEN server' = l /\ callback' = l ELSE UNCHANGED <<server, callback>>
    /\ upset' = (upset \/ \E m \in Logins \ {l} : Running(m))

Opened(l) ==
    /\ pc[l] = "open"
    /\ pc' = [pc EXCEPT ![l] = "receive"]
    /\ UNCHANGED <<listening, slot, server, callback, awaits, out, heard, overlap, upset>>

\* Faulty: the server is left listening, in every SDK.
NotOpenedLeaving(l) ==
    /\ pc[l] = "open"
    /\ Ends(l, "failed")
    /\ upset' = TRUE
    /\ UNCHANGED <<listening, slot, server, callback, heard, overlap>>

\* The browser cannot be opened.  umbra-go closes the server in a defer,
\* umbra-rust drops the listener; umbra-typescript's `finally` is not reached.
NotOpened(l) ==
    /\ pc[l] = "open"
    /\ Ends(l, "failed")
    /\ listening' = IF sdk = "ts" THEN listening ELSE listening \ {l}
    /\ upset' = TRUE
    /\ UNCHANGED <<slot, server, callback, heard, overlap>>

Receive(l) ==
    /\ pc[l] = "receive"
    /\ pc' = [pc EXCEPT ![l] = "wait"]
    /\ awaits' = [awaits EXCEPT ![l] = IF sdk = "ts" THEN callback ELSE l]
    /\ UNCHANGED <<listening, slot, server, callback, out, heard, overlap, upset>>

\* Faulty: any request counts.
CountsAll(r) == TRUE

\* The requests a receiver keeps
Counts(r) ==
    CASE sdk = "rust" -> TRUE
      [] sdk = "go"   -> r \in {"code", "denied", "wrongState"}
      [] OTHER        -> r \in {"code", "denied", "wrongState", "noCode"}

\* The requests that must not disturb a login.  The one connection that umbra-
\* rust reads is an exception to all of them.
Harmless ==
    CASE sdk = "rust" -> {}
      [] sdk = "go"   -> {"noCode", "otherPath", "empty"}
      [] OTHER        -> {"otherPath", "empty"}

\* A request reaches the server of l; the redirect comes after the browser was
\* opened.  A receiver keeps the first one that counts.
Request(l, r) ==
    /\ l \in listening /\ pc[l] # "idle"
    /\ r \in {"code", "denied"} => pc[l] \in {"receive", "wait"}
    /\ slot' = IF slot[l] = None /\ Counts(r) THEN [slot EXCEPT ![l] = r] ELSE slot
    /\ heard' = IF heard[l] = None /\ r \notin Harmless THEN [heard EXCEPT ![l] = r]
                ELSE heard
    /\ UNCHANGED <<pc, listening, server, callback, awaits, out, overlap, upset>>

\* Faulty: the state is not compared.
AcceptsAnyState(l) == slot[awaits[l]] \in {"code", "wrongState"}

\* The state is compared with the login's own, then the error, then the code.
Accepts(l) == awaits[l] = l /\ slot[l] = "code"

\* The login has its callback, or an error, and the server is closed.  The
\* typescript one closes the server the receiver has now, which is an error
\* when that one never listened.
Take(l) ==
    /\ pc[l] = "wait"
    /\ slot[awaits[l]] # None
    /\ IF sdk = "ts" /\ server # None
       THEN /\ Ends(l, IF Accepts(l) /\ server \in listening THEN "ok" ELSE "failed")
            /\ listening' = listening \ {server}
            /\ server' = None
       ELSE /\ Ends(l, IF Accepts(l) THEN "ok" ELSE "failed")
            /\ listening' = IF sdk = "ts" THEN listening ELSE listening \ {l}
            /\ UNCHANGED server
    /\ UNCHANGED <<slot, callback, heard, overlap, upset>>

\* The context is done, or the future is dropped.
Cancel(l) ==
    /\ sdk # "ts"
    /\ pc[l] = "wait"
    /\ Ends(l, "dropped")
    /\ listening' = listening \ {l}
    /\ UNCHANGED <<slot, server, callback, heard, overlap, upset>>

Step(l) == \/ Prepare(l) \/ Opened(l) \/ NotOpened(l) \/ Receive(l)
           \/ Take(l) \/ Cancel(l)
           \/ \E r \in Requests : Request(l, r)

Next == (\E l \in Logins : Step(l)) /\ UNCHANGED <<sdk, fixedPort>>

Spec == Init /\ [][Next]_vars

-----------------------------------------------------------------------------
Disturbed(l) == sdk = "ts" /\ l \in overlap

\* A login that succeeds has the code of its own authorization, even when it
\* waited for a receiver that another login had reset.
OwnCode == \A l \in Logins : out[l] = "ok" => slot[l] = "code" /\ heard[l] = "code"

\* A login whose redirect arrives with a code, before any other request that
\* matters, succeeds; in go and rust whatever other logins do meanwhile.
AuthorizedSucceeds ==
    \A l \in Logins : heard[l] = "code" /\ out[l] = "failed" => Disturbed(l)

\* When no login is running no server is listening, so that a fixed port is free
\* for the next one; in typescript unless logins overlapped or the browser could
\* not be opened.
NoServerLeft ==
    (\A l \in Logins : ~Running(l)) =>
        \/ listening = {}
        \/ sdk = "ts" /\ upset

=============================================================================
