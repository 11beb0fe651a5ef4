--------------------------- MODULE LoopbackProofs ---------------------------
(***************************************************************************)
(* Proofs about Loopback, for any logins at once, any order of requests    *)
(* and any of the three SDKs.                                              *)
(***************************************************************************)
EXTENDS Loopback, TLAPS

\* What a receiver keeps is what matters to the attempt, unless it never listened;
\* the redirect comes after the browser was opened.
HeardInv ==
    \A l \in Logins :
        /\ \/ slot[l] = heard[l]
           \/ slot[l] = "error" /\ heard[l] = None /\ ~Running(l)
        /\ heard[l] = "code" => pc[l] # "open"

\* A login of umbra-rust or umbra-go waits for its own receiver, which listens as
\* long as the login is running.
OwnReceiver ==
    sdk # "ts" => \A l \in Logins : /\ awaits[l] \in {l, None}
                                    /\ Running(l) <=> l \in listening

\* The login l has the shared receiver for itself.
Alone(l) ==
    /\ callback = l /\ server = l /\ l \in listening
    /\ awaits[l] \in {l, None}
    /\ \A m \in Logins \ {l} : ~Running(m)

SharedReceiver ==
    sdk = "ts" =>
        /\ \A l \in Logins : Running(l) => callback # None
        /\ \A l \in Logins : Running(l) /\ (l \notin overlap \/ ~upset) => Alone(l)
        /\ ~upset => \A l \in listening : Running(l)

Inv == TypeOK /\ HeardInv /\ OwnReceiver /\ SharedReceiver /\ OwnCode /\ AuthorizedSucceeds

LEMMA InvInit == Init => Inv
  BY NoneAssumption, SdkAssumption
  DEF Init, Inv, TypeOK, HeardInv, OwnReceiver, SharedReceiver, OwnCode, AuthorizedSucceeds,
      Running, Requests

\* What counts in an SDK is what may matter to its login.
LEMMA CountsMatters ==
    ASSUME sdk \in {"rust", "go", "ts"}, NEW r \in Requests
    PROVE  Counts(r) <=> r \notin Harmless
  BY DEF Counts, Harmless, Requests

LEMMA TypeStep ==
    ASSUME Inv, NEW l \in Logins, Step(l), UNCHANGED <<sdk, fixedPort>>
    PROVE  TypeOK'
  <1> USE NoneAssumption DEF Inv, TypeOK, Running
  <1>1. CASE Prepare(l)
    BY <1>1 DEF Prepare, PortTaken, Ends
  <1>2. CASE Opened(l)
    BY <1>2 DEF Opened
  <1>3. CASE NotOpened(l)
    BY <1>3 DEF NotOpened, Ends
  <1>4. CASE Receive(l)
    BY <1>4 DEF Receive, SharedReceiver
  <1>5. CASE Take(l)
    BY <1>5 DEF Take, Ends
  <1>6. CASE Cancel(l)
    BY <1>6 DEF Cancel, Ends
  <1>7. ASSUME NEW r \in Requests, Request(l, r) PROVE TypeOK'
    BY <1>7 DEF Request
  <1> QED
    BY <1>1, <1>2, <1>3, <1>4, <1>5, <1>6, <1>7 DEF Step

LEMMA HeardStep ==
    ASSUME Inv, NEW l \in Logins, Step(l), UNCHANGED <<sdk, fixedPort>>
    PROVE  HeardInv'
  <1> USE NoneAssumption DEF Inv, TypeOK, HeardInv, Running
  <1>1. CASE Prepare(l)
    BY <1>1 DEF Prepare, PortTaken, Ends, Requests
  <1>2. CASE Opened(l)
    BY <1>2 DEF Opened
  <1>3. CASE NotOpened(l)
    BY <1>3 DEF NotOpened, Ends
  <1>4. CASE Receive(l)
    BY <1>4 DEF Receive
  <1>5. CASE Take(l)
    BY <1>5 DEF Take, Ends
  <1>6. CASE Cancel(l)
    BY <1>6 DEF Cancel, Ends
  <1>7. ASSUME NEW r \in Requests, Request(l, r) PROVE HeardInv'
    <2>1. Counts(r) <=> r \notin Harmless
      BY CountsMatters, SdkAssumption
    <2>2. slot[l] = heard[l]
      BY <1>7 DEF Request
    <2>3. r = "code" => pc[l] # "open"
      BY <1>7 DEF Request
    <2>4. slot'[l] = heard'[l]
      BY <1>7, <2>1, <2>2 DEF Request
    <2>5. heard'[l] \in {heard[l], r} /\ pc' = pc
      BY <1>7 DEF Request
    <2>6. \A m \in Logins \ {l} : slot'[m] = slot[m] /\ heard'[m] = heard[m]
      BY <1>7 DEF Request
    <2> QED
      BY <2>3, <2>4, <2>5, <2>6
  <1> QED
    BY <1>1, <1>2, <1>3, <1>4, <1>5, <1>6, <1>7 DEF Step

LEMMA OwnStep ==
    ASSUME Inv, NEW l \in Logins, Step(l), UNCHANGED <<sdk, fixedPort>>
    PROVE  OwnReceiver'
  <1> USE NoneAssumption DEF Inv, TypeOK, OwnReceiver, Running
  <1> SUFFICES ASSUME sdk # "ts" PROVE OwnReceiver'
    OBVIOUS
  <1>1. CASE Prepare(l)
    BY <1>1 DEF Prepare, PortTaken, Ends
  <1>2. CASE Opened(l)
    BY <1>2 DEF Opened
  <1>3. CASE NotOpened(l)
    BY <1>3 DEF NotOpened, Ends
  <1>4. CASE Receive(l)
    BY <1>4 DEF Receive
  <1>5. CASE Take(l)
    BY <1>5 DEF Take, Ends
  <1>6. CASE Cancel(l)
    BY <1>6 DEF Cancel, Ends
  <1>7. ASSUME NEW r \in Requests, Request(l, r) PROVE OwnReceiver'
    BY <1>7 DEF Request
  <1> QED
    BY <1>1, <1>2, <1>3, <1>4, <1>5, <1>6, <1>7 DEF Step

LEMMA SharedStep ==
    ASSUME Inv, NEW l \in Logins, Step(l), UNCHANGED <<sdk, fixedPort>>
    PROVE  SharedReceiver'
  <1> USE NoneAssumption DEF Inv, TypeOK, SharedReceiver, Alone, Running
  <1> SUFFICES ASSUME sdk = "ts" PROVE SharedReceiver'
    OBVIOUS
  <1>1. CASE Prepare(l)
    <2>1. CASE \E m \in Logins \ {l} : Running(m)
      <3>1. \A m \in Logins : Running(m)' => m \in overlap'
        <4>1. overlap' = overlap \cup {m \in Logins \ {l} : Running(m)} \cup {l}
          <5>1. {m \in Logins \ {l} : Running(m)} # {}
            BY <2>1
          <5> QED
            BY <1>1, <5>1, Zenon DEF Prepare
        <4>2. \A m \in Logins \ {l} : pc'[m] = pc[m]
          BY <1>1 DEF Prepare, Ends
        <4> QED
          BY <4>1, <4>2
      <3>2. upset'
        BY <1>1, <2>1, Zenon DEF Prepare
      <3>3. callback' # None
        BY <1>1 DEF Prepare
      <3> QED
        BY <3>1, <3>2, <3>3
    <2>2. CASE ~\E m \in Logins \ {l} : Running(m)
      BY <1>1, <2>2 DEF Prepare, PortTaken, Ends
    <2> QED
      BY <2>1, <2>2
  <1>2. CASE Opened(l)
    BY <1>2 DEF Opened
  <1>3. CASE NotOpened(l)
    BY <1>3 DEF NotOpened, Ends
  <1>4. CASE Receive(l)
    BY <1>4 DEF Receive
  <1>5. CASE Take(l)
    BY <1>5 DEF Take, Ends
  <1>6. CASE Cancel(l)
    BY <1>6 DEF Cancel
  <1>7. ASSUME NEW r \in Requests, Request(l, r) PROVE SharedReceiver'
    BY <1>7 DEF Request
  <1> QED
    BY <1>1, <1>2, <1>3, <1>4, <1>5, <1>6, <1>7 DEF Step

LEMMA OwnCodeStep ==
    ASSUME Inv, NEW l \in Logins, Step(l), UNCHANGED <<sdk, fixedPort>>
    PROVE  OwnCode'
  <1> USE NoneAssumption DEF Inv, TypeOK, OwnCode, HeardInv, Running
  <1>1. CASE Prepare(l)
    BY <1>1 DEF Prepare, PortTaken, Ends
  <1>2. CASE Opened(l)
    BY <1>2 DEF Opened
  <1>3. CASE NotOpened(l)
    BY <1>3 DEF NotOpened, Ends
  <1>4. CASE Receive(l)
    BY <1>4 DEF Receive
  <1>5. CASE Take(l)
    BY <1>5 DEF Take, Ends, Accepts
  <1>6. CASE Cancel(l)
    BY <1>6 DEF Cancel, Ends
  <1>7. ASSUME NEW r \in Requests, Request(l, r) PROVE OwnCode'
    BY <1>7 DEF Request
  <1> QED
    BY <1>1, <1>2, <1>3, <1>4, <1>5, <1>6, <1>7 DEF Step

LEMMA AuthorizedStep ==
    ASSUME Inv, NEW l \in Logins, Step(l), UNCHANGED <<sdk, fixedPort>>
    PROVE  AuthorizedSucceeds'
  <1> USE NoneAssumption DEF Inv, TypeOK, AuthorizedSucceeds, Disturbed, HeardInv, Running
  <1>1. CASE Prepare(l)
    BY <1>1 DEF Prepare, PortTaken, Ends, Requests
  <1>2. CASE Opened(l)
    BY <1>2 DEF Opened
  <1>3. CASE NotOpened(l)
    BY <1>3 DEF NotOpened, Ends
  <1>4. CASE Receive(l)
    BY <1>4 DEF Receive
  <1>5. CASE Take(l)
    <2>1. heard[l] = "code" /\ ~Disturbed(l) => Accepts(l)
      BY <1>5 DEF Take, Accepts, OwnReceiver, SharedReceiver, Alone
    <2>2. ~Disturbed(l) /\ sdk = "ts" => server \in listening
      BY <1>5 DEF Take, SharedReceiver, Alone
    <2> QED
      BY <1>5, <2>1, <2>2 DEF Take, Ends
  <1>6. CASE Cancel(l)
    BY <1>6 DEF Cancel, Ends
  <1>7. ASSUME NEW r \in Requests, Request(l, r) PROVE AuthorizedSucceeds'
    BY <1>7 DEF Request
  <1> QED
    BY <1>1, <1>2, <1>3, <1>4, <1>5, <1>6, <1>7 DEF Step

LEMMA InvStep == Inv /\ [Next]_vars => Inv'
  <1>1. ASSUME Inv, NEW l \in Logins, Step(l), UNCHANGED <<sdk, fixedPort>> PROVE Inv'
    BY <1>1, TypeStep, HeardStep, OwnStep, SharedStep, OwnCodeStep, AuthorizedStep DEF Inv
  <1>2. ASSUME Inv, UNCHANGED vars PROVE Inv'
    BY <1>2
    DEF vars, Inv, TypeOK, HeardInv, OwnReceiver, SharedReceiver, Alone, OwnCode,
        AuthorizedSucceeds, Disturbed, Running
  <1> QED
    BY <1>1, <1>2 DEF Next

LEMMA Invariant == Spec => []Inv
  BY InvInit, InvStep, PTL DEF Spec

\* A login that succeeds has the code of its own authorization, whoever's receiver
\* it waited for.
THEOREM CodeIsOwn == Spec => []OwnCode
  <1>1. Inv => OwnCode
    BY DEF Inv
  <1> QED
    BY Invariant, <1>1, PTL

\* A login whose redirect comes first with a code succeeds, unless a login that
\* overlapped took the shared receiver from it.
THEOREM AuthorizationSucceeds == Spec => []AuthorizedSucceeds
  <1>1. Inv => AuthorizedSucceeds
    BY DEF Inv
  <1> QED
    BY Invariant, <1>1, PTL

\* Without a login there is no server listening.
THEOREM PortIsFree == Spec => []NoServerLeft
  <1>1. Inv => NoServerLeft
    BY DEF Inv, TypeOK, OwnReceiver, SharedReceiver, NoServerLeft
  <1> QED
    BY Invariant, <1>1, PTL
=============================================================================
