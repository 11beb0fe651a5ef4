------------------------- MODULE SingleFlightProofs -------------------------
(***************************************************************************)
(* Proofs about SingleFlight, for any set of callers and any bound on the  *)
(* tokens issued: the shared promise keeps what the refresh lock keeps.    *)
(***************************************************************************)
EXTENDS SingleFlight, TLAPS

Held == Token \cup {NoToken}
PCs == {"idle", "token", "decide", "wait", "send", "logout", "clear"}

ClientTypes ==
    /\ store \in Held
    /\ pc \in [Callers -> PCs]
    /\ then \in [Callers -> {"done", "send", "token"}]
    /\ cur \in [Callers -> Held]
    /\ sent \in [Callers -> Nat]
    /\ \A t \in Callers : pc[t] = "send" => cur[t] \in Token

FlightTypes ==
    /\ phase \in {"none", "load", "refresh", "reply"}
    /\ pres \in Held /\ got \in Held
    /\ phase \in {"refresh", "reply"} => pres \in Token /\ pres.ref # 0
    /\ phase = "reply" => got \in Token

ServerTypes ==
    /\ issued \in Nat
    /\ consumed \subseteq 0..issued
    /\ inDoubt \subseteq 0..issued
    /\ replayed \subseteq Nat

\* No token set has a number above the last one issued.
Known(token) == token # NoToken => token.acc \leq issued /\ token.ref \leq issued

NumbersInv ==
    /\ Known(store) /\ Known(pres)
    /\ \A t \in Callers : Known(cur[t]) /\ sent[t] \leq issued

\* A flight that is to present a rotated refresh token knows of no successor.
PresentedInv == phase = "refresh" /\ pres.ref \in consumed => pres.ref \in inDoubt

\* A rotated refresh token is stored only while its successor is under way.
StoredInv ==
    store # NoToken /\ store.ref \in consumed =>
        store.ref \in inDoubt \/ (phase = "reply" /\ pres.ref = store.ref)

\* A reply is the newest token set, and nobody has presented its refresh token.
FreshInv ==
    phase = "reply" =>
        /\ got.acc = issued /\ issued # 0
        /\ got.ref \in {0, issued}
        /\ got.ref # 0 => got.ref \notin consumed \cup inDoubt
        /\ got.ref = 0 => (pres.ref \in consumed => pres.ref \in inDoubt)

ReplayInv == PresentedInv /\ StoredInv /\ FreshInv /\ RefreshNotReplayed

BaseInv == ClientTypes /\ FlightTypes /\ ServerTypes /\ NumbersInv

\* While a reply is under way, every other token set is older than it.
NewestInv ==
    phase = "reply" =>
        /\ store # NoToken => store.acc < issued
        /\ \A t \in Callers : (cur[t] # NoToken => cur[t].acc < issued) /\ sent[t] < issued

\* What a retry loads, or has loaded, is newer than what was rejected.
RetryInv ==
    \A t \in Callers :
        /\ pc[t] = "idle" => sent[t] = 0
        /\ pc[t] = "token" /\ sent[t] # 0 /\ store # NoToken => store.acc > sent[t]
        /\ pc[t] = "decide" /\ sent[t] # 0 /\ cur[t] # NoToken => cur[t].acc > sent[t]
        /\ pc[t] = "send" /\ sent[t] # 0 => cur[t].acc > sent[t]

SessionInv == NewestInv /\ RetryInv

-----------------------------------------------------------------------------
LEMMA InvInit == Init => BaseInv /\ ReplayInv /\ SessionInv
  <1> SUFFICES ASSUME Init PROVE BaseInv /\ ReplayInv /\ SessionInv
    OBVIOUS
  <1> USE NoTokenAssumption DEF Init
  <1>1. ClientTypes /\ FlightTypes /\ ServerTypes
    BY DEF ClientTypes, FlightTypes, ServerTypes, Held, PCs, Token
  <1>2. NumbersInv
    BY DEF NumbersInv, Known
  <1>3. ReplayInv
    BY DEF ReplayInv, PresentedInv, StoredInv, FreshInv, RefreshNotReplayed
  <1>4. SessionInv
    BY DEF SessionInv, NewestInv, RetryInv
  <1> QED
    BY <1>1, <1>2, <1>3, <1>4 DEF BaseInv

\* What a flight stores is a token set of the reply's number.
LEMMA KeptToken ==
    ASSUME FlightTypes, phase = "reply"
    PROVE  Kept \in Token /\ Kept.acc = got.acc
           /\ Kept.ref = IF got.ref = 0 THEN pres.ref ELSE got.ref
  BY DEF FlightTypes, Kept, Token

LEMMA TokenIsHeld == ASSUME NEW token \in Token PROVE token \in Held /\ token # NoToken
  BY NoTokenAssumption DEF Held

-----------------------------------------------------------------------------
(* The types. *)

LEMMA LandTypes ==
    ASSUME ClientTypes, NEW result \in Held, Land(result), store' \in Held
    PROVE  ClientTypes' /\ FlightTypes'
  <1>1. ClientTypes'
    BY DEF Land, ClientTypes, PCs, Held
  <1>2. FlightTypes'
    BY DEF Land, FlightTypes, Held
  <1> QED
    BY <1>1, <1>2

LEMMA CallerTypes ==
    ASSUME ClientTypes, FlightTypes,
           NEW t \in Callers, Start(t) \/ Progress(t)
    PROVE  ClientTypes' /\ FlightTypes' /\ UNCHANGED <<server, history>>
  <1> USE DEF ClientTypes, FlightTypes, Held, PCs, flight, caller, Join, Return
  <1>1. CASE Start(t)
    BY <1>1 DEF Start
  <1>2. CASE LoadToken(t)
    BY <1>2 DEF LoadToken
  <1>3. CASE Decide(t)
    BY <1>3 DEF Decide
  <1>4. CASE Rejected(t)
    <2>1. cur[t].acc \in Nat
      BY <1>4 DEF Rejected, Token
    <2>2. sent' \in [Callers -> Nat]
      BY <1>4, <2>1 DEF Rejected
    <2> QED
      BY <1>4, <2>2 DEF Rejected
  <1>5. CASE Answered(t) \/ Revoke(t) \/ Clear(t) \/ StoreFails(t)
    BY <1>5 DEF Answered, Revoke, Clear, StoreFails
  <1> QED
    BY <1>1, <1>2, <1>3, <1>4, <1>5 DEF Progress

LEMMA TypesStep ==
    ASSUME ClientTypes, FlightTypes, issued \in Nat, [Next]_vars
    PROVE  ClientTypes' /\ FlightTypes'
  <1>1. CASE FlightLoad
    <2>1. CASE Land(NoToken)
      BY <1>1, <2>1, LandTypes DEF FlightLoad, ClientTypes, Held
    <2>2. CASE ~Land(NoToken)
      BY <1>1, <2>2 DEF FlightLoad, ClientTypes, FlightTypes, Held, caller
    <2> QED
      BY <2>1, <2>2
  <1>2. CASE FlightServe
    <2>1. got' \in Token
      BY <1>2 DEF FlightServe, Token
    <2> QED
      BY <1>2, <2>1 DEF FlightServe, ClientTypes, FlightTypes, Held, Token, caller
  <1>3. CASE FlightRefused \/ FlightLost
    BY <1>3, LandTypes DEF FlightRefused, FlightLost, ClientTypes, Held
  <1>4. CASE FlightSave
    BY <1>4, KeptToken, LandTypes, TokenIsHeld DEF FlightSave
  <1>5. CASE ServeLate
    BY <1>5 DEF ServeLate, ClientTypes, FlightTypes, flight, caller
  <1>6. ASSUME NEW t \in Callers, Start(t) \/ Progress(t) PROVE ClientTypes' /\ FlightTypes'
    BY <1>6, CallerTypes
  <1>7. CASE UNCHANGED vars
    BY <1>7 DEF vars, ClientTypes, FlightTypes, flight, caller
  <1> QED
    BY <1>1, <1>2, <1>3, <1>4, <1>5, <1>6, <1>7 DEF Next, Flight

\* Landing adds no number but those of the result.
LEMMA LandNumbers ==
    ASSUME BaseInv, NEW result \in Held, Known(result), Land(result), UNCHANGED issued,
           store' \in {store, result}
    PROVE  NumbersInv'
  <1>1. (Known(store) /\ Known(pres))'
    BY DEF BaseInv, NumbersInv, Known, Land
  <1>2. ASSUME NEW t \in Callers PROVE (Known(cur[t]) /\ sent[t] \leq issued)'
    BY <1>2 DEF BaseInv, ClientTypes, ServerTypes, NumbersInv, Known, Land
  <1> QED
    BY <1>1, <1>2 DEF NumbersInv

LEMMA NothingIsHeld == NoToken \in Held /\ Known(NoToken)
  BY DEF Held, Known

\* A caller's own step adds no token set and no number.
LEMMA CallerNumbers ==
    ASSUME BaseInv, NEW u \in Callers, Start(u) \/ Progress(u), NEW t \in Callers
    PROVE  /\ cur'[t] \in {cur[t], store, NoToken}
           /\ sent'[t] \in {sent[t], 0} \/ (cur[t] # NoToken /\ sent'[t] = cur[t].acc)
           /\ store' \in {store, NoToken}
           /\ UNCHANGED <<issued, pres, got>>
  <1> USE DEF BaseInv, ClientTypes, server, flight, Return, Join
  <1>1. CASE Start(u)
    BY <1>1 DEF Start
  <1>2. CASE LoadToken(u) \/ Decide(u)
    BY <1>2 DEF LoadToken, Decide
  <1>3. CASE Rejected(u)
    BY <1>3, TokenIsHeld DEF Rejected
  <1>4. CASE Answered(u) \/ Revoke(u) \/ Clear(u) \/ StoreFails(u)
    BY <1>4 DEF Answered, Revoke, Clear, StoreFails
  <1> QED
    BY <1>1, <1>2, <1>3, <1>4 DEF Progress

LEMMA NumbersStep ==
    ASSUME BaseInv, FreshInv, [Next]_vars
    PROVE  ServerTypes' /\ NumbersInv'
  <1> USE DEF server, history
  <1>0. /\ issued \in Nat /\ ServerTypes /\ NumbersInv
        /\ pres \in Token => pres.ref \in 0..issued
    BY NoTokenAssumption DEF BaseInv, ServerTypes, NumbersInv, Known, Token
  <1>1. CASE FlightLoad
    <2>1. ServerTypes'
      BY <1>0, <1>1 DEF FlightLoad, ServerTypes
    <2>2. CASE Land(NoToken)
      BY <1>0, <1>1, <2>1, <2>2, LandNumbers, NothingIsHeld DEF FlightLoad
    <2>3. CASE ~Land(NoToken)
      BY <1>0, <1>1, <2>1, <2>3 DEF FlightLoad, NumbersInv, Known, caller
    <2> QED
      BY <2>1, <2>2, <2>3
  <1>2. CASE FlightServe
    <2>1. pres.ref \in 0..issued /\ 0..issued \subseteq 0..issued + 1
      BY <1>0, <1>2 DEF FlightServe, BaseInv, FlightTypes
    <2>2. consumed' \subseteq consumed \cup {pres.ref} /\ issued' = issued + 1
      BY <1>2 DEF FlightServe
    <2>3. issued' \in Nat /\ UNCHANGED <<inDoubt, replayed>>
      BY <1>0, <1>2 DEF FlightServe
    <2>4. ServerTypes'
      BY <1>0, <2>1, <2>2, <2>3 DEF ServerTypes
    <2>5. NumbersInv'
      BY <1>0, <1>2 DEF FlightServe, NumbersInv, Known, caller, BaseInv, FlightTypes, ClientTypes,
         Held, Token
    <2> QED
      BY <2>4, <2>5
  <1>3. CASE FlightRefused \/ FlightLost
    <2>1. pres.ref \in 0..issued /\ 0..issued \subseteq Nat
      BY <1>0, <1>3 DEF FlightRefused, FlightLost, BaseInv, FlightTypes
    <2>2. ServerTypes'
      BY <1>0, <1>3, <2>1 DEF FlightRefused, FlightLost, ServerTypes
    <2>3. NumbersInv'
      BY <1>0, <1>3, LandNumbers, NothingIsHeld DEF FlightRefused, FlightLost
    <2> QED
      BY <2>2, <2>3
  <1>4. CASE FlightSave
    <2>1. ServerTypes'
      BY <1>0, <1>4 DEF FlightSave, ServerTypes
    <2>2. Kept \in Held /\ Known(Kept)
      BY <1>0, <1>4, KeptToken, TokenIsHeld DEF FlightSave, FreshInv, Known, BaseInv, FlightTypes
    <2>3. NumbersInv'
      BY <1>0, <1>4, <2>2, LandNumbers DEF FlightSave
    <2> QED
      BY <2>1, <2>3
  <1>5. CASE ServeLate
    <2>1. ServerTypes'
      BY <1>0, <1>5 DEF ServeLate, ServerTypes
    <2>2. NumbersInv'
      BY <1>0, <1>5 DEF ServeLate, NumbersInv, Known, flight, caller
    <2> QED
      BY <2>1, <2>2
  <1>6. ASSUME NEW u \in Callers, Start(u) \/ Progress(u) PROVE ServerTypes' /\ NumbersInv'
    <2>1. ServerTypes'
      BY <1>0, <1>6, CallerTypes DEF ServerTypes, BaseInv
    <2>2. NumbersInv'
      BY <1>0, <1>6, CallerNumbers DEF NumbersInv, Known
    <2> QED
      BY <2>1, <2>2
  <1>7. CASE UNCHANGED vars
    BY <1>0, <1>7 DEF vars, ServerTypes, NumbersInv, Known, flight, caller
  <1> QED
    BY <1>1, <1>2, <1>3, <1>4, <1>5, <1>6, <1>7 DEF Next, Flight

LEMMA BaseStep == BaseInv /\ FreshInv /\ [Next]_vars => BaseInv'
  BY TypesStep, NumbersStep DEF BaseInv, ServerTypes

-----------------------------------------------------------------------------
(* No refresh token is presented twice. *)

\* A step that serves nothing and saves nothing: the store may be cleared, and
\* whatever was on its way is in doubt.
LEMMA QuietReplay ==
    ASSUME ReplayInv, UNCHANGED <<server, replayed>>, store' \in {store, NoToken},
           inDoubt \subseteq inDoubt',
           \/ UNCHANGED <<pres, got, inDoubt>> /\ (phase' = phase \/ {phase, phase'} = {"none", "load"})
           \/ phase' = "none" /\ (phase = "reply" => pres.ref \in inDoubt')
    PROVE  ReplayInv'
  BY DEF ReplayInv, PresentedInv, StoredInv, FreshInv, RefreshNotReplayed, server

LEMMA ReplayStep == BaseInv /\ ReplayInv /\ [Next]_vars => ReplayInv'
  <1> SUFFICES ASSUME BaseInv, ReplayInv, [Next]_vars PROVE ReplayInv'
    OBVIOUS
  <1> USE DEF server, history
  <1>1. CASE FlightLoad
    <2>1. CASE Land(NoToken)
      BY <1>1, <2>1, QuietReplay DEF FlightLoad, Land
    <2>2. CASE ~Land(NoToken)
      BY <1>1, <2>2 DEF FlightLoad, ReplayInv, PresentedInv, StoredInv, FreshInv, RefreshNotReplayed
    <2> QED
      BY <2>1, <2>2
  <1>2. CASE FlightServe
    <2>1. PICK ref \in {0, issued + 1} :
              /\ got' = [acc |-> issued + 1, ref |-> ref]
              /\ consumed' = IF ref = 0 THEN consumed ELSE consumed \cup {pres.ref}
      BY <1>2 DEF FlightServe
    <2>2. /\ issued \in Nat /\ issued + 1 \notin consumed \cup inDoubt
          /\ pres.ref # issued + 1
      BY <1>2, NoTokenAssumption
         DEF FlightServe, BaseInv, ServerTypes, FlightTypes, NumbersInv, Known, Token
    <2>3. FreshInv'
      BY <1>2, <2>1, <2>2 DEF FlightServe, FreshInv
    <2>4. StoredInv'
      BY <1>2, <2>1 DEF FlightServe, ReplayInv, StoredInv
    <2> QED
      BY <1>2, <2>3, <2>4 DEF FlightServe, ReplayInv, PresentedInv, RefreshNotReplayed
  <1>3. CASE FlightRefused
    BY <1>3 DEF FlightRefused, Land, ReplayInv, PresentedInv, StoredInv, FreshInv, RefreshNotReplayed
  <1>4. CASE FlightSave
    <2>1. store'.ref = IF got.ref = 0 THEN pres.ref ELSE got.ref
      BY <1>4, KeptToken DEF FlightSave, BaseInv
    <2> QED
      BY <1>4, <2>1 DEF FlightSave, Land, ReplayInv, PresentedInv, StoredInv, FreshInv,
         RefreshNotReplayed
  <1>5. CASE FlightLost
    <2>1. phase' = "none" /\ inDoubt' = inDoubt \cup {pres.ref} /\ UNCHANGED <<store, server, replayed>>
      BY <1>5 DEF FlightLost, Land
    <2> QED
      BY <2>1, QuietReplay
  <1>6. CASE ServeLate
    <2>1. PICK ref \in inDoubt : /\ consumed' = consumed \cup {ref}
                                 /\ replayed' = replayed \cup ({ref} \cap consumed)
      BY <1>6 DEF ServeLate
    <2> QED
      BY <1>6, <2>1 DEF ServeLate, flight, ReplayInv, PresentedInv, StoredInv, FreshInv,
         RefreshNotReplayed
  <1>7. ASSUME NEW t \in Callers, Start(t) \/ Progress(t) PROVE ReplayInv'
    <2>1. UNCHANGED <<server, history, pres, got>>
      BY <1>7, CallerTypes, CallerNumbers DEF BaseInv
    <2>2. store' \in {store, NoToken}
      BY <1>7, CallerNumbers
    <2>3. phase' = phase \/ {phase, phase'} = {"none", "load"}
      BY <1>7 DEF Start, Progress, LoadToken, Decide, Rejected, Answered, Revoke, Clear, StoreFails,
         Join, flight
    <2> QED
      BY <2>1, <2>2, <2>3, QuietReplay
  <1>8. CASE UNCHANGED vars
    BY <1>8, QuietReplay DEF vars, flight
  <1> QED
    BY <1>1, <1>2, <1>3, <1>4, <1>5, <1>6, <1>7, <1>8 DEF Next, Flight

LEMMA ReplayInvariant == Spec => [](BaseInv /\ ReplayInv)
  <1>1. BaseInv /\ ReplayInv /\ [Next]_vars => (BaseInv /\ ReplayInv)'
    BY BaseStep, ReplayStep DEF ReplayInv
  <1> QED
    BY <1>1, InvInit, PTL DEF Spec

\* A rotated refresh token is presented again only when the outcome of an earlier
\* request with it was not stored, however many callers share the flights.
THEOREM NoReplay == Spec => []RefreshNotReplayed
  BY ReplayInvariant, PTL DEF ReplayInv

-----------------------------------------------------------------------------
(* Every token set that is saved is newer than those before it. *)

LEMMA NewestStep == BaseInv /\ FreshInv /\ SessionInv /\ [Next]_vars => NewestInv'
  <1> SUFFICES ASSUME BaseInv, FreshInv, SessionInv, [Next]_vars PROVE NewestInv'
    OBVIOUS
  <1> USE DEF server, history
  <1>1. CASE phase' # "reply"
    BY <1>1 DEF NewestInv
  <1>2. CASE FlightServe
    <2>1. issued' = issued + 1 /\ UNCHANGED <<store, cur, sent>>
      BY <1>2 DEF FlightServe, caller
    <2>2. issued \in Nat /\ store \in Held /\ cur \in [Callers -> Held] /\ sent \in [Callers -> Nat]
      BY DEF BaseInv, ClientTypes, ServerTypes
    <2> QED
      BY <2>1, <2>2 DEF NewestInv, BaseInv, NumbersInv, Known, Held, Token
  <1>3. ASSUME NEW u \in Callers, Start(u) \/ Progress(u), phase' = "reply" PROVE NewestInv'
    <2>1. phase = "reply"
      BY <1>3 DEF Start, Progress, LoadToken, Decide, Rejected, Answered, Revoke, Clear, StoreFails,
         Join, flight
    <2> QED
      BY <1>3, <2>1, CallerNumbers DEF SessionInv, NewestInv, FreshInv, BaseInv, ServerTypes
  <1>4. CASE ServeLate \/ UNCHANGED vars
    BY <1>4 DEF ServeLate, vars, flight, caller, SessionInv, NewestInv
  <1>5. FlightLoad \/ FlightRefused \/ FlightSave \/ FlightLost => phase' # "reply"
    BY DEF FlightLoad, FlightRefused, FlightSave, FlightLost, Land
  <1> QED
    BY <1>1, <1>2, <1>3, <1>4, <1>5 DEF Next, Flight

\* What landing does to the retries: a caller that goes on has a result newer
\* than what its request was rejected with, or loads it.
LEMMA LandRetry ==
    ASSUME BaseInv, SessionInv, NEW result \in Held, Land(result),
           result # NoToken => /\ store' = result
                               /\ \A t \in Callers : result.acc > sent[t],
           result = NoToken => store' = store
    PROVE  RetryInv'
  <1> SUFFICES ASSUME NEW t \in Callers
               PROVE  /\ pc'[t] = "idle" => sent'[t] = 0
                      /\ pc'[t] = "token" /\ sent'[t] # 0 /\ store' # NoToken => store'.acc > sent'[t]
                      /\ pc'[t] = "decide" /\ sent'[t] # 0 /\ cur'[t] # NoToken
                             => cur'[t].acc > sent'[t]
                      /\ pc'[t] = "send" /\ sent'[t] # 0 => cur'[t].acc > sent'[t]
    BY DEF RetryInv
  <1>1. CASE pc[t] = "wait"
    BY <1>1 DEF Land, Waiting, BaseInv, ClientTypes
  <1>2. CASE pc[t] # "wait"
    BY <1>2 DEF Land, Waiting, BaseInv, ClientTypes, SessionInv, RetryInv
  <1> QED
    BY <1>1, <1>2

LEMMA RetryStep == BaseInv /\ FreshInv /\ SessionInv /\ [Next]_vars => RetryInv'
  <1> SUFFICES ASSUME BaseInv, FreshInv, SessionInv, [Next]_vars PROVE RetryInv'
    OBVIOUS
  <1> USE DEF server, history
  <1>1. CASE FlightLoad
    <2>1. CASE Land(NoToken)
      BY <1>1, <2>1, LandRetry, NothingIsHeld DEF FlightLoad
    <2>2. CASE ~Land(NoToken)
      BY <1>1, <2>2 DEF FlightLoad, caller, SessionInv, RetryInv
    <2> QED
      BY <2>1, <2>2
  <1>2. CASE FlightServe \/ ServeLate \/ UNCHANGED vars
    BY <1>2 DEF FlightServe, ServeLate, vars, caller, SessionInv, RetryInv
  <1>3. CASE FlightRefused \/ FlightLost
    BY <1>3, LandRetry, NothingIsHeld DEF FlightRefused, FlightLost
  <1>4. CASE FlightSave
    <2>1. Kept \in Held /\ Kept # NoToken /\ Kept.acc = issued
      BY <1>4, KeptToken, TokenIsHeld DEF FlightSave, FreshInv, BaseInv
    <2>2. \A t \in Callers : Kept.acc > sent[t]
      BY <1>4, <2>1 DEF FlightSave, SessionInv, NewestInv, BaseInv, ClientTypes, ServerTypes
    <2> QED
      BY <1>4, <2>1, <2>2, LandRetry DEF FlightSave
  <1>5. ASSUME NEW u \in Callers, Start(u) PROVE RetryInv'
    BY <1>5 DEF Start, Join, flight, BaseInv, ClientTypes, SessionInv, RetryInv
  <1>6. ASSUME NEW u \in Callers, LoadToken(u) PROVE RetryInv'
    BY <1>6 DEF LoadToken, flight, BaseInv, ClientTypes, SessionInv, RetryInv
  <1>7. ASSUME NEW u \in Callers, Decide(u) PROVE RetryInv'
    BY <1>7 DEF Decide, Return, Join, flight, BaseInv, ClientTypes, SessionInv, RetryInv
  <1>8. ASSUME NEW u \in Callers, Rejected(u) PROVE RetryInv'
    BY <1>8 DEF Rejected, Join, flight, BaseInv, ClientTypes, SessionInv, RetryInv
  <1>9. ASSUME NEW u \in Callers, Answered(u) \/ Revoke(u) \/ Clear(u) \/ StoreFails(u)
        PROVE RetryInv'
    BY <1>9 DEF Answered, Revoke, Clear, StoreFails, Return, flight, BaseInv, ClientTypes,
       SessionInv, RetryInv
  <1> QED
    BY <1>1, <1>2, <1>3, <1>4, <1>5, <1>6, <1>7, <1>8, <1>9 DEF Next, Flight, Progress

LEMMA SessionInvariant == Spec => [](BaseInv /\ FreshInv /\ SessionInv)
  <1>1. BaseInv /\ FreshInv /\ SessionInv /\ [Next]_vars => SessionInv'
    BY NewestStep, RetryStep DEF SessionInv
  <1> QED
    BY <1>1, ReplayInvariant, InvInit, PTL DEF Spec, ReplayInv

\* A request that was answered 401 is retried with a newer access token.
THEOREM RetryNewer == Spec => []RetryIsNewer
  <1>1. SessionInv => RetryIsNewer
    BY DEF SessionInv, RetryInv, RetryIsNewer
  <1> QED
    BY <1>1, SessionInvariant, PTL

-----------------------------------------------------------------------------
(* The shared flight implements TokenVault. *)

LEMMA VaultInit == Init => Vault!Init
  BY NoTokenAssumption DEF Init, Vault!Init

\* A flight that lands without a result gives up at most the reply under way.
LEMMA LandVault ==
    ASSUME issued \in Nat, phase = "reply" => issued # 0, Land(NoToken), UNCHANGED <<store, issued>>
    PROVE  [Vault!Next]_(Vault!vars)
  <1>1. phase' = "none"
    BY DEF Land
  <1>2. CASE phase = "reply"
    BY <1>1, <1>2 DEF Vault!Next, Vault!GiveUp
  <1>3. CASE phase # "reply"
    BY <1>1, <1>3 DEF Vault!vars
  <1> QED
    BY <1>2, <1>3

LEMMA VaultStep == BaseInv /\ FreshInv /\ SessionInv /\ [Next]_vars => [Vault!Next]_(Vault!vars)
  <1> SUFFICES ASSUME BaseInv, FreshInv, SessionInv, [Next]_vars
               PROVE  [Vault!Next]_(Vault!vars)
    OBVIOUS
  <1> USE DEF server, history
  <1>0. issued \in Nat /\ (phase = "reply" => issued # 0)
    BY DEF BaseInv, ServerTypes, FreshInv
  <1>1. ASSUME UNCHANGED <<store, issued>>, phase' = "reply" <=> phase = "reply"
        PROVE  [Vault!Next]_(Vault!vars)
    BY <1>1 DEF Vault!vars
  <1>2. CASE FlightLoad
    <2>1. CASE Land(NoToken)
      BY <1>0, <1>2, <2>1, LandVault DEF FlightLoad
    <2>2. CASE ~Land(NoToken)
      BY <1>1, <1>2, <2>2 DEF FlightLoad
    <2> QED
      BY <2>1, <2>2
  <1>3. CASE FlightServe
    BY <1>0, <1>3 DEF FlightServe, Vault!vars
  <1>4. CASE FlightRefused \/ FlightLost
    BY <1>0, <1>4, LandVault DEF FlightRefused, FlightLost
  <1>5. CASE FlightSave
    <2>1. store' # NoToken /\ store'.acc = issued /\ issued' = issued /\ phase = "reply"
          /\ phase' = "none"
      BY <1>5, KeptToken, TokenIsHeld DEF FlightSave, Land, FreshInv, BaseInv
    <2> QED
      BY <1>0, <2>1 DEF Vault!Next, Vault!Save
  <1>6. CASE ServeLate \/ UNCHANGED vars
    BY <1>1, <1>6 DEF ServeLate, vars, flight
  <1>7. ASSUME NEW u \in Callers, Start(u) \/ Progress(u) PROVE [Vault!Next]_(Vault!vars)
    <2>1. phase' = "reply" <=> phase = "reply"
      BY <1>7 DEF Start, Progress, LoadToken, Decide, Rejected, Answered, Revoke, Clear, StoreFails,
         Join, flight
    <2>2. store' \in {store, NoToken} /\ issued' = issued
      BY <1>7, CallerNumbers
    <2> QED
      BY <1>1, <2>1, <2>2 DEF Vault!Next, Vault!Clear
  <1> QED
    BY <1>2, <1>3, <1>4, <1>5, <1>6, <1>7 DEF Next, Flight

\* The client of umbra-typescript implements the abstract vault, as those with a
\* refresh lock do.
THEOREM VaultImplemented == Spec => ImplementsVault
  BY SessionInvariant, VaultInit, VaultStep, PTL DEF Spec, ImplementsVault, Vault!Spec

\* What the vault promises, whatever implements it: no token is newer than all that
\* were saved or given up, and none is replaced by an older one.
LEMMA VaultOnlyNewer == Vault!Spec => []Vault!HeldBelowFloor /\ Vault!NeverOlder
  <1> DEFINE VaultInv == Vault!TypeOK /\ Vault!HeldBelowFloor
             held == IF store = NoToken THEN NoToken ELSE store.acc
             OnlyNewer == held # NoToken /\ held' # NoToken => held' >= held
  <1>1. Vault!Init => VaultInv
    BY NoTokenAssumption DEF Vault!Init, Vault!TypeOK, Vault!HeldBelowFloor
  <1>2. VaultInv /\ [Vault!Next]_(Vault!vars) => VaultInv'
    <2>1. ASSUME VaultInv, Vault!Save PROVE VaultInv'
      BY <2>1, NoTokenAssumption DEF Vault!Save, Vault!TypeOK, Vault!HeldBelowFloor
    <2>2. ASSUME VaultInv, Vault!GiveUp PROVE VaultInv'
      BY <2>2, NoTokenAssumption DEF Vault!GiveUp, Vault!TypeOK, Vault!HeldBelowFloor
    <2>3. ASSUME VaultInv, Vault!Clear PROVE VaultInv'
      BY <2>3, NoTokenAssumption DEF Vault!Clear, Vault!TypeOK, Vault!HeldBelowFloor
    <2>4. ASSUME VaultInv, UNCHANGED Vault!vars PROVE VaultInv'
      BY <2>4 DEF Vault!vars, Vault!TypeOK, Vault!HeldBelowFloor
    <2> QED
      BY <2>1, <2>2, <2>3, <2>4 DEF Vault!Next
  <1>3. VaultInv /\ [Vault!Next]_(Vault!vars) => OnlyNewer
    <2>1. ASSUME VaultInv, Vault!Save PROVE OnlyNewer
      BY <2>1, NoTokenAssumption DEF Vault!Save, Vault!TypeOK, Vault!HeldBelowFloor
    <2>2. ASSUME VaultInv, Vault!GiveUp \/ UNCHANGED Vault!vars PROVE OnlyNewer
      BY <2>2, NoTokenAssumption DEF Vault!GiveUp, Vault!vars, Vault!TypeOK
    <2>3. ASSUME VaultInv, Vault!Clear PROVE OnlyNewer
      BY <2>3, NoTokenAssumption DEF Vault!Clear
    <2> QED
      BY <2>1, <2>2, <2>3 DEF Vault!Next
  <1> QED
    BY <1>1, <1>2, <1>3, PTL DEF Vault!Spec, Vault!NeverOlder

\* So the token store of umbra-typescript never goes back to an older access token.
THEOREM NeverOlder == Spec => Vault!NeverOlder
  BY VaultImplemented, VaultOnlyNewer, PTL DEF ImplementsVault
=============================================================================
