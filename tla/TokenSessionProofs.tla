------------------------- MODULE TokenSessionProofs -------------------------
(***************************************************************************)
(* Proofs about TokenSession, for every set of tasks and every bound.      *)
(***************************************************************************)
EXTENDS TokenSession, TLAPS

\* No token is newer than the newest issued; what may be presented or saved
\* at a pc is there.
Issued(token) == token # NoToken => token.acc \leq issued /\ token.ref \leq issued

NumbersInv ==
    /\ Issued(store)
    /\ \A t \in Tasks : Issued(cur[t]) /\ Issued(got[t])
    /\ inDoubt \subseteq 1..issued

PcInv ==
    \A t \in Tasks :
        /\ pc[t] \in {"refresh", "reply"} => cur[t] # NoToken /\ cur[t].ref # 0
        /\ pc[t] \in {"reply", "exchanged"} => got[t] # NoToken
        /\ pc[t] \in {"send", "revoke"} => cur[t] # NoToken

\* refresh_lock is held by the one task that is inside refresh().
LockInv == \A t \in Tasks : pc[t] \in Locked <=> lock = t

BaseInv == TypeOK /\ NumbersInv /\ PcInv /\ LockInv

LEMMA BaseInit == Init => BaseInv
  <1> SUFFICES ASSUME Init PROVE BaseInv
    OBVIOUS
  <1> USE NoTaskAssumption, NoTokenAssumption DEF Init
  <1>1. store \in Token \cup {NoToken} /\ Issued(store)
    BY DEF Token, Issued
  <1>2. TypeOK
    BY <1>1 DEF TypeOK, PCs
  <1>3. NumbersInv
    BY <1>1 DEF NumbersInv, Issued
  <1>4. PcInv /\ LockInv
    BY DEF PcInv, LockInv, Locked
  <1> QED
    BY <1>2, <1>3, <1>4 DEF BaseInv

\* A token set the task holds has numbers the server has issued.
LEMMA HeldNumbers ==
    ASSUME BaseInv, NEW t \in Tasks
    PROVE  /\ store # NoToken => store.acc \in 0..issued /\ store.ref \in 0..issued
           /\ cur[t] # NoToken => cur[t].acc \in 0..issued /\ cur[t].ref \in 0..issued
           /\ got[t] # NoToken => got[t].acc \in 0..issued /\ got[t].ref \in 0..issued
  <1>1. \A token \in Token : token.acc \in Nat /\ token.ref \in Nat
    BY DEF Token
  <1> QED
    BY <1>1 DEF BaseInv, TypeOK, NumbersInv, Issued

\* What a returning call leaves behind.
LEMMA ReturnKeeps ==
    ASSUME BaseInv, NEW t \in Tasks, Return(t), issued' = issued,
           store' \in Token \cup {NoToken}, Issued(store'),
           consumed' \subseteq 1..issued, inDoubt' \subseteq 1..issued,
           revoked' \subseteq Nat, replayed' \subseteq Nat
    PROVE  BaseInv'
  <1> USE NoTaskAssumption DEF Return, Goto
  <1>1. TypeOK'
    <2>1. pc' \in [Tasks -> PCs] /\ then' \in [Tasks -> {"done", "send", "token"}]
      BY DEF BaseInv, TypeOK, PCs
    <2>2. sent' \in [Tasks -> Nat]
      BY DEF BaseInv, TypeOK
    <2>3. cur' \in [Tasks -> Token \cup {NoToken}] /\ got' \in [Tasks -> Token \cup {NoToken}]
      BY DEF BaseInv, TypeOK
    <2>4. lock' \in Tasks \cup {NoTask}
      BY DEF BaseInv, TypeOK
    <2> QED
      BY <2>1, <2>2, <2>3, <2>4, 1..issued \subseteq Nat DEF BaseInv, TypeOK
  <1>2. NumbersInv'
    BY DEF BaseInv, TypeOK, NumbersInv, Issued
  <1>3. PcInv'
    BY DEF BaseInv, TypeOK, PcInv
  <1>4. LockInv'
    BY DEF BaseInv, TypeOK, LockInv, Locked
  <1> QED
    BY <1>1, <1>2, <1>3, <1>4 DEF BaseInv

LEMMA BaseStep == BaseInv /\ [Next]_vars => BaseInv'
  <1> SUFFICES ASSUME BaseInv, [Next]_vars PROVE BaseInv'
    OBVIOUS
  <1> USE NoTaskAssumption, NoTokenAssumption DEF server, history, local
  <1>0. /\ store \in Token \cup {NoToken} /\ Issued(store) /\ issued \in Nat
        /\ consumed \subseteq 1..issued /\ inDoubt \subseteq 1..issued
        /\ revoked \subseteq Nat /\ replayed \subseteq Nat
    BY DEF BaseInv, TypeOK, NumbersInv
  <1>a. ASSUME NEW t \in Tasks, Start(t) PROVE BaseInv'
    <2>1. TypeOK'
      BY <1>a DEF BaseInv, TypeOK, PCs, Start, Goto
    <2>2. NumbersInv'
      BY <1>a DEF BaseInv, TypeOK, NumbersInv, Issued, Start, Goto
    <2>3. PcInv'
      BY <1>a DEF BaseInv, TypeOK, PcInv, Start, Goto
    <2>4. LockInv'
      BY <1>a DEF BaseInv, TypeOK, LockInv, Locked, Start, Goto
    <2> QED
      BY <2>1, <2>2, <2>3, <2>4 DEF BaseInv
  <1>b. ASSUME NEW t \in Tasks, LoadToken(t) PROVE BaseInv'
    <2>1. CASE Return(t)
      BY <1>0, <1>b, <2>1, ReturnKeeps DEF LoadToken
    <2>2. CASE ~Return(t)
      <3>1. TypeOK'
        BY <1>b, <2>2 DEF BaseInv, TypeOK, PCs, LoadToken, Use, Goto
      <3>2. NumbersInv'
        BY <1>b, <2>2 DEF BaseInv, TypeOK, NumbersInv, Issued, LoadToken, Use, Goto
      <3>3. PcInv'
        BY <1>b, <2>2 DEF BaseInv, TypeOK, PcInv, LoadToken, Use, Goto
      <3>4. LockInv'
        BY <1>b, <2>2 DEF BaseInv, TypeOK, LockInv, Locked, LoadToken, Use, Goto
      <3> QED
        BY <3>1, <3>2, <3>3, <3>4 DEF BaseInv
    <2> QED
      BY <2>1, <2>2
  <1>c. ASSUME NEW t \in Tasks, LockRefresh(t) PROVE BaseInv'
    <2>1. TypeOK'
      <3>1. pc' \in [Tasks -> PCs] /\ lock' \in Tasks \cup {NoTask}
        BY <1>c DEF BaseInv, TypeOK, PCs, Locked, LockRefresh, Goto
      <3> QED
        BY <1>c, <3>1 DEF BaseInv, TypeOK, LockRefresh
    <2>2. NumbersInv'
      BY <1>c DEF BaseInv, TypeOK, NumbersInv, Issued, LockRefresh, Goto
    <2>3. PcInv'
      BY <1>c DEF BaseInv, TypeOK, PcInv, LockRefresh, Goto
    <2>4. LockInv'
      BY <1>c DEF BaseInv, TypeOK, LockInv, Locked, LockRefresh, Goto
    <2> QED
      BY <2>1, <2>2, <2>3, <2>4 DEF BaseInv
  <1>d. ASSUME NEW t \in Tasks, LoadForRefresh(t) PROVE BaseInv'
    <2>1. TypeOK'
      <3>1. pc' \in [Tasks -> PCs] /\ cur' \in [Tasks -> Token \cup {NoToken}]
        BY <1>d DEF BaseInv, TypeOK, PCs, Locked, LoadForRefresh, Goto
      <3> QED
        BY <1>d, <3>1 DEF BaseInv, TypeOK, LoadForRefresh
    <2>2. NumbersInv'
      BY <1>d DEF BaseInv, TypeOK, NumbersInv, Issued, LoadForRefresh, Goto
    <2>3. PcInv'
      BY <1>d DEF BaseInv, TypeOK, PcInv, LoadForRefresh, Goto
    <2>4. LockInv'
      BY <1>d DEF BaseInv, TypeOK, LockInv, Locked, LoadForRefresh, Goto
    <2> QED
      BY <2>1, <2>2, <2>3, <2>4 DEF BaseInv
  <1>e. ASSUME NEW t \in Tasks, ServeRefresh(t) PROVE BaseInv'
    <2>0. cur[t] \in Token /\ cur[t].ref \in 1..issued
      BY <1>0, <1>e, HeldNumbers DEF ServeRefresh, BaseInv, TypeOK, PcInv
    <2>1. PICK ref \in {0, issued + 1} :
              /\ got' = [got EXCEPT ![t] = [sess |-> cur[t].sess, acc |-> issued + 1, ref |-> ref]]
              /\ consumed' = IF ref = 0 THEN consumed ELSE consumed \cup {cur[t].ref}
      BY <1>e DEF ServeRefresh
    <2> DEFINE reply == [sess |-> cur[t].sess, acc |-> issued + 1, ref |-> ref]
    <2>2. reply \in Token /\ reply.acc = issued + 1 /\ reply.ref = ref /\ reply # NoToken
      BY <1>0, <2>0, <2>1 DEF Token
    <2> HIDE DEF reply
    <2>3. got' = [got EXCEPT ![t] = reply]
      BY <2>1 DEF reply
    <2>4. TypeOK'
      <3>1. consumed' \subseteq 1..issued'
        <4>1. 1..issued \subseteq 1..issued' /\ consumed' \subseteq consumed \cup {cur[t].ref}
          BY <1>0, <1>e, <2>1 DEF ServeRefresh
        <4> QED
          BY <1>0, <2>0, <4>1
      <3>2. pc' \in [Tasks -> PCs]
        BY <1>e DEF BaseInv, TypeOK, PCs, Locked, ServeRefresh, Goto
      <3>3. got' \in [Tasks -> Token \cup {NoToken}]
        BY <2>2, <2>3 DEF BaseInv, TypeOK
      <3>4. issued' \in Nat
        BY <1>0, <1>e DEF ServeRefresh
      <3> QED
        BY <1>e, <3>1, <3>2, <3>3, <3>4 DEF BaseInv, TypeOK, ServeRefresh
    <2>5. NumbersInv'
      <3>1. Issued(store)' /\ inDoubt' \subseteq 1..issued'
        BY <1>0, <1>e DEF Issued, ServeRefresh, Token
      <3>2. ASSUME NEW u \in Tasks PROVE Issued(cur[u])' /\ Issued(got[u])'
        BY <1>0, <1>e, <2>2, <2>3, HeldNumbers DEF BaseInv, TypeOK, Issued, ServeRefresh
      <3> QED
        BY <3>1, <3>2 DEF NumbersInv
    <2>6. PcInv'
      BY <1>e, <2>2, <2>3 DEF BaseInv, TypeOK, PcInv, ServeRefresh, Goto
    <2>7. LockInv'
      BY <1>e DEF BaseInv, TypeOK, LockInv, Locked, ServeRefresh, Goto
    <2> QED
      BY <2>4, <2>5, <2>6, <2>7 DEF BaseInv
  <1>f. ASSUME NEW t \in Tasks, RefuseRefresh(t) PROVE BaseInv'
    <2>1. replayed' \subseteq Nat
      <3>1. replayed' \subseteq replayed \cup consumed /\ 1..issued \subseteq Nat
        BY <1>0, <1>f DEF RefuseRefresh
      <3> QED
        BY <1>0, <3>1
    <2> QED
      BY <1>0, <1>f, <2>1, ReturnKeeps DEF RefuseRefresh
  <1>g. ASSUME NEW t \in Tasks, SaveRefresh(t) PROVE BaseInv'
    <2>0. /\ cur[t] \in Token /\ cur[t].ref \in 1..issued
          /\ got[t] \in Token /\ got[t].acc \in 0..issued /\ got[t].ref \in 0..issued
      BY <1>0, <1>g, HeldNumbers DEF SaveRefresh, BaseInv, TypeOK, PcInv
    <2>1. Kept(t) \in Token /\ Issued(Kept(t))
      BY <1>0, <2>0 DEF Kept, Token, Issued
    <2>2. store' = Kept(t) /\ UNCHANGED <<server, history>>
      BY <1>g DEF SaveRefresh
    <2>3. CASE Return(t)
      BY <1>0, <2>1, <2>2, <2>3, ReturnKeeps
    <2>4. CASE ~Return(t)
      <3> HIDE DEF Kept
      <3>1. TypeOK'
        BY <1>g, <2>1, <2>2, <2>4 DEF BaseInv, TypeOK, PCs, SaveRefresh, Use, Goto
      <3>2. NumbersInv'
        BY <1>g, <2>1, <2>2, <2>4 DEF BaseInv, TypeOK, NumbersInv, Issued, SaveRefresh, Use, Goto
      <3>3. PcInv'
        BY <1>g, <2>1, <2>2, <2>4 DEF BaseInv, TypeOK, PcInv, SaveRefresh, Use, Goto
      <3>4. LockInv'
        BY <1>g, <2>2, <2>4 DEF BaseInv, TypeOK, LockInv, Locked, SaveRefresh, Use, Goto
      <3> QED
        BY <3>1, <3>2, <3>3, <3>4 DEF BaseInv
    <2> QED
      BY <2>3, <2>4
  <1>h. ASSUME NEW t \in Tasks, LoseRefresh(t) PROVE BaseInv'
    <2>1. cur[t].ref \in 1..issued
      BY <1>0, <1>h, HeldNumbers DEF LoseRefresh, BaseInv, PcInv
    <2>2. inDoubt' \subseteq 1..issued
      BY <1>0, <1>h, <2>1 DEF LoseRefresh
    <2> QED
      BY <1>0, <1>h, <2>2, ReturnKeeps DEF LoseRefresh
  <1>i. ASSUME ServeLate PROVE BaseInv'
    <2>1. consumed' \subseteq 1..issued /\ replayed' \subseteq Nat
      BY <1>0, <1>i DEF ServeLate
    <2> QED
      BY <1>i, <2>1 DEF BaseInv, TypeOK, NumbersInv, PcInv, LockInv, Issued, ServeLate
  <1>j. ASSUME NEW t \in Tasks, Answered(t) \/ Fail(t) \/ Drop(t) PROVE BaseInv'
    <2>1. Return(t) /\ UNCHANGED <<store, server, history>>
      BY <1>j DEF Answered, Fail, Drop
    <2> QED
      BY <1>0, <2>1, ReturnKeeps
  <1>k. ASSUME NEW t \in Tasks, Rejected(t) PROVE BaseInv'
    <2>0. cur[t].acc \in Nat
      BY <1>0, <1>k, HeldNumbers DEF Rejected, BaseInv, PcInv
    <2>1. TypeOK'
      BY <1>k, <2>0 DEF BaseInv, TypeOK, PCs, Rejected, Goto
    <2>2. NumbersInv'
      BY <1>k, <2>0 DEF BaseInv, TypeOK, NumbersInv, Issued, Rejected, Goto
    <2>3. PcInv'
      BY <1>k, <2>0 DEF BaseInv, TypeOK, PcInv, Rejected, Goto
    <2>4. LockInv'
      BY <1>k, <2>0 DEF BaseInv, TypeOK, LockInv, Locked, Rejected, Goto
    <2> QED
      BY <2>1, <2>2, <2>3, <2>4 DEF BaseInv
  <1>l. ASSUME NEW t \in Tasks, LoadForLogout(t) PROVE BaseInv'
    <2>1. TypeOK'
      BY <1>l DEF BaseInv, TypeOK, PCs, LoadForLogout, Goto
    <2>2. NumbersInv'
      BY <1>l DEF BaseInv, TypeOK, NumbersInv, Issued, LoadForLogout, Goto
    <2>3. PcInv'
      BY <1>l DEF BaseInv, TypeOK, PcInv, LoadForLogout, Goto
    <2>4. LockInv'
      BY <1>l DEF BaseInv, TypeOK, LockInv, Locked, LoadForLogout, Goto
    <2> QED
      BY <2>1, <2>2, <2>3, <2>4 DEF BaseInv
  <1>m. ASSUME NEW t \in Tasks, Revoke(t) PROVE BaseInv'
    <2>0. revoked' \subseteq Nat
      <3>1. cur[t].ref \in Nat
        BY <1>0, <1>m, HeldNumbers DEF Revoke, BaseInv, PcInv
      <3> QED
        BY <1>0, <1>m, <3>1 DEF Revoke
    <2>1. TypeOK'
      BY <1>m, <2>0 DEF BaseInv, TypeOK, PCs, Revoke, Goto
    <2>2. NumbersInv'
      BY <1>m, <2>0 DEF BaseInv, TypeOK, NumbersInv, Issued, Revoke, Goto
    <2>3. PcInv'
      BY <1>m, <2>0 DEF BaseInv, TypeOK, PcInv, Revoke, Goto
    <2>4. LockInv'
      BY <1>m, <2>0 DEF BaseInv, TypeOK, LockInv, Locked, Revoke, Goto
    <2> QED
      BY <2>1, <2>2, <2>3, <2>4 DEF BaseInv
  <1>n. ASSUME NEW t \in Tasks, Clear(t) PROVE BaseInv'
    BY <1>0, <1>n, ReturnKeeps DEF Clear, Issued
  <1>o. ASSUME NEW t \in Tasks, StartLogin(t) PROVE BaseInv'
    <2>1. TypeOK'
      BY <1>o DEF BaseInv, TypeOK, PCs, StartLogin, Goto
    <2>2. NumbersInv'
      BY <1>o DEF BaseInv, TypeOK, NumbersInv, Issued, StartLogin, Goto
    <2>3. PcInv'
      BY <1>o DEF BaseInv, TypeOK, PcInv, StartLogin, Goto
    <2>4. LockInv'
      BY <1>o DEF BaseInv, TypeOK, LockInv, Locked, StartLogin, Goto
    <2> QED
      BY <2>1, <2>2, <2>3, <2>4 DEF BaseInv
  <1>p. ASSUME NEW t \in Tasks, ServeExchange(t) PROVE BaseInv'
    <2>1. PICK ref \in {0, issued + 1} :
              got' = [got EXCEPT ![t] = [sess |-> issued + 1, acc |-> issued + 1, ref |-> ref]]
      BY <1>p DEF ServeExchange
    <2> DEFINE reply == [sess |-> issued + 1, acc |-> issued + 1, ref |-> ref]
    <2>2. reply \in Token /\ reply.acc = issued + 1 /\ reply.ref = ref /\ reply # NoToken
      BY <1>0, <2>1 DEF Token
    <2> HIDE DEF reply
    <2>3. got' = [got EXCEPT ![t] = reply]
      BY <2>1 DEF reply
    <2>4. TypeOK'
      <3>1. consumed' \subseteq 1..issued'
        BY <1>0, <1>p DEF ServeExchange
      <3> QED
        BY <1>0, <1>p, <2>2, <2>3, <3>1 DEF BaseInv, TypeOK, PCs, ServeExchange, Goto
    <2>5. NumbersInv'
      <3>1. Issued(store)' /\ inDoubt' \subseteq 1..issued'
        BY <1>0, <1>p DEF Issued, ServeExchange, Token
      <3>2. ASSUME NEW u \in Tasks PROVE Issued(cur[u])' /\ Issued(got[u])'
        BY <1>0, <1>p, <2>2, <2>3, HeldNumbers DEF BaseInv, TypeOK, Issued, ServeExchange
      <3> QED
        BY <3>1, <3>2 DEF NumbersInv
    <2>6. PcInv'
      BY <1>p, <2>2, <2>3 DEF BaseInv, TypeOK, PcInv, ServeExchange, Goto
    <2>7. LockInv'
      BY <1>p DEF BaseInv, TypeOK, LockInv, Locked, ServeExchange, Goto
    <2> QED
      BY <2>4, <2>5, <2>6, <2>7 DEF BaseInv
  <1>q. ASSUME NEW t \in Tasks, SaveLogin(t) PROVE BaseInv'
    <2>1. store' \in Token \cup {NoToken} /\ Issued(store')
      BY <1>q DEF SaveLogin, BaseInv, TypeOK, NumbersInv, Issued
    <2> QED
      BY <1>0, <1>q, <2>1, ReturnKeeps DEF SaveLogin
  <1>r. CASE UNCHANGED vars
    BY <1>r DEF BaseInv, TypeOK, NumbersInv, PcInv, LockInv, Issued, vars
  <1> QED
    BY <1>a, <1>b, <1>c, <1>d, <1>e, <1>f, <1>g, <1>h, <1>i, <1>j, <1>k, <1>l, <1>m,
       <1>n, <1>o, <1>p, <1>q, <1>r
       DEF Next, SessionStep, Progress, LoginStep

\* Type correctness.
THEOREM TypeCorrect == Spec => []TypeOK
  <1>1. BaseInv => TypeOK
    BY DEF BaseInv
  <1> QED
    BY BaseInit, BaseStep, <1>1, PTL DEF Spec

-----------------------------------------------------------------------------
(***************************************************************************)
(* A refresh token is presented again only after a request with it whose   *)
(* outcome was not stored.  The invariant follows a rotated token from the *)
(* store through refresh() and back.                                       *)
(***************************************************************************)

\* The token endpoint answered with a new refresh token, not stored yet.
Pending(t) == pc[t] \in {"reply", "exchanged"} /\ got[t].ref # 0

\* A token on its way to the store is in nobody else's hands.
FreshInv ==
    \A t \in Tasks : Pending(t) =>
        /\ got[t].ref \notin consumed \cup inDoubt
        /\ store # NoToken => store.ref # got[t].ref
        /\ \A u \in Tasks : pc[u] \in {"refresh", "reply"} => cur[u].ref # got[t].ref
        /\ \A u \in Tasks : Pending(u) /\ u # t => got[u].ref # got[t].ref

\* The stored token was rotated only if its successor is about to replace it.
StoredInv ==
    store # NoToken /\ store.ref \in consumed \ inDoubt =>
        \E t \in Tasks : pc[t] = "reply" /\ got[t].ref # 0 /\ cur[t].ref = store.ref

\* A token about to be presented, or to be kept, was not rotated.
PresentedInv ==
    \A t \in Tasks :
        pc[t] = "refresh" \/ (pc[t] = "reply" /\ got[t].ref = 0) =>
            cur[t].ref \notin consumed \ inDoubt

ReplayInv == FreshInv /\ StoredInv /\ PresentedInv /\ RefreshNotReplayed

LEMMA ReplayInit == Init => ReplayInv
  BY DEF Init, ReplayInv, FreshInv, StoredInv, PresentedInv, RefreshNotReplayed, Pending

LEMMA ReplayStep == BaseInv /\ ReplayInv /\ [Next]_vars => ReplayInv'
  <1> SUFFICES ASSUME BaseInv, ReplayInv, [Next]_vars PROVE ReplayInv'
    OBVIOUS
  <1> USE DEF server, history, local
  <1>0. /\ issued \in Nat /\ consumed \subseteq 1..issued /\ inDoubt \subseteq 1..issued
        /\ pc \in [Tasks -> PCs] /\ cur \in [Tasks -> Token \cup {NoToken}]
        /\ got \in [Tasks -> Token \cup {NoToken}]
    BY DEF BaseInv, TypeOK, NumbersInv
  <1>a. ASSUME NEW t \in Tasks, Start(t) PROVE ReplayInv'
    <2>1. FreshInv'
      BY <1>0, <1>a DEF ReplayInv, FreshInv, Pending, Start, Goto
    <2>2. StoredInv'
      BY <1>0, <1>a DEF ReplayInv, StoredInv, Start, Goto
    <2>3. PresentedInv'
      BY <1>0, <1>a DEF ReplayInv, PresentedInv, Start, Goto
    <2>4. RefreshNotReplayed'
      BY <1>a DEF ReplayInv, RefreshNotReplayed, Start, Goto
    <2> QED
      BY <2>1, <2>2, <2>3, <2>4 DEF ReplayInv
  <1>b. ASSUME NEW t \in Tasks, LoadToken(t) PROVE ReplayInv'
    <2>1. FreshInv'
      BY <1>0, <1>b DEF ReplayInv, FreshInv, Pending, LoadToken, Use, Return, Goto
    <2>2. StoredInv'
      BY <1>0, <1>b DEF ReplayInv, StoredInv, LoadToken, Use, Return, Goto
    <2>3. PresentedInv'
      BY <1>0, <1>b DEF ReplayInv, PresentedInv, LoadToken, Use, Return, Goto
    <2>4. RefreshNotReplayed'
      BY <1>b DEF ReplayInv, RefreshNotReplayed, LoadToken, Use, Return, Goto
    <2> QED
      BY <2>1, <2>2, <2>3, <2>4 DEF ReplayInv
  <1>c. ASSUME NEW t \in Tasks, LockRefresh(t) PROVE ReplayInv'
    <2>1. FreshInv'
      BY <1>c DEF ReplayInv, FreshInv, Pending, LockRefresh, Goto
    <2>2. StoredInv'
      BY <1>c DEF ReplayInv, StoredInv, LockRefresh, Goto
    <2>3. PresentedInv'
      BY <1>c DEF ReplayInv, PresentedInv, LockRefresh, Goto
    <2>4. RefreshNotReplayed'
      BY <1>c DEF ReplayInv, RefreshNotReplayed, LockRefresh, Goto
    <2> QED
      BY <2>1, <2>2, <2>3, <2>4 DEF ReplayInv
  <1>d. ASSUME NEW t \in Tasks, LoadForRefresh(t) PROVE ReplayInv'
    <2>1. FreshInv'
      BY <1>0, <1>d DEF ReplayInv, FreshInv, Pending, LoadForRefresh, Goto
    <2>2. StoredInv'
      BY <1>d DEF ReplayInv, StoredInv, LoadForRefresh, Goto
    <2>3. PresentedInv'
      BY <1>0, <1>d DEF BaseInv, LockInv, Locked, ReplayInv, StoredInv, PresentedInv, LoadForRefresh, Goto
    <2>4. RefreshNotReplayed'
      BY <1>d DEF ReplayInv, RefreshNotReplayed, LoadForRefresh, Goto
    <2> QED
      BY <2>1, <2>2, <2>3, <2>4 DEF ReplayInv
  <1>e. ASSUME NEW t \in Tasks, ServeRefresh(t) PROVE ReplayInv'
    <2>1. FreshInv'
      BY <1>0, <1>e, HeldNumbers DEF BaseInv, PcInv, ReplayInv, FreshInv, Pending, ServeRefresh, Goto
    <2>2. StoredInv'
      BY <1>0, <1>e DEF ReplayInv, StoredInv, ServeRefresh, Goto
    <2>3. PresentedInv'
      BY <1>0, <1>e DEF BaseInv, LockInv, Locked, ReplayInv, PresentedInv, ServeRefresh, Goto
    <2>4. RefreshNotReplayed'
      BY <1>e DEF ReplayInv, RefreshNotReplayed, ServeRefresh, Goto
    <2> QED
      BY <2>1, <2>2, <2>3, <2>4 DEF ReplayInv
  <1>f. ASSUME NEW t \in Tasks, RefuseRefresh(t) PROVE ReplayInv'
    <2>1. FreshInv'
      BY <1>0, <1>f DEF ReplayInv, FreshInv, Pending, RefuseRefresh, Return, Goto
    <2>2. StoredInv'
      BY <1>f DEF ReplayInv, StoredInv, RefuseRefresh, Return, Goto
    <2>3. PresentedInv'
      BY <1>0, <1>f DEF ReplayInv, PresentedInv, RefuseRefresh, Return, Goto
    <2>4. RefreshNotReplayed'
      BY <1>f DEF ReplayInv, PresentedInv, RefreshNotReplayed, RefuseRefresh, Return, Goto
    <2> QED
      BY <2>1, <2>2, <2>3, <2>4 DEF ReplayInv
  <1>g. ASSUME NEW t \in Tasks, SaveRefresh(t) PROVE ReplayInv'
    <2>1. FreshInv'
      BY <1>0, <1>g DEF ReplayInv, FreshInv, Pending, SaveRefresh, Kept, Use, Return, Goto
    <2>2. StoredInv'
      BY <1>g DEF BaseInv, LockInv, Locked, PcInv, ReplayInv, FreshInv, StoredInv, PresentedInv, Pending, SaveRefresh, Kept, Use, Return, Goto
    <2>3. PresentedInv'
      BY <1>0, <1>g DEF ReplayInv, PresentedInv, SaveRefresh, Kept, Use, Return, Goto
    <2>4. RefreshNotReplayed'
      BY <1>g DEF ReplayInv, RefreshNotReplayed, SaveRefresh, Kept, Use, Return, Goto
    <2> QED
      BY <2>1, <2>2, <2>3, <2>4 DEF ReplayInv
  <1>h. ASSUME NEW t \in Tasks, LoseRefresh(t) PROVE ReplayInv'
    <2>1. FreshInv'
      BY <1>0, <1>h DEF ReplayInv, FreshInv, Pending, LoseRefresh, Return, Goto
    <2>2. StoredInv'
      BY <1>h DEF ReplayInv, StoredInv, LoseRefresh, Return, Goto
    <2>3. PresentedInv'
      BY <1>0, <1>h DEF ReplayInv, PresentedInv, LoseRefresh, Return, Goto
    <2>4. RefreshNotReplayed'
      BY <1>h DEF ReplayInv, RefreshNotReplayed, LoseRefresh, Return, Goto
    <2> QED
      BY <2>1, <2>2, <2>3, <2>4 DEF ReplayInv
  <1>i. ASSUME ServeLate PROVE ReplayInv'
    <2>1. FreshInv'
      BY <1>i DEF ReplayInv, FreshInv, Pending, ServeLate
    <2>2. StoredInv'
      BY <1>i DEF ReplayInv, StoredInv, ServeLate
    <2>3. PresentedInv'
      BY <1>i DEF ReplayInv, PresentedInv, ServeLate
    <2>4. RefreshNotReplayed'
      BY <1>i DEF ReplayInv, RefreshNotReplayed, ServeLate
    <2> QED
      BY <2>1, <2>2, <2>3, <2>4 DEF ReplayInv
  <1>j. ASSUME NEW t \in Tasks, Answered(t) \/ Fail(t) \/ Drop(t) PROVE ReplayInv'
    <2>1. FreshInv'
      BY <1>0, <1>j DEF ReplayInv, FreshInv, Pending, Answered, Fail, Drop, Return, Goto
    <2>2. StoredInv'
      BY <1>0, <1>j DEF ReplayInv, StoredInv, Answered, Fail, Drop, Return, Goto
    <2>3. PresentedInv'
      BY <1>0, <1>j DEF ReplayInv, PresentedInv, Answered, Fail, Drop, Return, Goto
    <2>4. RefreshNotReplayed'
      BY <1>j DEF ReplayInv, RefreshNotReplayed, Answered, Fail, Drop, Return, Goto
    <2> QED
      BY <2>1, <2>2, <2>3, <2>4 DEF ReplayInv
  <1>k. ASSUME NEW t \in Tasks, Rejected(t) PROVE ReplayInv'
    <2>1. FreshInv'
      BY <1>k DEF ReplayInv, FreshInv, Pending, Rejected, Goto
    <2>2. StoredInv'
      BY <1>k DEF ReplayInv, StoredInv, Rejected, Goto
    <2>3. PresentedInv'
      BY <1>k DEF ReplayInv, PresentedInv, Rejected, Goto
    <2>4. RefreshNotReplayed'
      BY <1>k DEF ReplayInv, RefreshNotReplayed, Rejected, Goto
    <2> QED
      BY <2>1, <2>2, <2>3, <2>4 DEF ReplayInv
  <1>l. ASSUME NEW t \in Tasks, LoadForLogout(t) PROVE ReplayInv'
    <2>1. FreshInv'
      BY <1>l DEF ReplayInv, FreshInv, Pending, LoadForLogout, Goto
    <2>2. StoredInv'
      BY <1>l DEF ReplayInv, StoredInv, LoadForLogout, Goto
    <2>3. PresentedInv'
      BY <1>l DEF ReplayInv, PresentedInv, LoadForLogout, Goto
    <2>4. RefreshNotReplayed'
      BY <1>l DEF ReplayInv, RefreshNotReplayed, LoadForLogout, Goto
    <2> QED
      BY <2>1, <2>2, <2>3, <2>4 DEF ReplayInv
  <1>m. ASSUME NEW t \in Tasks, Revoke(t) PROVE ReplayInv'
    <2>1. FreshInv'
      BY <1>m DEF ReplayInv, FreshInv, Pending, Revoke, Goto
    <2>2. StoredInv'
      BY <1>m DEF ReplayInv, StoredInv, Revoke, Goto
    <2>3. PresentedInv'
      BY <1>m DEF ReplayInv, PresentedInv, Revoke, Goto
    <2>4. RefreshNotReplayed'
      BY <1>m DEF ReplayInv, RefreshNotReplayed, Revoke, Goto
    <2> QED
      BY <2>1, <2>2, <2>3, <2>4 DEF ReplayInv
  <1>n. ASSUME NEW t \in Tasks, Clear(t) PROVE ReplayInv'
    <2>1. FreshInv'
      BY <1>n DEF ReplayInv, FreshInv, Pending, Clear, Return, Goto
    <2>2. StoredInv'
      BY <1>n DEF ReplayInv, StoredInv, Clear, Return, Goto
    <2>3. PresentedInv'
      BY <1>n DEF ReplayInv, PresentedInv, Clear, Return, Goto
    <2>4. RefreshNotReplayed'
      BY <1>n DEF ReplayInv, RefreshNotReplayed, Clear, Return, Goto
    <2> QED
      BY <2>1, <2>2, <2>3, <2>4 DEF ReplayInv
  <1>o. ASSUME NEW t \in Tasks, StartLogin(t) PROVE ReplayInv'
    <2>1. FreshInv'
      BY <1>o DEF ReplayInv, FreshInv, Pending, StartLogin, Goto
    <2>2. StoredInv'
      BY <1>o DEF ReplayInv, StoredInv, StartLogin, Goto
    <2>3. PresentedInv'
      BY <1>o DEF ReplayInv, PresentedInv, StartLogin, Goto
    <2>4. RefreshNotReplayed'
      BY <1>o DEF ReplayInv, RefreshNotReplayed, StartLogin, Goto
    <2> QED
      BY <2>1, <2>2, <2>3, <2>4 DEF ReplayInv
  <1>p. ASSUME NEW t \in Tasks, ServeExchange(t) PROVE ReplayInv'
    <2>1. FreshInv'
      BY <1>0, <1>p, HeldNumbers DEF BaseInv, PcInv, ReplayInv, FreshInv, Pending, ServeExchange, Goto
    <2>2. StoredInv'
      BY <1>p DEF ReplayInv, StoredInv, ServeExchange, Goto
    <2>3. PresentedInv'
      BY <1>p DEF ReplayInv, PresentedInv, ServeExchange, Goto
    <2>4. RefreshNotReplayed'
      BY <1>p DEF ReplayInv, RefreshNotReplayed, ServeExchange, Goto
    <2> QED
      BY <2>1, <2>2, <2>3, <2>4 DEF ReplayInv
  <1>q. ASSUME NEW t \in Tasks, SaveLogin(t) PROVE ReplayInv'
    <2>1. FreshInv'
      BY <1>0, <1>q DEF ReplayInv, FreshInv, Pending, SaveLogin, Return, Goto
    <2>2. StoredInv'
      BY <1>0, <1>q DEF BaseInv, LockInv, Locked, PcInv, ReplayInv, FreshInv, StoredInv, PresentedInv, Pending, SaveLogin, Return, Goto
    <2>3. PresentedInv'
      BY <1>q DEF ReplayInv, PresentedInv, SaveLogin, Return, Goto
    <2>4. RefreshNotReplayed'
      BY <1>q DEF ReplayInv, RefreshNotReplayed, SaveLogin, Return, Goto
    <2> QED
      BY <2>1, <2>2, <2>3, <2>4 DEF ReplayInv
  <1>r. CASE UNCHANGED vars
    BY <1>r DEF ReplayInv, FreshInv, StoredInv, PresentedInv, RefreshNotReplayed, Pending, vars
  <1> QED
    BY <1>a, <1>b, <1>c, <1>d, <1>e, <1>f, <1>g, <1>h, <1>i, <1>j, <1>k, <1>l, <1>m,
       <1>n, <1>o, <1>p, <1>q, <1>r
       DEF Next, SessionStep, Progress, LoginStep

\* A rotated refresh token is never presented again unless the outcome of an
\* earlier request with it is in doubt.
THEOREM NoReplay == Spec => []RefreshNotReplayed
  <1>1. ReplayInv => RefreshNotReplayed
    BY DEF ReplayInv
  <1> QED
    BY BaseInit, BaseStep, ReplayInit, ReplayStep, <1>1, PTL DEF Spec

-----------------------------------------------------------------------------
(***************************************************************************)
(* One login session: the stored access token only gets newer, and a retry *)
(* is sent with a newer token than the rejected one.                       *)
(***************************************************************************)

\* While a refresh is on its way to the store, its access token is the newest
\* there is and nobody has seen it.
NewestInv ==
    \A u \in Tasks : pc[u] = "reply" =>
        /\ got[u].acc = issued
        /\ store # NoToken => store.acc < issued
        /\ \A t \in Tasks :
               sent[t] < issued /\ (pc[t] = "send" => cur[t].acc < issued)

\* After the forced refresh of a retry the store holds nothing as old as the
\* rejected token.
RetryInv ==
    \A t \in Tasks :
        /\ sent[t] \leq issued
        /\ pc[t] = "idle" => sent[t] = 0
        /\ pc[t] \in {"idle", "token"} => then[t] # "token"
        /\ sent[t] # 0 /\ then[t] = "send" /\ store # NoToken
              /\ pc[t] \in {"token", "lock"} \cup Locked
           => store.acc > sent[t]

SessionInv == NewestInv /\ RetryInv /\ RetryIsNewer

LEMMA SessionInit == Init => SessionInv
  BY DEF Init, SessionInv, NewestInv, RetryInv, RetryIsNewer

LEMMA KeptToken ==
    ASSUME BaseInv, NEW t \in Tasks, pc[t] = "reply"
    PROVE  Kept(t) \in Token /\ Kept(t).acc = got[t].acc /\ Kept(t) # NoToken
  <1>1. got[t] \in Token /\ cur[t] \in Token
    BY DEF BaseInv, TypeOK, PcInv
  <1> QED
    BY <1>1, NoTokenAssumption DEF Kept, Token

LEMMA SessionKeeps == BaseInv /\ SessionInv /\ [SessionNext]_vars => SessionInv'
  <1> SUFFICES ASSUME BaseInv, SessionInv, [SessionNext]_vars PROVE SessionInv'
    OBVIOUS
  <1> USE DEF server, history, local
  <1>0. /\ issued \in Nat /\ pc \in [Tasks -> PCs] /\ sent \in [Tasks -> Nat]
        /\ then \in [Tasks -> {"done", "send", "token"}]
        /\ cur \in [Tasks -> Token \cup {NoToken}]
        /\ got \in [Tasks -> Token \cup {NoToken}]
    BY DEF BaseInv, TypeOK
  <1>a. ASSUME NEW t \in Tasks, Start(t) PROVE SessionInv'
    <2>1. NewestInv'
      BY <1>0, <1>a DEF SessionInv, NewestInv, Start, Goto
    <2>2. RetryInv'
      BY <1>0, <1>a DEF SessionInv, RetryInv, Start, Goto
    <2>3. RetryIsNewer'
      BY <1>0, <1>a DEF SessionInv, RetryIsNewer, Start, Goto
    <2> QED
      BY <2>1, <2>2, <2>3 DEF SessionInv
  <1>b. ASSUME NEW t \in Tasks, LoadToken(t) PROVE SessionInv'
    <2>1. NewestInv'
      BY <1>0, <1>b DEF SessionInv, NewestInv, LoadToken, Use, Return, Goto
    <2>2. RetryInv'
      BY <1>0, <1>b DEF SessionInv, RetryInv, LoadToken, Use, Return, Goto
    <2>3. RetryIsNewer'
      BY <1>0, <1>b DEF SessionInv, RetryInv, RetryIsNewer, LoadToken, Use, Return, Goto
    <2> QED
      BY <2>1, <2>2, <2>3 DEF SessionInv
  <1>c. ASSUME NEW t \in Tasks, LockRefresh(t) PROVE SessionInv'
    <2>1. NewestInv'
      BY <1>c DEF SessionInv, NewestInv, LockRefresh, Goto
    <2>2. RetryInv'
      BY <1>c DEF SessionInv, RetryInv, LockRefresh, Goto
    <2>3. RetryIsNewer'
      BY <1>c DEF SessionInv, RetryIsNewer, LockRefresh, Goto
    <2> QED
      BY <2>1, <2>2, <2>3 DEF SessionInv
  <1>d. ASSUME NEW t \in Tasks, LoadForRefresh(t) PROVE SessionInv'
    <2>1. NewestInv'
      BY <1>d DEF SessionInv, NewestInv, LoadForRefresh, Goto
    <2>2. RetryInv'
      BY <1>0, <1>d, HeldNumbers DEF BaseInv, PcInv, LockInv, Locked, SessionInv, NewestInv, RetryInv, RetryIsNewer, LoadForRefresh, Goto
    <2>3. RetryIsNewer'
      BY <1>d DEF SessionInv, RetryIsNewer, LoadForRefresh, Goto
    <2> QED
      BY <2>1, <2>2, <2>3 DEF SessionInv
  <1>e. ASSUME NEW t \in Tasks, ServeRefresh(t) PROVE SessionInv'
    <2>1. NewestInv'
      BY <1>0, <1>e, HeldNumbers DEF BaseInv, PcInv, LockInv, Locked, SessionInv, NewestInv, RetryInv, RetryIsNewer, ServeRefresh, Goto
    <2>2. RetryInv'
      BY <1>0, <1>e, HeldNumbers DEF BaseInv, PcInv, LockInv, Locked, SessionInv, NewestInv, RetryInv, RetryIsNewer, ServeRefresh, Goto
    <2>3. RetryIsNewer'
      BY <1>e DEF SessionInv, RetryIsNewer, ServeRefresh, Goto
    <2> QED
      BY <2>1, <2>2, <2>3 DEF SessionInv
  <1>f. ASSUME NEW t \in Tasks, RefuseRefresh(t) PROVE SessionInv'
    <2>1. NewestInv'
      BY <1>0, <1>f DEF SessionInv, NewestInv, RefuseRefresh, Return, Goto
    <2>2. RetryInv'
      BY <1>0, <1>f DEF SessionInv, RetryInv, RefuseRefresh, Return, Goto
    <2>3. RetryIsNewer'
      BY <1>f DEF SessionInv, RetryIsNewer, RefuseRefresh, Return, Goto
    <2> QED
      BY <2>1, <2>2, <2>3 DEF SessionInv
  <1>g. ASSUME NEW t \in Tasks, SaveRefresh(t) PROVE SessionInv'
    <2>1. NewestInv'
      BY <1>0, <1>g, KeptToken DEF BaseInv, LockInv, Locked, SessionInv, NewestInv, SaveRefresh, Use, Return, Goto
    <2>2. RetryInv'
      BY <1>0, <1>g, KeptToken DEF SessionInv, NewestInv, RetryInv, SaveRefresh, Use, Return, Goto
    <2>3. RetryIsNewer'
      BY <1>0, <1>g, KeptToken DEF BaseInv, PcInv, SessionInv, NewestInv, RetryInv, RetryIsNewer, SaveRefresh, Use, Return, Goto
    <2> QED
      BY <2>1, <2>2, <2>3 DEF SessionInv
  <1>h. ASSUME NEW t \in Tasks, LoseRefresh(t) PROVE SessionInv'
    <2>1. NewestInv'
      BY <1>0, <1>h DEF SessionInv, NewestInv, LoseRefresh, Return, Goto
    <2>2. RetryInv'
      BY <1>0, <1>h DEF SessionInv, RetryInv, LoseRefresh, Return, Goto
    <2>3. RetryIsNewer'
      BY <1>h DEF SessionInv, RetryIsNewer, LoseRefresh, Return, Goto
    <2> QED
      BY <2>1, <2>2, <2>3 DEF SessionInv
  <1>i. ASSUME ServeLate PROVE SessionInv'
    <2>1. NewestInv'
      BY <1>i DEF SessionInv, NewestInv, ServeLate
    <2>2. RetryInv'
      BY <1>i DEF SessionInv, RetryInv, ServeLate
    <2>3. RetryIsNewer'
      BY <1>i DEF SessionInv, RetryIsNewer, ServeLate
    <2> QED
      BY <2>1, <2>2, <2>3 DEF SessionInv
  <1>j. ASSUME NEW t \in Tasks, Answered(t) \/ Fail(t) \/ Drop(t) PROVE SessionInv'
    <2>1. NewestInv'
      BY <1>0, <1>j DEF SessionInv, NewestInv, Answered, Fail, Drop, Return, Goto
    <2>2. RetryInv'
      BY <1>0, <1>j DEF SessionInv, RetryInv, Answered, Fail, Drop, Return, Goto
    <2>3. RetryIsNewer'
      BY <1>0, <1>j DEF SessionInv, RetryIsNewer, Answered, Fail, Drop, Return, Goto
    <2> QED
      BY <2>1, <2>2, <2>3 DEF SessionInv
  <1>k. ASSUME NEW t \in Tasks, Rejected(t) PROVE SessionInv'
    <2>1. NewestInv'
      BY <1>0, <1>k DEF SessionInv, NewestInv, Rejected, Goto
    <2>2. RetryInv'
      BY <1>0, <1>k, HeldNumbers DEF BaseInv, PcInv, SessionInv, NewestInv, RetryInv, Rejected, Goto
    <2>3. RetryIsNewer'
      BY <1>0, <1>k DEF SessionInv, RetryIsNewer, Rejected, Goto
    <2> QED
      BY <2>1, <2>2, <2>3 DEF SessionInv
  <1>l. ASSUME NEW t \in Tasks, LoadForLogout(t) PROVE SessionInv'
    <2>1. NewestInv'
      BY <1>l DEF SessionInv, NewestInv, LoadForLogout, Goto
    <2>2. RetryInv'
      BY <1>0, <1>l, HeldNumbers DEF BaseInv, PcInv, LockInv, Locked, SessionInv, NewestInv, RetryInv, RetryIsNewer, LoadForLogout, Goto
    <2>3. RetryIsNewer'
      BY <1>l DEF SessionInv, RetryIsNewer, LoadForLogout, Goto
    <2> QED
      BY <2>1, <2>2, <2>3 DEF SessionInv
  <1>m. ASSUME NEW t \in Tasks, Revoke(t) PROVE SessionInv'
    <2>1. NewestInv'
      BY <1>m DEF SessionInv, NewestInv, Revoke, Goto
    <2>2. RetryInv'
      BY <1>0, <1>m, HeldNumbers DEF BaseInv, PcInv, LockInv, Locked, SessionInv, NewestInv, RetryInv, RetryIsNewer, Revoke, Goto
    <2>3. RetryIsNewer'
      BY <1>m DEF SessionInv, RetryIsNewer, Revoke, Goto
    <2> QED
      BY <2>1, <2>2, <2>3 DEF SessionInv
  <1>n. ASSUME NEW t \in Tasks, Clear(t) PROVE SessionInv'
    <2>1. NewestInv'
      BY <1>0, <1>n DEF SessionInv, NewestInv, Clear, Return, Goto
    <2>2. RetryInv'
      BY <1>0, <1>n DEF SessionInv, RetryInv, Clear, Return, Goto
    <2>3. RetryIsNewer'
      BY <1>n DEF SessionInv, RetryIsNewer, Clear, Return, Goto
    <2> QED
      BY <2>1, <2>2, <2>3 DEF SessionInv
  <1>r. CASE UNCHANGED vars
    BY <1>r DEF SessionInv, NewestInv, RetryInv, RetryIsNewer, vars
  <1> QED
    BY <1>a, <1>b, <1>c, <1>d, <1>e, <1>f, <1>g, <1>h, <1>i, <1>j, <1>k, <1>l, <1>m,
       <1>n, <1>r
       DEF SessionNext, SessionStep, Progress

LEMMA SessionIsPart == [SessionNext]_vars => [Next]_vars
  BY DEF SessionNext, Next

LEMMA SessionInvariant == SessionSpec => [](BaseInv /\ SessionInv)
  BY BaseInit, BaseStep, SessionInit, SessionKeeps, SessionIsPart, PTL DEF SessionSpec

\* A retry is sent with a token newer than the rejected one.
THEOREM RetryNewer == SessionSpec => []RetryIsNewer
  <1>1. SessionInv => RetryIsNewer
    BY DEF SessionInv
  <1> QED
    BY SessionInvariant, <1>1, PTL

\* The stored token set is never replaced by an older one.
THEOREM NeverOlder == SessionSpec => StoreNeverOlder
  <1>1. BaseInv /\ SessionInv /\ [SessionNext]_vars
           => [store # NoToken /\ store' # NoToken => store'.acc >= store.acc]_vars
    <2> SUFFICES ASSUME BaseInv, SessionInv, [SessionNext]_vars,
                        store # NoToken, store' # NoToken
                 PROVE  store'.acc >= store.acc
      OBVIOUS
    <2>1. store.acc \in Nat /\ issued \in Nat
      BY DEF BaseInv, TypeOK, Token
    <2>2. CASE store' = store
      BY <2>1, <2>2
    <2>3. CASE store' # store
      <3>1. PICK t \in Tasks : SaveRefresh(t)
        BY <2>3 DEF SessionNext, SessionStep, Progress, vars, Start, LoadToken, LockRefresh,
              LoadForRefresh, ServeRefresh, RefuseRefresh, LoseRefresh, ServeLate, Answered,
              Rejected, LoadForLogout, Revoke, Clear, Fail, Drop
      <3>2. store'.acc = issued /\ store.acc < issued
        BY <3>1, KeptToken DEF SaveRefresh, SessionInv, NewestInv
      <3> QED
        BY <2>1, <3>2
    <2> QED
      BY <2>2, <2>3
  <1> QED
    BY <1>1, SessionInvariant, PTL DEF SessionSpec, StoreNeverOlder

-----------------------------------------------------------------------------
(* The client implements TokenVault. *)

LEMMA VaultInit == Init => Vault!Init
  BY NoTokenAssumption DEF Init, Vault!Init

LEMMA VaultStep == BaseInv /\ SessionInv /\ [SessionNext]_vars => [Vault!Next]_(Vault!vars)
  <1> SUFFICES ASSUME BaseInv, SessionInv, [SessionNext]_vars
               PROVE  [Vault!Next]_(Vault!vars)
    OBVIOUS
  <1> DEFINE Replying == \E t \in Tasks : pc[t] = "reply"
             held == IF store = NoToken THEN NoToken ELSE store.acc
             floor == IF Replying THEN issued - 1 ELSE issued
  <1> USE DEF server, history, local
  <1>0. issued \in Nat /\ pc \in [Tasks -> PCs]
    BY DEF BaseInv, TypeOK
  <1>1. ASSUME UNCHANGED <<store, issued>>, Replying' <=> Replying
        PROVE  [Vault!Next]_(Vault!vars)
    BY <1>1 DEF Vault!vars
  <1>2. ASSUME NEW t \in Tasks, ServeRefresh(t) PROVE [Vault!Next]_(Vault!vars)
    <2>1. ~Replying
      BY <1>2 DEF BaseInv, LockInv, Locked, ServeRefresh
    <2>2. Replying' /\ issued' = issued + 1 /\ store' = store
      BY <1>0, <1>2 DEF ServeRefresh, Goto
    <2> QED
      BY <1>0, <2>1, <2>2 DEF Vault!vars
  <1>3. ASSUME NEW t \in Tasks, SaveRefresh(t) PROVE [Vault!Next]_(Vault!vars)
    <2>1. Replying /\ ~Replying'
      BY <1>0, <1>3 DEF BaseInv, LockInv, Locked, SaveRefresh, Use, Return, Goto
    <2>2. store' # NoToken /\ store'.acc = issued /\ issued' = issued
      BY <1>3, KeptToken DEF SessionInv, NewestInv, SaveRefresh
    <2> QED
      BY <1>0, <2>1, <2>2 DEF Vault!Next, Vault!Save
  <1>4. ASSUME NEW t \in Tasks, LoseRefresh(t) PROVE [Vault!Next]_(Vault!vars)
    <2>1. UNCHANGED <<store, issued>>
      BY <1>4 DEF LoseRefresh
    <2>2. CASE pc[t] = "refresh"
      BY <1>0, <1>1, <1>4, <2>1, <2>2 DEF LoseRefresh, Return, Goto
    <2>3. CASE pc[t] = "reply"
      <3>1. Replying /\ ~Replying'
        BY <1>0, <1>4, <2>3 DEF BaseInv, LockInv, Locked, LoseRefresh, Return, Goto
      <3>2. issued # 0
        BY <2>3, HeldNumbers DEF BaseInv, PcInv
      <3> QED
        BY <1>0, <2>1, <3>1, <3>2 DEF Vault!Next, Vault!GiveUp
    <2> QED
      BY <1>4, <2>2, <2>3 DEF LoseRefresh
  <1>5. ASSUME NEW t \in Tasks, Clear(t) PROVE [Vault!Next]_(Vault!vars)
    <2>1. store' = NoToken /\ issued' = issued /\ (Replying' <=> Replying)
      BY <1>0, <1>5 DEF Clear, Return, Goto
    <2> QED
      BY <2>1 DEF Vault!Next, Vault!Clear
  <1>6. ASSUME NEW t \in Tasks,
               \/ Start(t) \/ LoadToken(t) \/ LockRefresh(t) \/ LoadForRefresh(t)
               \/ RefuseRefresh(t) \/ Answered(t) \/ Rejected(t)
               \/ LoadForLogout(t) \/ Revoke(t) \/ Fail(t) \/ Drop(t)
        PROVE  [Vault!Next]_(Vault!vars)
    <2>1. UNCHANGED <<store, issued>>
      BY <1>6 DEF Start, LoadToken, LockRefresh, LoadForRefresh, RefuseRefresh, Answered,
                  Rejected, LoadForLogout, Revoke, Fail, Drop
    <2>2. PICK l \in PCs \ {"reply"} : pc[t] # "reply" /\ pc' = [pc EXCEPT ![t] = l]
      BY <1>6 DEF Start, LoadToken, Use, LockRefresh, LoadForRefresh, RefuseRefresh, Answered,
                  Rejected, LoadForLogout, Revoke, Fail, Drop, Return, Goto, PCs, Locked
    <2>3. Replying' <=> Replying
      BY <1>0, <2>2
    <2> QED
      BY <1>1, <2>1, <2>3
  <1>7. ASSUME ServeLate PROVE [Vault!Next]_(Vault!vars)
    BY <1>1, <1>7 DEF ServeLate
  <1>8. CASE UNCHANGED vars
    BY <1>1, <1>8 DEF vars
  <1> QED
    BY <1>2, <1>3, <1>4, <1>5, <1>6, <1>7, <1>8 DEF SessionNext, SessionStep, Progress

\* The one-session client implements the abstract vault.
THEOREM VaultImplemented == SessionSpec => ImplementsVault
  BY SessionInvariant, VaultInit, VaultStep, PTL DEF SessionSpec, ImplementsVault, Vault!Spec

-----------------------------------------------------------------------------
(***************************************************************************)
(* A logout that no refresh and no login overlaps is final.                *)
(***************************************************************************)

\* With the store empty and nobody about to fill it, a step of a task keeps both,
\* unless it starts a login.
LEMMA FinalStep ==
    ASSUME BaseInv, store = NoToken, \A t \in Tasks : ~Filling(t), [Next]_vars
    PROVE  store' = NoToken /\ \A t \in Tasks : Filling(t)' => pc'[t] = "callback"
  <1> USE DEF local, server, history
  <1>1. pc \in [Tasks -> PCs]
    BY DEF BaseInv, TypeOK
  <1>2. ASSUME NEW t \in Tasks, NEW l, Goto(t, l),
               l \notin {"refresh", "reply", "exchanged"}
        PROVE  \A u \in Tasks : Filling(u)' => pc'[u] = "callback"
    BY <1>1, <1>2 DEF Filling, Goto
  <1>3. ASSUME NEW t \in Tasks, SessionStep(t) \/ LoginStep(t)
        PROVE  store' = NoToken /\ \A u \in Tasks : Filling(u)' => pc'[u] = "callback"
    <2>1. CASE \/ LoadForRefresh(t) \/ ServeRefresh(t) \/ RefuseRefresh(t) \/ SaveRefresh(t)
               \/ LoseRefresh(t) \/ ServeExchange(t) \/ SaveLogin(t) \/ LoadToken(t)
      BY <2>1 DEF Filling, LoadForRefresh, ServeRefresh, RefuseRefresh, SaveRefresh,
           LoseRefresh, ServeExchange, SaveLogin, LoadToken
    <2>2. CASE LockRefresh(t) \/ Rejected(t) \/ LoadForLogout(t) \/ Revoke(t)
      BY <2>2, <1>2 DEF LockRefresh, Rejected, LoadForLogout, Revoke
    <2>3. CASE Start(t) \/ StartLogin(t)
      BY <2>3, <1>2 DEF Start, StartLogin
    <2>4. CASE Answered(t) \/ Clear(t) \/ Fail(t) \/ Drop(t)
      BY <2>4, <1>2 DEF Answered, Clear, Fail, Drop, Return
    <2> QED
      BY <1>3, <2>1, <2>2, <2>3, <2>4 DEF SessionStep, LoginStep, Progress
  <1>4. CASE ServeLate \/ UNCHANGED vars
    BY <1>4 DEF ServeLate, vars, Filling
  <1> QED
    BY <1>3, <1>4 DEF Next

\* An empty store stays empty until the user starts a login, unless a refresh was
\* past its load when the logout cleared the store.
THEOREM LogoutFinal == Spec => LoggedOutStays
  <1>1. BaseInv /\ [Next]_vars =>
          [store = NoToken /\ (\A t \in Tasks : ~Filling(t))
             => /\ store' = NoToken
                /\ \A t \in Tasks : Filling(t)' => pc'[t] = "callback"]_vars
    BY FinalStep
  <1> QED
    BY BaseInit, BaseStep, <1>1, PTL DEF Spec, LoggedOutStays
=============================================================================
