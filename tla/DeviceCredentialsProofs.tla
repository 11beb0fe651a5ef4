----------------------- MODULE DeviceCredentialsProofs -----------------------
(***************************************************************************)
(* Proofs about DeviceCredentials, for any calls at once, any devices, any *)
(* number of generations, with and without the reload of the credentials.  *)
(***************************************************************************)
EXTENDS DeviceCredentials, TLAPS

Places == {"idle", "post", "save", "ensure", "target", "sign", "sent", "out", "report",
           "outSent", "clear"}

\* The types, and what a task holds where it is.
Types ==
    /\ dstore \in Cred \cup {NoCred}
    /\ secret \in [Devices -> Nat]
    /\ late \subseteq Devices /\ orphan \subseteq Devices /\ crossed \subseteq Devices
    /\ pc \in [Tasks -> Places]
    /\ dev \in [Tasks -> Devices]
    /\ reply \in [Tasks -> Cred \cup {NoCred}]
    /\ signer \in [Tasks -> Cred \cup {NoCred}]
    /\ retry \in [Tasks -> BOOLEAN] /\ overlap \in [Tasks -> BOOLEAN]
    /\ \A t \in Tasks : pc[t] = "save" => reply[t] \in Cred /\ reply[t].dev = dev[t]
    /\ \A t \in Tasks : pc[t] \in Sent => signer[t] \in Cred

LEMMA TypesInit == Init => Types
  BY HereAssumption DEF Init, Types, Cred, Places, Sent

LEMMA TypesStep ==
    ASSUME Types, NEW t \in Tasks, Step(t) PROVE Types'
  <1> USE HereAssumption, NoCredAssumption DEF Types, Places, Sent
  <1>1. CASE StartWriter(t)
    BY <1>1 DEF StartWriter, Goto
  <1>2. CASE EnsureRegistered(t)
    <2>1. CASE dstore # NoCred
      <3>1. Return(t) /\ UNCHANGED <<dstore, secret, late, orphan, crossed>>
        BY <1>2, <2>1 DEF EnsureRegistered
      <3> QED
        BY <3>1 DEF Return, Goto
    <2>2. CASE dstore = NoCred
      BY <1>2, <2>2 DEF EnsureRegistered, Goto, local
    <2> QED
      BY <2>1, <2>2
  <1>3. CASE RotateTarget(t)
    BY <1>3 DEF RotateTarget, Goto, Cred
  <1>4. CASE Serve(t)
    BY <1>4 DEF Serve, Goto, Cred
  <1>5. CASE Save(t)
    BY <1>5 DEF Save, Recorded, Return, Goto
  <1>6. CASE LoseWrite(t)
    BY <1>6 DEF LoseWrite, Return, Goto
  <1>7. CASE StartSigned(t)
    BY <1>7 DEF StartSigned, Goto, local
  <1>8. CASE LogoutLoad(t)
    BY <1>8 DEF LogoutLoad, Goto, local
  <1>9. CASE Sign(t)
    <2>1. OnItsWay(t, dstore.dev) \in BOOLEAN
      BY DEF OnItsWay
    <2> QED
      BY <1>9, <2>1 DEF Sign, Goto
  <1>10. CASE Answered(t)
    BY <1>10 DEF Answered, Return, Goto, local
  <1>11. CASE Rejected(t)
    <2>1. OnItsWay(t, signer[t].dev) \in BOOLEAN
      BY DEF OnItsWay
    <2>2. CASE reload
      BY <1>11, <2>1, <2>2 DEF Rejected, Goto
    <2>3. CASE ~reload
      BY <1>11, <2>1, <2>3 DEF Rejected, Goto
    <2> QED
      BY <2>2, <2>3
  <1>12. CASE LogoutClear(t)
    BY <1>12 DEF LogoutClear, Return, Goto
  <1>13. CASE Fail(t)
    BY <1>13 DEF Fail, Return, Goto, local
  <1> QED
    BY <1>1, <1>2, <1>3, <1>4, <1>5, <1>6, <1>7, <1>8, <1>9, <1>10, <1>11, <1>12, <1>13
    DEF Step

LEMMA TypesLate == Types /\ ServeLate => Types'
  BY DEF Types, ServeLate, Sent

-----------------------------------------------------------------------------
\* An answer on its way to the store has the current secret of its device, unless a
\* late request replaced that or another answer for the device is under way too.
Suspect == orphan \cup crossed

ReplyIsCurrent ==
    \A t \in Tasks : pc[t] = "save" /\ dev[t] \notin Suspect => reply[t].gen = secret[dev[t]]

\* Two answers on their way at once are of different devices, or crossed.
CrossingIsKnown ==
    \A t, u \in Tasks :
        pc[t] = "save" /\ pc[u] = "save" /\ dev[t] = dev[u] /\ t # u => dev[t] \in crossed

\* What a task signs with, other than in the retry of umbra-go.
Signing(t) == pc[t] \in Sent /\ (reload \/ retry[t])

\* Whoever signs while an answer for its device is under way knows.
SavesAreSeen ==
    \A t, u \in Tasks : pc[t] = "save" /\ Signing(u) /\ signer[u].dev = dev[t] => overlap[u]

Inv ==
    /\ Types /\ ReplyIsCurrent /\ CrossingIsKnown /\ SavesAreSeen
    /\ StoredIsCurrent /\ SignsCurrent

LEMMA InvInit == Init => Inv
  <1> SUFFICES ASSUME Init PROVE Inv
    OBVIOUS
  <1>1. StoredIsCurrent
    BY HereAssumption DEF Init, StoredIsCurrent
  <1>2. ReplyIsCurrent /\ CrossingIsKnown /\ SavesAreSeen /\ SignsCurrent
    BY DEF Init, ReplyIsCurrent, CrossingIsKnown, SavesAreSeen, SignsCurrent, Signing, Sent
  <1> QED
    BY <1>1, <1>2, TypesInit DEF Inv

\* Steps that leave the server's secrets and the store alone, and put nothing on
\* its way to it.
LEMMA QuietStep ==
    ASSUME Inv, Types', NEW t \in Tasks,
           UNCHANGED <<reload, dstore, secret, orphan, crossed>>,
           pc[t] # "save", pc'[t] # "save",
           Signing(t)' => Signing(t) /\ signer'[t] = signer[t] /\ (overlap[t] => overlap'[t]),
           \A u \in Tasks \ {t} :
               /\ pc'[u] = pc[u] /\ dev'[u] = dev[u] /\ reply'[u] = reply[u]
               /\ signer'[u] = signer[u] /\ retry'[u] = retry[u] /\ overlap'[u] = overlap[u]
    PROVE  Inv'
  <1>1. ReplyIsCurrent' /\ CrossingIsKnown'
    BY DEF Inv, ReplyIsCurrent, CrossingIsKnown, Suspect
  <1>2. \A u \in Tasks : Signing(u)' =>
            Signing(u) /\ signer'[u] = signer[u] /\ (overlap[u] => overlap'[u])
    BY DEF Signing
  <1>3. SavesAreSeen'
    BY <1>2 DEF Inv, SavesAreSeen
  <1>4. SignsCurrent'
    BY <1>2 DEF Inv, SignsCurrent, Signing
  <1>5. StoredIsCurrent'
    BY DEF Inv, StoredIsCurrent
  <1> QED
    BY <1>1, <1>3, <1>4, <1>5 DEF Inv

\* The steps that change a secret: a call that is served, and a request that was
\* given up.
LEMMA ChangeStep ==
    ASSUME Inv, Types', NEW d \in Devices,
           UNCHANGED <<reload, dstore, retry>>,
           secret' = [secret EXCEPT ![d] = @ + 1],
           orphan \subseteq orphan', crossed \subseteq crossed',
           overlap' = [u \in Tasks |-> overlap[u] \/ SignsFor(u, d)],
           signer' = signer,
           \A u \in Tasks :
              \/ pc'[u] = pc[u] /\ dev'[u] = dev[u] /\ reply'[u] = reply[u]
              \/ pc[u] # "save" /\ pc'[u] = "save" /\ dev'[u] = d,
           \/ d \in orphan' /\ UNCHANGED <<pc, dev, reply>>
           \/ \E t \in Tasks :
                 /\ pc'[t] = "save" /\ dev'[t] = d /\ reply'[t].gen = secret'[d]
                 /\ \A u \in Tasks \ {t} :
                       /\ pc'[u] = pc[u] /\ dev'[u] = dev[u] /\ reply'[u] = reply[u]
                       /\ pc[u] = "save" /\ dev[u] = d => d \in crossed'
    PROVE  Inv'
  <1>t. Types /\ ReplyIsCurrent /\ CrossingIsKnown /\ SavesAreSeen /\ StoredIsCurrent /\ SignsCurrent
    BY DEF Inv
  <1>0. \A e \in Devices \ {d} : secret'[e] = secret[e]
    BY <1>t DEF Types
  <1>1. ReplyIsCurrent'
    <2> SUFFICES ASSUME NEW u \in Tasks, pc'[u] = "save", dev'[u] \notin Suspect'
                 PROVE  reply'[u].gen = secret'[dev'[u]]
      BY DEF ReplyIsCurrent
    <2>1. CASE dev'[u] = d
      BY <2>1 DEF Suspect
    <2>2. CASE dev'[u] # d
      <3>1. pc[u] = "save" /\ dev[u] = dev'[u] /\ reply'[u] = reply[u] /\ dev[u] \in Devices
        BY <1>t, <2>2 DEF Types
      <3> QED
        BY <1>t, <1>0, <2>2, <3>1 DEF ReplyIsCurrent, Suspect
    <2> QED
      BY <2>1, <2>2
  <1>2. CrossingIsKnown'
    BY <1>t DEF CrossingIsKnown
  <1>3. \A u \in Tasks : Signing(u)' => /\ Signing(u)
                                        /\ overlap[u] \/ signer[u].dev = d => overlap'[u]
    <2> SUFFICES ASSUME NEW u \in Tasks, Signing(u)'
                 PROVE  Signing(u) /\ (overlap[u] \/ signer[u].dev = d => overlap'[u])
      OBVIOUS
    <2>1. Signing(u)
      BY DEF Signing, Sent
    <2>2. signer[u] # NoCred
      BY <1>t, <2>1, NoCredAssumption DEF Signing, Types
    <2> QED
      BY <2>1, <2>2 DEF SignsFor
  <1>4. SavesAreSeen'
    BY <1>t, <1>3 DEF SavesAreSeen
  <1>5. SignsCurrent'
    <2>1. \A u \in Tasks : Signing(u) => signer[u].dev \in Devices
      BY <1>t DEF Signing, Types, Cred
    <2> QED
      BY <1>t, <1>0, <1>3, <2>1 DEF SignsCurrent, Signing
  <1>6. StoredIsCurrent'
    <2> SUFFICES ASSUME dstore # NoCred, dstore.dev \notin orphan' \cup crossed',
                        \A t \in Tasks : pc'[t] # "save" \/ dev'[t] # dstore.dev
                 PROVE  dstore.gen = secret'[dstore.dev]
      BY DEF StoredIsCurrent
    <2>1. dstore.dev # d
      OBVIOUS
    <2>2. dstore.dev \in Devices /\ \A t \in Tasks : pc[t] # "save" \/ dev[t] # dstore.dev
      BY <1>t DEF Types, Cred
    <2> QED
      BY <1>t, <1>0, <2>1, <2>2 DEF StoredIsCurrent
  <1> QED
    BY <1>1, <1>2, <1>4, <1>5, <1>6 DEF Inv

\* An answer leaves its way: it is saved, or it is lost.
LEMMA SaveStep ==
    ASSUME Inv, Types', NEW t \in Tasks, UNCHANGED reload, Save(t) PROVE Inv'
  <1>t. Types /\ ReplyIsCurrent /\ CrossingIsKnown /\ SavesAreSeen /\ SignsCurrent
    BY DEF Inv
  <1> DEFINE d == dev[t]
  <1>1. /\ pc[t] = "save" /\ pc'[t] = "idle" /\ dstore' = reply[t] /\ secret' = secret
        /\ d \in Devices /\ reply[t] \in Cred /\ reply[t].dev = d
    BY <1>t DEF Save, Return, Goto, Types
  <1>2. \A u \in Tasks \ {t} :
           /\ pc'[u] = pc[u] /\ dev'[u] = dev[u] /\ reply'[u] = reply[u]
           /\ signer'[u] = signer[u] /\ retry'[u] = retry[u] /\ overlap'[u] = overlap[u]
    BY <1>t DEF Save, Return, Goto, Types
  <1>3. /\ Suspect' \subseteq Suspect
        /\ Suspect \ {d} \subseteq Suspect' /\ crossed \ {d} \subseteq crossed'
    BY DEF Save, Recorded, Suspect
  <1>4. \/ orphan' = orphan /\ crossed' = crossed
        \/ reply[t].gen = secret[d]
    BY DEF Save, Recorded
  <1>5. d \in crossed /\ d \notin crossed' =>
           \A u \in Tasks \ {t} : pc[u] # "save" \/ dev[u] # d
    BY DEF Save, Recorded, OnItsWay
  <1>6. CrossingIsKnown'
    BY <1>t, <1>1, <1>2, <1>3, <1>5 DEF CrossingIsKnown
  <1>7. ReplyIsCurrent'
    <2> SUFFICES ASSUME NEW u \in Tasks, pc'[u] = "save", dev'[u] \notin Suspect'
                 PROVE  reply'[u].gen = secret'[dev'[u]]
      BY DEF ReplyIsCurrent
    <2>1. u # t /\ pc[u] = "save" /\ dev[u] \notin Suspect'
      BY <1>1, <1>2
    <2>2. dev[u] = d => d \in crossed
      BY <1>t, <1>1, <2>1 DEF CrossingIsKnown
    <2>3. dev[u] # d
      BY <1>2, <1>5, <2>1, <2>2 DEF Suspect
    <2> QED
      BY <1>t, <1>1, <1>2, <1>3, <2>1, <2>3 DEF ReplyIsCurrent
  <1>8. \A u \in Tasks : Signing(u)' => /\ Signing(u) /\ u # t
                                        /\ signer'[u] = signer[u] /\ overlap'[u] = overlap[u]
    BY <1>1, <1>2 DEF Signing, Sent
  <1>9. SavesAreSeen'
    <2>1. \A u \in Tasks : pc'[u] = "save" => pc[u] = "save" /\ dev'[u] = dev[u]
      BY <1>1, <1>2
    <2> QED
      BY <1>t, <1>8, <2>1 DEF SavesAreSeen
  <1>10. SignsCurrent'
    <2>1. \A u \in Tasks : Signing(u) /\ signer[u].dev = d => overlap[u]
      BY <1>t, <1>1 DEF SavesAreSeen
    <2> QED
      BY <1>t, <1>1, <1>3, <1>8, <2>1 DEF SignsCurrent, Signing, Suspect
  <1>11. StoredIsCurrent'
    <2>1. dstore'.dev \notin orphan' \cup crossed' => reply[t].gen = secret[d]
      BY <1>t, <1>1, <1>4 DEF ReplyIsCurrent, Suspect
    <2> QED
      BY <1>1, <2>1 DEF StoredIsCurrent
  <1> QED
    BY <1>6, <1>7, <1>9, <1>10, <1>11 DEF Inv

LEMMA LoseStep ==
    ASSUME Inv, Types', NEW t \in Tasks, UNCHANGED reload, pc[t] = "save", LoseWrite(t)
    PROVE  Inv'
  <1>t. Types /\ ReplyIsCurrent /\ CrossingIsKnown /\ SavesAreSeen /\ SignsCurrent
        /\ StoredIsCurrent
    BY DEF Inv
  <1>1. /\ pc'[t] = "idle" /\ UNCHANGED <<dstore, secret, crossed>>
        /\ orphan' = IF reply[t].gen = secret[dev[t]] THEN orphan \cup {dev[t]} ELSE orphan
    BY <1>t DEF LoseWrite, Return, Goto, Types
  <1>2. \A u \in Tasks \ {t} :
           /\ pc'[u] = pc[u] /\ dev'[u] = dev[u] /\ reply'[u] = reply[u]
           /\ signer'[u] = signer[u] /\ retry'[u] = retry[u] /\ overlap'[u] = overlap[u]
    BY <1>t DEF LoseWrite, Return, Goto, Types
  <1>3. Suspect \subseteq Suspect' /\ dev[t] \in Suspect'
    BY <1>t, <1>1 DEF ReplyIsCurrent, Suspect
  <1>4. CrossingIsKnown' /\ ReplyIsCurrent'
    BY <1>t, <1>1, <1>2, <1>3 DEF CrossingIsKnown, ReplyIsCurrent
  <1>5. \A u \in Tasks : Signing(u)' => /\ Signing(u) /\ u # t
                                        /\ signer'[u] = signer[u] /\ overlap'[u] = overlap[u]
    BY <1>1, <1>2 DEF Signing, Sent
  <1>6. SavesAreSeen'
    <2>1. \A u \in Tasks : pc'[u] = "save" => pc[u] = "save" /\ dev'[u] = dev[u]
      BY <1>1, <1>2
    <2> QED
      BY <1>t, <1>5, <2>1 DEF SavesAreSeen
  <1>7. SignsCurrent'
    BY <1>t, <1>1, <1>3, <1>5 DEF SignsCurrent, Signing, Suspect
  <1>8. StoredIsCurrent'
    <2> SUFFICES ASSUME dstore # NoCred, dstore.dev \notin Suspect',
                        \A u \in Tasks : pc'[u] # "save" \/ dev'[u] # dstore.dev
                 PROVE  dstore.gen = secret[dstore.dev]
      BY <1>1 DEF StoredIsCurrent, Suspect
    <2>1. \A u \in Tasks : pc[u] # "save" \/ dev[u] # dstore.dev
      BY <1>2, <1>3
    <2> QED
      BY <1>t, <1>3, <2>1 DEF StoredIsCurrent, Suspect
  <1> QED
    BY <1>4, <1>6, <1>7, <1>8 DEF Inv

\* A request is signed with what is stored.
LEMMA SignStep ==
    ASSUME Inv, Types', NEW t \in Tasks, UNCHANGED reload, Sign(t) PROVE Inv'
  <1>t. Types /\ ReplyIsCurrent /\ CrossingIsKnown /\ SavesAreSeen /\ SignsCurrent
        /\ StoredIsCurrent
    BY DEF Inv
  <1>1. /\ pc[t] \in {"sign", "report"} /\ pc'[t] \in Sent /\ dstore # NoCred
        /\ signer'[t] = dstore
        /\ overlap'[t] <=> OnItsWay(t, dstore.dev)
        /\ UNCHANGED <<dstore, secret, orphan, crossed, dev, reply, retry>>
    BY <1>t DEF Sign, Goto, Types, Sent
  <1>2. \A u \in Tasks \ {t} :
           pc'[u] = pc[u] /\ signer'[u] = signer[u] /\ overlap'[u] = overlap[u]
    BY <1>t DEF Sign, Goto, Types
  <1>3. \A u \in Tasks : pc'[u] = "save" <=> pc[u] = "save"
    BY <1>1, <1>2 DEF Sent
  <1>4. CrossingIsKnown' /\ ReplyIsCurrent' /\ StoredIsCurrent'
    BY <1>t, <1>1, <1>3 DEF CrossingIsKnown, ReplyIsCurrent, StoredIsCurrent, Suspect
  <1>5. \A u \in Tasks \ {t} : Signing(u)' <=> Signing(u)
    BY <1>1, <1>2 DEF Signing
  <1>6. SavesAreSeen'
    <2> SUFFICES ASSUME NEW v \in Tasks, NEW u \in Tasks, pc'[v] = "save", Signing(u)',
                        signer'[u].dev = dev'[v]
                 PROVE  overlap'[u]
      BY DEF SavesAreSeen
    <2>1. pc[v] = "save" /\ v # t /\ dev'[v] = dev[v]
      BY <1>1, <1>3
    <2>2. CASE u = t
      BY <1>1, <2>1, <2>2 DEF OnItsWay
    <2>3. CASE u # t
      BY <1>t, <1>2, <1>5, <2>1, <2>3 DEF SavesAreSeen
    <2> QED
      BY <2>2, <2>3
  <1>7. SignsCurrent'
    <2> SUFFICES ASSUME NEW u \in Tasks, Signing(u)', signer'[u].dev \notin Suspect, ~overlap'[u]
                 PROVE  signer'[u].gen = secret[signer'[u].dev]
      BY <1>1 DEF SignsCurrent, Signing, Suspect
    <2>1. CASE u = t
      <3>1. \A v \in Tasks : pc[v] # "save" \/ dev[v] # dstore.dev
        BY <1>1, <2>1 DEF OnItsWay
      <3> QED
        BY <1>t, <1>1, <2>1, <3>1 DEF StoredIsCurrent, Suspect
    <2>2. CASE u # t
      BY <1>t, <1>2, <1>5, <2>2 DEF SignsCurrent, Signing, Suspect
    <2> QED
      BY <2>1, <2>2
  <1> QED
    BY <1>4, <1>6, <1>7 DEF Inv

LEMMA ClearStep ==
    ASSUME Inv, Types', NEW t \in Tasks, UNCHANGED reload, LogoutClear(t) PROVE Inv'
  <1>t. Types /\ ReplyIsCurrent /\ CrossingIsKnown /\ SavesAreSeen /\ SignsCurrent
    BY DEF Inv
  <1>1. /\ pc[t] = "clear" /\ pc'[t] = "idle" /\ dstore' = NoCred
        /\ UNCHANGED <<secret, orphan, crossed>>
    BY <1>t DEF LogoutClear, Return, Goto, Types
  <1>2. \A u \in Tasks \ {t} :
           /\ pc'[u] = pc[u] /\ dev'[u] = dev[u] /\ reply'[u] = reply[u]
           /\ signer'[u] = signer[u] /\ retry'[u] = retry[u] /\ overlap'[u] = overlap[u]
    BY <1>t DEF LogoutClear, Return, Goto, Types
  <1>3. StoredIsCurrent' /\ CrossingIsKnown' /\ ReplyIsCurrent'
    BY <1>t, <1>1, <1>2 DEF StoredIsCurrent, CrossingIsKnown, ReplyIsCurrent, Suspect
  <1>4. \A u \in Tasks : Signing(u)' => /\ Signing(u)
                                        /\ signer'[u] = signer[u] /\ overlap'[u] = overlap[u]
    BY <1>1, <1>2 DEF Signing, Sent
  <1>5. SavesAreSeen' /\ SignsCurrent'
    <2>1. \A u \in Tasks : pc'[u] = "save" => pc[u] = "save" /\ dev'[u] = dev[u]
      BY <1>1, <1>2
    <2>2. SavesAreSeen'
      BY <1>t, <1>4, <2>1 DEF SavesAreSeen
    <2>3. SignsCurrent'
      BY <1>t, <1>1, <1>4 DEF SignsCurrent, Signing
    <2> QED
      BY <2>2, <2>3
  <1> QED
    BY <1>3, <1>5 DEF Inv

LEMMA InvStep ==
    ASSUME Inv, NEW t \in Tasks, UNCHANGED reload, Step(t) PROVE Inv'
  <1>t. Types /\ Types'
    BY TypesStep DEF Inv
  <1>1. CASE StartWriter(t)
    BY <1>1, <1>t, QuietStep DEF StartWriter, Goto, Types, Sent, Signing
  <1>2. CASE EnsureRegistered(t)
    BY <1>2, <1>t, QuietStep DEF EnsureRegistered, Return, Goto, local, Types, Sent, Signing
  <1>3. CASE RotateTarget(t)
    BY <1>3, <1>t, QuietStep DEF RotateTarget, Goto, Types, Sent, Signing
  <1>4. CASE Serve(t)
    <2> DEFINE d == dev[t]
    <2>1. /\ d \in Devices /\ pc[t] = "post" /\ pc'[t] = "save" /\ dev' = dev
          /\ reply'[t].gen = secret'[d] /\ secret' = [secret EXCEPT ![d] = @ + 1]
          /\ UNCHANGED <<dstore, retry, orphan, signer>>
          /\ overlap' = [u \in Tasks |-> overlap[u] \/ SignsFor(u, d)]
      BY <1>4, <1>t DEF Serve, Goto, Types
    <2>2. \A u \in Tasks \ {t} :
             /\ pc'[u] = pc[u] /\ dev'[u] = dev[u] /\ reply'[u] = reply[u]
             /\ pc[u] = "save" /\ dev[u] = d => d \in crossed'
      BY <1>4, <1>t DEF Serve, Goto, Types, OnItsWay
    <2>3. crossed \subseteq crossed'
      BY <1>4 DEF Serve
    <2>4. \A u \in Tasks :
             \/ pc'[u] = pc[u] /\ dev'[u] = dev[u] /\ reply'[u] = reply[u]
             \/ pc[u] # "save" /\ pc'[u] = "save" /\ dev'[u] = d
      BY <2>1, <2>2
    <2>5. \E v \in Tasks :
             /\ pc'[v] = "save" /\ dev'[v] = d /\ reply'[v].gen = secret'[d]
             /\ \A u \in Tasks \ {v} :
                   /\ pc'[u] = pc[u] /\ dev'[u] = dev[u] /\ reply'[u] = reply[u]
                   /\ pc[u] = "save" /\ dev[u] = d => d \in crossed'
      BY <2>1, <2>2
    <2> HIDE DEF d
    <2> QED
      BY <1>t, <2>1, <2>3, <2>4, <2>5, ChangeStep
  <1>5. CASE Save(t)
    BY <1>5, <1>t, SaveStep
  <1>6. CASE LoseWrite(t)
    <2>1. CASE pc[t] = "post"
      BY <1>6, <2>1, <1>t, QuietStep DEF LoseWrite, Return, Goto, Types, Sent, Signing
    <2>2. CASE pc[t] = "save"
      BY <1>6, <2>2, <1>t, LoseStep
    <2> QED
      BY <1>6, <2>1, <2>2 DEF LoseWrite, Writing
  <1>7. CASE StartSigned(t)
    BY <1>7, <1>t, QuietStep DEF StartSigned, Goto, local, Types, Sent, Signing
  <1>8. CASE LogoutLoad(t)
    BY <1>8, <1>t, QuietStep DEF LogoutLoad, Goto, local, Types, Sent, Signing
  <1>9. CASE Sign(t)
    BY <1>9, <1>t, SignStep
  <1>10. CASE Answered(t)
    BY <1>10, <1>t, QuietStep DEF Answered, Return, Goto, local, Types, Sent, Signing
  <1>11. CASE Rejected(t)
    <2>1. ~Signing(t)'
      BY <1>11, <1>t DEF Rejected, Goto, Types, Sent, Signing
    <2> QED
      BY <1>11, <2>1, <1>t, QuietStep DEF Rejected, Goto, Types, Sent
  <1>12. CASE LogoutClear(t)
    BY <1>12, <1>t, ClearStep
  <1>13. CASE Fail(t)
    BY <1>13, <1>t, QuietStep DEF Fail, Return, Goto, local, Types, Sent, Signing
  <1> QED
    BY <1>1, <1>2, <1>3, <1>4, <1>5, <1>6, <1>7, <1>8, <1>9, <1>10, <1>11, <1>12, <1>13
    DEF Step

\* A late request makes an orphan of its device's secret.
LEMMA InvLate == Inv /\ ServeLate /\ UNCHANGED reload => Inv'
  <1> SUFFICES ASSUME Inv, ServeLate, UNCHANGED reload PROVE Inv'
    OBVIOUS
  <1>1. PICK d \in late : /\ secret' = [secret EXCEPT ![d] = @ + 1]
                          /\ orphan' = orphan \cup {d}
                          /\ overlap' = [u \in Tasks |-> overlap[u] \/ SignsFor(u, d)]
    BY DEF ServeLate
  <1>2. Types' /\ d \in Devices
    BY TypesLate DEF Inv, Types
  <1> QED
    BY <1>1, <1>2, ChangeStep DEF ServeLate

LEMMA Invariant == Spec => []Inv
  <1>1. Inv /\ [Next]_vars => Inv'
    <2> SUFFICES ASSUME Inv, [Next]_vars PROVE Inv'
      OBVIOUS
    <2>1. CASE UNCHANGED vars
      BY <2>1
      DEF vars, local, Inv, Types, Suspect, ReplyIsCurrent, CrossingIsKnown, Signing, SavesAreSeen,
          StoredIsCurrent, SignsCurrent
    <2> QED
      BY <2>1, InvStep, InvLate DEF Next
  <1> QED
    BY InvInit, <1>1, PTL DEF Spec

\* However many calls register, rotate, sign and log out at once, for whichever
\* devices, and whatever is lost or late: the stored secret is the server's unless its
\* reply was lost or two answers for that device crossed, and the next change that is
\* saved by itself makes it so again.
THEOREM SecretIsCurrent == Spec => []StoredIsCurrent
  <1>1. Inv => StoredIsCurrent
    BY DEF Inv
  <1> QED
    BY Invariant, <1>1, PTL

\* And each attempt of a request is signed with it, a retry with what was current after
\* the 401: a rotation saved in between does not fail it, where credentials are
\* loaded again.
THEOREM SignatureIsCurrent == Spec => []SignsCurrent
  <1>1. Inv => SignsCurrent
    BY DEF Inv
  <1> QED
    BY Invariant, <1>1, PTL
=============================================================================
