---------------------------- MODULE UploadProofs ----------------------------
(***************************************************************************)
(* Proofs about Upload, for any uploads at once, any contents and any      *)
(* number of backups.                                                      *)
(***************************************************************************)
EXTENDS Upload, TLAPS

Types ==
    /\ sdk \in {"rust", "go", "ts"}
    /\ file \in Contents
    /\ count \in Nat
    /\ status \in [Ids -> {"none", "pending", "confirmed", "deleted"}]
    /\ announced \in [Ids -> [size : Nat, hash : Content]]
    /\ object \in [Ids -> Content]
    /\ pc \in [Tasks -> {"idle", "hash", "negotiate", "presign", "put", "confirm"}]
    /\ size \in [Tasks -> Nat]
    /\ hash \in [Tasks -> Content] /\ body \in [Tasks -> Content]
    /\ nego \in [Tasks -> BOOLEAN]
    /\ id \in [Tasks -> Nat]
    /\ given \subseteq Tasks

\* The backup a task has announced is its own until it is deleted.
Announcing(t) == pc[t] \in {"put", "confirm"}

OwnBackup ==
    /\ \A i \in Ids : status[i] = "none" <=> i > count
    /\ \A t \in Tasks : Announcing(t) => id[t] \in Ids
    /\ \A t, u \in Tasks : Announcing(t) /\ Announcing(u) /\ id[t] = id[u] => t = u
    /\ \A t \in Tasks : Announcing(t) =>
          \/ status[id[t]] = "deleted"
          \/ /\ status[id[t]] = "pending"
             /\ announced[id[t]] = [size |-> size[t], hash |-> hash[t]]

\* What umbra-rust hashed is what it sends; for the others, and for a hash the caller
\* gave, the file still contains what the hash is of, or the task is doubtful.
HashedIsSent ==
    /\ \A t \in Tasks : pc[t] \in {"idle", "hash"} => hash[t] = NoContent
    /\ \A t \in Tasks : body[t] # NoContent => sdk = "rust" /\ body[t] = hash[t]
    /\ \A t \in Tasks : sdk = "rust" /\ hash[t] # NoContent /\ t \notin given => body[t] = hash[t]
    /\ \A t \in Tasks : RereadsHashed(t) /\ t \notin doubtful => hash[t] = file

\* A hash the caller gave is known to be one once it is announced.
GivenIsClaimed ==
    \A t \in given : Announcing(t) => id[t] \in claimed \/ status[id[t]] = "deleted"

\* The object of a backup is the one that was announced.
Right(i) ==
    /\ \E c \in Contents : object[i] = c /\ (sdk # "rust" => Length[c] = announced[i].size)
    /\ announced[i].hash # NoContent /\ (i \in tainted => sdk = "rust" /\ i \notin claimed)
          => object[i] = announced[i].hash

ObjectIsRight ==
    /\ \A t \in Tasks : pc[t] = "confirm" /\ status[id[t]] # "deleted" => Right(id[t])
    /\ \A i \in Ids : status[i] = "confirmed" => Right(i)

\* One careful upload at a time, of a content that no confirmed backup has.
OneCareful ==
    careful =>
        /\ \A t, u \in Tasks : pc[t] # "idle" /\ pc[u] # "idle" => t = u
        /\ \A t \in Tasks : pc[t] = "hash" => nego[t]
        /\ \A t \in Tasks : pc[t] \in {"presign", "put", "confirm"} /\ hash[t] # NoContent
              => ~Known(hash[t])

Inv == /\ Types /\ OwnBackup /\ HashedIsSent /\ GivenIsClaimed
       /\ ObjectIsRight /\ OneCareful /\ OncePerHash

LEMMA InvInit == Init => Inv
  <1> SUFFICES ASSUME Init PROVE Inv
    OBVIOUS
  <1>1. Types
    BY SdkAssumption DEF Init, Types, Unannounced, Content
  <1>2. OwnBackup
    BY BoundAssumption DEF Init, OwnBackup, Announcing, Ids
  <1>3. HashedIsSent /\ GivenIsClaimed
    BY DEF Init, HashedIsSent, GivenIsClaimed, RereadsHashed
  <1>4. ObjectIsRight /\ OneCareful /\ OncePerHash
    BY DEF Init, ObjectIsRight, OneCareful, OncePerHash, Confirmed
  <1> QED
    BY <1>1, <1>2, <1>3, <1>4 DEF Inv

\* What the two ways to begin an upload have in common.
Begun(t, n, h) ==
    /\ pc[t] = "idle"
    /\ careful' = (careful /\ n /\ \A u \in Tasks : pc[u] = "idle")
    /\ \E l \in Nat : size' = [size EXCEPT ![t] = l]
    /\ \/ /\ nego' = [nego EXCEPT ![t] = n]
          /\ Goto(t, "hash")
          /\ UNCHANGED <<hash, given, doubtful>>
       \/ GivenHash(t, n, h)
    /\ UNCHANGED <<file, count, status, announced, object, body, id, claimed, tainted>>

LEMMA Opening ==
    ASSUME Types, NEW t \in Tasks, Open(t) \/ OpenReader(t)
    PROVE  \E n \in BOOLEAN, h \in Content : Begun(t, n, h)
  <1>1. CASE Open(t)
    <2>1. PICK n \in BOOLEAN, compute \in BOOLEAN, h \in Content :
             /\ Begins(t, n)
             /\ IF Hashes(compute, n, h)
                THEN /\ nego' = [nego EXCEPT ![t] = n]
                     /\ Goto(t, "hash")
                     /\ UNCHANGED <<hash, given, doubtful>>
                ELSE GivenHash(t, n, h)
      BY <1>1 DEF Open
    <2>2. Length[file] \in Nat /\ size' = [size EXCEPT ![t] = Length[file]]
      BY <1>1, LengthAssumption DEF Open, Types
    <2>3. UNCHANGED <<file, count, status, announced, object, body, id, claimed, tainted>>
      BY <1>1 DEF Open, server
    <2>4. \E l \in Nat : size' = [size EXCEPT ![t] = l]
      BY <2>2
    <2>5. Begun(t, n, h)
      BY <2>1, <2>3, <2>4 DEF Begun, Begins
    <2> QED
      BY <2>1, <2>5
  <1>2. CASE OpenReader(t)
    <2>1. PICK n \in BOOLEAN, h \in Content : Begins(t, n) /\ GivenHash(t, n, h)
      BY <1>2 DEF OpenReader
    <2>2. UNCHANGED <<file, count, status, announced, object, body, id, claimed, tainted>>
      BY <1>2 DEF OpenReader, server
    <2>3. \E l \in Nat : size' = [size EXCEPT ![t] = l]
      BY <1>2, LengthAssumption DEF OpenReader, Lengths
    <2>4. Begun(t, n, h)
      BY <2>1, <2>2, <2>3 DEF Begun, Begins
    <2> QED
      BY <2>1, <2>4
  <1> QED
    BY <1>1, <1>2

LEMMA TypesStep == Types /\ [Next]_vars => Types'
  <1> SUFFICES ASSUME Types, [Next]_vars PROVE Types'
    OBVIOUS
  <1> USE BoundAssumption DEF Types, Content, Ids, Goto, Return, server, task, history
  <1>1. ASSUME NEW t \in Tasks, NEW n \in BOOLEAN, NEW h \in Content, Begun(t, n, h), UNCHANGED sdk
        PROVE  Types'
    <2>1. CASE GivenHash(t, n, h)
      BY <1>1, <2>1 DEF Begun, GivenHash, WithHash
    <2>2. CASE /\ nego' = [nego EXCEPT ![t] = n]
               /\ Goto(t, "hash")
               /\ UNCHANGED <<hash, given>>
      BY <1>1, <2>2 DEF Begun
    <2> QED
      BY <1>1, <2>1, <2>2 DEF Begun
  <1>2. ASSUME NEW t \in Tasks, Hash(t), UNCHANGED sdk PROVE Types'
    BY <1>2 DEF Hash, WithHash
  <1>3. ASSUME NEW t \in Tasks, Negotiate(t), UNCHANGED sdk PROVE Types'
    <2>1. CASE Return(t)
      BY <1>3, <2>1 DEF Negotiate
    <2>2. CASE Goto(t, "presign") /\ UNCHANGED task
      BY <1>3, <2>2 DEF Negotiate
    <2> QED
      BY <1>3, <2>1, <2>2 DEF Negotiate
  <1>4. ASSUME NEW t \in Tasks, Presign(t), UNCHANGED sdk PROVE Types'
    BY <1>4 DEF Presign
  <1>5. ASSUME NEW t \in Tasks, Put(t), UNCHANGED sdk PROVE Types'
    <2>1. CASE Return(t)
      BY <1>5, <2>1 DEF Put, Sent
    <2>2. CASE Goto(t, "confirm") /\ UNCHANGED task
      BY <1>5, <2>2 DEF Put, Sent
    <2> QED
      BY <1>5, <2>1, <2>2 DEF Put
  <1>6. ASSUME NEW t \in Tasks, Confirm(t), UNCHANGED sdk PROVE Types'
    BY <1>6 DEF Confirm
  <1>7. ASSUME NEW t \in Tasks, Fail(t), UNCHANGED sdk PROVE Types'
    BY <1>7 DEF Fail
  <1>8. CASE Edit /\ UNCHANGED sdk
    BY <1>8 DEF Edit
  <1>9. ASSUME NEW i \in Ids, Delete(i), UNCHANGED sdk PROVE Types'
    BY <1>9 DEF Delete, Unannounced
  <1>10. CASE UNCHANGED vars
    BY <1>10 DEF vars
  <1> HIDE DEF Types
  <1> QED
    BY <1>1, Opening, <1>2, <1>3, <1>4, <1>5, <1>6, <1>7, <1>8, <1>9, <1>10 DEF Next, Step

\* Steps that leave the server alone, and let no task start to announce.
LEMMA BackupKept ==
    ASSUME Inv, UNCHANGED <<count, status, announced>>,
           \A t \in Tasks : Announcing(t)' =>
               Announcing(t) /\ id'[t] = id[t] /\ size'[t] = size[t] /\ hash'[t] = hash[t]
    PROVE  OwnBackup'
  BY DEF Inv, OwnBackup

\* A backup is announced under the next id.
LEMMA BackupPresigned ==
    ASSUME Inv, NEW t \in Tasks, Presign(t) PROVE OwnBackup'
  <1>1. Types /\ OwnBackup
    BY DEF Inv
  <1>2. count \in Nat /\ count + 1 \in Ids /\ status[count + 1] = "none"
    BY <1>1, BoundAssumption DEF Types, OwnBackup, Presign, Ids
  <1>3. \A u \in Tasks : Announcing(u) => id[u] \in Ids /\ id[u] # count + 1
    BY <1>1, <1>2 DEF OwnBackup
  <1>4. \A u \in Tasks \ {t} : /\ Announcing(u)' <=> Announcing(u)
                               /\ id'[u] = id[u] /\ size'[u] = size[u] /\ hash'[u] = hash[u]
    BY <1>1 DEF Types, Presign, Goto, Announcing
  <1>5. /\ count' = count + 1 /\ id'[t] = count + 1
        /\ status'[count + 1] = "pending"
        /\ announced'[count + 1] = [size |-> size'[t], hash |-> hash'[t]]
        /\ \A i \in Ids \ {count + 1} : status'[i] = status[i] /\ announced'[i] = announced[i]
    BY <1>1, <1>2 DEF Types, Presign
  <1>6. \A i \in Ids : status'[i] = "none" <=> i > count'
    BY <1>1, <1>2, <1>5 DEF OwnBackup, Ids
  <1>7. \A u \in Tasks : Announcing(u)' => id'[u] \in Ids
    BY <1>2, <1>3, <1>4, <1>5
  <1>8. ASSUME NEW u \in Tasks, NEW v \in Tasks, Announcing(u)', Announcing(v)', id'[u] = id'[v]
        PROVE  u = v
    <2>1. CASE u = t \/ v = t
      BY <1>3, <1>4, <1>5, <1>8, <2>1
    <2>2. CASE u # t /\ v # t
      BY <1>1, <1>4, <1>8, <2>2 DEF OwnBackup
    <2> QED
      BY <2>1, <2>2
  <1>9. ASSUME NEW u \in Tasks, Announcing(u)'
        PROVE  \/ status'[id'[u]] = "deleted"
               \/ /\ status'[id'[u]] = "pending"
                  /\ announced'[id'[u]] = [size |-> size'[u], hash |-> hash'[u]]
    <2>1. CASE u = t
      BY <1>5, <2>1
    <2>2. CASE u # t
      BY <1>1, <1>3, <1>4, <1>5, <1>9, <2>2 DEF OwnBackup
    <2> QED
      BY <2>1, <2>2
  <1> QED
    BY <1>6, <1>7, <1>8, <1>9 DEF OwnBackup

LEMMA BackupStep == Inv /\ [Next]_vars => OwnBackup'
  <1> SUFFICES ASSUME Inv, [Next]_vars PROVE OwnBackup'
    OBVIOUS
  <1>t. Types
    BY DEF Inv
  <1> USE DEF Announcing, Goto, Return, server, task
  <1>1. ASSUME NEW t \in Tasks, NEW n \in BOOLEAN, NEW h \in Content, Begun(t, n, h)
        PROVE  OwnBackup'
    <2>1. /\ pc'[t] \in {"hash", "negotiate", "presign"}
          /\ \A u \in Tasks \ {t} : pc'[u] = pc[u] /\ size'[u] = size[u] /\ hash'[u] = hash[u]
          /\ id' = id
      BY <1>t, <1>1 DEF Begun, GivenHash, WithHash, Types
    <2>2. UNCHANGED <<count, status, announced>>
      BY <1>1 DEF Begun
    <2> QED
      BY <2>1, <2>2, BackupKept
  <1>2. ASSUME NEW t \in Tasks, Hash(t) PROVE OwnBackup'
    <2>1. /\ pc'[t] \in {"negotiate", "presign"} /\ UNCHANGED <<id, size>>
          /\ \A u \in Tasks \ {t} : pc'[u] = pc[u] /\ hash'[u] = hash[u]
      BY <1>t, <1>2 DEF Hash, WithHash, Types
    <2> QED
      BY <1>2, <2>1, BackupKept DEF Hash
  <1>3. ASSUME NEW t \in Tasks, Negotiate(t) PROVE OwnBackup'
    <2>1. CASE Return(t)
      BY <1>t, <1>3, <2>1, BackupKept DEF Negotiate, Types
    <2>2. CASE UNCHANGED task
      BY <1>t, <1>3, <2>2, BackupKept DEF Negotiate, Types
    <2> QED
      BY <1>3, <2>1, <2>2 DEF Negotiate
  <1>5. ASSUME NEW t \in Tasks, Put(t) PROVE OwnBackup'
    <2>1. CASE Return(t)
      BY <1>t, <1>5, <2>1, BackupKept DEF Put, Types
    <2>2. CASE UNCHANGED task
      BY <1>t, <1>5, <2>2, BackupKept DEF Put, Types
    <2> QED
      BY <1>5, <2>1, <2>2 DEF Put
  <1>6. ASSUME NEW t \in Tasks, Confirm(t) PROVE OwnBackup'
    BY <1>6 DEF Confirm, Inv, Types, OwnBackup
  <1>7. ASSUME NEW t \in Tasks, Fail(t) PROVE OwnBackup'
    BY <1>t, <1>7, BackupKept DEF Fail, Types
  <1>8. CASE Edit
    BY <1>8, BackupKept DEF Edit
  <1>9. ASSUME NEW i \in Ids, Delete(i) PROVE OwnBackup'
    BY <1>9 DEF Delete, Inv, Types, OwnBackup
  <1>10. CASE UNCHANGED vars
    BY <1>10, BackupKept DEF vars
  <1> QED
    BY <1>t, <1>1, Opening, <1>2, <1>3, BackupPresigned, <1>5, <1>6, <1>7, <1>8, <1>9, <1>10 DEF Next, Step

\* Steps that give no task a hash or bytes, and do not touch the file.
LEMMA HashedKept ==
    ASSUME Types, HashedIsSent, UNCHANGED <<sdk, file>>,
           \A u \in Tasks :
               \/ /\ pc'[u] \in {"idle", "hash"} => pc[u] \in {"idle", "hash"}
                  /\ hash'[u] = hash[u] /\ body'[u] = body[u]
                  /\ u \in given' <=> u \in given
                  /\ RereadsHashed(u)' => RereadsHashed(u) /\ (u \in doubtful' <=> u \in doubtful)
               \/ pc'[u] = "idle" /\ hash'[u] = NoContent /\ body'[u] = NoContent
    PROVE  HashedIsSent'
  BY DEF HashedIsSent, RereadsHashed

\* What a return does to the tasks.
LEMMA Returning ==
    ASSUME Types, NEW t \in Tasks, Return(t)
    PROVE  /\ pc'[t] = "idle" /\ hash'[t] = NoContent /\ body'[t] = NoContent
           /\ \A u \in Tasks \ {t} :
                 /\ pc'[u] = pc[u] /\ hash'[u] = hash[u] /\ body'[u] = body[u]
                 /\ id'[u] = id[u]
                 /\ u \in given' <=> u \in given
                 /\ u \in doubtful' <=> u \in doubtful
           /\ given' = given \ {t}
  BY DEF Types, Return, Goto

LEMMA HashedReturn ==
    ASSUME Types, HashedIsSent, NEW t \in Tasks, Return(t), UNCHANGED <<sdk, file>>
    PROVE  HashedIsSent'
  BY Returning, HashedKept DEF RereadsHashed

LEMMA HashedStep == Inv /\ [Next]_vars => HashedIsSent'
  <1> SUFFICES ASSUME Inv, [Next]_vars PROVE HashedIsSent'
    OBVIOUS
  <1>0. sdk' = sdk /\ Types /\ HashedIsSent
    BY DEF Next, vars, Inv
  <1>1. ASSUME NEW t \in Tasks, NEW n \in BOOLEAN, NEW h \in Content, Begun(t, n, h)
        PROVE  HashedIsSent'
    <2>0. pc[t] = "idle" /\ hash[t] = NoContent /\ body[t] = NoContent /\ UNCHANGED <<file, body>>
      BY <1>0, <1>1, BoundAssumption DEF Begun, HashedIsSent, Types, Content
    <2>1. CASE GivenHash(t, n, h)
      <3>1. /\ hash'[t] = h /\ pc'[t] \in {"negotiate", "presign"}
            /\ \A u \in Tasks \ {t} : /\ pc'[u] = pc[u] /\ hash'[u] = hash[u]
                                      /\ u \in given' <=> u \in given
                                      /\ u \in doubtful' <=> u \in doubtful
            /\ sdk = "rust" /\ h # NoContent => t \in given'
            /\ h # NoContent /\ h # file => t \in doubtful'
        BY <1>0, <2>1 DEF GivenHash, WithHash, Goto, Types
      <3> QED
        BY <1>0, <2>0, <3>1 DEF HashedIsSent, RereadsHashed
    <2>2. CASE Goto(t, "hash") /\ UNCHANGED <<hash, given, doubtful>>
      <3>1. pc'[t] = "hash" /\ \A u \in Tasks \ {t} : pc'[u] = pc[u]
        BY <1>0, <2>2 DEF Goto, Types
      <3> QED
        BY <1>0, <2>0, <2>2, <3>1, HashedKept DEF RereadsHashed
    <2> QED
      BY <1>1, <2>1, <2>2 DEF Begun
  <1>2. ASSUME NEW t \in Tasks, Hash(t) PROVE HashedIsSent'
    <2>1. /\ hash'[t] = file /\ pc'[t] \in {"negotiate", "presign"}
          /\ body'[t] = IF sdk = "rust" THEN file ELSE NoContent
          /\ UNCHANGED <<file, given, doubtful>>
          /\ \A u \in Tasks \ {t} : pc'[u] = pc[u] /\ hash'[u] = hash[u] /\ body'[u] = body[u]
      BY <1>0, <1>2 DEF Hash, WithHash, Goto, history, Types
    <2> QED
      BY <1>0, <2>1 DEF HashedIsSent, RereadsHashed
  <1>3. ASSUME NEW t \in Tasks, Negotiate(t) PROVE HashedIsSent'
    <2>1. CASE Return(t)
      BY <1>0, <1>3, <2>1, HashedReturn DEF Negotiate
    <2>2. CASE Goto(t, "presign") /\ UNCHANGED <<task, given, doubtful>>
      <3>1. pc'[t] = "presign" /\ pc[t] = "negotiate" /\ \A u \in Tasks \ {t} : pc'[u] = pc[u]
        BY <1>0, <1>3, <2>2 DEF Negotiate, Goto, Types
      <3> QED
        BY <1>0, <1>3, <2>2, <3>1, HashedKept DEF RereadsHashed, Negotiate, task
    <2> QED
      BY <1>3, <2>1, <2>2 DEF Negotiate
  <1>4. ASSUME NEW t \in Tasks, Presign(t) PROVE HashedIsSent'
    <2>1. pc'[t] = "put" /\ pc[t] = "presign" /\ \A u \in Tasks \ {t} : pc'[u] = pc[u]
      BY <1>0, <1>4 DEF Presign, Goto, Types
    <2> QED
      BY <1>0, <1>4, <2>1, HashedKept DEF RereadsHashed, Presign
  <1>5. ASSUME NEW t \in Tasks, Put(t) PROVE HashedIsSent'
    <2>1. CASE Return(t)
      BY <1>0, <1>5, <2>1, HashedReturn DEF Put
    <2>2. CASE Goto(t, "confirm") /\ doubtful' = doubtful \ {t} /\ UNCHANGED <<task, given>>
      <3>1. pc'[t] = "confirm" /\ pc[t] = "put" /\ \A u \in Tasks \ {t} : pc'[u] = pc[u]
        BY <1>0, <1>5, <2>2 DEF Put, Goto, Types
      <3>2. UNCHANGED <<file, hash, body, given>>
        BY <1>5, <2>2 DEF Put, task
      <3> QED
        BY <1>0, <2>2, <3>1, <3>2, HashedKept DEF RereadsHashed
    <2> QED
      BY <1>5, <2>1, <2>2 DEF Put
  <1>6. ASSUME NEW t \in Tasks, Confirm(t) \/ Fail(t) PROVE HashedIsSent'
    BY <1>0, <1>6, HashedReturn DEF Confirm, Fail
  <1>8. CASE Edit
    BY <1>0, <1>8 DEF Edit, HashedIsSent, RereadsHashed, task
  <1>9. ASSUME NEW i \in Ids, Delete(i) PROVE HashedIsSent'
    BY <1>0, <1>9 DEF Delete, HashedIsSent, RereadsHashed, task
  <1>10. CASE UNCHANGED vars
    BY <1>0, <1>10 DEF vars, HashedIsSent, RereadsHashed, task, history
  <1> QED
    BY <1>0, <1>1, Opening, <1>2, <1>3, <1>4, <1>5, <1>6, <1>8, <1>9, <1>10 DEF Next, Step

\* Steps that announce nothing and leave the backups and their hashes as they are.
LEMMA GivenKept ==
    ASSUME GivenIsClaimed, UNCHANGED <<status, claimed>>,
           \A u \in given' : Announcing(u)' => u \in given /\ Announcing(u) /\ id'[u] = id[u]
    PROVE  GivenIsClaimed'
  BY DEF GivenIsClaimed

LEMMA GivenStep == Inv /\ [Next]_vars => GivenIsClaimed'
  <1> SUFFICES ASSUME Inv, [Next]_vars PROVE GivenIsClaimed'
    OBVIOUS
  <1>0. Types /\ OwnBackup /\ GivenIsClaimed /\ given \subseteq Tasks /\ given' \subseteq Tasks
    BY TypesStep DEF Inv, Types
  <1>a. ASSUME NEW t \in Tasks, Return(t), UNCHANGED <<status, claimed>> PROVE GivenIsClaimed'
    BY <1>0, <1>a, Returning, GivenKept DEF Announcing
  <1>1. ASSUME NEW t \in Tasks, NEW n \in BOOLEAN, NEW h \in Content, Begun(t, n, h)
        PROVE  GivenIsClaimed'
    <2>1. /\ pc'[t] \in {"hash", "negotiate", "presign"} /\ UNCHANGED <<id, status, claimed>>
          /\ \A u \in Tasks \ {t} : pc'[u] = pc[u] /\ (u \in given' <=> u \in given)
      BY <1>0, <1>1 DEF Begun, GivenHash, WithHash, Goto, Types
    <2> QED
      BY <1>0, <2>1, GivenKept DEF Announcing
  <1>2. ASSUME NEW t \in Tasks, Hash(t) PROVE GivenIsClaimed'
    <2>1. /\ pc'[t] \in {"negotiate", "presign"} /\ UNCHANGED <<id, status, claimed, given>>
          /\ \A u \in Tasks \ {t} : pc'[u] = pc[u]
      BY <1>0, <1>2 DEF Hash, WithHash, Goto, server, history, Types
    <2> QED
      BY <1>0, <2>1, GivenKept DEF Announcing
  <1>3. ASSUME NEW t \in Tasks, Negotiate(t) PROVE GivenIsClaimed'
    <2>0. UNCHANGED <<status, claimed>>
      BY <1>3 DEF Negotiate, server
    <2>1. CASE Goto(t, "presign") /\ UNCHANGED <<task, given>>
      <3>1. pc'[t] = "presign" /\ UNCHANGED <<id, given>> /\ \A u \in Tasks \ {t} : pc'[u] = pc[u]
        BY <1>0, <2>1 DEF Goto, Types, task
      <3> QED
        BY <1>0, <2>0, <3>1, GivenKept DEF Announcing
    <2> QED
      BY <1>3, <1>a, <2>0, <2>1 DEF Negotiate
  <1>4. ASSUME NEW t \in Tasks, Presign(t) PROVE GivenIsClaimed'
    <2>1. count + 1 \in Ids /\ status[count + 1] = "none"
      BY <1>0, <1>4, BoundAssumption DEF Presign, Types, Ids, OwnBackup
    <2>2. /\ id'[t] = count + 1 /\ (t \in given => count + 1 \in claimed')
          /\ claimed \subseteq claimed' /\ UNCHANGED given
      BY <1>0, <1>4 DEF Presign, Types
    <2>3. \A u \in Tasks \ {t} : pc'[u] = pc[u] /\ id'[u] = id[u]
      BY <1>0, <1>4 DEF Presign, Goto, Types
    <2>4. \A i \in Ids \ {count + 1} : status'[i] = status[i]
      BY <1>0, <1>4 DEF Presign, Types
    <2>5. \A u \in Tasks : Announcing(u) => id[u] \in Ids /\ id[u] # count + 1
      BY <1>0, <2>1 DEF OwnBackup
    <2> QED
      BY <1>0, <2>2, <2>3, <2>4, <2>5 DEF GivenIsClaimed, Announcing
  <1>5. ASSUME NEW t \in Tasks, Put(t) PROVE GivenIsClaimed'
    <2>0. UNCHANGED <<status, claimed>> /\ pc[t] = "put"
      BY <1>5 DEF Put
    <2>1. CASE Goto(t, "confirm") /\ UNCHANGED <<task, given>>
      <3>1. UNCHANGED <<id, given>> /\ \A u \in Tasks \ {t} : pc'[u] = pc[u]
        BY <1>0, <2>1 DEF Goto, Types, task
      <3> QED
        BY <1>0, <2>0, <3>1, GivenKept DEF Announcing
    <2> QED
      BY <1>5, <1>a, <2>0, <2>1 DEF Put
  <1>6. ASSUME NEW t \in Tasks, Confirm(t) PROVE GivenIsClaimed'
    <2>1. id[t] \in Ids /\ status[id[t]] = "pending" /\ pc[t] = "confirm" /\ UNCHANGED claimed
      BY <1>0, <1>6 DEF Confirm, OwnBackup, Announcing
    <2>2. \A i \in Ids : i # id[t] => status'[i] = status[i]
      BY <1>0, <1>6 DEF Confirm, Types
    <2>3. /\ pc'[t] = "idle"
          /\ \A u \in Tasks \ {t} : pc'[u] = pc[u] /\ id'[u] = id[u] /\ (u \in given' <=> u \in given)
      BY <1>0, <1>6, Returning DEF Confirm
    <2>4. \A u \in Tasks \ {t} : Announcing(u) => id[u] \in Ids /\ id[u] # id[t]
      BY <1>0, <2>1 DEF OwnBackup, Announcing
    <2> QED
      BY <1>0, <2>1, <2>2, <2>3, <2>4 DEF GivenIsClaimed, Announcing
  <1>7. ASSUME NEW t \in Tasks, Fail(t) PROVE GivenIsClaimed'
    BY <1>a, <1>7 DEF Fail, server
  <1>8. CASE Edit
    BY <1>0, <1>8, GivenKept DEF Edit, server, task, Announcing
  <1>9. ASSUME NEW i \in Ids, Delete(i) PROVE GivenIsClaimed'
    <2>1. /\ UNCHANGED <<pc, id, given>> /\ status'[i] = "deleted"
          /\ \A j \in Ids \ {i} : status'[j] = status[j] /\ (j \in claimed => j \in claimed')
      BY <1>0, <1>9 DEF Delete, Types, task
    <2>2. \A u \in Tasks : Announcing(u) => id[u] \in Ids
      BY <1>0 DEF OwnBackup
    <2> QED
      BY <1>0, <2>1, <2>2 DEF GivenIsClaimed, Announcing
  <1>10. CASE UNCHANGED vars
    BY <1>0, <1>10, GivenKept DEF vars, server, task, history, Announcing
  <1> QED
    BY <1>0, <1>1, Opening, <1>2, <1>3, <1>4, <1>5, <1>6, <1>7, <1>8, <1>9, <1>10 DEF Next, Step

\* Steps that leave server and storage alone, and bring no task to its confirmation.
LEMMA ObjectKept ==
    ASSUME Inv, UNCHANGED <<sdk, status, announced, object, claimed, tainted>>,
           \A t \in Tasks : pc'[t] = "confirm" => pc[t] = "confirm" /\ id'[t] = id[t]
    PROVE  ObjectIsRight'
  BY DEF Inv, ObjectIsRight, Right

LEMMA ObjectStep == Inv /\ [Next]_vars => ObjectIsRight'
  <1> SUFFICES ASSUME Inv, [Next]_vars PROVE ObjectIsRight'
    OBVIOUS
  <1> USE BoundAssumption DEF Inv, Types, Goto, Return, server, task, history
  <1>0. sdk' = sdk
    BY DEF Next, vars
  <1>1. ASSUME NEW t \in Tasks, NEW n \in BOOLEAN, NEW h \in Content, Begun(t, n, h)
        PROVE  ObjectIsRight'
    <2>1. \A u \in Tasks : pc'[u] = "confirm" => pc[u] = "confirm" /\ id'[u] = id[u]
      BY <1>1 DEF Begun, GivenHash, WithHash
    <2> QED
      BY <1>0, <1>1, <2>1, ObjectKept DEF Begun
  <1>2. ASSUME NEW t \in Tasks, Hash(t) PROVE ObjectIsRight'
    <2>1. \A u \in Tasks : pc'[u] = "confirm" => pc[u] = "confirm" /\ id'[u] = id[u]
      BY <1>2 DEF Hash, WithHash
    <2> QED
      BY <1>0, <1>2, <2>1, ObjectKept DEF Hash
  <1>3. ASSUME NEW t \in Tasks, Negotiate(t) PROVE ObjectIsRight'
    BY <1>0, <1>3, ObjectKept DEF Negotiate
  <1>4. ASSUME NEW t \in Tasks, Presign(t) PROVE ObjectIsRight'
    <2>1. count + 1 \in Ids /\ status[count + 1] = "none"
      BY <1>4 DEF Presign, Ids, OwnBackup
    <2>2. \A u \in Tasks : pc'[u] = "confirm" => /\ pc[u] = "confirm" /\ id'[u] = id[u]
                                                 /\ id[u] \in Ids /\ id[u] # count + 1
      BY <1>4, <2>1 DEF Presign, OwnBackup, Announcing
    <2>3. \A i \in Ids \ {count + 1} : status'[i] = status[i] /\ announced'[i] = announced[i]
      BY <1>4 DEF Presign
    <2>4. status'[count + 1] = "pending" /\ UNCHANGED <<object, tainted>>
      BY <1>4, <2>1 DEF Presign
    <2>5. \A i \in Ids \ {count + 1} : i \in claimed' <=> i \in claimed
      BY <1>4 DEF Presign
    <2> QED
      BY <1>0, <2>1, <2>2, <2>3, <2>4, <2>5 DEF ObjectIsRight, Right
  <1>5. ASSUME NEW t \in Tasks, Put(t) PROVE ObjectIsRight'
    <2>1. pc[t] = "put" /\ id[t] \in Ids /\ status[id[t]] # "confirmed"
      BY <1>5 DEF Put, OwnBackup, Announcing
    <2>2. \A u \in Tasks \ {t} : /\ pc'[u] = pc[u] /\ id'[u] = id[u]
                                 /\ pc[u] = "confirm" => id[u] \in Ids /\ id[u] # id[t]
      BY <1>5, <2>1 DEF Put, OwnBackup, Announcing
    <2>3. /\ UNCHANGED <<status, announced, claimed>>
          /\ \A i \in Ids \ {id[t]} : /\ object'[i] = object[i]
                                      /\ i \in tainted' <=> i \in tainted
      BY <1>5 DEF Put
    <2>4. object'[id[t]] = Sent(t) /\ Sent(t) \in Contents
      BY <1>5, <2>1 DEF Put, Sent, Content
    <2>5. status[id[t]] # "deleted" =>
            /\ sdk # "rust" => Length[Sent(t)] = announced[id[t]].size
            /\ announced[id[t]].hash # NoContent
               /\ (id[t] \in tainted' => sdk = "rust" /\ id[t] \notin claimed)
                 => Sent(t) = announced[id[t]].hash
      <3>1. status[id[t]] # "deleted" => announced[id[t]] = [size |-> size[t], hash |-> hash[t]]
        BY <2>1 DEF OwnBackup, Announcing
      <3>2. sdk # "rust" => Length[Sent(t)] = size[t]
        BY <1>5 DEF Put, LengthFits
      <3>3. CASE body[t] # NoContent
        <4>1. Sent(t) = hash[t]
          BY <3>3 DEF Sent, HashedIsSent
        <4> QED
          BY <3>1, <3>2, <4>1
      <3>4. CASE body[t] = NoContent /\ t \notin doubtful
        <4>1. hash[t] # NoContent => Sent(t) = hash[t]
          BY <2>1, <3>4 DEF Sent, HashedIsSent, RereadsHashed
        <4> QED
          BY <3>1, <3>2, <4>1
      <3>5. CASE body[t] = NoContent /\ t \in doubtful
        <4>1. id[t] \in tainted'
          BY <1>5, <3>5 DEF Put
        <4>2. sdk = "rust" /\ hash[t] # NoContent => t \in given
          BY <3>5 DEF HashedIsSent
        <4>3. t \in given => id[t] \in claimed \/ status[id[t]] = "deleted"
          BY <2>1 DEF GivenIsClaimed, Announcing
        <4> QED
          BY <3>1, <3>2, <4>1, <4>2, <4>3
      <3> QED
        BY <3>3, <3>4, <3>5
    <2>6. \A i \in Ids : i = id[t] /\ status[i] # "deleted" => Right(i)'
      BY <1>0, <2>1, <2>2, <2>3, <2>4, <2>5 DEF Right
    <2>7. \A i \in Ids \ {id[t]} : Right(i) => Right(i)'
      BY <1>0, <2>3 DEF Right
    <2> QED
      BY <2>1, <2>2, <2>3, <2>6, <2>7, <1>5 DEF Put, ObjectIsRight
  <1>6. ASSUME NEW t \in Tasks, Confirm(t) PROVE ObjectIsRight'
    <2>1. pc[t] = "confirm" /\ id[t] \in Ids /\ Right(id[t])
      BY <1>6 DEF Confirm, OwnBackup, Announcing, ObjectIsRight
    <2>2. \A i \in Ids : Right(i) => Right(i)'
      BY <1>0, <1>6 DEF Confirm, Right
    <2>3. \A u \in Tasks : pc'[u] = "confirm" => pc[u] = "confirm" /\ id'[u] = id[u] /\ id[u] \in Ids
      BY <1>6 DEF Confirm, OwnBackup, Announcing
    <2>4. \A i \in Ids : status'[i] = status[i] \/ (i = id[t] /\ status'[i] = "confirmed")
      BY <1>6 DEF Confirm
    <2> QED
      BY <2>1, <2>2, <2>3, <2>4 DEF ObjectIsRight
  <1>7. ASSUME NEW t \in Tasks, Fail(t) PROVE ObjectIsRight'
    BY <1>0, <1>7, ObjectKept DEF Fail
  <1>8. CASE Edit
    BY <1>0, <1>8, ObjectKept DEF Edit
  <1>9. ASSUME NEW i \in Ids, Delete(i) PROVE ObjectIsRight'
    <2>1. /\ UNCHANGED <<pc, id>> /\ status'[i] = "deleted"
          /\ \A j \in Ids \ {i} : /\ status'[j] = status[j] /\ announced'[j] = announced[j]
                                  /\ object'[j] = object[j]
                                  /\ (j \in tainted' <=> j \in tainted) /\ (j \in claimed' <=> j \in claimed)
      BY <1>9 DEF Delete
    <2>2. \A j \in Ids \ {i} : Right(j) => Right(j)'
      BY <1>0, <2>1 DEF Right
    <2>3. \A u \in Tasks : pc[u] = "confirm" => id[u] \in Ids
      BY DEF OwnBackup, Announcing
    <2> QED
      BY <2>1, <2>2, <2>3 DEF ObjectIsRight
  <1>10. CASE UNCHANGED vars
    BY <1>0, <1>10, ObjectKept DEF vars
  <1> HIDE DEF Inv, Types
  <1>t. Types
    BY DEF Inv
  <1> QED
    BY <1>t, <1>1, Opening, <1>2, <1>3, <1>4, <1>5, <1>6, <1>7, <1>8, <1>9, <1>10 DEF Next, Step

\* Steps after which no content is known that was not, and no task is careful that
\* was not.
LEMMA CarefulKept ==
    ASSUME Inv, careful' => careful,
           careful => \A u \in Tasks :
               /\ pc'[u] # "idle" => pc[u] # "idle"
               /\ pc'[u] = "hash" => pc[u] = "hash" /\ nego'[u] = nego[u]
               /\ pc'[u] \in {"presign", "put", "confirm"} /\ hash'[u] # NoContent
                     => ~Known(hash'[u]),
           \A h \in Content : Known(h)' => Known(h),
           Types'
    PROVE  OneCareful'
  <1>1. ASSUME careful', NEW u \in Tasks, pc'[u] \in {"presign", "put", "confirm"}, hash'[u] # NoContent
        PROVE  ~Known(hash[u])'
    <2>1. ~Known(hash'[u])
      BY <1>1, Zenon
    <2>2. hash'[u] \in Content
      BY DEF Types
    <2> QED
      BY <2>1, <2>2 DEF Known
  <1>2. ASSUME careful'
        PROVE  /\ \A t, u \in Tasks : pc'[t] # "idle" /\ pc'[u] # "idle" => t = u
               /\ \A t \in Tasks : pc'[t] = "hash" => nego'[t]
    <2>1. \A u \in Tasks : /\ pc'[u] # "idle" => pc[u] # "idle"
                           /\ pc'[u] = "hash" => pc[u] = "hash" /\ nego'[u] = nego[u]
      BY <1>2, Zenon
    <2>2. OneCareful /\ careful
      BY <1>2 DEF Inv
    <2> QED
      BY <2>1, <2>2, Zenon DEF OneCareful
  <1> QED
    BY <1>1, <1>2, Zenon DEF OneCareful

LEMMA CarefulStep == Inv /\ [Next]_vars => OneCareful'
  <1> SUFFICES ASSUME Inv, [Next]_vars PROVE OneCareful'
    OBVIOUS
  <1>t. Types /\ Types' /\ OneCareful
    BY TypesStep DEF Inv
  <1> USE DEF Goto, Return, server, task
  <1>1. ASSUME NEW t \in Tasks, NEW n \in BOOLEAN, NEW h \in Content, Begun(t, n, h)
        PROVE  OneCareful'
    <2>1. ASSUME careful' PROVE n /\ \A u \in Tasks : pc[u] = "idle"
      BY <1>1, <2>1 DEF Begun
    <2>2. CASE GivenHash(t, n, h)
      <3>1. /\ hash'[t] = h /\ pc'[t] = IF n /\ h # NoContent THEN "negotiate" ELSE "presign"
            /\ \A u \in Tasks \ {t} : pc'[u] = pc[u]
        BY <1>t, <2>2 DEF GivenHash, WithHash, Types
      <3> QED
        BY <2>1, <3>1 DEF OneCareful
    <2>3. CASE nego' = [nego EXCEPT ![t] = n] /\ Goto(t, "hash")
      <3>1. ASSUME careful' PROVE nego'[t]
        BY <1>t, <2>1, <2>3, <3>1 DEF Types
      <3>2. pc'[t] = "hash" /\ \A u \in Tasks \ {t} : pc'[u] = pc[u]
        BY <1>t, <2>3 DEF Types
      <3> QED
        BY <2>1, <3>1, <3>2 DEF OneCareful
    <2> QED
      BY <1>1, <2>2, <2>3 DEF Begun
  <1>2. ASSUME NEW t \in Tasks, Hash(t), UNCHANGED careful PROVE OneCareful'
    <2>1. careful => nego[t]
      BY <1>t, <1>2 DEF Hash, OneCareful
    <2>2. file # NoContent
      BY <1>t, BoundAssumption DEF Types
    <2>3. /\ careful => pc'[t] = "negotiate"
          /\ pc[t] = "hash" /\ pc'[t] \in {"negotiate", "presign"}
          /\ \A u \in Tasks \ {t} : /\ pc'[u] = pc[u] /\ hash'[u] = hash[u]
                                    /\ nego'[u] = nego[u]
      BY <1>t, <1>2, <2>1, <2>2 DEF Hash, WithHash, Types
    <2>4. UNCHANGED <<status, announced>>
      BY <1>2 DEF Hash
    <2>5. \A k \in Content : Known(k)' => Known(k)
      BY <2>4 DEF Known
    <2>6. careful => \A u \in Tasks \ {t} :
             pc[u] \in {"presign", "put", "confirm"} /\ hash[u] # NoContent => ~Known(hash[u])
      BY <1>t DEF OneCareful
    <2> QED
      BY <1>t, <1>2, <2>3, <2>5, <2>6, CarefulKept
  <1>3. ASSUME NEW t \in Tasks, Negotiate(t), UNCHANGED careful PROVE OneCareful'
    <2>1. CASE Return(t)
      BY <1>t, <1>3, <2>1, CarefulKept DEF Negotiate, Types, OneCareful, Known
    <2>2. CASE ~Known(hash[t]) /\ Goto(t, "presign") /\ UNCHANGED task
      BY <1>t, <1>3, <2>2, CarefulKept DEF Negotiate, Types, OneCareful, Known
    <2> QED
      BY <1>3, <2>1, <2>2 DEF Negotiate
  <1>4. ASSUME NEW t \in Tasks, Presign(t), UNCHANGED careful PROVE OneCareful'
    <2>1. count + 1 \in Ids
      BY <1>t, <1>4, BoundAssumption DEF Presign, Types, Ids
    <2>2. \A h \in Content : Known(h)' => Known(h)
      BY <1>t, <1>4, <2>1 DEF Presign, Types, Known
    <2> QED
      BY <1>t, <1>4, <2>2, CarefulKept DEF Presign, Types, OneCareful
  <1>5. ASSUME NEW t \in Tasks, Put(t), UNCHANGED careful PROVE OneCareful'
    <2>1. CASE Return(t)
      BY <1>t, <1>5, <2>1, CarefulKept DEF Put, Types, OneCareful, Known
    <2>2. CASE UNCHANGED task
      BY <1>t, <1>5, <2>2, CarefulKept DEF Put, Types, OneCareful, Known
    <2> QED
      BY <1>5, <2>1, <2>2 DEF Put
  <1>6. ASSUME NEW t \in Tasks, Confirm(t), UNCHANGED careful PROVE OneCareful'
    BY <1>t, <1>6 DEF Confirm, Types, OneCareful
  <1>7. ASSUME NEW t \in Tasks, Fail(t), UNCHANGED careful PROVE OneCareful'
    BY <1>t, <1>7, CarefulKept DEF Fail, Types, OneCareful, Known
  <1>8. CASE Edit /\ UNCHANGED careful
    BY <1>t, <1>8, CarefulKept DEF Edit, OneCareful, Known
  <1>9. ASSUME NEW i \in Ids, Delete(i), UNCHANGED careful PROVE OneCareful'
    <2>1. \A h \in Content : Known(h)' => Known(h)
      BY <1>t, <1>9 DEF Delete, Types, Known
    <2> QED
      BY <1>t, <1>9, <2>1, CarefulKept DEF Delete, OneCareful
  <1>10. CASE UNCHANGED vars
    BY <1>t, <1>10, CarefulKept DEF vars, OneCareful, Known
  <1> QED
    BY <1>t, <1>1, Opening, <1>2, <1>3, <1>4, <1>5, <1>6, <1>7, <1>8, <1>9, <1>10 DEF Next, Step

\* Only a confirmation confirms, and no step announces a backup again.
LEMMA OnceStep == Inv /\ [Next]_vars => OncePerHash'
  <1> SUFFICES ASSUME Inv, [Next]_vars PROVE OncePerHash'
    OBVIOUS
  <1>t. Types /\ OwnBackup /\ OneCareful /\ OncePerHash
    BY DEF Inv
  <1>1. ASSUME NEW t \in Tasks, Confirm(t), UNCHANGED careful PROVE OncePerHash'
    <2>1. id[t] \in Ids /\ announced[id[t]].hash = hash[t] /\ UNCHANGED announced
      <3>1. pc[t] = "confirm" /\ status[id[t]] = "pending" /\ UNCHANGED announced
        BY <1>1 DEF Confirm
      <3>2. Announcing(t)
        BY <3>1 DEF Announcing
      <3>3. id[t] \in Ids /\ announced[id[t]] = [size |-> size[t], hash |-> hash[t]]
        BY <1>t, <3>1, <3>2 DEF OwnBackup
      <3> QED
        BY <3>1, <3>3
    <2>2. Confirmed' = Confirmed \cup {id[t]}
      BY <1>t, <1>1, <2>1 DEF Confirm, Confirmed, Types
    <2>3. careful /\ hash[t] # NoContent => \A i \in Confirmed : announced[i].hash # hash[t]
      BY <1>t, <1>1 DEF Confirm, OneCareful, Known, Confirmed
    <2> QED
      BY <1>t, <1>1, <2>1, <2>2, <2>3 DEF OncePerHash
  <1>2. CASE /\ careful' => careful
             /\ Confirmed' \subseteq Confirmed
             /\ \A i \in Confirmed' : announced'[i] = announced[i]
    BY <1>t, <1>2 DEF OncePerHash
  <1>3. ASSUME NEW t \in Tasks, Presign(t), UNCHANGED careful PROVE OncePerHash'
    <2>1. count + 1 \in Ids /\ status[count + 1] = "none"
      BY <1>t, <1>3, BoundAssumption DEF Presign, Types, Ids, OwnBackup
    <2> QED
      BY <1>t, <1>2, <1>3, <2>1 DEF Presign, Types, Confirmed
  <1>4. ASSUME NEW i \in Ids, Delete(i), UNCHANGED careful PROVE OncePerHash'
    BY <1>t, <1>2, <1>4 DEF Delete, Types, Confirmed
  <1>5. ASSUME careful' => careful, UNCHANGED <<status, announced>> PROVE OncePerHash'
    BY <1>2, <1>5 DEF Confirmed
  <1>6. ASSUME NEW t \in Tasks, NEW n \in BOOLEAN, NEW h \in Content, Begun(t, n, h)
        PROVE  OncePerHash'
    BY <1>5, <1>6 DEF Begun
  <1>7. ASSUME NEW t \in Tasks, Hash(t) \/ Negotiate(t) \/ Put(t) \/ Fail(t), UNCHANGED careful
        PROVE  OncePerHash'
    BY <1>5, <1>7 DEF Hash, Negotiate, Put, Fail, server
  <1>8. CASE (Edit /\ UNCHANGED careful) \/ UNCHANGED vars
    BY <1>5, <1>8 DEF Edit, vars, server
  <1> QED
    BY <1>t, <1>1, Opening, <1>3, <1>4, <1>6, <1>7, <1>8 DEF Next, Step

LEMMA Invariant == Spec => []Inv
  <1>1. Inv /\ [Next]_vars => Inv'
    BY TypesStep, BackupStep, HashedStep, GivenStep, ObjectStep, CarefulStep, OnceStep DEF Inv
  <1> QED
    BY InvInit, <1>1, PTL DEF Spec

\* A confirmed backup has an object, whichever requests failed or were repeated, and
\* in umbra-go and umbra-typescript one of the size announced.
THEOREM ObjectExists == Spec => []ConfirmedIsStored
  <1>1. Inv => ConfirmedIsStored
    BY DEF Inv, ObjectIsRight, Right, Confirmed, ConfirmedIsStored
  <1> QED
    BY Invariant, <1>1, PTL

\* A backup confirmed with a hash has an object of that hash, whoever said the hash,
\* unless the file, or the hash the caller gave, was not what the PUT read; one whose
\* hash umbra-rust computed has it in any case.
THEOREM ObjectIsHashed == Spec => []HashIsOfObject
  <1>1. Inv => HashIsOfObject
    BY DEF Inv, ObjectIsRight, Right, Confirmed, HashIsOfObject
  <1> QED
    BY Invariant, <1>1, PTL

\* Careful retries confirm a content once.
THEOREM ContentOnce == Spec => []OncePerHash
  <1>1. Inv => OncePerHash
    BY DEF Inv
  <1> QED
    BY Invariant, <1>1, PTL
=============================================================================
