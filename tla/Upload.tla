------------------------------- MODULE Upload -------------------------------
(****************************************************************************)
(* The upload of a backup: upload_file and upload_reader (umbra-rust),      *)
(* UploadFile and UploadReader (umbra-go), uploadFile (umbra-typescript,    *)
(* node).  A file is measured, hashed if asked, negotiated by its hash if   *)
(* asked, announced (presign), sent to the object storage (PUT) and         *)
(* confirmed; of a reader the caller says the length.  Meanwhile another    *)
(* program may write to the file.  umbra-rust sends the very bytes it       *)
(* hashed; the two others read the file again for the PUT, with the length  *)
(* measured first.                                                          *)
(*                                                                          *)
(* The caller may supply the hash (options.content_hash).  No SDK compares  *)
(* it with anything.  umbra-typescript prefers it to one of its own,        *)
(* umbra-rust and umbra-go replace it when they hash the file; a reader is  *)
(* never hashed.                                                            *)
(*                                                                          *)
(* The backup server and the storage are modelled as the least they can     *)
(* do: they record what they are told and compare nothing.                  *)
(****************************************************************************)
EXTENDS Naturals

CONSTANTS
    Tasks,          \* uploads that may be running at once
    Sdks,           \* the SDKs looked at, of "rust", "go" and "ts"
    Contents,       \* what the file may contain
    Length,         \* length of each content
    NoContent,      \* no hash, an object not stored
    MaxBackups      \* bound on the backups announced; no upload starts after that

ASSUME SdkAssumption == Sdks \subseteq {"rust", "go", "ts"}
ASSUME LengthAssumption == Length \in [Contents -> Nat]
ASSUME BoundAssumption == MaxBackups \in Nat /\ NoContent \notin Contents

Ids == 1 .. MaxBackups
Content == Contents \cup {NoContent}
Lengths == {Length[c] : c \in Contents} \cup {0}    \* what the caller says of a reader
Unannounced == [size |-> 0, hash |-> NoContent]

VARIABLES
    sdk,        \* the SDK of this behaviour
    file,       \* content of the local file
    count,      \* server: backups announced so far; ids are given in order
    status,     \* server: "none", "pending", "confirmed" or "deleted"
    announced,  \* server: the size and the hash announced
    object,     \* storage: what was put at the backup's URL
    pc,         \* where each task is
    size,       \* the length measured at first, or said by the caller
    hash,       \* content_hash; a hash is the content it is of
    body,       \* rust: the bytes hashed, to be sent
    nego,       \* options.negotiate_by_hash, until the file is hashed
    id,         \* the backup announced by the task
    given,      \* history: tasks of rust whose hash is the caller's
    claimed,    \* history: backups announced with such a hash
    doubtful,   \* history: tasks that will send other bytes than were hashed: the
                \* hash the caller gave was wrong, or the file was written to since
    tainted,    \* history: backups put by such a task
    careful     \* history: every upload so far negotiated, none ran with another

server == <<count, status, announced, object>>
task == <<size, hash, body, nego, id>>
history == <<given, claimed, doubtful, tainted>>
vars == <<sdk, file, server, pc, task, history, careful>>

Init ==
    /\ sdk \in Sdks
    /\ file \in Contents
    /\ count = 0
    /\ status = [i \in Ids |-> "none"]
    /\ announced = [i \in Ids |-> Unannounced]
    /\ object = [i \in Ids |-> NoContent]
    /\ pc = [t \in Tasks |-> "idle"]
    /\ size = [t \in Tasks |-> 0]
    /\ hash = [t \in Tasks |-> NoContent]
    /\ body = [t \in Tasks |-> NoContent]
    /\ nego = [t \in Tasks |-> FALSE]
    /\ id = [t \in Tasks |-> 0]
    /\ given = {} /\ claimed = {} /\ doubtful = {} /\ tainted = {}
    /\ careful = TRUE

-----------------------------------------------------------------------------
Goto(t, l) == pc' = [pc EXCEPT ![t] = l]

\* A result, or an error: nothing is taken back.
Return(t) ==
    /\ Goto(t, "idle")
    /\ size' = [size EXCEPT ![t] = 0]
    /\ hash' = [hash EXCEPT ![t] = NoContent]
    /\ body' = [body EXCEPT ![t] = NoContent]
    /\ nego' = [nego EXCEPT ![t] = FALSE]
    /\ id' = [id EXCEPT ![t] = 0]
    /\ given' = given \ {t}
    /\ doubtful' = doubtful \ {t}

\* A hash is negotiated if the caller asked for that.
WithHash(t, n, h) ==
    /\ hash' = [hash EXCEPT ![t] = h]
    /\ nego' = [nego EXCEPT ![t] = FALSE]
    /\ Goto(t, IF n /\ h # NoContent THEN "negotiate" ELSE "presign")

\* The upload begins with the hash the caller gave, or with none.
GivenHash(t, n, h) ==
    /\ WithHash(t, n, h)
    /\ given' = IF sdk = "rust" /\ h # NoContent THEN given \cup {t} ELSE given
    /\ doubtful' = IF h \in {NoContent, file} THEN doubtful ELSE doubtful \cup {t}

Begins(t, n) ==
    /\ pc[t] = "idle" /\ count < MaxBackups
    /\ careful' = (careful /\ n /\ \A u \in Tasks : pc[u] = "idle")

\* compute_hash or negotiate_by_hash has the file hashed; umbra-typescript does so
\* only where the caller gave no hash.
Hashes(compute, n, h) == (compute \/ n) /\ (sdk = "ts" => h = NoContent)

\* The file is measured.
Open(t) ==
    /\ size' = [size EXCEPT ![t] = Length[file]]
    /\ \E n, compute \in BOOLEAN, h \in Content :
          /\ Begins(t, n)
          /\ IF Hashes(compute, n, h)
             THEN /\ nego' = [nego EXCEPT ![t] = n]
                  /\ Goto(t, "hash")
                  /\ UNCHANGED <<hash, given, doubtful>>
             ELSE GivenHash(t, n, h)
    /\ UNCHANGED <<file, server, body, id, claimed, tainted>>

\* upload_reader, UploadReader: the length is the caller's word, and so is the hash.
OpenReader(t) ==
    /\ sdk # "ts"
    /\ \E l \in Lengths : size' = [size EXCEPT ![t] = l]
    /\ \E n \in BOOLEAN, h \in Content : Begins(t, n) /\ GivenHash(t, n, h)
    /\ UNCHANGED <<file, server, body, id, claimed, tainted>>

\* Faulty: the bytes read for the hash are not the ones to be sent.
HashOnly(t) ==
    /\ pc[t] = "hash"
    /\ WithHash(t, nego[t], file)
    /\ UNCHANGED <<file, server, size, body, id, history>>

Hash(t) ==
    /\ pc[t] = "hash"
    /\ body' = [body EXCEPT ![t] = IF sdk = "rust" THEN file ELSE NoContent]
    /\ WithHash(t, nego[t], file)
    /\ UNCHANGED <<file, server, size, id, history>>

\* The server knows a hash by the backups confirmed with it.
Known(h) == \E i \in Ids : status[i] = "confirmed" /\ announced[i].hash = h

\* Faulty: the answer is not looked at.
NegotiateIgnoring(t) ==
    /\ pc[t] = "negotiate"
    /\ Goto(t, "presign")
    /\ UNCHANGED <<file, server, task, history>>

\* A hash the server has is not uploaded again (skipped: true).
Negotiate(t) ==
    /\ pc[t] = "negotiate"
    /\ \/ ~Known(hash[t]) /\ Goto(t, "presign") /\ UNCHANGED <<task, given, doubtful>>
       \/ Return(t)                                     \* known, or an error
    /\ UNCHANGED <<file, server, claimed, tainted>>

\* An empty file is refused before anything is sent.
Presign(t) ==
    /\ pc[t] = "presign"
    /\ size[t] > 0
    /\ count < MaxBackups
    /\ count' = count + 1
    /\ status' = [status EXCEPT ![count'] = "pending"]
    /\ announced' = [announced EXCEPT ![count'] = [size |-> size[t], hash |-> hash[t]]]
    /\ id' = [id EXCEPT ![t] = count']
    /\ claimed' = IF t \in given THEN claimed \cup {count'} ELSE claimed
    /\ Goto(t, "put")
    /\ UNCHANGED <<file, object, size, hash, body, nego, given, doubtful, tainted>>

Sent(t) == IF body[t] # NoContent THEN body[t] ELSE file

\* Faulty: no length is sent.
AnyLengthFits(t) == TRUE

\* go and typescript send the length measured; a body of another length breaks
\* the request.  rust streams whatever it reads.
LengthFits(t) == sdk # "rust" => Length[Sent(t)] = size[t]

\* The object is stored; the answer arrives, or is lost and the upload ends.
Put(t) ==
    /\ pc[t] = "put"
    /\ LengthFits(t)
    /\ object' = [object EXCEPT ![id[t]] = Sent(t)]
    /\ tainted' = IF t \in doubtful THEN tainted \cup {id[t]} ELSE tainted
    /\ \/ Goto(t, "confirm") /\ doubtful' = doubtful \ {t} /\ UNCHANGED <<task, given>>
       \/ Return(t)
    /\ UNCHANGED <<file, count, status, announced, claimed>>

\* The server confirms; whether the answer arrives changes nothing more here.
Confirm(t) ==
    /\ pc[t] = "confirm"
    /\ status[id[t]] = "pending"
    /\ status' = [status EXCEPT ![id[t]] = "confirmed"]
    /\ Return(t)
    /\ UNCHANGED <<file, count, announced, object, claimed, tainted>>

\* Any request, or the storage, may fail before it changed anything.
Fail(t) ==
    /\ pc[t] \in {"hash", "presign", "put", "confirm"}
    /\ Return(t)
    /\ UNCHANGED <<file, server, claimed, tainted>>

\* The task has a hash, and has still to read the bytes it will send.
RereadsHashed(t) == hash[t] # NoContent /\ body[t] = NoContent /\ pc[t] # "confirm"

\* Another program writes to the file.
Edit ==
    /\ \E c \in Contents \ {file} : file' = c
    /\ doubtful' = doubtful \cup {t \in Tasks : RereadsHashed(t)}
    /\ UNCHANGED <<server, pc, task, given, claimed, tainted>>

\* The application deletes a backup: server and storage forget it.
Delete(i) ==
    /\ status[i] \in {"pending", "confirmed"}
    /\ status' = [status EXCEPT ![i] = "deleted"]
    /\ announced' = [announced EXCEPT ![i] = Unannounced]
    /\ object' = [object EXCEPT ![i] = NoContent]
    /\ claimed' = claimed \ {i} /\ tainted' = tainted \ {i}
    /\ UNCHANGED <<file, count, pc, task, given, doubtful>>

Step(t) == Hash(t) \/ Negotiate(t) \/ Presign(t) \/ Put(t) \/ Confirm(t) \/ Fail(t)

Next == /\ \/ \E t \in Tasks : Open(t) \/ OpenReader(t)
           \/ /\ \/ \E t \in Tasks : Step(t)
                 \/ Edit
                 \/ \E i \in Ids : Delete(i)
              /\ UNCHANGED careful
        /\ UNCHANGED sdk

Spec == Init /\ [][Next]_vars

-----------------------------------------------------------------------------
Confirmed == {i \in Ids : status[i] = "confirmed"}

\* The object of a backup confirmed with a hash has that hash, whichever way it was
\* announced, unless the caller gave the hash of something else, or the file was
\* written to after that, or after it was hashed, and before the PUT.  A hash that
\* umbra-rust computed is right whatever happens to the file.
HashIsOfObject ==
    \A i \in Confirmed :
        announced[i].hash # NoContent /\ (i \in tainted => sdk = "rust" /\ i \notin claimed)
           => object[i] = announced[i].hash

\* A backup is confirmed only when the storage has taken its object: not one
\* whose PUT failed, nor that of another upload to the same address.  In go and
\* typescript the object has the size announced, even if the file grew or shrank
\* during the upload, or the caller misstated a reader's.
ConfirmedIsStored ==
    \A i \in Confirmed : \E c \in Contents :
        object[i] = c /\ (sdk # "rust" => Length[c] = announced[i].size)

\* An application that uploads one file after the other, negotiates, and retries
\* after any failure, a lost answer to the confirmation included, has one
\* confirmed backup of a content.
OncePerHash ==
    careful => \A i, j \in Confirmed :
        announced[i].hash # NoContent /\ announced[i].hash = announced[j].hash => i = j

=============================================================================
