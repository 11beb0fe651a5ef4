-------------------------------- MODULE Sync --------------------------------
(***************************************************************************)
(* Structured synchronisation: SyncClient.exchange and snapshot, between   *)
(* the applications of several devices and one server.  The client passes  *)
(* on what it is given and answers with what it is told; that the devices  *)
(* agree in the end rests on what the protocol carries: cursors, mutation  *)
(* ids, base versions, pages and resets.                                   *)
(*                                                                         *)
(* The application is the one the READMEs prescribe: an outbox, replies    *)
(* applied together with their cursor in one local transaction, the same   *)
(* mutation id on every attempt, pulling with no mutations while there is  *)
(* more.  The server is what that takes of it.  The space is a log of      *)
(* writes, a cursor a position in it, a record's version the number of     *)
(* writes to it.                                                           *)
(***************************************************************************)
EXTENDS Naturals, Sequences, SequencesExt, FiniteSets

CONSTANTS
    Devices,
    Keys,       \* keys of records, in the order of the snapshot
    PullLimit,  \* changes, or records, in a reply
    MaxWrites,  \* bound: mutations the applications create, merges included
    MaxLost     \* bound: calls that end without an answer

ASSUME KeysAssumption == Keys \in Seq(Range(Keys))
ASSUME BoundsAssumption == {PullLimit, MaxWrites, MaxLost} \subseteq Nat /\ PullLimit > 0

\* A mutation: the edit of the user it carries, its id, and the version of the
\* record it is based on.  A record is its version and the edit it shows.
Mutations == [edit : Nat, id : Nat, key : Range(Keys), base : Nat]
Records == [version : Nat, edit : Nat]
NoRecord == [version |-> 0, edit |-> 0]

VARIABLES
    log,        \* server: the mutations in effect
    floor,      \* server: what precedes this cursor is compacted away
    outbox,     \* application: mutations that are not settled
    cursor,     \* application: the cursor stored with the replica
    replica,    \* application: key -> version and edit
    paging,     \* application: 0, or the page of the snapshot that comes next
    more,       \* application: the last reply had more
    stage,      \* SyncClient: "idle", "sent", "answered"
    body,       \* the request under way
    reply,      \* its answer
    late,       \* requests given up that the server may serve yet
    made,       \* mutations created so far
    lost        \* calls that ended without an answer

syncVars == <<log, floor, outbox, cursor, replica, paging, more, stage, body, reply, late, made, lost>>

-----------------------------------------------------------------------------
\* The record of key k after the first n writes of a log
Writes(l, n, k) == {i \in 1 .. n : l[i].key = k}
RecordAt(l, n, k) ==
    LET writes == Writes(l, n, k)
    IN  IF writes = {} THEN NoRecord
        ELSE [version |-> Cardinality(writes), edit |-> l[Max(writes)].edit]

Current(k) == RecordAt(log, Len(log), k)
KeysOf(ms) == {m.key : m \in ms}
Ids(ms) == {m.id : m \in ms}

server == <<log, floor>>
local == <<outbox, cursor, replica, paging, more, made>>

Idle == [mutations |-> {}, cursor |-> 0, page |-> 0]
Silence == [records |-> {}, settled |-> {}, conflicts |-> {}, next |-> 0, more |-> FALSE,
            reset |-> FALSE]

SyncInit ==
    /\ log = <<>> /\ floor = 0
    /\ outbox = [d \in Devices |-> {}]
    /\ cursor = [d \in Devices |-> 0]
    /\ replica = [d \in Devices |-> [k \in Range(Keys) |-> NoRecord]]
    /\ paging = [d \in Devices |-> 0]
    /\ more = [d \in Devices |-> FALSE]
    /\ stage = [d \in Devices |-> "idle"]
    /\ body = [d \in Devices |-> Idle]
    /\ reply = [d \in Devices |-> Silence]
    /\ late = {} /\ made = 0 /\ lost = 0

\* The user edits or deletes a record: a mutation based on the version the
\* application has.  Another edit of it waits until the first is settled.
Edit(d, k) ==
    /\ made < MaxWrites
    /\ k \notin KeysOf(outbox[d])
    /\ made' = made + 1
    /\ outbox' = [outbox EXCEPT ![d] = @ \cup
                    {[edit |-> made', id |-> made', key |-> k, base |-> replica[d][k].version]}]
    /\ UNCHANGED <<server, cursor, replica, paging, more, stage, body, reply, late, lost>>

\* Faulty: the cursor is left out of the request.
RequestUncursored(d) ==
    [mutations |-> IF more[d] \/ paging[d] # 0 THEN {} ELSE outbox[d],
     cursor |-> 0, page |-> paging[d]]

\* SyncExchangeInput, or SyncSnapshotInput when the replica is being reset.
Request(d) ==
    [mutations |-> IF more[d] \/ paging[d] # 0 THEN {} ELSE outbox[d],
     cursor |-> cursor[d], page |-> paging[d]]

\* SyncClient.exchange or snapshot: what a retry after a 401 sends is the same.
Send(d) ==
    /\ stage[d] = "idle"
    /\ stage' = [stage EXCEPT ![d] = "sent"]
    /\ body' = [body EXCEPT ![d] = Request(d)]
    /\ UNCHANGED <<server, local, reply, late, lost>>

-----------------------------------------------------------------------------
\* The server: a mutation takes effect if it has not yet and is based on the
\* current version.
Effective(m) == m.id \notin Ids(Range(log)) /\ m.base = Current(m.key).version

\* A request is refused until the replica is reset if its cursor is compacted.
Behind(b) == b.page = 0 /\ b.cursor < floor

\* Those of a request are of different records: they are taken in any order.
Take(b) ==
    IF Behind(b) THEN UNCHANGED log
    ELSE \E taken \in SetToSeqs({m \in b.mutations : Effective(m)}) : log' = log \o taken

\* SyncChange: the record the n-th write of a log made
Change(l, n) == [key |-> l[n].key, record |-> RecordAt(l, n, l[n].key)]

\* SyncExchangeResult, with l the log the mutations of the request are part of
ExchangeReply(b, l) ==
    LET end == IF b.cursor + PullLimit < Len(l) THEN b.cursor + PullLimit ELSE Len(l)
        accepted == Ids(b.mutations) \cap Ids(Range(l))
    IN  [records |-> {Change(l, n) : n \in b.cursor + 1 .. end},
         settled |-> {m \in b.mutations : m.id \in accepted},
         conflicts |-> {m \in b.mutations : m.id \notin accepted},
         next |-> end, more |-> end < Len(l), reset |-> FALSE]

\* SyncSnapshotPage: the records of some keys as they are now, and the cursor to
\* go on from.
SnapshotReply(b) ==
    LET end == IF b.page + PullLimit - 1 < Len(Keys) THEN b.page + PullLimit - 1 ELSE Len(Keys)
    IN  [Silence EXCEPT
            !.records = {[key |-> Keys[i], record |-> Current(Keys[i])] : i \in b.page .. end},
            !.next = Len(log), !.more = end < Len(Keys)]

Serve(d) ==
    /\ stage[d] = "sent"
    /\ Take(body[d])
    /\ reply' = [reply EXCEPT ![d] = IF body[d].page # 0 THEN SnapshotReply(body[d])
                                     ELSE IF Behind(body[d]) THEN [Silence EXCEPT !.reset = TRUE]
                                     ELSE ExchangeReply(body[d], log')]
    /\ stage' = [stage EXCEPT ![d] = "answered"]
    /\ UNCHANGED <<floor, local, body, late, lost>>

\* A request whose call has ended reaches the server after all.
ServeLate ==
    /\ \E b \in late : Take(b) /\ late' = late \ {b}
    /\ UNCHANGED <<floor, local, stage, body, reply, lost>>

\* The server forgets how an older replica is brought up to date.  It does so once
\* at most.
Compact ==
    /\ floor = 0 /\ log # <<>>
    /\ floor' = Len(log)
    /\ UNCHANGED <<log, local, stage, body, reply, late, lost>>

-----------------------------------------------------------------------------
\* Faulty: what is not settled is sent under a new id after a lost call.
LoseRenumbered(d) ==
    /\ lost < MaxLost /\ stage[d] # "idle"
    /\ lost' = lost + 1
    /\ late' = IF stage[d] = "sent" /\ body[d].mutations # {} THEN late \cup {body[d]} ELSE late
    /\ stage' = [stage EXCEPT ![d] = "idle"]
    /\ body' = [body EXCEPT ![d] = Idle]
    /\ reply' = [reply EXCEPT ![d] = Silence]
    /\ more' = [more EXCEPT ![d] = FALSE]
    /\ outbox' = [outbox EXCEPT ![d] =
                    {[m EXCEPT !.id = @ + MaxWrites] : m \in @}]
    /\ UNCHANGED <<server, cursor, replica, paging, made>>

\* The call fails, its future is dropped, or the process stops before the reply
\* is applied: what is stored stays.
Lose(d) ==
    /\ lost < MaxLost /\ stage[d] # "idle"
    /\ lost' = lost + 1
    /\ late' = IF stage[d] = "sent" /\ body[d].mutations # {} THEN late \cup {body[d]} ELSE late
    /\ stage' = [stage EXCEPT ![d] = "idle"]
    /\ body' = [body EXCEPT ![d] = Idle]
    /\ reply' = [reply EXCEPT ![d] = Silence]
    /\ more' = [more EXCEPT ![d] = FALSE]
    /\ UNCHANGED <<server, outbox, cursor, replica, paging, made>>

\* The newest of what is told of record k and what is there.
Newest(d, k) ==
    LET told == {c.record : c \in {c \in reply[d].records : c.key = k}}
    IN  CHOOSE r \in told \cup {replica[d][k]} :
            \A q \in told \cup {replica[d][k]} : q.version <= r.version

\* Faulty: a snapshot goes on from the cursor of its last page.
ApplyPageLastCursor(d) ==
    /\ replica' = [replica EXCEPT ![d] = [k \in Range(Keys) |-> Newest(d, k)]]
    /\ cursor' = [cursor EXCEPT ![d] = reply[d].next]
    /\ paging' = [paging EXCEPT ![d] =
                    IF @ # 0 /\ reply[d].more THEN @ + PullLimit ELSE 0]
    /\ more' = [more EXCEPT ![d] = paging[d] = 0 /\ reply[d].more]

\* The local transaction of a page: the records, and the cursor with the last one.
\* A snapshot goes on from the cursor of its first page.
ApplyPage(d) ==
    /\ replica' = [replica EXCEPT ![d] = [k \in Range(Keys) |-> Newest(d, k)]]
    /\ cursor' = [cursor EXCEPT ![d] = IF paging[d] > 1 THEN @ ELSE reply[d].next]
    /\ paging' = [paging EXCEPT ![d] =
                    IF @ # 0 /\ reply[d].more THEN @ + PullLimit ELSE 0]
    /\ more' = [more EXCEPT ![d] = paging[d] = 0 /\ reply[d].more]

\* A mutation that conflicts is given up, or merged: made again as a new one on
\* what the replica has now.
Merge(m, d) ==
    /\ made < MaxWrites
    /\ made' = made + 1
    /\ outbox' = [outbox EXCEPT ![d] =
            (@ \ body[d].mutations)
               \cup {[m EXCEPT !.id = made', !.base = replica'[d][m.key].version]}]

GiveUp(d) ==
    /\ outbox' = [outbox EXCEPT ![d] = @ \ body[d].mutations]
    /\ UNCHANGED made

\* The reply is applied, the outcomes of the mutations with it.
Apply(d) ==
    /\ stage[d] = "answered"
    /\ IF reply[d].reset
       THEN /\ paging' = [paging EXCEPT ![d] = 1]
            /\ UNCHANGED <<outbox, cursor, replica, more, made>>
       ELSE /\ ApplyPage(d)
            /\ GiveUp(d) \/ \E m \in reply[d].conflicts : Merge(m, d)
    /\ stage' = [stage EXCEPT ![d] = "idle"]
    /\ body' = [body EXCEPT ![d] = Idle]
    /\ reply' = [reply EXCEPT ![d] = Silence]
    /\ UNCHANGED <<server, late, lost>>

SyncNext ==
    \/ \E d \in Devices : \/ \E k \in Range(Keys) : Edit(d, k)
                          \/ Send(d) \/ Serve(d) \/ Lose(d) \/ Apply(d)
    \/ ServeLate \/ Compact

Fairness ==
    \A d \in Devices : WF_syncVars(Send(d)) /\ WF_syncVars(Serve(d)) /\ WF_syncVars(Apply(d))

SyncSpec == SyncInit /\ [][SyncNext]_syncVars /\ Fairness

-----------------------------------------------------------------------------
\* However often a mutation is sent, and whenever a request given up arrives, an
\* edit of a user takes effect once: the id is kept on a retry, and a merge is
\* made only where the base version keeps the first mutation out for good.
OncePerEdit == \A m, n \in DOMAIN log : log[m].edit = log[n].edit => m = n

\* A replica shows no record that never was, and misses nothing that its cursor
\* says it has, though pages are lost, pulled again or overtaken by a snapshot.
ReplicaIsCurrent ==
    \A d \in Devices, k \in Range(Keys) : paging[d] = 0 =>
        \E n \in cursor[d] .. Len(log) : replica[d][k] = RecordAt(log, n, k)

\* Once the users stop, every edit is settled and every device shows the same
\* records.
Settled(d) == outbox[d] = {} /\ \A k \in Range(Keys) : replica[d][k] = Current(k)
Converges == <>[](\A d \in Devices : Settled(d))
=============================================================================
