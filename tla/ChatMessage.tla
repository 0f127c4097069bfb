----------------------------- MODULE ChatMessage -----------------------------
(***************************************************************************)
(* The life of a chat message: the send handler of chat_template_impl.py,  *)
(* the Redis state machine of chat_state_machine.py, the save and delete   *)
(* jobs of the chat_persistence queue, and the write-behind buffers of     *)
(* ChatPersistenceConsumer that save messages to the database.             *)
(*                                                                         *)
(* A request stores two messages, the user's and the reply.  A queue job   *)
(* is named by what it is for: a message to save, or the client whose      *)
(* message is to be deleted.  The queue is the contract of Delivery, seen  *)
(* from the handlers: a job is handed out again after a failure, at most   *)
(* MaxRetries times, and a fault may hand it out twice.  All messages are  *)
(* of one shard, hence one buffer per process: shard 1 or shard 2, whose   *)
(* procedures differ.  A message is named by the id it was sent with, and  *)
(* deleted by that id; its room is not deleted.  The room lock is the      *)
(* lease lock that DistributedLock implements.                             *)
(***************************************************************************)
EXTENDS Naturals, Sequences

CONSTANTS
    Request,      \* on_chat_message_send_req calls
    Client,       \* on_chat_message_delete_req calls, one message each
    Process,      \* server processes, each with one consumer of the queue
    Room,
    RoomOf,       \* the room a request writes to
    NoOne,        \* no job, no message, nobody
    BatchSize,    \* batch_size of the consumer (50)
    MaxRetries,   \* retries of a queue job (3)
    MaxFaults,    \* bound: failed commands, lost replies, copies of a job
    MaxTimeouts,  \* bound: room locks not obtained within lock_timeout
    MaxCrashes,   \* bound: processes that die
    MaxExpiries   \* bound: state keys whose lifetime ends

Part    == {"user", "ai"}
Message == Request \X Part
Job     == Message \cup Client
Batcher == Process \X {"loop", "timer"}

ASSUME ChatAssumption ==
    /\ RoomOf \in [Request -> Room]
    /\ Client \cap Message = {}
    /\ NoOne \notin Job \cup Batcher \cup Room
    /\ BatchSize \in Nat \ {0}
    /\ MaxRetries \in Nat
    /\ MaxFaults \in Nat /\ MaxTimeouts \in Nat
    /\ MaxCrashes \in Nat /\ MaxExpiries \in Nat

VARIABLES
    state,      \* msg_state:<id> in Redis, "none" when the key is absent
    row,        \* the row in table_chat_messages: none, stored, deleted
    spc,        \* where each send handler is: <<step, part>>
    seq,        \* sequence number of a message, given when it is queued
    clock,      \* the last sequence number
    mq,         \* mq:priority:chat_persistence:high
    dlq,        \* dead-lettered jobs
    tries,      \* retry_count of each job
    cpc,        \* where each delete handler is
    target,     \* the message it deletes
    seen,       \* the state it read
    hpc,        \* where the consumer of each process is
    job,        \* the job it handles
    buffer,     \* message_buffer of each process
    bpc,        \* where each batch run is
    batch,      \* the messages it has taken and not yet treated
    group,      \* the room whose messages it is saving
    current,    \* the message it is saving
    lock,       \* chat_db_save:<room>
    page,       \* rows a list handler has read and not yet looked up
    cancelled,  \* messages deleted before they were processed
    shard,      \* the database shard of the messages
    faults, timeouts, crashes, expiries

sendVars   == <<spc, seq, clock>>
queueVars  == <<mq, dlq, tries>>
clientVars == <<cpc, target, seen>>
loopVars   == <<hpc, job, buffer>>
batchVars  == <<bpc, batch, group, current>>
bounds     == <<shard, faults, timeouts, crashes, expiries>>
vars == <<state, row, sendVars, queueVars, clientVars, loopVars, batchVars, lock, page,
          cancelled, bounds>>

-----------------------------------------------------------------------------
MessageState ==
    {"none", "COMPOSING", "PENDING", "PROCESSING", "SENT", "DELETING", "DELETED"}

Steps == ({"compose", "queue", "pend"} \X Part) \cup {<<"llm", "ai">>}
SendStep == Steps \cup {<<"done", "ai">>, <<"failed", "ai">>}

StoreTypeOK ==
    /\ state \in [Message -> MessageState]
    /\ row \in [Message -> {"none", "stored", "deleted"}]
    /\ page \subseteq Message
    /\ cancelled \subseteq Message

SendTypeOK ==
    /\ spc \in [Request -> SendStep]
    /\ seq \in [Message -> Nat]
    /\ clock \in Nat

QueueTypeOK ==
    /\ mq \in Seq(Job)
    /\ dlq \subseteq Job
    /\ tries \in [Job -> 0..MaxRetries]

ClientTypeOK ==
    /\ cpc \in [Client -> {"start", "cas", "check", "done", "refused"}]
    /\ target \in [Client -> Message \cup {NoOne}]
    /\ seen \in [Client -> MessageState]
    /\ \A c \in Client : cpc[c] # "start" <=> target[c] # NoOne

LoopTypeOK ==
    /\ hpc \in [Process -> {"idle", "save", "reread", "batching", "delete", "ack", "nack"}]
    /\ job \in [Process -> Job \cup {NoOne}]
    /\ buffer \in [Process -> Seq(Message)]
    /\ \A p \in Process : hpc[p] = "idle" <=> job[p] = NoOne
    /\ \A p \in Process : hpc[p] \in {"save", "reread"} => job[p] \in Message
    /\ \A p \in Process : hpc[p] = "delete" => job[p] \in Client

BatchTypeOK ==
    /\ bpc \in [Batcher -> {"idle", "lock", "save", "mark"}]
    /\ batch \in [Batcher -> SUBSET Message]
    /\ current \in [Batcher -> Message \cup {NoOne}]
    /\ group \in [Batcher -> Room \cup {NoOne}]
    /\ \A b \in Batcher : bpc[b] \in {"save", "mark"} <=> group[b] # NoOne
    /\ \A b \in Batcher : bpc[b] = "mark" <=> current[b] # NoOne
    /\ lock \in [Room -> Batcher \cup {NoOne}]

BoundsTypeOK ==
    /\ shard \in {1, 2}
    /\ faults \in 0..MaxFaults /\ timeouts \in 0..MaxTimeouts
    /\ crashes \in 0..MaxCrashes /\ expiries \in 0..MaxExpiries

\* Every variable keeps its type, and a handler or batch run holds a job or a
\* message exactly while its step needs one.
TypeOK ==
    /\ StoreTypeOK /\ SendTypeOK /\ QueueTypeOK /\ ClientTypeOK
    /\ LoopTypeOK /\ BatchTypeOK /\ BoundsTypeOK

Init ==
    /\ state = [m \in Message |-> "none"]
    /\ row = [m \in Message |-> "none"]
    /\ spc = [r \in Request |-> <<"compose", "user">>]
    /\ seq = [m \in Message |-> 0] /\ clock = 0
    /\ mq = <<>> /\ dlq = {} /\ tries = [j \in Job |-> 0]
    /\ cpc = [c \in Client |-> "start"]
    /\ target = [c \in Client |-> NoOne]
    /\ seen = [c \in Client |-> "none"]
    /\ hpc = [p \in Process |-> "idle"]
    /\ job = [p \in Process |-> NoOne]
    /\ buffer = [p \in Process |-> <<>>]
    /\ bpc = [b \in Batcher |-> "idle"]
    /\ batch = [b \in Batcher |-> {}]
    /\ group = [b \in Batcher |-> NoOne]
    /\ current = [b \in Batcher |-> NoOne]
    /\ lock = [g \in Room |-> NoOne]
    /\ page = {} /\ cancelled = {}
    /\ shard \in {1, 2}
    /\ faults = 0 /\ timeouts = 0 /\ crashes = 0 /\ expiries = 0

\* A Redis or database command fails, or its reply is lost.
Fault ==
    /\ faults < MaxFaults
    /\ faults' = faults + 1
    /\ UNCHANGED <<shard, timeouts, crashes, expiries>>

-----------------------------------------------------------------------------
(* The state machine: transition_message                                   *)

\* message_transitions
Successors(s) ==
    CASE s = "COMPOSING"  -> {"PENDING", "DELETED"}
      [] s = "PENDING"    -> {"PROCESSING", "DELETED"}
      [] s = "PROCESSING" -> {"SENT", "DELETED"}
      [] s = "SENT"       -> {"DELETING"}
      [] s = "DELETING"   -> {"DELETED"}
      [] OTHER            -> {}

\* Mutants: every transition is permitted; the script sets without comparing.
PermitAll(from, to) == TRUE
Unconditionally(m, from) == TRUE

\* The rules are looked up unless this is the first state of the message.
Permitted(from, to) == from = "none" \/ to \in Successors(from)

\* The Lua script compares and sets in one step.
Matches(m, from) == state[m] = from

CanMove(m, from, to) == Permitted(from, to) /\ Matches(m, from)

\* A caller that ignores the result.
TryMove(m, from, to) ==
    state' = IF CanMove(m, from, to) THEN [state EXCEPT ![m] = to] ELSE state

-----------------------------------------------------------------------------
(* on_chat_message_send_req                                                *)

AfterStep(s) ==
    CASE s = <<"compose", "user">> -> <<"queue", "user">>
      [] s = <<"queue", "user">>   -> <<"pend", "user">>
      [] s = <<"pend", "user">>    -> <<"compose", "ai">>
      [] s = <<"compose", "ai">>   -> <<"llm", "ai">>
      [] s = <<"llm", "ai">>       -> <<"queue", "ai">>
      [] s = <<"queue", "ai">>     -> <<"pend", "ai">>
      [] OTHER                     -> <<"done", "ai">>

Advance(r) == spc' = [spc EXCEPT ![r] = AfterStep(@)]

\* The message gets a fresh id and its first state.
Compose(r, k) ==
    /\ spc[r] = <<"compose", k>>
    /\ TryMove(<<r, k>>, "none", "COMPOSING")
    /\ Advance(r)
    /\ UNCHANGED <<row, seq, clock, queueVars, clientVars, loopVars, batchVars, lock,
                   page, cancelled, bounds>>

\* It is queued to be saved, with the time as its sequence number.
QueueSave(r, k) ==
    /\ spc[r] = <<"queue", k>>
    /\ clock' = clock + 1
    /\ seq' = [seq EXCEPT ![<<r, k>>] = clock + 1]
    /\ mq' = Append(mq, <<r, k>>)
    /\ Advance(r)
    /\ UNCHANGED <<state, row, dlq, tries, clientVars, loopVars, batchVars, lock, page,
                   cancelled, bounds>>

\* Only then does it become PENDING.
Pend(r, k) ==
    /\ spc[r] = <<"pend", k>>
    /\ TryMove(<<r, k>>, "COMPOSING", "PENDING")
    /\ Advance(r)
    /\ UNCHANGED <<row, seq, clock, queueVars, clientVars, loopVars, batchVars, lock,
                   page, cancelled, bounds>>

Reply(r) ==
    /\ spc[r] = <<"llm", "ai">>
    /\ Advance(r)
    /\ UNCHANGED <<state, row, seq, clock, queueVars, clientVars, loopVars, batchVars,
                   lock, page, cancelled, bounds>>

\* The model fails: the handler discards the reply and answers with an error.
ReplyFails(r) ==
    /\ spc[r] = <<"llm", "ai">>
    /\ TryMove(<<r, "ai">>, "PENDING", "DELETED")
    /\ spc' = [spc EXCEPT ![r] = <<"failed", "ai">>]
    /\ UNCHANGED <<row, seq, clock, queueVars, clientVars, loopVars, batchVars, lock,
                   page, cancelled, bounds>>

\* A transition or send_message fails; it returns False and nobody looks.
SendStepFails(r) ==
    /\ spc[r] \in {"compose", "queue", "pend"} \X Part
    /\ Fault
    /\ Advance(r)
    /\ UNCHANGED <<state, row, seq, clock, queueVars, clientVars, loopVars, batchVars,
                   lock, page, cancelled>>

-----------------------------------------------------------------------------
(* on_chat_message_delete_req and smart_delete_message                     *)

\* The client knows a message from the cache, filled when its request ends, or
\* from the database.
Visible(m) == spc[m[1]] = <<"done", "ai">> \/ row[m] # "none"

\* smart_delete_message reads the state ...
SmartRead(c, m) ==
    /\ cpc[c] = "start"
    /\ Visible(m)
    /\ target' = [target EXCEPT ![c] = m]
    /\ seen' = [seen EXCEPT ![c] = state[m]]
    /\ cpc' = [cpc EXCEPT ![c] =
                 IF state[m] = "none" THEN "refused"
                 ELSE IF state[m] \in {"DELETING", "DELETED"} THEN "check"
                 ELSE "cas"]
    /\ UNCHANGED <<state, row, sendVars, queueVars, loopVars, batchVars, lock, page,
                   cancelled, bounds>>

SmartTarget(s) == IF s \in {"COMPOSING", "PENDING"} THEN "DELETED" ELSE "DELETING"

\* ... and moves it on from there; a failure, or a reply that is lost, is answered
\* with an error.
SmartCas(c) ==
    LET m == target[c]
        to == SmartTarget(seen[c])
        moves == CanMove(m, seen[c], to)
    IN  /\ cpc[c] = "cas"
        /\ TryMove(m, seen[c], to)
        /\ cancelled' = IF moves /\ to = "DELETED" THEN cancelled \cup {m} ELSE cancelled
        /\ \/ cpc' = [cpc EXCEPT ![c] = IF moves THEN "check" ELSE "refused"]
              /\ UNCHANGED bounds
           \/ cpc' = [cpc EXCEPT ![c] = "refused"] /\ Fault
        /\ UNCHANGED <<row, sendVars, queueVars, target, seen, loopVars, batchVars, lock,
                       page>>

\* A mutant of NeedsRowDeletion: the wrong state.
NeedsNothing(m) == state[m] = "DELETED"

NeedsRowDeletion(m) == state[m] = "DELETING"

\* The handler reads the state again, and queues the deletion of a row only for
\* a DELETING message.
QueueDelete(c) ==
    /\ cpc[c] = "check"
    /\ cpc' = [cpc EXCEPT ![c] = "done"]
    /\ mq' = IF NeedsRowDeletion(target[c]) THEN Append(mq, c) ELSE mq
    /\ UNCHANGED <<state, row, sendVars, dlq, tries, target, seen, loopVars, batchVars,
                   lock, page, cancelled, bounds>>

\* A command fails: the transition, which is refused, or send_message, whose
\* result is ignored.
DeleteStepFails(c) ==
    /\ cpc[c] \in {"cas", "check"}
    /\ Fault
    /\ cpc' = [cpc EXCEPT ![c] = IF @ = "cas" THEN "refused" ELSE "done"]
    /\ UNCHANGED <<state, row, sendVars, queueVars, target, seen, loopVars, batchVars,
                   lock, page, cancelled>>

-----------------------------------------------------------------------------
(* The consumer of a process: handle_message                               *)

\* The consumer takes the first job; with a fault a copy of it stays behind.
Receive(p) ==
    /\ hpc[p] = "idle"
    /\ mq # <<>>
    /\ job' = [job EXCEPT ![p] = Head(mq)]
    /\ hpc' = [hpc EXCEPT ![p] = IF Head(mq) \in Message THEN "save" ELSE "delete"]
    /\ \/ mq' = Tail(mq) /\ UNCHANGED bounds
       \/ mq' = mq /\ Fault
    /\ UNCHANGED <<state, row, sendVars, dlq, tries, clientVars, buffer, batchVars, lock,
                   page, cancelled>>

\* How much of a buffer one batch takes.
BatchLength(s) == IF Len(s) < BatchSize THEN Len(s) ELSE BatchSize

\* A mutant of FirstBatch: the slice ends one too early.
FirstBatchButOne(s) == {s[i] : i \in 1..BatchLength(s) - 1}

FirstBatch(s) == {s[i] : i \in 1..BatchLength(s)}
RestOf(s) == SubSeq(s, BatchLength(s) + 1, Len(s))

Full(s) == Len(s) >= BatchSize

\* _process_shard_batch slices the buffer without an await.
StartBatch(b, s) ==
    /\ batch' = [batch EXCEPT ![b] = FirstBatch(s)]
    /\ bpc' = [bpc EXCEPT ![b] = "lock"]
    /\ group' = [group EXCEPT ![b] = NoOne]
    /\ current' = [current EXCEPT ![b] = NoOne]

\* A PENDING message becomes PROCESSING and enters the buffer; a full buffer is
\* written by the handler itself.
TakeIn(p) ==
    LET m == job[p]
        filled == Append(buffer[p], m)
        full == Full(filled)
    IN  /\ hpc[p] = "save"
        /\ CanMove(m, "PENDING", "PROCESSING")
        /\ TryMove(m, "PENDING", "PROCESSING")
        /\ buffer' = [buffer EXCEPT ![p] = IF full THEN RestOf(filled) ELSE filled]
        /\ hpc' = [hpc EXCEPT ![p] = IF full THEN "batching" ELSE "ack"]
        /\ IF full THEN StartBatch(<<p, "loop">>, filled) ELSE UNCHANGED batchVars
        /\ UNCHANGED <<row, sendVars, queueVars, clientVars, job, lock, page, cancelled,
                       bounds>>

\* The transition is not made, or its reply is lost.
TakeInFails(p) ==
    /\ hpc[p] = "save"
    /\ \/ ~ CanMove(job[p], "PENDING", "PROCESSING") /\ UNCHANGED <<state, bounds>>
       \/ UNCHANGED state /\ Fault
       \/ TryMove(job[p], "PENDING", "PROCESSING") /\ Fault
    /\ hpc' = [hpc EXCEPT ![p] = "reread"]
    /\ UNCHANGED <<row, sendVars, queueVars, clientVars, job, buffer, batchVars,
                   lock, page, cancelled>>

\* The handler looks why: a deleted message needs no saving, any other state, or
\* an error, counts as a failure.
Reread(p) ==
    /\ hpc[p] = "reread"
    /\ \/ /\ hpc' = [hpc EXCEPT ![p] =
                      IF state[job[p]] \in {"DELETED", "DELETING"} THEN "ack" ELSE "nack"]
          /\ UNCHANGED bounds
       \/ hpc' = [hpc EXCEPT ![p] = "nack"] /\ Fault
    /\ UNCHANGED <<state, row, sendVars, queueVars, clientVars, job, buffer, batchVars,
                   lock, page, cancelled>>

\* The handler's own batch is over.  Its last line reads the buffer again: when
\* the cleanup job has dropped the empty buffer, it raises and the job fails.
LoopBatchDone(p) ==
    /\ hpc[p] = "batching"
    /\ bpc[<<p, "loop">>] = "idle"
    /\ \/ hpc' = [hpc EXCEPT ![p] = "ack"]
       \/ buffer[p] = <<>> /\ hpc' = [hpc EXCEPT ![p] = "nack"]
    /\ UNCHANGED <<state, row, sendVars, queueVars, clientVars, job, buffer, batchVars,
                   lock, page, cancelled, bounds>>

\* fp_chat_message_batch_save stores a message under the id it is given on shard 1; on
\* shard 2 it ignores that id and makes one from the time in milliseconds.
KeepsId == shard = 1

\* A row that is there, not deleted, and has the id of the message.
Found(m) == row[m] = "stored" /\ KeepsId

\* _handle_message_delete: fp_chat_message_soft_delete, under the lock of the
\* message; it succeeds on a row that it finds.
SoftDelete(p) ==
    LET m == target[job[p]]
    IN  /\ hpc[p] = "delete"
        /\ row' = IF Found(m) THEN [row EXCEPT ![m] = "deleted"] ELSE row
        /\ \/ /\ hpc' = [hpc EXCEPT ![p] = IF Found(m) THEN "ack" ELSE "nack"]
              /\ UNCHANGED bounds
           \/ hpc' = [hpc EXCEPT ![p] = "nack"] /\ Fault
        /\ UNCHANGED <<state, sendVars, queueVars, clientVars, job, buffer, batchVars,
                       lock, page, cancelled>>

SoftDeleteFails(p) ==
    /\ hpc[p] = "delete"
    /\ Fault
    /\ hpc' = [hpc EXCEPT ![p] = "nack"]
    /\ UNCHANGED <<state, row, sendVars, queueVars, clientVars, job, buffer, batchVars,
                   lock, page, cancelled>>

Idle(p) ==
    /\ hpc' = [hpc EXCEPT ![p] = "idle"]
    /\ job' = [job EXCEPT ![p] = NoOne]

Ack(p) ==
    /\ hpc[p] = "ack"
    /\ Idle(p)
    /\ UNCHANGED <<state, row, sendVars, queueVars, clientVars, buffer, batchVars, lock,
                   page, cancelled, bounds>>

MayRetry(j) == tries[j] < MaxRetries

\* A failed job goes to the end of its list until its retries are used up.
Nack(p) ==
    /\ hpc[p] = "nack"
    /\ IF MayRetry(job[p])
         THEN /\ tries' = [tries EXCEPT ![job[p]] = @ + 1]
              /\ mq' = Append(mq, job[p])
              /\ UNCHANGED dlq
         ELSE dlq' = dlq \cup {job[p]} /\ UNCHANGED <<mq, tries>>
    /\ Idle(p)
    /\ UNCHANGED <<state, row, sendVars, clientVars, buffer, batchVars, lock, page,
                   cancelled, bounds>>

-----------------------------------------------------------------------------
(* Batches: _process_shard_batch and _process_room_messages                *)

\* The scheduled run, every batch_interval seconds.
TimerBatch(p) ==
    /\ bpc[<<p, "timer">>] = "idle"
    /\ buffer[p] # <<>>
    /\ StartBatch(<<p, "timer">>, buffer[p])
    /\ buffer' = [buffer EXCEPT ![p] = RestOf(@)]
    /\ UNCHANGED <<state, row, sendVars, queueVars, clientVars, hpc, job, lock, page,
                   cancelled, bounds>>

RoomOfMessage(m) == RoomOf[m[1]]

\* A batch treats its messages by room, in the order of their sequence numbers.
Earliest(S) == {m \in S : \A n \in S : seq[m] <= seq[n]}
GroupOf(S, g) == {m \in S : RoomOfMessage(m) = g}
Leading(b, g) == \E m \in Earliest(batch[b]) : RoomOfMessage(m) = g

Acquire(b, g) ==
    /\ bpc[b] = "lock"
    /\ Leading(b, g)
    /\ lock[g] = NoOne
    /\ lock' = [lock EXCEPT ![g] = b]
    /\ group' = [group EXCEPT ![b] = g]
    /\ bpc' = [bpc EXCEPT ![b] = "save"]
    /\ UNCHANGED <<state, row, sendVars, queueVars, clientVars, loopVars, batch, current,
                   page, cancelled, bounds>>

\* With nothing left to do the run ends, else it goes on to the next room.
NextRoom(b, rest) ==
    /\ batch' = [batch EXCEPT ![b] = rest]
    /\ bpc' = [bpc EXCEPT ![b] = IF rest = {} THEN "idle" ELSE "lock"]

\* Another run keeps the lock for longer than lock_timeout: the group is dropped.
AcquireTimeout(b, g) ==
    /\ bpc[b] = "lock"
    /\ Leading(b, g)
    /\ lock[g] # NoOne
    /\ timeouts < MaxTimeouts
    /\ timeouts' = timeouts + 1
    /\ NextRoom(b, batch[b] \ GroupOf(batch[b], g))
    /\ UNCHANGED <<state, row, sendVars, queueVars, clientVars, loopVars, group, current,
                   lock, page, cancelled, shard, faults, crashes, expiries>>

\* The next message of the group, by sequence number.
IsNext(b, m) == bpc[b] = "save" /\ m \in Earliest(GroupOf(batch[b], group[b]))

Drop(b, m) == batch' = [batch EXCEPT ![b] = @ \ {m}]

\* The id of a row is unique: that of a stored message is taken on shard 1; on shard 2
\* that of another message may be, if it was saved in the same millisecond.
MayCollide(m) ==
    IF KeepsId THEN row[m] # "none" ELSE \E n \in Message \ {m} : row[n] # "none"

\* fp_chat_message_batch_save inserts the row ...
Save(b, m) ==
    /\ IsNext(b, m)
    /\ KeepsId => row[m] = "none"
    /\ row' = [row EXCEPT ![m] = "stored"]
    /\ bpc' = [bpc EXCEPT ![b] = "mark"]
    /\ current' = [current EXCEPT ![b] = m]
    /\ UNCHANGED <<state, sendVars, queueVars, clientVars, loopVars, batch, group, lock,
                   page, cancelled, bounds>>

\* ... and raises on an id that is taken; any exception is logged and the message left
\* where it is.
SaveRaises(b, m) ==
    /\ IsNext(b, m)
    /\ \/ MayCollide(m) /\ UNCHANGED <<row, bounds>>
       \/ UNCHANGED row /\ Fault
       \/ row[m] = "none" /\ row' = [row EXCEPT ![m] = "stored"] /\ Fault
    /\ Drop(b, m)
    /\ UNCHANGED <<state, sendVars, queueVars, clientVars, loopVars, bpc, group, current,
                   lock, page, cancelled>>

\* The stored message becomes SENT; a failure is ignored.
MarkSent(b) ==
    /\ bpc[b] = "mark"
    /\ \/ TryMove(current[b], "PROCESSING", "SENT") /\ UNCHANGED bounds
       \/ UNCHANGED state /\ Fault
    /\ Drop(b, current[b])
    /\ current' = [current EXCEPT ![b] = NoOne]
    /\ bpc' = [bpc EXCEPT ![b] = "save"]
    /\ UNCHANGED <<row, sendVars, queueVars, clientVars, loopVars, group, lock, page,
                   cancelled>>

\* The group is done; the lock is released unless it belongs to another by now.
Release(b) ==
    /\ bpc[b] = "save"
    /\ GroupOf(batch[b], group[b]) = {}
    /\ lock' = IF lock[group[b]] = b THEN [lock EXCEPT ![group[b]] = NoOne] ELSE lock
    /\ group' = [group EXCEPT ![b] = NoOne]
    /\ NextRoom(b, batch[b])
    /\ UNCHANGED <<state, row, sendVars, queueVars, clientVars, loopVars, current, page,
                   cancelled, bounds>>

-----------------------------------------------------------------------------
(* The environment                                                         *)

\* The lifetime of a room lock ends: its run is too slow, or its process died.
LeaseEnds(g) ==
    /\ lock[g] # NoOne
    /\ \/ group[lock[g]] # g /\ UNCHANGED bounds
       \/ Fault
    /\ lock' = [lock EXCEPT ![g] = NoOne]
    /\ UNCHANGED <<state, row, sendVars, queueVars, clientVars, loopVars, batchVars, page,
                   cancelled>>

\* on_chat_message_list_req reads the rows that are not deleted; those of shard 2 have
\* ids, and get states, of their own ...
ListRead(m) ==
    /\ Found(m)
    /\ m \notin page
    /\ page' = page \cup {m}
    /\ UNCHANGED <<state, row, sendVars, queueVars, clientVars, loopVars, batchVars, lock,
                   cancelled, bounds>>

\* ... and makes SENT those that have no state.
ListRestore(m) ==
    /\ m \in page
    /\ page' = page \ {m}
    /\ IF state[m] = "none" THEN TryMove(m, "none", "SENT") ELSE UNCHANGED state
    /\ UNCHANGED <<row, sendVars, queueVars, clientVars, loopVars, batchVars, lock,
                   cancelled, bounds>>

BufferSet(p) == {buffer[p][i] : i \in DOMAIN buffer[p]}

\* Nobody is in the middle of a step on m.
Quiet(m) ==
    /\ spc[m[1]][1] \in {"done", "failed"}
    /\ m \notin page
    /\ \A c \in Client : target[c] = m => cpc[c] \in {"done", "refused"}
    /\ \A p \in Process : job[p] # m /\ m \notin BufferSet(p)
    /\ \A b \in Batcher : m \notin batch[b]

\* The lifetime of a state key, an hour, ends.
Expire(m) ==
    /\ state[m] # "none"
    /\ Quiet(m)
    /\ expiries < MaxExpiries
    /\ expiries' = expiries + 1
    /\ state' = [state EXCEPT ![m] = "none"]
    /\ UNCHANGED <<row, sendVars, queueVars, clientVars, loopVars, batchVars, lock, page,
                   cancelled, shard, faults, timeouts, crashes>>

\* A process dies with its job, its buffer and its batches.
Crash(p) ==
    /\ crashes < MaxCrashes
    /\ crashes' = crashes + 1
    /\ Idle(p)
    /\ buffer' = [buffer EXCEPT ![p] = <<>>]
    /\ bpc' = [b \in Batcher |-> IF b[1] = p THEN "idle" ELSE bpc[b]]
    /\ batch' = [b \in Batcher |-> IF b[1] = p THEN {} ELSE batch[b]]
    /\ group' = [b \in Batcher |-> IF b[1] = p THEN NoOne ELSE group[b]]
    /\ current' = [b \in Batcher |-> IF b[1] = p THEN NoOne ELSE current[b]]
    /\ UNCHANGED <<state, row, sendVars, queueVars, clientVars, lock, page, cancelled,
                   shard, faults, timeouts, expiries>>

-----------------------------------------------------------------------------
SendRuns(r) ==
    \/ \E k \in Part : Compose(r, k) \/ QueueSave(r, k) \/ Pend(r, k)
    \/ Reply(r) \/ ReplyFails(r)

DeleteRuns(c) == SmartCas(c) \/ QueueDelete(c)

LoopRuns(p) ==
    \/ Receive(p) \/ TakeIn(p) \/ TakeInFails(p) \/ Reread(p) \/ LoopBatchDone(p)
    \/ SoftDelete(p) \/ Ack(p) \/ Nack(p)

BatchRuns(b) ==
    \/ \E g \in Room : Acquire(b, g)
    \/ \E m \in Message : Save(b, m) \/ SaveRaises(b, m)
    \/ MarkSent(b) \/ Release(b)

Next ==
    \/ \E r \in Request : SendRuns(r) \/ SendStepFails(r)
    \/ \E c \in Client : DeleteRuns(c) \/ DeleteStepFails(c)
    \/ \E c \in Client, m \in Message : SmartRead(c, m)
    \/ \E p \in Process : LoopRuns(p) \/ SoftDeleteFails(p) \/ TimerBatch(p) \/ Crash(p)
    \/ \E b \in Batcher : BatchRuns(b)
    \/ \E b \in Batcher, g \in Room : AcquireTimeout(b, g)
    \/ \E g \in Room : LeaseEnds(g)
    \/ \E m \in Message : ListRead(m) \/ ListRestore(m) \/ Expire(m)

Spec == Init /\ [][Next]_vars

\* The event loop runs every handler that can go on, the scheduler its jobs, and
\* Redis ends leases.
Fairness ==
    /\ \A r \in Request : WF_vars(SendRuns(r))
    /\ \A c \in Client : WF_vars(DeleteRuns(c))
    /\ \A p \in Process : WF_vars(LoopRuns(p)) /\ WF_vars(TimerBatch(p))
    /\ \A b \in Batcher : WF_vars(BatchRuns(b))
    /\ \A g \in Room : WF_vars(LeaseEnds(g))

FairSpec == Spec /\ Fairness

-----------------------------------------------------------------------------
(* Properties                                                              *)

InCustody(m) ==
    \/ \E p \in Process : m \in BufferSet(p)
    \/ \E b \in Batcher : m \in batch[b]

\* A message that was acknowledged to the queue but not saved exists in one
\* buffer or batch only: as long as no command fails and no process dies, a
\* PROCESSING message is always in one, whatever batches overlap
\* (chat_persistence_consumer.py:368-479).  On shard 2 two messages of the same
\* millisecond collide, and one is lost.
ProcessingHeld ==
    KeepsId => \A m \in Message : state[m] = "PROCESSING" => InCustody(m)

\* Two copies of a save job, or a job and its retry, never bring a message into
\* the buffers twice: the transition to PROCESSING admits one handler
\* ("중복", chat_state_machine.py:79-120; table_chat_messages has a unique id).
TakenOnce ==
    \A m \in Message :
        /\ \A p, q \in Process : \A i \in DOMAIN buffer[p], j \in DOMAIN buffer[q] :
             buffer[p][i] = m /\ buffer[q][j] = m => p = q /\ i = j
        /\ \A b, c \in Batcher : m \in batch[b] /\ m \in batch[c] => b = c
        /\ \A p \in Process, b \in Batcher : ~ (m \in BufferSet(p) /\ m \in batch[b])

\* A buffer never holds a full batch while its consumer waits for the next job:
\* the handler that fills it writes it (chat_persistence_consumer.py:412-415).
BufferBounded == \A p \in Process : Len(buffer[p]) < BatchSize

\* A message that its user deleted before it was processed is never saved: not
\* by a handler already running, not by a copy of its job, not after its state
\* key expired (smart_delete_message, chat_state_machine.py:291-299).
CancelledNeverStored == \A m \in cancelled : row[m] = "none" /\ ~ InCustody(m)

\* A message counts as sent, or as being deleted, only when its row was written,
\* also when the list handler restores an expired state.  (On shard 2 the row has another
\* id.)
SentIsStored == \A m \in Message : state[m] \in {"SENT", "DELETING"} => row[m] # "none"

LegalMove ==
    \A m \in Message : state'[m] # state[m] =>
        \/ state[m] = "none" /\ state'[m] \in {"COMPOSING", "SENT"}
        \/ state'[m] \in Successors(state[m])
        \/ expiries' = expiries + 1

\* Whoever moves a message, its state follows message_transitions; it appears as
\* COMPOSING, or as SENT from the database, and disappears only by expiry.
LifecycleRespected == [][LegalMove]_vars

\* Lost when another message of shard 2 has its id.
LostToAnother(m) == ~ KeepsId /\ state[m] = "PROCESSING" /\ ~ InCustody(m)

\* Every message waiting to be saved is saved, deleted or dead-lettered, or collides with
\* another one on shard 2.
EventuallySettled ==
    \A m \in Message :
        state[m] = "PENDING" ~>
            \/ state[m] \in {"SENT", "DELETING", "DELETED"}
            \/ m \in dlq
            \/ LostToAnother(m)

\* When a deletion was answered with success, the message is in the end not in the
\* database: it was cancelled before it was saved, or a job deletes its row
\* (on_chat_message_delete_req, chat_template_impl.py:712-766).  On shard 2, where no job
\* finds the row, the job is in the end dead-lettered: it does not go unnoticed.
DeleteTakesEffect ==
    \A c \in Client, m \in Message :
        cpc[c] = "done" /\ target[c] = m ~> row[m] # "stored" \/ (~ KeepsId /\ c \in dlq)
=============================================================================
