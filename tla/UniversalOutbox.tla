--------------------------- MODULE UniversalOutbox ---------------------------
(***************************************************************************)
(* The universal outbox: publish_outbox_event, the consumers of            *)
(* service/outbox/universal_outbox_consumer.py, one per process, and the   *)
(* procedures of db_scripts/create_universal_outbox.sql that keep the      *)
(* events of each shard.                                                   *)
(*                                                                         *)
(* One domain is modelled: each has its own lock, its own consumer task    *)
(* and its own rows.  A procedure is atomic; a consumer is split at each   *)
(* call, so that publishers, cleaners and, once the lock of 30 seconds has *)
(* expired under a slow batch, a second consumer run in between.           *)
(***************************************************************************)
EXTENDS Naturals, FiniteSets

CONSTANTS
    Event,        \* events
    Consumer,     \* server processes with a consumer task
    NoConsumer,   \* nobody, as the owner of the lock
    Shard,        \* active shards
    ShardOf,      \* the shard each event is published to
    PartOf,       \* its partition key, a number in the order of the keys
    Registered,   \* events whose type has a handler
    Batch,        \* BATCH_SIZE
    MaxRetries,   \* max_retries of the rows
    MaxFaults     \* bound: calls that fail or are executed twice, crashes,
                  \* shutdowns, locks that expire under work

ASSUME OutboxAssumption ==
    /\ NoConsumer \notin Consumer
    /\ \A e \in Event : ShardOf[e] \in Shard
    /\ \A e \in Event : PartOf[e] \in Nat
    /\ Registered \subseteq Event
    /\ Batch \in Nat \ {0}
    /\ MaxRetries \in Nat \ {0}
    /\ MaxFaults \in Nat

VARIABLES
    row,       \* status of each event in universal_outbox, none or deleted
    seq,       \* its sequence_no
    lastSeq,   \* outbox_sequences: numbers given in each shard and partition
    retries,   \* its retry_count
    owner,     \* Redis: the consumer that holds the lock of the domain
    pc,        \* where each consumer is
    unvisited, \* shards it has still to visit
    batch,     \* events it has still to handle
    snap,      \* retry_count of the events as it read them
    handled,   \* how often the handler of each event succeeded
    tried,     \* events some consumer has taken up
    faults     \* failed and repeated calls, crashes, shutdowns, expiries

tableVars == <<row, seq, lastSeq, retries>>
ownVars   == <<unvisited, batch, snap>>
history   == <<handled, tried>>
outboxVars == <<row, seq, lastSeq, retries, owner, pc, unvisited, batch, snap,
                handled, tried, faults>>

Partition == {PartOf[e] : e \in Event}
Status == {"none", "pending", "published", "failed", "dead_letter", "deleted"}

\* A consumer has an event in its hands; it works under the lock of the domain.
Busy    == {"handle", "markPublished", "markFailed", "markRaised", "markRetry"}
Working == Busy \cup {"list", "read", "release", "stopping"}
Phase   == Working \cup {"idle", "stopped", "down"}

\* Every variable keeps its type.
OutboxTypeOK ==
    /\ row \in [Event -> Status]
    /\ seq \in [Event -> Nat]
    /\ lastSeq \in [Shard \X Partition -> Nat]
    /\ retries \in [Event -> Nat]
    /\ owner \in Consumer \cup {NoConsumer}
    /\ pc \in [Consumer -> Phase]
    /\ unvisited \in [Consumer -> SUBSET Shard]
    /\ batch \in [Consumer -> SUBSET Event]
    /\ \A c \in Consumer : pc[c] \in Busy <=> batch[c] # {}
    /\ snap \in [Consumer -> [Event -> Nat]]
    /\ handled \in [Event -> Nat]
    /\ tried \in SUBSET Event
    /\ faults \in 0..MaxFaults

OutboxInit ==
    /\ row = [e \in Event |-> "none"]
    /\ seq = [e \in Event |-> 0]
    /\ lastSeq = [k \in Shard \X Partition |-> 0]
    /\ retries = [e \in Event |-> 0]
    /\ owner = NoConsumer
    /\ pc = [c \in Consumer |-> "idle"]
    /\ unvisited = [c \in Consumer |-> {}]
    /\ batch = [c \in Consumer |-> {}]
    /\ snap = [c \in Consumer |-> [e \in Event |-> 0]]
    /\ handled = [e \in Event |-> 0]
    /\ tried = {}
    /\ faults = 0

-----------------------------------------------------------------------------
(* The table of a shard                                                    *)

PlaceOf(e) == <<ShardOf[e], PartOf[e]>>

\* fp_universal_outbox_publish: the next number of the partition and the row, in
\* one transaction.
Publish(e) ==
    /\ row[e] = "none"
    /\ row' = [row EXCEPT ![e] = "pending"]
    /\ lastSeq' = [lastSeq EXCEPT ![PlaceOf(e)] = @ + 1]
    /\ seq' = [seq EXCEPT ![e] = lastSeq[PlaceOf(e)] + 1]
    /\ UNCHANGED <<retries, owner, pc, ownVars, history, faults>>

\* Mutant of Visible: the status is not looked at.
NotGivenUp(s) ==
    {e \in Event : ShardOf[e] = s /\ row[e] \notin {"none", "deleted"}
                     /\ retries[e] < MaxRetries}

\* The rows fp_universal_outbox_get_pending selects from.
Visible(s) ==
    {e \in Event : ShardOf[e] = s /\ row[e] = "pending" /\ retries[e] < MaxRetries}

\* Mutant of Before: the latest event of a partition first.
NewestFirst(e, f) ==
    \/ PartOf[e] < PartOf[f]
    \/ PartOf[e] = PartOf[f] /\ seq[e] > seq[f]

\* ORDER BY partition_key, sequence_no.
Before(e, f) ==
    \/ PartOf[e] < PartOf[f]
    \/ PartOf[e] = PartOf[f] /\ seq[e] < seq[f]

\* Mutant of Limited: one event too few.
LimitedShort(E) == {e \in E : Cardinality({f \in E : Before(f, e)}) + 1 < Batch}

\* ... LIMIT Batch.
Limited(E) == {e \in E : Cardinality({f \in E : Before(f, e)}) < Batch}

\* fp_universal_outbox_update_status, executed times times: retry_count counts
\* the updates to failed.  An UPDATE of a deleted row changes nothing.
SetStatus(e, status, times) ==
    IF row[e] = "deleted" THEN UNCHANGED <<row, retries>>
    ELSE /\ row' = [row EXCEPT ![e] = status]
         /\ retries' = [retries EXCEPT ![e] = IF status = "failed" THEN @ + times ELSE @]

\* The daily jobs delete rows published 7 days ago, which no consumer works on
\* any more, and failed ones created 30 days ago, whenever they failed.
CleanupPublished(e) ==
    /\ row[e] = "published"
    /\ \A c \in Consumer : e \notin batch[c]
    /\ row' = [row EXCEPT ![e] = "deleted"]
    /\ UNCHANGED <<seq, lastSeq, retries, owner, pc, ownVars, history, faults>>

CleanupFailed(e) ==
    /\ row[e] \in {"failed", "dead_letter"}
    /\ row' = [row EXCEPT ![e] = "deleted"]
    /\ UNCHANGED <<seq, lastSeq, retries, owner, pc, ownVars, history, faults>>

-----------------------------------------------------------------------------
(* A consumer                                                              *)

Goto(c, phase) == pc' = [pc EXCEPT ![c] = phase]

Fault == faults < MaxFaults /\ faults' = faults + 1

\* LockService.acquire with a timeout of one second; without the lock the task
\* sleeps and tries again.
Lock(c) ==
    /\ pc[c] = "idle" /\ owner = NoConsumer
    /\ owner' = c
    /\ Goto(c, "list")
    /\ UNCHANGED <<tableVars, ownVars, history, faults>>

\* _get_active_shard_ids; when it fails there is nothing to visit.
ListShards(c) ==
    /\ pc[c] = "list"
    /\ unvisited' = [unvisited EXCEPT ![c] = Shard]
    /\ Goto(c, "read")
    /\ UNCHANGED <<tableVars, owner, batch, snap, history, faults>>

ListFails(c) ==
    /\ pc[c] = "list" /\ Fault
    /\ Goto(c, "release")
    /\ UNCHANGED <<tableVars, owner, ownVars, history>>

\* What follows when nothing of the current shard is left.
AfterShard(left) == IF left = {} THEN "release" ELSE "read"

\* The pending events of the next shard.
Read(c, s) ==
    /\ pc[c] = "read" /\ s \in unvisited[c]
    /\ unvisited' = [unvisited EXCEPT ![c] = @ \ {s}]
    /\ batch' = [batch EXCEPT ![c] = Limited(Visible(s))]
    /\ snap' = [snap EXCEPT ![c] =
                   [e \in Event |-> IF e \in Limited(Visible(s)) THEN retries[e] ELSE 0]]
    /\ Goto(c, IF Limited(Visible(s)) = {} THEN AfterShard(unvisited[c] \ {s})
                                           ELSE "handle")
    /\ UNCHANGED <<tableVars, owner, history, faults>>

ReadFails(c, s) ==
    /\ pc[c] = "read" /\ s \in unvisited[c] /\ Fault
    /\ unvisited' = [unvisited EXCEPT ![c] = @ \ {s}]
    /\ Goto(c, AfterShard(unvisited[c] \ {s}))
    /\ UNCHANGED <<tableVars, owner, batch, snap, history>>

\* The event a consumer is at: the first of its batch.
Current(c, e) ==
    /\ e \in batch[c]
    /\ \A f \in batch[c] : ~ Before(f, e)

\* Mutant of Handle's outcomes: what was not handled counts as published.
PublishedAnyway == [ok |-> "markPublished", no |-> "markPublished",
                    raised |-> "markRaised"]

\* What _process_single_event does after the handler returned or raised.
Outcome == [ok |-> "markPublished", no |-> "markFailed", raised |-> "markRaised"]

\* The handler returns TRUE or FALSE, or raises.
Handle(c, e) ==
    /\ pc[c] = "handle" /\ Current(c, e)
    /\ e \in Registered
    /\ tried' = tried \cup {e}
    /\ \E result \in DOMAIN Outcome :
        /\ Goto(c, Outcome[result])
        /\ handled' = [handled EXCEPT ![e] = IF result = "ok" THEN @ + 1 ELSE @]
    /\ UNCHANGED <<tableVars, owner, ownVars, faults>>

\* An event without a handler is skipped and marked as published.
Skip(c, e) ==
    /\ pc[c] = "handle" /\ Current(c, e)
    /\ e \notin Registered
    /\ tried' = tried \cup {e}
    /\ Goto(c, "markPublished")
    /\ UNCHANGED <<tableVars, owner, ownVars, handled, faults>>

\* The consumer is through with its event.
Done(c, e) ==
    /\ snap' = [snap EXCEPT ![c][e] = 0]
    /\ batch' = [batch EXCEPT ![c] = @ \ {e}]
    /\ Goto(c, IF batch[c] # {e} THEN "handle" ELSE AfterShard(unvisited[c]))

\* What follows the mark of each phase: an exception is marked twice, as failed
\* and then, by the caller, for its retry.
AfterMark(c, e) ==
    IF pc[c] = "markRaised"
      THEN Goto(c, "markRetry") /\ UNCHANGED <<batch, snap>>
      ELSE Done(c, e)

\* Mutant of RetryStatus: the status that only outbox_pattern.py knows.
OtherRetryStatus(c, e) == IF snap[c][e] < MaxRetries THEN "retry" ELSE "dead_letter"

\* _mark_event_failed decides by the count it read before the handler ran.
RetryStatus(c, e) == IF snap[c][e] < MaxRetries THEN "pending" ELSE "dead_letter"

NewStatus(c, e) ==
    CASE pc[c] = "markPublished" -> "published"
      [] pc[c] \in {"markFailed", "markRaised"} -> "failed"
      [] pc[c] = "markRetry" -> RetryStatus(c, e)

Marking(c, e) == pc[c] \in Busy \ {"handle"} /\ Current(c, e)

Mark(c, e) ==
    /\ Marking(c, e)
    /\ SetStatus(e, NewStatus(c, e), 1)
    /\ AfterMark(c, e)
    /\ UNCHANGED <<seq, lastSeq, owner, unvisited, history, faults>>

\* The call fails, which the marking functions swallow.
MarkFails(c, e) ==
    /\ Marking(c, e) /\ Fault
    /\ AfterMark(c, e)
    /\ UNCHANGED <<tableVars, owner, unvisited, history>>

\* The connection breaks after the commit: the client reconnects and calls again.
MarkTwice(c, e) ==
    /\ Marking(c, e) /\ Fault
    /\ SetStatus(e, NewStatus(c, e), 2)
    /\ AfterMark(c, e)
    /\ UNCHANGED <<seq, lastSeq, owner, unvisited, history>>

\* The finally block: compare-and-delete.
Released(c) == owner' = IF owner = c THEN NoConsumer ELSE owner

Release(c) ==
    /\ pc[c] \in {"release", "stopping"}
    /\ Released(c)
    /\ Goto(c, IF pc[c] = "release" THEN "idle" ELSE "stopped")
    /\ UNCHANGED <<tableVars, ownVars, history, faults>>

ReleaseFails(c) ==
    /\ pc[c] \in {"release", "stopping"} /\ Fault
    /\ Goto(c, IF pc[c] = "release" THEN "idle" ELSE "stopped")
    /\ UNCHANGED <<tableVars, owner, ownVars, history>>

\* shutdown cancels the task at whichever call it waits for.
Stop(c) ==
    /\ pc[c] \notin {"stopping", "stopped", "down"} /\ Fault
    /\ Goto(c, IF pc[c] = "idle" THEN "stopped" ELSE "stopping")
    /\ unvisited' = [unvisited EXCEPT ![c] = {}]
    /\ batch' = [batch EXCEPT ![c] = {}]
    /\ snap' = [snap EXCEPT ![c] = [e \in Event |-> 0]]
    /\ UNCHANGED <<tableVars, owner, history>>

Crash(c) ==
    /\ pc[c] \notin {"stopped", "down"} /\ Fault
    /\ Goto(c, "down")
    /\ unvisited' = [unvisited EXCEPT ![c] = {}]
    /\ batch' = [batch EXCEPT ![c] = {}]
    /\ snap' = [snap EXCEPT ![c] = [e \in Event |-> 0]]
    /\ UNCHANGED <<tableVars, owner, history>>

Restart(c) ==
    /\ pc[c] = "down"
    /\ Goto(c, "idle")
    /\ UNCHANGED <<tableVars, owner, ownVars, history, faults>>

\* The lock of a consumer that has gone expires, and so may that of a slow one.
ExpireAbandoned ==
    /\ owner # NoConsumer /\ pc[owner] \notin Working
    /\ owner' = NoConsumer
    /\ UNCHANGED <<tableVars, pc, ownVars, history, faults>>

ExpireUnderWork ==
    /\ owner # NoConsumer /\ pc[owner] \in Working /\ Fault
    /\ owner' = NoConsumer
    /\ UNCHANGED <<tableVars, pc, ownVars, history>>

-----------------------------------------------------------------------------
ConsumerStep(c) ==
    \/ Lock(c) \/ ListShards(c) \/ Release(c)
    \/ \E s \in Shard : Read(c, s)
    \/ \E e \in Event : Handle(c, e) \/ Skip(c, e) \/ Mark(c, e)

ConsumerFault(c) ==
    \/ ListFails(c) \/ ReleaseFails(c) \/ Stop(c) \/ Crash(c) \/ Restart(c)
    \/ \E s \in Shard : ReadFails(c, s)
    \/ \E e \in Event : MarkFails(c, e) \/ MarkTwice(c, e)

OutboxNext ==
    \/ \E e \in Event : Publish(e) \/ CleanupPublished(e) \/ CleanupFailed(e)
    \/ \E c \in Consumer : ConsumerStep(c) \/ ConsumerFault(c)
    \/ ExpireAbandoned \/ ExpireUnderWork

OutboxSpec == OutboxInit /\ [][OutboxNext]_outboxVars

\* The event loop resumes each consumer, also between two steps of another, and
\* an abandoned lock expires.
OutboxFairness ==
    /\ \A c \in Consumer : WF_outboxVars(ConsumerStep(c))
    /\ WF_outboxVars(ExpireAbandoned)

FairOutboxSpec == OutboxSpec /\ OutboxFairness

-----------------------------------------------------------------------------
(* Properties                                                              *)

\* An event with a handler is marked published only when a handler run of it
\* succeeded, whichever consumers, crashes, lost and repeated calls came between
\* (_process_single_event, universal_outbox_consumer.py:207-242).
PublishedWasHandled ==
    \A e \in Registered : row[e] = "published" => handled[e] > 0

\* The events of a partition in a shard are taken up in the order of their
\* numbers: none is tried before all earlier ones have been, also when two
\* consumers work at the same time on different views of the table
\* (create_universal_outbox.sql:150-160).
TakenInOrder ==
    \A e, f \in Event :
        ( PlaceOf(e) = PlaceOf(f) /\ 0 < seq[e] /\ seq[e] < seq[f] /\ f \in tried )
            => e \in tried

\* Every success of a handler beyond the first costs a failed call, a crash, a
\* shutdown or a lock that expired under work: otherwise an event is handled once
\* (distributed lock "to prevent double processing", universal_outbox_consumer.py:132).
HandledOnce ==
    \A e \in Event : handled[e] <= 1 + faults

\* A pending event is tried in the end and published, set aside as failed, or left
\* with its retries used up, as long as some consumer goes on running.
PickedUp ==
    \A e \in Event :
        row[e] = "pending" ~>
            \/ row[e] # "pending"
            \/ retries[e] >= MaxRetries
            \/ \A c \in Consumer : pc[c] \in {"stopped", "down"}
=============================================================================
