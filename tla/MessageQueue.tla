----------------------------- MODULE MessageQueue -----------------------------
(***************************************************************************)
(* The Redis message queue of service/queue/message_queue.py: enqueue, the *)
(* Lua dequeue, ack and nack, the delayed-message processor of every       *)
(* server process, and the consumer loop with its graceful stop.           *)
(*                                                                         *)
(* A message lives in several Redis keys: a hash with its fields, and its  *)
(* id in a list, a sorted set or a dead-letter list.  Only the Lua script  *)
(* is atomic; every other operation is a series of commands with an await  *)
(* between them, and is split there.                                       *)
(*                                                                         *)
(* The mq:processing keys are left out: dequeue writes them, ack and nack  *)
(* delete them, and nothing depends on them.  The code that should,        *)
(* cleanup_expired_processing_messages, scans a pattern without the        *)
(* namespace prefix of the keys and finds none (redis_cache_client.py:187),*)
(* so that it never restores a message; Stopped is all a shutdown leaves.  *)
(***************************************************************************)
EXTENDS Naturals, Sequences, FiniteSets

CONSTANTS
    Message,
    NoMessage,
    Worker,       \* MessageConsumer loops, of any process
    Mover,        \* processes that run process_delayed_messages
    Levels,       \* number of priorities; the highest is the most urgent
    PriorityOf,
    Delayed,      \* messages with a scheduled_at in the future
    Partitioned,  \* messages with a partition_key
    MaxRetries,   \* max_retries of every message
    MaxFaults,    \* bound: Redis commands that fail or whose reply is lost
    MaxStops      \* bound: consumers that are told to stop

Level == 1..Levels

ASSUME QueueAssumption ==
    /\ NoMessage \notin Message
    /\ Levels \in Nat \ {0}
    /\ PriorityOf \in [Message -> Level]
    /\ Delayed \subseteq Message
    /\ Partitioned \subseteq Message
    /\ MaxRetries \in Nat
    /\ MaxFaults \in Nat
    /\ MaxStops \in Nat

VARIABLES
    phase,      \* enqueue of each message: new, stored, sent, refused
    data,       \* its hash: none, full, or partial (fields missing)
    retries,    \* retry_count in that hash
    list,       \* mq:priority:<queue>:<level>
    delayed,    \* mq:delayed:messages
    due,        \* messages whose scheduled_at has come
    parked,     \* mq:partition lists; nothing takes from them
    dlq,        \* messages in mq:dlq
    wpc,        \* where each consumer is
    wmsg,       \* the message it holds
    wretry,     \* retry_count of its copy of the message
    running,    \* its running flag
    batch,      \* ids a mover has read from the sorted set and not yet treated
    mmsg,       \* the message a mover is moving
    mpc,        \* where it is with it: idle, pushing, removing
    contested,  \* history: messages that two movers had read at the same time
    oks, fails, \* handler runs of each message that succeeded and failed
    faults, stops

hashVars   == <<data, retries>>
placeVars  == <<list, delayed, due, parked, dlq>>
workerVars == <<wpc, wmsg, wretry, running>>
moverVars  == <<batch, mmsg, mpc, contested>>
tally      == <<oks, fails>>
budget     == <<faults, stops>>
vars == <<phase, data, retries, list, delayed, due, parked, dlq, wpc, wmsg,
          wretry, running, batch, mmsg, mpc, contested, oks, fails, faults, stops>>

ProducerTypeOK ==
    /\ phase \in [Message -> {"new", "stored", "sent", "refused"}]
    /\ data \in [Message -> {"none", "partial", "full"}]
    /\ retries \in [Message -> 0..MaxRetries]

PlaceTypeOK ==
    /\ list \in [Level -> Seq(Message)]
    /\ delayed \in SUBSET Message
    /\ due \in SUBSET Message
    /\ parked \in SUBSET Message
    /\ dlq \in SUBSET Message

WorkerPc == {"idle", "fetching", "handling", "acking", "nacking",
             "requeueing", "burying", "stopped"}

WorkerTypeOK ==
    /\ wpc \in [Worker -> WorkerPc]
    /\ wmsg \in [Worker -> Message \cup {NoMessage}]
    /\ wretry \in [Worker -> 0..MaxRetries]
    /\ running \in [Worker -> BOOLEAN]
    /\ \A w \in Worker : wmsg[w] = NoMessage <=> wpc[w] \in {"idle", "stopped"}

MoverTypeOK ==
    /\ batch \in [Mover -> SUBSET Message]
    /\ mmsg \in [Mover -> Message \cup {NoMessage}]
    /\ mpc \in [Mover -> {"idle", "pushing", "removing"}]
    /\ contested \in SUBSET Message
    /\ \A p \in Mover : mmsg[p] = NoMessage <=> mpc[p] = "idle"

TallyTypeOK ==
    /\ oks \in [Message -> Nat]
    /\ fails \in [Message -> Nat]
    /\ faults \in 0..MaxFaults
    /\ stops \in 0..MaxStops

\* Every variable keeps its type; a consumer holds a message exactly while it
\* works on one.
TypeOK == ProducerTypeOK /\ PlaceTypeOK /\ WorkerTypeOK /\ MoverTypeOK /\ TallyTypeOK

Init ==
    /\ phase = [m \in Message |-> "new"]
    /\ data = [m \in Message |-> "none"]
    /\ retries = [m \in Message |-> 0]
    /\ list = [q \in Level |-> <<>>]
    /\ delayed = {} /\ due = {} /\ parked = {} /\ dlq = {}
    /\ wpc = [w \in Worker |-> "idle"]
    /\ wmsg = [w \in Worker |-> NoMessage]
    /\ wretry = [w \in Worker |-> 0]
    /\ running = [w \in Worker |-> TRUE]
    /\ batch = [p \in Mover |-> {}]
    /\ mmsg = [p \in Mover |-> NoMessage]
    /\ mpc = [p \in Mover |-> "idle"]
    /\ contested = {}
    /\ oks = [m \in Message |-> 0]
    /\ fails = [m \in Message |-> 0]
    /\ faults = 0 /\ stops = 0

Fault == faults < MaxFaults /\ faults' = faults + 1

-----------------------------------------------------------------------------
(* enqueue                                                                 *)

\* RPUSH of a message to the list of its priority.
Push(m) == list' = [list EXCEPT ![PriorityOf[m]] = Append(@, m)]

\* RPUSH to the list of its partition, or of its priority.
Route(m) ==
    IF m \in Partitioned
      THEN parked' = parked \cup {m} /\ UNCHANGED list
      ELSE Push(m) /\ UNCHANGED parked

\* enqueue writes the hash.
EnqueueStore(m) ==
    /\ phase[m] = "new"
    /\ phase' = [phase EXCEPT ![m] = "stored"]
    /\ data' = [data EXCEPT ![m] = "full"]
    /\ UNCHANGED <<retries, placeVars, workerVars, moverVars, tally, budget>>

\* The writes fail, from the start or half way; set_hash_all swallows the error
\* and enqueue goes on.
EnqueueStoreFails(m) ==
    /\ phase[m] = "new"
    /\ Fault
    /\ phase' = [phase EXCEPT ![m] = "stored"]
    /\ \E d \in {"none", "partial"} : data' = [data EXCEPT ![m] = d]
    /\ UNCHANGED <<retries, placeVars, workerVars, moverVars, tally, stops>>

\* The id goes to the sorted set of delayed messages or to a list.
Place(m) ==
    IF m \in Delayed
      THEN delayed' = delayed \cup {m} /\ UNCHANGED <<list, parked>>
      ELSE Route(m) /\ UNCHANGED delayed

EnqueuePush(m) ==
    /\ phase[m] = "stored"
    /\ Place(m)
    /\ phase' = [phase EXCEPT ![m] = "sent"]
    /\ UNCHANGED <<hashVars, due, dlq, workerVars, moverVars, tally, budget>>

\* The push takes effect, its reply is lost, and the client pushes again.
EnqueueReplyLost(m) ==
    /\ phase[m] = "stored"
    /\ Fault
    /\ Place(m)
    /\ UNCHANGED <<phase, hashVars, due, dlq, workerVars, moverVars, tally, stops>>

\* The push fails for good: enqueue returns False and leaves the hash behind.
EnqueueFails(m) ==
    /\ phase[m] = "stored"
    /\ Fault
    /\ phase' = [phase EXCEPT ![m] = "refused"]
    /\ UNCHANGED <<hashVars, placeVars, workerVars, moverVars, tally, stops>>

-----------------------------------------------------------------------------
(* dequeue                                                                 *)

\* The head of the list names a message whose hash exists.
Live(q) == list[q] # <<>> /\ data[Head(list[q])] # "none"

\* Mutant of Serves: the priorities are walked from 1 to 4.
ServesLowest(q) == Live(q) /\ \A r \in Level : Live(r) => r >= q

\* The Lua script stops at this list.
Serves(q) == Live(q) /\ \A r \in Level : Live(r) => r <= q

\* Mutant of PopDownTo: the loop over the lists goes on after it has found an id.
PopEvery(q) == list' = [r \in Level |-> IF list[r] # <<>> THEN Tail(list[r]) ELSE list[r]]

\* It has popped one id from every list down to this one; the ids whose hash is
\* gone are dropped.
PopDownTo(q) ==
    list' = [r \in Level |-> IF r >= q /\ list[r] # <<>> THEN Tail(list[r])
                                                         ELSE list[r]]

\* A consumer's script returns an id.
Dequeue(w, q) ==
    /\ wpc[w] = "idle"
    /\ running[w]
    /\ Serves(q)
    /\ PopDownTo(q)
    /\ wpc' = [wpc EXCEPT ![w] = "fetching"]
    /\ wmsg' = [wmsg EXCEPT ![w] = Head(list[q])]
    /\ UNCHANGED <<phase, hashVars, delayed, due, parked, dlq, wretry, running,
                   moverVars, tally, budget>>

\* The script finds only ids whose hash is gone, and returns nil.
DequeueStale(w) ==
    /\ wpc[w] = "idle"
    /\ running[w]
    /\ \A q \in Level : ~ Live(q)
    /\ \E q \in Level : list[q] # <<>>
    /\ PopDownTo(1)
    /\ UNCHANGED <<phase, hashVars, delayed, due, parked, dlq, workerVars,
                   moverVars, tally, budget>>

\* The reply of the script is lost and the client runs it again: the message it
\* popped is in no list any more and nobody holds it.
DequeueReplyLost(w, q) ==
    /\ wpc[w] = "idle"
    /\ running[w]
    /\ Fault
    /\ Serves(q)
    /\ PopDownTo(q)
    /\ UNCHANGED <<phase, hashVars, delayed, due, parked, dlq, workerVars,
                   moverVars, tally, stops>>

\* The consumer has nothing in hand and polls again.
BackToLoop(w) ==
    /\ wpc' = [wpc EXCEPT ![w] = "idle"]
    /\ wmsg' = [wmsg EXCEPT ![w] = NoMessage]
    /\ wretry' = [wretry EXCEPT ![w] = 0]

\* dequeue reads the hash and builds its own copy of the message.
Fetch(w) ==
    /\ wpc[w] = "fetching"
    /\ data[wmsg[w]] = "full"
    /\ wpc' = [wpc EXCEPT ![w] = "handling"]
    /\ wretry' = [wretry EXCEPT ![w] = retries[wmsg[w]]]
    /\ UNCHANGED <<phase, hashVars, placeVars, wmsg, running, moverVars, tally, budget>>

\* The hash is gone, or fields are missing: dequeue returns None.
FetchNothing(w) ==
    /\ wpc[w] = "fetching"
    /\ data[wmsg[w]] # "full"
    /\ BackToLoop(w)
    /\ UNCHANGED <<phase, hashVars, placeVars, running, moverVars, tally, budget>>

-----------------------------------------------------------------------------
(* handler, ack and nack                                                   *)

\* The handler returns True.
HandlerOk(w) ==
    /\ wpc[w] = "handling"
    /\ wpc' = [wpc EXCEPT ![w] = "acking"]
    /\ oks' = [oks EXCEPT ![wmsg[w]] = @ + 1]
    /\ UNCHANGED <<phase, hashVars, placeVars, wmsg, wretry, running, moverVars,
                   fails, budget>>

\* The handler returns False or raises.
HandlerFails(w) ==
    /\ wpc[w] = "handling"
    /\ wpc' = [wpc EXCEPT ![w] = "nacking"]
    /\ fails' = [fails EXCEPT ![wmsg[w]] = @ + 1]
    /\ UNCHANGED <<phase, hashVars, placeVars, wmsg, wretry, running, moverVars,
                   oks, budget>>

\* Mutant of DeleteHash: the hash is left in Redis.
KeepHash(m) == UNCHANGED data

DeleteHash(m) == data' = [data EXCEPT ![m] = "none"]

\* ack deletes the hash.
Ack(w) ==
    /\ wpc[w] = "acking"
    /\ DeleteHash(wmsg[w])
    /\ BackToLoop(w)
    /\ UNCHANGED <<phase, retries, placeVars, running, moverVars, tally, budget>>

\* A mutant of MayRetry: the last retry is not granted.
MayRetryOnceLess(w) == wretry[w] + 1 < MaxRetries

MayRetry(w) == wretry[w] < MaxRetries

\* nack advances retry_count in the hash; HSET creates a hash that was deleted.
NackCount(w) ==
    /\ wpc[w] = "nacking"
    /\ MayRetry(w)
    /\ retries' = [retries EXCEPT ![wmsg[w]] = wretry[w] + 1]
    /\ data' = [data EXCEPT ![wmsg[w]] = IF @ = "none" THEN "partial" ELSE @]
    /\ wpc' = [wpc EXCEPT ![w] = "requeueing"]
    /\ UNCHANGED <<phase, placeVars, wmsg, wretry, running, moverVars, tally, budget>>

\* The HSET fails; set_hash_field swallows the error and nack goes on.
NackCountFails(w) ==
    /\ wpc[w] = "nacking"
    /\ MayRetry(w)
    /\ Fault
    /\ wpc' = [wpc EXCEPT ![w] = "requeueing"]
    /\ UNCHANGED <<phase, hashVars, placeVars, wmsg, wretry, running, moverVars,
                   tally, stops>>

\* It pushes the id to the end of the list of its priority.
Requeue(w) ==
    /\ wpc[w] = "requeueing"
    /\ Push(wmsg[w])
    /\ BackToLoop(w)
    /\ UNCHANGED <<phase, hashVars, delayed, due, parked, dlq, running, moverVars,
                   tally, budget>>

\* The reply of that push is lost; the client pushes again.
RequeueReplyLost(w) ==
    /\ wpc[w] = "requeueing"
    /\ Fault
    /\ Push(wmsg[w])
    /\ UNCHANGED <<phase, hashVars, delayed, due, parked, dlq, workerVars, moverVars,
                   tally, stops>>

DeadLetter(m) == dlq' = dlq \cup {m}

\* No retry is left: nack writes the dead-letter record ...
NackBury(w) ==
    /\ wpc[w] = "nacking"
    /\ ~ MayRetry(w)
    /\ DeadLetter(wmsg[w])
    /\ wpc' = [wpc EXCEPT ![w] = "burying"]
    /\ UNCHANGED <<phase, hashVars, list, delayed, due, parked, wmsg, wretry, running,
                   moverVars, tally, budget>>

\* ... and deletes the hash.
NackDelete(w) ==
    /\ wpc[w] = "burying"
    /\ DeleteHash(wmsg[w])
    /\ BackToLoop(w)
    /\ UNCHANGED <<phase, retries, placeVars, running, moverVars, tally, budget>>

\* A Redis command fails for good: _execute_redis_operation logs the error, the
\* rest of the operation is not done, and the loop goes on without the message.
OperationFails(w) ==
    /\ wpc[w] \in {"fetching", "acking", "nacking", "requeueing", "burying"}
    /\ Fault
    /\ BackToLoop(w)
    /\ UNCHANGED <<phase, hashVars, placeVars, running, moverVars, tally, stops>>

-----------------------------------------------------------------------------
(* stopping a consumer                                                     *)

\* graceful_stop clears the flag ...
StopBegin(w) ==
    /\ running[w]
    /\ stops < MaxStops
    /\ stops' = stops + 1
    /\ running' = [running EXCEPT ![w] = FALSE]
    /\ UNCHANGED <<phase, hashVars, placeVars, wpc, wmsg, wretry, moverVars, tally, faults>>

\* ... the loop sees it between two messages ...
StopNormally(w) ==
    /\ wpc[w] = "idle"
    /\ ~ running[w]
    /\ wpc' = [wpc EXCEPT ![w] = "stopped"]
    /\ UNCHANGED <<phase, hashVars, placeVars, wmsg, wretry, running, moverVars, tally, budget>>

\* ... or the timeout passes and the task is cancelled where it awaits, which
\* _consume_loop does not catch.  A crash of the process does the same.
StopByCancel(w) ==
    /\ ~ running[w]
    /\ wpc[w] \notin {"idle", "stopped"}
    /\ wpc' = [wpc EXCEPT ![w] = "stopped"]
    /\ wmsg' = [wmsg EXCEPT ![w] = NoMessage]
    /\ UNCHANGED <<phase, hashVars, placeVars, wretry, running, moverVars, tally, budget>>

-----------------------------------------------------------------------------
(* delayed messages                                                        *)

\* The time of a message comes.
ComeDue(m) ==
    /\ m \in Delayed \ due
    /\ due' = due \cup {m}
    /\ UNCHANGED <<phase, hashVars, list, delayed, parked, dlq, workerVars, moverVars,
                   tally, budget>>

\* The messages a mover has read and not yet done with.
Taken(p) == batch[p] \cup {m \in Message : mmsg[p] = m}

\* process_delayed_messages reads the ids that are due; nothing keeps it from
\* reading those that the mover of another process is at.
ReadDelayed(p) ==
    /\ mpc[p] = "idle"
    /\ batch[p] = {}
    /\ delayed \cap due # {}
    /\ batch' = [batch EXCEPT ![p] = delayed \cap due]
    /\ contested' = contested \cup
         {m \in delayed \cap due : \E r \in Mover \ {p} : m \in Taken(r)}
    /\ UNCHANGED <<phase, hashVars, placeVars, workerVars, mmsg, mpc, tally, budget>>

\* Mutant of NextMove: the id is removed from the set without a push.
OnlyRemove(m) == "removing"

\* A message is moved; an id whose hash is gone is only removed from the set.
NextMove(m) == IF data[m] = "full" THEN "pushing" ELSE "removing"

\* It reads the hash of the next one; one with missing fields raises and is
\* skipped.
ReadHash(p, m) ==
    /\ mpc[p] = "idle"
    /\ m \in batch[p]
    /\ batch' = [batch EXCEPT ![p] = @ \ {m}]
    /\ IF data[m] = "partial"
         THEN UNCHANGED <<mpc, mmsg>>
         ELSE /\ mpc' = [mpc EXCEPT ![p] = NextMove(m)]
              /\ mmsg' = [mmsg EXCEPT ![p] = m]
    /\ UNCHANGED <<phase, hashVars, placeVars, workerVars, contested, tally, budget>>

\* It pushes the id ...
MoveToList(p) ==
    /\ mpc[p] = "pushing"
    /\ Route(mmsg[p])
    /\ mpc' = [mpc EXCEPT ![p] = "removing"]
    /\ UNCHANGED <<phase, hashVars, delayed, due, dlq, workerVars, batch, mmsg, contested,
                   tally, budget>>

MoverDone(p) ==
    /\ mpc' = [mpc EXCEPT ![p] = "idle"]
    /\ mmsg' = [mmsg EXCEPT ![p] = NoMessage]

\* ... and then removes it from the set.
RemoveDelayed(p) ==
    /\ mpc[p] = "removing"
    /\ delayed' = delayed \ {mmsg[p]}
    /\ MoverDone(p)
    /\ UNCHANGED <<phase, hashVars, list, due, parked, dlq, workerVars, batch, contested,
                   tally, budget>>

\* A command fails: the exception is logged and the message left as it is.
MoverFails(p) ==
    /\ mpc[p] # "idle"
    /\ Fault
    /\ MoverDone(p)
    /\ UNCHANGED <<phase, hashVars, placeVars, workerVars, batch, contested, tally, stops>>

-----------------------------------------------------------------------------
ProducerStep(m) ==
    \/ EnqueueStore(m) \/ EnqueueStoreFails(m)
    \/ EnqueuePush(m) \/ EnqueueReplyLost(m) \/ EnqueueFails(m)
    \/ ComeDue(m)

\* What a consumer does by itself, without faults.
WorkerRuns(w) ==
    \/ \E q \in Level : Dequeue(w, q)
    \/ DequeueStale(w) \/ Fetch(w) \/ FetchNothing(w)
    \/ HandlerOk(w) \/ HandlerFails(w)
    \/ Ack(w) \/ NackCount(w) \/ Requeue(w) \/ NackBury(w) \/ NackDelete(w)

WorkerStep(w) ==
    \/ WorkerRuns(w)
    \/ \E q \in Level : DequeueReplyLost(w, q)
    \/ NackCountFails(w) \/ RequeueReplyLost(w) \/ OperationFails(w)
    \/ StopBegin(w) \/ StopNormally(w) \/ StopByCancel(w)

MoverRuns(p) ==
    \/ ReadDelayed(p) \/ MoveToList(p) \/ RemoveDelayed(p)
    \/ \E m \in Message : ReadHash(p, m)

Next ==
    \/ \E m \in Message : ProducerStep(m)
    \/ \E w \in Worker : WorkerStep(w)
    \/ \E p \in Mover : MoverRuns(p) \/ MoverFails(p)

Spec == Init /\ [][Next]_vars

\* The event loop runs every coroutine that can go on, handlers return, and time
\* passes.
Fairness ==
    /\ \A m \in Message : WF_vars(EnqueuePush(m)) /\ WF_vars(ComeDue(m))
    /\ \A w \in Worker : WF_vars(WorkerRuns(w))
    /\ \A p \in Mover : WF_vars(MoverRuns(p))

FairSpec == Spec /\ Fairness

-----------------------------------------------------------------------------
(* Properties                                                              *)

Listed(m) == \E q \in Level : \E i \in DOMAIN list[q] : list[q][i] = m
Held(m)   == \E w \in Worker : wmsg[w] = m

\* No Redis command has failed or lost its reply, and no consumer was told to
\* stop.
Unharmed == faults = 0 /\ stops = 0

\* Without failures, a consumer is given a message only while the lists of higher
\* priority are empty or begin with an id that two movers had read, whose hash may
\* be gone (Lua script, message_queue.py:90-113).
PriorityRespected ==
    [][\A w \in Worker, q, r \in Level :
        (Unharmed /\ Dequeue(w, q) /\ r > q) =>
            list[r] = <<>> \/ Head(list[r]) \in contested]_vars

\* Hashes carry no lifetime, so ack and nack must delete them: without failures,
\* once a message that no two movers had read is settled and no consumer has it,
\* Redis keeps none of its fields, and no list its id.
NoLeftovers ==
    Unharmed => \A m \in Message \ contested :
        (oks[m] > 0 \/ m \in dlq) /\ ~ Held(m) => data[m] = "none" /\ ~ Listed(m)

\* Whatever Redis commands fail, replies get lost, consumers are cancelled or
\* copies of an id circulate: a message is dead-lettered only after it really
\* failed once more than max_retries ("최대 재시도 초과 시 DLQ로 이동",
\* service/queue/README.md:33; nack, message_queue.py:272-297).
NeverBuriedEarly == \A m \in Message : m \in dlq => fails[m] > MaxRetries

\* The fields of a message are deleted only once a handler succeeded or its
\* dead-letter record is written, under the same failures.
DataKept ==
    [][\A m \in Message :
        (phase[m] # "new" /\ data[m] = "full" /\ data'[m] # "full") =>
            oks[m] > 0 \/ m \in dlq]_vars

\* An accepted message that is not settled and of which Redis and the consumers have
\* nothing, or not all fields.
Lost(m) ==
    /\ phase[m] = "sent" /\ oks[m] = 0 /\ m \notin dlq
    /\ \/ data[m] # "full"
       \/ m \notin delayed \cup parked /\ ~ Listed(m) /\ ~ Held(m)

\* A failed command, a lost reply, a crash or a stop of a consumer loses one message at most,
\* however many processes move delayed messages, and however many copies of an id
\* they make (message_queue.py:81-301, 387-424).
OneLossEach == Cardinality({m \in Message : Lost(m)}) <= faults + stops

\* The abstract status of a message.
Status(m) ==
    IF m \in dlq THEN "dead"
    ELSE IF oks[m] > 0 THEN "done"
    ELSE IF phase[m] = "sent" THEN "accepted"
    ELSE "new"

Contract == INSTANCE Delivery WITH
    status <- [m \in Message |-> Status(m)], failures <- fails

\* Nothing but the status and the failures of m changes.
OnlyOf(m) ==
    \A x \in Message \ {m} : Status(x)' = Status(x) /\ fails'[x] = fails[x]

\* Up to the first failure the queue implements Delivery for every message that no
\* two movers had read: it is handled at most MaxRetries + 1 times, succeeds at most
\* once, and is dead-lettered only after all its retries (nack,
\* message_queue.py:263-301).
ImplementsDelivery ==
    /\ Contract!Init
    /\ [][Unharmed' => Contract!Next \/ \E m \in contested : OnlyOf(m)
         ]_<<[m \in Message |-> Status(m)], fails>>

\* Every message that enqueue accepted is in the end handled or dead-lettered, also
\* when two movers had it, unless a command failed, a consumer was stopped, or it
\* has a partition key: nothing takes from the lists of partitions
\* (message_queue.py:162).  What is settled stays so.
EventuallySettled ==
    []<>(\A m \in Message \ Partitioned :
            phase[m] = "sent" => oks[m] > 0 \/ m \in dlq \/ ~ Unharmed)
=============================================================================
