# Verification of the SKN12 base server

TLA+ models of `src/base_server`, the asynchronous FastAPI back end of an AI
trading adviser, with TLC configurations that model-check them on small
instances and TLAPS proofs that hold for every instance. All source paths below
are relative to `src/base_server/`.

The question throughout is what the coroutines and the server processes may do
to the state they share, in a process, in Redis and in MySQL, step by step, when
commands fail, replies are lost, processes die and keys expire.

## 1. Inventory

Every server process runs one asyncio event loop. Coroutines of a process
interleave at each `await`; processes meet only in Redis and MySQL.
`application/base_web_server/main.py` starts the services in order (database,
cache, lock, scheduler, queue, ...), registers the consumers and stops the
services again at shutdown. A service is a class with class-level state, reached
through `service/service_container.py`.

| component | state | operations | hard behaviour | what makes it correct |
|---|---|---|---|---|
| Distributed lock, `service/lock` | token under `lock:<key>` with a lifetime in Redis; `active_locks` in each process | acquire (poll `SET NX EX`), extend and release (Lua), the `acquire_lock` context manager, shutdown | expiry under a working owner, lost reply, crash, a dictionary shared by coroutines, shutdown | work under a key is exclusive within the lease; only the owner releases; no lock outlives its owner for ever |
| Message queue, `service/queue/message_queue.py` | message hashes, four priority lists, delayed set, partition lists, dead letters | enqueue, Lua dequeue, ack, nack, delayed processing, consumer loop and stop | several commands per operation, two processes moving delayed messages, failing handlers, cancellation | nothing accepted is lost, it is handled or dead-lettered in the end, not before its retries are used |
| Event queue, `service/queue/event_queue.py` | subscriptions of each process, one Redis list per subscriber | publish, subscribe, unsubscribe, the task of a subscription | subscriptions change while publish waits; several processes take from one list | what is published reaches everybody who was subscribed; a callback is not called after its end |
| Queue service, `service/queue/queue_service.py` | the consumers and tasks it started | send, publish, shutdown | order of shutdown | as the queues |
| Chat messages, `template/chat` | state of each message in Redis, buffer of each persistence consumer, rows | send (message and reply), delete, list; save and delete jobs; batch timer | request handler, consumer, batch and deletion race on one message; write-behind buffer in memory | a sent message is stored, a cancelled one never is, none is lost or saved twice |
| Chat rooms, `template/chat` | state of each room in Redis, list of rooms of a user, rows | create, delete, rename, list; their jobs | deletions overtake creations; state and row are written one after the other; states expire | state and row agree, a room is created once, a deletion ends |
| Conversation, `template/chat`, `service/llm` | rows, cached page `messages:<room>`, memory `chat:<room>` of the language model | send, list, delete a message, load history | lists fill a cache that turns and deletions change; history is added message by message | the model knows what the user saw; the list comes to agree with the rows |
| Scheduler, `service/scheduler` | job table with `next_run`, `run_count`, `enabled` | add, remove, loop, execute with or without lock | a due job is started each second until a run of it ends | runs keep their lock and their interval; no job stops being executed |
| Outbox, `service/outbox` | event rows in each shard, status, numbers of a partition | publish, consume, mark, clean up | crash between handler and mark; a lock that expires under a batch; repeated calls | an event is handled before it is marked, in order, once unless something failed |
| Server start and shutdown, `main.py`, `service/external` | services that are up, the master lock | start, election of the master, shutdown | services that fail half-way; a lock of 24 hours | one master, and one that works; a start and a shutdown end |
| WebSockets, `service/websocket` | connections, users and channels of a process | connect, subscribe, send, heartbeat, clean up | clients leave while a broadcast waits; handshakes overlap | limit, lists that agree, nobody skipped |
| Market data connection and signals, `service/external/iocp_websocket.py`, `service/signal` | event queue and connection, monitored symbols, alarms in the shards | connect, subscribe, receive, fall back to polling, synchronise with the alarms | connections replaced under a receive task, failing shards, a fallback during a subscription | one connection; alarms are followed |
| Redis client, database, `service/cache`, `service/db` | pools | one command or procedure each, repeated after a failure | a command whose reply is lost is sent twice | (part of the modules above) |
| Notifications, service monitor, other templates and clients | none that steps of several actors change | one procedure, one queue message or one external request each | none beyond I/O | - |

They interact through Redis (the lock, the queues, the caches and the state
machine each keep keys there), through the queue (`send_message` puts a job, a
consumer's handler gets it), through the lock (a handler holds `chat_...:<room>`
while it writes, the scheduler and the outbox hold one around a run), and through
rows (list handlers read what consumers wrote). `PROJECT.json` lists every
component with its status, and under `hazards` the lines where each of the hard
behaviours bites.

## 2. Modules

    LeaseLock    <- refined by -  DistributedLock    - LockSignalProofs
    MarketSocket <- extended by - SignalMonitoring   - LockSignalProofs
    Delivery     <- refined by -  MessageQueue       - MessageQueueProofs
                                  ChatMessage        - ChatMessageProofs
                                  ChatRoom           - ChatRoomProofs
                                  Scheduler          - SchedulerConversationProofs
                                  Conversation       - SchedulerConversationProofs
                                  WebSocket          - SocketOutboxProofs
                                  UniversalOutbox    - SocketOutboxProofs
                                  EventQueue         - EventQueueProofs
                                  WebServer          - WebServerProofs

A proof module with two names in it holds the proofs of two components that share
no variable; in one of the two, the usual names (`Init`, `Next`, `Spec`, `TypeOK`)
carry the component's: `SignalSpec`, `ConversationSpec`, `OutboxSpec`.

`MC...` modules hold the constants of the small instances and, where the product
of all hazards is too large, the restriction of the environment that section 3
describes. `ChatMessage`, `ChatRoom`, `Scheduler`, `UniversalOutbox` and
`WebServer` use the queue and the lock through what their abstract specifications
promise: a job is handed out again after a failure until its retries are used up, a
failure may hand it out twice, and a lock is held by one task and may expire. This
is where the modules meet; only the signal service and its connection, which share
one event loop, are composed in full.

**DistributedLock** (`distributed_lock.py`, `lock_service.py`). A task is a
coroutine; a command takes effect in one action and the coroutine resumes in
another, so that others run in between. `store` and `ttl` are Redis, `active` is
`active_locks`, `lease` is the time a coroutine may count on its lock. Actions:
`Enter`, `TryAcquire`, `AcquireReplyLost`, `GiveUp`, `Resume`, `Extend`, `Leave`,
`Release`, `ReleaseFails`, `Forget` (the `del` of the finally block),
`CloseBegin/One/End` (`force_release_all`), `Tick`, `Crash`. **LeaseLock** says
what callers rely on: per key, ownership goes from nobody to one task and back.

**MessageQueue** (`message_queue.py`, the sending side of `queue_service.py`). A
message lives in a hash (`data`, `retries`) and in a list, the delayed set, a
partition list (`parked`) or the dead letters. `EnqueueStore`/`EnqueuePush` are the
two commands of enqueue; `Dequeue` is the Lua script, atomic; `Fetch`,
`HandlerOk/Fails`, `Ack`, `NackCount`, `Requeue`, `NackBury`, `NackDelete` are the
consumer; `ReadDelayed`, `ReadHash`, `MoveToList`, `RemoveDelayed` a process that
moves delayed messages. Every server process runs one (`queue_service.py:147-176`), and nothing
keeps two from reading the same ids: the history variable `contested` remembers the messages
to which that happened, because they alone may be handled twice. `...Fails` and
`...ReplyLost` are the failures of a command, `Stop...` the graceful stop with its timeout.
The `mq:processing` keys are left out:
dequeue writes them, ack and nack delete them, and no code acts on them
(`cleanup_expired_processing_messages` scans for keys without the name-space
prefix and restores nothing). **Delivery** is the contract: at most
`MaxRetries + 1` attempts, success and giving up are final.

**EventQueue** (`event_queue.py`, its use by `queue_service.py`). A publication
iterates over the subscriptions of its process, waiting for Redis at each
(`Publish`, `Record`, `Push`, `PassOver`, `GiveUp` when the dictionary has changed its
size); a subscription's task asks for an event of the list of its subscriber, which
other processes may share, and calls back (`Ask`, `Take`, `Call`, `Rest`, `Quit`).
`PushAgain`, `TakeAgain` are replies that were lost.

**ChatMessage** (`chat_template_impl.py` send, delete and list;
`chat_state_machine.py`; `chat_persistence_consumer.py`). A request sends a message
and its reply: `Compose`, `QueueSave`, `Pend` for each part, `Reply` between. A
delete handler reads a state (`SmartRead`), compares and sets (`SmartCas`), and
queues the deletion of the row. The consumer (`Receive`, `TakeIn`, `Reread`,
`LoopBatchDone`, `SoftDelete`, `Ack`, `Nack`) fills `buffer`; a batch run, of the
consumer or of the timer, takes messages from it (`StartBatch`, `TimerBatch`), goes
through their rooms (`NextRoom`), takes the room lock (`Acquire`,
`AcquireTimeout` with `Drop`), saves and marks (`Save`, `SaveRaises`, `MarkSent`)
and releases. `ListRead`/`ListRestore` are the list handler that makes SENT what has no
state. All messages are of one shard, so each process has one buffer; `shard` is 1 or 2,
because the two procedures that save a message differ: on shard 2 the row gets an id of its
own (`db_scripts/chat_tables_extension.sql:562`), and a message is found by it, not by
the id it was sent with (`KeepsId`, `Found`, `MayCollide`).

**ChatRoom** (the same three files and `db_scripts/chat_tables_extension.sql`).
`Create`, `Cache`, `Pend`, `QueueCreate` are the create handler; `Mark`, `Uncache`,
`UncacheFails`, `QueueDelete` the delete handler; `QueueRename` the rename handler;
`ListRedis`, `ListRead`, `ListCheck`, `ListCache` the list handler from Redis and
from the database. The queue is two lists, because deletions have priority HIGH
and the rest NORMAL. A creation job goes through `CreateCheck` (PENDING to
PROCESSING), `CreateReread`, `Lock`, `Insert` or `InsertRaises`, `Move` (to
ACTIVE) or `Cleanup` (to DELETED); a deletion through `DeleteLook`, `Lock`,
`SoftDelete`, `Move`; a renaming through `Lock`, `Rename`. Any of them ends in `Ack` or
`Nack`. Every room is the only one of its user, since `_cache_chatbot_sessions_to_redis`
rewrites a user's list as a whole. A state expires only while nobody works on the
room: its lifetime is a day.

**Conversation** (`chat_template_impl.py` send, list and delete, `AIChat_service.py`
`load_chat_history` and `_full_answer`). The three copies of one room's messages:
`rows` (in the order of `created_at`, written by the queue, `Store` and `SoftDelete`),
`cache` with its lifetime, and `memory`. A turn puts its question in the memory and the queue, asks, adds the
answer and caches both; a list takes the cached page, or reads the rows and fills
the cache push by push, and loads an empty memory. The code adds a question and an
answer to the memory twice (`chat_template_impl.py:300` and `:365`,
`AIChat_service.py:261`); the memory is a set here. Lists ask for page 1, which is the
default; ids are those of shard 1.

**Scheduler** (`base_scheduler.py`, `scheduler_service.py`). A run is a coroutine of
`_execute_job`. `Poll` is one pass of the loop, every tick; `Begin`, `Acquire`,
`LockTimeout`, `CallbackOk/Raises`, `Unlock`, `End` a run, whose `finally` block computes
`next_run` (`Reschedule`). `due` counts the ticks to the next run.

**UniversalOutbox** (`universal_outbox_consumer.py`,
`db_scripts/create_universal_outbox.sql`). `Publish` numbers and inserts an event;
a consumer takes its lock, lists the shards, reads a batch of each (`Read`), handles
and marks each event (`Handle`, `Mark`, `MarkTwice` for a repeated call) and
releases. `NewStatus` is the procedure that counts retries.

**WebServer** (`main.py` `lifespan`, `external_service.py`,
`signal_monitoring_service.py` `init`). A server goes through `BootOrder`, each
service starting, failing or being tried again as the code does, with
`BecomeMaster`/`BecomeSlave` and `LetGo` for the lock, and closes in `StopOrder`. `Clear`
is the `FLUSHALL` of a start that is not PROD.

**WebSocket** (`websocket_service.py`, `websocket_client.py`). `ConnectClient` looks at
the limit and `Accepted` is the handshake's end; a broadcast copies who it is for
and waits at each send (`Broadcast`, `SendNext`, `SendReturns`, `SendLost`);
`Disconnect`, `PeerGoes`, `EndpointLeaves`, `CleanUp` and the shutdown take connections out.
In the repository only `start_background_tasks`, `broadcast_message` and `shutdown` of these
are called (`main.py:974`, `:1465`, `routers/chat.py:33`): the endpoint `/ws` accepts, reads and
answers by itself (`routers/websocket.py:38-196`). The module is about the service as its interface
and the endpoint in `service/websocket/README.md:743` mean it: connections, their
messages and their end go to `connect_client`, `handle_client_message` and `disconnect_client`.

**MarketSocket** (`iocp_websocket.py`) is the event queue of requests, the loop that
handles them, and a receive task for each connection. **SignalMonitoring**
(`signal_monitoring_service.py`, `korea_investment_websocket_iocp.py`) adds
the synchronisation with the alarms of the shards (`SyncReads`, `SyncEnds`), the subscription of a
symbol (`Call...`, for the US stocks among them, `UsStock`), the
fallback that a PINGPONG starts, the health monitor and the
stop. The contents of prices and signals are left out.

## 3. What TLC checks

Each run must finish without an error. `CHECK_DEADLOCK FALSE` in each: the bounds
end every behaviour, and a system without requests rests.

| run | instance | shows |
|---|---|---|
| `lock_safety` | 1 key, 3 coroutines (2 in one process, 1 in another), 2 acquisitions, lifetime 2, one failure, crash and shutdown | `ExclusiveWithinLease`, `ImplementsLease` (refinement), `AbandonedLockExpires` (liveness) |
| `queue_safety` | 3 messages of 2 priorities, one delayed, 2 consumers, 2 movers, 1 retry; no failure, or with 2 messages one failing command or lost reply or one cancelled consumer (both as long as no two movers met) | `NoLeftovers`, `OneLossEach`, `NeverBuriedEarly`, `PriorityRespected`, `ImplementsDelivery` (refinement), `EventuallySettled` (liveness) |
| `events` | 3 subscriptions in 2 processes, 2 of them on one Redis list, 2 events published in turn, one failure, lost reply or crash | `PublishedReaches`, `LateOnce`, `PublishedIsHandled` (liveness) |
| `chat_faults` | either shard, a message and its reply, one deletion, 2 processes, batches of 2, one each of failing command or copied job, late lock, crash, expiry | `TakenOnce`, `CancelledNeverStored`, `SentIsStored` |
| `chat_progress` | either shard, a message, its reply and a deletion, 2 processes, batches of 2, 1 retry, no failures | `ProcessingHeld`, `EventuallySettled`, `DeleteTakesEffect` (liveness) |
| `room_safety` | a room, 2 processes, 1 retry; a deletion and a renaming with one of, or a deletion with two of, a copied job, a failure or crash, and an expiry; or two deletions with a copied job or an expiry | `StateMatchesRow`, `DeletionEnds` (liveness) |
| `conversation` | after `FLUSHALL`: a turn that is in the rows and 2 new turns, 2 lists, pages of 3, 2 processes; one second turn, deletion, overlapping list or fault | `KnowsThePast`, `PageCatchesUp` (liveness) |
| `scheduler` | a job of any kind with or without a lock, 2 overlapping runs in one process and 1 in another, interval 2, day 2, lifetime 2, one failed lock command, crash, stop or removal | `IntervalRests`, `WorkKeepsItsLock`, `DailyOnceADay`, `JobKeepsRunning` (liveness) |
| `outbox_safety` | 2 events of one partition, one without a handler, 2 shards, 2 consumers, batches of 1, 2 retries, 2 faults of any kind | `PublishedWasHandled`, `TakenInOrder`, `HandledOnce`, `PickedUp` (liveness) |
| `server` | 2 servers, one started twice, one of which is not PROD; crashes anywhere; one failing service, Redis command or lost reply; the lock runs out at any time | `OneMaster`, `LockIsUsed`, `StartAndStopEnd` (liveness) |
| `websocket` | 2 websockets under one client id or two, a limit of 1, a channel, a call to a user or the channel beside the heartbeat, the shutdown | `LimitHeld`, `ListsAgree`, `NobodySkipped`, `HeartbeatReaches` (liveness) |
| `signals` | 2 US stocks and a Korean one, of which 2 have alarms, a call for each, 3 connections, one lost or failed, one changed alarm, one failing shard, one PINGPONG | `OneConnection`, `AlarmsAreFollowed`, `FallbackIsPolled` (liveness) |

*Bounds.* Two contenders are what the code's races need: the context manager's
dictionary needs two coroutines of a process and the lock a third elsewhere; a
batch of 2 with 2 messages is filled, left over and overtaken by the timer; two
priorities show every comparison of the Lua loop; two subscriptions in one
dictionary are passed over or counted twice; two connections meet in every list;
one failure of each kind at every place covers each error path. Retry limits of 1
or 2 stand for 3, because nothing but the comparison with the limit depends on it.

*Restrictions.* Eight MC modules restrict the environment, never a handler, so
that the instance shows every hazard but not every product of two:
`MCMessageQueue` has failures only in behaviours without the third message, and two of
them only as long as no message is contested; `MCChatRoom` begins the second deletion only
without failure and renaming; `MCSignalMonitoring` gives alarms to one symbol besides the one that
`init` subscribes;
`MCEventQueue` keeps the other process subscribed, publishes the second event
after the first, and lets one thing go wrong, before the second; `MCWebServer` has
a failing service or a failing Redis command; `MCConversation` has, beside one turn
and the lists, one extra thing; in `MCScheduler` things go wrong in one process,
and the other is only there for jobs with a lock; in `MCWebSocket` one peer sends
pings. What is restricted (requests, alarms, faults, starts, subscriptions) has no fairness in the
full specification, so that the behaviours are a subset of those of the full one.

*Fairness.* `Fairness` is weak fairness of each coroutine that has work (the event
loop resumes it), of timers and scheduled jobs, of Redis ending leases and
lifetimes, and of a handler's return. The synchronisation with the alarms
is one coroutine, so that its steps share one condition. A websocket send returns or fails, which
rests on the keepalive of uvicorn. There is none for users, failures, crashes and
expiries of what is in use, nor for a particular outcome of a handler, and none
that prefers one coroutine. A request handler that stops half-way is a behaviour
of `Spec`, not of `FairSpec`.

*Properties that hold only without failures* say so, in their formula or by the run's
bounds: `ProcessingHeld`, `EventuallySettled` and `DeleteTakesEffect` of the chat are
checked without failures; `NoLeftovers`, `PriorityRespected`, `ImplementsDelivery`,
`StateMatchesRow`, `DeletionEnds`, `LockIsUsed`, `PublishedIsHandled` and `PageCatchesUp`
name the absence of them, because a single one breaks them (section 5).
`NoLeftovers`, `PriorityRespected` and `ImplementsDelivery` also except the messages that
two movers had at once (`contested`), and no others; `OneLossEach`, `NeverBuriedEarly` and
`EventuallySettled` hold for these as well. `ProcessingHeld` is about shard 1, and the two chat
properties beside it say what happens on shard 2 instead. `DeletionEnds` has three parts: a deletion
that was answered makes the row inactive or is found among the dead letters; it does make it inactive
if it begins with an active row; and a room marked DELETING while its row is active gets DELETED.
`OneConnection` names the absence of a connection made too early and of a loss that one
event loop handles while another closes the connection (`untidy`), `OneMaster` that of a
lock that ran out, `PageCatchesUp` and `KnowsThePast` that of lists that overlap, and
`KnowsThePast` that of deletions in a history longer than a page (`HistoryOnly`).

*Type invariants.* Every module has its `TypeOK` (`OutboxTypeOK`, `SignalTypeOK`,
`ConversationTypeOK`), which is proved, so that no run repeats it.

*Mutants.* Each property has a mutant, an operator beside the one it replaces
(`SetWithoutNx`, `MayRetryOnceMore`, `KeepForever`, ...), a plausible mistake
that makes TLC report the property in the same run.

## 4. What is proved

The proof modules hold for every set of keys, tasks, messages, rooms, processes,
jobs, connections and subscriptions, every retry limit, lifetime and batch size, and any number of
failures unless the theorem says otherwise; they assume the `...Assumption` of the module. TLC evaluates those
assumptions in each run.

* **LockSignalProofs**, the lock: `TypeCorrect`, `Exclusive`, `OwnerReleases`, `Refines`.
  Exclusion is not inductive: a lease says nothing of Redis. `IInv` adds that tokens
  are generated once and belong to one task (`TokenInv`), and that while a lease
  runs, Redis holds the task's token with at least that lifetime left
  (`LeaseInv`); two running leases under a key would then be two tokens in it.
  `Refines` maps the owner to the task whose lease runs and shows that each step is a
  step of LeaseLock or stutters.
* **LockSignalProofs**, the signals: `SignalTypes`, `NoneLeftOpen`. What is open is the
  current websocket, because of `ConnInv`: a receive task that is not over is the
  latest one and reads the latest connection (`ReaderInv`); at most one event loop
  makes a connection, and then no connection, receive task or notice of a loss is
  left (`ConnectingInv`); and a notice that is queued is of a connection that is closed
  or being closed (`LossInv`), so that whoever handles it forgets nothing that is open.
* **MessageQueueProofs**: `TypeCorrect`, `BuriedLate`, `HashesKept`, `LossesAreCounted`;
  `NothingIsLeft`, `UrgentFirst`, `Refines`. A consumer buries
  a message because of the retry count of its own copy, so `CountInv` bounds every
  count, in a hash or in a copy, by the failures that happened, also when the
  count was read from a hash that a late nack revived; `SettledInv` says why a
  consumer that is about to delete a hash may.
  `LossesAreCounted` (`OneLossEach`) is the safety that holds in spite of everything: however
  many processes move delayed messages, and whatever fails, an accepted message that is not settled
  has its fields and a place in Redis or with a consumer, but for one for each failure or stop.
  `LossInv` counts the messages `AtRisk`, which are found only with a consumer told to stop or
  in the delayed set on their way out: `CalmSafe` says that a step puts a message at risk
  only if it fails or stops a consumer, and which message that is.
  The other three are about behaviours up to the first failure or stop, as their
  properties are, and hold for any number of movers. The invariant is stated message by message,
  because two movers that read the same id spoil the place of that message and of no other:
  `InPlace` says of each message that is not `contested` where its id is: in its list once
  (`OnceListed`), in the delayed set, in a partition list or in the hands of one consumer (`HandInv`),
  and in one of these only; with a hash as long as it is in one (`MessageInv`); with one mover at most
  that has read it, and then still in the delayed set (`MoverInv`); the retry count of what waits is
  the number of its failures. Every step leaves the other messages alone, so that `PlaceInv` is kept
  one message at a time, and each step of the queue is a step of Delivery, stutters, or is about a
  contested message. Of those each of the three is false (`message_queue.py:387`): the second
  mover pushes an id that the first has pushed, and a consumer perhaps settled; then it is handled twice,
  stands as a stale id before an urgent message, or a late nack writes a hash that nobody deletes.
* **ChatMessageProofs**: `TypeCorrect`, `Invariant`, `SentStored`, `NeverStored`,
  `Lifecycle`, `OnceTaken`, `BuffersStayShort`, `ProcessingIsHeld`. `Inv` says for each state where
  its message may be: not composed, it is nowhere; COMPOSING or PENDING, in no buffer
  and without a row; cancelled, nowhere for good. The transition to PROCESSING is the
  only way into a buffer, and compare-and-set lets one consumer take it; with the
  distinctness of buffers and batches (`OnceInv`) that gives `OnceTaken`.
  `ProcessingIsHeld` assumes that no command fails, no lock times out and no process
  dies, and is about shard 1, where no two messages collide.
  A batch drops a message whose row exists without marking it, so `HeldInv` adds that a
  PROCESSING message whose row is written is the one a batch is about to mark; by
  `OnceInv` no other batch can then be the one that drops it.
* **ChatRoomProofs**: `TypeCorrect`, `CreatedByOne`, `Lifecycle`, `StateAndRow`. `CreateInv` says that
  a room somebody creates has left PENDING and does not come back; it need not be
  PROCESSING, because a list handler whose read fails may make it ACTIVE. For
  `StateAndRow`, `RowInv` follows a room as long as nothing failed: while its state is PENDING,
  its creation job is queued or taken up, and while it is PROCESSING, a consumer works on it;
  in every later state its row exists, and a DELETED room's is inactive.
* **SchedulerConversationProofs**, the scheduler: `TypeCorrect`, `RestsAnInterval`,
  `OnceADay`, `LockIsKept`. For an INTERVAL job the ticks to come and those since the last end of a run make at least an
  interval (`Spaced`); for a DAILY one, the ticks to come reach its time of the day
  after the last end (`Dated`). `LockIsKept` is an action property: only expiry
  takes a lock from a working run, because a token belongs to one run.
* **SchedulerConversationProofs**, the conversation: `ConversationTypes`, `PastIsKnown`. What the user
  has seen is in the memory of the model (`SeenInv`), and what a turn owes the user was seen
  before it began. The step that shows a page needs `HistoryInv`: before the memory is
  loaded, the list that fills the empty cache has everything that can be
  listed (`FirstListInv`); afterwards all of it is in the memory (`LaterListInv`), and so
  is every page a list still holds.
* **EventQueueProofs**: `TypeCorrect`, `NobodyPassedOver`, `CalledOnceMore`. While the
  size of the dictionary is unchanged since the publication began, a subscription in
  `cover` that is not reached yet lies at or behind the place of the iterator (`Reaching`).
* **WebServerProofs**: `TypeCorrect`, `Invariant`, `OnlyOneMaster`, `HolderIsMaster`. Who
  was elected has the key until the lock ends (`Elected`), which makes two masters one;
  who has the key is being made the master or is it (`Used`).
* **SocketOutboxProofs**, WebSockets: `TypeCorrect`, `LimitKept`, `ListsMatch`, `NobodyIsSkipped`,
  `ShutdownIsComplete`. Their cardinalities change by one element per step; `Known` says
  that a connection under its handshake is in no list, and `Subscribed` that every
  channel a connection names has it, without which a broadcast would miss it.
* **SocketOutboxProofs**, the outbox: `OutboxTypes`, `PublishedHandled`, `InOrder`, `OnceUnlessFaults`.
  `OutboxInv` says that the numbers of a partition are distinct (`NumberInv`), that an event a
  consumer is about to mark was handled, and that those before an event of its batch are in the batch
  or were taken up before (`BatchInv`), also when two consumers work because a lock expired.
  `OnceUnlessFaults` counts: the successes of a handler so far, and those that
  may still come from consumers which read the event before it was marked, are one, if
  any at all, and one for each failure (`ClaimInv`).

`OwnerReleases`, `HashesKept`, both `Lifecycle`, `CreatedByOne`, `BuffersStayShort` and
`ShutdownIsComplete` prove definitions that no run repeats.

Every invariant and action property of the runs, and both refinements, are theorems. Only
model-checked: the liveness properties (`AbandonedLockExpires`, `DeletionEnds`, `JobKeepsRunning`,
`PickedUp`, `StartAndStopEnd`, `PublishedIsHandled`, both `EventuallySettled`,
`DeleteTakesEffect`, `HeartbeatReaches`, `AlarmsAreFollowed`, `FallbackIsPolled`,
`PageCatchesUp`), since TLAPS does not reason about fairness and ENABLED.

## 5. Where code and description part

All of this was seen while modelling; the models contain the behaviour, and the
properties above are stated so that they hold in spite of it.

*Lock, queue, chat.*

* The context manager deletes the dictionary entry of the next owner of its process,
  whose lock then stays until it expires (`distributed_lock.py:182`;
  `service/lock/README.md:105`, `:216`). `force_release_all` leaves locks taken with
  `LockService.acquire` (`:187`; `service/lock/README.md:25` says all are released).
* Nobody reads the partition lists (`message_queue.py:162`; `service/queue/README.md:34`,
  `queue_examples.py:142`): a message with a partition key is never handled.
  A cancelled consumer's message is in no list (`:646`; `:522` says it is restored), and two
  processes may move, and consumers handle, one delayed message twice (`:387`), without any failure. A
  late nack writes the retry count of a deleted message back (`:271`).
* A batch that gets no room lock drops its messages, which were acknowledged long
  ago (`chat_persistence_consumer.py:500`; `template/chat/README.md:118`). A save job is
  queued before its message is PENDING and may use up its retries
  (`chat_template_impl.py:327`; `template/chat/README.md:112`).
* On shard 2 `fp_chat_message_batch_save` ignores the id it is given and makes one of the time
  in milliseconds and the account (`db_scripts/chat_tables_extension.sql:562`; on shard 1, `:147`,
  it keeps it). A deletion by the id the message was sent with finds no row there, uses up its retries
  and is dead-lettered, after the user was told that it succeeded and without any failure; the row
  stays. Two messages of an account that are saved in one millisecond have the same id: the second
  insert fails and the message is lost.
* A deletion during PROCESSING asks for a transition the table does not list and is
  always refused (`chat_state_machine.py:303`); a failed reply stays COMPOSING
  (`chat_template_impl.py:360`); a deleted message stays DELETING
  (`chat_persistence_consumer.py:350`); two processes may save the messages of a room
  in the wrong order (`:117`).
* A deletion overtakes the creation of its room, uses up its retries and the room comes to
  life (`chat_template_impl.py:637`; the comment at `:646`). A creation that does not
  get its lock leaves the room PROCESSING, where every retry is refused
  (`chat_persistence_consumer.py:176`); a deletion whose Redis step fails leaves an
  active row under a DELETED state (`chat_template_impl.py:652`); a room deleted while
  its creation runs may end ACTIVE with an inactive row. And without a failure, a room stays DELETING
  for ever when an earlier deletion took its row before the room was ACTIVE, or ACTIVE again: the first
  finds no ACTIVE room to mark (`chat_template_impl.py:605`) but deletes the row; the creation, or a
  list that finds an expired state (`:91-98`), makes the room ACTIVE; the second marks it DELETING,
  and its job finds no active row and is dead-lettered (`chat_persistence_consumer.py:256-263`).

*Conversation.*

* The memory of the model survives the deletion of a message and of the room, and keeps
  the question of a turn that failed. Every question and answer is in it twice.
* History is loaded only into an empty memory (`AIChat_service.py:389`): a question
  that is sent before the room is listed, or a list that reads a half-filled cache,
  leaves the model without the older messages for good; two processes may load it twice.
* Also in a memory that was loaded once: if the history is longer than a page and a
  message of the page is deleted, the next list shows one that was behind the page, and the model
  is not given it, because its memory is not empty (`AIChat_service.py:389-398`). The
  attempt to prove `KnowsThePast` showed this; on the instance the history fits a page.
* A request has a `page` and no offset: page 1 of a room is its 50 oldest messages
  (`ORDER BY created_at ASC`), later ones are not shown. Another page is read only while the
  cache is empty (`chat_template_impl.py:491`, `:510`), and is then cached, and given to an empty memory,
  as if it were the first.
* After a deletion or an expiry, the next message starts a new cache that hides the
  older messages until its hour ends (`chat_template_impl.py:731` says the next list
  reads the rows). A list between the two steps of a deletion caches the deleted
  message again, for up to an hour; a failure between push and EXPIRE leaves a cache without a lifetime.

*Event queue.*

* The list of a subscriber_id is shared by all processes, so that an event may be
  taken by a callback subscribed for another type; a callback that fails is only
  counted; a list has no lifetime. A lost reply of LPOP loses an event, one of RPUSH
  doubles it. A subscription during a publication makes it fail after part of the
  subscribers have the event (`event_queue.py:163`).

*Scheduler, outbox.*

* A DAILY job with a lock runs once per waiting run and process on the same day; the lock
  only puts the runs one after the other (`service/scheduler/README.md:174`, `:263` say
  duplicates are prevented). A ONCE job that raises is tried again every second.
  `table_scheduler.py` drops the table of exactly 30 days ago, not all that are older
  (`:140`), and is registered by nothing.
* The dead-letter branch of the outbox is never reached
  (`universal_outbox_consumer.py:286`; `service/outbox/README.md:25`): an event with its retries
  used up stays as it is. Its cleanup of sequence numbers is never registered, as
  `ScheduleType.WEEKLY` does not exist (`:362`); the shard of an event is a hash that differs
  between processes (`:605`); the consumer is not started by `main.py`.

*Server.*

* A slave returns from `ExternalService.init` before `_initialized = True`
  (`external_service.py:37-54`), so that its other external calls raise and its HTTP
  clients are never closed; the log says only the Korea logic is off. The master lock is
  neither extended nor released at shutdown: after a stop there is no master for up to
  24 hours, and slaves do not ask again; after 24 hours a second one may appear.
* A server that is not PROD does `FLUSHALL` at each attempt at the database. The
  notification service is stopped after the queue, against the comment beside it; a failed
  start closes nothing, a raise of the core check is swallowed, and the middleware
  against timeouts is set up at import, when its service is not there yet
  (`main.py:1733`), and so never.

*WebSocket, market data, signals.*

* The endpoint `/ws` keeps its connections to itself (`routers/websocket.py:38-196`): nothing it accepts
  is known to `WebSocketService`, so that a broadcast (`routers/chat.py:33`) reaches nobody, and neither
  the limit nor the heartbeat applies to it (`service/websocket/README.md:743` hands it over).
* `disconnect` removes from the list it iterates over and skips every second channel
  (`service/websocket/README.md:40`, `:185`); the instance has one channel, the proofs
  cover any number. The limit is exceeded by handshakes that overlap (`:46`), a handshake
  that a shutdown overtakes stays (`:628`), and a client that never pings is never cleaned (`:45`).
* After a lost connection nothing connects again and nothing polls
  (`iocp_websocket.py:618`; `service/signal/README.md:31`, `:408`); the subscription of a
  symbol is marked done without a websocket; two calls that connect at once leave a
  connection open; so do two PINGPONGs: the first `stop()` ends `_running`, a waiting caller starts a
  second event loop beside the first, and one handles the loss of the
  connection, and forgets it, while the other waits to close it (`iocp_websocket.py:568-601`,
  `:618`; found by the proof of `OneConnection`); `_robust_subscribe` cannot
  fail; `unsubscribe_symbol` does not unsubscribe;
  `reset_fallback_mode` has no caller. Alarms for a symbol that is not one to five letters
  (`005930`, `BRK-B`) are accepted, but the symbol is neither monitored nor polled
  (`signal_monitoring_service.py:336-338`, `:415-419`). A failing shard unsubscribes its symbols until the
  next synchronisation. With five days that include the current price a signal of the Bollinger bands
  cannot occur (`signal_monitoring_service.py:1053-1109`).

## 6. Plan

Done, in this order because chat is what users see and rests on queue and lock:
lock, queue, chat messages, chat rooms; then the scheduler, outbox, WebSockets,
signals, the start of a server, the event queue and the conversation.

Each run asks a question of its own: one instance per module, with failures where
its liveness allows them, and a second one for the chat, whose progress holds only without.

Proofs next: with failures, and for contested messages, how often a message may be handled and buried; in
the other components, the same kind of count in place of properties that end at the first failure
(`StateMatchesRow`, `OneConnection`).

Not modelled, and why:

* *Request handlers* (`template/`, except chat), *dashboards, crawler, notifications,
  service monitor*: each calls one or a few stored procedures and formats an answer;
  no state is changed by several actors. These are the longest files, which is
  why the models cover a small share of all lines, those where several actors meet.
  (The crawler's execute request always fails, for want of its `task_id`; notifications pass an
  argument that does not exist; their persistence consumer fails on every message.)
* *Sessions* (`template_service.py`): two keys renewed one after the other, last write wins. The
  branch of duplicated logins is never taken, as `last_access_token` is always empty.
* *Language-model tools and the numerical code*, `KalmanRegimeFilterTool.py` the largest:
  arithmetic. Its saved state is one row read and written by a request; two at once lose an update.
* *Clients of external services* (search, storage, mail, SMS, vector database): I/O.
* *The transactional outbox of the queue service*: it uses a coroutine as a context
  manager and always returns False, so that no event gets into its table.
* *Front end and model server*: other programs.

MySQL is atomic per procedure, Redis per command and script. Time is a tick only
where a lifetime matters (lock, scheduler) and a free choice elsewhere.
