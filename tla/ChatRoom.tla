------------------------------- MODULE ChatRoom -------------------------------
(***************************************************************************)
(* The life of a chat room: the create, delete, rename and list handlers   *)
(* of chat_template_impl.py, the room part of the Redis state machine, and *)
(* the room jobs that ChatPersistenceConsumer takes from the queue.        *)
(*                                                                         *)
(* A job is named by what it is for: the room to create, the deletion or   *)
(* the renaming.  Deletions are of priority HIGH and overtake the others.  *)
(* The lock of a job is held from its Lock step until its transition is    *)
(* made; its lifetime is longer than that.  Every room is the only one of  *)
(* its user.                                                               *)
(***************************************************************************)
EXTENDS Naturals, Sequences

CONSTANTS
    Room,
    Deleter,      \* on_chat_room_delete_req calls
    Updater,      \* on_chat_room_update_req calls
    Process,      \* server processes, each with one consumer of the queue
    RoomOf,       \* the room of a deletion or renaming
    NoOne,        \* no job, no title
    MaxRetries,   \* retries of a queue job (3)
    MaxCopies,    \* bound: jobs handed out twice
    MaxFaults,    \* bound: commands that fail, replies that are lost, processes that die
    MaxExpiries   \* bound: state keys whose lifetime ends

Job == Room \cup Deleter \cup Updater

ASSUME RoomAssumption ==
    /\ RoomOf \in [Deleter \cup Updater -> Room]
    /\ Room \cap Deleter = {} /\ Room \cap Updater = {} /\ Deleter \cap Updater = {}
    /\ NoOne \notin Job
    /\ MaxRetries \in Nat /\ MaxCopies \in Nat /\ MaxFaults \in Nat
    /\ MaxExpiries \in Nat

VARIABLES
    state,    \* room_state:<id> in Redis, "none" when the key is absent
    row,      \* the row in table_chat_rooms: none, active, inactive
    title,    \* who named the row last, NoOne for its first title
    listed,   \* the rooms in rooms:<account> in Redis
    page,     \* rooms a list handler has read from the database, or also looked up
    rpc,      \* where the create handler of each room is
    dpc,      \* where each delete handler is
    upc,      \* where each rename handler is
    high,     \* mq:priority:chat_persistence:high
    normal,   \* mq:priority:chat_persistence:normal
    dlq,      \* dead-lettered jobs
    tries,    \* retry_count of each job
    hpc,      \* where the consumer of each process is
    job,      \* the job it handles
    copies, faults, expiries

storeVars   == <<state, row, title, listed, page>>
requestVars == <<rpc, dpc, upc>>
queueVars   == <<high, normal, dlq, tries>>
loopVars    == <<hpc, job>>
bounds      == <<copies, faults, expiries>>
vars == <<storeVars, requestVars, queueVars, loopVars, bounds>>

-----------------------------------------------------------------------------
RoomState ==
    {"none", "CREATING", "PENDING", "PROCESSING", "ACTIVE", "DELETING", "DELETED"}

StoreTypeOK ==
    /\ state \in [Room -> RoomState]
    /\ row \in [Room -> {"none", "active", "inactive"}]
    /\ title \in [Room -> Updater \cup {NoOne}]
    /\ listed \subseteq Room
    /\ page \in [Room -> {"no", "read", "checked"}]

RequestTypeOK ==
    /\ rpc \in [Room -> {"create", "cache", "pend", "queue", "done", "failed"}]
    /\ dpc \in [Deleter -> {"mark", "uncache", "queue", "done", "failed"}]
    /\ upc \in [Updater -> {"queue", "done"}]

QueueTypeOK ==
    /\ high \in Seq(Deleter)
    /\ normal \in Seq(Room \cup Updater)
    /\ dlq \subseteq Job
    /\ tries \in [Job -> 0..MaxRetries]

LoopTypeOK ==
    /\ hpc \in [Process -> {"idle", "check", "reread", "look", "lock", "write", "move",
                            "cleanup", "ack", "nack"}]
    /\ job \in [Process -> Job \cup {NoOne}]
    /\ \A p \in Process : hpc[p] = "idle" <=> job[p] = NoOne
    /\ \A p \in Process : hpc[p] \in {"check", "reread", "cleanup"} => job[p] \in Room
    /\ \A p \in Process : hpc[p] = "look" => job[p] \in Deleter
    /\ \A p \in Process : hpc[p] = "move" => job[p] \in Room \cup Deleter

BoundsTypeOK ==
    /\ copies \in 0..MaxCopies /\ faults \in 0..MaxFaults
    /\ expiries \in 0..MaxExpiries

\* Every variable keeps its type, and a consumer is at a step of the job it holds.
TypeOK == StoreTypeOK /\ RequestTypeOK /\ QueueTypeOK /\ LoopTypeOK /\ BoundsTypeOK

Init ==
    /\ state = [g \in Room |-> "none"]
    /\ row = [g \in Room |-> "none"]
    /\ title = [g \in Room |-> NoOne]
    /\ listed = {}
    /\ page = [g \in Room |-> "no"]
    /\ rpc = [g \in Room |-> "create"]
    /\ dpc = [d \in Deleter |-> "mark"]
    /\ upc = [u \in Updater |-> "queue"]
    /\ high = <<>> /\ normal = <<>> /\ dlq = {}
    /\ tries = [j \in Job |-> 0]
    /\ hpc = [p \in Process |-> "idle"]
    /\ job = [p \in Process |-> NoOne]
    /\ copies = 0 /\ faults = 0 /\ expiries = 0

\* A Redis or database command fails, its reply is lost, or a process dies.
Fault ==
    /\ faults < MaxFaults
    /\ faults' = faults + 1
    /\ UNCHANGED <<copies, expiries>>

-----------------------------------------------------------------------------
(* The state machine: transition_room                                      *)

\* room_transitions
Successors(s) ==
    CASE s = "CREATING"   -> {"PENDING", "DELETED"}
      [] s = "PENDING"    -> {"PROCESSING", "DELETED"}
      [] s = "PROCESSING" -> {"ACTIVE", "DELETED"}
      [] s = "ACTIVE"     -> {"DELETING"}
      [] s = "DELETING"   -> {"DELETED"}
      [] OTHER            -> {}

\* A mutant of Permitted: the table has no entry for DELETING.
PermittedUntilDeleting(from, to) ==
    from = "none" \/ (from # "DELETING" /\ to \in Successors(from))

Permitted(from, to) == from = "none" \/ to \in Successors(from)

\* A mutant of Matches: the script sets without comparing.
Unconditionally(g, from) == TRUE

\* The Lua script compares and sets in one step.
Matches(g, from) == state[g] = from

CanMove(g, from, to) == Permitted(from, to) /\ Matches(g, from)

\* A caller that ignores the result.
TryMove(g, from, to) ==
    state' = IF CanMove(g, from, to) THEN [state EXCEPT ![g] = to] ELSE state

-----------------------------------------------------------------------------
(* on_chat_room_create_req                                                 *)

\* A fresh id and its first state; a failed transition is not noticed.
Create(g) ==
    /\ rpc[g] = "create"
    /\ rpc' = [rpc EXCEPT ![g] = "cache"]
    /\ \/ TryMove(g, "none", "CREATING") /\ UNCHANGED bounds
       \/ UNCHANGED state /\ Fault
    /\ UNCHANGED <<row, title, listed, page, dpc, upc, queueVars, loopVars>>

\* The room is written to Redis and joins its user's list; a failure is answered
\* with an error, after both are removed again if Redis allows it.
Cache(g) ==
    /\ rpc[g] = "cache"
    /\ \/ /\ listed' = listed \cup {g}
          /\ rpc' = [rpc EXCEPT ![g] = "pend"]
          /\ UNCHANGED bounds
       \/ /\ listed' \in {listed, listed \cup {g}}
          /\ rpc' = [rpc EXCEPT ![g] = "failed"]
          /\ Fault
    /\ UNCHANGED <<state, row, title, page, dpc, upc, queueVars, loopVars>>

Pend(g) ==
    /\ rpc[g] = "pend"
    /\ rpc' = [rpc EXCEPT ![g] = "queue"]
    /\ \/ TryMove(g, "CREATING", "PENDING") /\ UNCHANGED bounds
       \/ UNCHANGED state /\ Fault
    /\ UNCHANGED <<row, title, listed, page, dpc, upc, queueVars, loopVars>>

\* The creation is queued; the user has the room even if that fails.
QueueCreate(g) ==
    /\ rpc[g] = "queue"
    /\ rpc' = [rpc EXCEPT ![g] = "done"]
    /\ \/ normal' = Append(normal, g) /\ UNCHANGED bounds
       \/ UNCHANGED normal /\ Fault
    /\ UNCHANGED <<storeVars, dpc, upc, high, dlq, tries, loopVars>>

-----------------------------------------------------------------------------
(* on_chat_room_delete_req and on_chat_room_update_req                     *)

\* The user knows a room from the answer to its creation, or from a list.
Known(g) == rpc[g] = "done" \/ row[g] = "active"

\* An ACTIVE room becomes DELETING; in any other state nothing happens, and
\* nobody notices.
Mark(d) ==
    /\ dpc[d] = "mark"
    /\ Known(RoomOf[d])
    /\ dpc' = [dpc EXCEPT ![d] = "uncache"]
    /\ \/ TryMove(RoomOf[d], "ACTIVE", "DELETING") /\ UNCHANGED bounds
       \/ UNCHANGED state /\ Fault
    /\ UNCHANGED <<row, title, listed, page, rpc, upc, queueVars, loopVars>>

Uncache(d) ==
    /\ dpc[d] = "uncache"
    /\ listed' = listed \ {RoomOf[d]}
    /\ dpc' = [dpc EXCEPT ![d] = "queue"]
    /\ UNCHANGED <<state, row, title, page, rpc, upc, queueVars, loopVars, bounds>>

\* Redis fails: the handler makes the room DELETED, if it can, answers with an error
\* and queues nothing.
UncacheFails(d) ==
    /\ dpc[d] = "uncache"
    /\ Fault
    /\ TryMove(RoomOf[d], "DELETING", "DELETED") \/ UNCHANGED state
    /\ listed' \in {listed, listed \ {RoomOf[d]}}
    /\ dpc' = [dpc EXCEPT ![d] = "failed"]
    /\ UNCHANGED <<row, title, page, rpc, upc, queueVars, loopVars>>

\* The deletion is queued and answered with success.
QueueDelete(d) ==
    /\ dpc[d] = "queue"
    /\ dpc' = [dpc EXCEPT ![d] = "done"]
    /\ \/ high' = Append(high, d) /\ UNCHANGED bounds
       \/ UNCHANGED high /\ Fault
    /\ UNCHANGED <<storeVars, rpc, upc, normal, dlq, tries, loopVars>>

\* The new title is written to Redis and queued; an attempt that Redis refuses
\* changes nothing and is not a step.
QueueRename(u) ==
    /\ upc[u] = "queue"
    /\ Known(RoomOf[u])
    /\ upc' = [upc EXCEPT ![u] = "done"]
    /\ \/ normal' = Append(normal, u) /\ UNCHANGED bounds
       \/ UNCHANGED normal /\ Fault
    /\ UNCHANGED <<storeVars, rpc, dpc, high, dlq, tries, loopVars>>

-----------------------------------------------------------------------------
(* on_chat_room_list_req                                                   *)

\* No state is found: there is none, or the read fails.
FoundNoState(g) ==
    \/ state[g] = "none" /\ UNCHANGED bounds
    \/ state[g] # "none" /\ Fault

\* transition_room without a from-state starts from what it reads itself.
Restore(g) == TryMove(g, state[g], "ACTIVE")

\* A room in the user's list that seems to have no state counts as ACTIVE.
ListRedis(g) ==
    /\ g \in listed
    /\ FoundNoState(g)
    /\ Restore(g)
    /\ UNCHANGED <<row, title, listed, page, requestVars, queueVars, loopVars>>

\* Without rooms in Redis the handler reads the active rows ...
ListRead(g) ==
    /\ page[g] = "no"
    /\ row[g] = "active"
    /\ page' = [page EXCEPT ![g] = "read"]
    /\ UNCHANGED <<state, row, title, listed, requestVars, queueVars, loopVars, bounds>>

\* ... looks up their states: it drops what is being deleted, and makes ACTIVE
\* what seems to have no state ...
ListCheck(g) ==
    /\ page[g] = "read"
    /\ \/ /\ FoundNoState(g)
          /\ Restore(g)
          /\ page' = [page EXCEPT ![g] = "checked"]
       \/ /\ state[g] # "none"
          /\ page' = [page EXCEPT ![g] =
                        IF state[g] \in {"DELETING", "DELETED"} THEN "no" ELSE "checked"]
          /\ UNCHANGED <<state, bounds>>
    /\ UNCHANGED <<row, title, listed, requestVars, queueVars, loopVars>>

\* ... and writes the rest to Redis.
ListCache(g) ==
    /\ page[g] = "checked"
    /\ page' = [page EXCEPT ![g] = "no"]
    /\ listed' = listed \cup {g}
    /\ UNCHANGED <<state, row, title, requestVars, queueVars, loopVars, bounds>>

-----------------------------------------------------------------------------
(* The consumer of a process: handle_message                               *)

FirstStep(j) ==
    CASE j \in Room    -> "check"
      [] j \in Deleter -> "look"
      [] OTHER         -> "lock"

\* The list of the higher priority comes first.
FromHigh == high # <<>>

\* The consumer takes the first job; it may be handed out a second time.
Receive(p) ==
    LET list == IF FromHigh THEN high ELSE normal
    IN  /\ hpc[p] = "idle"
        /\ list # <<>>
        /\ job' = [job EXCEPT ![p] = Head(list)]
        /\ hpc' = [hpc EXCEPT ![p] = FirstStep(Head(list))]
        /\ \/ /\ high' = IF FromHigh THEN Tail(high) ELSE high
              /\ normal' = IF FromHigh THEN normal ELSE Tail(normal)
              /\ UNCHANGED bounds
           \/ /\ copies < MaxCopies
              /\ copies' = copies + 1
              /\ UNCHANGED <<high, normal, faults, expiries>>
        /\ UNCHANGED <<storeVars, requestVars, dlq, tries>>

Goto(p, step) == hpc' = [hpc EXCEPT ![p] = step]

\* _handle_room_create: only a PENDING room is created.
CreateCheck(p) ==
    /\ hpc[p] = "check"
    /\ \/ /\ TryMove(job[p], "PENDING", "PROCESSING")
          /\ Goto(p, IF CanMove(job[p], "PENDING", "PROCESSING") THEN "lock" ELSE "reread")
          /\ UNCHANGED bounds
       \/ (UNCHANGED state \/ TryMove(job[p], "PENDING", "PROCESSING"))
          /\ Goto(p, "reread") /\ Fault
    /\ UNCHANGED <<row, title, listed, page, requestVars, queueVars, job>>

\* An ACTIVE room was created before; anything else is a failure.
CreateReread(p) ==
    /\ hpc[p] = "reread"
    /\ \/ Goto(p, IF state[job[p]] = "ACTIVE" THEN "ack" ELSE "nack") /\ UNCHANGED bounds
       \/ Goto(p, "nack") /\ Fault
    /\ UNCHANGED <<storeVars, requestVars, queueVars, job>>

\* _handle_room_delete: a DELETED room needs nothing more.
DeleteLook(p) ==
    /\ hpc[p] = "look"
    /\ \/ /\ Goto(p, IF state[RoomOf[job[p]]] = "DELETED" THEN "ack" ELSE "lock")
          /\ UNCHANGED bounds
       \/ Goto(p, "lock") /\ Fault
    /\ UNCHANGED <<storeVars, requestVars, queueVars, job>>

Kind(j) == CASE j \in Room -> "create" [] j \in Deleter -> "delete" [] OTHER -> "update"
RoomOfJob(j) == IF j \in Room THEN j ELSE RoomOf[j]

\* chat_room_create:<id>, chat_room_delete:<id> or chat_room_update:<id>
SameLock(i, j) == Kind(i) = Kind(j) /\ RoomOfJob(i) = RoomOfJob(j)

Lock(p) ==
    /\ hpc[p] = "lock"
    /\ \A q \in Process : hpc[q] \in {"write", "move"} => ~ SameLock(job[q], job[p])
    /\ Goto(p, "write")
    /\ UNCHANGED <<storeVars, requestVars, queueVars, job, bounds>>

\* The lock is not obtained: the job is to be tried again.
LockFails(p) ==
    /\ hpc[p] = "lock"
    /\ Goto(p, "nack")
    /\ Fault
    /\ UNCHANGED <<storeVars, requestVars, queueVars, job>>

\* fp_chat_room_create: the row is inserted unless it exists.
Inserted(g) == IF row[g] = "none" THEN [row EXCEPT ![g] = "active"] ELSE row

Insert(p) ==
    /\ hpc[p] = "write"
    /\ job[p] \in Room
    /\ row' = Inserted(job[p])
    /\ Goto(p, "move")
    /\ UNCHANGED <<state, title, listed, page, requestVars, queueVars, job, bounds>>

\* It raises, before or after its commit.
InsertRaises(p) ==
    /\ hpc[p] = "write"
    /\ job[p] \in Room
    /\ row' \in {row, Inserted(job[p])}
    /\ Goto(p, "cleanup")
    /\ Fault
    /\ UNCHANGED <<state, title, listed, page, requestVars, queueVars, job>>

\* The lock is gone.  The data of the room leaves Redis (not its place in the list: the scan asks for
\* a key without the name space), and the room becomes DELETED.
Cleanup(p) ==
    /\ hpc[p] = "cleanup"
    /\ \/ TryMove(job[p], "PROCESSING", "DELETED") /\ UNCHANGED bounds
       \/ UNCHANGED state /\ Fault
    /\ Goto(p, "nack")
    /\ UNCHANGED <<row, title, listed, page, requestVars, queueVars, job>>

\* A mutant of SoftDeleted: nothing is committed.
NotCommitted(g) == row

SoftDeleted(g) == [row EXCEPT ![g] = "inactive"]

\* fp_chat_room_soft_delete: an active row becomes inactive, else it fails.
SoftDelete(p) ==
    LET g == RoomOf[job[p]]
    IN  /\ hpc[p] = "write"
        /\ job[p] \in Deleter
        /\ IF row[g] = "active"
             THEN row' = SoftDeleted(g) /\ Goto(p, "move")
             ELSE UNCHANGED row /\ Goto(p, "nack")
        /\ UNCHANGED <<state, title, listed, page, requestVars, queueVars, job, bounds>>

\* fp_chat_room_update_title: only an active row is renamed.
Rename(p) ==
    LET g == RoomOf[job[p]]
    IN  /\ hpc[p] = "write"
        /\ job[p] \in Updater
        /\ IF row[g] = "active"
             THEN title' = [title EXCEPT ![g] = job[p]] /\ Goto(p, "ack")
             ELSE UNCHANGED title /\ Goto(p, "nack")
        /\ UNCHANGED <<state, row, listed, page, requestVars, queueVars, job, bounds>>

\* A deletion or renaming raises.
WriteRaises(p) ==
    /\ hpc[p] = "write"
    /\ job[p] \notin Room
    /\ \/ UNCHANGED <<row, title>>
       \/ /\ job[p] \in Deleter /\ row[RoomOf[job[p]]] = "active"
          /\ row' = SoftDeleted(RoomOf[job[p]]) /\ UNCHANGED title
       \/ /\ job[p] \in Updater /\ row[RoomOf[job[p]]] = "active"
          /\ title' = [title EXCEPT ![RoomOf[job[p]]] = job[p]] /\ UNCHANGED row
    /\ Goto(p, "nack")
    /\ Fault
    /\ UNCHANGED <<state, listed, page, requestVars, queueVars, job>>

\* After the row, the state: PROCESSING to ACTIVE, or DELETING to DELETED.  The
\* job is done, whether or not the transition is made.
Move(p) ==
    /\ hpc[p] = "move"
    /\ \/ /\ IF job[p] \in Room
               THEN TryMove(job[p], "PROCESSING", "ACTIVE")
               ELSE TryMove(RoomOf[job[p]], "DELETING", "DELETED")
          /\ UNCHANGED bounds
       \/ UNCHANGED state /\ Fault
    /\ Goto(p, "ack")
    /\ UNCHANGED <<row, title, listed, page, requestVars, queueVars, job>>

Idle(p) ==
    /\ hpc' = [hpc EXCEPT ![p] = "idle"]
    /\ job' = [job EXCEPT ![p] = NoOne]

Ack(p) ==
    /\ hpc[p] = "ack"
    /\ Idle(p)
    /\ UNCHANGED <<storeVars, requestVars, queueVars, bounds>>

MayRetry(j) == tries[j] < MaxRetries

\* To the end of its list.
Requeue(j) ==
    IF j \in Deleter
      THEN high' = Append(high, j) /\ UNCHANGED normal
      ELSE normal' = Append(normal, j) /\ UNCHANGED high

\* A failed job is queued again until its retries are used up.
Nack(p) ==
    /\ hpc[p] = "nack"
    /\ IF MayRetry(job[p])
         THEN /\ tries' = [tries EXCEPT ![job[p]] = @ + 1]
              /\ Requeue(job[p])
              /\ UNCHANGED dlq
         ELSE dlq' = dlq \cup {job[p]} /\ UNCHANGED <<high, normal, tries>>
    /\ Idle(p)
    /\ UNCHANGED <<storeVars, requestVars, bounds>>

-----------------------------------------------------------------------------
(* The environment                                                         *)

\* The process dies with its job.
Crash(p) ==
    /\ hpc[p] # "idle"
    /\ Fault
    /\ Idle(p)
    /\ UNCHANGED <<storeVars, requestVars, queueVars>>

\* Nobody is in the middle of a step on g, and no job of it waits.
Quiet(g) ==
    /\ rpc[g] \in {"done", "failed"}
    /\ page[g] = "no"
    /\ \A d \in Deleter : RoomOf[d] = g => dpc[d] \in {"mark", "done", "failed"}
    /\ high = <<>> /\ normal = <<>>
    /\ \A p \in Process : hpc[p] = "idle"

\* The lifetime of a state key, a day or for a DELETED room a week, ends.
Expire(g) ==
    /\ state[g] # "none"
    /\ Quiet(g)
    /\ expiries < MaxExpiries
    /\ expiries' = expiries + 1
    /\ state' = [state EXCEPT ![g] = "none"]
    /\ UNCHANGED <<row, title, listed, page, requestVars, queueVars, loopVars, copies,
                   faults>>

-----------------------------------------------------------------------------
CreateRuns(g) == Create(g) \/ Cache(g) \/ Pend(g) \/ QueueCreate(g)
DeleteRuns(d) == Uncache(d) \/ UncacheFails(d) \/ QueueDelete(d)
ListRuns(g)   == ListCheck(g) \/ ListCache(g)

LoopRuns(p) ==
    \/ Receive(p) \/ CreateCheck(p) \/ CreateReread(p) \/ DeleteLook(p) \/ Lock(p)
    \/ Insert(p) \/ Cleanup(p) \/ SoftDelete(p) \/ Rename(p) \/ Move(p)
    \/ Ack(p) \/ Nack(p)

LoopFails(p) == LockFails(p) \/ InsertRaises(p) \/ WriteRaises(p) \/ Crash(p)

Next ==
    \/ \E g \in Room : CreateRuns(g) \/ ListRuns(g)
    \/ \E g \in Room : ListRedis(g) \/ ListRead(g) \/ Expire(g)
    \/ \E d \in Deleter : Mark(d) \/ DeleteRuns(d)
    \/ \E u \in Updater : QueueRename(u)
    \/ \E p \in Process : LoopRuns(p) \/ LoopFails(p)

Spec == Init /\ [][Next]_vars

\* The event loop runs every handler that has begun, and the consumers.
Fairness ==
    /\ \A g \in Room : WF_vars(CreateRuns(g)) /\ WF_vars(ListRuns(g))
    /\ \A d \in Deleter : WF_vars(DeleteRuns(d))
    /\ \A p \in Process : WF_vars(LoopRuns(p))

FairSpec == Spec /\ Fairness

-----------------------------------------------------------------------------
(* Properties                                                              *)

\* Nothing has failed yet: no command, no reply, no process.
NothingFailed == faults = 0

\* A room is created by one consumer at a time, even if its job was handed out twice
\* and whatever fails: the others find it no longer PENDING.
Creating(p) == job[p] \in Room /\ hpc[p] \in {"lock", "write", "move", "cleanup"}

OneCreates ==
    \A p, q \in Process : Creating(p) /\ Creating(q) /\ job[p] = job[q] => p = q

\* As long as nothing fails, state and row agree: an ACTIVE room has its row, also when
\* a list handler makes it ACTIVE after its state has expired, and the row of a DELETED
\* room is not active.
StateMatchesRow ==
    NothingFailed =>
        \A g \in Room :
            /\ state[g] = "ACTIVE" => row[g] # "none"
            /\ state[g] = "DELETED" => row[g] # "active"

\* A state changes as the transition table says; it appears for a new room or for
\* one that a list found without a state, and goes when it expires.
LegalMove ==
    \A g \in Room :
        \/ state'[g] = state[g]
        \/ state[g] = "none" /\ state'[g] \in {"CREATING", "ACTIVE"}
        \/ state'[g] = "none" /\ Quiet(g)
        \/ state'[g] \in Successors(state[g])

LifecycleRespected == [][LegalMove]_vars

\* Unless something fails, a deletion that is answered with success makes the row inactive
\* or is found among the dead jobs, however it overlaps with the creation, with another
\* deletion and with expiries.  It does make the row inactive if the room has one when the
\* deletion begins; and a room that becomes DELETING while its row is active gets DELETED.
\* (When an earlier deletion took the row before the room was ACTIVE, or ACTIVE again, the
\* room stays DELETING.)
DeletionEnds ==
    /\ \A d \in Deleter :
          (dpc[d] = "done") ~> (row[RoomOf[d]] = "inactive" \/ d \in dlq \/ ~ NothingFailed)
    /\ \A g \in Room :
          (row[g] = "active" /\ \E d \in Deleter : RoomOf[d] = g /\ dpc[d] = "uncache")
            ~> (row[g] = "inactive" \/ ~ NothingFailed)
    /\ \A g \in Room :
          (row[g] = "active" /\ state[g] = "DELETING") ~> (state[g] = "DELETED" \/ ~ NothingFailed)
=============================================================================
