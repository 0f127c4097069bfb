--------------------------- MODULE DistributedLock ---------------------------
(***************************************************************************)
(* The Redis lock of service/lock: CacheServiceDistributedLock (acquire,   *)
(* release, extend), the context manager of DistributedLockManager with    *)
(* its dictionary active_locks, and LockService.shutdown.                  *)
(*                                                                         *)
(* A task is a coroutine.  Every await on Redis is a place where the event *)
(* loop runs other coroutines, so each handler is split there: the command *)
(* takes effect in Redis in one action and the coroutine resumes in        *)
(* another.  Tasks of one process share one active_locks; tasks of         *)
(* different processes share only Redis.                                   *)
(***************************************************************************)
EXTENDS Naturals

CONSTANTS
    Key,          \* lock keys
    Task,         \* coroutines that take locks
    Proc,         \* server processes
    NoTask,       \* nobody, in the abstract lease lock
    ProcOf,       \* the process each coroutine runs in
    Ttl,          \* lifetime EX gives a lock key, in clock ticks
    MaxTokens,    \* bound: calls of acquire in a behaviour
    MaxFaults,    \* bound: Redis calls that fail or whose reply is lost
    MaxCrashes,   \* bound: process crashes
    MaxCloses     \* bound: processes whose LockService is shut down

ASSUME LockAssumption ==
    /\ Key # {}
    /\ NoTask \notin Task
    /\ ProcOf \in [Task -> Proc]
    /\ Ttl \in Nat \ {0}
    /\ MaxTokens \in Nat
    /\ MaxFaults \in Nat
    /\ MaxCrashes \in Nat
    /\ MaxCloses \in Nat

VARIABLES
    store,    \* Redis: the token stored under each lock key
    ttl,      \* Redis: ticks until the key expires
    active,   \* active_locks of each process
    pstate,   \* LockService of each process: up, closing, closed
    closing,  \* entries force_release_all has still to release
    pc,       \* where each coroutine is
    want,     \* the key it asked for
    tok,      \* the token it generated
    managed,  \* TRUE in acquire_lock, FALSE in a direct LockService.acquire
    lease,    \* ticks for which the coroutine may count on its lock
    issued,   \* tokens generated so far
    faults, crashes, closes

redisVars == <<store, ttl>>
taskVars  == <<pc, want, tok, managed>>
procVars  == <<active, pstate, closing>>
counters  == <<issued, faults, crashes, closes>>
vars == <<store, ttl, active, pstate, closing, pc, want, tok, managed,
          lease, issued, faults, crashes, closes>>

NoToken == 0
Token   == 1..MaxTokens

\* The coroutine has been told, or is about to be told, that it has the lock.
Holding == {"acquired", "critical", "releasing"}
Phase   == Holding \cup {"idle", "acquiring", "released"}

RedisTypeOK ==
    /\ store \in [Key -> Token \cup {NoToken}]
    /\ ttl \in [Key -> 0..Ttl]

ProcTypeOK ==
    /\ active \in [Proc -> [Key -> Token \cup {NoToken}]]
    /\ pstate \in [Proc -> {"up", "closing", "closed"}]
    /\ closing \in [Proc -> SUBSET (Key \X Token)]

TaskTypeOK ==
    /\ pc \in [Task -> Phase]
    /\ want \in [Task -> Key]
    /\ tok \in [Task -> Token \cup {NoToken}]
    /\ managed \in [Task -> BOOLEAN]
    /\ lease \in [Task -> 0..Ttl]

CounterTypeOK ==
    /\ issued \in 0..MaxTokens
    /\ faults \in 0..MaxFaults
    /\ crashes \in 0..MaxCrashes
    /\ closes \in 0..MaxCloses

\* Every variable keeps its type.
TypeOK == RedisTypeOK /\ ProcTypeOK /\ TaskTypeOK /\ CounterTypeOK

Init ==
    /\ store = [k \in Key |-> NoToken]
    /\ ttl = [k \in Key |-> 0]
    /\ active = [p \in Proc |-> [k \in Key |-> NoToken]]
    /\ pstate = [p \in Proc |-> "up"]
    /\ closing = [p \in Proc |-> {}]
    /\ pc = [t \in Task |-> "idle"]
    /\ want = [t \in Task |-> CHOOSE k \in Key : TRUE]
    /\ tok = [t \in Task |-> NoToken]
    /\ managed = [t \in Task |-> FALSE]
    /\ lease = [t \in Task |-> 0]
    /\ issued = 0 /\ faults = 0 /\ crashes = 0 /\ closes = 0

-----------------------------------------------------------------------------
(* Redis commands                                                          *)

\* Mutants of SetNxEx: SET without NX, SET without EX.
SetWithoutNx(k, token) ==
    /\ store' = [store EXCEPT ![k] = token]
    /\ ttl' = [ttl EXCEPT ![k] = Ttl]

SetWithoutEx(k, token) ==
    /\ store[k] = NoToken
    /\ store' = [store EXCEPT ![k] = token]
    /\ UNCHANGED ttl

\* SET lock:key token EX ttl NX, where NX finds the key absent.
SetNxEx(k, token) ==
    /\ store[k] = NoToken
    /\ store' = [store EXCEPT ![k] = token]
    /\ ttl' = [ttl EXCEPT ![k] = Ttl]

\* The release script: DEL only if the stored token is the caller's.
CompareAndDelete(k, token) ==
    IF store[k] = token
      THEN /\ store' = [store EXCEPT ![k] = NoToken]
           /\ ttl' = [ttl EXCEPT ![k] = 0]
      ELSE UNCHANGED redisVars

-----------------------------------------------------------------------------
(* acquire                                                                 *)

\* A caller enters acquire_lock or LockService.acquire: a fresh uuid4 token.
Enter(t, k, m) ==
    /\ pc[t] = "idle"
    /\ pstate[ProcOf[t]] # "closed"
    /\ issued < MaxTokens
    /\ issued' = issued + 1
    /\ tok' = [tok EXCEPT ![t] = issued + 1]
    /\ want' = [want EXCEPT ![t] = k]
    /\ managed' = [managed EXCEPT ![t] = m]
    /\ pc' = [pc EXCEPT ![t] = "acquiring"]
    /\ UNCHANGED <<redisVars, procVars, lease, faults, crashes, closes>>

\* One turn of the polling loop finds the key free.
TryAcquire(t) ==
    /\ pc[t] = "acquiring"
    /\ SetNxEx(want[t], tok[t])
    /\ lease' = [lease EXCEPT ![t] = Ttl]
    /\ pc' = [pc EXCEPT ![t] = "acquired"]
    /\ UNCHANGED <<procVars, want, tok, managed, counters>>

\* SET takes effect but its reply is lost: the client's retry repeats SET NX,
\* which now finds the coroutine's own token and reports the lock as taken.
AcquireReplyLost(t) ==
    /\ pc[t] = "acquiring"
    /\ faults < MaxFaults
    /\ SetNxEx(want[t], tok[t])
    /\ faults' = faults + 1
    /\ UNCHANGED <<procVars, taskVars, lease, issued, crashes, closes>>

\* The coroutine is back in its caller; its local variables are gone.
Return(t) ==
    /\ pc' = [pc EXCEPT ![t] = "idle"]
    /\ tok' = [tok EXCEPT ![t] = NoToken]
    /\ managed' = [managed EXCEPT ![t] = FALSE]

\* The timeout passes or Redis fails: acquire returns None.
GiveUp(t) ==
    /\ pc[t] = "acquiring"
    /\ Return(t)
    /\ UNCHANGED <<redisVars, procVars, want, lease, counters>>

\* The coroutine resumes with its token; acquire_lock files it in active_locks
\* under the key, over whatever entry is there.
Resume(t) ==
    /\ pc[t] = "acquired"
    /\ pc' = [pc EXCEPT ![t] = "critical"]
    /\ active' = IF managed[t]
                   THEN [active EXCEPT ![ProcOf[t]][want[t]] = tok[t]]
                   ELSE active
    /\ UNCHANGED <<redisVars, pstate, closing, want, tok, managed, lease, counters>>

\* extend: EXPIRE if the stored token is still the caller's.
Extend(t) ==
    /\ pc[t] = "critical"
    /\ pstate[ProcOf[t]] # "closed"
    /\ store[want[t]] = tok[t]
    /\ ttl' = [ttl EXCEPT ![want[t]] = Ttl]
    /\ lease' = [lease EXCEPT ![t] = Ttl]
    /\ UNCHANGED <<store, procVars, taskVars, counters>>

-----------------------------------------------------------------------------
(* release                                                                 *)

\* The finally block releases only if the key is in active_locks; a direct
\* caller calls LockService.release, which raises once the service is closed.
WillRelease(t) ==
    IF managed[t]
      THEN active[ProcOf[t]][want[t]] # NoToken
      ELSE pstate[ProcOf[t]] # "closed"

\* The guarded code ends, normally or by an exception.
Leave(t) ==
    /\ pc[t] = "critical"
    /\ IF WillRelease(t)
         THEN /\ pc' = [pc EXCEPT ![t] = "releasing"]
              /\ UNCHANGED <<tok, managed, lease>>
         ELSE /\ Return(t)
              /\ lease' = [lease EXCEPT ![t] = 0]
    /\ UNCHANGED <<redisVars, procVars, want, counters>>

\* The release script runs in Redis.
Release(t) ==
    /\ pc[t] = "releasing"
    /\ CompareAndDelete(want[t], tok[t])
    /\ pc' = [pc EXCEPT ![t] = "released"]
    /\ lease' = [lease EXCEPT ![t] = 0]
    /\ UNCHANGED <<procVars, want, tok, managed, counters>>

\* The script never reaches Redis; release logs the error and returns False.
ReleaseFails(t) ==
    /\ pc[t] = "releasing"
    /\ faults < MaxFaults
    /\ faults' = faults + 1
    /\ pc' = [pc EXCEPT ![t] = "released"]
    /\ lease' = [lease EXCEPT ![t] = 0]
    /\ UNCHANGED <<redisVars, procVars, want, tok, managed, issued, crashes, closes>>

\* The coroutine resumes after release; acquire_lock does del active_locks[key],
\* whoever's entry that is by now (and raises KeyError if there is none).
Forget(t) ==
    /\ pc[t] = "released"
    /\ Return(t)
    /\ active' = IF managed[t]
                   THEN [active EXCEPT ![ProcOf[t]][want[t]] = NoToken]
                   ELSE active
    /\ UNCHANGED <<redisVars, pstate, closing, want, lease, counters>>

-----------------------------------------------------------------------------
(* LockService.shutdown, process failure and time                          *)

\* force_release_all takes a copy of the entries of active_locks.
CloseBegin(p) ==
    /\ pstate[p] = "up"
    /\ closes < MaxCloses
    /\ closes' = closes + 1
    /\ pstate' = [pstate EXCEPT ![p] = "closing"]
    /\ closing' = [closing EXCEPT ![p] =
                     {e \in Key \X Token : active[p][e[1]] = e[2]}]
    /\ UNCHANGED <<redisVars, taskVars, active, lease, issued, faults, crashes>>

\* It releases one of them; whoever works under that token has lost its lock.
CloseOne(p, e) ==
    /\ e \in closing[p]
    /\ CompareAndDelete(e[1], e[2])
    /\ closing' = [closing EXCEPT ![p] = @ \ {e}]
    /\ lease' = [t \in Task |-> IF tok[t] = e[2] THEN 0 ELSE lease[t]]
    /\ UNCHANGED <<taskVars, active, pstate, counters>>

\* It clears the dictionary and LockService drops its manager.
CloseEnd(p) ==
    /\ pstate[p] = "closing"
    /\ closing[p] = {}
    /\ pstate' = [pstate EXCEPT ![p] = "closed"]
    /\ active' = [active EXCEPT ![p] = [k \in Key |-> NoToken]]
    /\ UNCHANGED <<redisVars, taskVars, closing, lease, counters>>

\* The process dies and is started again: its coroutines and its active_locks
\* are gone, its keys stay in Redis.
Crash(p) ==
    /\ crashes < MaxCrashes
    /\ crashes' = crashes + 1
    /\ pstate' = [pstate EXCEPT ![p] = "up"]
    /\ closing' = [closing EXCEPT ![p] = {}]
    /\ active' = [active EXCEPT ![p] = [k \in Key |-> NoToken]]
    /\ pc' = [t \in Task |-> IF ProcOf[t] = p THEN "idle" ELSE pc[t]]
    /\ tok' = [t \in Task |-> IF ProcOf[t] = p THEN NoToken ELSE tok[t]]
    /\ managed' = [t \in Task |-> IF ProcOf[t] = p THEN FALSE ELSE managed[t]]
    /\ lease' = [t \in Task |-> IF ProcOf[t] = p THEN 0 ELSE lease[t]]
    /\ UNCHANGED <<redisVars, want, issued, faults, closes>>

Decrement(n) == IF n = 0 THEN 0 ELSE n - 1

\* Time passes; Redis deletes the keys whose lifetime ends.
Tick ==
    /\ \E k \in Key : ttl[k] > 0
    /\ ttl' = [k \in Key |-> Decrement(ttl[k])]
    /\ store' = [k \in Key |-> IF ttl[k] = 1 THEN NoToken ELSE store[k]]
    /\ lease' = [t \in Task |-> Decrement(lease[t])]
    /\ UNCHANGED <<procVars, taskVars, counters>>

-----------------------------------------------------------------------------
TaskStep(t) ==
    \/ \E k \in Key, m \in BOOLEAN : Enter(t, k, m)
    \/ TryAcquire(t) \/ AcquireReplyLost(t) \/ GiveUp(t)
    \/ Resume(t) \/ Extend(t) \/ Leave(t)
    \/ Release(t) \/ ReleaseFails(t) \/ Forget(t)

ProcStep(p) ==
    \/ CloseBegin(p) \/ CloseEnd(p) \/ Crash(p)
    \/ \E e \in Key \X Token : CloseOne(p, e)

Next ==
    \/ \E t \in Task : TaskStep(t)
    \/ \E p \in Proc : ProcStep(p)
    \/ Tick

Spec == Init /\ [][Next]_vars

\* The clock is the only thing nobody can stop.
FairSpec == Spec /\ WF_vars(Tick)

-----------------------------------------------------------------------------
(* Properties                                                              *)

\* The abstract lease: who may count on each key right now.
Owner(k) ==
    IF \E t \in Task : lease[t] > 0 /\ want[t] = k
      THEN CHOOSE t \in Task : lease[t] > 0 /\ want[t] = k
      ELSE NoTask

Lease == INSTANCE LeaseLock WITH owner <- [k \in Key |-> Owner(k)]

\* The Redis lock implements the abstract lease lock: per key, the right to work
\* goes from nobody to one coroutine and from a coroutine to nobody, never from
\* one coroutine to another (distributed_lock.py:43-107).
ImplementsLease == Lease!Spec

\* Two coroutines, of one process or of two, never work under the same key
\* while both are still within the lifetime of their lock (acquire and release,
\* distributed_lock.py:43-107).
ExclusiveWithinLease ==
    \A s, t \in Task :
        (s # t /\ lease[s] > 0 /\ lease[t] > 0) => want[s] # want[t]

\* A lock disappears from Redis because its time is up, or because a coroutine
\* or a shutdown that names its very token releases it: a late release never
\* deletes the lock of the next owner (Lua script, distributed_lock.py:86-93).
OnlyOwnerReleases ==
    [][\A k \in Key :
        (store[k] # NoToken /\ store'[k] # store[k]) =>
            \/ ttl[k] = 1 /\ store'[k] = NoToken
            \/ \E t \in Task : pc[t] = "releasing" /\ tok[t] = store[k]
            \/ \E p \in Proc : <<k, store[k]>> \in closing[p]]_vars

\* A lock whose owner is gone (crash, lost reply, failed release, a context
\* manager that forgot it) still ends: EX makes the key expire.
AbandonedLockExpires ==
    \A k \in Key, x \in Token :
        (store[k] = x /\ \A t \in Task : tok[t] # x) ~> (store[k] # x)
=============================================================================
