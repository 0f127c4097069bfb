------------------------------ MODULE Scheduler ------------------------------
(***************************************************************************)
(* The scheduler of service/scheduler (base_scheduler.py and the service   *)
(* around it): in each server process a loop that wakes up every second    *)
(* and starts the jobs that are due, and the coroutines that execute them, *)
(* with or without a distributed lock.                                     *)
(*                                                                         *)
(* A run is a coroutine of _execute_job.  The loop does not wait for it    *)
(* and does not mark the job, whose next_run changes only when a run of it *)
(* ends: a job may have several runs at a time.  The lock is used through  *)
(* what LeaseLock promises, with its lifetime and with active_locks, the   *)
(* dictionary that the runs of one process share.                          *)
(*                                                                         *)
(* A tick is a second.  next_run is kept as the ticks until it; a time     *)
(* that has come stays 0.  Every process registers the same jobs.          *)
(***************************************************************************)
EXTENDS Integers

CONSTANTS
    Job,          \* jobs, each with a lock key of its own
    Proc,         \* server processes
    NoRun,        \* nobody, as the owner of a lock
    MaxOverlap,   \* bound: runs of one job at a time in each process
    Interval,     \* schedule_value of INTERVAL jobs
    Daily,        \* schedule_value of DAILY jobs, a second of the day
    Day,          \* seconds of a day
    Delay,        \* seconds until the schedule_value of ONCE jobs
    LockTtl,      \* lock_ttl
    LockWait,     \* timeout of acquire_lock
    MaxEvents     \* bound: failed lock commands, crashes, stops and removed jobs

ASSUME SchedulerAssumption ==
    /\ MaxOverlap \in [Proc -> Nat]
    /\ Interval \in Nat \ {0}
    /\ Day \in Nat \ {0}
    /\ Daily \in 0..(Day - 1)
    /\ Delay \in Nat
    /\ LockTtl \in Nat \ {0}
    /\ LockWait \in Nat
    /\ MaxEvents \in Nat
    /\ NoRun \notin Proc \X Job \X Nat

\* A job registered in a process, and a coroutine that executes one.
Entry == Proc \X Job
Run   == UNION {{p} \X Job \X (1..MaxOverlap[p]) : p \in Proc}
EntryOf(r) == <<r[1], r[2]>>

VARIABLES
    kind,     \* schedule_type of each job
    locked,   \* jobs with use_distributed_lock
    clock,    \* second of the day
    up,       \* each process: down, running or stopped
    awake,    \* processes whose loop has slept its second
    jobs,     \* entries of the job tables
    added,    \* entries ever added since the process started
    due,      \* next_run of each entry, in ticks from now, or Never
    done,     \* ONCE entries whose run_count is not 0 (it is read for no others)
    pc,       \* where each run is
    patience, \* ticks a run still waits for its lock
    owner,    \* Redis: the run that holds the lock of each job
    left,     \* Redis: ticks until the lock expires
    filed,    \* entries whose lock key is in active_locks
    rest,     \* ticks since the entry was added or a run of it last ended;
              \* nothing is said of it for ONCE jobs
    events    \* failed lock commands, crashes, stops and removals so far

specVars  == <<kind, locked>>
tableVars == <<up, awake, jobs, added>>
entryVars == <<due, done, rest>>
lockVars  == <<owner, left, filed>>
runVars   == <<pc, patience>>
vars == <<kind, locked, clock, up, awake, jobs, added, due, done, pc, patience,
          owner, left, filed, rest, events>>

Never   == -1
MaxDue  == Interval + Day + Delay
MaxRest == IF Interval > Day THEN Interval ELSE Day

Kind  == {"INTERVAL", "DAILY", "ONCE"}
Phase == {"idle", "created", "waiting", "working", "leaving", "ending"}

\* Every variable keeps its type.
TypeOK ==
    /\ kind \in [Job -> Kind]
    /\ locked \in SUBSET Job
    /\ clock \in 0..(Day - 1)
    /\ up \in [Proc -> {"down", "running", "stopped"}]
    /\ awake \in SUBSET Proc
    /\ jobs \in SUBSET Entry
    /\ added \in SUBSET Entry
    /\ due \in [Entry -> 0..MaxDue \cup {Never}]
    /\ done \in SUBSET Entry
    /\ pc \in [Run -> Phase]
    /\ patience \in [Run -> 0..LockWait]
    /\ owner \in [Job -> Run \cup {NoRun}]
    /\ left \in [Job -> 0..LockTtl]
    /\ filed \in SUBSET Entry
    /\ rest \in [Entry -> 0..MaxRest]
    /\ events \in 0..MaxEvents

Init ==
    /\ kind \in [Job -> Kind]
    /\ locked \in SUBSET Job
    /\ clock = 0
    /\ up = [p \in Proc |-> "down"]
    /\ awake = {}
    /\ jobs = {} /\ added = {}
    /\ due = [e \in Entry |-> Never]
    /\ done = {}
    /\ pc = [r \in Run |-> "idle"]
    /\ patience = [r \in Run |-> 0]
    /\ owner = [j \in Job |-> NoRun]
    /\ left = [j \in Job |-> 0]
    /\ filed = {}
    /\ rest = [e \in Entry |-> 0]
    /\ events = 0

-----------------------------------------------------------------------------
(* Next run                                                                *)

\* Mutant of UntilDaily: a time that has just come is not moved to tomorrow.
UntilDailyOrNow == IF Daily >= clock THEN Daily - clock ELSE Daily - clock + Day

\* The next time of the day, tomorrow if it has just come.
UntilDaily == IF Daily > clock THEN Daily - clock ELSE Daily - clock + Day

\* _calculate_next_run at the end of a run; counted says that run_count # 0.
NextRun(j, counted) ==
    IF kind[j] = "INTERVAL" THEN Interval
    ELSE IF kind[j] = "DAILY" THEN UntilDaily
    ELSE IF counted THEN Never ELSE 0

\* Mutant of Reschedule: the finally block does not compute the next run.
KeepNextRun(e, counted) ==
    /\ rest' = [rest EXCEPT ![e] = 0]
    /\ UNCHANGED due

\* The finally block of _execute_job.
Reschedule(e, counted) ==
    /\ due' = [due EXCEPT ![e] = NextRun(e[2], counted)]
    /\ rest' = [rest EXCEPT ![e] = 0]

-----------------------------------------------------------------------------
(* The job table and the loop                                              *)

Event ==
    /\ events < MaxEvents
    /\ events' = events + 1

\* SchedulerService.init and start.
Start(p) ==
    /\ up[p] = "down"
    /\ up' = [up EXCEPT ![p] = "running"]
    /\ awake' = awake \cup {p}
    /\ UNCHANGED <<specVars, clock, jobs, added, entryVars, runVars, lockVars,
                   events>>

\* add_job.  No caller adds a job twice in the life of a process.
AddJob(p, j) ==
    LET e == <<p, j>> IN
    /\ up[p] = "running"
    /\ e \notin added
    /\ jobs' = jobs \cup {e}
    /\ added' = added \cup {e}
    /\ due' = [due EXCEPT ![e] =
                  IF kind[j] = "ONCE" THEN Delay ELSE NextRun(j, FALSE)]
    /\ done' = done \ {e}
    /\ rest' = [rest EXCEPT ![e] = 0]
    /\ UNCHANGED <<specVars, clock, up, awake, runVars, lockVars, events>>

\* remove_job.  Runs that have begun go on.
RemoveJob(p, j) ==
    /\ up[p] = "running"
    /\ <<p, j>> \in jobs
    /\ Event
    /\ jobs' = jobs \ {<<p, j>>}
    /\ UNCHANGED <<specVars, clock, up, awake, added, entryVars, runVars, lockVars>>

\* stop cancels the loop, at its only await; runs that have begun go on.
Stop(p) ==
    /\ up[p] = "running"
    /\ Event
    /\ up' = [up EXCEPT ![p] = "stopped"]
    /\ awake' = awake \ {p}
    /\ UNCHANGED <<specVars, clock, jobs, added, entryVars, runVars, lockVars>>

\* The entries whose time has come, and the coroutines that can take them.
Ready(p) == {e \in jobs : e[1] = p /\ due[e] = 0}

Free(e) == {r \in Run : EntryOf(r) = e /\ pc[r] = "idle"}

OneFree(e) == CHOOSE r \in Free(e) : TRUE

Created(p) == {OneFree(e) : e \in {x \in Ready(p) : Free(x) # {}}}

\* One turn of _scheduler_loop: a task for every job that is due.
Poll(p) ==
    /\ up[p] = "running" /\ p \in awake
    /\ awake' = awake \ {p}
    /\ pc' = [r \in Run |-> IF r \in Created(p) THEN "created" ELSE pc[r]]
    /\ UNCHANGED <<specVars, clock, up, jobs, added, entryVars, patience,
                   lockVars, events>>

-----------------------------------------------------------------------------
(* A run                                                                   *)

Goto(r, phase) == pc' = [pc EXCEPT ![r] = phase]

\* Mutant of LockTaken: without EX.
LockForEver(r) ==
    /\ owner[r[2]] = NoRun
    /\ owner' = [owner EXCEPT ![r[2]] = r]
    /\ left' = left
    /\ filed' = filed \cup {EntryOf(r)}

\* SET NX EX, and the entry in active_locks when it succeeds.
LockTaken(r) ==
    /\ owner[r[2]] = NoRun
    /\ owner' = [owner EXCEPT ![r[2]] = r]
    /\ left' = [left EXCEPT ![r[2]] = LockTtl]
    /\ filed' = filed \cup {EntryOf(r)}

\* A job without use_distributed_lock calls back at once.
Begin(r) ==
    /\ pc[r] = "created" /\ r[2] \notin locked
    /\ Goto(r, "working")
    /\ UNCHANGED <<specVars, clock, tableVars, entryVars, patience, lockVars,
                   events>>

\* The first attempt to lock fails: acquire polls until its timeout.
Wait(r) ==
    /\ pc[r] = "created" /\ r[2] \in locked
    /\ owner[r[2]] # NoRun
    /\ Goto(r, "waiting")
    /\ patience' = [patience EXCEPT ![r] = LockWait]
    /\ UNCHANGED <<specVars, clock, tableVars, entryVars, lockVars, events>>

\* An attempt to lock succeeds.
Acquire(r) ==
    /\ r[2] \in locked
    /\ pc[r] = "created" \/ (pc[r] = "waiting" /\ patience[r] > 0)
    /\ LockTaken(r)
    /\ Goto(r, "working")
    /\ patience' = [patience EXCEPT ![r] = 0]
    /\ UNCHANGED <<specVars, clock, tableVars, entryVars, events>>

\* acquire returned None: the RuntimeError of acquire_lock is swallowed and the
\* run ends without calling back.
SkipRun(r) ==
    /\ Goto(r, "idle")
    /\ Reschedule(EntryOf(r), EntryOf(r) \in done)
    /\ UNCHANGED <<specVars, clock, tableVars, done, patience, lockVars>>

LockTimeout(r) ==
    /\ pc[r] = "waiting" /\ patience[r] = 0
    /\ SkipRun(r)
    /\ UNCHANGED events

LockFails(r) ==
    /\ pc[r] = "created" /\ r[2] \in locked
    /\ Event
    /\ SkipRun(r)

\* run_count += 1.
Counted(e) == IF kind[e[2]] = "ONCE" THEN done \cup {e} ELSE done

\* The callback returns: run_count is increased.  Without a lock the run ends
\* with it; with one it goes on to the release.
CallbackOk(r) ==
    LET e == EntryOf(r) IN
    /\ pc[r] = "working"
    /\ done' = Counted(e)
    /\ \/ /\ r[2] \in locked
          /\ Goto(r, "leaving")
          /\ UNCHANGED <<due, rest>>
       \/ /\ r[2] \notin locked
          /\ Goto(r, "idle")
          /\ Reschedule(e, e \in Counted(e))
    /\ UNCHANGED <<specVars, clock, tableVars, patience, lockVars, events>>

\* The callback raises: error_count is increased and nothing else differs.
CallbackRaises(r) ==
    LET e == EntryOf(r) IN
    /\ pc[r] = "working"
    /\ \/ /\ r[2] \in locked
          /\ Goto(r, "leaving")
          /\ UNCHANGED <<due, rest>>
       \/ /\ r[2] \notin locked
          /\ Goto(r, "idle")
          /\ Reschedule(e, e \in done)
    /\ UNCHANGED <<specVars, clock, tableVars, done, patience, lockVars, events>>

\* Mutant of Unlock: DEL without GET.
UnlockAnyone(r) ==
    /\ owner' = [owner EXCEPT ![r[2]] = NoRun]
    /\ left' = [left EXCEPT ![r[2]] = 0]

\* The compare-and-delete of release.
Unlock(r) ==
    /\ owner' = [owner EXCEPT ![r[2]] = IF @ = r THEN NoRun ELSE @]
    /\ left' = [left EXCEPT ![r[2]] = IF owner[r[2]] = r THEN 0 ELSE @]

\* The context manager releases, unless another run of this process has removed
\* the entry of the key.
Leave(r) ==
    /\ pc[r] = "leaving"
    /\ \/ EntryOf(r) \in filed /\ Unlock(r)
       \/ EntryOf(r) \notin filed /\ UNCHANGED <<owner, left>>
    /\ Goto(r, "ending")
    /\ UNCHANGED <<specVars, clock, tableVars, entryVars, patience, filed, events>>

\* The release does not reach Redis; it only logs.
LeaveFails(r) ==
    /\ pc[r] = "leaving"
    /\ Event
    /\ Goto(r, "ending")
    /\ UNCHANGED <<specVars, clock, tableVars, entryVars, patience, lockVars>>

\* The run resumes after the release, forgets the key and ends.
End(r) ==
    /\ pc[r] = "ending"
    /\ filed' = filed \ {EntryOf(r)}
    /\ Goto(r, "idle")
    /\ Reschedule(EntryOf(r), EntryOf(r) \in done)
    /\ UNCHANGED <<specVars, clock, tableVars, done, patience, owner, left, events>>

-----------------------------------------------------------------------------
(* Time and crashes                                                        *)

Countdown(n) == IF n > 0 THEN n - 1 ELSE n

\* A second passes: loops wake up, times come nearer, locks expire.
Tick ==
    /\ clock' = (clock + 1) % Day
    /\ awake' = {p \in Proc : up[p] = "running"}
    /\ due' = [e \in Entry |-> Countdown(due[e])]
    /\ patience' = [r \in Run |-> Countdown(patience[r])]
    /\ left' = [j \in Job |-> Countdown(left[j])]
    /\ owner' = [j \in Job |-> IF left[j] = 1 THEN NoRun ELSE owner[j]]
    /\ rest' = [e \in Entry |->
                  IF e \in jobs /\ kind[e[2]] # "ONCE" /\ rest[e] < MaxRest
                    THEN rest[e] + 1 ELSE rest[e]]
    /\ UNCHANGED <<specVars, up, jobs, added, done, pc, filed, events>>

\* The process dies with its table, its runs and its dictionary; Redis keeps
\* the locks.
Crash(p) ==
    /\ up[p] # "down"
    /\ Event
    /\ up' = [up EXCEPT ![p] = "down"]
    /\ awake' = awake \ {p}
    /\ jobs' = {e \in jobs : e[1] # p}
    /\ added' = {e \in added : e[1] # p}
    /\ done' = {e \in done : e[1] # p}
    /\ filed' = {e \in filed : e[1] # p}
    /\ pc' = [r \in Run |-> IF r[1] = p THEN "idle" ELSE pc[r]]
    /\ patience' = [r \in Run |-> IF r[1] = p THEN 0 ELSE patience[r]]
    /\ due' = [e \in Entry |-> IF e[1] = p THEN Never ELSE due[e]]
    /\ rest' = [e \in Entry |-> IF e[1] = p THEN 0 ELSE rest[e]]
    /\ UNCHANGED <<specVars, clock, owner, left>>

-----------------------------------------------------------------------------
RunStep(r) ==
    \/ Begin(r) \/ Wait(r) \/ Acquire(r) \/ LockTimeout(r)
    \/ CallbackOk(r) \/ CallbackRaises(r) \/ Leave(r) \/ End(r)

RunFault(r) == LockFails(r) \/ LeaveFails(r)

TableStep(p) ==
    \/ Start(p) \/ Stop(p) \/ Crash(p)
    \/ \E j \in Job : AddJob(p, j) \/ RemoveJob(p, j)

Next ==
    \/ \E p \in Proc : TableStep(p) \/ Poll(p)
    \/ \E r \in Run : RunStep(r) \/ RunFault(r)
    \/ Tick

Spec == Init /\ [][Next]_vars

\* The event loop resumes what can go on, callbacks return, time passes.
Fairness ==
    /\ WF_vars(Tick)
    /\ \A p \in Proc : WF_vars(Poll(p))
    /\ \A r \in Run : WF_vars(RunStep(r))

FairSpec == Spec /\ Fairness

-----------------------------------------------------------------------------
(* Properties                                                              *)

\* Whoever works under a lock keeps it for its whole lifetime: no run that gives
\* up, ends, overstays its own lock or overlaps in the same process takes it
\* away or releases it, so that runs in any processes work at the same time only
\* when the older one has overstayed (_execute_job_with_lock,
\* base_scheduler.py:184-201, distributed_lock.py:160-182).
WorkKeepsItsLock ==
    [][\A j \in locked, r \in Run :
        (owner[j] = r /\ pc[r] = "working" /\ owner'[j] # r) => left[j] = 1]_vars

\* However many runs of an INTERVAL job overlap, and however they end (returned,
\* raised, not locked), its next run is not due before a whole interval
\* without an end of one (finally block, base_scheduler.py:180-182).
IntervalRests ==
    \A e \in jobs :
        (kind[e[2]] = "INTERVAL" /\ due[e] = 0) => rest[e] >= Interval

\* A process creates no run of a DAILY job after a run of it ended on that day,
\* after the job's time: the ticks since the end reach beyond the last time the
\* clock showed Daily (next_run <= now, base_scheduler.py:233-244).
DailyOnceADay ==
    [][\A e \in jobs, r \in Run :
        ( /\ EntryOf(r) = e /\ kind[e[2]] = "DAILY"
          /\ pc[r] = "idle" /\ pc'[r] = "created" ) =>
            rest[e] > (clock - Daily) % Day]_vars

\* A job that stays registered in a running process is executed again and again,
\* by that process or another one, whatever its callbacks do and whoever held its
\* lock when it died (_scheduler_loop and the finally block, base_scheduler.py:141-182).
JobKeepsRunning ==
    \A p \in Proc, j \in Job :
        <>[](kind[j] # "ONCE" /\ <<p, j>> \in jobs /\ up[p] = "running") =>
            []<>(\E r \in Run : r[2] = j /\ pc[r] = "working")
=============================================================================
