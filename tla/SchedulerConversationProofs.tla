---------------------- MODULE SchedulerConversationProofs ----------------------
(***************************************************************************)
(* Proofs about Scheduler and about Conversation, which share nothing but  *)
(* this module.                                                            *)
(*                                                                         *)
(* Scheduler: types; that an INTERVAL job rests a whole interval however   *)
(* its runs overlap; that a DAILY job runs once a day; and that nobody     *)
(* takes the lock of a run that works before its lifetime ends.            *)
(*                                                                         *)
(* Conversation: its types, and that the language model answers with       *)
(* everything in mind that the user had seen, for any past, any turns,     *)
(* lists and deletions, any number of processes, and any size of a page.   *)
(***************************************************************************)
EXTENDS Scheduler, Conversation, TLAPS

-----------------------------------------------------------------------------
(* Types                                                                   *)

LEMMA RunParts ==
  ASSUME NEW r \in Run
  PROVE  r[1] \in Proc /\ r[2] \in Job /\ EntryOf(r) \in Entry /\ EntryOf(r)[2] = r[2]
BY DEF Run, EntryOf, Entry

\* The times that are computed are within their bounds.
LEMMA NextRunType ==
  ASSUME TypeOK, NEW j \in Job, NEW counted
  PROVE  NextRun(j, counted) \in 0..MaxDue \cup {Never} /\ Delay \in 0..MaxDue
<1>1. UntilDaily \in 0..Day
  BY SchedulerAssumption DEF UntilDaily, TypeOK
<1>2. MaxDue \in Nat /\ Interval \in 0..MaxDue /\ 0 \in 0..MaxDue /\ Day <= MaxDue
      /\ Delay \in 0..MaxDue
  BY SchedulerAssumption DEF MaxDue
<1>3. UntilDaily \in 0..MaxDue
  BY <1>1, <1>2, SchedulerAssumption
<1>4. QED
  BY <1>2, <1>3 DEF NextRun

LEMMA BoundsNat == MaxRest \in Nat /\ Interval <= MaxRest
BY SchedulerAssumption DEF MaxRest

LEMMA InitTypes == Init => TypeOK
BY SchedulerAssumption, BoundsNat DEF Init, TypeOK, Phase

LEMMA RescheduleTypes ==
  ASSUME TypeOK, NEW e \in Entry, NEW counted, Reschedule(e, counted)
  PROVE  due' \in [Entry -> 0..MaxDue \cup {Never}] /\ rest' \in [Entry -> 0..MaxRest]
<1>1. e[2] \in Job
  BY DEF Entry
<1>2. NextRun(e[2], counted) \in 0..MaxDue \cup {Never}
  BY <1>1, NextRunType
<1>3. QED
  BY <1>2, BoundsNat DEF Reschedule, TypeOK

LEMMA TableTypes ==
  ASSUME TypeOK, NEW p \in Proc, TableStep(p) \/ Poll(p)
  PROVE  TypeOK'
<1> USE DEF specVars, entryVars, runVars, lockVars
<1>1. CASE Start(p)
  BY <1>1 DEF Start, TypeOK
<1>2. CASE Stop(p)
  BY <1>2, SchedulerAssumption DEF Stop, Event, TypeOK
<1>3. CASE Crash(p)
  <2>1. due' \in [Entry -> 0..MaxDue \cup {Never}]
    BY <1>3 DEF Crash, TypeOK
  <2>2. rest' \in [Entry -> 0..MaxRest] /\ patience' \in [Run -> 0..LockWait]
    BY <1>3, BoundsNat, SchedulerAssumption DEF Crash, TypeOK
  <2>3. pc' \in [Run -> Phase]
    BY <1>3 DEF Crash, TypeOK, Phase
  <2>4. QED
    BY <1>3, <2>1, <2>2, <2>3, SchedulerAssumption DEF Crash, Event, TypeOK
<1>4. ASSUME NEW j \in Job, AddJob(p, j) PROVE TypeOK'
  <2>1. <<p, j>> \in Entry
    BY DEF Entry
  <2>2. due' \in [Entry -> 0..MaxDue \cup {Never}]
    BY <1>4, NextRunType DEF AddJob, TypeOK
  <2>3. rest' \in [Entry -> 0..MaxRest]
    <3>1. 0 \in 0..MaxRest
      BY BoundsNat
    <3>2. QED
      BY <1>4, <3>1 DEF AddJob, TypeOK
  <2>4. QED
    BY <1>4, <2>1, <2>2, <2>3 DEF AddJob, TypeOK
<1>5. ASSUME NEW j \in Job, RemoveJob(p, j) PROVE TypeOK'
  BY <1>5, SchedulerAssumption DEF RemoveJob, Event, TypeOK
<1>6. CASE Poll(p)
  <2>1. pc' \in [Run -> Phase]
    BY <1>6 DEF Poll, TypeOK, Phase
  <2>2. QED
    BY <1>6, <2>1 DEF Poll, TypeOK
<1>7. QED
  BY <1>1, <1>2, <1>3, <1>4, <1>5, <1>6 DEF TableStep

LEMMA RunTypes ==
  ASSUME TypeOK, NEW r \in Run, RunStep(r) \/ RunFault(r)
  PROVE  TypeOK'
<1> USE DEF specVars, tableVars, entryVars, lockVars
<1>1. r[2] \in Job /\ EntryOf(r) \in Entry
  BY RunParts
<1>2. ASSUME NEW phase \in Phase, Goto(r, phase) PROVE pc' \in [Run -> Phase]
  BY <1>2 DEF Goto, TypeOK
<1>3. CASE Begin(r)
  BY <1>2, <1>3 DEF Begin, TypeOK, Phase
<1>4. CASE Wait(r)
  <2>1. patience' \in [Run -> 0..LockWait]
    BY <1>4, SchedulerAssumption DEF Wait, TypeOK
  <2>2. QED
    BY <1>2, <1>4, <2>1 DEF Wait, TypeOK, Phase
<1>5. CASE Acquire(r)
  <2>1. patience' \in [Run -> 0..LockWait] /\ left' \in [Job -> 0..LockTtl]
    BY <1>1, <1>5, SchedulerAssumption DEF Acquire, LockTaken, TypeOK
  <2>2. QED
    BY <1>1, <1>2, <1>5, <2>1 DEF Acquire, LockTaken, TypeOK, Phase
<1>6. CASE SkipRun(r) /\ events' \in 0..MaxEvents
  BY <1>1, <1>2, <1>6, RescheduleTypes DEF SkipRun, TypeOK, Phase
<1>7. CASE LockTimeout(r)
  BY <1>6, <1>7 DEF LockTimeout, TypeOK
<1>8. CASE LockFails(r)
  BY <1>6, <1>8, SchedulerAssumption DEF LockFails, Event, TypeOK
<1>9. CASE CallbackOk(r)
  <2>1. done' \in SUBSET Entry
    BY <1>1, <1>9 DEF CallbackOk, Counted, TypeOK
  <2>2. CASE r[2] \in locked /\ Goto(r, "leaving") /\ UNCHANGED <<due, rest>>
    BY <1>2, <1>9, <2>1, <2>2 DEF CallbackOk, TypeOK, Phase
  <2>3. CASE Goto(r, "idle") /\ Reschedule(EntryOf(r), EntryOf(r) \in Counted(EntryOf(r)))
    BY <1>1, <1>2, <1>9, <2>1, <2>3, RescheduleTypes DEF CallbackOk, TypeOK, Phase
  <2>4. QED
    BY <1>9, <2>2, <2>3 DEF CallbackOk
<1>10. CASE CallbackRaises(r)
  <2>1. CASE Goto(r, "leaving") /\ UNCHANGED <<due, rest>>
    BY <1>2, <1>10, <2>1 DEF CallbackRaises, TypeOK, Phase
  <2>2. CASE Goto(r, "idle") /\ Reschedule(EntryOf(r), EntryOf(r) \in done)
    BY <1>1, <1>2, <1>10, <2>2, RescheduleTypes DEF CallbackRaises, TypeOK, Phase
  <2>3. QED
    BY <1>10, <2>1, <2>2 DEF CallbackRaises
<1>11. CASE Leave(r)
  <2>1. owner' \in [Job -> Run \cup {NoRun}] /\ left' \in [Job -> 0..LockTtl]
    BY <1>1, <1>11, SchedulerAssumption DEF Leave, Unlock, TypeOK
  <2>2. QED
    BY <1>2, <1>11, <2>1 DEF Leave, TypeOK, Phase
<1>12. CASE LeaveFails(r)
  BY <1>2, <1>12, SchedulerAssumption DEF LeaveFails, Event, TypeOK, Phase
<1>13. CASE End(r)
  BY <1>1, <1>2, <1>13, RescheduleTypes DEF End, TypeOK, Phase
<1>14. QED
  BY <1>3, <1>4, <1>5, <1>7, <1>8, <1>9, <1>10, <1>11, <1>12, <1>13 DEF RunStep, RunFault

LEMMA TickTypes ==
  ASSUME TypeOK, Tick
  PROVE  TypeOK'
<1> USE SchedulerAssumption, BoundsNat
<1>1. clock' \in 0..(Day - 1)
  BY DEF Tick, TypeOK
<1>2. due' \in [Entry -> 0..MaxDue \cup {Never}]
  <2>1. MaxDue \in Nat
    BY DEF MaxDue
  <2>2. ASSUME NEW e \in Entry PROVE Countdown(due[e]) \in 0..MaxDue \cup {Never}
    BY <2>1 DEF TypeOK, Never, Countdown
  <2>3. QED
    BY <2>2 DEF Tick
<1>3. patience' \in [Run -> 0..LockWait] /\ left' \in [Job -> 0..LockTtl]
  BY DEF Tick, TypeOK, Countdown
<1>4. rest' \in [Entry -> 0..MaxRest]
  BY DEF Tick, TypeOK
<1>5. owner' \in [Job -> Run \cup {NoRun}]
  BY DEF Tick, TypeOK
<1>6. QED
  BY <1>1, <1>2, <1>3, <1>4, <1>5 DEF Tick, TypeOK, specVars

LEMMA StepTypes == TypeOK /\ [Next]_vars => TypeOK'
<1>1. TypeOK /\ UNCHANGED vars => TypeOK'
  BY DEF vars, specVars, TypeOK
<1>2. QED
  BY <1>1, TableTypes, RunTypes, TickTypes DEF Next

\* TypeOK: every variable keeps its type, for any jobs, processes and schedules.
THEOREM TypeCorrect == Spec => []TypeOK
BY InitTypes, StepTypes, PTL DEF Spec

-----------------------------------------------------------------------------
(* INTERVAL jobs                                                           *)

\* The ticks to come and those that have passed make an interval.
Spaced(e) == (e \in jobs /\ kind[e[2]] = "INTERVAL") =>
                 due[e] # Never /\ due[e] + rest[e] >= Interval

LEMMA RescheduleSpaces ==
  ASSUME TypeOK, NEW e \in Entry, NEW counted, Reschedule(e, counted),
         UNCHANGED <<kind, jobs>>, NEW x \in Entry, Spaced(x)
  PROVE  Spaced(x)'
<1>1. CASE x = e
  BY <1>1, SchedulerAssumption DEF Reschedule, NextRun, Spaced, TypeOK, Never
<1>2. CASE x # e
  BY <1>2 DEF Reschedule, Spaced, TypeOK
<1>3. QED
  BY <1>1, <1>2

LEMMA StepSpaces ==
  ASSUME TypeOK, NEW x \in Entry, Spaced(x), [Next]_vars
  PROVE  Spaced(x)'
<1> USE DEF specVars, tableVars, entryVars, runVars, lockVars
<1>1. CASE UNCHANGED <<kind, jobs, due, rest>>
  BY <1>1 DEF Spaced
<1>2. ASSUME NEW p \in Proc, TableStep(p) \/ Poll(p) PROVE Spaced(x)'
  <2>1. CASE Start(p) \/ Stop(p) \/ Poll(p)
    BY <1>1, <2>1 DEF Start, Stop, Poll
  <2>2. CASE Crash(p)
    BY <2>2 DEF Crash, Spaced
  <2>3. ASSUME NEW j \in Job, AddJob(p, j) PROVE Spaced(x)'
    <3>1. CASE x = <<p, j>>
      BY <2>3, <3>1, SchedulerAssumption DEF AddJob, NextRun, Spaced, TypeOK, Never
    <3>2. CASE x # <<p, j>>
      BY <2>3, <3>2 DEF AddJob, Spaced, TypeOK
    <3>3. QED
      BY <3>1, <3>2
  <2>4. ASSUME NEW j \in Job, RemoveJob(p, j) PROVE Spaced(x)'
    BY <2>4 DEF RemoveJob, Spaced
  <2>5. QED
    BY <1>2, <2>1, <2>2, <2>3, <2>4 DEF TableStep
<1>3. ASSUME NEW r \in Run, RunStep(r) \/ RunFault(r) PROVE Spaced(x)'
  <2>1. CASE UNCHANGED <<due, rest>>
    BY <1>1, <1>3, <2>1
       DEF RunStep, RunFault, Begin, Wait, Acquire, LockTimeout, CallbackOk,
           CallbackRaises, Leave, End, LockFails, LeaveFails, SkipRun
  <2>2. CASE \E counted : Reschedule(EntryOf(r), counted)
    <3>1. UNCHANGED <<kind, jobs>>
      BY <1>3
         DEF RunStep, RunFault, Begin, Wait, Acquire, LockTimeout, CallbackOk,
             CallbackRaises, Leave, End, LockFails, LeaveFails, SkipRun
    <3>2. QED
      BY <2>2, <3>1, RunParts, RescheduleSpaces
  <2>3. UNCHANGED <<due, rest>> \/ \E counted : Reschedule(EntryOf(r), counted)
    BY <1>3
       DEF RunStep, RunFault, Begin, Wait, Acquire, LockTimeout, CallbackOk,
           CallbackRaises, Leave, End, LockFails, LeaveFails, SkipRun
  <2>4. QED
    BY <2>1, <2>2, <2>3
<1>4. CASE Tick
  <2>1. SUFFICES ASSUME x \in jobs, kind[x[2]] = "INTERVAL"
                 PROVE  due'[x] # Never /\ due'[x] + rest'[x] >= Interval
    BY <1>4 DEF Tick, Spaced
  <2>2. /\ due[x] \in Nat /\ rest[x] \in 0..MaxRest
        /\ due[x] + rest[x] >= Interval
    BY <2>1 DEF Spaced, TypeOK
  <2>3. /\ due'[x] = IF due[x] > 0 THEN due[x] - 1 ELSE due[x]
        /\ rest'[x] = IF rest[x] < MaxRest THEN rest[x] + 1 ELSE rest[x]
    BY <1>4, <2>1 DEF Tick, Countdown
  <2>4. QED
    BY <2>2, <2>3, BoundsNat, SchedulerAssumption DEF Never
<1>5. CASE UNCHANGED vars
  BY <1>1, <1>5 DEF vars
<1>6. QED
  BY <1>2, <1>3, <1>4, <1>5 DEF Next

AllSpaced == TypeOK /\ \A e \in Entry : Spaced(e)

\* IntervalRests: however the runs of an INTERVAL job overlap and end, it is not due
\* before a whole interval without an end of one (base_scheduler.py:180-182).
THEOREM RestsAnInterval == Spec => []IntervalRests
<1>1. Init => AllSpaced
  BY InitTypes DEF Init, AllSpaced, Spaced
<1>2. AllSpaced /\ [Next]_vars => AllSpaced'
  BY StepTypes, StepSpaces DEF AllSpaced
<1>3. AllSpaced => IntervalRests
  <2> SUFFICES ASSUME AllSpaced, NEW e \in jobs, kind[e[2]] = "INTERVAL", due[e] = 0
               PROVE  rest[e] >= Interval
    BY DEF IntervalRests
  <2>1. e \in Entry /\ rest[e] \in Nat
    BY DEF AllSpaced, TypeOK
  <2>2. due[e] + rest[e] >= Interval
    BY <2>1 DEF AllSpaced, Spaced
  <2>3. QED
    BY <2>1, <2>2, SchedulerAssumption
<1>4. QED
  BY <1>1, <1>2, <1>3, PTL DEF Spec

-----------------------------------------------------------------------------
(* DAILY jobs                                                              *)

\* The remainders that the clock needs.
LEMMA Remainder ==
  ASSUME NEW n \in Int, -Day < n, n < 2 * Day
  PROVE  n % Day = IF n < 0 THEN n + Day ELSE IF n < Day THEN n ELSE n - Day
BY SchedulerAssumption

\* Seconds since it was the time of the DAILY jobs.
Since == IF clock >= Daily THEN clock - Daily ELSE clock - Daily + Day

\* A DAILY entry is due at the next of these times, or has been due since the last
\* one, and no run of it has ended since.
Dated(e) == (e \in jobs /\ kind[e[2]] = "DAILY") =>
                /\ due[e] # Never
                /\ due[e] > 0 => due[e] = Day - Since
                /\ due[e] = 0 => rest[e] > Since

LEMMA UntilDailyDated == TypeOK => UntilDaily = Day - Since /\ UntilDaily > 0
BY SchedulerAssumption DEF UntilDaily, Since, TypeOK

LEMMA RescheduleDates ==
  ASSUME TypeOK, NEW e \in Entry, NEW counted, Reschedule(e, counted),
         UNCHANGED <<kind, jobs, clock>>, NEW x \in Entry, Dated(x)
  PROVE  Dated(x)'
<1>1. CASE x = e
  <2>1. SUFFICES ASSUME kind[e[2]] = "DAILY" PROVE Dated(x)'
    BY <1>1 DEF Dated
  <2>2. due'[e] = UntilDaily
    BY <2>1 DEF Reschedule, NextRun, TypeOK
  <2>3. UNCHANGED Since
    BY DEF Since
  <2>4. UntilDaily \in Int
    BY SchedulerAssumption DEF UntilDaily, TypeOK
  <2>5. QED
    BY <1>1, <2>2, <2>3, <2>4, UntilDailyDated DEF Dated, Never
<1>2. CASE x # e
  BY <1>2 DEF Reschedule, Dated, Since, TypeOK
<1>3. QED
  BY <1>1, <1>2

LEMMA TickDates ==
  ASSUME TypeOK, NEW x \in Entry, Dated(x), Tick
  PROVE  Dated(x)'
<1> USE SchedulerAssumption
<1>1. SUFFICES ASSUME x \in jobs, kind[x[2]] = "DAILY" PROVE Dated(x)'
  BY DEF Tick, Dated, specVars
<1>2. /\ due[x] \in Nat /\ rest[x] \in 0..MaxRest
      /\ due[x] > 0 => due[x] = Day - Since
      /\ due[x] = 0 => rest[x] > Since
  BY <1>1 DEF Dated, TypeOK, Never
<1>3. /\ due'[x] = IF due[x] > 0 THEN due[x] - 1 ELSE due[x]
      /\ rest'[x] = IF rest[x] < MaxRest THEN rest[x] + 1 ELSE rest[x]
  BY <1>1 DEF Tick, Countdown
<1>4. clock' = IF clock + 1 = Day THEN 0 ELSE clock + 1
  <2>1. clock \in 0..(Day - 1) /\ clock' = (clock + 1) % Day
    BY DEF TypeOK, Tick
  <2>2. clock + 1 \in Int /\ -Day < clock + 1 /\ clock + 1 < 2 * Day /\ ~(clock + 1 < 0)
    BY <2>1
  <2>3. clock' = IF clock + 1 < Day THEN clock + 1 ELSE clock + 1 - Day
    BY <2>1, <2>2, Remainder
  <2>4. QED
    BY <2>1, <2>3
<1>5. Since' = IF Since + 1 = Day THEN 0 ELSE Since + 1
  BY <1>4 DEF Since, TypeOK
<1>6. Since \in 0..(Day - 1)
  BY DEF Since, TypeOK
<1>7. MaxRest \in Nat /\ Day <= MaxRest
  BY DEF MaxRest
<1>8. due'[x] \in Nat
  BY <1>2, <1>3
<1>9. due'[x] > 0 => due'[x] = Day - Since'
  BY <1>2, <1>3, <1>5, <1>6
<1>10. due'[x] = 0 => rest'[x] > Since'
  BY <1>2, <1>3, <1>5, <1>6, <1>7
<1>11. QED
  BY <1>8, <1>9, <1>10 DEF Dated, Never

LEMMA StepDates ==
  ASSUME TypeOK, NEW x \in Entry, Dated(x), [Next]_vars
  PROVE  Dated(x)'
<1> USE DEF specVars, tableVars, entryVars, runVars, lockVars
<1>1. CASE UNCHANGED <<kind, clock, jobs, due, rest>>
  BY <1>1 DEF Dated, Since
<1>2. ASSUME NEW p \in Proc, TableStep(p) \/ Poll(p) PROVE Dated(x)'
  <2>1. CASE Start(p) \/ Stop(p) \/ Poll(p)
    BY <1>1, <2>1 DEF Start, Stop, Poll
  <2>2. CASE Crash(p)
    BY <2>2 DEF Crash, Dated, Since
  <2>3. ASSUME NEW j \in Job, AddJob(p, j) PROVE Dated(x)'
    <3>1. CASE x = <<p, j>>
      <4>1. SUFFICES ASSUME kind[j] = "DAILY" PROVE Dated(x)'
        BY <2>3, <3>1 DEF AddJob, Dated
      <4>2. due'[x] = UntilDaily
        BY <2>3, <3>1, <4>1 DEF AddJob, NextRun, TypeOK
      <4>3. UNCHANGED Since
        BY <2>3 DEF AddJob, Since
      <4>4. UntilDaily \in Int
        BY SchedulerAssumption DEF UntilDaily, TypeOK
      <4>5. QED
        BY <4>2, <4>3, <4>4, UntilDailyDated DEF Dated, Never
    <3>2. CASE x # <<p, j>>
      BY <2>3, <3>2 DEF AddJob, Dated, Since, TypeOK
    <3>3. QED
      BY <3>1, <3>2
  <2>4. ASSUME NEW j \in Job, RemoveJob(p, j) PROVE Dated(x)'
    BY <2>4 DEF RemoveJob, Dated, Since
  <2>5. QED
    BY <1>2, <2>1, <2>2, <2>3, <2>4 DEF TableStep
<1>3. ASSUME NEW r \in Run, RunStep(r) \/ RunFault(r) PROVE Dated(x)'
  <2>1. UNCHANGED <<kind, jobs, clock>>
    BY <1>3
       DEF RunStep, RunFault, Begin, Wait, Acquire, LockTimeout, CallbackOk,
           CallbackRaises, Leave, End, LockFails, LeaveFails, SkipRun
  <2>2. UNCHANGED <<due, rest>> \/ \E counted : Reschedule(EntryOf(r), counted)
    BY <1>3
       DEF RunStep, RunFault, Begin, Wait, Acquire, LockTimeout, CallbackOk,
           CallbackRaises, Leave, End, LockFails, LeaveFails, SkipRun
  <2>3. QED
    BY <1>1, <2>1, <2>2, RunParts, RescheduleDates
<1>4. CASE Tick
  BY <1>4, TickDates
<1>5. CASE UNCHANGED vars
  BY <1>1, <1>5 DEF vars
<1>6. QED
  BY <1>2, <1>3, <1>4, <1>5 DEF Next

AllDated == TypeOK /\ \A e \in Entry : Dated(e)

\* Only the loop creates runs, and only of entries that are due.
LEMMA CreatedAreDue ==
  ASSUME TypeOK, [Next]_vars, NEW r \in Run, pc[r] = "idle", pc'[r] = "created"
  PROVE  due[EntryOf(r)] = 0
<1>1. pc'[r] # pc[r]
  OBVIOUS
<1>2. ASSUME NEW p \in Proc, Poll(p) PROVE due[EntryOf(r)] = 0
  <2>1. r \in Created(p)
    BY <1>1, <1>2 DEF Poll, TypeOK
  <2>2. PICK e \in Ready(p) : Free(e) # {} /\ r = OneFree(e)
    BY <2>1 DEF Created
  <2>3. EntryOf(r) = e
    <3>1. OneFree(e) \in Free(e)
      BY <2>2 DEF OneFree
    <3>2. QED
      BY <2>2, <3>1 DEF Free
  <2>4. QED
    BY <2>2, <2>3 DEF Ready
<1>3. ASSUME NEW p \in Proc, TableStep(p) PROVE due[EntryOf(r)] = 0
  BY <1>1, <1>3
     DEF TableStep, Start, Stop, Crash, AddJob, RemoveJob, TypeOK, runVars
<1>4. ASSUME NEW q \in Run, RunStep(q) \/ RunFault(q) PROVE due[EntryOf(r)] = 0
  <2>1. UNCHANGED pc \/ \E phase \in Phase \ {"created"} : Goto(q, phase)
    BY <1>4
       DEF RunStep, RunFault, Begin, Wait, Acquire, LockTimeout, CallbackOk,
           CallbackRaises, Leave, End, LockFails, LeaveFails, SkipRun, Phase
  <2>2. QED
    BY <2>1 DEF Goto, TypeOK
<1>5. CASE Tick \/ UNCHANGED vars
  BY <1>1, <1>5 DEF Tick, vars, runVars
<1>6. QED
  BY <1>2, <1>3, <1>4, <1>5 DEF Next

\* DailyOnceADay: a process creates no run of a DAILY job after one of its runs ended
\* on that day, whatever the clock and however its runs overlap
\* (next_run <= now, base_scheduler.py:233-244).
THEOREM OnceADay == Spec => DailyOnceADay
<1>1. Init => AllDated
  BY InitTypes DEF Init, AllDated, Dated
<1>2. AllDated /\ [Next]_vars => AllDated'
  BY StepTypes, StepDates DEF AllDated
<1>3. AllDated /\ [Next]_vars =>
        [\A e \in jobs, r \in Run :
            ( /\ EntryOf(r) = e /\ kind[e[2]] = "DAILY"
              /\ pc[r] = "idle" /\ pc'[r] = "created" ) =>
                rest[e] > (clock - Daily) % Day]_vars
  <2> SUFFICES ASSUME AllDated, [Next]_vars, NEW e \in jobs, NEW r \in Run,
                      EntryOf(r) = e, kind[e[2]] = "DAILY",
                      pc[r] = "idle", pc'[r] = "created"
               PROVE  rest[e] > (clock - Daily) % Day
    OBVIOUS
  <2>1. e \in Entry /\ clock \in 0..(Day - 1)
    BY DEF AllDated, TypeOK
  <2>2. due[e] = 0
    BY CreatedAreDue DEF AllDated
  <2>3. rest[e] > Since
    BY <2>1, <2>2 DEF AllDated, Dated
  <2>4. clock - Daily \in Int /\ -Day < clock - Daily /\ clock - Daily < Day
        /\ clock - Daily < 2 * Day
    BY <2>1, SchedulerAssumption
  <2>5. (clock - Daily) % Day = Since
    BY <2>1, <2>4, Remainder, SchedulerAssumption DEF Since
  <2>6. QED
    BY <2>3, <2>5
<1>4. QED
  BY <1>1, <1>2, <1>3, PTL DEF Spec, DailyOnceADay

-----------------------------------------------------------------------------
(* The lock                                                                *)

\* WorkKeepsItsLock: no run, of whatever process, takes or releases the lock of a run
\* that works before its last second (distributed_lock.py:160-182).
THEOREM LockIsKept == Spec => WorkKeepsItsLock
<1>1. TypeOK /\ [Next]_vars =>
        [\A j \in locked, r \in Run :
            (owner[j] = r /\ pc[r] = "working" /\ owner'[j] # r) => left[j] = 1]_vars
  <2> SUFFICES ASSUME TypeOK, [Next]_vars, NEW j \in locked, NEW r \in Run,
                      owner[j] = r, pc[r] = "working", owner'[j] # r
               PROVE  left[j] = 1
    OBVIOUS
  <2>0. j \in Job /\ r # NoRun
    BY SchedulerAssumption DEF TypeOK, Run
  <2> USE DEF specVars, tableVars, entryVars, runVars, lockVars
  <2>1. ASSUME NEW p \in Proc, TableStep(p) \/ Poll(p) PROVE left[j] = 1
    BY <2>1 DEF TableStep, Poll, Start, Stop, Crash, AddJob, RemoveJob
  <2>2. ASSUME NEW q \in Run, RunStep(q) \/ RunFault(q) PROVE left[j] = 1
    <3>1. UNCHANGED owner \/ LockTaken(q) \/ (pc[q] = "leaving" /\ Unlock(q))
      BY <2>2
         DEF RunStep, RunFault, Begin, Wait, Acquire, LockTimeout, CallbackOk,
             CallbackRaises, Leave, End, LockFails, LeaveFails, SkipRun
    <3>2. CASE LockTaken(q)
      BY <2>0, <3>2 DEF LockTaken, TypeOK
    <3>3. CASE pc[q] = "leaving" /\ Unlock(q)
      BY <2>0, <3>3 DEF Unlock, TypeOK
    <3>4. QED
      BY <3>1, <3>2, <3>3
  <2>3. CASE Tick
    BY <2>0, <2>3 DEF Tick
  <2>4. CASE UNCHANGED vars
    BY <2>4 DEF vars
  <2>5. QED
    BY <2>1, <2>2, <2>3, <2>4 DEF Next
<1>2. QED
  BY <1>1, TypeCorrect, PTL DEF Spec, WorkKeepsItsLock

-----------------------------------------------------------------------------
(* The conversation: types                                                 *)

StorePart ==
    /\ dated \in Seq(Message) /\ waiting \subseteq Message /\ rows \in Seq(Message)
    /\ memory \subseteq Message

CachePart == cache \in Seq(Message) /\ mortal \in BOOLEAN

TurnPart ==
    /\ tpc \in [Turn -> {"begin", "remember", "queueQ", "ask", "answer", "queueA",
                         "cacheQ", "cacheA", "expire", "done", "failed"}]
    /\ owed \in [Turn -> SUBSET Message] /\ known \subseteq Message /\ calm \in BOOLEAN

ListPart ==
    /\ lpc \in [Lister -> {"idle", "query", "drop", "fill", "expire", "recall", "load"}]
    /\ page \in [Lister -> Seq(Message)] /\ todo \in [Lister -> Seq(Message)]

RestPart ==
    /\ dpc \in [Deletable -> {"no", "uncache", "queue", "queued", "done"}]
    /\ faults \in 0..MaxFaults

\* A page is cached only if there is something on it.
FillInv ==
    \A l \in Lister : /\ lpc[l] = "drop" => page[l] # <<>>
                      /\ lpc[l] = "fill" => todo[l] # <<>>

LEMMA ConversationParts ==
  ConversationTypeOK <=> StorePart /\ CachePart /\ TurnPart /\ ListPart /\ RestPart
BY DEF ConversationTypeOK, StorePart, CachePart, TurnPart, ListPart, RestPart

LEMMA MessageTypes ==
  \A t \in Turn : Question(t) \in Message /\ Answer(t) \in Message
BY DEF Message, Question, Answer

LEMMA PageTypes ==
  ASSUME NEW s \in Seq(Message)
  PROVE  /\ FirstPage(s) \in Seq(Message)
         /\ ToSet(FirstPage(s)) \subseteq ToSet(s)
         /\ Len(s) <= PageSize => FirstPage(s) = s
BY ConversationAssumption DEF FirstPage, ToSet

LEMMA TailTypes ==
  ASSUME NEW s \in Seq(Message), s # <<>>
  PROVE  /\ Head(s) \in Message /\ Tail(s) \in Seq(Message)
         /\ ToSet(s) = {Head(s)} \cup ToSet(Tail(s))
         /\ Len(s) # 1 => Tail(s) # <<>>
<1>1. Head(s) \in Message /\ Tail(s) \in Seq(Message) /\ Len(Tail(s)) = Len(s) - 1
  OBVIOUS
<1> Len(s) # 1 => Tail(s) # <<>>
  <2>1. Len(<<>>) = 0 /\ Len(s) \in Nat
    OBVIOUS
  <2>2. ASSUME Tail(s) = <<>> PROVE Len(s) = 1
    <3>1. Len(s) - 1 = 0
      BY <1>1, <2>1, <2>2
    <3>2. QED
      BY <2>1, <3>1
  <2>3. QED
    BY <2>2
<1>2. ToSet(s) \subseteq {Head(s)} \cup ToSet(Tail(s))
  <2> SUFFICES ASSUME NEW i \in DOMAIN s PROVE s[i] \in {Head(s)} \cup ToSet(Tail(s))
    BY DEF ToSet
  <2>1. CASE i = 1
    BY <2>1
  <2>2. CASE i # 1
    <3>1. i - 1 \in DOMAIN Tail(s) /\ Tail(s)[i - 1] = s[i]
      BY <2>2
    <3>2. QED
      BY <3>1 DEF ToSet
  <2>3. QED
    BY <2>1, <2>2
<1>3. {Head(s)} \cup ToSet(Tail(s)) \subseteq ToSet(s)
  BY DEF ToSet
<1>4. QED
  BY <1>1, <1>2, <1>3

LEMMA PushSet ==
  ASSUME NEW s \in Seq(Message), NEW m \in Message
  PROVE  Append(s, m) \in Seq(Message) /\ ToSet(Append(s, m)) = ToSet(s) \cup {m}
<1>1. \A i \in DOMAIN s : i \in DOMAIN Append(s, m) /\ Append(s, m)[i] = s[i]
  OBVIOUS
<1>2. Len(s) + 1 \in DOMAIN Append(s, m) /\ Append(s, m)[Len(s) + 1] = m
  OBVIOUS
<1>3. \A i \in DOMAIN Append(s, m) : i \in DOMAIN s \/ i = Len(s) + 1
  OBVIOUS
<1>4. QED
  BY <1>1, <1>2, <1>3 DEF ToSet

LEMMA PushTypes ==
  ASSUME CachePart, faults \in 0..MaxFaults, NEW m \in Message, Push(m) \/ PushFails(m)
  PROVE  CachePart' /\ faults' \in 0..MaxFaults
<1>1. cache' \in {cache, Append(cache, m), cache \o <<m, m>>} /\ mortal' = mortal
  BY DEF Push, PushFails
<1> Append(cache, m) \in Seq(Message) /\ cache \o <<m, m>> \in Seq(Message)
  BY DEF CachePart
<1>2. faults' \in 0..MaxFaults
  BY ConversationAssumption DEF Push, PushFails, Fault, NoFault
<1>3. QED
  BY <1>1, <1>2 DEF CachePart

LEMMA ExpireTypes ==
  ASSUME CachePart, faults \in 0..MaxFaults, SetExpire
  PROVE  CachePart' /\ faults' \in 0..MaxFaults
<1>1. mortal' \in BOOLEAN /\ cache' = cache
  BY Zenon DEF SetExpire, CachePart
<1>2. faults' \in 0..MaxFaults
  BY ConversationAssumption DEF SetExpire, Fault, NoFault
<1>3. QED
  BY <1>1, <1>2 DEF CachePart

LEMMA DeleteTypes ==
  ASSUME Delete
  PROVE  CachePart'
<1>1. <<>> \in Seq(Message)
  OBVIOUS
<1>2. QED
  BY <1>1, Zenon DEF Delete, CachePart

LEMMA FaultTypes ==
  ASSUME faults \in 0..MaxFaults, Fault \/ NoFault
  PROVE  faults' \in 0..MaxFaults
BY ConversationAssumption DEF Fault, NoFault

\* One step of a send handler.
Sends(t) == SendBegins(t) \/ SendRuns(t) \/ CacheFails(t) \/ SendFails(t)

LEMMA SendTypes ==
  ASSUME ConversationTypeOK, FillInv, NEW t \in Turn, Sends(t)
  PROVE  ConversationTypeOK' /\ FillInv'
<1> StorePart /\ CachePart /\ TurnPart /\ ListPart /\ RestPart
  BY ConversationParts
<1> Question(t) \in Message /\ Answer(t) \in Message
  BY MessageTypes
<1>1. ListPart' /\ FillInv' /\ dpc' = dpc
  BY DEF Sends, SendBegins, SendRuns, CacheFails, SendFails, Remember, QueueQuestion, Ask,
         AddAnswer, QueueAnswer, CacheQuestion, CacheAnswer, Reply, listVars, ListPart, FillInv
<1>2. \E from, to \in {"begin", "remember", "queueQ", "ask", "answer", "queueA",
                       "cacheQ", "cacheA", "expire", "done", "failed"} :
         TurnStep(t, from, to)
  BY DEF Sends, SendBegins, SendRuns, CacheFails, SendFails, Remember, QueueQuestion, Ask,
         AddAnswer, QueueAnswer, CacheQuestion, CacheAnswer, Reply
<1>3. tpc' \in [Turn -> {"begin", "remember", "queueQ", "ask", "answer", "queueA",
                         "cacheQ", "cacheA", "expire", "done", "failed"}]
  BY <1>2 DEF TurnStep, TurnPart
<1>4. TurnPart'
  <2>1. owed' \in [Turn -> SUBSET Message] /\ known' \subseteq Message /\ calm' = calm
    BY DEF Sends, SendBegins, SendRuns, CacheFails, SendFails, Remember, QueueQuestion, Ask,
         AddAnswer, QueueAnswer, CacheQuestion, CacheAnswer, Reply, Finish, seenVars, TurnPart
  <2>2. QED
    BY <1>3, <2>1 DEF TurnPart
<1>5. StorePart'
  <2>1. dated' \in Seq(Message)
    <3>1. CASE SendBegins(t)
      BY <3>1 DEF SendBegins, StorePart
    <3>2. CASE QueueQuestion(t)
      BY <3>2 DEF QueueQuestion, StorePart
    <3>3. CASE ~ SendBegins(t) /\ ~ QueueQuestion(t)
      <4>1. dated' = dated
        BY <3>3 DEF Sends, SendRuns, CacheFails, SendFails, Remember, Ask, AddAnswer,
             QueueAnswer, CacheQuestion, CacheAnswer, Reply, storeVars
      <4>2. QED
        BY <4>1 DEF StorePart
    <3>4. QED
      BY <3>1, <3>2, <3>3
  <2>2. waiting' \subseteq Message /\ rows' = rows
    BY DEF Sends, SendBegins, SendRuns, CacheFails, SendFails, Remember, QueueQuestion, Ask,
         AddAnswer, QueueAnswer, CacheQuestion, CacheAnswer, Reply, storeVars, StorePart
  <2>3. memory' \subseteq Message
    BY DEF Sends, SendBegins, SendRuns, CacheFails, SendFails, Remember, QueueQuestion, Ask,
         AddAnswer, QueueAnswer, CacheQuestion, CacheAnswer, Reply, Recall, Added, storeVars,
         StorePart
  <2>4. QED
    BY <2>1, <2>2, <2>3 DEF StorePart
<1>6. CachePart' /\ faults' \in 0..MaxFaults
  <2>1. CASE CacheQuestion(t) \/ CacheAnswer(t) \/ CacheFails(t)
    BY <2>1, PushTypes DEF CacheQuestion, CacheAnswer, CacheFails, RestPart
  <2>2. CASE Reply(t)
    BY <2>2, ExpireTypes DEF Reply, RestPart
  <2>3. CASE SendFails(t)
    BY <2>3, FaultTypes DEF SendFails, RestPart, CachePart, cacheVars
  <2>4. CASE QueueQuestion(t) \/ QueueAnswer(t)
    BY <2>4, FaultTypes DEF QueueQuestion, QueueAnswer, RestPart, CachePart, cacheVars
  <2>5. CASE SendBegins(t) \/ Remember(t) \/ Ask(t) \/ AddAnswer(t)
    BY <2>5 DEF SendBegins, Remember, Ask, AddAnswer, RestPart, CachePart, cacheVars
  <2>6. QED
    BY <2>1, <2>2, <2>3, <2>4, <2>5 DEF Sends, SendRuns
<1>7. QED
  BY <1>1, <1>4, <1>5, <1>6 DEF ConversationTypeOK, StorePart, CachePart, TurnPart, ListPart,
     RestPart

\* One step of a list handler.
Lists(l) == ListCache(l) \/ ListMisses(l) \/ ListRuns(l) \/ FillFails(l) \/ ListEnds(l)

LEMMA ListSteps ==
  ASSUME NEW l \in Lister, Lists(l)
  PROVE  \E from, to \in {"idle", "query", "drop", "fill", "expire", "recall", "load"} :
           ListStep(l, from, to)
BY DEF Lists, ListRuns, ListCache, ListMisses, ListBegins, ListRows, DropCache, FillCache,
       FilledCache, FillFails, RecallNothing, RecallPage, LoadMessage, LoadedPage, ListEnds

\* What a step of a list leaves to be written.
LEMMA TodoTypes ==
  ASSUME ListPart, FillInv, StorePart, CachePart, NEW l \in Lister, Lists(l)
  PROVE  ListPart' /\ FillInv'
<1>1. PICK from, to \in {"idle", "query", "drop", "fill", "expire", "recall", "load"} :
        ListStep(l, from, to)
  BY ListSteps
<1>2. lpc' = [lpc EXCEPT ![l] = to]
  BY <1>1 DEF ListStep
<1> <<>> \in Seq(Message)
  OBVIOUS
<1>3. CASE ListCache(l) \/ ListRows(l)
  <2> DEFINE p == IF ListCache(l) THEN FirstPage(cache) ELSE RowPage
  <2>1. p \in Seq(Message) /\ page' = [page EXCEPT ![l] = p] /\ todo' = todo
    BY <1>3, PageTypes DEF ListCache, ListRows, RowPage, StorePart, CachePart
  <2>2. /\ lpc'[l] = "drop" => p # <<>>
        /\ lpc'[l] # "fill"
    BY <1>3 DEF ListCache, ListRows, ListBegins, ListStep, ListPart
  <2> HIDE DEF p
  <2>3. ListPart'
    BY <1>2, <2>1 DEF ListPart
  <2>4. QED
    BY <1>2, <2>1, <2>2, <2>3 DEF ListPart, FillInv
<1>4. CASE ListMisses(l) \/ FilledCache(l)
  <2>1. page' = page /\ todo' = todo /\ lpc'[l] \notin {"drop", "fill"}
    BY <1>4 DEF ListMisses, FilledCache, ListBegins, ListStep, ListPart
  <2>2. QED
    BY <1>2, <2>1 DEF ListPart, FillInv
<1>5. CASE DropCache(l)
  <2>1. page' = page /\ todo' = [todo EXCEPT ![l] = page[l]] /\ lpc[l] = "drop"
        /\ lpc'[l] = "fill"
    BY <1>5 DEF DropCache, ListStep, ListPart
  <2>2. QED
    BY <1>2, <2>1 DEF ListPart, FillInv
<1>6. CASE FillCache(l)
  <2>1. /\ page' = page /\ todo' = [todo EXCEPT ![l] = Tail(todo[l])] /\ lpc[l] = "fill"
        /\ lpc'[l] = IF Len(todo[l]) = 1 THEN "expire" ELSE "fill"
    BY <1>6 DEF FillCache, ListStep, ListPart
  <2>2. Tail(todo[l]) \in Seq(Message) /\ (Len(todo[l]) # 1 => Tail(todo[l]) # <<>>)
    BY <2>1, TailTypes DEF ListPart, FillInv
  <2>3. QED
    BY <1>2, <2>1, <2>2 DEF ListPart, FillInv
<1>7. CASE FillFails(l)
  <2>1. page' = page /\ todo' = [todo EXCEPT ![l] = <<>>] /\ lpc'[l] = "recall"
    BY <1>7 DEF FillFails, ListStep, ListPart
  <2>2. QED
    BY <1>2, <2>1 DEF ListPart, FillInv
<1>8. CASE RecallNothing(l) \/ LoadedPage(l)
  <2>1. page' = [page EXCEPT ![l] = <<>>] /\ todo' = todo /\ lpc'[l] = "idle"
    BY <1>8 DEF RecallNothing, LoadedPage, Shown, ListStep, ListPart
  <2>2. QED
    BY <1>2, <2>1 DEF ListPart, FillInv
<1>9. CASE RecallPage(l)
  <2>1. page' = page /\ todo' = [todo EXCEPT ![l] = page[l]] /\ lpc'[l] = "load"
    BY <1>9 DEF RecallPage, ListStep, ListPart
  <2>2. QED
    BY <1>2, <2>1 DEF ListPart, FillInv
<1>10. CASE LoadMessage(l)
  <2>1. /\ page' = page /\ todo' = [todo EXCEPT ![l] = Tail(todo[l])] /\ lpc'[l] = "load"
        /\ todo[l] # <<>>
    BY <1>10 DEF LoadMessage, ListStep, ListPart
  <2>2. Tail(todo[l]) \in Seq(Message)
    BY <2>1, TailTypes DEF ListPart
  <2>3. QED
    BY <1>2, <2>1, <2>2 DEF ListPart, FillInv
<1>11. CASE ListEnds(l)
  <2>1. /\ page' = [page EXCEPT ![l] = <<>>] /\ todo' = [todo EXCEPT ![l] = <<>>]
        /\ lpc'[l] = "idle"
    BY <1>11 DEF ListEnds, ListStep, ListPart
  <2>2. QED
    BY <1>2, <2>1 DEF ListPart, FillInv
<1>12. QED
  BY <1>3, <1>4, <1>5, <1>6, <1>7, <1>8, <1>9, <1>10, <1>11 DEF Lists, ListRuns

LEMMA ListTypes ==
  ASSUME ConversationTypeOK, FillInv, NEW l \in Lister, Lists(l)
  PROVE  ConversationTypeOK' /\ FillInv'
<1> StorePart /\ CachePart /\ TurnPart /\ ListPart /\ RestPart
  BY ConversationParts
<1>1. ListPart' /\ FillInv'
  BY TodoTypes
<1>2. /\ UNCHANGED <<dated, waiting, rows, turnVars, dpc>>
      /\ memory' = memory \/ \E m \in ToSet(todo[l]) : memory' = memory \cup {m}
  <2>1. CASE LoadMessage(l)
    <3>1. todo[l] # <<>> /\ todo[l] \in Seq(Message)
      BY <2>1 DEF LoadMessage, ListPart
    <3>2. Head(todo[l]) \in ToSet(todo[l])
      BY <3>1, TailTypes
    <3>3. QED
      BY <2>1, <3>2 DEF LoadMessage, Recall
  <2>2. CASE ~ LoadMessage(l)
    BY <2>2 DEF Lists, ListRuns, ListCache, ListMisses, ListRows, DropCache, FillCache,
       FilledCache, FillFails, RecallNothing, RecallPage, LoadedPage, ListEnds, storeVars
  <2>3. QED
    BY <2>1, <2>2
<1>3. StorePart'
  <2>1. ToSet(todo[l]) \subseteq Message
    BY DEF ListPart, ToSet
  <2>2. QED
    BY <1>2, <2>1 DEF StorePart
<1>4. TurnPart'
  <2>1. calm' \in BOOLEAN
    <3>1. calm' = calm \/ ListBegins(l, "recall") \/ ListBegins(l, "query")
      BY DEF Lists, ListRuns, ListCache, ListMisses, ListRows, DropCache, FillCache,
         FilledCache, FillFails, RecallNothing, RecallPage, LoadMessage, LoadedPage, ListEnds,
         seenVars
    <3>2. QED
      BY <3>1, Zenon DEF ListBegins, TurnPart
  <2>2. known' \subseteq Message
    <3>1. known' = known \/ known' = known \cup ToSet(page[l])
      BY DEF Lists, ListRuns, ListCache, ListMisses, ListRows, DropCache, FillCache,
         FilledCache, FillFails, RecallNothing, RecallPage, LoadMessage, LoadedPage, ListEnds,
         Shown, seenVars
    <3>2. ToSet(page[l]) \subseteq Message
      BY DEF ListPart, ToSet
    <3>3. QED
      BY <3>1, <3>2 DEF TurnPart
  <2>3. QED
    BY <1>2, <2>1, <2>2 DEF TurnPart, turnVars
<1>5. CachePart' /\ faults' \in 0..MaxFaults
  <2>1. CASE FillCache(l) \/ FillFails(l)
    <3>1. CASE lpc[l] = "fill"
      <4>1. Head(todo[l]) \in Message
        BY <3>1, TailTypes DEF FillInv, ListPart
      <4>2. Push(Head(todo[l])) \/ PushFails(Head(todo[l]))
        BY <2>1, <3>1 DEF FillCache, FillFails, ListStep
      <4>3. QED
        BY <4>1, <4>2, PushTypes DEF RestPart
    <3>2. CASE lpc[l] # "fill"
      <4>1. Fault /\ (Delete \/ UNCHANGED cacheVars)
        BY <2>1, <3>2 DEF FillCache, FillFails, ListStep
      <4>2. QED
        BY <4>1, FaultTypes, DeleteTypes DEF cacheVars, CachePart, RestPart
    <3>3. QED
      BY <3>1, <3>2
  <2>2. CASE FilledCache(l)
    BY <2>2, ExpireTypes DEF FilledCache, KeepForAnHour, RestPart
  <2>3. CASE DropCache(l)
    BY <2>3, DeleteTypes DEF DropCache, RestPart
  <2>4. CASE ListMisses(l) \/ RecallNothing(l) \/ LoadMessage(l) \/ LoadedPage(l) \/ ListEnds(l)
    <3>1. UNCHANGED cacheVars /\ (Fault \/ NoFault)
      BY <2>4 DEF ListMisses, RecallNothing, LoadMessage, LoadedPage, ListEnds
    <3>2. QED
      BY <3>1, FaultTypes DEF cacheVars, CachePart, RestPart
  <2>5. CASE ListCache(l) \/ ListRows(l) \/ RecallPage(l)
    BY <2>5 DEF ListCache, ListRows, RecallPage, cacheVars, CachePart, RestPart
  <2>6. QED
    BY <2>1, <2>2, <2>3, <2>4, <2>5 DEF Lists, ListRuns
<1>6. QED
  BY <1>1, <1>2, <1>3, <1>4, <1>5 DEF ConversationTypeOK, StorePart, CachePart, TurnPart,
     ListPart, RestPart

LEMMA RemoveTypes ==
  ASSUME NEW s \in Seq(Message), NEW i \in DOMAIN s
  PROVE  /\ RemoveAt(s, i) \in Seq(Message)
         /\ ToSet(RemoveAt(s, i)) \subseteq ToSet(s)
         /\ Len(RemoveAt(s, i)) <= Len(s)
<1> DEFINE a == SubSeq(s, 1, i - 1)
           b == SubSeq(s, i + 1, Len(s))
<1>1. i \in 1..Len(s) /\ Len(s) \in Nat
  OBVIOUS
<1>2. /\ a \in Seq(Message) /\ Len(a) = i - 1
      /\ \A j \in 1..(i - 1) : a[j] = s[j]
  BY <1>1
<1>3. /\ b \in Seq(Message) /\ Len(b) = Len(s) - i
      /\ \A j \in 1..(Len(s) - i) : b[j] = s[i + j]
  BY <1>1
<1> HIDE DEF a, b
<1>4. /\ a \o b \in Seq(Message) /\ Len(a \o b) = Len(s) - 1
      /\ \A j \in 1..(Len(s) - 1) : (a \o b)[j] = IF j <= i - 1 THEN s[j] ELSE s[j + 1]
  BY <1>1, <1>2, <1>3
<1>5. ToSet(a \o b) \subseteq ToSet(s)
  <2> SUFFICES ASSUME NEW j \in DOMAIN (a \o b) PROVE (a \o b)[j] \in ToSet(s)
    BY DEF ToSet
  <2>1. j \in 1..(Len(s) - 1)
    BY <1>4
  <2>2. j \in DOMAIN s /\ j + 1 \in DOMAIN s
    BY <1>1, <2>1
  <2>3. QED
    BY <1>4, <2>1, <2>2 DEF ToSet
<1>6. RemoveAt(s, i) = a \o b
  BY DEF RemoveAt, a, b
<1>7. QED
  BY <1>1, <1>4, <1>5, <1>6

LEMMA InsertTypes ==
  ASSUME NEW s \in Seq(Message), NEW i \in 1..(Len(s) + 1), NEW m \in Message
  PROVE  InsertAt(s, i, m) \in Seq(Message)
<1>1. SubSeq(s, 1, i - 1) \in Seq(Message) /\ SubSeq(s, i, Len(s)) \in Seq(Message)
  OBVIOUS
<1>2. <<m>> \in Seq(Message)
  OBVIOUS
<1>3. QED
  BY <1>1, <1>2 DEF InsertAt

\* One step of a deletion.
Deletes(m) == Mark(m) \/ DeleteRuns(m) \/ DeleteFails(m)

LEMMA DeletionTypes ==
  ASSUME ConversationTypeOK, FillInv, NEW m \in Deletable, Deletes(m)
  PROVE  ConversationTypeOK' /\ FillInv'
<1> StorePart /\ CachePart /\ TurnPart /\ ListPart /\ RestPart
  BY ConversationParts
<1>1. UNCHANGED <<dated, waiting, memory, turnVars, seenVars, listVars>>
  BY DEF Deletes, DeleteRuns, Mark, Uncache, QueueDeletion, SoftDelete, DeleteFails, storeVars
<1>2. dpc' \in [Deletable -> {"no", "uncache", "queue", "queued", "done"}]
  BY DEF Deletes, DeleteRuns, Mark, Uncache, QueueDeletion, SoftDelete, DeleteFails,
     DeleteStep, RestPart
<1>3. faults' \in 0..MaxFaults
  BY FaultTypes DEF Deletes, DeleteRuns, Mark, Uncache, QueueDeletion, SoftDelete,
     DeleteFails, RestPart
<1>4. CachePart'
  <2>1. Delete \/ UNCHANGED cacheVars
    BY DEF Deletes, DeleteRuns, Mark, Uncache, QueueDeletion, SoftDelete, DeleteFails
  <2>2. QED
    BY <2>1, DeleteTypes DEF cacheVars, CachePart
<1>5. rows' \in Seq(Message)
  <2>1. rows' = rows \/ \E i \in DOMAIN rows : rows' = RemoveAt(rows, i)
    BY DEF Deletes, DeleteRuns, Mark, Uncache, QueueDeletion, SoftDelete, DeleteFails, storeVars
  <2>2. QED
    BY <2>1, RemoveTypes DEF StorePart
<1>6. QED
  BY <1>1, <1>2, <1>3, <1>4, <1>5 DEF ConversationTypeOK, FillInv, StorePart, CachePart,
     TurnPart, ListPart, RestPart, turnVars, seenVars, listVars

LEMMA RestTypes ==
  ASSUME ConversationTypeOK, FillInv,
         (\E m \in waiting : Store(m)) \/ Expire \/ UNCHANGED conversationVars
  PROVE  ConversationTypeOK' /\ FillInv'
<1> StorePart /\ CachePart /\ TurnPart /\ ListPart /\ RestPart
  BY ConversationParts
<1>1. UNCHANGED <<dated, memory, turnVars, seenVars, listVars, dpc, faults>>
  BY DEF Store, Expire, conversationVars, storeVars
<1>2. CachePart'
  <2>1. Delete \/ UNCHANGED cacheVars
    BY DEF Store, Expire, conversationVars
  <2>2. QED
    BY <2>1, DeleteTypes DEF cacheVars, CachePart
<1>3. rows' \in Seq(Message) /\ waiting' \subseteq Message
  <2>1. CASE \E m \in waiting : Store(m)
    <3>1. PICK m \in waiting : Store(m)
      BY <2>1
    <3>2. m \in Message
      BY DEF StorePart
    <3>3. QED
      BY <3>1, <3>2, InsertTypes DEF Store, StorePart
  <2>2. CASE Expire \/ UNCHANGED conversationVars
    BY <2>2 DEF Expire, conversationVars, storeVars, StorePart
  <2>3. QED
    BY <2>1, <2>2
<1>4. QED
  BY <1>1, <1>2, <1>3 DEF ConversationTypeOK, FillInv, StorePart, CachePart,
     TurnPart, ListPart, RestPart, turnVars, seenVars, listVars

LEMMA ConversationSteps ==
  [ConversationNext]_conversationVars <=>
    \/ \E t \in Turn : Sends(t)
    \/ \E l \in Lister : Lists(l)
    \/ \E m \in Deletable : Deletes(m)
    \/ (\E m \in waiting : Store(m)) \/ Expire \/ UNCHANGED conversationVars
BY DEF ConversationNext, Sends, Lists, Deletes

LEMMA ConversationKept ==
  ConversationTypeOK /\ FillInv /\ [ConversationNext]_conversationVars
    => ConversationTypeOK' /\ FillInv'
BY SendTypes, ListTypes, DeletionTypes, RestTypes, ConversationSteps

LEMMA ConversationStart == ConversationInit => ConversationTypeOK /\ FillInv
<1> SUFFICES ASSUME ConversationInit PROVE ConversationTypeOK /\ FillInv
  OBVIOUS
<1>1. dated \in Seq(Message)
  <2>1. Past \in Seq(Turn) /\ Len(Past) \in Nat
    BY ConversationAssumption
  <2>2. ASSUME NEW i \in 1..(2 * Len(Past))
        PROVE  (IF i % 2 = 1 THEN Question(Past[(i + 1) \div 2]) ELSE Answer(Past[i \div 2]))
                 \in Message
    <3>1. i % 2 = 1 => (i + 1) \div 2 \in 1..Len(Past)
      BY <2>1
    <3>2. i % 2 # 1 => i \div 2 \in 1..Len(Past)
      BY <2>1
    <3>3. \A j \in 1..Len(Past) : Past[j] \in Turn
      BY <2>1
    <3>4. QED
      BY <3>1, <3>2, <3>3, MessageTypes
  <2>3. dated \in [1..(2 * Len(Past)) -> Message]
    BY <2>2 DEF ConversationInit
  <2>4. 2 * Len(Past) \in Nat
    BY <2>1
  <2>5. QED
    BY <2>3, <2>4
<1>2. <<>> \in Seq(Message)
  OBVIOUS
<1> StorePart /\ CachePart
  BY <1>1, <1>2, Zenon DEF ConversationInit, StorePart, CachePart
<1>3. TurnPart
  BY DEF ConversationInit, TurnPart
<1>4. ListPart /\ FillInv
  BY DEF ConversationInit, ListPart, FillInv
<1>5. RestPart
  BY ConversationAssumption DEF ConversationInit, RestPart
<1>6. QED
  BY <1>3, <1>4, <1>5, ConversationParts

\* Every variable of the conversation keeps its type, and no list tries to cache a page
\* that has no message left (chat_template_impl.py, AIChat_service.py).
THEOREM ConversationTypes == ConversationSpec => []ConversationTypeOK
<1>1. QED
  BY ConversationStart, ConversationKept, PTL DEF ConversationSpec

-----------------------------------------------------------------------------
(* The conversation: what the memory holds                                 *)

\* The turns of the past are over, and a turn that has its answer is remembered.
TurnInv ==
    /\ \A t \in ToSet(Past) : tpc[t] = "done"
    /\ \A t \in Turn : tpc[t] \in {"queueA", "cacheQ", "cacheA", "expire"}
                         => {Question(t), Answer(t)} \subseteq memory

\* What the user has seen is remembered.
SeenInv == known \subseteq memory /\ \A t \in Turn : owed[t] \subseteq known

Listing(l) == lpc[l] \in {"drop", "fill", "expire", "recall", "load"}
Filled(l)  == lpc[l] \in {"fill", "expire", "recall", "load"}
Loading    == \E l \in Lister : lpc[l] = "load"

\* The stores while there are only lists: the list that fills an empty cache, or loads
\* an empty memory, has a page with everything that can still be listed ...
FirstListInv ==
    memory = {} \/ Loading =>
        /\ \A l \in Lister : Listing(l) =>
              ToSet(RowPage) \cup ToSet(cache) \subseteq ToSet(page[l])
        /\ (\A l \in Lister : ~ Filled(l)) => cache = <<>>

\* ... and once it is loaded, everything that can be listed is remembered.
LaterListInv ==
    memory # {} /\ ~ Loading =>
        /\ ToSet(RowPage) \cup ToSet(cache) \subseteq memory
        /\ \A l \in Lister : Listing(l) => ToSet(page[l]) \subseteq memory

ListInv ==
    /\ waiting = {}
    /\ \A k, l \in Lister : lpc[k] # "idle" /\ lpc[l] # "idle" => k = l
    /\ Len(rows) <= Len(dated)
    /\ \A l \in Lister :
        /\ lpc[l] \in {"query", "drop"} => cache = <<>>
        /\ lpc[l] = "fill" => ToSet(todo[l]) \subseteq ToSet(page[l])
        /\ lpc[l] = "load" => ToSet(page[l]) \subseteq memory \cup ToSet(todo[l])

HistoryInv == HistoryOnly => ListInv /\ FirstListInv /\ LaterListInv

ConversationInv == ConversationTypeOK /\ FillInv /\ TurnInv /\ SeenInv /\ HistoryInv

LEMMA SetOfNone ==
  /\ ToSet(<<>>) = {}
  /\ \A s \in Seq(Message) : ToSet(s) = {} => s = <<>>
<1>1. ToSet(<<>>) = {}
  BY DEF ToSet
<1>2. ASSUME NEW s \in Seq(Message), s # <<>> PROVE ToSet(s) # {}
  BY <1>2, TailTypes
<1>3. QED
  BY <1>1, <1>2

LEMMA MemoryGrows ==
  ASSUME ConversationTypeOK, FillInv, [ConversationNext]_conversationVars
  PROVE  memory \subseteq memory'
<1>1. CASE \E t \in Turn : Sends(t)
  BY <1>1 DEF Sends, SendBegins, SendRuns, CacheFails, SendFails, Remember, QueueQuestion, Ask,
     AddAnswer, QueueAnswer, CacheQuestion, CacheAnswer, Reply, Recall, storeVars
<1>2. CASE \E l \in Lister : Lists(l)
  BY <1>2 DEF Lists, ListRuns, ListCache, ListMisses, ListRows, DropCache, FillCache,
     FilledCache, FillFails, RecallNothing, RecallPage, LoadMessage, LoadedPage, ListEnds,
     Recall, storeVars
<1>3. CASE \E m \in Deletable : Deletes(m)
  BY <1>3 DEF Deletes, DeleteRuns, Mark, Uncache, QueueDeletion, SoftDelete, DeleteFails,
     storeVars
<1>4. CASE (\E m \in waiting : Store(m)) \/ Expire \/ UNCHANGED conversationVars
  BY <1>4 DEF Store, Expire, conversationVars, storeVars
<1>5. QED
  BY <1>1, <1>2, <1>3, <1>4, ConversationSteps

LEMMA TurnKept ==
  ASSUME ConversationTypeOK, FillInv, TurnInv, [ConversationNext]_conversationVars
  PROVE  TurnInv'
<1> TurnPart
  BY ConversationParts
<1>0. memory \subseteq memory'
  BY MemoryGrows
<1>1. CASE UNCHANGED tpc
  BY <1>0, <1>1 DEF TurnInv
<1>2. ASSUME NEW t \in Turn, Sends(t) PROVE TurnInv'
  <2>1. PICK from, to \in {"begin", "remember", "queueQ", "ask", "answer", "queueA",
                       "cacheQ", "cacheA", "expire", "done", "failed"} :
          /\ TurnStep(t, from, to) /\ from # "done"
          /\ to \in {"queueA", "cacheQ", "cacheA", "expire"} =>
               from \in {"queueA", "cacheQ", "cacheA"} \/ {Question(t), Answer(t)} \subseteq memory'
    BY <1>2 DEF Sends, SendBegins, SendRuns, CacheFails, SendFails, Remember, QueueQuestion, Ask,
       AddAnswer, QueueAnswer, CacheQuestion, CacheAnswer, Reply
  <2>2. tpc[t] = from /\ tpc' = [tpc EXCEPT ![t] = to]
    BY <2>1 DEF TurnStep
  <2>3. \A s \in ToSet(Past) : s # t
    BY <2>1, <2>2 DEF TurnInv
  <2>4. \A s \in Turn : tpc'[s] \in {"queueA", "cacheQ", "cacheA", "expire"}
                          => {Question(s), Answer(s)} \subseteq memory'
    BY <1>0, <2>1, <2>2 DEF TurnInv, TurnPart
  <2>5. QED
    BY <2>2, <2>3, <2>4 DEF TurnInv, TurnPart
<1>3. CASE \E l \in Lister : Lists(l)
  BY <1>1, <1>3 DEF Lists, ListRuns, ListCache, ListMisses, ListRows, DropCache, FillCache,
     FilledCache, FillFails, RecallNothing, RecallPage, LoadMessage, LoadedPage, ListEnds,
     turnVars
<1>4. CASE \E m \in Deletable : Deletes(m)
  BY <1>1, <1>4 DEF Deletes, DeleteRuns, Mark, Uncache, QueueDeletion, SoftDelete, DeleteFails,
     turnVars
<1>5. CASE (\E m \in waiting : Store(m)) \/ Expire \/ UNCHANGED conversationVars
  BY <1>1, <1>5 DEF Store, Expire, conversationVars, turnVars
<1>6. QED
  BY <1>2, <1>3, <1>4, <1>5, ConversationSteps

LEMMA SeenKept ==
  ASSUME ConversationInv, [ConversationNext]_conversationVars
  PROVE  SeenInv'
<1>0. /\ memory \subseteq memory' /\ TurnPart /\ ListPart /\ SeenInv /\ TurnInv
  BY MemoryGrows, ConversationParts DEF ConversationInv
<1>1. CASE UNCHANGED <<known, owed>>
  BY <1>0, <1>1 DEF SeenInv
<1>2. ASSUME NEW t \in Turn, Sends(t) PROVE SeenInv'
  <2>1. known' = known \/ (known' = known \cup {Question(t), Answer(t)}
                             /\ tpc[t] \in {"cacheQ", "cacheA", "expire"})
    BY <1>2 DEF Sends, SendBegins, SendRuns, CacheFails, SendFails, Remember, QueueQuestion, Ask,
       AddAnswer, QueueAnswer, CacheQuestion, CacheAnswer, Reply, Finish, TurnStep, seenVars
  <2>2. known' \subseteq memory' /\ known \subseteq known'
    BY <1>0, <2>1 DEF SeenInv, TurnInv
  <2>3. owed' = owed \/ owed' = [owed EXCEPT ![t] = known]
    BY <1>2 DEF Sends, SendBegins, SendRuns, CacheFails, SendFails, Remember, QueueQuestion, Ask,
       AddAnswer, QueueAnswer, CacheQuestion, CacheAnswer, Reply
  <2>4. QED
    BY <1>0, <2>2, <2>3 DEF SeenInv, TurnPart
<1>3. ASSUME NEW l \in Lister, Lists(l) PROVE SeenInv'
  <2>1. CASE RecallNothing(l) \/ LoadedPage(l)
    <3>1. HistoryOnly => ToSet(page[l]) \subseteq memory
      <4> SUFFICES ASSUME HistoryOnly PROVE ToSet(page[l]) \subseteq memory
        OBVIOUS
      <4>1. ListInv /\ FirstListInv /\ LaterListInv
        BY DEF ConversationInv, HistoryInv
      <4>2. CASE RecallNothing(l)
        <5>1. lpc[l] = "recall" /\ memory # {}
          BY <4>2 DEF RecallNothing, Forgotten, ListStep
        <5>2. ~ Loading
          BY <4>1, <5>1 DEF Loading, ListInv
        <5>3. QED
          BY <4>1, <5>1, <5>2 DEF LaterListInv, Listing
      <4>3. CASE LoadedPage(l)
        <5>1. lpc[l] = "load" /\ todo[l] = <<>>
          BY <4>3 DEF LoadedPage, ListStep
        <5>2. QED
          BY <4>1, <5>1, SetOfNone DEF ListInv
      <4>4. QED
        BY <2>1, <4>2, <4>3
    <3>2. known' \in {known, known \cup ToSet(page[l])} /\ (known' # known => HistoryOnly)
          /\ owed' = owed
      BY <2>1 DEF RecallNothing, LoadedPage, Shown, turnVars
    <3>3. QED
      BY <1>0, <3>1, <3>2 DEF SeenInv
  <2>2. CASE ~ (RecallNothing(l) \/ LoadedPage(l))
    BY <1>1, <1>3, <2>2 DEF Lists, ListRuns, ListCache, ListMisses, ListRows, DropCache,
       FillCache, FilledCache, FillFails, RecallPage, LoadMessage, ListEnds, turnVars, seenVars
  <2>3. QED
    BY <2>1, <2>2
<1>4. CASE \E m \in Deletable : Deletes(m)
  BY <1>1, <1>4 DEF Deletes, DeleteRuns, Mark, Uncache, QueueDeletion, SoftDelete, DeleteFails,
     turnVars, seenVars
<1>5. CASE (\E m \in waiting : Store(m)) \/ Expire \/ UNCHANGED conversationVars
  BY <1>1, <1>5 DEF Store, Expire, conversationVars, turnVars, seenVars
<1>6. QED
  BY <1>2, <1>3, <1>4, <1>5, ConversationSteps

\* While there have been only lists, no turn has begun and nothing has failed.
LEMMA HistoryStays ==
  ASSUME ConversationInv, [ConversationNext]_conversationVars, HistoryOnly'
  PROVE  HistoryOnly /\ dated' = dated /\ ~ Fault /\ ~ \E t \in Turn : Sends(t)
<1>0. TurnPart /\ RestPart /\ TurnInv
  BY ConversationParts DEF ConversationInv
<1>1. ~ Fault
  <2>1. faults \in Nat /\ faults' = 0
    BY <1>0 DEF RestPart, HistoryOnly
  <2>2. QED
    BY <2>1 DEF Fault
<1>2. ASSUME NEW t \in Turn, Sends(t) PROVE FALSE
  <2>1. PICK from, to \in {"begin", "remember", "queueQ", "ask", "answer", "queueA",
                       "cacheQ", "cacheA", "expire", "done", "failed"} :
          TurnStep(t, from, to) /\ from # "done" /\ to # "begin"
    BY <1>2 DEF Sends, SendBegins, SendRuns, CacheFails, SendFails, Remember, QueueQuestion, Ask,
       AddAnswer, QueueAnswer, CacheQuestion, CacheAnswer, Reply
  <2>2. tpc[t] # "done" /\ tpc'[t] # "begin"
    BY <1>0, <2>1 DEF TurnStep, TurnPart
  <2>3. t \notin ToSet(Past)
    BY <1>0, <2>2 DEF TurnInv
  <2>4. QED
    BY <2>2, <2>3 DEF HistoryOnly
<1>3. dated' = dated /\ tpc' = tpc
  <2>1. CASE \E l \in Lister : Lists(l)
    BY <2>1 DEF Lists, ListRuns, ListCache, ListMisses, ListRows, DropCache, FillCache,
       FilledCache, FillFails, RecallNothing, RecallPage, LoadMessage, LoadedPage, ListEnds,
       turnVars, storeVars
  <2>2. CASE \E m \in Deletable : Deletes(m)
    BY <2>2 DEF Deletes, DeleteRuns, Mark, Uncache, QueueDeletion, SoftDelete, DeleteFails,
       turnVars, storeVars
  <2>3. CASE (\E m \in waiting : Store(m)) \/ Expire \/ UNCHANGED conversationVars
    BY <2>3 DEF Store, Expire, conversationVars, turnVars, storeVars
  <2>4. QED
    BY <1>2, <2>1, <2>2, <2>3, ConversationSteps
<1>4. calm' => calm
  <2>1. calm' = calm \/ \E l \in Lister : Lists(l) /\ calm' # calm
    BY <1>2, ConversationSteps DEF Deletes, DeleteRuns, Mark, Uncache, QueueDeletion, SoftDelete,
       DeleteFails, Store, Expire, conversationVars, seenVars
  <2>2. CASE \E l \in Lister : Lists(l) /\ calm' # calm
    BY <2>2 DEF Lists, ListRuns, ListCache, ListMisses, ListBegins, ListRows, DropCache,
       FillCache, FilledCache, FillFails, RecallNothing, RecallPage, LoadMessage, LoadedPage,
       ListEnds, seenVars
  <2>3. QED
    BY <2>1, <2>2
<1>5. faults = 0
  <2>1. faults' = faults \/ Fault
    BY <1>2, ConversationSteps DEF Lists, ListRuns, ListCache, ListMisses, ListRows, DropCache,
       FillCache, FilledCache, KeepForAnHour, SetExpire, Push, PushFails, FillFails,
       RecallNothing, RecallPage, LoadMessage, LoadedPage, ListEnds, NoFault,
       Deletes, DeleteRuns, Mark, Uncache, QueueDeletion, SoftDelete,
       DeleteFails, Store, Expire, conversationVars
  <2>2. QED
    BY <1>1, <2>1 DEF HistoryOnly
<1>6. (\A m \in Deletable : dpc'[m] = "no") => \A m \in Deletable : dpc[m] = "no"
  <2> SUFFICES ASSUME \A m \in Deletable : dpc'[m] = "no"
               PROVE  dpc' = dpc
    OBVIOUS
  <2>1. ASSUME NEW m \in Deletable, Deletes(m) PROVE FALSE
    <3>1. dpc'[m] # "no"
      BY <1>0, <2>1 DEF Deletes, DeleteRuns, Mark, Uncache, QueueDeletion, SoftDelete,
         DeleteFails, DeleteStep, RestPart
    <3>2. QED
      BY <3>1
  <2>2. QED
    BY <1>2, <2>1, ConversationSteps DEF Lists, ListRuns, ListCache, ListMisses, ListRows,
       DropCache, FillCache, FilledCache, FillFails, RecallNothing, RecallPage, LoadMessage,
       LoadedPage, ListEnds, Store, Expire, conversationVars
<1>7. HistoryOnly
  BY <1>3, <1>4, <1>5, <1>6 DEF HistoryOnly
<1>8. QED
  BY <1>1, <1>2, <1>3, <1>7

LEMMA ListKept ==
  ASSUME ConversationInv, HistoryOnly, HistoryOnly', dated' = dated, ~ Fault,
         NEW l \in Lister, Lists(l)
  PROVE  (ListInv /\ FirstListInv /\ LaterListInv)'
<1>0. /\ StorePart /\ CachePart /\ ListPart /\ FillInv
      /\ ListInv /\ FirstListInv /\ LaterListInv
  BY ConversationParts DEF ConversationInv, HistoryInv
<1>1. UNCHANGED <<rows, waiting>> /\ RowPage' = RowPage
  BY DEF Lists, ListRuns, ListCache, ListMisses, ListRows, DropCache, FillCache, FilledCache,
     FillFails, RecallNothing, RecallPage, LoadMessage, LoadedPage, ListEnds, storeVars, RowPage
<1>2. PICK from, to \in {"idle", "query", "drop", "fill", "expire", "recall", "load"} :
        ListStep(l, from, to)
  BY ListSteps
<1>3. lpc[l] = from /\ lpc' = [lpc EXCEPT ![l] = to] /\ lpc'[l] = to
  BY <1>0, <1>2 DEF ListStep, ListPart
<1>4. \A k \in Lister \ {l} : lpc[k] = "idle" /\ lpc'[k] = "idle"
  <2>1. CASE from = "idle"
    <3>1. ListBegins(l, "recall") \/ ListBegins(l, "query")
      BY <1>3, <2>1 DEF Lists, ListRuns, ListCache, ListMisses, ListRows, DropCache, FillCache,
         FilledCache, FillFails, RecallNothing, RecallPage, LoadMessage, LoadedPage, ListEnds,
         ListStep
    <3>2. \A k \in Lister : lpc[k] = "idle"
      BY <3>1, Zenon DEF ListBegins, HistoryOnly
    <3>3. QED
      BY <1>0, <1>3, <3>2 DEF ListPart
  <2>2. CASE from # "idle"
    BY <1>0, <1>3, <2>2 DEF ListInv, ListPart
  <2>3. QED
    BY <2>1, <2>2
<1>5. SUFFICES /\ to \in {"query", "drop"} => cache' = <<>>
               /\ to = "fill" => ToSet(todo'[l]) \subseteq ToSet(page'[l])
               /\ to = "load" => ToSet(page'[l]) \subseteq memory' \cup ToSet(todo'[l])
               /\ FirstListInv' /\ LaterListInv'
  BY <1>0, <1>1, <1>3, <1>4 DEF ListInv
<1>6. /\ \A k \in Lister : Listing(k)' => k = l
      /\ (\A k \in Lister : ~ Filled(k)') <=> to \notin {"fill", "expire", "recall", "load"}
      /\ Loading' <=> to = "load"
      /\ Loading <=> from = "load"
      /\ Listing(l)' <=> to \in {"drop", "fill", "expire", "recall", "load"}
      /\ (\A k \in Lister : ~ Filled(k)) <=> from \notin {"fill", "expire", "recall", "load"}
  BY <1>3, <1>4 DEF Listing, Filled, Loading
<1> USE DEF FirstListInv, LaterListInv
<1>7. CASE ListCache(l)
  <2>1. /\ cache # <<>> /\ cache' = cache /\ memory' = memory /\ from = "idle" /\ to = "recall"
        /\ page' = [page EXCEPT ![l] = FirstPage(cache)]
    BY <1>0, <1>3, <1>7 DEF ListCache, ListBegins, ListStep, ListPart, cacheVars, storeVars
  <2>2. page'[l] = FirstPage(cache) /\ ToSet(FirstPage(cache)) \subseteq ToSet(cache)
    BY <1>0, <2>1, PageTypes DEF ListPart, CachePart
  <2>3. memory # {} /\ ~ Loading
    BY <1>0, <1>6, <2>1
  <2>4. QED
    BY <1>0, <1>1, <1>6, <2>1, <2>2, <2>3
<1>8. CASE ListMisses(l)
  <2>1. /\ cache = <<>> /\ cache' = cache /\ memory' = memory /\ from = "idle" /\ to = "query"
    BY <1>0, <1>3, <1>8 DEF ListMisses, ListBegins, ListStep, ListPart, cacheVars, storeVars
  <2>2. QED
    BY <1>0, <1>1, <1>6, <2>1
<1>9. CASE ListRows(l)
  <2>1. /\ cache' = cache /\ memory' = memory /\ from = "query" /\ to \in {"idle", "drop"}
        /\ page' = [page EXCEPT ![l] = RowPage]
    BY <1>0, <1>3, <1>9 DEF ListRows, ListStep, ListPart, cacheVars, storeVars
  <2>2. cache = <<>> /\ page'[l] = RowPage /\ ToSet(cache) = {}
    BY <1>0, <1>3, <2>1, SetOfNone DEF ListInv, ListPart
  <2>3. QED
    BY <1>0, <1>1, <1>6, <2>1, <2>2
<1>10. CASE DropCache(l)
  <2>1. /\ cache' = <<>> /\ memory' = memory /\ from = "drop" /\ to = "fill" /\ page' = page
        /\ todo' = [todo EXCEPT ![l] = page[l]]
    BY <1>0, <1>3, <1>10 DEF DropCache, Delete, ListStep, ListPart, storeVars
  <2>2. todo'[l] = page[l] /\ ToSet(cache') = {}
    BY <1>0, <2>1, SetOfNone DEF ListPart
  <2>3. QED
    BY <1>0, <1>1, <1>3, <1>6, <2>1, <2>2 DEF Listing
<1>11. CASE FillCache(l)
  <2>1. /\ cache' = Append(cache, Head(todo[l])) /\ memory' = memory /\ page' = page
        /\ from = "fill" /\ to \in {"fill", "expire"}
        /\ todo' = [todo EXCEPT ![l] = Tail(todo[l])]
    BY <1>3, <1>11 DEF FillCache, Push, ListStep, storeVars
  <2>2. todo[l] # <<>> /\ todo[l] \in Seq(Message)
    BY <1>0, <1>3, <2>1 DEF FillInv, ListPart
  <2>3. /\ ToSet(todo[l]) = {Head(todo[l])} \cup ToSet(todo'[l])
        /\ ToSet(cache') = ToSet(cache) \cup {Head(todo[l])}
    BY <1>0, <2>1, <2>2, TailTypes, PushSet DEF CachePart, ListPart
  <2>4. ToSet(todo[l]) \subseteq ToSet(page[l])
    BY <1>0, <1>3, <2>1 DEF ListInv
  <2>5. QED
    BY <1>0, <1>1, <1>3, <1>6, <2>1, <2>3, <2>4 DEF Listing
<1>12. CASE FilledCache(l)
  <2>1. /\ cache' = cache /\ memory' = memory /\ page' = page /\ from = "expire" /\ to = "recall"
    BY <1>0, <1>3, <1>12 DEF FilledCache, KeepForAnHour, SetExpire, ListStep, ListPart, storeVars
  <2>2. QED
    BY <1>0, <1>1, <1>3, <1>6, <2>1 DEF Listing
<1>13. CASE RecallNothing(l)
  <2>1. /\ cache' = cache /\ memory' = memory /\ memory # {} /\ from = "recall" /\ to = "idle"
    BY <1>0, <1>3, <1>13 DEF RecallNothing, Forgotten, ListStep, ListPart, cacheVars, storeVars
  <2>2. QED
    BY <1>0, <1>1, <1>6, <2>1
<1>14. CASE RecallPage(l)
  <2>1. /\ cache' = cache /\ memory' = memory /\ memory = {} /\ from = "recall" /\ to = "load"
        /\ page' = page /\ todo' = [todo EXCEPT ![l] = page[l]]
    BY <1>0, <1>3, <1>14 DEF RecallPage, Forgotten, ListStep, ListPart, cacheVars, storeVars
  <2>2. todo'[l] = page[l]
    BY <1>0, <2>1 DEF ListPart
  <2>3. QED
    BY <1>0, <1>1, <1>3, <1>6, <2>1, <2>2 DEF Listing
<1>15. CASE LoadMessage(l)
  <2>1. /\ cache' = cache /\ page' = page /\ from = "load" /\ to = "load" /\ todo[l] # <<>>
        /\ memory' = memory \cup {Head(todo[l])}
        /\ todo' = [todo EXCEPT ![l] = Tail(todo[l])]
    BY <1>3, <1>15 DEF LoadMessage, Recall, ListStep, cacheVars
  <2>2. ToSet(todo[l]) = {Head(todo[l])} \cup ToSet(todo'[l])
    BY <1>0, <2>1, TailTypes DEF ListPart
  <2>3. ToSet(page[l]) \subseteq memory \cup ToSet(todo[l])
    BY <1>0, <1>3, <2>1 DEF ListInv
  <2>4. QED
    BY <1>0, <1>1, <1>3, <1>6, <2>1, <2>2, <2>3 DEF Listing
<1>16. CASE LoadedPage(l)
  <2>1. /\ cache' = cache /\ memory' = memory /\ from = "load" /\ to = "idle" /\ todo[l] = <<>>
    BY <1>0, <1>3, <1>16 DEF LoadedPage, ListStep, ListPart, cacheVars, storeVars
  <2>2. ToSet(page[l]) \subseteq memory
    BY <1>0, <1>3, <2>1, SetOfNone DEF ListInv
  <2>3. ToSet(RowPage) \cup ToSet(cache) \subseteq ToSet(page[l])
    BY <1>0, <1>3, <1>6, <2>1 DEF Listing
  <2>4. memory = {} => cache = <<>>
    <3>1. memory = {} => ToSet(cache) = {}
      BY <2>2, <2>3
    <3>2. QED
      BY <1>0, <3>1, SetOfNone DEF CachePart
  <2>5. QED
    BY <1>1, <1>6, <2>1, <2>2, <2>3, <2>4
<1>17. CASE FillFails(l) \/ ListEnds(l)
  BY <1>17 DEF FillFails, ListEnds, PushFails
<1>18. QED
  BY <1>7, <1>8, <1>9, <1>10, <1>11, <1>12, <1>13, <1>14, <1>15, <1>16, <1>17
     DEF Lists, ListRuns

\* The cache is deleted, or a row.
LEMMA RowsKept ==
  ASSUME ConversationInv, HistoryOnly, HistoryOnly', dated' = dated,
         UNCHANGED <<waiting, memory, lpc, page, todo>>, cache' \in {cache, <<>>},
         rows' \in Seq(Message), Len(rows') <= Len(rows),
         ToSet(RowPage') \subseteq ToSet(RowPage)
  PROVE  (ListInv /\ FirstListInv /\ LaterListInv)'
<1>1. /\ StorePart /\ ListInv /\ FirstListInv /\ LaterListInv
  BY ConversationParts DEF ConversationInv, HistoryInv
<1>2. ToSet(cache') \subseteq ToSet(cache)
  BY SetOfNone
<1>3. Len(rows') <= Len(dated)
  <2>1. Len(rows') \in Nat /\ Len(rows) \in Nat /\ Len(dated) \in Nat
    BY <1>1 DEF StorePart
  <2>2. QED
    BY <1>1, <2>1 DEF ListInv
<1>4. ListInv'
  BY <1>1, <1>3 DEF ListInv
<1>5. FirstListInv' /\ LaterListInv'
  BY <1>1, <1>2 DEF FirstListInv, LaterListInv, Listing, Filled, Loading
<1>6. QED
  BY <1>4, <1>5

LEMMA HistoryKept ==
  ASSUME ConversationInv, [ConversationNext]_conversationVars
  PROVE  HistoryInv'
<1> SUFFICES ASSUME HistoryOnly' PROVE (ListInv /\ FirstListInv /\ LaterListInv)'
  BY DEF HistoryInv
<1>0. /\ HistoryOnly /\ dated' = dated /\ ~ Fault /\ ~ \E t \in Turn : Sends(t)
      /\ StorePart /\ CachePart /\ RestPart /\ ListInv
  BY HistoryStays, ConversationParts DEF ConversationInv, HistoryInv
<1>1. CASE \E l \in Lister : Lists(l)
  BY <1>0, <1>1, ListKept
<1>2. ASSUME NEW m \in Deletable, Deletes(m) PROVE (ListInv /\ FirstListInv /\ LaterListInv)'
  <2>1. UNCHANGED <<waiting, memory, lpc, page, todo>> /\ cache' \in {cache, <<>>}
    BY <1>2 DEF Deletes, DeleteRuns, Mark, Uncache, QueueDeletion, SoftDelete, DeleteFails,
       storeVars, cacheVars, listVars, Delete
  <2>2. CASE SoftDelete(m)
    <3>1. PICK i \in DOMAIN rows : rows' = RemoveAt(rows, i)
      BY <2>2 DEF SoftDelete
    <3>2. /\ rows' \in Seq(Message) /\ ToSet(rows') \subseteq ToSet(rows)
          /\ Len(rows') <= Len(rows)
      BY <1>0, <3>1, RemoveTypes DEF StorePart
    <3>3. Len(rows) <= PageSize /\ Len(rows') <= PageSize
      <4>1. dpc[m] # "no"
        BY <2>2 DEF SoftDelete, DeleteStep
      <4>2. Len(dated) <= PageSize /\ Len(rows) <= Len(dated)
        BY <1>0, <4>1 DEF HistoryOnly, ListInv
      <4>3. Len(rows) \in Nat /\ Len(rows') \in Nat /\ Len(dated) \in Nat /\ PageSize \in Nat
        BY <1>0, <3>2, ConversationAssumption DEF StorePart
      <4>4. QED
        BY <3>2, <4>2, <4>3
    <3>4. RowPage = rows /\ RowPage' = rows'
      <4>1. FirstPage(rows) = rows /\ FirstPage(rows') = rows'
        BY <1>0, <3>2, <3>3, PageTypes DEF StorePart
      <4>2. QED
        BY <4>1 DEF RowPage, FirstPage
    <3>5. QED
      BY <1>0, <2>1, <3>2, <3>4, RowsKept
  <2>3. CASE ~ SoftDelete(m)
    <3>1. rows' = rows
      BY <1>2, <2>3 DEF Deletes, DeleteRuns, Mark, Uncache, QueueDeletion, DeleteFails, storeVars
    <3>2. QED
      BY <1>0, <2>1, <3>1, RowsKept DEF RowPage, FirstPage, StorePart
  <2>4. QED
    BY <2>2, <2>3
<1>3. CASE \E m \in waiting : Store(m)
  BY <1>0, <1>3 DEF ListInv
<1>4. CASE Expire \/ UNCHANGED conversationVars
  <2>1. UNCHANGED <<waiting, memory, lpc, page, todo, rows>> /\ cache' \in {cache, <<>>}
    BY <1>4 DEF Expire, conversationVars, storeVars, cacheVars, listVars, Delete
  <2>2. QED
    BY <1>0, <2>1, RowsKept DEF RowPage, FirstPage, StorePart
<1>5. QED
  BY <1>0, <1>1, <1>2, <1>3, <1>4, ConversationSteps

LEMMA ConversationInvStart == ConversationInit => ConversationInv
<1> SUFFICES ASSUME ConversationInit PROVE ConversationInv
  OBVIOUS
<1>1. ConversationTypeOK /\ FillInv /\ StorePart
  BY ConversationStart, ConversationParts
<1>2. ToSet(Past) \subseteq Turn
  BY ConversationAssumption DEF ToSet
<1>3. TurnInv /\ SeenInv
  BY <1>2 DEF ConversationInit, TurnInv, SeenInv
<1>4. ListInv
  BY <1>1 DEF ConversationInit, ListInv, StorePart
<1>5. FirstListInv /\ LaterListInv
  BY DEF ConversationInit, FirstListInv, LaterListInv, Listing, Filled, Loading
<1>6. QED
  BY <1>1, <1>3, <1>4, <1>5 DEF ConversationInv, HistoryInv

\* Whatever turns, lists and deletions overlap and whatever fails, the model answers with
\* everything in mind that the user had seen before he asked: the memory never loses a
\* message, a turn is answered for the user only when it is in the memory, and so is the
\* history that is listed to him (AIChat_service.py:238-271, 389-412,
\* chat_template_impl.py:296-300, 568-583).
THEOREM PastIsKnown == ConversationSpec => KnowsThePast
<1>1. ConversationInv /\ [ConversationNext]_conversationVars => ConversationInv'
  <2> SUFFICES ASSUME ConversationInv, [ConversationNext]_conversationVars
               PROVE  ConversationInv'
    OBVIOUS
  <2>1. ConversationTypeOK' /\ FillInv' /\ TurnInv' /\ SeenInv' /\ HistoryInv'
    BY ConversationKept, TurnKept, SeenKept, HistoryKept DEF ConversationInv
  <2>2. QED
    BY <2>1 DEF ConversationInv
<1>2. ConversationInv /\ [ConversationNext]_conversationVars
        => [\A t \in Turn : tpc[t] = "ask" /\ tpc'[t] = "answer"
              => owed[t] \subseteq memory]_conversationVars
  BY DEF ConversationInv, SeenInv
<1>3. QED
  BY <1>1, <1>2, ConversationInvStart, PTL DEF ConversationSpec, KnowsThePast
===============================================================================
