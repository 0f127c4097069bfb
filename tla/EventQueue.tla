----------------------------- MODULE EventQueue -----------------------------
(***************************************************************************)
(* The event queue of service/queue/event_queue.py: publication to the     *)
(* subscriptions of a process, through one Redis list per subscriber_id,   *)
(* and the task of each subscription that takes events from its list and   *)
(* calls the callback.                                                     *)
(*                                                                         *)
(* Two subscriptions with one subscriber_id, in one process or in several  *)
(* (every process subscribes as "system" and "health_check_subscriber"),   *)
(* take from one list.  The dictionary of the subscriptions is iterated    *)
(* over while publish waits for Redis: the iterator raises when the size   *)
(* of the dictionary has changed, and it keeps its place otherwise, which  *)
(* holds until the sixth insertion makes the dictionary move its entries.  *)
(* A process that starts again is another process here, as nothing of its  *)
(* memory is left.  What a callback returns is only counted, and so are    *)
(* active_subscribers and the history: they are left out.                  *)
(***************************************************************************)
EXTENDS Naturals, Sequences, FiniteSets

CONSTANTS
    Process,
    Subscription,
    Subscriber,   \* subscriber_ids
    Event,
    Home,         \* the process of a subscription
    Id,           \* its subscriber_id
    Source,       \* the process that publishes an event
    Wanted,       \* the subscriptions that have the type of an event
    MaxFaults,    \* bound: Redis commands that fail or whose reply is lost
    MaxStops      \* bound: processes that crash

ASSUME EventQueueAssumption ==
    /\ IsFiniteSet(Subscription)
    /\ Home \in [Subscription -> Process]
    /\ Id \in [Subscription -> Subscriber]
    /\ Source \in [Event -> Process]
    /\ Wanted \in [Event -> SUBSET Subscription]
    /\ MaxFaults \in Nat /\ MaxStops \in Nat

VARIABLES
    up,        \* processes that run
    subs,      \* subscriptions in the dictionary of their process
    entries,   \* of each process: the subscriptions in the order of their insertion
    pub,       \* each event: new, recording, pushing, published, failed
    place,     \* where the iterator of its publication stands in entries
    size,      \* the size of the dictionary when the iterator was made
    queue,     \* Redis: the list of each subscriber_id
    loop,      \* the task of each subscription: none, looking, asking, calling, off
    held,      \* the event it has taken, if any
    seen,      \* the events given to its callback
    cover,     \* subscriptions that want an event, and were there all the time since
    reached,   \* subscriptions for which an event was pushed
    late,      \* callbacks called after the end of a subscription
    faults, stops

bounds == <<faults, stops>>
publication == <<pub, place, size, reached>>
vars == <<up, subs, entries, publication, queue, loop, held, seen, cover, late, bounds>>

TypeOK ==
    /\ up \subseteq Process
    /\ subs \subseteq Subscription
    /\ entries \in [Process -> Seq(Subscription)]
    /\ pub \in [Event -> {"new", "recording", "pushing", "published", "failed"}]
    /\ place \in [Event -> Nat]
    /\ size \in [Event -> Nat]
    /\ queue \in [Subscriber -> Seq(Event)]
    /\ loop \in [Subscription -> {"none", "looking", "asking", "calling", "off"}]
    /\ held \in [Subscription -> SUBSET Event]
    /\ seen \in [Subscription -> SUBSET Event]
    /\ cover \in [Event -> SUBSET Subscription]
    /\ reached \in [Event -> SUBSET Subscription]
    /\ late \in [Subscription -> Nat]
    /\ faults \in 0..MaxFaults /\ stops \in 0..MaxStops

Init ==
    /\ up = Process /\ subs = {}
    /\ entries = [p \in Process |-> <<>>]
    /\ pub = [e \in Event |-> "new"]
    /\ place = [e \in Event |-> 0]
    /\ size = [e \in Event |-> 0]
    /\ queue = [u \in Subscriber |-> <<>>]
    /\ loop = [s \in Subscription |-> "none"]
    /\ held = [s \in Subscription |-> {}]
    /\ seen = [s \in Subscription |-> {}]
    /\ cover = [e \in Event |-> {}]
    /\ reached = [e \in Event |-> {}]
    /\ late = [s \in Subscription |-> 0]
    /\ faults = 0 /\ stops = 0

\* The dictionary of a process.
Mine(p) == {s \in subs : Home[s] = p}

Fault == faults < MaxFaults /\ faults' = faults + 1 /\ UNCHANGED stops

-----------------------------------------------------------------------------
(* publish                                                                 *)

\* A request publishes an event: it goes to the history first.
Publish(e) ==
    /\ Source[e] \in up
    /\ pub[e] = "new"
    /\ pub' = [pub EXCEPT ![e] = "recording"]
    /\ cover' = [cover EXCEPT ![e] = Mine(Source[e]) \cap Wanted[e]]
    /\ UNCHANGED <<up, subs, entries, place, size, queue, loop, held, seen, reached, late,
                   bounds>>

\* The entries after place k that publish does not pass over.
Ahead(e, k) ==
    {i \in DOMAIN entries[Source[e]] : i > k /\ entries[Source[e]][i] \in subs \cap Wanted[e]}

\* The loop of publish goes on behind place k: to the next subscription that wants
\* the event, or to the end of the dictionary.
Advance(e, k) ==
    \/ /\ Ahead(e, k) = {}
       /\ pub' = [pub EXCEPT ![e] = "published"]
       /\ UNCHANGED place
    \/ \E i \in Ahead(e, k) :
         /\ \A j \in Ahead(e, k) : i <= j
         /\ pub' = [pub EXCEPT ![e] = "pushing"]
         /\ place' = [place EXCEPT ![e] = i]

\* publish catches what is raised, and returns None.
Fails(e) == pub' = [pub EXCEPT ![e] = "failed"] /\ UNCHANGED place

\* The event is in the history; the iterator is made.
Record(e) ==
    /\ pub[e] = "recording"
    /\ size' = [size EXCEPT ![e] = Cardinality(Mine(Source[e]))]
    /\ Advance(e, 0)
    /\ UNCHANGED <<up, subs, entries, queue, loop, held, seen, cover, reached, late, bounds>>

RecordFails(e) ==
    /\ pub[e] = "recording"
    /\ Fault
    /\ Fails(e)
    /\ UNCHANGED <<up, subs, entries, size, queue, loop, held, seen, cover, reached,
                   late>>

\* The subscription that an event is being pushed for.
Target(e) == entries[Source[e]][place[e]]

PushToTarget(e) ==
    /\ queue' = [queue EXCEPT ![Id[Target(e)]] = Append(@, e)]
    /\ reached' = [reached EXCEPT ![e] = @ \cup {Target(e)}]

\* The event is pushed, and the loop goes on unless the size has changed.
Push(e) ==
    /\ pub[e] = "pushing"
    /\ PushToTarget(e)
    /\ IF Cardinality(Mine(Source[e])) # size[e] THEN Fails(e) ELSE Advance(e, place[e])
    /\ UNCHANGED <<up, subs, entries, size, loop, held, seen, cover, late, bounds>>

\* The reply of the push is lost, and the Redis client tries again.
PushAgain(e) ==
    /\ pub[e] = "pushing"
    /\ Fault
    /\ PushToTarget(e)
    /\ UNCHANGED <<up, subs, entries, pub, place, size, loop, held, seen, cover, late>>

\* A mutant of GiveUp: the loop goes on after a push that failed.
PassOver(e) == Advance(e, place[e])

\* The tries of the client are used up: it raises.
GiveUp(e) == Fails(e)

PushFails(e) ==
    /\ pub[e] = "pushing"
    /\ Fault
    /\ GiveUp(e)
    /\ UNCHANGED <<up, subs, entries, size, queue, loop, held, seen, cover, reached,
                   late>>

-----------------------------------------------------------------------------
(* subscribe, unsubscribe and unsubscribe_all                              *)

Subscribe(s) ==
    /\ Home[s] \in up
    /\ loop[s] = "none"
    /\ subs' = subs \cup {s}
    /\ entries' = [entries EXCEPT ![Home[s]] = Append(@, s)]
    /\ loop' = [loop EXCEPT ![s] = "looking"]
    /\ UNCHANGED <<up, publication, queue, held, seen, cover, late, bounds>>

\* These subscriptions are no more in their dictionary.
Remove(gone) ==
    /\ subs' = subs \ gone
    /\ cover' = [e \in Event |-> cover[e] \ gone]

Unsubscribe(s) ==
    /\ Home[s] \in up
    /\ s \in subs
    /\ Remove({s})
    /\ UNCHANGED <<up, entries, publication, queue, loop, held, seen, late, bounds>>

\* The shutdown of the manager; a request may still publish afterwards.
UnsubscribeAll(p) ==
    /\ p \in up
    /\ Mine(p) # {}
    /\ Remove(Mine(p))
    /\ UNCHANGED <<up, entries, publication, queue, loop, held, seen, late, bounds>>

-----------------------------------------------------------------------------
(* _process_subscriber_events                                              *)

\* A mutant of Continues: the loop looks only at what it was started with.
ContinuesAlways(s) == loop[s] = "looking"

Continues(s) == loop[s] = "looking" /\ s \in subs

Ask(s) ==
    /\ loop[s] = "looking"
    /\ loop' = [loop EXCEPT ![s] = IF Continues(s) THEN "asking" ELSE "off"]
    /\ UNCHANGED <<up, subs, entries, publication, queue, held, seen, cover, late, bounds>>

\* A mutant of Rest: the task ends when there is nothing to do.
Quit(s) == loop' = [loop EXCEPT ![s] = "off"]

\* The task sleeps, and looks again.
Rest(s) == loop' = [loop EXCEPT ![s] = "looking"]

\* LPOP: an empty list lets the task sleep.
Take(s) ==
    /\ loop[s] = "asking"
    /\ LET list == queue[Id[s]]
       IN  IF list = <<>>
           THEN Rest(s) /\ UNCHANGED <<queue, held>>
           ELSE /\ loop' = [loop EXCEPT ![s] = "calling"]
                /\ queue' = [queue EXCEPT ![Id[s]] = Tail(list)]
                /\ held' = [held EXCEPT ![s] = {Head(list)}]
    /\ UNCHANGED <<up, subs, entries, publication, seen, cover, late, bounds>>

\* The reply is lost, the client tries again, and the event is gone.
TakeAgain(s) ==
    /\ loop[s] = "asking"
    /\ queue[Id[s]] # <<>>
    /\ Fault
    /\ queue' = [queue EXCEPT ![Id[s]] = Tail(@)]
    /\ UNCHANGED <<up, subs, entries, publication, loop, held, seen, cover, late>>

\* The operation fails: the error is logged and the task sleeps.
TakeFails(s) ==
    /\ loop[s] = "asking"
    /\ Fault
    /\ Rest(s)
    /\ UNCHANGED <<up, subs, entries, publication, queue, held, seen, cover, late>>

\* The callback returns or raises; the event is not given to it again.
Call(s) ==
    /\ loop[s] = "calling"
    /\ loop' = [loop EXCEPT ![s] = "looking"]
    /\ seen' = [seen EXCEPT ![s] = @ \cup held[s]]
    /\ held' = [held EXCEPT ![s] = {}]
    /\ late' = [late EXCEPT ![s] = IF s \in subs THEN @ ELSE @ + 1]
    /\ UNCHANGED <<up, subs, entries, publication, queue, cover, bounds>>

-----------------------------------------------------------------------------
\* A process ends: what it was publishing and what its tasks held is gone.
Crash(p) ==
    /\ p \in up
    /\ stops < MaxStops /\ stops' = stops + 1 /\ UNCHANGED faults
    /\ up' = up \ {p}
    /\ Remove(Mine(p))
    /\ pub' = [e \in Event |->
                 IF Source[e] = p /\ pub[e] # "published" THEN "failed" ELSE pub[e]]
    /\ loop' = [s \in Subscription |-> IF Home[s] = p THEN "off" ELSE loop[s]]
    /\ held' = [s \in Subscription |-> IF Home[s] = p THEN {} ELSE held[s]]
    /\ UNCHANGED <<entries, place, size, queue, seen, reached, late>>

PublishStep(e) ==
    \/ Record(e) \/ RecordFails(e)
    \/ Push(e) \/ PushAgain(e) \/ PushFails(e)

TaskStep(s) == Ask(s) \/ Take(s) \/ TakeAgain(s) \/ TakeFails(s) \/ Call(s)

Next ==
    \/ \E e \in Event : Publish(e) \/ PublishStep(e)
    \/ \E s \in Subscription : Subscribe(s) \/ Unsubscribe(s) \/ TaskStep(s)
    \/ \E p \in Process : UnsubscribeAll(p) \/ Crash(p)

Spec == Init /\ [][Next]_vars

\* Redis answers or the client gives up, and a callback returns.
Fairness ==
    /\ \A e \in Event : WF_vars(PublishStep(e))
    /\ \A s \in Subscription : WF_vars(TaskStep(s))

FairSpec == Spec /\ Fairness

-----------------------------------------------------------------------------
(* Properties                                                              *)

\* When publish returns True, the event was pushed for every subscription that wants
\* it and was there from the call to the return, although subscriptions come and go
\* while publish waits for Redis, and commands fail (event_queue.py:157-171).
PublishedReaches ==
    \A e \in Event : pub[e] = "published" => cover[e] \subseteq reached[e]

\* After unsubscribe the callback is called once more at most, with an event that was
\* being taken or handled (event_queue.py:196-208, 244-279).
LateOnce == \A s \in Subscription : late[s] <= 1

\* A published event gets to a callback of each subscriber_id that was subscribed all
\* the time, as long as one of its subscriptions remains (event_queue.py:244-288).
PublishedIsHandled ==
    \A e \in Event : \A s \in Wanted[e] :
        (pub[e] = "published" /\ s \in cover[e]) ~>
            \/ \E t \in Subscription : Id[t] = Id[s] /\ e \in seen[t]
            \/ s \notin subs
            \/ faults + stops > 0
=============================================================================
