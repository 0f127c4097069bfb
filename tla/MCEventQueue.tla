---------------------------- MODULE MCEventQueue ----------------------------
(* Small instances of EventQueue. *)
EXTENDS EventQueue, TLC

CONSTANTS p1, p2, a, b, c, u, v, e1, e2

\* Two subscribers in one process; another process subscribes under a name of the first.
Homes == a :> p1 @@ b :> p1 @@ c :> p2
Ids == a :> u @@ b :> v @@ c :> u

\* b wants events of one type only, and c none that its process publishes.
Sources == e1 :> p1 @@ e2 :> p1
Types == e1 :> {a, b} @@ e2 :> {a}

\* The other process has started first and goes on, a request publishes both events in
\* turn, and one thing goes wrong, before the second.
MCNext ==
    /\ Next
    /\ loop'[c] # "none" /\ c \in subs'
    /\ pub'[e2] # "new" => pub[e1] \in {"published", "failed"}
    /\ faults' + stops' > faults + stops => faults + stops = 0 /\ pub[e2] = "new"

MCSpec == Init /\ [][MCNext]_vars /\ Fairness
=============================================================================
