----------------------------- MODULE MCScheduler -----------------------------
(* Small instances of Scheduler. *)
EXTENDS Scheduler, TLC

CONSTANTS p1, p2

\* Runs overlap in the first process, and contend with those of the second.
TwoAndOne == p1 :> 2 @@ p2 :> 1

\* Processes share nothing but locks: without one, the second process stays down.  What
\* goes wrong does so in the first process, while the second one works or waits.
MCNext ==
    /\ Next
    /\ locked = {} => up'[p2] = "down"
    /\ events' > events =>
         /\ up'[p2] = up[p2]
         /\ \A e \in Entry : e[1] = p2 => (e \in jobs' <=> e \in jobs)
         /\ \A r \in Run : r[1] = p2 => pc'[r] = pc[r]

MCSpec == Init /\ [][MCNext]_vars /\ Fairness
=============================================================================
