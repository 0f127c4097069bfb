------------------------------ MODULE LeaseLock ------------------------------
(***************************************************************************)
(* What a distributed lock with a lifetime promises its callers: each key  *)
(* is owned by at most one task at a time, and ownership passes through    *)
(* nobody.  Several keys may change hands in one step (one tick of the     *)
(* clock or one crash can end several leases).                             *)
(***************************************************************************)
CONSTANTS Key, Task, NoTask

VARIABLE owner

Init == owner = [k \in Key |-> NoTask]

\* A free key is granted to one task, an owned key becomes free.
Grant(k)  == owner[k] = NoTask /\ owner'[k] \in Task
Forfeit(k) == owner[k] \in Task /\ owner'[k] = NoTask

Next ==
    /\ owner' \in [Key -> Task \cup {NoTask}]
    /\ \A k \in Key : owner'[k] = owner[k] \/ Grant(k) \/ Forfeit(k)

Spec == Init /\ [][Next]_owner
=============================================================================
