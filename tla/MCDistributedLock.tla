-------------------------- MODULE MCDistributedLock --------------------------
(* Small instances of DistributedLock. *)
EXTENDS DistributedLock, TLC

CONSTANTS p1, p2, t1, t2, t3

\* Two coroutines in the first process, one in the second.
Shared == t1 :> p1 @@ t2 :> p1 @@ t3 :> p2
=============================================================================
