------------------------------- MODULE Delivery -------------------------------
(***************************************************************************)
(* What a message queue with retries promises: an accepted message is      *)
(* handled until a handler succeeds, at most MaxRetries + 1 times, and     *)
(* only then given up.  Success and giving up are final.                   *)
(***************************************************************************)
EXTENDS Naturals

CONSTANTS Message, MaxRetries

VARIABLES
    status,   \* new, accepted, done, dead
    failures  \* unsuccessful attempts so far

Init ==
    /\ status = [m \in Message |-> "new"]
    /\ failures = [m \in Message |-> 0]

Accept(m) ==
    /\ status[m] = "new"
    /\ status' = [status EXCEPT ![m] = "accepted"]
    /\ UNCHANGED failures

Fail(m) ==
    /\ status[m] = "accepted"
    /\ failures[m] <= MaxRetries
    /\ failures' = [failures EXCEPT ![m] = @ + 1]
    /\ UNCHANGED status

Complete(m) ==
    /\ status[m] = "accepted"
    /\ failures[m] <= MaxRetries
    /\ status' = [status EXCEPT ![m] = "done"]
    /\ UNCHANGED failures

GiveUp(m) ==
    /\ status[m] = "accepted"
    /\ failures[m] = MaxRetries + 1
    /\ status' = [status EXCEPT ![m] = "dead"]
    /\ UNCHANGED failures

Next == \E m \in Message : Accept(m) \/ Fail(m) \/ Complete(m) \/ GiveUp(m)

Spec == Init /\ [][Next]_<<status, failures>>
=============================================================================
