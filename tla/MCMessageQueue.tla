---------------------------- MODULE MCMessageQueue ----------------------------
(* Small instances of MessageQueue. *)
EXTENDS MessageQueue, TLC

CONSTANTS m1, m2, m3

\* m1 and m2 are urgent, m3 is not.
Ranks == m1 :> 2 @@ m2 :> 2 @@ m3 :> 1

\* Three messages without a failure, or the first two with one; and with two, as
\* long as only one mover had each message.  enqueue is called or not, without
\* fairness, so that these are behaviours of FairSpec.
MCNext ==
    /\ Next
    /\ faults' + stops' > 0 => phase'[m3] = "new"
    /\ faults' + stops' > 1 => contested' = {}

MCSpec == Init /\ [][MCNext]_vars /\ Fairness
=============================================================================
