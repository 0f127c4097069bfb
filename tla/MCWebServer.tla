----------------------------- MODULE MCWebServer -----------------------------
(* Small instances of WebServer. *)
EXTENDS WebServer, TLC

CONSTANTS s1, s2

\* One server is started again, over what its first run left in Redis.
Restart == s1 :> 2 @@ s2 :> 1

\* A service fails, or a Redis command, or both in one step.
MCNext ==
    /\ Next
    /\ faults' > faults => failures = 0
    /\ failures' > failures => faults = 0

MCSpec == Init /\ [][MCNext]_vars /\ Fairness
=============================================================================
