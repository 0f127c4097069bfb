----------------------------- MODULE MCWebSocket -----------------------------
(* Small instances of WebSocket. *)
EXTENDS WebSocket, TLC

CONSTANTS k1, k2, i1, i2, u1, u2, c1

\* Two users, each with a connection, under one client id or under two.
Users == k1 :> u1 @@ k2 :> u2

IdMaps == {k1 :> i1 @@ k2 :> i1, k1 :> i1 @@ k2 :> i2}

CallsMade == {[kind |-> "user", name |-> u1], [kind |-> "channel", name |-> c1]}

\* Only one of the peers ever sends a ping and can be found inactive.
MCNext == Next /\ ping'[k2] = "never"
MCSpec == Init /\ [][MCNext]_vars /\ Fairness
=============================================================================
