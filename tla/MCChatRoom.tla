------------------------------ MODULE MCChatRoom ------------------------------
(* A small instance of ChatRoom: one room, a renaming and two deletions. *)
EXTENDS ChatRoom, TLC

CONSTANTS g1, d1, d2, u1

OneRoom == d1 :> g1 @@ d2 :> g1 @@ u1 :> g1

\* Bounds: two of a fault, a copied job and an expiry come together with one deletion, one
\* of them with a renaming.  d2 is the deletion that begins later, in behaviours without a
\* renaming and without faults that have a copied job or an expiry.
Others == faults' + copies' + expiries'

Bounded ==
    /\ Others <= 2
    /\ upc'[u1] # "queue" => Others <= 1
    /\ dpc'[d2] # "mark" =>
          dpc[d1] # "mark" /\ upc'[u1] = "queue" /\ faults' = 0 /\ Others <= 1

MCNext == Next /\ Bounded

MCSpec == Init /\ [][MCNext]_vars /\ Fairness
=============================================================================
