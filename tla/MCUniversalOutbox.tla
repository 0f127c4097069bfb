-------------------------- MODULE MCUniversalOutbox --------------------------
(* Small instances of UniversalOutbox. *)
EXTENDS UniversalOutbox, TLC

CONSTANTS e1, e2, s1, s2

\* Two events of one partition; the other shard is visited and empty.
Shards     == e1 :> s1 @@ e2 :> s1
Partitions == e1 :> 1 @@ e2 :> 1
=============================================================================
