---------------------------- MODULE MCChatMessage ----------------------------
(* Small instances of ChatMessage. *)
EXTENDS ChatMessage, TLC

CONSTANTS r1, g1

OneRequest == r1 :> g1
=============================================================================
