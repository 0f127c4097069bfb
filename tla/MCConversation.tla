---------------------------- MODULE MCConversation ----------------------------
(* Small instances of Conversation. *)
EXTENDS Conversation, FiniteSets

CONSTANTS t0, t1, t2, l1, l2, p1, p2

OneTurn   == <<t0>>
OldAnswer == {Answer(t0)}
Spread    == [h \in Turn \cup Lister |-> IF h \in {t2, l2} THEN p2 ELSE p1]

\* Beside one turn and the lists: a second turn after it, a deletion, lists that overlap
\* before the first turn, or a fault, one of them.
Begun  == {t \in Turn \ ToSet(Past) : tpc[t] # "begin"}
Extras ==
    faults + (IF calm THEN 0 ELSE 1) + (IF t2 \in Begun THEN 1 ELSE 0)
           + Cardinality({m \in Deletable : dpc[m] # "no"})

OneExtra ==
    /\ Extras <= 1
    /\ t2 \in Begun => tpc[t1] \in {"done", "failed"}
    /\ Begun # {} => Cardinality({l \in Lister : lpc[l] # "idle"}) <= 1

MCNext == ConversationNext /\ OneExtra'
MCSpec == ConversationInit /\ [][MCNext]_conversationVars /\ ConversationFairness
=============================================================================
