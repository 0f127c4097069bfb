--------------------------- MODULE EventQueueProofs ---------------------------
(***************************************************************************)
(* Proofs about EventQueue: types; that publish passes over no             *)
(* subscription while others come and go; and that at most one callback is *)
(* called after a subscription has ended.                                  *)
(***************************************************************************)
EXTENDS EventQueue, FiniteSetTheorems, TLAPS

-----------------------------------------------------------------------------
(* Types                                                                   *)

\* The size of a dictionary is a number.
LEMMA SizeIsNat ==
  ASSUME TypeOK, NEW p \in Process
  PROVE  Cardinality(Mine(p)) \in Nat
<1>1. Mine(p) \subseteq Subscription
  BY DEF Mine, TypeOK
<1>2. IsFiniteSet(Mine(p))
  BY <1>1, EventQueueAssumption, FS_Subset
<1>3. QED
  BY <1>2, FS_CardinalityType

\* A publication that pushes stands at an entry of its dictionary.
Pointing == \A e \in Event : pub[e] = "pushing" => place[e] \in DOMAIN entries[Source[e]]

Placed == TypeOK /\ Pointing

\* The loop of publish finds its next place in the dictionary, or it is done.
LEMMA AdvancePlaced ==
  ASSUME TypeOK, NEW e \in Event, NEW k \in Nat, Advance(e, k)
  PROVE  /\ \/ /\ pub' = [pub EXCEPT ![e] = "published"] /\ place' = place
               /\ Ahead(e, k) = {}
            \/ /\ pub' = [pub EXCEPT ![e] = "pushing"]
               /\ place'[e] \in Ahead(e, k)
               /\ \A j \in Ahead(e, k) : place'[e] <= j
         /\ pub' \in [Event -> {"new", "recording", "pushing", "published", "failed"}]
         /\ place' \in [Event -> Nat]
         /\ \A x \in Event \ {e} : place'[x] = place[x] /\ pub'[x] = pub[x]
         /\ pub'[e] = "pushing" => place'[e] \in DOMAIN entries[Source[e]]
<1>1. entries[Source[e]] \in Seq(Subscription)
  BY EventQueueAssumption DEF TypeOK
<1>2. CASE /\ Ahead(e, k) = {}
           /\ pub' = [pub EXCEPT ![e] = "published"]
           /\ place' = place
  BY <1>2 DEF TypeOK
<1>3. CASE \E i \in Ahead(e, k) : /\ \A j \in Ahead(e, k) : i <= j
                                  /\ pub' = [pub EXCEPT ![e] = "pushing"]
                                  /\ place' = [place EXCEPT ![e] = i]
  <2>1. PICK i \in Ahead(e, k) : /\ \A j \in Ahead(e, k) : i <= j
                                 /\ pub' = [pub EXCEPT ![e] = "pushing"]
                                 /\ place' = [place EXCEPT ![e] = i]
    BY <1>3
  <2>2. i \in Nat /\ i \in DOMAIN entries[Source[e]]
    BY <1>1 DEF Ahead
  <2>3. QED
    BY <2>1, <2>2 DEF TypeOK
<1>4. QED
  BY <1>2, <1>3 DEF Advance

\* A push keeps the types.
LEMMA PushTypes ==
  ASSUME Placed, NEW e \in Event, pub[e] = "pushing", PushToTarget(e)
  PROVE  /\ Target(e) \in Subscription
         /\ queue' \in [Subscriber -> Seq(Event)]
         /\ reached' \in [Event -> SUBSET Subscription]
<1>1. entries[Source[e]] \in Seq(Subscription) /\ place[e] \in DOMAIN entries[Source[e]]
  BY EventQueueAssumption DEF Placed, TypeOK, Pointing
<1>2. Target(e) \in Subscription
  BY <1>1 DEF Target
<1>3. QED
  BY <1>2, EventQueueAssumption DEF PushToTarget, Placed, TypeOK

LEMMA InitPlaced == Init => Placed
BY EventQueueAssumption DEF Init, Placed, TypeOK, Pointing

LEMMA PublicationPlaced ==
  ASSUME Placed, NEW e \in Event, Publish(e) \/ PublishStep(e)
  PROVE  Placed'
<1> USE EventQueueAssumption DEF Placed
<1>1. CASE Publish(e)
  <2>1. cover' \in [Event -> SUBSET Subscription]
    BY <1>1 DEF Publish, TypeOK, Mine
  <2>2. QED
    BY <1>1, <2>1 DEF Publish, TypeOK, Pointing, bounds
<1>2. CASE Record(e)
  <2>1. size' \in [Event -> Nat]
    BY <1>2, SizeIsNat DEF Record, TypeOK
  <2>2. QED
    BY <1>2, <2>1, AdvancePlaced DEF Record, TypeOK, Pointing, bounds
<1>3. CASE RecordFails(e)
  BY <1>3 DEF RecordFails, Fails, Fault, TypeOK, Pointing
<1>4. CASE Push(e)
  <2>1. CASE Fails(e)
    BY <1>4, <2>1, PushTypes DEF Push, Fails, TypeOK, Pointing, bounds
  <2>2. CASE Advance(e, place[e])
    <3>1. place[e] \in Nat
      BY DEF TypeOK
    <3>2. QED
      BY <1>4, <2>2, <3>1, PushTypes, AdvancePlaced DEF Push, TypeOK, Pointing, bounds
  <2>3. QED
    BY <1>4, <2>1, <2>2 DEF Push
<1>5. CASE PushAgain(e)
  <2>1. /\ queue' \in [Subscriber -> Seq(Event)]
        /\ reached' \in [Event -> SUBSET Subscription]
    BY <1>5, PushTypes DEF PushAgain
  <2>2. TypeOK'
    BY <1>5, <2>1 DEF PushAgain, Fault, TypeOK
  <2>3. Pointing'
    BY <1>5 DEF PushAgain, Pointing
  <2>4. QED
    BY <2>2, <2>3
<1>6. CASE PushFails(e)
  BY <1>6 DEF PushFails, GiveUp, Fails, Fault, TypeOK, Pointing
<1>7. QED
  BY <1>1, <1>2, <1>3, <1>4, <1>5, <1>6 DEF PublishStep

LEMMA SubscribePlaced ==
  ASSUME Placed, NEW s \in Subscription, Subscribe(s)
  PROVE  Placed'
<1> USE EventQueueAssumption DEF Placed
<1>1. entries' \in [Process -> Seq(Subscription)]
  BY DEF Subscribe, TypeOK
<1>2. \A p \in Process : DOMAIN entries[p] \subseteq DOMAIN entries'[p]
  <2> SUFFICES ASSUME NEW p \in Process
               PROVE  DOMAIN entries[p] \subseteq DOMAIN entries'[p]
    OBVIOUS
  <2>1. entries[p] \in Seq(Subscription)
    BY DEF TypeOK
  <2>2. entries'[p] = IF p = Home[s] THEN Append(entries[p], s) ELSE entries[p]
    BY DEF Subscribe, TypeOK
  <2>3. DOMAIN Append(entries[p], s) = 1 .. Len(entries[p]) + 1
    BY <2>1
  <2>4. DOMAIN entries[p] = 1 .. Len(entries[p]) /\ Len(entries[p]) \in Nat
    BY <2>1
  <2>5. QED
    BY <2>2, <2>3, <2>4
<1>3. TypeOK'
  BY <1>1 DEF Subscribe, TypeOK, publication, bounds
<1>4. Pointing'
  BY <1>2 DEF Subscribe, Pointing, publication
<1>5. QED
  BY <1>3, <1>4

LEMMA TaskPlaced ==
  ASSUME Placed, NEW s \in Subscription, TaskStep(s)
  PROVE  Placed'
<1> USE EventQueueAssumption DEF Placed
<1>1. CASE Ask(s)
  BY <1>1 DEF Ask, TypeOK, Pointing, publication, bounds
<1>2. CASE Take(s)
  <2>1. queue[Id[s]] \in Seq(Event)
    BY DEF TypeOK
  <2>2. CASE queue[Id[s]] = <<>>
    BY <1>2, <2>2 DEF Take, Rest, TypeOK, Pointing, publication, bounds
  <2>3. CASE queue[Id[s]] # <<>>
    <3>1. Head(queue[Id[s]]) \in Event /\ Tail(queue[Id[s]]) \in Seq(Event)
      BY <2>1, <2>3
    <3>2. /\ queue' = [queue EXCEPT ![Id[s]] = Tail(queue[Id[s]])]
          /\ held' = [held EXCEPT ![s] = {Head(queue[Id[s]])}]
          /\ loop' = [loop EXCEPT ![s] = "calling"]
      BY <1>2, <2>3 DEF Take
    <3>5. queue' \in [Subscriber -> Seq(Event)]
      BY <3>1, <3>2 DEF TypeOK
    <3>6. held' \in [Subscription -> SUBSET Event]
      BY <3>1, <3>2 DEF TypeOK
    <3>3. TypeOK' /\ Pointing'
      BY <1>2, <3>2, <3>5, <3>6 DEF Take, TypeOK, Pointing, publication, bounds
    <3>4. QED
      BY <3>3
  <2>4. QED
    BY <2>2, <2>3
<1>3. CASE TakeAgain(s)
  BY <1>3 DEF TakeAgain, Fault, TypeOK, Pointing, publication
<1>4. CASE TakeFails(s)
  BY <1>4 DEF TakeFails, Rest, Fault, TypeOK, Pointing, publication
<1>5. CASE Call(s)
  BY <1>5 DEF Call, TypeOK, Pointing, publication, bounds
<1>6. QED
  BY <1>1, <1>2, <1>3, <1>4, <1>5 DEF TaskStep

LEMMA RestPlaced ==
  ASSUME Placed,
         \/ \E s \in Subscription : Unsubscribe(s)
         \/ \E p \in Process : UnsubscribeAll(p) \/ Crash(p)
         \/ UNCHANGED vars
  PROVE  Placed'
<1> USE EventQueueAssumption DEF Placed
<1>1. ASSUME NEW s \in Subscription, Unsubscribe(s) PROVE Placed'
  BY <1>1 DEF Unsubscribe, Remove, TypeOK, Pointing, publication, bounds
<1>2. ASSUME NEW p \in Process, UnsubscribeAll(p) PROVE Placed'
  BY <1>2 DEF UnsubscribeAll, Remove, TypeOK, Pointing, publication, bounds
<1>3. ASSUME NEW p \in Process, Crash(p) PROVE Placed'
  BY <1>3 DEF Crash, Remove, TypeOK, Pointing
<1>4. CASE UNCHANGED vars
  BY <1>4 DEF vars, TypeOK, Pointing, publication, bounds
<1>5. QED
  BY <1>1, <1>2, <1>3, <1>4

LEMMA StepPlaced == Placed /\ [Next]_vars => Placed'
BY PublicationPlaced, SubscribePlaced, TaskPlaced, RestPlaced DEF Next

LEMMA AlwaysPlaced == Spec => []Placed
BY InitPlaced, StepPlaced, PTL DEF Spec

\* TypeOK: every variable keeps its type, for any number of processes and subscriptions;
\* a publication never reads beyond the dictionary (event_queue.py:157-171).
THEOREM TypeCorrect == Spec => []TypeOK
<1>1. Placed => TypeOK
  BY DEF Placed
<1>2. QED
  BY <1>1, AlwaysPlaced, PTL

-----------------------------------------------------------------------------
(* The end of a subscription                                               *)

\* A callback that is called after the end was on its way at the end: before, the
\* count is zero, and afterwards the task asks for nothing more.
Ends(s) ==
    /\ late[s] <= 1
    /\ s \in subs \/ loop[s] \in {"none", "asking", "calling"} => late[s] = 0
    /\ loop[s] = "none" => s \notin subs

Ending == TypeOK /\ \A s \in Subscription : Ends(s)

LEMMA InitEnding == Init => Ending
BY InitPlaced DEF Init, Ending, Ends, Placed

LEMMA StepEnding == Ending /\ TypeOK' /\ [Next]_vars => Ending'
<1> SUFFICES ASSUME Ending, TypeOK', [Next]_vars, NEW s \in Subscription
             PROVE  Ends(s)'
  BY DEF Ending
<1> USE DEF Ending
<1>1. Ends(s) /\ late[s] \in Nat
  BY DEF TypeOK
<1>2. ASSUME NEW e \in Event, Publish(e) \/ PublishStep(e) PROVE Ends(s)'
  BY <1>1, <1>2 DEF Publish, PublishStep, Record, RecordFails, Push, PushAgain, PushFails, Ends
<1>3. ASSUME NEW t \in Subscription, Subscribe(t) PROVE Ends(s)'
  BY <1>1, <1>3 DEF Subscribe, Ends, TypeOK
<1>4. ASSUME NEW t \in Subscription, Unsubscribe(t) PROVE Ends(s)'
  BY <1>1, <1>4 DEF Unsubscribe, Remove, Ends
<1>5. ASSUME NEW t \in Subscription, Ask(t) PROVE Ends(s)'
  BY <1>1, <1>5 DEF Ask, Continues, Ends, TypeOK
<1>6. ASSUME NEW t \in Subscription, Take(t) PROVE Ends(s)'
  <2>1. CASE loop' = [loop EXCEPT ![t] = "looking"]
    BY <1>1, <1>6, <2>1 DEF Take, Ends, TypeOK
  <2>2. CASE loop' = [loop EXCEPT ![t] = "calling"]
    BY <1>1, <1>6, <2>2 DEF Take, Ends, TypeOK
  <2>3. QED
    BY <1>6, <2>1, <2>2 DEF Take, Rest
<1>7. ASSUME NEW t \in Subscription, TakeAgain(t) PROVE Ends(s)'
  BY <1>1, <1>7 DEF TakeAgain, Ends
<1>8. ASSUME NEW t \in Subscription, TakeFails(t) PROVE Ends(s)'
  BY <1>1, <1>8 DEF TakeFails, Rest, Ends, TypeOK
<1>9. ASSUME NEW t \in Subscription, Call(t) PROVE Ends(s)'
  BY <1>1, <1>9 DEF Call, Ends, TypeOK
<1>10. ASSUME NEW p \in Process, UnsubscribeAll(p) PROVE Ends(s)'
  BY <1>1, <1>10 DEF UnsubscribeAll, Remove, Ends
<1>11. ASSUME NEW p \in Process, Crash(p) PROVE Ends(s)'
  BY <1>1, <1>11 DEF Crash, Remove, Ends
<1>12. CASE UNCHANGED vars
  BY <1>1, <1>12 DEF vars, Ends
<1>13. QED
  BY <1>2, <1>3, <1>4, <1>5, <1>6, <1>7, <1>8, <1>9, <1>10, <1>11, <1>12 DEF Next, TaskStep

\* LateOnce: whatever the other subscriptions, failures and crashes, the callback is
\* called at most once after unsubscribe (event_queue.py:196-208, 244-279).
THEOREM CalledOnceMore == Spec => []LateOnce
<1>1. Ending => LateOnce
  BY DEF Ending, Ends, LateOnce
<1>2. Spec => []Ending
  BY InitEnding, StepEnding, TypeCorrect, PTL DEF Spec
<1>3. QED
  BY <1>1, <1>2, PTL

-----------------------------------------------------------------------------
(* What publish reaches                                                    *)

\* A subscription is among the entries of its dictionary.
Listed == \A s \in subs : \E i \in DOMAIN entries[Home[s]] : entries[Home[s]][i] = s

\* The subscriptions that an event is to be pushed for are in the dictionary that
\* publish iterates over.
Covered == \A e \in Event : \A s \in cover[e] :
             s \in subs /\ Home[s] = Source[e] /\ s \in Wanted[e]

\* Where s stands in the dictionary of the publisher of e, from place k on.
From(e, s, k) == \E i \in DOMAIN entries[Source[e]] : i >= k /\ entries[Source[e]][i] = s

\* What the iterator has left behind has been reached.
Reaching == \A e \in Event :
              /\ pub[e] = "pushing" =>
                   \A s \in cover[e] \ reached[e] : From(e, s, place[e])
              /\ pub[e] = "published" => cover[e] \subseteq reached[e]

Reach == Placed /\ Listed /\ Covered /\ Reaching

\* When the loop goes on behind k, and all that is not reached lies behind k, so it
\* is afterwards.
LEMMA AdvanceReaches ==
  ASSUME Reach, NEW e \in Event, NEW k \in Nat, Advance(e, k), UNCHANGED entries,
         cover'[e] = cover[e],
         \A s \in cover[e] \ reached'[e] : From(e, s, k + 1)
  PROVE  /\ pub'[e] = "pushing" => \A s \in cover[e] \ reached'[e] : From(e, s, place[e])'
         /\ pub'[e] = "published" => cover[e] \subseteq reached'[e]
<1> USE DEF Reach, Placed
<1>1. entries[Source[e]] \in Seq(Subscription)
  BY EventQueueAssumption DEF TypeOK
<1>2. ASSUME NEW s \in cover[e] \ reached'[e]
      PROVE  \E i \in Ahead(e, k) : entries[Source[e]][i] = s
  <2>1. PICK i \in DOMAIN entries[Source[e]] : i >= k + 1 /\ entries[Source[e]][i] = s
    BY DEF From
  <2>2. s \in subs \cap Wanted[e]
    BY DEF Covered
  <2>3. i > k
    BY <1>1, <2>1
  <2>4. QED
    BY <2>1, <2>2, <2>3 DEF Ahead
<1>3. CASE pub'[e] = "published"
  <2>1. Ahead(e, k) = {}
    BY <1>3, AdvancePlaced DEF TypeOK
  <2>2. QED
    BY <1>2, <1>3, <2>1
<1>4. CASE pub'[e] = "pushing"
  <2>1. \A j \in Ahead(e, k) : place'[e] <= j
    BY <1>4, AdvancePlaced DEF TypeOK
  <2>2. ASSUME NEW s \in cover[e] \ reached'[e] PROVE From(e, s, place[e])'
    <3>1. PICK i \in Ahead(e, k) : entries[Source[e]][i] = s
      BY <1>2, <2>2
    <3>2. i \in DOMAIN entries'[Source[e]] /\ i \in Nat /\ place'[e] <= i
      BY <1>1, <2>1, <3>1 DEF Ahead
    <3>3. place'[e] \in Nat
      BY AdvancePlaced
    <3>4. QED
      BY <3>1, <3>2, <3>3 DEF From
  <2>3. QED
    BY <1>4, <2>2
<1>5. QED
  BY <1>3, <1>4

LEMMA InitReach == Init => Reach
BY InitPlaced DEF Init, Reach, Placed, TypeOK, Listed, Covered, Reaching

\* A publication, which leaves the subscriptions alone.
LEMMA PublicationReach ==
  ASSUME Reach, NEW e \in Event, Publish(e) \/ PublishStep(e)
  PROVE  Reach'
<1> USE EventQueueAssumption
<1>1. Placed'
  BY PublicationPlaced DEF Reach
<1>2. UNCHANGED <<subs, entries>>
  BY DEF Publish, PublishStep, Record, RecordFails, Push, PushAgain, PushFails
<1>3. Listed'
  BY <1>2 DEF Listed, Reach
<1>4. Covered'
  <2>1. CASE Publish(e)
    BY <1>2, <2>1 DEF Publish, Covered, Reach, Placed, TypeOK, Mine
  <2>2. CASE PublishStep(e)
    <3>1. UNCHANGED cover
      BY <2>2 DEF PublishStep, Record, RecordFails, Push, PushAgain, PushFails
    <3>2. QED
      BY <1>2, <3>1 DEF Covered, Reach
  <2>3. QED
    BY <2>1, <2>2
<1>5. Reaching'
  <2> SUFFICES ASSUME NEW x \in Event
               PROVE  /\ pub'[x] = "pushing" =>
                           \A s \in cover'[x] \ reached'[x] : From(x, s, place[x])'
                      /\ pub'[x] = "published" => cover'[x] \subseteq reached'[x]
    BY DEF Reaching
  <2> USE DEF Reach, Placed
  <2>1. CASE x # e
    <3>1. /\ pub'[x] = pub[x]
          /\ place'[x] = place[x]
          /\ cover'[x] = cover[x]
          /\ reached'[x] = reached[x]
      <4>1. CASE Publish(e)
        BY <2>1, <4>1 DEF Publish, TypeOK
      <4>2. CASE Record(e)
        BY <2>1, <4>2, AdvancePlaced DEF Record
      <4>3. CASE RecordFails(e)
        BY <2>1, <4>3 DEF RecordFails, Fails, TypeOK
      <4>4. CASE Push(e)
        <5>1. place[e] \in Nat
          BY DEF TypeOK
        <5>2. pub'[x] = pub[x] /\ place'[x] = place[x]
          BY <2>1, <4>4, <5>1, AdvancePlaced DEF Push, Fails, TypeOK
        <5>3. QED
          BY <2>1, <4>4, <5>2 DEF Push, PushToTarget, TypeOK
      <4>5. CASE PushAgain(e)
        BY <2>1, <4>5 DEF PushAgain, PushToTarget, TypeOK
      <4>6. CASE PushFails(e)
        BY <2>1, <4>6 DEF PushFails, GiveUp, Fails, TypeOK
      <4>7. QED
        BY <4>1, <4>2, <4>3, <4>4, <4>5, <4>6 DEF PublishStep
    <3>2. QED
      BY <1>2, <3>1 DEF Reaching, From
  <2>2. CASE x = e
    <3>0. place[e] \in Nat /\ entries[Source[e]] \in Seq(Subscription)
      BY DEF TypeOK
    <3>1. CASE Publish(e)
      BY <2>2, <3>1 DEF Publish, TypeOK
    <3>2. CASE Record(e)
      <4>1. ASSUME NEW s \in cover[e] PROVE From(e, s, 0 + 1)
        BY <3>0, <4>1 DEF Listed, Covered, From
      <4>2. QED
        BY <2>2, <3>2, <4>1, AdvanceReaches DEF Record
    <3>3. CASE RecordFails(e)
      BY <2>2, <3>3 DEF RecordFails, Fails, TypeOK
    <3>4. CASE Push(e)
      <4>1. reached'[e] = reached[e] \cup {Target(e)}
        BY <3>4 DEF Push, PushToTarget, TypeOK
      <4>2. ASSUME NEW s \in cover[e] \ reached'[e] PROVE From(e, s, place[e] + 1)
        <5>1. PICK i \in DOMAIN entries[Source[e]] :
                     i >= place[e] /\ entries[Source[e]][i] = s
          BY <3>4, <4>1, <4>2 DEF Reaching, From, Push
        <5>2. i # place[e]
          BY <4>1, <4>2, <5>1 DEF Target
        <5>3. i >= place[e] + 1
          BY <3>0, <5>1, <5>2
        <5>4. QED
          BY <5>1, <5>3 DEF From
      <4>3. CASE Fails(e)
        BY <2>2, <4>3 DEF Fails, TypeOK
      <4>4. CASE Advance(e, place[e])
        BY <2>2, <3>0, <3>4, <4>2, <4>4, AdvanceReaches DEF Push
      <4>5. QED
        BY <3>4, <4>3, <4>4 DEF Push
    <3>5. CASE PushAgain(e)
      <4>1. reached[e] \subseteq reached'[e]
        BY <3>5 DEF PushAgain, PushToTarget, TypeOK
      <4>2. QED
        BY <1>2, <2>2, <3>5, <4>1 DEF PushAgain, Reaching, From
    <3>6. CASE PushFails(e)
      BY <2>2, <3>6 DEF PushFails, GiveUp, Fails, TypeOK
    <3>7. QED
      BY <3>1, <3>2, <3>3, <3>4, <3>5, <3>6 DEF PublishStep
  <2>3. QED
    BY <2>1, <2>2
<1>6. QED
  BY <1>1, <1>3, <1>4, <1>5 DEF Reach

\* A new subscription is filed behind the others.
LEMMA SubscribeReach ==
  ASSUME Reach, NEW s \in Subscription, Subscribe(s)
  PROVE  Reach'
<1> USE EventQueueAssumption
<1>1. Placed'
  BY SubscribePlaced DEF Reach
<1>2. ASSUME NEW p \in Process, NEW i \in DOMAIN entries[p]
      PROVE  i \in DOMAIN entries'[p] /\ entries'[p][i] = entries[p][i]
  <2>1. entries[p] \in Seq(Subscription)
    BY DEF Reach, Placed, TypeOK
  <2>2. entries'[p] = entries[p] \/ entries'[p] = Append(entries[p], s)
    BY DEF Subscribe, Reach, Placed, TypeOK
  <2>3. QED
    BY <2>1, <2>2
<1>3. \E i \in DOMAIN entries'[Home[s]] : entries'[Home[s]][i] = s
  <2>1. entries[Home[s]] \in Seq(Subscription)
    BY DEF Reach, Placed, TypeOK
  <2>2. entries'[Home[s]] = Append(entries[Home[s]], s)
    BY DEF Subscribe, Reach, Placed, TypeOK
  <2>3. QED
    BY <2>1, <2>2
<1>4. Listed'
  <2> SUFFICES ASSUME NEW t \in subs'
               PROVE  \E i \in DOMAIN entries'[Home[t]] : entries'[Home[t]][i] = t
    BY DEF Listed
  <2>1. t = s \/ t \in subs
    BY DEF Subscribe
  <2>2. CASE t \in subs
    <3>1. Home[t] \in Process
      BY <2>2 DEF Reach, Placed, TypeOK
    <3>2. QED
      BY <1>2, <2>2, <3>1 DEF Reach, Listed
  <2>3. QED
    BY <1>3, <2>1, <2>2
<1>5. Covered'
  BY DEF Subscribe, Covered, Reach
<1>6. Reaching'
  BY <1>2 DEF Subscribe, Reaching, Reach, From, publication
<1>7. QED
  BY <1>1, <1>4, <1>5, <1>6 DEF Reach

\* The other steps only shrink what is to be reached.
LEMMA RestReach ==
  ASSUME Reach, Placed',
         UNCHANGED <<entries, place, reached>>,
         \A e \in Event : pub'[e] = pub[e] \/ pub'[e] = "failed",
         \/ UNCHANGED <<subs, cover>>
         \/ \E gone \in SUBSET Subscription : Remove(gone)
  PROVE  Reach'
<1>1. Listed'
  BY DEF Listed, Reach, Remove
<1>2. Covered'
  BY DEF Covered, Reach, Remove
<1>3. \A e \in Event : cover'[e] \subseteq cover[e]
  BY DEF Remove
<1>4. Reaching'
  BY <1>3 DEF Reaching, Reach, From
<1>5. QED
  BY <1>1, <1>2, <1>4 DEF Reach

LEMMA StepReach == Reach /\ [Next]_vars => Reach'
<1> SUFFICES ASSUME Reach, [Next]_vars PROVE Reach'
  OBVIOUS
<1>1. Placed'
  BY StepPlaced DEF Reach
<1>2. ASSUME NEW e \in Event, Publish(e) \/ PublishStep(e) PROVE Reach'
  BY <1>2, PublicationReach
<1>3. ASSUME NEW s \in Subscription, Subscribe(s) PROVE Reach'
  BY <1>3, SubscribeReach
<1>4. ASSUME NEW s \in Subscription, TaskStep(s) PROVE Reach'
  BY <1>1, <1>4, RestReach
     DEF TaskStep, Ask, Take, TakeAgain, TakeFails, Call, publication
<1>5. ASSUME NEW s \in Subscription, Unsubscribe(s) PROVE Reach'
  BY <1>1, <1>5, RestReach DEF Unsubscribe, publication
<1>6. ASSUME NEW p \in Process, UnsubscribeAll(p) \/ Crash(p) PROVE Reach'
  <2>1. Mine(p) \in SUBSET Subscription
    BY DEF Mine, Reach, Placed, TypeOK
  <2>2. \A e \in Event : pub'[e] = pub[e] \/ pub'[e] = "failed"
    BY <1>6 DEF UnsubscribeAll, Crash, publication
  <2>3. QED
    BY <1>1, <1>6, <2>1, <2>2, RestReach DEF UnsubscribeAll, Crash, publication
<1>7. CASE UNCHANGED vars
  BY <1>1, <1>7, RestReach DEF vars, publication
<1>8. QED
  BY <1>2, <1>3, <1>4, <1>5, <1>6, <1>7 DEF Next

\* PublishedReaches: whoever subscribes and unsubscribes while publish waits, and
\* whatever fails, an event that publish returns True for was pushed for every
\* subscription that was there all the time (event_queue.py:157-171).
THEOREM NobodyPassedOver == Spec => []PublishedReaches
<1>1. Reach => PublishedReaches
  BY DEF Reach, Reaching, PublishedReaches
<1>2. Spec => []Reach
  BY InitReach, StepReach, PTL DEF Spec
<1>3. QED
  BY <1>1, <1>2, PTL
=============================================================================
