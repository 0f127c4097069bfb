-------------------------- MODULE MessageQueueProofs --------------------------
(***************************************************************************)
(* Proofs about MessageQueue, for every set of messages, consumers and     *)
(* movers, every retry limit and any number of faults: types, that no      *)
(* message is dead-lettered early, that the fields of a message are kept   *)
(* until it is settled, and that each failure or stop loses one message at *)
(* most; and, as long as nothing fails, for every message that no two      *)
(* movers had read: that a settled one is gone from Redis, that it does    *)
(* not wait behind a less urgent one, and that the queue implements        *)
(* Delivery for it.                                                        *)
(***************************************************************************)
EXTENDS MessageQueue, FiniteSetTheorems, TLAPS

LEMMA InitTypes == Init => TypeOK
<1> SUFFICES ASSUME Init PROVE TypeOK
  OBVIOUS
<1> USE QueueAssumption
<1>1. ProducerTypeOK
  BY DEF Init, ProducerTypeOK
<1>2. PlaceTypeOK
  BY DEF Init, PlaceTypeOK
<1>3. WorkerTypeOK
  BY DEF Init, WorkerTypeOK, WorkerPc
<1>4. MoverTypeOK
  BY DEF Init, MoverTypeOK
<1>5. TallyTypeOK
  BY DEF Init, TallyTypeOK
<1>6. QED
  BY <1>1, <1>2, <1>3, <1>4, <1>5 DEF TypeOK

-----------------------------------------------------------------------------
(* Types of the operators on lists                                         *)

LEMMA PushType ==
  ASSUME PlaceTypeOK, NEW m \in Message, Push(m)
  PROVE  list' \in [Level -> Seq(Message)]
BY QueueAssumption DEF PlaceTypeOK, Push

LEMMA RouteType ==
  ASSUME PlaceTypeOK, NEW m \in Message, Route(m)
  PROVE  list' \in [Level -> Seq(Message)] /\ parked' \in SUBSET Message
<1>1. CASE m \in Partitioned
  BY <1>1 DEF Route, PlaceTypeOK
<1>2. CASE m \notin Partitioned
  BY <1>2, PushType DEF Route, PlaceTypeOK
<1>3. QED
  BY <1>1, <1>2

LEMMA PlaceType ==
  ASSUME PlaceTypeOK, NEW m \in Message, Place(m)
  PROVE  /\ list' \in [Level -> Seq(Message)]
         /\ parked' \in SUBSET Message
         /\ delayed' \in SUBSET Message
<1>1. CASE m \in Delayed
  BY <1>1 DEF Place, PlaceTypeOK
<1>2. CASE m \notin Delayed
  BY <1>2, RouteType DEF Place, PlaceTypeOK
<1>3. QED
  BY <1>1, <1>2

LEMMA PopType ==
  ASSUME PlaceTypeOK, NEW q \in Level, PopDownTo(q)
  PROVE  list' \in [Level -> Seq(Message)]
<1>1. \A r \in Level : list[r] # <<>> => Tail(list[r]) \in Seq(Message)
  BY DEF PlaceTypeOK
<1>2. QED
  BY <1>1 DEF PopDownTo, PlaceTypeOK

LEMMA HeadType ==
  ASSUME PlaceTypeOK, NEW q \in Level, Serves(q)
  PROVE  Head(list[q]) \in Message
BY DEF PlaceTypeOK, Serves, Live
LEMMA WorkingMessage ==
  ASSUME WorkerTypeOK, NEW w \in Worker, wpc[w] \notin {"idle", "stopped"}
  PROVE  wmsg[w] \in Message
BY SMTT(30) DEF WorkerTypeOK

-----------------------------------------------------------------------------
(* Every step keeps every variable in its type                             *)

LEMMA StepTypes == TypeOK /\ [Next]_vars => TypeOK'
<1> SUFFICES ASSUME TypeOK, [Next]_vars PROVE TypeOK'
  OBVIOUS
<1> USE QueueAssumption
<1> USE DEF TypeOK, ProducerTypeOK, PlaceTypeOK, WorkerTypeOK, MoverTypeOK,
            TallyTypeOK, WorkerPc
<1>1. ASSUME NEW m \in Message, EnqueueStore(m) PROVE TypeOK'
  BY <1>1
     DEF EnqueueStore, hashVars, placeVars, workerVars, moverVars, tally, budget
<1>2. ASSUME NEW m \in Message, EnqueueStoreFails(m) PROVE TypeOK'
  BY <1>2, SMTT(30)
     DEF EnqueueStoreFails, Fault, hashVars, placeVars, workerVars, moverVars, tally, budget
<1>3. ASSUME NEW m \in Message, EnqueuePush(m) PROVE TypeOK'
  BY <1>3, PlaceType
     DEF EnqueuePush, hashVars, placeVars, workerVars, moverVars, tally, budget
<1>4. ASSUME NEW m \in Message, EnqueueReplyLost(m) PROVE TypeOK'
  BY <1>4, PlaceType
     DEF EnqueueReplyLost, Fault, hashVars, placeVars, workerVars, moverVars, tally, budget
<1>5. ASSUME NEW m \in Message, EnqueueFails(m) PROVE TypeOK'
  BY <1>5
     DEF EnqueueFails, Fault, hashVars, placeVars, workerVars, moverVars, tally, budget
<1>6. ASSUME NEW m \in Message, ComeDue(m) PROVE TypeOK'
  BY <1>6
     DEF ComeDue, hashVars, placeVars, workerVars, moverVars, tally, budget
<1>7. ASSUME NEW w \in Worker, NEW q \in Level, Dequeue(w, q) PROVE TypeOK'
  <2>1. list' \in [Level -> Seq(Message)] /\ Head(list[q]) \in Message
    BY <1>7, PopType, HeadType DEF Dequeue
  <2>2. /\ wpc' = [wpc EXCEPT ![w] = "fetching"]
        /\ wmsg' = [wmsg EXCEPT ![w] = Head(list[q])]
        /\ UNCHANGED <<phase, hashVars, delayed, due, parked, dlq, wretry, running,
                       moverVars, tally, budget>>
    BY <1>7 DEF Dequeue
  <2>3. WorkerTypeOK'
    BY <2>1, <2>2, QueueAssumption DEF moverVars
  <2>4. QED
    BY <2>1, <2>2, <2>3 DEF hashVars, moverVars, tally, budget
<1>8. ASSUME NEW w \in Worker, DequeueStale(w) PROVE TypeOK'
  <2>1. 1 \in Level
    BY DEF Level
  <2>2. QED
    BY <2>1, <1>8, PopType
       DEF DequeueStale, hashVars, placeVars, workerVars, moverVars, tally, budget
<1>9. ASSUME NEW w \in Worker, NEW q \in Level, DequeueReplyLost(w, q) PROVE TypeOK'
  <2>1. list' \in [Level -> Seq(Message)]
    BY <1>9, PopType DEF DequeueReplyLost
  <2>2. faults' \in 0..MaxFaults /\ UNCHANGED stops
    BY <1>9 DEF DequeueReplyLost, Fault
  <2>3. UNCHANGED <<phase, hashVars, delayed, due, parked, dlq, workerVars, moverVars, tally>>
    BY <1>9 DEF DequeueReplyLost
  <2>4. QED
    BY <2>1, <2>2, <2>3 DEF hashVars, workerVars, moverVars, tally
<1>10. ASSUME NEW w \in Worker, Fetch(w) PROVE TypeOK'
  <2>1. wmsg[w] \in Message
    BY <1>10, WorkingMessage DEF Fetch
  <2>2. wretry' \in [Worker -> 0..MaxRetries]
    BY <1>10, <2>1 DEF Fetch
  <2>3. WorkerTypeOK'
    BY <1>10, <2>2 DEF Fetch
  <2>4. QED
    BY <1>10, <2>3 DEF Fetch, hashVars, placeVars, moverVars, tally, budget
<1>11. ASSUME NEW w \in Worker, FetchNothing(w) PROVE TypeOK'
  BY <1>11
     DEF FetchNothing, BackToLoop, hashVars, placeVars, workerVars, moverVars, tally, budget
<1>12. ASSUME NEW w \in Worker, HandlerOk(w) PROVE TypeOK'
  <2>1. wmsg[w] \in Message
    BY <1>12, WorkingMessage DEF HandlerOk
  <2>2. oks' \in [Message -> Nat]
    BY <1>12, <2>1 DEF HandlerOk
  <2>3. WorkerTypeOK'
    BY <1>12 DEF HandlerOk
  <2>4. QED
    BY <1>12, <2>2, <2>3 DEF HandlerOk, hashVars, placeVars, moverVars, budget
<1>13. ASSUME NEW w \in Worker, HandlerFails(w) PROVE TypeOK'
  <2>1. wmsg[w] \in Message
    BY <1>13, WorkingMessage DEF HandlerFails
  <2>2. fails' \in [Message -> Nat]
    BY <1>13, <2>1 DEF HandlerFails
  <2>3. WorkerTypeOK'
    BY <1>13 DEF HandlerFails
  <2>4. QED
    BY <1>13, <2>2, <2>3 DEF HandlerFails, hashVars, placeVars, moverVars, budget
<1>14. ASSUME NEW w \in Worker, Ack(w) PROVE TypeOK'
  <2>1. wmsg[w] \in Message
    BY <1>14 DEF Ack
  <2>2. QED
    BY <2>1, <1>14
       DEF Ack, BackToLoop, DeleteHash, hashVars, placeVars, workerVars, moverVars, tally, budget
<1>15. ASSUME NEW w \in Worker, NackCount(w) PROVE TypeOK'
  <2>1. wmsg[w] \in Message
    BY <1>15 DEF NackCount
  <2>2. QED
    BY <2>1, <1>15
       DEF NackCount, MayRetry, hashVars, placeVars, workerVars, moverVars, tally, budget
<1>16. ASSUME NEW w \in Worker, NackCountFails(w) PROVE TypeOK'
  BY <1>16
     DEF NackCountFails, Fault, hashVars, placeVars, workerVars, moverVars, tally, budget
<1>17. ASSUME NEW w \in Worker, Requeue(w) PROVE TypeOK'
  <2>1. wmsg[w] \in Message
    BY <1>17, WorkingMessage DEF Requeue
  <2>2. list' \in [Level -> Seq(Message)]
    BY <1>17, <2>1, PushType DEF Requeue
  <2>3. WorkerTypeOK'
    BY <1>17 DEF Requeue, BackToLoop
  <2>4. QED
    BY <1>17, <2>2, <2>3 DEF Requeue, hashVars, moverVars, tally, budget
<1>18. ASSUME NEW w \in Worker, RequeueReplyLost(w) PROVE TypeOK'
  <2>1. wmsg[w] \in Message
    BY <1>18, WorkingMessage DEF RequeueReplyLost
  <2>2. list' \in [Level -> Seq(Message)]
    BY <1>18, <2>1, PushType DEF RequeueReplyLost
  <2>3. QED
    BY <1>18, <2>2
       DEF RequeueReplyLost, Fault, hashVars, workerVars, moverVars, tally
<1>19. ASSUME NEW w \in Worker, NackBury(w) PROVE TypeOK'
  BY <1>19
     DEF NackBury, DeadLetter, hashVars, placeVars, workerVars, moverVars, tally, budget
<1>20. ASSUME NEW w \in Worker, NackDelete(w) PROVE TypeOK'
  <2>1. wmsg[w] \in Message
    BY <1>20 DEF NackDelete
  <2>2. QED
    BY <2>1, <1>20
       DEF NackDelete, BackToLoop, DeleteHash, hashVars, placeVars, workerVars, moverVars,
          tally, budget
<1>21. ASSUME NEW w \in Worker, OperationFails(w) PROVE TypeOK'
  BY <1>21
     DEF OperationFails, BackToLoop, Fault, hashVars, placeVars, workerVars, moverVars,
        tally, budget
<1>22. ASSUME NEW w \in Worker, StopBegin(w) PROVE TypeOK'
  BY <1>22
     DEF StopBegin, hashVars, placeVars, workerVars, moverVars, tally, budget
<1>23. ASSUME NEW w \in Worker, StopNormally(w) PROVE TypeOK'
  BY <1>23
     DEF StopNormally, hashVars, placeVars, workerVars, moverVars, tally, budget
<1>24. ASSUME NEW w \in Worker, StopByCancel(w) PROVE TypeOK'
  BY <1>24
     DEF StopByCancel, hashVars, placeVars, workerVars, moverVars, tally, budget
<1>25. ASSUME NEW p \in Mover, ReadDelayed(p) PROVE TypeOK'
  BY <1>25
     DEF ReadDelayed, hashVars, placeVars, workerVars, moverVars, tally, budget
<1>26. ASSUME NEW p \in Mover, NEW m \in Message, ReadHash(p, m) PROVE TypeOK'
  <2>1. batch' \in [Mover -> SUBSET Message]
    BY <1>26 DEF ReadHash
  <2>2. MoverTypeOK'
    <3>1. CASE data[m] = "partial"
      BY <1>26, <2>1, <3>1 DEF ReadHash
    <3>2. CASE data[m] # "partial"
      <4>1. NextMove(m) \in {"pushing", "removing"}
        BY DEF NextMove
      <4>2. /\ mpc' = [mpc EXCEPT ![p] = NextMove(m)]
            /\ mmsg' = [mmsg EXCEPT ![p] = m]
            /\ contested' = contested
        BY <1>26, <3>2 DEF ReadHash
      <4>3. QED
        BY <2>1, <4>1, <4>2
    <3>3. QED
      BY <3>1, <3>2
  <2>3. QED
    BY <1>26, <2>2 DEF ReadHash, hashVars, placeVars, workerVars, tally, budget
<1>27. ASSUME NEW p \in Mover, MoveToList(p) PROVE TypeOK'
  BY <1>27, RouteType
     DEF MoveToList, hashVars, placeVars, workerVars, moverVars, tally, budget
<1>28. ASSUME NEW p \in Mover, RemoveDelayed(p) PROVE TypeOK'
  BY <1>28
     DEF RemoveDelayed, MoverDone, hashVars, placeVars, workerVars, moverVars, tally, budget
<1>29. ASSUME NEW p \in Mover, MoverFails(p) PROVE TypeOK'
  BY <1>29
     DEF MoverFails, MoverDone, Fault, hashVars, placeVars, workerVars, moverVars, tally, budget
<1>30. CASE UNCHANGED vars
  BY <1>30 DEF vars
<1>31. QED
  BY <1>1, <1>2, <1>3, <1>4, <1>5, <1>6, <1>7, <1>8, <1>9, <1>10, <1>11, <1>12, <1>13,
     <1>14, <1>15, <1>16, <1>17, <1>18, <1>19, <1>20, <1>21, <1>22, <1>23, <1>24, <1>25,
     <1>26, <1>27, <1>28, <1>29, <1>30
     DEF Next, ProducerStep, WorkerStep, WorkerRuns, MoverRuns
\* TypeOK: every variable keeps its type, and a consumer holds a message exactly
\* while it works on one.
THEOREM TypeCorrect == Spec => []TypeOK
<1>1. Init => TypeOK
  BY InitTypes
<1>2. TypeOK /\ [Next]_vars => TypeOK'
  BY StepTypes
<1>3. QED
  BY <1>1, <1>2, PTL DEF Spec

-----------------------------------------------------------------------------
(* Dead letters                                                            *)

\* What a retry count, in a hash or in a consumer's copy, says is not more than
\* what happened; a consumer that gives up or buries has a reason to.
CountInv ==
    /\ \A m \in Message : retries[m] <= fails[m]
    /\ \A w \in Worker : wmsg[w] # NoMessage =>
        /\ wpc[w] # "fetching" => wretry[w] <= fails[wmsg[w]]
        /\ wpc[w] = "nacking" => wretry[w] < fails[wmsg[w]]

\* A consumer about to delete a hash has settled its message.
SettledInv ==
    /\ NeverBuriedEarly
    /\ \A w \in Worker :
        /\ wpc[w] = "acking" => oks[wmsg[w]] > 0
        /\ wpc[w] = "burying" => wmsg[w] \in dlq

IInv == TypeOK /\ CountInv /\ SettledInv

\* Handler runs are only ever added.
LEMMA TalliesGrow ==
  ASSUME TypeOK, [Next]_vars, NEW m \in Message
  PROVE  fails'[m] >= fails[m] /\ oks'[m] >= oks[m]
<1> USE DEF TypeOK, TallyTypeOK
<1>1. ASSUME NEW w \in Worker, HandlerOk(w) \/ HandlerFails(w)
      PROVE  fails'[m] >= fails[m] /\ oks'[m] >= oks[m]
  BY <1>1 DEF HandlerOk, HandlerFails
<1>2. CASE UNCHANGED tally
  BY <1>2 DEF tally
<1>3. QED
  BY <1>1, <1>2 DEF Next, ProducerStep, WorkerStep, WorkerRuns, MoverRuns, vars, tally,
     EnqueueStore, EnqueueStoreFails, EnqueuePush, EnqueueReplyLost, EnqueueFails,
     ComeDue, Dequeue, DequeueStale, DequeueReplyLost, Fetch, FetchNothing, Ack,
     NackCount, NackCountFails, Requeue, RequeueReplyLost, NackBury, NackDelete,
     OperationFails, StopBegin, StopNormally, StopByCancel, ReadDelayed, ReadHash,
     MoveToList, RemoveDelayed, MoverFails
\* Dead letters are only ever added.
LEMMA LettersGrow ==
  ASSUME [Next]_vars
  PROVE  dlq \subseteq dlq'
<1>1. ASSUME NEW w \in Worker, NackBury(w) PROVE dlq \subseteq dlq'
  BY <1>1 DEF NackBury, DeadLetter
<1>2. CASE UNCHANGED dlq
  BY <1>2
<1>3. QED
  BY <1>1, <1>2 DEF Next, ProducerStep, WorkerStep, WorkerRuns, MoverRuns, vars, placeVars,
     EnqueueStore, EnqueueStoreFails, EnqueuePush, EnqueueReplyLost, EnqueueFails,
     ComeDue, Dequeue, DequeueStale, DequeueReplyLost, Fetch, FetchNothing, HandlerOk,
     HandlerFails, Ack, NackCount, NackCountFails, Requeue, RequeueReplyLost, NackDelete,
     OperationFails, StopBegin, StopNormally, StopByCancel, ReadDelayed, ReadHash,
     MoveToList, RemoveDelayed, MoverFails

\* The claims of CountInv and SettledInv about one consumer.
Honest(w) ==
    /\ wmsg[w] # NoMessage =>
        /\ wpc[w] # "fetching" => wretry[w] <= fails[wmsg[w]]
        /\ wpc[w] = "nacking" => wretry[w] < fails[wmsg[w]]
    /\ wpc[w] = "acking" => oks[wmsg[w]] > 0
    /\ wpc[w] = "burying" => wmsg[w] \in dlq

\* A step of somebody else leaves a consumer's claims true.
LEMMA OthersHonest ==
  ASSUME TypeOK, [Next]_vars, NEW v \in Worker, Honest(v),
         wpc'[v] = wpc[v], wmsg'[v] = wmsg[v], wretry'[v] = wretry[v]
  PROVE  Honest(v)'
<1> USE DEF TypeOK, WorkerTypeOK, TallyTypeOK
<1>1. CASE wmsg[v] = NoMessage
  BY <1>1 DEF Honest
<1>2. CASE wmsg[v] \in Message
  <2>1. fails'[wmsg[v]] >= fails[wmsg[v]] /\ oks'[wmsg[v]] >= oks[wmsg[v]]
    BY <1>2, TalliesGrow
  <2>2. fails' \in [Message -> Nat] /\ oks' \in [Message -> Nat]
    BY StepTypes
  <2>3. QED
    BY <1>2, <2>1, <2>2, LettersGrow DEF Honest
<1>3. QED
  BY <1>1, <1>2

\* A consumer that goes back to its loop, or is cancelled, claims nothing.
LEMMA IdleHonest ==
  ASSUME NEW w \in Worker, wmsg'[w] = NoMessage, wpc'[w] \in {"idle", "stopped"}
  PROVE  Honest(w)'
BY DEF Honest

LEMMA StepHonest ==
  ASSUME TypeOK, CountInv, \A v \in Worker : Honest(v), [Next]_vars, NEW v \in Worker
  PROVE  Honest(v)'
<1> USE DEF TypeOK, WorkerTypeOK
<1>1. Honest(v) /\ TypeOK'
  BY StepTypes
<1>2. CASE wpc'[v] = wpc[v] /\ wmsg'[v] = wmsg[v] /\ wretry'[v] = wretry[v]
  BY <1>1, <1>2, OthersHonest
<1>3. ASSUME NEW w \in Worker, WorkerStep(w), v # w PROVE Honest(v)'
  <2>1. wpc'[v] = wpc[v] /\ wmsg'[v] = wmsg[v] /\ wretry'[v] = wretry[v]
    BY <1>3 DEF WorkerStep, WorkerRuns, workerVars, BackToLoop, Dequeue, DequeueStale,
       DequeueReplyLost, Fetch, FetchNothing, HandlerOk, HandlerFails, Ack, NackCount,
       NackCountFails, Requeue, RequeueReplyLost, NackBury, NackDelete,
       OperationFails, StopBegin, StopNormally, StopByCancel
  <2>2. QED
    BY <2>1, <1>2
<1>4. ASSUME WorkerStep(v) PROVE Honest(v)'
  <2>1. ASSUME NEW q \in Level, Dequeue(v, q) PROVE Honest(v)'
    BY <2>1 DEF Dequeue, Honest
  <2>2. CASE Fetch(v)
    <3>1. wmsg[v] \in Message
      BY <2>2, WorkingMessage DEF Fetch
    <3>2. /\ wpc'[v] = "handling" /\ wmsg'[v] = wmsg[v]
          /\ wretry'[v] = retries[wmsg[v]] /\ fails' = fails
      BY <2>2 DEF Fetch, tally
    <3>3. QED
      BY <3>1, <3>2 DEF CountInv, Honest
  <2>3. CASE HandlerOk(v)
    <3>1. wmsg[v] \in Message
      BY <2>3, WorkingMessage DEF HandlerOk
    <3>2. /\ wpc'[v] = "acking" /\ wmsg'[v] = wmsg[v] /\ wretry'[v] = wretry[v]
          /\ fails' = fails /\ oks'[wmsg[v]] = oks[wmsg[v]] + 1
      BY <2>3, <3>1 DEF HandlerOk, TallyTypeOK
    <3>3. QED
      BY <1>1, <2>3, <3>1, <3>2 DEF HandlerOk, Honest, TallyTypeOK
  <2>4. CASE HandlerFails(v)
    <3>1. wmsg[v] \in Message
      BY <2>4, WorkingMessage DEF HandlerFails
    <3>2. /\ wpc'[v] = "nacking" /\ wmsg'[v] = wmsg[v] /\ wretry'[v] = wretry[v]
          /\ fails'[wmsg[v]] = fails[wmsg[v]] + 1
      BY <2>4, <3>1 DEF HandlerFails, TallyTypeOK
    <3>3. wretry[v] <= fails[wmsg[v]]
      BY <1>1, <2>4, <3>1, QueueAssumption DEF HandlerFails, Honest
    <3>4. fails[wmsg[v]] \in Nat /\ wretry[v] \in Nat
      BY <3>1, QueueAssumption DEF TallyTypeOK
    <3>5. QED
      BY <3>2, <3>3, <3>4 DEF Honest
  <2>5. CASE NackCount(v) \/ NackCountFails(v)
    <3>1. /\ wpc[v] = "nacking" /\ wpc'[v] = "requeueing" /\ wmsg'[v] = wmsg[v]
          /\ wretry'[v] = wretry[v] /\ fails' = fails
      BY <2>5 DEF NackCount, NackCountFails, tally
    <3>2. QED
      BY <1>1, <3>1 DEF Honest
  <2>6. CASE NackBury(v)
    <3>1. /\ wpc[v] = "nacking" /\ wpc'[v] = "burying" /\ wmsg'[v] = wmsg[v]
          /\ wretry'[v] = wretry[v] /\ fails' = fails /\ wmsg[v] \in dlq'
      BY <2>6 DEF NackBury, DeadLetter, tally
    <3>2. QED
      BY <1>1, <3>1 DEF Honest
  <2>7. CASE FetchNothing(v) \/ Ack(v) \/ Requeue(v) \/ NackDelete(v) \/ OperationFails(v)
    <3>1. wpc'[v] = "idle" /\ wmsg'[v] = NoMessage
      BY <2>7 DEF FetchNothing, Ack, Requeue, NackDelete, OperationFails, BackToLoop
    <3>2. QED
      BY <3>1, IdleHonest
  <2>8. CASE StopNormally(v) \/ StopByCancel(v)
    <3>1. wpc'[v] = "stopped" /\ wmsg'[v] = NoMessage
      BY <2>8 DEF StopNormally, StopByCancel
    <3>2. QED
      BY <3>1, IdleHonest
  <2>9. CASE UNCHANGED <<wpc, wmsg, wretry>>
    BY <1>2, <2>9
  <2>10. QED
    BY <1>4, <2>1, <2>2, <2>3, <2>4, <2>5, <2>6, <2>7, <2>8, <2>9
       DEF WorkerStep, WorkerRuns, workerVars, DequeueStale, DequeueReplyLost,
           RequeueReplyLost, StopBegin
<1>5. CASE UNCHANGED workerVars
  BY <1>2, <1>5 DEF workerVars
<1>6. QED
  BY <1>3, <1>4, <1>5 DEF Next, ProducerStep, MoverRuns, vars, workerVars,
     EnqueueStore, EnqueueStoreFails, EnqueuePush, EnqueueReplyLost, EnqueueFails,
     ComeDue, ReadDelayed, ReadHash, MoveToList, RemoveDelayed, MoverFails
\* A retry count in a hash is never more than the failures there were.
LEMMA StepCounts ==
  ASSUME TypeOK, \A v \in Worker : Honest(v), [Next]_vars, NEW m \in Message,
         retries[m] <= fails[m]
  PROVE  retries'[m] <= fails'[m]
<1> USE DEF TypeOK
<1>1. fails'[m] >= fails[m] /\ TypeOK'
  BY TalliesGrow, StepTypes
<1>2. fails[m] \in Nat /\ fails'[m] \in Nat /\ retries[m] \in Nat
  BY <1>1, QueueAssumption DEF TallyTypeOK, ProducerTypeOK
<1>3. CASE UNCHANGED retries
  BY <1>1, <1>2, <1>3
<1>4. ASSUME NEW w \in Worker, NackCount(w) PROVE retries'[m] <= fails'[m]
  <2>1. wmsg[w] \in Message
    BY <1>4, WorkingMessage DEF NackCount
  <2>2. wretry[w] < fails[wmsg[w]]
    BY <1>4, <2>1, QueueAssumption DEF NackCount, Honest
  <2>3. wretry[w] \in Nat /\ fails[wmsg[w]] \in Nat
    BY <2>1, QueueAssumption DEF WorkerTypeOK, TallyTypeOK
  <2>4. retries'[m] = IF m = wmsg[w] THEN wretry[w] + 1 ELSE retries[m]
    BY <1>4, <2>1 DEF NackCount, ProducerTypeOK
  <2>5. QED
    BY <1>1, <1>2, <2>2, <2>3, <2>4
<1>5. QED
  BY <1>3, <1>4 DEF Next, ProducerStep, WorkerStep, WorkerRuns, MoverRuns, vars, hashVars,
     EnqueueStore, EnqueueStoreFails, EnqueuePush, EnqueueReplyLost, EnqueueFails,
     ComeDue, Dequeue, DequeueStale, DequeueReplyLost, Fetch, FetchNothing, HandlerOk,
     HandlerFails, Ack, NackCountFails, Requeue, RequeueReplyLost, NackBury, NackDelete,
     OperationFails, StopBegin, StopNormally, StopByCancel, ReadDelayed, ReadHash,
     MoveToList, RemoveDelayed, MoverFails

\* A message enters the dead letters after MaxRetries + 1 failures.
LEMMA StepLetters ==
  ASSUME TypeOK, \A v \in Worker : Honest(v), NeverBuriedEarly, [Next]_vars
  PROVE  NeverBuriedEarly'
<1> SUFFICES ASSUME NEW m \in Message, m \in dlq' PROVE fails'[m] > MaxRetries
  BY DEF NeverBuriedEarly
<1> USE DEF TypeOK
<1>1. fails'[m] >= fails[m] /\ TypeOK'
  BY TalliesGrow, StepTypes
<1>2. fails[m] \in Nat /\ fails'[m] \in Nat /\ MaxRetries \in Nat
  BY <1>1, QueueAssumption DEF TallyTypeOK
<1>3. CASE m \in dlq
  BY <1>1, <1>2, <1>3 DEF NeverBuriedEarly
<1>4. CASE m \notin dlq
  <2>1. PICK w \in Worker : NackBury(w)
    BY <1>4 DEF Next, ProducerStep, WorkerStep, WorkerRuns, MoverRuns, vars, placeVars,
       EnqueueStore, EnqueueStoreFails, EnqueuePush, EnqueueReplyLost, EnqueueFails,
       ComeDue, Dequeue, DequeueStale, DequeueReplyLost, Fetch, FetchNothing, HandlerOk,
       HandlerFails, Ack, NackCount, NackCountFails, Requeue, RequeueReplyLost,
       NackDelete, OperationFails, StopBegin, StopNormally, StopByCancel, ReadDelayed,
       ReadHash, MoveToList, RemoveDelayed, MoverFails
  <2>2. m = wmsg[w] /\ wpc[w] = "nacking" /\ ~ MayRetry(w)
    BY <1>4, <2>1 DEF NackBury, DeadLetter
  <2>3. wretry[w] < fails[m]
    BY <2>2, QueueAssumption DEF Honest
  <2>4. wretry[w] \in Nat /\ wretry[w] >= MaxRetries
    BY <2>2, QueueAssumption DEF MayRetry, WorkerTypeOK
  <2>5. QED
    BY <1>1, <1>2, <2>3, <2>4
<1>5. QED
  BY <1>3, <1>4

LEMMA IInvSplits == IInv <=> /\ TypeOK /\ NeverBuriedEarly
                             /\ \A m \in Message : retries[m] <= fails[m]
                             /\ \A v \in Worker : Honest(v)
BY DEF IInv, CountInv, SettledInv, Honest

LEMMA IInvInit == Init => IInv
<1> SUFFICES ASSUME Init PROVE CountInv /\ SettledInv
  BY InitTypes DEF IInv
<1>1. CountInv
  BY DEF Init, CountInv
<1>2. SettledInv
  BY DEF Init, SettledInv, NeverBuriedEarly
<1>3. QED
  BY <1>1, <1>2

LEMMA IInvStep == IInv /\ [Next]_vars => IInv'
<1> SUFFICES ASSUME IInv, [Next]_vars PROVE IInv'
  OBVIOUS
<1>1. TypeOK'
  BY StepTypes DEF IInv
<1>2. \A v \in Worker : Honest(v)'
  BY IInvSplits, StepHonest DEF IInv
<1>3. \A m \in Message : retries'[m] <= fails'[m]
  BY IInvSplits, StepCounts
<1>4. NeverBuriedEarly'
  BY IInvSplits, StepLetters
<1>5. QED
  BY <1>1, <1>2, <1>3, <1>4 DEF IInv, CountInv, SettledInv, Honest

\* NeverBuriedEarly: whatever fails, a message reaches the dead-letter list only
\* after more than max_retries failed handler runs (nack, message_queue.py:272-297).
THEOREM BuriedLate == Spec => []NeverBuriedEarly
<1>1. Init => IInv
  BY IInvInit
<1>2. IInv /\ [Next]_vars => IInv'
  BY IInvStep
<1>3. IInv => NeverBuriedEarly
  BY DEF IInv, SettledInv
<1>4. QED
  BY <1>1, <1>2, <1>3, PTL DEF Spec

-----------------------------------------------------------------------------
(* Hashes                                                                  *)

\* DataKept: the fields of a message are deleted only by the ack of a handler
\* that succeeded or after its dead-letter record (message_queue.py:248-301).
THEOREM HashesKept == Spec => DataKept
<1> DEFINE Gone(m)    == phase[m] # "new" /\ data[m] = "full" /\ data'[m] # "full"
           Settled(m) == oks[m] > 0 \/ m \in dlq
<1>1. ASSUME IInv, [Next]_vars, NEW m \in Message, Gone(m) PROVE Settled(m)
  <2> USE DEF IInv, TypeOK, ProducerTypeOK
  <2>1. ASSUME NEW w \in Worker, Ack(w) \/ NackDelete(w) PROVE Settled(m)
    <3>1. m = wmsg[w]
      BY <1>1, <2>1 DEF Ack, NackDelete, DeleteHash
    <3>2. wpc[w] = "acking" \/ wpc[w] = "burying"
      BY <2>1 DEF Ack, NackDelete
    <3>3. QED
      BY <1>1, <3>1, <3>2 DEF SettledInv
  <2>2. ASSUME NEW w \in Worker, NackCount(w) PROVE FALSE
    BY <1>1, <2>2 DEF NackCount
  <2>3. ASSUME NEW x \in Message, EnqueueStore(x) PROVE FALSE
    BY <1>1, <2>3 DEF EnqueueStore
  <2>4. ASSUME NEW x \in Message, EnqueueStoreFails(x) PROVE FALSE
    BY <1>1, <2>4 DEF EnqueueStoreFails
  <2>5. CASE UNCHANGED data
    BY <1>1, <2>5
  <2>6. QED
    BY <1>1, <2>1, <2>2, <2>3, <2>4, <2>5 DEF Next, ProducerStep, WorkerStep, WorkerRuns,
       MoverRuns, vars, hashVars, EnqueuePush, EnqueueReplyLost, EnqueueFails, ComeDue,
       Dequeue, DequeueStale, DequeueReplyLost, Fetch, FetchNothing, HandlerOk,
       HandlerFails, NackCountFails, Requeue, RequeueReplyLost, NackBury, OperationFails,
       StopBegin, StopNormally, StopByCancel, ReadDelayed, ReadHash, MoveToList,
       RemoveDelayed, MoverFails
<1>2. IInv /\ [Next]_vars => [\A m \in Message : Gone(m) => Settled(m)]_vars
  BY <1>1
<1>3. QED
  BY <1>2, IInvInit, IInvStep, PTL DEF Spec, DataKept

-----------------------------------------------------------------------------
(* What happens to the lists                                               *)

\* An id in a list is in the list of its priority, once.
OnceListed(m) ==
    LET s == list[PriorityOf[m]]
    IN  /\ \A q \in Level : \A i \in DOMAIN list[q] : list[q][i] = m => q = PriorityOf[m]
        /\ \A i, j \in DOMAIN s : s[i] = m /\ s[j] = m => i = j

LEMMA PushOthers ==
  ASSUME PlaceTypeOK, NEW x \in Message, Push(x), NEW m \in Message, m # x
  PROVE  (Listed(m)' <=> Listed(m)) /\ (OnceListed(m) => OnceListed(m)')
<1> USE DEF PlaceTypeOK
<1>1. PriorityOf[x] \in Level /\ PriorityOf[m] \in Level
  BY QueueAssumption
<1> DEFINE s == list[PriorityOf[x]]
<1>2. /\ s \in Seq(Message) /\ list'[PriorityOf[x]] = Append(s, x)
      /\ \A q \in Level \ {PriorityOf[x]} : list'[q] = list[q]
  BY <1>1 DEF Push
<1>3. /\ DOMAIN Append(s, x) = DOMAIN s \cup {Len(s) + 1}
      /\ \A i \in DOMAIN s : Append(s, x)[i] = s[i]
      /\ Append(s, x)[Len(s) + 1] = x
  BY <1>2
<1>4. \A i : i \in DOMAIN Append(s, x) /\ Append(s, x)[i] = m
                <=> i \in DOMAIN s /\ s[i] = m
  BY <1>3
<1> HIDE DEF s
<1>5. \A q \in Level : \A i : i \in DOMAIN list'[q] /\ list'[q][i] = m
                                 <=> i \in DOMAIN list[q] /\ list[q][i] = m
  BY <1>2, <1>4 DEF s
<1>6. QED
  BY <1>1, <1>5 DEF Listed, OnceListed

LEMMA PushNew ==
  ASSUME PlaceTypeOK, NEW m \in Message, Push(m), ~ Listed(m)
  PROVE  Listed(m)' /\ OnceListed(m)'
<1> USE DEF PlaceTypeOK
<1>1. PriorityOf[m] \in Level
  BY QueueAssumption
<1> DEFINE s == list[PriorityOf[m]]
<1>2. /\ s \in Seq(Message) /\ list'[PriorityOf[m]] = Append(s, m)
      /\ \A q \in Level \ {PriorityOf[m]} : list'[q] = list[q]
  BY <1>1 DEF Push
<1>3. /\ DOMAIN Append(s, m) = DOMAIN s \cup {Len(s) + 1}
      /\ \A i \in DOMAIN s : Append(s, m)[i] = s[i]
      /\ Append(s, m)[Len(s) + 1] = m
  BY <1>2
<1>4. \A q \in Level : \A i \in DOMAIN list[q] : list[q][i] # m
  BY DEF Listed
<1>5. \A i \in DOMAIN Append(s, m) : Append(s, m)[i] = m => i = Len(s) + 1
  BY <1>1, <1>3, <1>4
<1> HIDE DEF s
<1>6. \A i \in DOMAIN list'[PriorityOf[m]] : 
        list'[PriorityOf[m]][i] = m => i = Len(s) + 1
  BY <1>2, <1>5
<1>7. \A q \in Level \ {PriorityOf[m]} : \A i \in DOMAIN list'[q] : list'[q][i] # m
  BY <1>2, <1>4
<1>8. OnceListed(m)'
  BY <1>6, <1>7 DEF OnceListed
<1>9. Listed(m)'
  BY <1>1, <1>2, <1>3 DEF Listed
<1>10. QED
  BY <1>8, <1>9

\* What is left in a list after the script was there before.
LEMMA PopOnce ==
  ASSUME PlaceTypeOK, NEW q \in Level, PopDownTo(q), NEW m \in Message
  PROVE  (Listed(m)' => Listed(m)) /\ (OnceListed(m) => OnceListed(m)')
<1> USE DEF PlaceTypeOK
<1>1. PriorityOf[m] \in Level
  BY QueueAssumption
<1>2. ASSUME NEW r \in Level
      PROVE  \E k \in {0, 1} : \A i \in DOMAIN list'[r] :
                i \in Nat /\ i + k \in DOMAIN list[r] /\ list'[r][i] = list[r][i + k]
  <2> DEFINE s == list[r]
  <2>1. s \in Seq(Message) /\ \A i \in DOMAIN s : i \in Nat /\ i + 0 = i
    OBVIOUS
  <2>2. CASE r >= q /\ s # <<>>
    <3>1. list'[r] = Tail(s)
      BY <2>2 DEF PopDownTo
    <3>2. \A i \in DOMAIN Tail(s) : i \in Nat /\ i + 1 \in DOMAIN s /\ Tail(s)[i] = s[i + 1]
      BY <2>1, <2>2
    <3>3. QED
      BY <3>1, <3>2
  <2>3. CASE ~ (r >= q /\ s # <<>>)
    <3>1. list'[r] = s
      BY <2>3 DEF PopDownTo
    <3>2. QED
      BY <2>1, <3>1
  <2>4. QED
    BY <2>2, <2>3
<1>3. Listed(m)' => Listed(m)
  BY <1>2 DEF Listed
<1>4. ASSUME OnceListed(m) PROVE OnceListed(m)'
  <2>1. ASSUME NEW r \in Level, NEW i \in DOMAIN list'[r], list'[r][i] = m
        PROVE  r = PriorityOf[m]
    BY <1>2, <1>4, <2>1 DEF OnceListed
  <2>2. ASSUME NEW i \in DOMAIN list'[PriorityOf[m]], NEW j \in DOMAIN list'[PriorityOf[m]],
               list'[PriorityOf[m]][i] = m, list'[PriorityOf[m]][j] = m
        PROVE  i = j
    <3>1. PICK k \in {0, 1} : \A l \in DOMAIN list'[PriorityOf[m]] :
            l \in Nat /\ l + k \in DOMAIN list[PriorityOf[m]] 
            /\ list'[PriorityOf[m]][l] = list[PriorityOf[m]][l + k]
      BY <1>1, <1>2
    <3>2. i + k = j + k
      BY <1>4, <2>2, <3>1 DEF OnceListed
    <3>3. QED
      BY <3>1, <3>2
  <2>3. QED
    BY <2>1, <2>2 DEF OnceListed
<1>5. QED
  BY <1>3, <1>4

\* The id that is popped was listed once, and is in no list any more.
LEMMA PopListed ==
  ASSUME PlaceTypeOK, NEW q \in Level, Serves(q), PopDownTo(q), 
         NEW m \in Message, m = Head(list[q]), OnceListed(m)
  PROVE  Listed(m) /\ ~ Listed(m)'
<1> USE DEF PlaceTypeOK
<1> DEFINE s == list[q]
<1>1. s \in Seq(Message) /\ s # <<>>
  BY DEF Serves, Live
<1>2. /\ 1 \in DOMAIN s /\ s[1] = m
      /\ \A i \in DOMAIN Tail(s) : i \in Nat \ {0} /\ i + 1 \in DOMAIN s /\ Tail(s)[i] = s[i + 1]
  BY <1>1
<1>3. q \in Nat
  BY DEF Level
<1>4. list'[q] = Tail(s)
  BY <1>1, <1>3 DEF PopDownTo
<1>5. PriorityOf[m] = q
  BY <1>2 DEF OnceListed
<1>6. \A i \in DOMAIN Tail(s) : Tail(s)[i] # m
  <2> SUFFICES ASSUME NEW i \in DOMAIN Tail(s), Tail(s)[i] = m PROVE FALSE
    OBVIOUS
  <2>1. i + 1 = 1
    BY <1>2, <1>5 DEF OnceListed
  <2>2. QED
    BY <1>2, <2>1
<1>7. ASSUME NEW r \in Level, NEW i \in DOMAIN list'[r], list'[r][i] = m PROVE FALSE
  <2>1. OnceListed(m)'
    BY PopOnce
  <2>2. r = q
    BY <1>5, <1>7, <2>1 DEF OnceListed
  <2>3. QED
    BY <1>4, <1>6, <1>7, <2>2
<1>8. Listed(m)
  BY <1>2 DEF Listed
<1>9. ~ Listed(m)'
  BY <1>7 DEF Listed
<1>10. QED
  BY <1>8, <1>9

\* A push keeps what is listed, and lists its message.
LEMMA PushKeeps ==
  ASSUME PlaceTypeOK, NEW m \in Message, Push(m), NEW x \in Message, Listed(x) \/ x = m
  PROVE  Listed(x)'
<1> USE DEF PlaceTypeOK
<1>1. PriorityOf[m] \in Level
  BY QueueAssumption
<1> DEFINE s == list[PriorityOf[m]]
<1>2. /\ s \in Seq(Message) /\ list'[PriorityOf[m]] = Append(s, m)
      /\ \A q \in Level \ {PriorityOf[m]} : list'[q] = list[q]
  BY <1>1 DEF Push
<1>3. /\ Len(s) + 1 \in DOMAIN Append(s, m) /\ Append(s, m)[Len(s) + 1] = m
      /\ \A i \in DOMAIN s : i \in DOMAIN Append(s, m) /\ Append(s, m)[i] = s[i]
  BY <1>2
<1>4. CASE x = m
  BY <1>1, <1>2, <1>3, <1>4 DEF Listed
<1>5. ASSUME NEW q \in Level, NEW i \in DOMAIN list[q], list[q][i] = x PROVE Listed(x)'
  <2>1. CASE q = PriorityOf[m]
    <3>1. i \in DOMAIN list'[q] /\ list'[q][i] = x
      BY <1>2, <1>3, <1>5, <2>1
    <3>2. QED
      BY <3>1 DEF Listed
  <2>2. CASE q # PriorityOf[m]
    BY <1>2, <1>5, <2>2 DEF Listed
  <2>3. QED
    BY <2>1, <2>2
<1>6. QED
  BY <1>4, <1>5 DEF Listed

\* What the script takes out of a list is the head of a list it has come to.
LEMMA PopDrops ==
  ASSUME PlaceTypeOK, NEW q \in Level, PopDownTo(q), NEW x \in Message, Listed(x), ~ Listed(x)'
  PROVE  \E r \in Level : r >= q /\ list[r] # <<>> /\ x = Head(list[r])
<1> USE DEF PlaceTypeOK
<1> PICK r \in Level : \E i \in DOMAIN list[r] : list[r][i] = x
  BY DEF Listed
<1>1. PICK i \in DOMAIN list[r] : list[r][i] = x
  OBVIOUS
<1>2. list'[r] = IF r >= q /\ list[r] # <<>> THEN Tail(list[r]) ELSE list[r]
  BY DEF PopDownTo
<1>3. CASE ~ (r >= q /\ list[r] # <<>>)
  BY <1>1, <1>2, <1>3 DEF Listed
<1>4. CASE r >= q /\ list[r] # <<>>
  <2> DEFINE s == list[r]
  <2>1. /\ s \in Seq(Message) /\ s # <<>> /\ i \in 1..Len(s) /\ s[i] = x
        /\ Head(s) = s[1] /\ DOMAIN Tail(s) = 1..(Len(s) - 1)
        /\ \A k \in 1..(Len(s) - 1) : Tail(s)[k] = s[k + 1]
    BY <1>1, <1>4
  <2>2. CASE i = 1
    BY <1>4, <2>1, <2>2
  <2>3. CASE i # 1
    <3>1. i - 1 \in DOMAIN Tail(s) /\ Tail(s)[i - 1] = x
      BY <2>1, <2>3
    <3>2. QED
      BY <1>2, <1>4, <3>1 DEF Listed
  <2>4. QED
    BY <2>2, <2>3
<1>5. QED
  BY <1>3, <1>4

\* The script that returns the head of a list drops, besides it, only ids whose hash is
\* gone.
LEMMA PopKeeps ==
  ASSUME PlaceTypeOK, NEW q \in Level, Serves(q), PopDownTo(q), NEW x \in Message, Listed(x),
         x # Head(list[q]), data[x] # "none"
  PROVE  Listed(x)'
<1> SUFFICES ASSUME ~ Listed(x)' PROVE FALSE
  OBVIOUS
<1>1. PICK r \in Level : r >= q /\ list[r] # <<>> /\ x = Head(list[r])
  BY PopDrops
<1>2. Live(r) /\ r # q
  BY <1>1 DEF Live
<1>3. q \in Nat /\ r \in Nat
  BY DEF Level
<1>4. QED
  BY <1>1, <1>2, <1>3 DEF Serves

LEMMA StalePopKeeps ==
  ASSUME PlaceTypeOK, \A q \in Level : ~ Live(q), PopDownTo(1), NEW x \in Message, Listed(x),
         data[x] # "none"
  PROVE  Listed(x)'
<1> SUFFICES ASSUME ~ Listed(x)' PROVE FALSE
  OBVIOUS
<1>1. 1 \in Level
  BY QueueAssumption DEF Level
<1>2. PICK r \in Level : list[r] # <<>> /\ x = Head(list[r])
  BY <1>1, PopDrops
<1>3. QED
  BY <1>2 DEF Live


-----------------------------------------------------------------------------
(* Where a message is that no two movers had read, while nothing has failed *)

\* Between the two commands of a move the id is still in the sorted set, but on its
\* way out of it.
Moved(m) == \E p \in Mover : mpc[p] = "removing" /\ mmsg[p] = m
Waits(m) == m \in delayed /\ ~ Moved(m)

Placed(m) == Waits(m) \/ Listed(m) \/ m \in parked

Unsettled(m) == data[m] = "full" /\ oks[m] = 0 /\ m \notin dlq

\* A message that is not sent yet has had no effect; one that is somewhere has its
\* fields and its count, and is in that place only; one that is nowhere is settled.
MessageInv(m) ==
    /\ phase[m] \in {"new", "stored", "sent"}
    /\ phase[m] # "sent" =>
        /\ m \notin delayed /\ ~ Listed(m) /\ m \notin parked /\ ~ Held(m)
        /\ oks[m] = 0 /\ fails[m] = 0 /\ retries[m] = 0 /\ m \notin dlq
        /\ data[m] = IF phase[m] = "new" THEN "none" ELSE "full"
    /\ Placed(m) =>
        /\ Unsettled(m) /\ fails[m] = retries[m] /\ ~ Held(m)
        /\ Waits(m) => ~ Listed(m) /\ m \notin parked
        /\ Listed(m) => m \notin parked
    /\ phase[m] = "sent" /\ ~ Placed(m) /\ ~ Held(m) =>
        data[m] = "none" /\ (oks[m] > 0 \/ m \in dlq)

\* One consumer has it at most, and then with its fields and its count.
HandInv(m) ==
    \A w \in Worker : wmsg[w] = m =>
        /\ \A v \in Worker : wmsg[v] = m => v = w
        /\ data[m] = "full"
        /\ wpc[w] \notin {"acking", "burying"} => Unsettled(m)
        /\ wpc[w] \in {"fetching", "requeueing"} => fails[m] = retries[m]
        /\ wpc[w] = "handling" => fails[m] = wretry[w]
        /\ wpc[w] = "nacking" => fails[m] = wretry[w] + 1

\* One mover has it at most, before it leaves the sorted set.
MoverInv(m) ==
    \A p \in Mover : m \in Taken(p) =>
        /\ m \in delayed
        /\ \A r \in Mover : m \in Taken(r) => r = p
        /\ m \in batch[p] => mmsg[p] # m

InPlace(m) == MessageInv(m) /\ HandInv(m) /\ MoverInv(m) /\ OnceListed(m)

PlaceInv ==
    Unharmed => /\ \A w \in Worker : running[w]
                /\ \A m \in Message \ contested : InPlace(m)

-----------------------------------------------------------------------------
(* Steps that leave a message alone                                        *)

SameFields(m) ==
    /\ phase'[m] = phase[m] /\ data'[m] = data[m] /\ retries'[m] = retries[m]
    /\ oks'[m] = oks[m] /\ fails'[m] = fails[m] /\ (m \in dlq' <=> m \in dlq)

SamePlace(m) ==
    /\ (m \in delayed' <=> m \in delayed) /\ (m \in parked' <=> m \in parked)
    /\ Listed(m)' <=> Listed(m)
    /\ OnceListed(m) => OnceListed(m)'

SameHands(m) ==
    \A w \in Worker : /\ wmsg'[w] = m <=> wmsg[w] = m
                      /\ wmsg[w] = m => wpc'[w] = wpc[w] /\ wretry'[w] = wretry[w]

SameMovers(m) ==
    \A p \in Mover : /\ (m \in batch'[p] <=> m \in batch[p]) /\ (mmsg'[p] = m <=> mmsg[p] = m)
                     /\ mmsg[p] = m => mpc'[p] = mpc[p]

LEMMA MoversStay ==
  ASSUME NEW m \in Message, MoverInv(m), SameMovers(m), m \in delayed => m \in delayed'
  PROVE  MoverInv(m)' /\ (Moved(m)' <=> Moved(m))
<1>1. \A p \in Mover : m \in Taken(p)' <=> m \in Taken(p)
  BY DEF SameMovers, Taken
<1>2. MoverInv(m)'
  BY <1>1 DEF MoverInv, SameMovers
<1>3. Moved(m)' <=> Moved(m)
  BY DEF Moved, SameMovers
<1>4. QED
  BY <1>2, <1>3

LEMMA HandsStay ==
  ASSUME NEW m \in Message, SameHands(m)
  PROVE  /\ Held(m)' <=> Held(m)
         /\ HandInv(m) /\ SameFields(m) => HandInv(m)'
<1>1. Held(m)' <=> Held(m)
  BY DEF SameHands, Held
<1>2. ASSUME HandInv(m), SameFields(m) PROVE HandInv(m)'
  <2> SUFFICES ASSUME NEW w \in Worker, wmsg'[w] = m
               PROVE  /\ \A v \in Worker : wmsg'[v] = m => v = w
                      /\ data'[m] = "full"
                      /\ wpc'[w] \notin {"acking", "burying"} => Unsettled(m)'
                      /\ wpc'[w] \in {"fetching", "requeueing"} => fails'[m] = retries'[m]
                      /\ wpc'[w] = "handling" => fails'[m] = wretry'[w]
                      /\ wpc'[w] = "nacking" => fails'[m] = wretry'[w] + 1
    BY DEF HandInv
  <2>1. wmsg[w] = m /\ wpc'[w] = wpc[w] /\ wretry'[w] = wretry[w]
    BY DEF SameHands
  <2>2. Unsettled(m)' <=> Unsettled(m)
    BY <1>2 DEF SameFields, Unsettled
  <2>3. \A v \in Worker : wmsg'[v] = m => v = w
    BY <1>2, <2>1 DEF HandInv, SameHands
  <2>4. QED
    BY <1>2, <2>1, <2>2, <2>3 DEF HandInv, SameFields
<1>3. QED
  BY <1>1, <1>2

LEMMA Elsewhere ==
  ASSUME NEW m \in Message, InPlace(m), SameFields(m), SamePlace(m), SameHands(m),
         SameMovers(m)
  PROVE  InPlace(m)'
<1>1. /\ MoverInv(m)' /\ (Moved(m)' <=> Moved(m))
      /\ HandInv(m)' /\ (Held(m)' <=> Held(m))
  BY MoversStay, HandsStay DEF InPlace, SamePlace
<1>2. (Waits(m)' <=> Waits(m)) /\ (Placed(m)' <=> Placed(m))
  BY <1>1 DEF Waits, Placed, SamePlace
<1>3. MessageInv(m)'
  BY <1>1, <1>2 DEF InPlace, MessageInv, SameFields, SamePlace, Unsettled
<1>4. QED
  BY <1>1, <1>3 DEF InPlace, SamePlace

\* What does not change at all.
LEMMA Untouched ==
  ASSUME NEW m \in Message
  PROVE  /\ UNCHANGED <<phase, data, retries, oks, fails, dlq>> => SameFields(m)
         /\ UNCHANGED <<list, delayed, parked>> => SamePlace(m)
         /\ UNCHANGED <<wmsg, wpc, wretry>> => SameHands(m)
         /\ UNCHANGED <<batch, mmsg, mpc>> => SameMovers(m)
BY DEF SameFields, SamePlace, SameHands, SameMovers, Listed, OnceListed

LEMMA SamePlaces ==
  /\ UNCHANGED <<delayed, mpc, mmsg>> =>
        \A x \in Message : (Waits(x)' <=> Waits(x)) /\ (Moved(x)' <=> Moved(x))
  /\ UNCHANGED list => \A x \in Message : Listed(x)' <=> Listed(x)
  /\ UNCHANGED wmsg => \A x \in Message : Held(x)' <=> Held(x)
<1>1. ASSUME UNCHANGED <<delayed, mpc, mmsg>>, NEW x \in Message
      PROVE  (Waits(x)' <=> Waits(x)) /\ (Moved(x)' <=> Moved(x))
  BY <1>1 DEF Waits, Moved
<1>2. ASSUME UNCHANGED list, NEW x \in Message PROVE Listed(x)' <=> Listed(x)
  BY <1>2 DEF Listed
<1>3. ASSUME UNCHANGED wmsg, NEW x \in Message PROVE Held(x)' <=> Held(x)
  BY <1>3 DEF Held
<1>4. QED
  BY <1>1, <1>2, <1>3

-----------------------------------------------------------------------------
(* The producer                                                            *)

\* Whoever is not sent is in nobody's hands.
LEMMA NotTaken ==
  ASSUME TypeOK, NEW m \in Message, InPlace(m), phase[m] # "sent"
  PROVE  /\ \A p \in Mover : m \notin batch[p] /\ mmsg[p] # m
         /\ \A w \in Worker : wmsg[w] # m
BY DEF InPlace, MessageInv, MoverInv, Taken, Held

LEMMA StoreInPlace ==
  ASSUME TypeOK, NEW m \in Message, InPlace(m), NEW x \in Message, EnqueueStore(x)
  PROVE  InPlace(m)'
<1>1. /\ phase[x] = "new" /\ phase' = [phase EXCEPT ![x] = "stored"]
      /\ data' = [data EXCEPT ![x] = "full"]
      /\ UNCHANGED <<retries, list, delayed, parked, dlq, wpc, wmsg, wretry, batch, mmsg,
                     mpc, oks, fails>>
  BY DEF EnqueueStore, placeVars, moverVars, tally, workerVars
<1>2. SamePlace(m) /\ SameHands(m) /\ SameMovers(m)
  BY <1>1, Untouched
<1>3. CASE m # x
  <2>1. SameFields(m)
    BY <1>1, <1>3 DEF SameFields, TypeOK, ProducerTypeOK
  <2>2. QED
    BY <1>2, <2>1, Elsewhere
<1>4. CASE m = x
  <2>1. phase'[m] = "stored" /\ data'[m] = "full"
    BY <1>1, <1>4 DEF TypeOK, ProducerTypeOK
  <2>2. MoverInv(m)' /\ (Moved(m)' <=> Moved(m)) /\ (Held(m)' <=> Held(m))
    BY <1>2, MoversStay, HandsStay DEF InPlace, SamePlace
  <2>3. HandInv(m)'
    BY <1>1, <1>4, NotTaken DEF HandInv
  <2>4. MessageInv(m)'
    BY <1>1, <1>2, <1>4, <2>1, <2>2 
       DEF InPlace, MessageInv, Placed, Waits, SamePlace
  <2>5. QED
    BY <1>2, <2>2, <2>3, <2>4 DEF InPlace, SamePlace
<1>5. QED
  BY <1>3, <1>4

LEMMA SendInPlace ==
  ASSUME TypeOK, NEW m \in Message, InPlace(m), NEW x \in Message, EnqueuePush(x)
  PROVE  InPlace(m)'
<1>1. /\ phase[x] = "stored" /\ phase' = [phase EXCEPT ![x] = "sent"] /\ Place(x)
      /\ UNCHANGED <<data, retries, dlq, wpc, wmsg, wretry, batch, mmsg, mpc, oks, fails>>
  BY DEF EnqueuePush, hashVars, moverVars, tally, workerVars
<1>2. SameHands(m) /\ SameMovers(m)
  BY <1>1, Untouched
<1>3. CASE m # x
  <2>1. SameFields(m)
    BY <1>1, <1>3 DEF SameFields, TypeOK, ProducerTypeOK
  <2>2. SamePlace(m)
    BY <1>1, <1>3, PushOthers DEF Place, Route, SamePlace, Listed, OnceListed, TypeOK
  <2>3. QED
    BY <1>2, <2>1, <2>2, Elsewhere
<1>4. CASE m = x
  <2>1. phase'[m] = "sent"
    BY <1>1, <1>4 DEF TypeOK, ProducerTypeOK
  <2>2. /\ m \notin delayed /\ ~ Listed(m) /\ m \notin parked /\ ~ Held(m)
        /\ Unsettled(m) /\ fails[m] = retries[m]
    BY <1>1, <1>4 DEF InPlace, MessageInv, Unsettled
  <2>3. ~ Moved(m) /\ \A p \in Mover : m \notin Taken(p)
    BY <1>1, <1>4, NotTaken DEF Moved, Taken
  <2>4. MoverInv(m)' /\ ~ Moved(m)' /\ ~ Held(m)'
    BY <1>2, <2>2, <2>3, MoversStay, HandsStay DEF InPlace, SamePlace
  <2>5. HandInv(m)'
    BY <2>4 DEF HandInv, Held
  <2>6. /\ OnceListed(m)'
        /\ \/ m \in delayed' /\ ~ Listed(m)' /\ m \notin parked'
           \/ m \notin delayed' /\ Listed(m)' /\ m \notin parked'
           \/ m \notin delayed' /\ ~ Listed(m)' /\ m \in parked'
    <3>1. UNCHANGED list => OnceListed(m)' /\ ~ Listed(m)'
      BY <2>2 DEF InPlace, OnceListed, Listed
    <3>2. Push(m) => OnceListed(m)' /\ Listed(m)'
      BY <2>2, PushNew DEF TypeOK
    <3>3. QED
      BY <1>1, <1>4, <2>2, <3>1, <3>2 DEF Place, Route
  <2>7. Unsettled(m)' /\ fails'[m] = retries'[m]
    BY <1>1, <2>2 DEF Unsettled
  <2>8. MessageInv(m)'
    BY <2>1, <2>4, <2>6, <2>7 DEF MessageInv, Placed, Waits
  <2>9. QED
    BY <2>4, <2>5, <2>6, <2>8 DEF InPlace
<1>5. QED
  BY <1>3, <1>4

-----------------------------------------------------------------------------
(* The consumers                                                           *)

\* A message in a consumer's hand is in no other place.
LEMMA HeldAlone ==
  ASSUME NEW w \in Worker, NEW m \in Message, InPlace(m), wmsg[w] = m
  PROVE  /\ Held(m) /\ phase[m] = "sent" /\ ~ Placed(m) /\ data[m] = "full"
         /\ \A v \in Worker \ {w} : wmsg[v] # m
<1>1. Held(m)
  BY DEF Held
<1>2. QED
  BY <1>1 DEF InPlace, HandInv, MessageInv

\* A consumer goes on with the message it has.
LEMMA WorkInPlace ==
  ASSUME TypeOK, NEW w \in Worker, wmsg[w] \in Message, NEW m \in Message, InPlace(m),
         UNCHANGED <<phase, list, delayed, parked, wmsg, batch, mmsg, mpc>>,
         \A x \in Message \ {wmsg[w]} :
            /\ data'[x] = data[x] /\ retries'[x] = retries[x] /\ (x \in dlq' <=> x \in dlq)
            /\ oks'[x] = oks[x] /\ fails'[x] = fails[x],
         \A v \in Worker \ {w} : wpc'[v] = wpc[v] /\ wretry'[v] = wretry[v],
         wmsg[w] = m =>
            /\ data'[m] = "full"
            /\ wpc'[w] \notin {"acking", "burying"} => Unsettled(m)'
            /\ wpc'[w] \in {"fetching", "requeueing"} => fails'[m] = retries'[m]
            /\ wpc'[w] = "handling" => fails'[m] = wretry'[w]
            /\ wpc'[w] = "nacking" => fails'[m] = wretry'[w] + 1
  PROVE  InPlace(m)'
<1>1. SamePlace(m) /\ SameMovers(m)
  BY Untouched
<1>2. MoverInv(m)' /\ (Moved(m)' <=> Moved(m)) /\ OnceListed(m)'
  BY <1>1, MoversStay DEF InPlace, SamePlace
<1>3. CASE wmsg[w] # m
  <2>1. SameFields(m) /\ SameHands(m)
    BY <1>3 DEF SameFields, SameHands
  <2>2. QED
    BY <1>1, <2>1, Elsewhere
<1>4. CASE wmsg[w] = m
  <2>1. HandInv(m)'
    BY <1>4, HeldAlone DEF HandInv
  <2>2. Held(m)' /\ ~ Placed(m)' /\ phase'[m] = "sent"
    BY <1>1, <1>2, <1>4, HeldAlone DEF Held, Placed, Waits, SamePlace
  <2>3. MessageInv(m)'
    BY <2>2 DEF MessageInv
  <2>4. QED
    BY <1>2, <2>1, <2>3 DEF InPlace
<1>5. QED
  BY <1>3, <1>4

LEMMA FetchInPlace ==
  ASSUME TypeOK, NEW m \in Message, InPlace(m), NEW w \in Worker, Fetch(w)
  PROVE  InPlace(m)'
<1>1. wmsg[w] \in Message
  BY WorkingMessage DEF TypeOK, Fetch
<1>2. /\ wpc[w] = "fetching" /\ wpc'[w] = "handling" /\ wretry'[w] = retries[wmsg[w]]
      /\ \A v \in Worker \ {w} : wpc'[v] = wpc[v] /\ wretry'[v] = wretry[v]
      /\ UNCHANGED <<phase, data, retries, list, delayed, parked, dlq, wmsg,
                     batch, mmsg, mpc, oks, fails>>
  BY DEF Fetch, TypeOK, WorkerTypeOK, hashVars, placeVars, moverVars, tally
<1>3. wmsg[w] = m => data[m] = "full" /\ Unsettled(m)' /\ fails[m] = retries[m]
  BY <1>2 DEF InPlace, HandInv, Unsettled
<1>4. QED
  BY <1>1, <1>2, <1>3, WorkInPlace

LEMMA HandlerInPlace ==
  ASSUME TypeOK, NEW m \in Message, InPlace(m), NEW w \in Worker,
         HandlerOk(w) \/ HandlerFails(w)
  PROVE  InPlace(m)'
<1>1. wmsg[w] \in Message
  BY WorkingMessage DEF TypeOK, HandlerOk, HandlerFails
<1>2. /\ wpc[w] = "handling" /\ wretry' = wretry
      /\ \A v \in Worker \ {w} : wpc'[v] = wpc[v]
      /\ UNCHANGED <<phase, data, retries, list, delayed, parked, dlq, wmsg,
                     batch, mmsg, mpc>>
      /\ \/ wpc'[w] = "acking" /\ UNCHANGED fails
         \/ wpc'[w] = "nacking" /\ UNCHANGED oks /\ fails'[wmsg[w]] = fails[wmsg[w]] + 1
      /\ \A x \in Message \ {wmsg[w]} : oks'[x] = oks[x] /\ fails'[x] = fails[x]
  BY <1>1 DEF HandlerOk, HandlerFails, TypeOK, WorkerTypeOK, TallyTypeOK, hashVars,
              placeVars, moverVars
<1>3. wmsg[w] = m => data[m] = "full" /\ Unsettled(m) /\ fails[m] = wretry[w]
  BY <1>2 DEF InPlace, HandInv
<1>4. wmsg[w] = m =>
         /\ wpc'[w] = "nacking" => Unsettled(m)' /\ fails'[m] = wretry'[w] + 1
         /\ wpc'[w] \in {"acking", "nacking"}
  BY <1>2, <1>3 DEF Unsettled
<1>5. QED
  BY <1>1, <1>2, <1>3, <1>4, WorkInPlace

LEMMA CountInPlace ==
  ASSUME TypeOK, NEW m \in Message, InPlace(m), NEW w \in Worker, NackCount(w)
  PROVE  InPlace(m)'
<1>1. wmsg[w] \in Message
  BY WorkingMessage DEF TypeOK, NackCount
<1>2. /\ wpc[w] = "nacking" /\ wpc'[w] = "requeueing" /\ wretry' = wretry
      /\ \A v \in Worker \ {w} : wpc'[v] = wpc[v]
      /\ retries'[wmsg[w]] = wretry[w] + 1
      /\ data[wmsg[w]] = "full" => data'[wmsg[w]] = "full"
      /\ \A x \in Message \ {wmsg[w]} : retries'[x] = retries[x] /\ data'[x] = data[x]
      /\ UNCHANGED <<phase, list, delayed, parked, dlq, wmsg, batch, mmsg, mpc, oks, fails>>
  BY <1>1 DEF NackCount, TypeOK, WorkerTypeOK, ProducerTypeOK, placeVars, moverVars, tally
<1>3. wmsg[w] = m => data'[m] = "full" /\ Unsettled(m)' /\ fails'[m] = retries'[m]
  BY <1>2 DEF InPlace, HandInv, Unsettled
<1>4. QED
  BY <1>1, <1>2, <1>3, WorkInPlace

LEMMA BuryInPlace ==
  ASSUME TypeOK, NEW m \in Message, InPlace(m), NEW w \in Worker, NackBury(w)
  PROVE  InPlace(m)'
<1>1. wmsg[w] \in Message
  BY WorkingMessage DEF TypeOK, NackBury
<1>2. /\ wpc[w] = "nacking" /\ wpc'[w] = "burying" /\ wretry' = wretry
      /\ \A v \in Worker \ {w} : wpc'[v] = wpc[v]
      /\ dlq' = dlq \cup {wmsg[w]}
      /\ UNCHANGED <<phase, data, retries, list, delayed, parked, wmsg, batch, mmsg, mpc,
                     oks, fails>>
  BY <1>1 DEF NackBury, DeadLetter, TypeOK, WorkerTypeOK, hashVars, moverVars, tally
<1>3. wmsg[w] = m => data'[m] = "full"
  BY <1>2 DEF InPlace, HandInv
<1>4. QED
  BY <1>1, <1>2, <1>3, WorkInPlace

\* A consumer takes the head of a list, and drops heads whose hash is gone.
LEMMA DequeueInPlace ==
  ASSUME TypeOK, NEW m \in Message, InPlace(m), NEW w \in Worker, NEW q \in Level,
         Dequeue(w, q)
  PROVE  InPlace(m)'
<1>1. /\ wpc[w] = "idle" /\ Serves(q) /\ PopDownTo(q)
      /\ wpc' = [wpc EXCEPT ![w] = "fetching"]
      /\ wmsg' = [wmsg EXCEPT ![w] = Head(list[q])]
      /\ UNCHANGED <<phase, data, retries, delayed, parked, dlq, wretry,
                     batch, mmsg, mpc, oks, fails>>
  BY DEF Dequeue, hashVars, moverVars, tally
<1>2. SameFields(m) /\ SameMovers(m)
  BY <1>1, Untouched
<1>3. MoverInv(m)' /\ (Moved(m)' <=> Moved(m)) /\ OnceListed(m)'
  BY <1>1, <1>2, MoversStay, PopOnce DEF InPlace, TypeOK
<1>4. wmsg[w] = NoMessage /\ m # NoMessage
  BY <1>1, QueueAssumption DEF TypeOK, WorkerTypeOK
<1>5. /\ wmsg'[w] = Head(list[q]) /\ wpc'[w] = "fetching"
      /\ \A v \in Worker \ {w} : wpc'[v] = wpc[v] /\ wmsg'[v] = wmsg[v]
  BY <1>1 DEF TypeOK, WorkerTypeOK
<1>6. CASE Head(list[q]) # m
  <2>1. SameHands(m)
    BY <1>1, <1>4, <1>5, <1>6 DEF SameHands
  <2>2. Listed(m) => Listed(m)'
    <3>1. Listed(m) => data[m] = "full"
      BY DEF InPlace, MessageInv, Placed, Unsettled
    <3>2. QED
      BY <1>1, <1>6, <3>1, PopKeeps DEF TypeOK
  <2>3. SamePlace(m)
    BY <1>1, <1>3, <2>2, PopOnce DEF SamePlace, TypeOK
  <2>4. QED
    BY <1>2, <2>1, <2>3, Elsewhere
<1>7. CASE Head(list[q]) = m
  <2>1. Listed(m) /\ ~ Listed(m)'
    BY <1>1, <1>7, PopListed DEF TypeOK, InPlace
  <2>2. /\ Unsettled(m) /\ fails[m] = retries[m] /\ ~ Held(m) /\ ~ Waits(m) /\ m \notin parked
        /\ phase[m] = "sent"
    BY <2>1 DEF InPlace, MessageInv, Placed
  <2>3. Held(m)' /\ \A v \in Worker : wmsg'[v] = m => v = w
    BY <1>5, <1>7, <2>2 DEF Held
  <2>4. HandInv(m)'
    BY <1>1, <1>5, <2>2, <2>3 DEF HandInv, Unsettled
  <2>5. ~ Placed(m)'
    BY <1>1, <1>3, <2>1, <2>2 DEF Placed, Waits
  <2>6. MessageInv(m)'
    BY <1>1, <2>2, <2>3, <2>5 DEF MessageInv
  <2>7. QED
    BY <1>3, <2>4, <2>6 DEF InPlace
<1>8. QED
  BY <1>6, <1>7

LEMMA StaleInPlace ==
  ASSUME TypeOK, NEW m \in Message, InPlace(m), NEW w \in Worker, DequeueStale(w)
  PROVE  InPlace(m)'
<1>1. /\ \A q \in Level : ~ Live(q) 
      /\ PopDownTo(1)
      /\ UNCHANGED <<phase, data, retries, delayed, parked, dlq, wpc, wmsg, wretry,
                     batch, mmsg, mpc, oks, fails>>
  BY DEF DequeueStale, hashVars, workerVars, moverVars, tally
<1>2. SameFields(m) /\ SameHands(m) /\ SameMovers(m)
  BY <1>1, Untouched
<1>3. 1 \in Level
  BY QueueAssumption DEF Level
<1>4. Listed(m) => data[m] = "full"
  BY DEF InPlace, MessageInv, Placed, Unsettled
<1>5. SamePlace(m)
  BY <1>1, <1>3, <1>4, PopOnce, StalePopKeeps DEF SamePlace, TypeOK
<1>6. QED
  BY <1>2, <1>5, Elsewhere

\* A consumer lets go of its message: nobody has that one any more.
LEMMA LetGo ==
  ASSUME TypeOK, NEW w \in Worker, NEW m \in Message, InPlace(m), BackToLoop(w)
  PROVE  /\ wmsg[w] # m => SameHands(m)
         /\ wmsg[w] = m => ~ Held(m)'
<1>1. /\ wmsg'[w] = NoMessage /\ NoMessage # m
      /\ \A v \in Worker \ {w} : wmsg'[v] = wmsg[v] /\ wpc'[v] = wpc[v] /\ wretry'[v] = wretry[v]
  BY QueueAssumption DEF BackToLoop, TypeOK, WorkerTypeOK
<1>2. wmsg[w] # m => SameHands(m)
  BY <1>1 DEF SameHands
<1>3. wmsg[w] = m => ~ Held(m)'
  BY <1>1, HeldAlone DEF Held
<1>4. QED
  BY <1>2, <1>3

\* ack, and the end of a nack that buries: the fields are deleted.
LEMMA DeleteInPlace ==
  ASSUME TypeOK, SettledInv, NEW m \in Message, InPlace(m), NEW w \in Worker,
         Ack(w) \/ NackDelete(w)
  PROVE  InPlace(m)'
<1>1. wmsg[w] \in Message
  BY WorkingMessage DEF TypeOK, Ack, NackDelete
<1>2. /\ wpc[w] \in {"acking", "burying"} /\ DeleteHash(wmsg[w]) /\ BackToLoop(w)
      /\ UNCHANGED <<phase, retries, list, delayed, parked, dlq, batch, mmsg, mpc,
                     oks, fails>>
  BY DEF Ack, NackDelete, placeVars, moverVars, tally
<1>3. SamePlace(m) /\ SameMovers(m)
  BY <1>2, Untouched
<1>4. CASE wmsg[w] # m
  <2>1. SameFields(m)
    BY <1>1, <1>2, <1>4 DEF SameFields, DeleteHash, TypeOK, ProducerTypeOK
  <2>2. QED
    BY <1>2, <1>3, <1>4, <2>1, LetGo, Elsewhere
<1>5. CASE wmsg[w] = m
  <2>1. oks[m] > 0 \/ m \in dlq
    BY <1>2, <1>5 DEF SettledInv
  <2>2. data'[m] = "none" /\ phase[m] = "sent" /\ ~ Placed(m) /\ ~ Held(m)'
    BY <1>2, <1>5, HeldAlone, LetGo DEF DeleteHash, TypeOK, ProducerTypeOK
  <2>3. MoverInv(m)' /\ (Moved(m)' <=> Moved(m)) /\ OnceListed(m)' /\ ~ Placed(m)'
    BY <1>3, <2>2, MoversStay DEF InPlace, SamePlace, Placed, Waits
  <2>4. HandInv(m)' /\ MessageInv(m)'
    BY <1>2, <2>1, <2>2, <2>3 DEF HandInv, Held, MessageInv
  <2>5. QED
    BY <2>3, <2>4 DEF InPlace
<1>6. QED
  BY <1>4, <1>5

LEMMA RequeueInPlace ==
  ASSUME TypeOK, NEW m \in Message, InPlace(m), NEW w \in Worker, Requeue(w)
  PROVE  InPlace(m)'
<1>1. PICK x \in Message : x = wmsg[w]
  BY WorkingMessage DEF TypeOK, Requeue
<1>2. /\ wpc[w] = "requeueing" /\ Push(x) /\ BackToLoop(w)
      /\ UNCHANGED <<phase, data, retries, delayed, parked, dlq, batch, mmsg, mpc,
                     oks, fails>>
  BY <1>1 DEF Requeue, hashVars, moverVars, tally
<1>3. SameFields(m) /\ SameMovers(m)
  BY <1>2, Untouched
<1>4. CASE x # m
  <2>1. SamePlace(m)
    BY <1>2, <1>4, PushOthers DEF SamePlace, TypeOK
  <2>2. QED
    BY <1>1, <1>2, <1>3, <1>4, <2>1, LetGo, Elsewhere
<1>5. CASE x = m
  <2>1. /\ phase[m] = "sent" /\ ~ Placed(m) /\ ~ Held(m)'
        /\ Unsettled(m) /\ fails[m] = retries[m]
    BY <1>1, <1>2, <1>5, HeldAlone, LetGo DEF InPlace, HandInv
  <2>2. Listed(m)' /\ OnceListed(m)'
    BY <1>2, <1>5, <2>1, PushNew DEF Placed, TypeOK
  <2>3. MoverInv(m)' /\ (Moved(m)' <=> Moved(m))
    BY <1>2, <1>3, MoversStay DEF InPlace
  <2>4. ~ Waits(m)' /\ m \notin parked'
    BY <1>2, <2>1, <2>3 DEF Placed, Waits
  <2>5. HandInv(m)'
    BY <2>1 DEF HandInv, Held
  <2>6. Unsettled(m)' /\ fails'[m] = retries'[m] /\ phase'[m] = "sent"
    BY <1>2, <2>1 DEF Unsettled
  <2>7. MessageInv(m)'
    BY <2>1, <2>2, <2>4, <2>6 DEF MessageInv, Placed
  <2>8. QED
    BY <2>2, <2>3, <2>5, <2>7 DEF InPlace
<1>6. QED
  BY <1>4, <1>5

-----------------------------------------------------------------------------
(* The movers                                                              *)

LEMMA ReadInPlace ==
  ASSUME TypeOK, NEW m \in Message \ contested', InPlace(m), NEW p \in Mover, ReadDelayed(p)
  PROVE  InPlace(m)'
<1>1. /\ mpc[p] = "idle" /\ batch[p] = {} /\ batch' = [batch EXCEPT ![p] = delayed \cap due]
      /\ contested' = contested \cup
           {x \in delayed \cap due : \E r \in Mover \ {p} : x \in Taken(r)}
      /\ UNCHANGED <<phase, data, retries, list, delayed, parked, dlq, wpc, wmsg, wretry,
                     mmsg, mpc, oks, fails>>
  BY DEF ReadDelayed, hashVars, placeVars, workerVars, tally
<1>2. SameFields(m) /\ SamePlace(m) /\ SameHands(m)
  BY <1>1, Untouched
<1>3. /\ mmsg[p] # m /\ mmsg' = mmsg
      /\ batch'[p] = delayed \cap due
      /\ \A r \in Mover \ {p} : batch'[r] = batch[r]
  BY <1>1, QueueAssumption DEF TypeOK, MoverTypeOK
<1>4. CASE m \notin delayed \cap due
  <2>1. SameMovers(m)
    BY <1>1, <1>3, <1>4 DEF SameMovers
  <2>2. QED
    BY <1>2, <2>1, Elsewhere
<1>5. CASE m \in delayed \cap due
  <2>1. \A r \in Mover \ {p} : m \notin Taken(r)
    BY <1>1, <1>5
  <2>2. \A r \in Mover \ {p} : m \notin Taken(r)'
    BY <1>3, <2>1 DEF Taken
  <2>3. MoverInv(m)'
    BY <1>1, <1>3, <1>5, <2>2 DEF MoverInv
  <2>4. Moved(m)' <=> Moved(m)
    BY <1>1 DEF Moved
  <2>5. HandInv(m)' /\ (Held(m)' <=> Held(m))
    BY <1>2, HandsStay DEF InPlace
  <2>6. MessageInv(m)'
    BY <1>2, <2>4, <2>5
       DEF InPlace, MessageInv, SameFields, SamePlace, Unsettled, Placed, Waits
  <2>7. QED
    BY <1>2, <2>3, <2>5, <2>6 DEF InPlace, SamePlace
<1>6. QED
  BY <1>4, <1>5

\* What one mover has, and is not yet taking out of the set, waits.
LEMMA TakenWaits ==
  ASSUME NEW m \in Message, InPlace(m), NEW p \in Mover, m \in Taken(p),
         ~ (mpc[p] = "removing" /\ mmsg[p] = m)
  PROVE  Waits(m) /\ ~ Moved(m) /\ data[m] = "full"
<1>1. ~ Moved(m)
  BY DEF InPlace, MoverInv, Moved, Taken
<1>2. Waits(m)
  BY <1>1 DEF InPlace, MoverInv, Waits
<1>3. QED
  BY <1>1, <1>2 DEF InPlace, MessageInv, Placed, Unsettled

LEMMA HashInPlace ==
  ASSUME TypeOK, NEW m \in Message, InPlace(m), NEW p \in Mover, NEW x \in Message,
         ReadHash(p, x)
  PROVE  InPlace(m)'
<1>1. /\ mpc[p] = "idle" /\ x \in batch[p] /\ batch' = [batch EXCEPT ![p] = @ \ {x}]
      /\ \/ data[x] = "partial" /\ UNCHANGED <<mpc, mmsg>>
         \/ /\ data[x] # "partial"
            /\ mpc' = [mpc EXCEPT ![p] = NextMove(x)] /\ mmsg' = [mmsg EXCEPT ![p] = x]
      /\ UNCHANGED <<phase, data, retries, list, delayed, parked, dlq, wpc, wmsg, wretry,
                     oks, fails>>
  BY DEF ReadHash, hashVars, placeVars, workerVars, tally
<1>2. SameFields(m) /\ SamePlace(m) /\ SameHands(m)
  BY <1>1, Untouched
<1>3. /\ mmsg[p] # m /\ batch'[p] = batch[p] \ {x}
      /\ \A r \in Mover \ {p} : batch'[r] = batch[r] /\ mmsg'[r] = mmsg[r] /\ mpc'[r] = mpc[r]
      /\ mmsg'[p] \in {x, mmsg[p]}
  BY <1>1, QueueAssumption DEF TypeOK, MoverTypeOK
<1>4. CASE m # x
  <2>1. SameMovers(m)
    BY <1>3, <1>4 DEF SameMovers
  <2>2. QED
    BY <1>2, <2>1, Elsewhere
<1>5. CASE m = x
  <2>1. Waits(m) /\ ~ Moved(m) /\ data[m] = "full"
    BY <1>1, <1>3, <1>5, TakenWaits DEF Taken
  <2>2. mpc'[p] = "pushing" /\ mmsg'[p] = m /\ m \notin batch'[p]
    BY <1>1, <1>3, <1>5, <2>1 DEF NextMove, TypeOK, MoverTypeOK
  <2>3. ~ Moved(m)'
    BY <1>3, <2>1, <2>2 DEF Moved
  <2>4. MoverInv(m)'
    <3>1. \A r \in Mover : m \in Taken(r)' => r = p
      BY <1>1, <1>3, <1>5 DEF InPlace, MoverInv, Taken
    <3>2. QED
      BY <1>1, <2>1, <2>2, <3>1 DEF MoverInv, Waits
  <2>5. HandInv(m)' /\ (Held(m)' <=> Held(m))
    BY <1>2, HandsStay DEF InPlace
  <2>6. MessageInv(m)'
    BY <1>2, <2>1, <2>3, <2>5
       DEF InPlace, MessageInv, SameFields, SamePlace, Unsettled, Placed, Waits
  <2>7. QED
    BY <1>2, <2>4, <2>5, <2>6 DEF InPlace, SamePlace
<1>6. QED
  BY <1>4, <1>5

LEMMA MoveInPlace ==
  ASSUME TypeOK, NEW m \in Message, InPlace(m), NEW p \in Mover, MoveToList(p)
  PROVE  InPlace(m)'
<1>0. PICK x \in Message : x = mmsg[p]
  BY DEF MoveToList, TypeOK, MoverTypeOK
<1>1. /\ mpc[p] = "pushing" /\ mpc' = [mpc EXCEPT ![p] = "removing"] /\ Route(x)
      /\ UNCHANGED <<phase, data, retries, delayed, dlq, wpc, wmsg, wretry, batch, mmsg,
                     oks, fails>>
  BY <1>0 DEF MoveToList, hashVars, workerVars, tally
<1>2. SameFields(m) /\ SameHands(m)
  BY <1>1, Untouched
<1>3. mpc'[p] = "removing" /\ \A r \in Mover \ {p} : mpc'[r] = mpc[r]
  BY <1>1 DEF TypeOK, MoverTypeOK
<1>4. CASE m # x
  <2>1. SameMovers(m)
    BY <1>0, <1>1, <1>3, <1>4 DEF SameMovers
  <2>2. SamePlace(m)
    BY <1>1, <1>4, PushOthers DEF Route, SamePlace, Listed, OnceListed, TypeOK
  <2>3. QED
    BY <1>2, <2>1, <2>2, Elsewhere
<1>5. CASE m = x
  <2>1. Waits(m) /\ m \in delayed
    BY <1>0, <1>1, <1>5, TakenWaits DEF Taken, Waits
  <2>2. /\ Unsettled(m) /\ fails[m] = retries[m] /\ ~ Held(m) /\ ~ Listed(m)
        /\ m \notin parked /\ phase[m] = "sent"
    BY <2>1 DEF InPlace, MessageInv, Placed
  <2>3. MoverInv(m)'
    BY <1>1 DEF InPlace, MoverInv, Taken
  <2>4. Moved(m)'
    BY <1>0, <1>1, <1>3, <1>5 DEF Moved
  <2>5. HandInv(m)' /\ ~ Held(m)'
    BY <1>2, <2>2, HandsStay DEF InPlace
  <2>6. /\ OnceListed(m)'
        /\ \/ Listed(m)' /\ m \notin parked'
           \/ ~ Listed(m)' /\ m \in parked'
    <3>1. UNCHANGED list => OnceListed(m)' /\ ~ Listed(m)'
      BY <2>2 DEF InPlace, OnceListed, Listed
    <3>2. Push(m) => OnceListed(m)' /\ Listed(m)'
      BY <2>2, PushNew DEF TypeOK
    <3>3. QED
      BY <1>1, <1>5, <2>2, <3>1, <3>2 DEF Route
  <2>7. MessageInv(m)'
    BY <1>1, <2>2, <2>4, <2>5, <2>6 DEF MessageInv, Placed, Waits, Unsettled
  <2>8. QED
    BY <2>3, <2>5, <2>6, <2>7 DEF InPlace
<1>6. QED
  BY <1>4, <1>5

LEMMA RemoveInPlace ==
  ASSUME TypeOK, NEW m \in Message, InPlace(m), NEW p \in Mover, RemoveDelayed(p)
  PROVE  InPlace(m)'
<1>0. PICK x \in Message : x = mmsg[p]
  BY DEF RemoveDelayed, TypeOK, MoverTypeOK
<1>1. /\ mpc[p] = "removing" /\ delayed' = delayed \ {x} /\ MoverDone(p)
      /\ UNCHANGED <<phase, data, retries, list, parked, dlq, wpc, wmsg, wretry, batch,
                     oks, fails>>
  BY <1>0 DEF RemoveDelayed, hashVars, workerVars, tally
<1>2. SameFields(m) /\ SameHands(m)
  BY <1>1, Untouched
<1>3. /\ mmsg'[p] = NoMessage /\ NoMessage # m /\ mpc'[p] = "idle"
      /\ \A r \in Mover \ {p} : mmsg'[r] = mmsg[r] /\ mpc'[r] = mpc[r]
  BY <1>1, QueueAssumption DEF MoverDone, TypeOK, MoverTypeOK
<1>4. CASE m # x
  <2>1. SameMovers(m)
    BY <1>0, <1>1, <1>3, <1>4 DEF SameMovers
  <2>2. SamePlace(m)
    BY <1>1, <1>4 DEF SamePlace, Listed, OnceListed
  <2>3. QED
    BY <1>2, <2>1, <2>2, Elsewhere
<1>5. CASE m = x
  <2>1. Moved(m) /\ m \in Taken(p) /\ m \notin batch[p]
    BY <1>0, <1>1, <1>5 DEF Moved, Taken, InPlace, MoverInv
  <2>2. \A r \in Mover : m \notin Taken(r)'
    BY <1>1, <1>3, <2>1 DEF InPlace, MoverInv, Taken
  <2>3. MoverInv(m)'
    BY <2>2 DEF MoverInv
  <2>4. ~ Waits(m) /\ ~ Waits(m)' /\ phase[m] = "sent"
    <3>1. m \in delayed
      BY <2>1 DEF InPlace, MoverInv
    <3>2. QED
      BY <1>1, <1>5, <2>1, <3>1 DEF Waits, InPlace, MessageInv
  <2>5. HandInv(m)' /\ (Held(m)' <=> Held(m))
    BY <1>2, HandsStay DEF InPlace
  <2>6. OnceListed(m)' /\ (Listed(m)' <=> Listed(m))
    BY <1>1 DEF InPlace, OnceListed, Listed
  <2>7. MessageInv(m)'
    BY <1>1, <2>4, <2>5, <2>6 DEF InPlace, MessageInv, Placed, Unsettled
  <2>8. QED
    BY <2>3, <2>5, <2>6, <2>7 DEF InPlace
<1>6. QED
  BY <1>4, <1>5

-----------------------------------------------------------------------------
(* While nothing fails                                                     *)

\* The steps that are possible without a failure and without a stop.
CalmStep ==
    \/ \E m \in Message : EnqueueStore(m) \/ EnqueuePush(m) \/ ComeDue(m)
    \/ \E w \in Worker : WorkerRuns(w) \/ StopNormally(w) \/ StopByCancel(w)
    \/ \E p \in Mover : MoverRuns(p)
    \/ UNCHANGED vars

LEMMA StaysUnharmed ==
  ASSUME TypeOK, [Next]_vars, Unharmed'
  PROVE  Unharmed /\ CalmStep
<1> USE DEF TypeOK, TallyTypeOK, Unharmed
<1>1. faults \in Nat /\ stops \in Nat /\ faults' = 0 /\ stops' = 0
  BY QueueAssumption
<1>2. ~ Fault /\ \A w \in Worker : ~ StopBegin(w)
  BY <1>1 DEF Fault, StopBegin
<1>3. CalmStep
  BY <1>2 DEF CalmStep, Next, ProducerStep, WorkerStep, EnqueueStoreFails,
     EnqueueReplyLost, EnqueueFails, DequeueReplyLost, NackCountFails, RequeueReplyLost,
     OperationFails, MoverFails
<1>4. UNCHANGED budget
  BY <1>3 DEF CalmStep, WorkerRuns, MoverRuns, vars, budget, EnqueueStore, EnqueuePush,
     ComeDue, Dequeue, DequeueStale, Fetch, FetchNothing, HandlerOk, HandlerFails, Ack,
     NackCount, Requeue, NackBury, NackDelete, StopNormally, StopByCancel, ReadDelayed,
     ReadHash, MoveToList, RemoveDelayed
<1>5. QED
  BY <1>1, <1>3, <1>4 DEF budget

LEMMA CalmInPlace ==
  ASSUME TypeOK, SettledInv, \A w \in Worker : running[w], CalmStep,
         NEW m \in Message \ contested', InPlace(m)
  PROVE  InPlace(m)'
<1>1. ASSUME NEW x \in Message, EnqueueStore(x) \/ EnqueuePush(x) PROVE InPlace(m)'
  BY <1>1, StoreInPlace, SendInPlace
<1>2. ASSUME UNCHANGED <<phase, hashVars, list, delayed, parked, dlq, workerVars,
                         moverVars, tally>>
      PROVE  InPlace(m)'
  BY <1>2, Untouched, Elsewhere DEF hashVars, workerVars, moverVars, tally
<1>3. ASSUME NEW w \in Worker, WorkerRuns(w) PROVE InPlace(m)'
  <2>1. ASSUME FetchNothing(w) PROVE InPlace(m)'
    <3>1. /\ data[wmsg[w]] # "full" /\ BackToLoop(w)
          /\ UNCHANGED <<phase, data, retries, list, delayed, parked, dlq, batch, mmsg,
                         mpc, oks, fails>>
      BY <2>1 DEF FetchNothing, hashVars, placeVars, moverVars, tally
    <3>2. wmsg[w] # m
      BY <3>1, HeldAlone
    <3>3. QED
      BY <3>1, <3>2, LetGo, Untouched, Elsewhere
  <2>2. QED
    BY <1>3, <2>1, DequeueInPlace, StaleInPlace, FetchInPlace, HandlerInPlace,
       DeleteInPlace, CountInPlace, RequeueInPlace, BuryInPlace DEF WorkerRuns
<1>4. ASSUME NEW w \in Worker, StopNormally(w) \/ StopByCancel(w) PROVE FALSE
  BY <1>4 DEF StopNormally, StopByCancel
<1>5. ASSUME NEW p \in Mover, MoverRuns(p) PROVE InPlace(m)'
  BY <1>5, ReadInPlace, HashInPlace, MoveInPlace, RemoveInPlace DEF MoverRuns
<1>6. QED
  BY <1>1, <1>2, <1>3, <1>4, <1>5 DEF CalmStep, ComeDue, vars, hashVars, workerVars,
     moverVars, tally

\* Nobody stops, and what two movers had read stays so.
LEMMA CalmRuns ==
  ASSUME CalmStep
  PROVE  contested \subseteq contested' /\ UNCHANGED running
<1>1. contested \subseteq contested'
  BY DEF CalmStep, WorkerRuns, MoverRuns, vars, moverVars, EnqueueStore, EnqueuePush,
     ComeDue, Dequeue, DequeueStale, Fetch, FetchNothing, HandlerOk, HandlerFails, Ack,
     NackCount, Requeue, NackBury, NackDelete, StopNormally, StopByCancel, ReadDelayed,
     ReadHash, MoveToList, RemoveDelayed
<1>2. UNCHANGED running
  BY DEF CalmStep, WorkerRuns, MoverRuns, vars, workerVars, EnqueueStore, EnqueuePush,
     ComeDue, Dequeue, DequeueStale, Fetch, FetchNothing, HandlerOk, HandlerFails, Ack,
     NackCount, Requeue, NackBury, NackDelete, StopNormally, StopByCancel, ReadDelayed,
     ReadHash, MoveToList, RemoveDelayed
<1>3. QED
  BY <1>1, <1>2

LEMMA InitInPlace == Init => PlaceInv
<1>0. Init => \A w \in Worker : running[w]
  BY DEF Init
<1> SUFFICES ASSUME Init, NEW m \in Message PROVE InPlace(m)
  BY <1>0 DEF PlaceInv
<1>1. \A q \in Level : DOMAIN list[q] = {}
  BY DEF Init
<1>2. ~ Listed(m) /\ OnceListed(m)
  BY <1>1, QueueAssumption DEF Listed, OnceListed
<1>3. ~ Held(m) /\ HandInv(m)
  BY QueueAssumption DEF Init, Held, HandInv
<1>4. \A p \in Mover : m \notin Taken(p)
  BY QueueAssumption DEF Init, Taken
<1>5. MoverInv(m)
  BY <1>4 DEF MoverInv
<1>6. MessageInv(m)
  BY <1>2, <1>3 DEF Init, MessageInv, Placed, Waits
<1>7. QED
  BY <1>2, <1>3, <1>5, <1>6 DEF Init, InPlace

LEMMA PlaceStep ==
  ASSUME IInv, PlaceInv, [Next]_vars
  PROVE  PlaceInv'
<1> SUFFICES ASSUME Unharmed'
             PROVE  /\ \A w \in Worker : running'[w]
                    /\ \A m \in Message \ contested' : InPlace(m)'
  BY DEF PlaceInv
<1>1. Unharmed /\ CalmStep
  BY StaysUnharmed DEF IInv
<1>2. \A w \in Worker : running[w] /\ running'[w]
  BY <1>1, CalmRuns DEF PlaceInv
<1>3. ASSUME NEW m \in Message \ contested' PROVE InPlace(m)'
  <2>1. InPlace(m)
    BY <1>1, CalmRuns DEF PlaceInv
  <2>2. QED
    BY <1>1, <1>2, <2>1, CalmInPlace DEF IInv
<1>4. QED
  BY <1>2, <1>3

\* NoLeftovers: while nothing fails, and however many processes move delayed messages,
\* Redis keeps nothing of a message that is settled, that no consumer has and that no
\* two movers had read (message_queue.py:248-301).
THEOREM NothingIsLeft == Spec => []NoLeftovers
<1>1. Init => IInv /\ PlaceInv
  BY IInvInit, InitInPlace
<1>2. IInv /\ PlaceInv /\ [Next]_vars => IInv' /\ PlaceInv'
  BY IInvStep, PlaceStep
<1>3. TypeOK /\ PlaceInv => NoLeftovers
  <2> SUFFICES ASSUME TypeOK, NEW m \in Message, InPlace(m), oks[m] > 0 \/ m \in dlq,
                      ~ Held(m)
               PROVE  data[m] = "none" /\ ~ Listed(m)
    BY DEF PlaceInv, NoLeftovers
  <2>1. ~ (oks[m] = 0 /\ m \notin dlq)
    BY DEF TypeOK, TallyTypeOK
  <2>2. QED
    BY <2>1 DEF InPlace, MessageInv, Unsettled, Placed
<1>4. QED
  BY <1>1, <1>2, <1>3, PTL DEF Spec, IInv

\* PriorityRespected: while nothing fails, and however many processes move delayed
\* messages, a consumer is given a message only when each list of a higher priority is
\* empty or begins with an id that two movers had read (Lua script,
\* message_queue.py:90-113).
THEOREM UrgentFirst == Spec => PriorityRespected
<1> DEFINE First == \A w \in Worker, q, r \in Level :
                      (Unharmed /\ Dequeue(w, q) /\ r > q) =>
                          list[r] = <<>> \/ Head(list[r]) \in contested
<1>1. Init => IInv /\ PlaceInv
  BY IInvInit, InitInPlace
<1>2. IInv /\ PlaceInv /\ [Next]_vars => IInv' /\ PlaceInv'
  BY IInvStep, PlaceStep
<1>3. TypeOK /\ PlaceInv => First
  <2> SUFFICES ASSUME TypeOK, \A m \in Message \ contested : InPlace(m),
                      NEW q \in Level, NEW r \in Level, Serves(q), r > q, list[r] # <<>>,
                      Head(list[r]) \notin contested
               PROVE  FALSE
    BY DEF PlaceInv, Dequeue
  <2>1. list[r] \in Seq(Message)
    BY DEF TypeOK, PlaceTypeOK
  <2>2. 1 \in DOMAIN list[r] /\ Head(list[r]) = list[r][1] /\ list[r][1] \in Message
    BY <2>1
  <2>3. Listed(list[r][1]) /\ InPlace(list[r][1])
    BY <2>2 DEF Listed
  <2>4. data[Head(list[r])] = "full"
    BY <2>2, <2>3 DEF InPlace, MessageInv, Placed, Unsettled
  <2>5. Live(r)
    BY <2>4 DEF Live
  <2>6. q \in Nat /\ r \in Nat
    BY DEF Level
  <2>7. QED
    BY <2>5, <2>6 DEF Serves
<1>4. IInv /\ PlaceInv /\ [Next]_vars => [First]_vars
  BY <1>3 DEF IInv
<1>5. QED
  BY <1>1, <1>2, <1>4, PTL DEF Spec, PriorityRespected

-----------------------------------------------------------------------------
(* The queue implements Delivery while nothing fails                       *)

\* A step that settles nothing and sends nothing leaves every status.
LEMMA SameStatus ==
  ASSUME NEW m \in Message, m \in dlq' <=> m \in dlq, oks'[m] = oks[m],
         phase'[m] = "sent" <=> phase[m] = "sent"
  PROVE  Status(m)' = Status(m)
BY DEF Status

\* A step that changes the status of one message, and then no count.
LEMMA OneStatus ==
  ASSUME NEW m \in Message, NEW s, 
         Status(m)' = s, \A n \in Message \ {m} : Status(n)' = Status(n)
  PROVE  [n \in Message |-> Status(n)]' = [[n \in Message |-> Status(n)] EXCEPT ![m] = s]
<1> DEFINE f == [n \in Message |-> Status(n)]
           g == [f EXCEPT ![m] = s]
           h == [n \in Message |-> Status(n)']
<1>1. \A n \in Message : g[n] = h[n]
  OBVIOUS
<1>2. g = [n \in Message |-> g[n]] /\ h = [n \in Message |-> h[n]]
  OBVIOUS
<1>3. g = h
  BY <1>1, <1>2
<1>4. QED
  BY <1>3

LEMMA CalmImplements ==
  ASSUME IInv, PlaceInv, Unharmed, CalmStep
  PROVE  \/ Contract!Next
         \/ \E m \in contested : OnlyOf(m)
         \/ UNCHANGED <<[m \in Message |-> Status(m)], fails>>
<1> DEFINE stat == [m \in Message |-> Status(m)]
<1> USE DEF IInv
<1>1. ASSUME UNCHANGED <<dlq, oks, fails>>,
             \A m \in Message : phase'[m] = "sent" <=> phase[m] = "sent"
      PROVE  UNCHANGED <<stat, fails>>
  <2>1. \A m \in Message : Status(m)' = Status(m)
    BY <1>1, SameStatus
  <2>2. QED
    BY <1>1, <2>1
<1>2. ASSUME NEW m \in Message, EnqueueStore(m) PROVE UNCHANGED <<stat, fails>>
  BY <1>1, <1>2 DEF EnqueueStore, placeVars, tally, TypeOK, ProducerTypeOK
<1>3. ASSUME NEW m \in Message, EnqueuePush(m)
      PROVE  Contract!Next \/ \E n \in contested : OnlyOf(n)
  <2>1. /\ phase[m] = "stored" /\ phase' = [phase EXCEPT ![m] = "sent"]
        /\ UNCHANGED <<dlq, oks, fails>>
    BY <1>3 DEF EnqueuePush, tally
  <2>2. \A n \in Message \ {m} : Status(n)' = Status(n) /\ fails'[n] = fails[n]
    BY <2>1, SameStatus DEF TypeOK, ProducerTypeOK
  <2>3. CASE m \in contested
    BY <2>2, <2>3 DEF OnlyOf
  <2>4. CASE m \notin contested
    <3>1. oks[m] = 0 /\ m \notin dlq
      BY <2>1, <2>4 DEF PlaceInv, InPlace, MessageInv
    <3>2. Status(m) = "new" /\ Status(m)' = "accepted"
      BY <2>1, <3>1 DEF Status, TypeOK, ProducerTypeOK
    <3>3. stat' = [stat EXCEPT ![m] = "accepted"]
      BY <2>2, <3>2, OneStatus
    <3>4. QED
      BY <2>1, <3>2, <3>3 DEF Contract!Next, Contract!Accept
  <2>5. QED
    BY <2>3, <2>4
<1>4. ASSUME NEW w \in Worker, HandlerOk(w) \/ HandlerFails(w) \/ NackBury(w)
      PROVE  \/ Contract!Next
             \/ \E m \in contested : OnlyOf(m)
             \/ UNCHANGED <<stat, fails>>
  <2>1. PICK m \in Message : m = wmsg[w]
    BY <1>4, WorkingMessage DEF HandlerOk, HandlerFails, NackBury, TypeOK
  <2>2. /\ wpc[w] \in {"handling", "nacking"}
        /\ UNCHANGED phase
        /\ \A n \in Message \ {m} : /\ oks'[n] = oks[n] /\ fails'[n] = fails[n]
                                    /\ n \in dlq' <=> n \in dlq
    BY <1>4, <2>1 DEF HandlerOk, HandlerFails, NackBury, DeadLetter, placeVars, tally, TypeOK,
       TallyTypeOK
  <2>3. \A n \in Message \ {m} : Status(n)' = Status(n) /\ fails'[n] = fails[n]
    BY <2>2, SameStatus
  <2>4. CASE m \in contested
    BY <2>3, <2>4 DEF OnlyOf
  <2>5. CASE m \notin contested
    <3>1. InPlace(m)
      BY <2>5 DEF PlaceInv
    <3>2. phase[m] = "sent" /\ Unsettled(m)
      BY <2>1, <2>2, <3>1, HeldAlone DEF InPlace, HandInv
    <3>3. Status(m) = "accepted"
      BY <3>2 DEF Status, Unsettled
    <3>4. CASE HandlerOk(w)
      <4>1. /\ wpc[w] = "handling" /\ oks' = [oks EXCEPT ![m] = @ + 1]
            /\ UNCHANGED <<phase, dlq, fails>>
        BY <2>1, <3>4 DEF HandlerOk, placeVars
      <4>2. Status(m)' = "done"
        BY <3>2, <4>1 DEF Status, TypeOK, TallyTypeOK, Unsettled
      <4>3. stat' = [stat EXCEPT ![m] = "done"]
        BY <2>3, <4>2, OneStatus
      <4>4. fails[m] <= MaxRetries
        BY <2>1, <3>1, <4>1, QueueAssumption DEF InPlace, HandInv, TypeOK, WorkerTypeOK
      <4>5. QED
        BY <3>3, <4>1, <4>3, <4>4 DEF Contract!Next, Contract!Complete
    <3>5. CASE HandlerFails(w)
      <4>1. /\ wpc[w] = "handling" /\ fails' = [fails EXCEPT ![m] = @ + 1]
            /\ UNCHANGED <<phase, dlq, oks>>
        BY <2>1, <3>5 DEF HandlerFails, placeVars
      <4>2. \A n \in Message : Status(n)' = Status(n)
        BY <4>1, SameStatus
      <4>3. UNCHANGED stat
        BY <4>2
      <4>4. fails[m] <= MaxRetries
        BY <2>1, <3>1, <4>1, QueueAssumption DEF InPlace, HandInv, TypeOK, WorkerTypeOK
      <4>5. QED
        BY <3>3, <4>1, <4>3, <4>4 DEF Contract!Next, Contract!Fail
    <3>6. CASE NackBury(w)
      <4>1. /\ wpc[w] = "nacking" /\ ~ MayRetry(w) /\ dlq' = dlq \cup {m}
            /\ UNCHANGED <<phase, oks, fails>>
        BY <2>1, <3>6 DEF NackBury, DeadLetter, tally
      <4>2. Status(m)' = "dead"
        BY <4>1 DEF Status
      <4>3. stat' = [stat EXCEPT ![m] = "dead"]
        BY <2>3, <4>2, OneStatus
      <4>4. fails[m] = MaxRetries + 1
        BY <2>1, <3>1, <4>1, QueueAssumption
           DEF InPlace, HandInv, MayRetry, TypeOK, WorkerTypeOK
      <4>5. QED
        BY <3>3, <4>1, <4>3, <4>4 DEF Contract!Next, Contract!GiveUp
    <3>7. QED
      BY <1>4, <3>4, <3>5, <3>6
  <2>6. QED
    BY <2>4, <2>5
<1>5. CASE UNCHANGED <<phase, dlq, oks, fails>>
  BY <1>1, <1>5
<1>6. QED
  BY <1>2, <1>3, <1>4, <1>5 DEF CalmStep, ComeDue, StopNormally, StopByCancel, MoverRuns,
     ReadDelayed, ReadHash, MoveToList, RemoveDelayed, vars, tally, placeVars, WorkerRuns,
     workerVars, Dequeue, DequeueStale, Fetch, FetchNothing, Ack, NackCount, Requeue,
     NackDelete

\* ImplementsDelivery: while nothing fails, and however many processes move delayed
\* messages, the queue is a Delivery for each message that no two movers had read: it is
\* handled at most MaxRetries + 1 times, succeeds once at most and is given up only after
\* all its retries (nack, message_queue.py:263-301).
THEOREM Refines == Spec => ImplementsDelivery
<1> DEFINE stat == [m \in Message |-> Status(m)]
<1>1. Init => IInv /\ PlaceInv
  BY IInvInit, InitInPlace
<1>2. IInv /\ PlaceInv /\ [Next]_vars => IInv' /\ PlaceInv'
  BY IInvStep, PlaceStep
<1>3. Init => Contract!Init
  <2> SUFFICES ASSUME Init PROVE Contract!Init
    OBVIOUS
  <2>1. ASSUME NEW m \in Message PROVE Status(m) = "new"
    <3>1. dlq = {} /\ oks[m] = 0 /\ phase[m] = "new"
      BY DEF Init
    <3>2. QED
      BY <3>1 DEF Status
  <2>2. stat = [m \in Message |-> "new"]
    BY <2>1
  <2>3. QED
    BY <2>2 DEF Init, Contract!Init
<1>4. IInv /\ PlaceInv /\ [Next]_vars
        => [Unharmed' => Contract!Next \/ \E m \in contested : OnlyOf(m)]_<<stat, fails>>
  BY StaysUnharmed, CalmImplements DEF IInv
<1>5. QED
  BY <1>1, <1>2, <1>3, <1>4, PTL DEF Spec, ImplementsDelivery

-----------------------------------------------------------------------------
(* Losses, with any number of movers, failures and stops                   *)

Finished(m) == oks[m] > 0 \/ m \in dlq

\* A message is found again: it waits, is in a list, or a consumer that goes on has it.
Kept(m) ==
    \/ Waits(m) \/ m \in parked \/ Listed(m)
    \/ \E w \in Worker : running[w] /\ wmsg[w] = m

\* It has lost its fields or its place; one that is sent twice may lose its place while a
\* mover takes it out of the delayed set, before enqueue ends.
AtRisk(m) ==
    /\ phase[m] \in {"stored", "sent"}
    /\ ~ Finished(m)
    /\ \/ data[m] # "full"
       \/ (phase[m] = "sent" \/ Moved(m)) /\ ~ Kept(m)

Danger == {m \in Message : AtRisk(m)}

\* No mover knows of a message before enqueue writes it.
NewInv ==
    \A m \in Message : phase[m] = "new" =>
        m \notin delayed /\ \A p \in Mover : m \notin batch[p] /\ mmsg[p] # m

LossInv == NewInv /\ IsFiniteSet(Danger) /\ Cardinality(Danger) <= faults + stops

LEMMA NewStep ==
  ASSUME TypeOK, NewInv, [Next]_vars
  PROVE  NewInv'
<1> USE DEF TypeOK, ProducerTypeOK, PlaceTypeOK, MoverTypeOK
<1>1. ASSUME NEW m \in Message, EnqueueStore(m) \/ EnqueueStoreFails(m) PROVE NewInv'
  BY <1>1 DEF EnqueueStore, EnqueueStoreFails, NewInv, placeVars, moverVars
<1>2. ASSUME NEW m \in Message, EnqueuePush(m) \/ EnqueueReplyLost(m) \/ EnqueueFails(m)
      PROVE  NewInv'
  <2>1. \A x \in Message : phase'[x] = "new" => phase[x] = "new" /\ x # m
    BY <1>2 DEF EnqueuePush, EnqueueReplyLost, EnqueueFails
  <2>2. delayed' \subseteq delayed \cup {m} /\ UNCHANGED <<batch, mmsg>>
    BY <1>2 DEF EnqueuePush, EnqueueReplyLost, EnqueueFails, Place, placeVars, moverVars
  <2>3. QED
    BY <2>1, <2>2 DEF NewInv
<1>3. ASSUME NEW p \in Mover, ReadDelayed(p) PROVE NewInv'
  BY <1>3 DEF ReadDelayed, NewInv, placeVars
<1>4. ASSUME NEW p \in Mover, NEW m \in Message, ReadHash(p, m) PROVE NewInv'
  <2>1. m \in batch[p] /\ UNCHANGED <<phase, delayed>>
    BY <1>4 DEF ReadHash, placeVars
  <2>2. \A r \in Mover : batch'[r] \subseteq batch[r] /\ mmsg'[r] \in {mmsg[r], m}
    BY <1>4 DEF ReadHash
  <2>3. QED
    BY <2>1, <2>2 DEF NewInv
<1>5. ASSUME NEW p \in Mover, RemoveDelayed(p) \/ MoverFails(p) PROVE NewInv'
  <2>1. /\ UNCHANGED <<phase, batch>> /\ delayed' \subseteq delayed
        /\ \A r \in Mover : mmsg'[r] \in {mmsg[r], NoMessage}
    BY <1>5 DEF RemoveDelayed, MoverFails, MoverDone, placeVars
  <2>2. QED
    BY <2>1, QueueAssumption DEF NewInv
<1>6. CASE UNCHANGED <<phase, delayed, batch, mmsg>>
  BY <1>6 DEF NewInv
<1>7. QED
  BY <1>1, <1>2, <1>3, <1>4, <1>5, <1>6 DEF Next, ProducerStep, WorkerStep, WorkerRuns,
     MoverRuns, vars, placeVars, moverVars, ComeDue, Dequeue, DequeueStale,
     DequeueReplyLost, Fetch, FetchNothing, HandlerOk, HandlerFails, Ack, NackCount,
     NackCountFails, Requeue, RequeueReplyLost, NackBury, NackDelete, OperationFails,
     StopBegin, StopNormally, StopByCancel, MoveToList

\* What is settled stays so.
LEMMA RiskUnfinished ==
  ASSUME TypeOK, [Next]_vars, NEW m \in Message, AtRisk(m)'
  PROVE  ~ Finished(m)
<1>1. oks'[m] >= oks[m] /\ dlq \subseteq dlq'
  BY TalliesGrow, LettersGrow
<1>2. oks[m] \in Nat /\ oks'[m] \in Nat
  BY StepTypes DEF TypeOK, TallyTypeOK
<1>3. QED
  BY <1>1, <1>2 DEF AtRisk, Finished

\* A message that keeps its fields and its place is safe.
LEMMA SafeStays ==
  ASSUME TypeOK, [Next]_vars, NEW m \in Message, AtRisk(m)', ~ AtRisk(m),
         phase'[m] = phase[m], data[m] = "full" => data'[m] = "full",
         data[m] = "full" /\ Kept(m) => Kept(m)',
         data[m] = "full" /\ ~ Finished(m) /\ Moved(m)' => Moved(m) \/ Kept(m)'
  PROVE  FALSE
BY RiskUnfinished DEF AtRisk

\* Who has a message, and what is known of movers, follows from few variables.
LEMMA KeptParts ==
  ASSUME NEW m \in Message, Kept(m), Waits(m) => Waits(m)', parked \subseteq parked',
         Listed(m) => Kept(m)',
         \A w \in Worker : running[w] /\ wmsg[w] = m => Kept(m)'
  PROVE  Kept(m)'
BY DEF Kept

\* What goes to the delayed set, to a partition or to a list is kept there, but for an id
\* that a mover takes out of the set.
LEMMA RouteKeeps ==
  ASSUME PlaceTypeOK, NEW x \in Message, Route(x), NEW m \in Message,
         Waits(m) => Waits(m)', UNCHANGED <<wmsg, running>>, Kept(m) \/ m = x
  PROVE  Kept(m)'
<1>1. CASE x \in Partitioned
  <2>1. parked' = parked \cup {x} /\ list' = list
    BY <1>1 DEF Route
  <2>2. Listed(m) => Listed(m)'
    BY <2>1, SamePlaces
  <2>3. QED
    BY <2>1, <2>2 DEF Kept
<1>2. CASE x \notin Partitioned
  <2>1. Push(x) /\ parked' = parked
    BY <1>2 DEF Route
  <2>2. Listed(m) \/ m = x => Listed(m)'
    BY <2>1, PushKeeps
  <2>3. QED
    BY <2>1, <2>2 DEF Kept
<1>3. QED
  BY <1>1, <1>2

LEMMA PlaceKeeps ==
  ASSUME PlaceTypeOK, NEW x \in Message, Place(x), NEW m \in Message,
         UNCHANGED <<mpc, mmsg, wmsg, running>>
  PROVE  /\ Moved(m)' <=> Moved(m)
         /\ Kept(m) => Kept(m)'
         /\ m = x => Moved(m) \/ Kept(m)'
<1>1. Moved(m)' <=> Moved(m)
  BY DEF Moved
<1>2. CASE x \in Delayed
  <2>1. delayed' = delayed \cup {x} /\ UNCHANGED <<list, parked>>
    BY <1>2 DEF Place
  <2>2. (Waits(m) => Waits(m)') /\ (m = x => Moved(m) \/ Waits(m)')
    BY <1>1, <2>1 DEF Waits
  <2>3. Listed(m) => Listed(m)'
    BY <2>1, SamePlaces
  <2>4. QED
    BY <1>1, <2>1, <2>2, <2>3 DEF Kept
<1>3. CASE x \notin Delayed
  <2>1. delayed' = delayed /\ Route(x)
    BY <1>3 DEF Place
  <2>2. Waits(m) => Waits(m)'
    BY <1>1, <2>1 DEF Waits
  <2>3. QED
    BY <1>1, <2>1, <2>2, RouteKeeps
<1>4. QED
  BY <1>2, <1>3

LEMMA ProducerSafe ==
  ASSUME TypeOK, NewInv, [Next]_vars, NEW x \in Message,
         EnqueueStore(x) \/ EnqueuePush(x) \/ EnqueueReplyLost(x) \/ EnqueueFails(x),
         NEW m \in Message, AtRisk(m)'
  PROVE  AtRisk(m)
<1> SUFFICES ASSUME ~ AtRisk(m) PROVE FALSE
  OBVIOUS
<1>1. CASE EnqueueStore(x)
  <2>1. /\ phase[x] = "new" /\ phase' = [phase EXCEPT ![x] = "stored"]
        /\ data' = [data EXCEPT ![x] = "full"]
        /\ UNCHANGED <<list, delayed, parked, wmsg, running, mpc, mmsg>>
    BY <1>1 DEF EnqueueStore, placeVars, workerVars, moverVars
  <2>2. (Kept(m)' <=> Kept(m)) /\ (Moved(m)' <=> Moved(m))
    BY <2>1, SamePlaces DEF Kept
  <2>3. CASE m = x
    <3>1. phase'[m] = "stored" /\ data'[m] = "full" /\ ~ Moved(m)
      BY <2>1, <2>3 DEF NewInv, Moved, TypeOK, ProducerTypeOK
    <3>2. QED
      BY <2>2, <3>1 DEF AtRisk
  <2>4. CASE m # x
    <3>1. phase'[m] = phase[m] /\ data'[m] = data[m]
      BY <2>1, <2>4 DEF TypeOK, ProducerTypeOK
    <3>2. QED
      BY <2>2, <3>1, SafeStays
  <2>5. QED
    BY <2>3, <2>4
<1>2. CASE EnqueuePush(x) \/ EnqueueReplyLost(x)
  <2>1. /\ phase[x] = "stored" /\ Place(x) /\ data' = data
        /\ UNCHANGED <<wmsg, running, mpc, mmsg>>
        /\ phase' = phase \/ phase' = [phase EXCEPT ![x] = "sent"]
    BY <1>2 DEF EnqueuePush, EnqueueReplyLost, hashVars, workerVars, moverVars
  <2>2. /\ Moved(m)' <=> Moved(m)
        /\ Kept(m) => Kept(m)'
        /\ m = x => Moved(m) \/ Kept(m)'
    BY <2>1, PlaceKeeps DEF TypeOK
  <2>3. CASE phase'[m] = phase[m]
    BY <2>1, <2>2, <2>3, SafeStays
  <2>4. CASE phase'[m] # phase[m]
    <3>1. m = x /\ phase[m] = "stored" /\ data'[m] = data[m]
      BY <2>1, <2>4 DEF TypeOK, ProducerTypeOK
    <3>2. ~ Finished(m)
      BY RiskUnfinished
    <3>3. QED
      BY <2>2, <3>1, <3>2 DEF AtRisk
  <2>5. QED
    BY <2>3, <2>4
<1>3. CASE EnqueueFails(x)
  <2>1. /\ phase' = [phase EXCEPT ![x] = "refused"] /\ data' = data
        /\ UNCHANGED <<list, delayed, parked, wmsg, running, mpc, mmsg>>
    BY <1>3 DEF EnqueueFails, hashVars, placeVars, workerVars, moverVars
  <2>2. (Kept(m)' <=> Kept(m)) /\ (Moved(m)' <=> Moved(m))
    BY <2>1, SamePlaces DEF Kept
  <2>3. phase'[m] = phase[m]
    BY <2>1 DEF AtRisk, TypeOK, ProducerTypeOK
  <2>4. QED
    BY <2>1, <2>2, <2>3, SafeStays
<1>4. QED
  BY <1>1, <1>2, <1>3

\* A consumer that keeps its message.
LEMMA WorkSafe ==
  ASSUME TypeOK, [Next]_vars, NEW w \in Worker,
         \/ Fetch(w) \/ HandlerOk(w) \/ HandlerFails(w) \/ NackCount(w) \/ NackBury(w)
         \/ NackCountFails(w) \/ StopNormally(w),
         NEW m \in Message, AtRisk(m)'
  PROVE  AtRisk(m)
<1> SUFFICES ASSUME ~ AtRisk(m) PROVE FALSE
  OBVIOUS
<1>1. UNCHANGED <<phase, list, delayed, parked, wmsg, running, mpc, mmsg>>
  BY DEF Fetch, HandlerOk, HandlerFails, NackCount, NackBury, NackCountFails, StopNormally,
         hashVars, placeVars, moverVars
<1>2. (Kept(m)' <=> Kept(m)) /\ (Moved(m)' <=> Moved(m))
  BY <1>1, SamePlaces DEF Kept
<1>3. data[m] = "full" => data'[m] = "full"
  BY DEF Fetch, HandlerOk, HandlerFails, NackCount, NackBury, NackCountFails, StopNormally,
         hashVars, TypeOK, ProducerTypeOK
<1>4. QED
  BY <1>1, <1>2, <1>3, SafeStays

\* A consumer that lets go of its message: the others are as safe as before.
LEMMA DropSafe ==
  ASSUME TypeOK, [Next]_vars, NEW w \in Worker,
         \/ FetchNothing(w) \/ Ack(w) \/ NackDelete(w) \/ OperationFails(w)
         \/ StopByCancel(w) \/ StopBegin(w),
         NEW m \in Message, m # wmsg[w], AtRisk(m)'
  PROVE  AtRisk(m)
<1> SUFFICES ASSUME ~ AtRisk(m) PROVE FALSE
  OBVIOUS
<1> USE DEF TypeOK, WorkerTypeOK
<1>1. UNCHANGED <<phase, list, delayed, parked, mpc, mmsg>>
  BY DEF FetchNothing, Ack, NackDelete, OperationFails, StopByCancel, StopBegin, hashVars,
         placeVars, moverVars
<1>2. data'[m] = data[m]
  BY DEF FetchNothing, Ack, NackDelete, DeleteHash, OperationFails, StopByCancel, StopBegin,
         hashVars, ProducerTypeOK
<1>3. \A v \in Worker \ {w} : running'[v] = running[v] /\ wmsg'[v] = wmsg[v]
  BY DEF FetchNothing, Ack, NackDelete, OperationFails, StopByCancel, StopBegin, BackToLoop
<1>4. (Waits(m)' <=> Waits(m)) /\ (Listed(m)' <=> Listed(m)) /\ (Moved(m)' <=> Moved(m))
  BY <1>1, SamePlaces
<1>5. Kept(m) => Kept(m)'
  BY <1>1, <1>3, <1>4 DEF Kept
<1>6. QED
  BY <1>1, <1>2, <1>4, <1>5, SafeStays

\* A consumer that is done with a message, or cannot use it, may let go of it; so may one
\* that is on its way out.
LEMMA DoneSafe ==
  ASSUME IInv, [Next]_vars, NEW w \in Worker,
         FetchNothing(w) \/ Ack(w) \/ NackDelete(w) \/ StopByCancel(w),
         NEW m \in Message, AtRisk(m)'
  PROVE  AtRisk(m)
<1> USE DEF IInv
<1>1. CASE m # wmsg[w]
  BY <1>1, DropSafe
<1>2. CASE m = wmsg[w]
  <2>1. ~ Finished(m)
    BY RiskUnfinished
  <2>2. ~ Ack(w) /\ ~ NackDelete(w)
    BY <1>2, <2>1 DEF Ack, NackDelete, SettledInv, Finished
  <2>3. CASE FetchNothing(w)
    <3>1. data[m] # "full" /\ UNCHANGED <<phase, data>>
      BY <1>2, <2>3 DEF FetchNothing, hashVars
    <3>2. QED
      BY <2>1, <3>1 DEF AtRisk
  <2>4. CASE StopByCancel(w)
    <3>1. /\ UNCHANGED <<phase, data, list, delayed, parked, running, mpc, mmsg>>
          /\ ~ running[w] /\ \A v \in Worker \ {w} : wmsg'[v] = wmsg[v]
      BY <2>4 DEF StopByCancel, hashVars, placeVars, moverVars, TypeOK, WorkerTypeOK
    <3>2. (Waits(m)' <=> Waits(m)) /\ (Listed(m)' <=> Listed(m)) /\ (Moved(m)' <=> Moved(m))
      BY <3>1, SamePlaces
    <3>3. Kept(m) => Kept(m)'
      BY <3>1, <3>2 DEF Kept
    <3>4. QED
      BY <2>1, <3>1, <3>2, <3>3 DEF AtRisk
  <2>5. QED
    BY <2>2, <2>3, <2>4
<1>3. QED
  BY <1>1, <1>2

\* A consumer that puts its message back, once or twice.
LEMMA RequeueSafe ==
  ASSUME TypeOK, [Next]_vars, NEW w \in Worker, Requeue(w) \/ RequeueReplyLost(w),
         NEW m \in Message, AtRisk(m)'
  PROVE  AtRisk(m)
<1> SUFFICES ASSUME ~ AtRisk(m) PROVE FALSE
  OBVIOUS
<1> USE DEF TypeOK
<1>1. /\ Push(wmsg[w]) /\ wmsg[w] \in Message
      /\ UNCHANGED <<phase, data, delayed, parked, running, mpc, mmsg>>
  BY WorkingMessage DEF Requeue, RequeueReplyLost, hashVars, moverVars, workerVars
<1>2. \A v \in Worker \ {w} : wmsg'[v] = wmsg[v]
  BY DEF Requeue, RequeueReplyLost, BackToLoop, workerVars, WorkerTypeOK
<1>3. (Waits(m) => Waits(m)') /\ (Moved(m)' <=> Moved(m))
  BY <1>1, SamePlaces
<1>4. Listed(m) \/ m = wmsg[w] => Listed(m)'
  BY <1>1, PushKeeps
<1>5. Kept(m) => Kept(m)'
  BY <1>1, <1>2, <1>3, <1>4 DEF Kept
<1>6. QED
  BY <1>1, <1>3, <1>5, SafeStays

\* The script gives the consumer what it takes from a list, but for ids without a hash.
LEMMA DequeueSafe ==
  ASSUME TypeOK, [Next]_vars, NEW w \in Worker, NEW m \in Message, AtRisk(m)',
         \/ \E q \in Level : Dequeue(w, q)
         \/ DequeueStale(w)
         \/ \E q \in Level : DequeueReplyLost(w, q) /\ m # Head(list[q])
  PROVE  AtRisk(m)
<1> SUFFICES ASSUME ~ AtRisk(m) PROVE FALSE
  OBVIOUS
<1> USE DEF TypeOK
<1>1. UNCHANGED <<phase, data, delayed, parked, running, mpc, mmsg>>
  BY DEF Dequeue, DequeueStale, DequeueReplyLost, hashVars, moverVars, workerVars
<1>2. wpc[w] = "idle" /\ wmsg[w] = NoMessage /\ running[w]
  BY DEF Dequeue, DequeueStale, DequeueReplyLost, WorkerTypeOK
<1>3. \A v \in Worker \ {w} : wmsg'[v] = wmsg[v]
  BY DEF Dequeue, DequeueStale, DequeueReplyLost, workerVars, WorkerTypeOK
<1>4. (Waits(m) => Waits(m)') /\ (Moved(m)' <=> Moved(m))
  BY <1>1, SamePlaces
<1>5. Listed(m) /\ data[m] = "full" => Listed(m)' \/ wmsg'[w] = m
  <2>1. ASSUME NEW q \in Level, Dequeue(w, q)
        PROVE  Serves(q) /\ PopDownTo(q) /\ wmsg'[w] = Head(list[q])
    BY <2>1 DEF Dequeue, WorkerTypeOK
  <2>2. ASSUME NEW q \in Level, DequeueReplyLost(w, q) PROVE Serves(q) /\ PopDownTo(q)
    BY <2>2 DEF DequeueReplyLost
  <2>3. ASSUME DequeueStale(w) PROVE PopDownTo(1) /\ \A q \in Level : ~ Live(q)
    BY <2>3 DEF DequeueStale
  <2>4. QED
    BY <2>1, <2>2, <2>3, PopKeeps, StalePopKeeps
<1>6. data[m] = "full" /\ Kept(m) => Kept(m)'
  BY <1>1, <1>2, <1>3, <1>4, <1>5, QueueAssumption DEF Kept
<1>7. QED
  BY <1>1, <1>4, <1>6, SafeStays

\* Movers: an id that is in two places, or whose hash is gone, may be taken out of the set.
LEMMA MoverSafe ==
  ASSUME TypeOK, [Next]_vars, NEW p \in Mover, MoverRuns(p) \/ MoverFails(p),
         NEW m \in Message, AtRisk(m)'
  PROVE  AtRisk(m)
<1> SUFFICES ASSUME ~ AtRisk(m) PROVE FALSE
  OBVIOUS
<1> USE DEF TypeOK, MoverTypeOK
<1>1. UNCHANGED <<phase, data, wmsg, running>>
  BY DEF MoverRuns, MoverFails, ReadDelayed, ReadHash, MoveToList, RemoveDelayed, hashVars,
         workerVars
<1>2. CASE ReadDelayed(p)
  <2>1. UNCHANGED <<list, delayed, parked, mpc, mmsg>>
    BY <1>2 DEF ReadDelayed, placeVars
  <2>2. (Kept(m)' <=> Kept(m)) /\ (Moved(m)' <=> Moved(m))
    BY <1>1, <2>1, SamePlaces DEF Kept
  <2>3. QED
    BY <1>1, <2>2, SafeStays
<1>3. ASSUME NEW x \in Message, ReadHash(p, x) PROVE FALSE
  <2>1. /\ UNCHANGED <<list, delayed, parked>>
        /\ \A r \in Mover \ {p} : mpc'[r] = mpc[r] /\ mmsg'[r] = mmsg[r]
    BY <1>3 DEF ReadHash, placeVars
  <2>2. mpc'[p] = "removing" => mmsg'[p] = x /\ data[x] # "full"
    BY <1>3 DEF ReadHash, NextMove
  <2>3. data[m] = "full" => (Moved(m)' => Moved(m))
    BY <2>1, <2>2 DEF Moved
  <2>4. data[m] = "full" => (Waits(m) => Waits(m)')
    BY <2>1, <2>3 DEF Waits
  <2>5. data[m] = "full" /\ Kept(m) => Kept(m)'
    BY <1>1, <2>1, <2>4, SamePlaces DEF Kept
  <2>6. QED
    BY <1>1, <2>3, <2>5, SafeStays
<1>4. CASE MoveToList(p)
  <2>1. /\ mpc[p] = "pushing" /\ Route(mmsg[p]) /\ mmsg[p] \in Message
        /\ UNCHANGED <<delayed, mmsg>>
        /\ mpc' = [mpc EXCEPT ![p] = "removing"]
    BY <1>4 DEF MoveToList
  <2>2. CASE m = mmsg[p]
    <3>1. Kept(m)'
      <4>1. CASE m \in Partitioned
        BY <2>1, <2>2, <4>1 DEF Route, Kept
      <4>2. CASE m \notin Partitioned
        BY <2>1, <2>2, <4>2, PushKeeps DEF Route, Kept
      <4>3. QED
        BY <4>1, <4>2
    <3>2. QED
      BY <1>1, <3>1, SafeStays
  <2>3. CASE m # mmsg[p]
    <3>1. Moved(m)' <=> Moved(m)
      BY <2>1, <2>3 DEF Moved
    <3>2. Waits(m) => Waits(m)'
      BY <2>1, <3>1 DEF Waits
    <3>3. Kept(m) => Kept(m)'
      BY <1>1, <2>1, <3>2, RouteKeeps
    <3>4. QED
      BY <1>1, <3>1, <3>3, SafeStays
  <2>4. QED
    BY <2>2, <2>3
<1>5. CASE RemoveDelayed(p) \/ MoverFails(p)
  <2>1. /\ UNCHANGED <<list, parked>>
        /\ \A r \in Mover \ {p} : mpc'[r] = mpc[r] /\ mmsg'[r] = mmsg[r]
        /\ mpc'[p] = "idle"
    BY <1>5 DEF RemoveDelayed, MoverFails, MoverDone, placeVars
  <2>2. Moved(m)' => Moved(m)
    BY <2>1 DEF Moved
  <2>3. Waits(m) => m \in delayed'
    BY <1>5 DEF RemoveDelayed, MoverFails, placeVars, Waits, Moved
  <2>4. Waits(m) => Waits(m)'
    BY <2>2, <2>3 DEF Waits
  <2>5. Kept(m) => Kept(m)'
    BY <1>1, <2>1, <2>4, SamePlaces DEF Kept
  <2>6. QED
    BY <1>1, <2>2, <2>5, SafeStays
<1>6. QED
  BY <1>2, <1>3, <1>4, <1>5 DEF MoverRuns

\* enqueue writes nothing or half of one hash.
LEMMA StoreFailsSafe ==
  ASSUME TypeOK, [Next]_vars, NEW x \in Message, EnqueueStoreFails(x),
         NEW m \in Message, m # x, AtRisk(m)'
  PROVE  AtRisk(m)
<1> SUFFICES ASSUME ~ AtRisk(m) PROVE FALSE
  OBVIOUS
<1>1. UNCHANGED <<list, delayed, parked, wmsg, running, mpc, mmsg>>
  BY DEF EnqueueStoreFails, placeVars, workerVars, moverVars
<1>2. phase'[m] = phase[m] /\ data'[m] = data[m]
  BY DEF EnqueueStoreFails, TypeOK, ProducerTypeOK
<1>3. (Kept(m)' <=> Kept(m)) /\ (Moved(m)' <=> Moved(m))
  BY <1>1, SamePlaces DEF Kept
<1>4. QED
  BY <1>2, <1>3, SafeStays

\* Failures and stops are counted one by one.
LEMMA BudgetSteps ==
  ASSUME TypeOK, [Next]_vars
  PROVE  /\ faults' + stops' >= faults + stops
         /\ (\/ \E m \in Message : EnqueueStoreFails(m)
             \/ \E w \in Worker : \/ OperationFails(w) \/ StopBegin(w)
                                  \/ \E q \in Level : DequeueReplyLost(w, q))
               => faults' + stops' = faults + stops + 1
<1>1. faults \in Nat /\ stops \in Nat
  BY QueueAssumption DEF TypeOK, TallyTypeOK
<1>2. CASE \/ \E m \in Message : EnqueueStoreFails(m) \/ EnqueueReplyLost(m) \/ EnqueueFails(m)
           \/ \E w \in Worker : \/ NackCountFails(w) \/ RequeueReplyLost(w) \/ OperationFails(w)
                                \/ \E q \in Level : DequeueReplyLost(w, q)
           \/ \E p \in Mover : MoverFails(p)
  <2>1. faults' = faults + 1 /\ stops' = stops
    BY <1>2 DEF EnqueueStoreFails, EnqueueReplyLost, EnqueueFails, NackCountFails,
       RequeueReplyLost, OperationFails, DequeueReplyLost, MoverFails, Fault
  <2>2. QED
    BY <1>1, <2>1
<1>3. CASE \E w \in Worker : StopBegin(w)
  <2>1. faults' = faults /\ stops' = stops + 1
    BY <1>3 DEF StopBegin
  <2>2. QED
    BY <1>1, <2>1
<1>4. CASE ~ (\/ \E m \in Message : \/ EnqueueStoreFails(m) \/ EnqueueReplyLost(m)
                                    \/ EnqueueFails(m)
              \/ \E w \in Worker : \/ NackCountFails(w) \/ RequeueReplyLost(w)
                                   \/ OperationFails(w)
                                   \/ \E q \in Level : DequeueReplyLost(w, q)
              \/ \E p \in Mover : MoverFails(p)
              \/ \E w \in Worker : StopBegin(w))
  <2>1. \/ \E m \in Message : EnqueueStore(m) \/ EnqueuePush(m) \/ ComeDue(m)
        \/ \E w \in Worker : WorkerRuns(w) \/ StopNormally(w) \/ StopByCancel(w)
        \/ \E p \in Mover : MoverRuns(p)
        \/ UNCHANGED vars
    BY <1>4 DEF Next, ProducerStep, WorkerStep
  <2>2. UNCHANGED budget
    BY <2>1 DEF WorkerRuns, MoverRuns, vars, budget, EnqueueStore, EnqueuePush,
       ComeDue, Dequeue, DequeueStale, Fetch, FetchNothing, HandlerOk, HandlerFails, Ack,
       NackCount, Requeue, NackBury, NackDelete, StopNormally, StopByCancel, ReadDelayed,
       ReadHash, MoveToList, RemoveDelayed
  <2>3. QED
    BY <1>1, <1>4, <2>2 DEF budget
<1>5. QED
  BY <1>2, <1>3, <1>4

\* A step that nothing fails in puts no message at risk.
LEMMA CalmSafe ==
  ASSUME IInv, NewInv, [Next]_vars, NEW m \in Message, AtRisk(m)', ~ AtRisk(m)
  PROVE  \/ \E x \in Message : EnqueueStoreFails(x) /\ m = x
         \/ \E w \in Worker : (OperationFails(w) \/ StopBegin(w)) /\ m = wmsg[w]
         \/ \E w \in Worker, q \in Level : DequeueReplyLost(w, q) /\ m = Head(list[q])
<1> USE DEF IInv
<1>1. ASSUME NEW x \in Message, ProducerStep(x), ~ (EnqueueStoreFails(x) /\ m = x)
      PROVE  ComeDue(x)
  BY <1>1, ProducerSafe, StoreFailsSafe DEF ProducerStep
<1>2. ASSUME NEW w \in Worker, WorkerStep(w), ~ (OperationFails(w) /\ m = wmsg[w]),
             ~ (StopBegin(w) /\ m = wmsg[w]),
             \A q \in Level : ~ (DequeueReplyLost(w, q) /\ m = Head(list[q]))
      PROVE  FALSE
  BY <1>2, WorkSafe, DropSafe, DoneSafe, RequeueSafe, DequeueSafe DEF WorkerStep, WorkerRuns
<1>3. ASSUME NEW p \in Mover PROVE ~ (MoverRuns(p) \/ MoverFails(p))
  BY <1>3, MoverSafe
<1>4. ~ ((\E x \in Message : ComeDue(x)) \/ UNCHANGED vars)
  <2> SUFFICES ASSUME (\E x \in Message : ComeDue(x)) \/ UNCHANGED vars PROVE FALSE
    OBVIOUS
  <2>1. UNCHANGED <<phase, data, list, delayed, parked, wmsg, running, mpc, mmsg>>
    BY DEF ComeDue, vars, hashVars, workerVars, moverVars
  <2>2. (Kept(m)' <=> Kept(m)) /\ (Moved(m)' <=> Moved(m))
    BY <2>1, SamePlaces DEF Kept
  <2>3. QED
    BY <2>1, <2>2, SafeStays
<1>5. QED
  BY <1>1, <1>2, <1>3, <1>4 DEF Next

\* What is lost more is paid.
LEMMA Paid ==
  ASSUME NEW c \in Nat, NEW d \in Nat, NEW f \in Nat, NEW g \in Nat, c <= f,
         (d <= c /\ g >= f) \/ (d <= c + 1 /\ g = f + 1)
  PROVE  d <= g
OBVIOUS

LEMMA LossStep ==
  ASSUME IInv, LossInv, [Next]_vars
  PROVE  LossInv'
<1> USE DEF LossInv
<1>1. NewInv'
  BY NewStep DEF IInv
<1>2. /\ Cardinality(Danger) \in Nat
      /\ faults \in Nat /\ stops \in Nat /\ faults' \in Nat /\ stops' \in Nat
      /\ faults + stops \in Nat /\ faults' + stops' \in Nat
  BY StepTypes, QueueAssumption, FS_CardinalityType DEF IInv, TypeOK, TallyTypeOK
<1>3. CASE \A m \in Message : AtRisk(m)' => AtRisk(m)
  <2>1. Danger' \subseteq Danger
    BY <1>3 DEF Danger
  <2>2. IsFiniteSet(Danger') /\ Cardinality(Danger') <= Cardinality(Danger)
    BY <2>1, FS_Subset
  <2>3. Cardinality(Danger') \in Nat /\ faults' + stops' >= faults + stops
    BY <2>2, FS_CardinalityType, BudgetSteps DEF IInv
  <2>4. Cardinality(Danger') <= faults' + stops'
    BY <1>2, <2>2, <2>3, Paid
  <2>5. QED
    BY <1>1, <2>2, <2>4
<1>4. ASSUME NEW n \in Message, AtRisk(n)', ~ AtRisk(n) PROVE LossInv'
  <2>1. PICK x : \A m \in Message : AtRisk(m)' /\ ~ AtRisk(m) => m = x
    <3>1. \/ \E x \in Message : EnqueueStoreFails(x) /\ n = x
          \/ \E w \in Worker : (OperationFails(w) \/ StopBegin(w)) /\ n = wmsg[w]
          \/ \E w \in Worker, q \in Level : DequeueReplyLost(w, q) /\ n = Head(list[q])
      BY <1>4, CalmSafe
    <3>2. ASSUME NEW x \in Message, EnqueueStoreFails(x), NEW m \in Message, m # x
          PROVE  AtRisk(m)' => AtRisk(m)
      BY <3>2, StoreFailsSafe DEF IInv
    <3>3. ASSUME NEW w \in Worker, OperationFails(w) \/ StopBegin(w),
                 NEW m \in Message, m # wmsg[w]
          PROVE  AtRisk(m)' => AtRisk(m)
      BY <3>3, DropSafe DEF IInv
    <3>4. ASSUME NEW w \in Worker, NEW q \in Level, DequeueReplyLost(w, q),
                 NEW m \in Message, m # Head(list[q])
          PROVE  AtRisk(m)' => AtRisk(m)
      BY <3>4, DequeueSafe DEF IInv
    <3>5. QED
      BY <3>1, <3>2, <3>3, <3>4
  <2>2. faults' + stops' = faults + stops + 1
    BY <1>4, CalmSafe, BudgetSteps DEF IInv
  <2>3. Danger' \subseteq Danger \cup {x}
    BY <2>1 DEF Danger
  <2>4. /\ IsFiniteSet(Danger \cup {x})
        /\ Cardinality(Danger \cup {x}) <= Cardinality(Danger) + 1
    <3>1. IsFiniteSet(Danger)
      OBVIOUS
    <3> HIDE DEF LossInv
    <3>2. /\ IsFiniteSet(Danger \cup {x})
          /\ Cardinality(Danger \cup {x})
                = IF x \in Danger THEN Cardinality(Danger) ELSE Cardinality(Danger) + 1
      BY ONLY <3>1, FS_AddElement
    <3>3. QED
      BY <1>2, <3>2
  <2>5. IsFiniteSet(Danger') /\ Cardinality(Danger') <= Cardinality(Danger \cup {x})
    BY <2>3, <2>4, FS_Subset
  <2>6. Cardinality(Danger') \in Nat /\ Cardinality(Danger \cup {x}) \in Nat
    BY <2>4, <2>5, FS_CardinalityType
  <2>7. Cardinality(Danger') <= Cardinality(Danger) + 1
    BY <1>2, <2>4, <2>5, <2>6
  <2>8. Cardinality(Danger') <= faults' + stops'
    BY <1>2, <2>2, <2>6, <2>7, Paid
  <2>9. QED
    BY <1>1, <2>5, <2>8
<1>5. QED
  BY <1>3, <1>4

\* OneLossEach: with any number of movers, copies of ids, failures and stops, an accepted
\* message that is not settled keeps its fields and a place in Redis or in a consumer, but
\* for one at most for each failed command, lost reply and stop
\* (message_queue.py:81-301, 387-424).
THEOREM LossesAreCounted == Spec => []OneLossEach
<1>1. Init => LossInv
  <2> SUFFICES ASSUME Init PROVE LossInv
    OBVIOUS
  <2>1. Danger = {}
    BY DEF Init, Danger, AtRisk
  <2>2. NewInv
    BY QueueAssumption DEF Init, NewInv
  <2>3. QED
    BY <2>1, <2>2, FS_EmptySet DEF Init, LossInv
<1>2. IInv /\ LossInv /\ [Next]_vars => LossInv'
  BY LossStep
<1>3. IInv /\ LossInv => OneLossEach
  <2> SUFFICES ASSUME IInv, LossInv PROVE OneLossEach
    OBVIOUS
  <2> DEFINE L == {m \in Message : Lost(m)}
  <2>1. L \subseteq Danger
    <3> SUFFICES ASSUME NEW m \in Message, Lost(m) PROVE AtRisk(m)
      BY DEF Danger
    <3>1. Kept(m) => m \in delayed \cup parked \/ Listed(m) \/ Held(m)
      BY DEF Kept, Waits, Held
    <3>2. phase[m] = "sent" /\ ~ Finished(m)
      BY DEF Lost, Finished, IInv, TypeOK, TallyTypeOK
    <3>3. QED
      BY <3>1, <3>2 DEF Lost, AtRisk
  <2>2. IsFiniteSet(L) /\ Cardinality(L) <= Cardinality(Danger)
    BY <2>1, FS_Subset DEF LossInv
  <2>3. /\ Cardinality(L) \in Nat /\ Cardinality(Danger) \in Nat
        /\ faults \in Nat /\ stops \in Nat
    BY <2>2, FS_CardinalityType, QueueAssumption DEF LossInv, IInv, TypeOK, TallyTypeOK
  <2>4. QED
    BY <2>2, <2>3 DEF LossInv, OneLossEach
<1>4. QED
  BY <1>1, <1>2, <1>3, IInvInit, IInvStep, PTL DEF Spec
=============================================================================
