---------------------------- MODULE ChatRoomProofs ----------------------------
(***************************************************************************)
(* Proofs about ChatRoom, for every number of rooms, requests, processes   *)
(* and retries and any number of faults, copies and expiries: types, that  *)
(* one consumer creates a room, that every state change is a legal one,    *)
(* and that a room's state and its row agree.                              *)
(***************************************************************************)
EXTENDS ChatRoom, TLAPS

LEMMA InitTypes == Init => TypeOK
<1> SUFFICES ASSUME Init PROVE TypeOK
  OBVIOUS
<1> USE RoomAssumption
<1>1. StoreTypeOK
  BY DEF Init, StoreTypeOK, RoomState
<1>2. RequestTypeOK
  BY DEF Init, RequestTypeOK
<1>3. QueueTypeOK
  BY DEF Init, QueueTypeOK, Job
<1>4. LoopTypeOK
  BY DEF Init, LoopTypeOK
<1>5. BoundsTypeOK
  BY DEF Init, BoundsTypeOK
<1>6. QED
  BY <1>1, <1>2, <1>3, <1>4, <1>5 DEF TypeOK

-----------------------------------------------------------------------------
(* Types of the operators the steps are built from                         *)

\* A transition sets a state of the table, in one room at most.
LEMMA MoveTypes ==
  ASSUME StoreTypeOK, NEW g \in Room, NEW from \in RoomState, NEW to \in RoomState,
         TryMove(g, from, to)
  PROVE  state' \in [Room -> RoomState]
BY DEF StoreTypeOK, TryMove

LEMMA FaultTypes ==
  ASSUME BoundsTypeOK, Fault
  PROVE  BoundsTypeOK'
BY RoomAssumption DEF BoundsTypeOK, Fault

LEMMA IdleTypes ==
  ASSUME LoopTypeOK, NEW p \in Process, Idle(p)
  PROVE  LoopTypeOK'
BY RoomAssumption DEF LoopTypeOK, Idle

\* A step that keeps the job and goes where the job may be.
LEMMA GotoTypes ==
  ASSUME LoopTypeOK, NEW p \in Process, job' = job, job[p] # NoOne,
         NEW step, Goto(p, step),
         \/ step \in {"lock", "write", "ack", "nack"}
         \/ step \in {"reread", "cleanup"} /\ job[p] \in Room
         \/ step = "move" /\ job[p] \in Room \cup Deleter
  PROVE  LoopTypeOK'
BY RoomAssumption DEF LoopTypeOK, Goto

\* Lists stay lists of jobs when one is put at their end.
LEMMA AppendTypes ==
  ASSUME QueueTypeOK
  PROVE  /\ \A d \in Deleter : Append(high, d) \in Seq(Deleter)
         /\ \A j \in Room \cup Updater : Append(normal, j) \in Seq(Room \cup Updater)
<1> DEFINE Late == Room \cup Updater
<1>1. high \in Seq(Deleter) /\ normal \in Seq(Late)
  BY DEF QueueTypeOK
<1> HIDE DEF Late
<1>2. /\ \A d \in Deleter : Append(high, d) \in Seq(Deleter)
      /\ \A j \in Late : Append(normal, j) \in Seq(Late)
  BY <1>1
<1>3. QED
  BY <1>2 DEF Late

LEMMA RequeueTypes ==
  ASSUME QueueTypeOK, NEW j \in Job, Requeue(j)
  PROVE  high' \in Seq(Deleter) /\ normal' \in Seq(Room \cup Updater)
<1>1. CASE j \in Deleter
  BY <1>1, AppendTypes DEF QueueTypeOK, Requeue
<1>2. CASE j \notin Deleter
  <2>1. j \in Room \cup Updater
    BY <1>2 DEF Job
  <2>2. QED
    BY <1>2, <2>1, AppendTypes DEF QueueTypeOK, Requeue
<1>3. QED
  BY <1>1, <1>2

LEMMA RoomOfTypes ==
  /\ \A d \in Deleter : RoomOf[d] \in Room
  /\ \A u \in Updater : RoomOf[u] \in Room
BY RoomAssumption

-----------------------------------------------------------------------------
(* Every step keeps every variable in its type                             *)

LEMMA HandlerTypes ==
  ASSUME TypeOK, NEW g \in Room,
         CreateRuns(g) \/ ListRuns(g) \/ ListRedis(g) \/ ListRead(g) \/ Expire(g)
  PROVE  TypeOK'
<1> USE RoomAssumption
<1>1. ASSUME Create(g) PROVE TypeOK'
  <2>1. StoreTypeOK'
    BY <1>1, MoveTypes DEF Create, TypeOK, StoreTypeOK, RoomState
  <2>2. RequestTypeOK'
    BY <1>1 DEF Create, TypeOK, RequestTypeOK
  <2>3. BoundsTypeOK'
    BY <1>1, FaultTypes DEF Create, TypeOK, BoundsTypeOK, bounds
  <2>4. QueueTypeOK' /\ LoopTypeOK'
    BY <1>1 DEF Create, TypeOK, QueueTypeOK, LoopTypeOK, queueVars, loopVars
  <2>5. QED
    BY <2>1, <2>2, <2>3, <2>4 DEF TypeOK
<1>2. ASSUME Cache(g) PROVE TypeOK'
  <2>1. StoreTypeOK'
    BY <1>2 DEF Cache, TypeOK, StoreTypeOK
  <2>2. RequestTypeOK'
    BY <1>2 DEF Cache, TypeOK, RequestTypeOK
  <2>3. BoundsTypeOK'
    BY <1>2, FaultTypes DEF Cache, TypeOK, BoundsTypeOK, bounds
  <2>4. QueueTypeOK' /\ LoopTypeOK'
    BY <1>2 DEF Cache, TypeOK, QueueTypeOK, LoopTypeOK, queueVars, loopVars
  <2>5. QED
    BY <2>1, <2>2, <2>3, <2>4 DEF TypeOK
<1>3. ASSUME Pend(g) PROVE TypeOK'
  <2>1. StoreTypeOK'
    BY <1>3, MoveTypes DEF Pend, TypeOK, StoreTypeOK, RoomState
  <2>2. RequestTypeOK'
    BY <1>3 DEF Pend, TypeOK, RequestTypeOK
  <2>3. BoundsTypeOK'
    BY <1>3, FaultTypes DEF Pend, TypeOK, BoundsTypeOK, bounds
  <2>4. QueueTypeOK' /\ LoopTypeOK'
    BY <1>3 DEF Pend, TypeOK, QueueTypeOK, LoopTypeOK, queueVars, loopVars
  <2>5. QED
    BY <2>1, <2>2, <2>3, <2>4 DEF TypeOK
<1>4. ASSUME QueueCreate(g) PROVE TypeOK'
  <2>1. StoreTypeOK' /\ LoopTypeOK'
    BY <1>4 DEF QueueCreate, TypeOK, StoreTypeOK, LoopTypeOK, storeVars, loopVars
  <2>2. RequestTypeOK'
    BY <1>4 DEF QueueCreate, TypeOK, RequestTypeOK
  <2>3. BoundsTypeOK'
    BY <1>4, FaultTypes DEF QueueCreate, TypeOK, BoundsTypeOK, bounds
  <2>4. QueueTypeOK'
    BY <1>4, AppendTypes DEF QueueCreate, TypeOK, QueueTypeOK
  <2>5. QED
    BY <2>1, <2>2, <2>3, <2>4 DEF TypeOK
<1>5. ASSUME ListRedis(g) \/ ListCheck(g) PROVE TypeOK'
  <2>1. StoreTypeOK'
    <3>1. state[g] \in RoomState /\ "ACTIVE" \in RoomState
      BY DEF TypeOK, StoreTypeOK, RoomState
    <3>2. state' \in [Room -> RoomState]
      BY <1>5, <3>1, MoveTypes DEF ListRedis, ListCheck, Restore, TypeOK, StoreTypeOK
    <3>3. QED
      BY <1>5, <3>2 DEF ListRedis, ListCheck, TypeOK, StoreTypeOK
  <2>2. BoundsTypeOK'
    BY <1>5, FaultTypes DEF ListRedis, ListCheck, FoundNoState, TypeOK, BoundsTypeOK, bounds
  <2>3. RequestTypeOK' /\ QueueTypeOK' /\ LoopTypeOK'
    BY <1>5 DEF ListRedis, ListCheck, TypeOK, RequestTypeOK, QueueTypeOK, LoopTypeOK,
                requestVars, queueVars, loopVars
  <2>4. QED
    BY <2>1, <2>2, <2>3 DEF TypeOK
<1>6. ASSUME ListRead(g) \/ ListCache(g) PROVE TypeOK'
  <2>1. StoreTypeOK'
    BY <1>6 DEF ListRead, ListCache, TypeOK, StoreTypeOK
  <2>2. RequestTypeOK' /\ QueueTypeOK' /\ LoopTypeOK' /\ BoundsTypeOK'
    BY <1>6 DEF ListRead, ListCache, TypeOK, RequestTypeOK, QueueTypeOK, LoopTypeOK,
                BoundsTypeOK, requestVars, queueVars, loopVars, bounds
  <2>3. QED
    BY <2>1, <2>2 DEF TypeOK
<1>7. ASSUME Expire(g) PROVE TypeOK'
  <2>1. StoreTypeOK' /\ BoundsTypeOK'
    BY <1>7 DEF Expire, TypeOK, StoreTypeOK, RoomState, BoundsTypeOK
  <2>2. RequestTypeOK' /\ QueueTypeOK' /\ LoopTypeOK'
    BY <1>7 DEF Expire, TypeOK, RequestTypeOK, QueueTypeOK, LoopTypeOK,
                requestVars, queueVars, loopVars
  <2>3. QED
    BY <2>1, <2>2 DEF TypeOK
<1>8. QED
  BY <1>1, <1>2, <1>3, <1>4, <1>5, <1>6, <1>7 DEF CreateRuns, ListRuns

LEMMA DeleterTypes ==
  ASSUME TypeOK, NEW d \in Deleter, Mark(d) \/ DeleteRuns(d)
  PROVE  TypeOK'
<1> USE RoomAssumption
<1>0. RoomOf[d] \in Room
  BY RoomOfTypes
<1>1. StoreTypeOK'
  BY <1>0, MoveTypes DEF Mark, DeleteRuns, Uncache, UncacheFails, QueueDelete, TypeOK,
       StoreTypeOK, RoomState, storeVars
<1>2. RequestTypeOK'
  BY DEF Mark, DeleteRuns, Uncache, UncacheFails, QueueDelete, TypeOK, RequestTypeOK
<1>3. QueueTypeOK'
  BY AppendTypes DEF Mark, DeleteRuns, Uncache, UncacheFails, QueueDelete, TypeOK, QueueTypeOK,
         queueVars
<1>4. LoopTypeOK'
  BY DEF Mark, DeleteRuns, Uncache, UncacheFails, QueueDelete, TypeOK, LoopTypeOK,
         loopVars
<1>5. BoundsTypeOK'
  BY FaultTypes DEF Mark, DeleteRuns, Uncache, UncacheFails, QueueDelete, TypeOK,
         BoundsTypeOK, bounds
<1>6. QED
  BY <1>1, <1>2, <1>3, <1>4, <1>5 DEF TypeOK

LEMMA RenameTypes ==
  ASSUME TypeOK, NEW u \in Updater, QueueRename(u)
  PROVE  TypeOK'
<1> USE RoomAssumption
<1>1. StoreTypeOK' /\ LoopTypeOK'
  BY DEF QueueRename, TypeOK, StoreTypeOK, LoopTypeOK, storeVars, loopVars
<1>2. RequestTypeOK' /\ QueueTypeOK'
  BY AppendTypes DEF QueueRename, TypeOK, RequestTypeOK, QueueTypeOK
<1>3. BoundsTypeOK'
  BY FaultTypes DEF QueueRename, TypeOK, BoundsTypeOK, bounds
<1>4. QED
  BY <1>1, <1>2, <1>3 DEF TypeOK

LEMMA LoopTypes ==
  ASSUME TypeOK, NEW p \in Process, LoopRuns(p) \/ LoopFails(p)
  PROVE  TypeOK'
<1> USE RoomAssumption
<1>0. /\ StoreTypeOK /\ RequestTypeOK /\ QueueTypeOK /\ LoopTypeOK /\ BoundsTypeOK
      /\ hpc[p] # "idle" => job[p] \in Job /\ job[p] # NoOne
      /\ job[p] \in Deleter \cup Updater => RoomOf[job[p]] \in Room
      /\ hpc[p] \in {"check", "reread", "cleanup"} => job[p] \in Room
      /\ hpc[p] = "look" => job[p] \in Deleter
      /\ hpc[p] = "move" => job[p] \in Room \cup Deleter
  BY DEF TypeOK, LoopTypeOK
<1>1. ASSUME Receive(p) PROVE TypeOK'
  <2> DEFINE l == IF FromHigh THEN high ELSE normal
  <2>1. l # <<>> /\ Head(l) \in Job /\ (FromHigh => Head(l) \in Deleter)
    <3>1. CASE FromHigh
      <4>1. Head(high) \in Deleter
        BY <1>0, <1>1, <3>1 DEF Receive, QueueTypeOK, FromHigh
      <4>2. QED
        BY <4>1, <3>1, <1>1 DEF Receive, Job
    <3>2. CASE ~ FromHigh
      <4> DEFINE Late == Room \cup Updater
      <4>1. normal \in Seq(Late) /\ normal # <<>>
        BY <1>0, <1>1, <3>2 DEF Receive, QueueTypeOK
      <4> HIDE DEF Late
      <4>2. Head(normal) \in Late
        BY <4>1
      <4>3. QED
        BY <4>1, <4>2, <3>2 DEF Late, Job
    <3>3. QED
      BY <3>1, <3>2
  <2>2. FirstStep(Head(l)) \in {"check", "look", "lock"}
        /\ (FirstStep(Head(l)) = "check" => Head(l) \in Room)
        /\ (FirstStep(Head(l)) = "look" => Head(l) \in Deleter)
    BY DEF FirstStep
  <2>3. job' = [job EXCEPT ![p] = Head(l)] /\ hpc' = [hpc EXCEPT ![p] = FirstStep(Head(l))]
    BY <1>1 DEF Receive
  <2>4. Head(l) \in Job /\ Head(l) # NoOne
    BY <2>1
  <2> HIDE DEF l
  <2>5. LoopTypeOK'
    BY <1>0, <2>2, <2>3, <2>4 DEF LoopTypeOK
  <2>6. high' \in Seq(Deleter) /\ normal' \in Seq(Room \cup Updater)
    <3> DEFINE Late == Room \cup Updater
    <3>1. high \in Seq(Deleter) /\ normal \in Seq(Late)
      BY <1>0 DEF QueueTypeOK
    <3>2. /\ high' = high \/ (high # <<>> /\ high' = Tail(high))
          /\ normal' = normal \/ (normal # <<>> /\ normal' = Tail(normal))
      <4>1. CASE FromHigh
        <5>1. high # <<>>
          BY <4>1 DEF FromHigh
        <5>2. (high' = Tail(high) \/ high' = high) /\ normal' = normal
          BY <1>1, <4>1 DEF Receive
        <5>3. QED
          BY <5>1, <5>2
      <4>2. CASE ~ FromHigh
        BY <1>1, <4>2 DEF Receive
      <4>3. QED
        BY <4>1, <4>2
    <3> HIDE DEF Late
    <3>3. high' \in Seq(Deleter)
      BY <3>1, <3>2, SMTT(30)
    <3>4. normal' \in Seq(Late)
      BY <3>1, <3>2, SMTT(30)
    <3>5. QED
      BY <3>3, <3>4 DEF Late
  <2>7. QueueTypeOK'
    BY <1>0, <1>1, <2>6 DEF Receive, QueueTypeOK
  <2>8. BoundsTypeOK'
    BY <1>0, <1>1 DEF Receive, BoundsTypeOK, bounds
  <2>9. StoreTypeOK' /\ RequestTypeOK'
    BY <1>0, <1>1 DEF Receive, StoreTypeOK, RequestTypeOK, storeVars, requestVars
  <2>10. QED
    BY <2>5, <2>7, <2>8, <2>9 DEF TypeOK
<1>2. ASSUME CreateCheck(p) PROVE TypeOK'
  <2>1. StoreTypeOK'
    BY <1>0, <1>2, MoveTypes DEF CreateCheck, StoreTypeOK, RoomState
  <2>2. LoopTypeOK'
    BY <1>0, <1>2, GotoTypes DEF CreateCheck
  <2>3. BoundsTypeOK'
    BY <1>0, <1>2, FaultTypes DEF CreateCheck, BoundsTypeOK, bounds
  <2>4. RequestTypeOK' /\ QueueTypeOK'
    BY <1>0, <1>2 DEF CreateCheck, RequestTypeOK, QueueTypeOK, requestVars, queueVars
  <2>5. QED
    BY <2>1, <2>2, <2>3, <2>4 DEF TypeOK
<1>3. ASSUME CreateReread(p) \/ DeleteLook(p) \/ Lock(p) \/ LockFails(p) PROVE TypeOK'
  <2>1. LoopTypeOK'
    BY <1>0, <1>3, GotoTypes DEF CreateReread, DeleteLook, Lock, LockFails
  <2>2. BoundsTypeOK'
    BY <1>0, <1>3, FaultTypes DEF CreateReread, DeleteLook, Lock, LockFails, BoundsTypeOK,
         bounds
  <2>3. StoreTypeOK' /\ RequestTypeOK' /\ QueueTypeOK'
    BY <1>0, <1>3 DEF CreateReread, DeleteLook, Lock, LockFails, StoreTypeOK,
         RequestTypeOK, QueueTypeOK, storeVars, requestVars, queueVars
  <2>4. QED
    BY <2>1, <2>2, <2>3 DEF TypeOK
<1>4. ASSUME Insert(p) \/ InsertRaises(p) PROVE TypeOK'
  <2>1. StoreTypeOK'
    BY <1>0, <1>4 DEF Insert, InsertRaises, Inserted, StoreTypeOK
  <2>2. LoopTypeOK'
    BY <1>0, <1>4, GotoTypes DEF Insert, InsertRaises
  <2>3. BoundsTypeOK'
    BY <1>0, <1>4, FaultTypes DEF Insert, InsertRaises, BoundsTypeOK, bounds
  <2>4. RequestTypeOK' /\ QueueTypeOK'
    BY <1>0, <1>4 DEF Insert, InsertRaises, RequestTypeOK, QueueTypeOK, requestVars,
         queueVars
  <2>5. QED
    BY <2>1, <2>2, <2>3, <2>4 DEF TypeOK
<1>5. ASSUME Cleanup(p) \/ Move(p) PROVE TypeOK'
  <2>1. StoreTypeOK'
    <3>1. state' \in [Room -> RoomState]
      BY <1>0, <1>5, MoveTypes DEF Cleanup, Move, StoreTypeOK, RoomState
    <3>2. QED
      BY <1>0, <1>5, <3>1 DEF Cleanup, Move, StoreTypeOK
  <2>2. LoopTypeOK'
    BY <1>0, <1>5, GotoTypes DEF Cleanup, Move
  <2>3. BoundsTypeOK'
    BY <1>0, <1>5, FaultTypes DEF Cleanup, Move, BoundsTypeOK, bounds
  <2>4. RequestTypeOK' /\ QueueTypeOK'
    BY <1>0, <1>5 DEF Cleanup, Move, RequestTypeOK, QueueTypeOK, requestVars, queueVars
  <2>5. QED
    BY <2>1, <2>2, <2>3, <2>4 DEF TypeOK
<1>6. ASSUME SoftDelete(p) \/ Rename(p) \/ WriteRaises(p) PROVE TypeOK'
  <2>1. StoreTypeOK'
    BY <1>0, <1>6 DEF SoftDelete, Rename, WriteRaises, SoftDeleted, StoreTypeOK
  <2>2. LoopTypeOK'
    BY <1>0, <1>6, GotoTypes DEF SoftDelete, Rename, WriteRaises
  <2>3. BoundsTypeOK'
    BY <1>0, <1>6, FaultTypes DEF SoftDelete, Rename, WriteRaises, BoundsTypeOK, bounds
  <2>4. RequestTypeOK' /\ QueueTypeOK'
    BY <1>0, <1>6 DEF SoftDelete, Rename, WriteRaises, RequestTypeOK, QueueTypeOK,
         requestVars, queueVars
  <2>5. QED
    BY <2>1, <2>2, <2>3, <2>4 DEF TypeOK
<1>7. ASSUME Nack(p) PROVE TypeOK'
  <2>1. QueueTypeOK'
    <3>1. CASE MayRetry(job[p])
      <4>1. /\ high' \in Seq(Deleter)
            /\ normal' \in Seq(Room \cup Updater)
        BY <1>0, <1>7, <3>1, RequeueTypes DEF Nack
      <4>2. tries' \in [Job -> 0..MaxRetries] /\ dlq' \subseteq Job
        BY <1>0, <1>7, <3>1 DEF Nack, MayRetry, QueueTypeOK
      <4>3. QED
        BY <4>1, <4>2 DEF QueueTypeOK
    <3>2. CASE ~ MayRetry(job[p])
      BY <1>0, <1>7, <3>2 DEF Nack, QueueTypeOK
    <3>3. QED
      BY <3>1, <3>2
  <2>2. LoopTypeOK'
    BY <1>0, <1>7, IdleTypes DEF Nack
  <2>3. StoreTypeOK' /\ RequestTypeOK' /\ BoundsTypeOK'
    BY <1>0, <1>7 DEF Nack, StoreTypeOK, RequestTypeOK, BoundsTypeOK, storeVars,
         requestVars, bounds
  <2>4. QED
    BY <2>1, <2>2, <2>3 DEF TypeOK
<1>8. ASSUME Ack(p) \/ Crash(p) PROVE TypeOK'
  <2>1. LoopTypeOK'
    BY <1>0, <1>8, IdleTypes DEF Ack, Crash
  <2>2. BoundsTypeOK'
    BY <1>0, <1>8, FaultTypes DEF Ack, Crash, BoundsTypeOK, bounds
  <2>3. StoreTypeOK' /\ RequestTypeOK' /\ QueueTypeOK'
    BY <1>0, <1>8 DEF Ack, Crash, StoreTypeOK, RequestTypeOK, QueueTypeOK, storeVars,
         requestVars, queueVars
  <2>4. QED
    BY <2>1, <2>2, <2>3 DEF TypeOK
<1>9. QED
  BY <1>1, <1>2, <1>3, <1>4, <1>5, <1>6, <1>7, <1>8 DEF LoopRuns, LoopFails

LEMMA StepTypes == TypeOK /\ [Next]_vars => TypeOK'
<1> SUFFICES ASSUME TypeOK, [Next]_vars PROVE TypeOK'
  OBVIOUS
<1>1. CASE Next
  BY <1>1, HandlerTypes, DeleterTypes, RenameTypes, LoopTypes DEF Next
<1>2. CASE UNCHANGED vars
  BY <1>2 DEF vars, storeVars, requestVars, queueVars, loopVars, bounds, TypeOK,
       StoreTypeOK, RequestTypeOK, QueueTypeOK, LoopTypeOK, BoundsTypeOK
<1>3. QED
  BY <1>1, <1>2

\* Every variable keeps its type, and a consumer is at a step of the job it holds,
\* whatever fails (the whole of the room code).
THEOREM TypeCorrect == Spec => []TypeOK
<1>1. QED
  BY InitTypes, StepTypes, PTL DEF Spec

-----------------------------------------------------------------------------
(* One consumer creates a room                                             *)

\* Why: a consumer enters the creation by moving the room out of PENDING, and the
\* room does not come back to PENDING while somebody creates it.  It need not stay
\* PROCESSING: a list handler that fails to read its state may make it ACTIVE.
Begun(g) == state[g] \in {"PROCESSING", "ACTIVE", "DELETING", "DELETED"}

CreateInv ==
    /\ \A p \in Process : Creating(p) => Begun(job[p])
    /\ OneCreates

\* No transition of the table leads back.
LEMMA StaysBegun ==
  ASSUME StoreTypeOK, NEW g \in Room, NEW h \in Room, NEW from, NEW to,
         Begun(h), TryMove(g, from, to),
         from = "none" \/ to \in {"PROCESSING", "ACTIVE", "DELETING", "DELETED"}
  PROVE  Begun(h)'
BY DEF StoreTypeOK, Begun, TryMove, CanMove, Matches, RoomState

\* A step that begins no creation and takes no room back keeps the invariant.
LEMMA CreateKept ==
  ASSUME TypeOK, CreateInv,
         \A q \in Process : Creating(q)' => Creating(q) /\ job'[q] = job[q],
         \A g \in Room : Begun(g) => Begun(g)'
  PROVE  CreateInv'
<1>1. \A q \in Process : Creating(q) => job[q] \in Room
  BY DEF Creating
<1>2. \A q \in Process : Creating(q)' => Begun(job[q])'
  BY <1>1 DEF CreateInv, Begun
<1>3. OneCreates'
  BY DEF CreateInv, OneCreates
<1>4. QED
  BY <1>2, <1>3 DEF CreateInv

\* A step of p that ends its creation, if it had one, or does not touch it.
LEMMA OthersCreate ==
  ASSUME TypeOK, NEW p \in Process,
         \A q \in Process \ {p} : hpc'[q] = hpc[q] /\ job'[q] = job[q],
         Creating(p)' => Creating(p) /\ job'[p] = job[p]
  PROVE  \A q \in Process : Creating(q)' => Creating(q) /\ job'[q] = job[q]
BY DEF Creating

LEMMA InitCreate == Init => CreateInv
BY DEF Init, CreateInv, OneCreates, Creating

LEMMA CreateStep == TypeOK /\ CreateInv /\ [Next]_vars => CreateInv'
<1> SUFFICES ASSUME TypeOK, CreateInv, [Next]_vars PROVE CreateInv'
  OBVIOUS
<1> USE RoomAssumption
<1>0. /\ StoreTypeOK /\ LoopTypeOK
      /\ \A d \in Deleter : RoomOf[d] \in Room
  BY RoomOfTypes DEF TypeOK
<1>1. ASSUME hpc' = hpc, job' = job, \A g \in Room : Begun(g) => Begun(g)' PROVE CreateInv'
  BY <1>1, CreateKept DEF Creating
<1>2. ASSUME NEW g \in Room,
             CreateRuns(g) \/ ListRuns(g) \/ ListRedis(g) \/ ListRead(g)
      PROVE  CreateInv'
  <2>1. hpc' = hpc /\ job' = job
    BY <1>2 DEF CreateRuns, ListRuns, ListRedis, ListRead, Create, Cache, Pend, QueueCreate,
         ListCheck, ListCache, loopVars
  <2>2. \A h \in Room : Begun(h) => Begun(h)'
    <3>1. CASE state' = state
      BY <3>1 DEF Begun
    <3>2. CASE Create(g) /\ TryMove(g, "none", "CREATING")
      BY <3>2, <1>0, StaysBegun
    <3>3. CASE Pend(g) /\ TryMove(g, "CREATING", "PENDING")
      BY <3>3, <1>0 DEF StoreTypeOK, Begun, TryMove, CanMove, Matches
    <3>4. CASE Restore(g)
      BY <3>4, <1>0, StaysBegun DEF Restore
    <3>5. QED
      BY <1>2, <3>1, <3>2, <3>3, <3>4 DEF CreateRuns, ListRuns, ListRedis, ListRead, Create,
           Cache, Pend, QueueCreate, ListCheck, ListCache, storeVars
  <2>3. QED
    BY <2>1, <2>2, <1>1
<1>3. ASSUME NEW g \in Room, Expire(g) PROVE CreateInv'
  <2>1. \A q \in Process : hpc'[q] = "idle"
    BY <1>3 DEF Expire, Quiet, loopVars
  <2>2. \A q \in Process : ~ Creating(q)'
    BY <2>1 DEF Creating
  <2>3. QED
    BY <2>2 DEF CreateInv, OneCreates
<1>4. ASSUME NEW d \in Deleter, Mark(d) \/ DeleteRuns(d) PROVE CreateInv'
  <2>1. hpc' = hpc /\ job' = job
    BY <1>4 DEF Mark, DeleteRuns, Uncache, UncacheFails, QueueDelete, loopVars
  <2>2. \A h \in Room : Begun(h) => Begun(h)'
    <3>1. CASE state' = state
      BY <3>1 DEF Begun
    <3>2. CASE TryMove(RoomOf[d], "ACTIVE", "DELETING")
               \/ TryMove(RoomOf[d], "DELETING", "DELETED")
      BY <3>2, <1>0, StaysBegun
    <3>3. QED
      BY <1>4, <3>1, <3>2 DEF Mark, DeleteRuns, Uncache, UncacheFails, QueueDelete, storeVars
  <2>3. QED
    BY <2>1, <2>2, <1>1
<1>5. ASSUME NEW u \in Updater, QueueRename(u) PROVE CreateInv'
  BY <1>5, <1>1 DEF QueueRename, storeVars, loopVars, Begun
<1>6. ASSUME NEW p \in Process, LoopRuns(p) \/ LoopFails(p) PROVE CreateInv'
  <2>0. \A q \in Process \ {p} : hpc'[q] = hpc[q] /\ job'[q] = job[q]
    BY <1>6, <1>0 DEF LoopRuns, LoopFails, LoopTypeOK, Receive, CreateCheck, CreateReread,
         DeleteLook, Lock, LockFails, Insert, InsertRaises, Cleanup, SoftDelete, Rename,
         WriteRaises, Move, Ack, Nack, Crash, Goto, Idle
  <2>1. ASSUME CreateCheck(p), Goto(p, "lock") PROVE CreateInv'
    <3> DEFINE g == job[p]
    <3>1. /\ g \in Room /\ hpc[p] = "check" /\ job' = job
          /\ hpc'[p] = "lock"
      BY <2>1, <1>0 DEF CreateCheck, Goto, LoopTypeOK
    <3>2. TryMove(g, "PENDING", "PROCESSING") /\ CanMove(g, "PENDING", "PROCESSING")
      BY <2>1, <3>1, <1>0 DEF CreateCheck, Goto, LoopTypeOK
    <3>3. state[g] = "PENDING" /\ state' = [state EXCEPT ![g] = "PROCESSING"]
      BY <3>2 DEF TryMove, CanMove, Matches
    <3>4. \A q \in Process : Creating(q) => job[q] # g
      BY <3>3 DEF CreateInv, Begun
    <3>5. \A q \in Process : Creating(q)' => (q = p \/ Creating(q))
      BY <2>0, <3>1 DEF Creating
    <3>6. \A h \in Room : Begun(h) => Begun(h)'
      BY <3>2, <3>1, <1>0, StaysBegun
    <3>7. Begun(g)'
      BY <3>1, <3>3, <1>0 DEF Begun, StoreTypeOK
    <3>8. \A q \in Process : Creating(q)' => job[q] \in Room
      BY <3>1 DEF Creating
    <3>9. \A q \in Process : Creating(q)' => Begun(job[q])'
      <4>1. SUFFICES ASSUME NEW q \in Process, Creating(q)' PROVE Begun(job[q])'
        OBVIOUS
      <4>2. CASE q = p
        BY <4>2, <3>7, <3>1 DEF Begun
      <4>3. CASE q # p
        BY <4>1, <4>3, <3>1, <3>5, <3>6, <3>8 DEF CreateInv, Begun
      <4>4. QED
        BY <4>2, <4>3
    <3>10. OneCreates'
      BY <3>1, <3>4, <3>5 DEF OneCreates, CreateInv
    <3>11. QED
      BY <3>9, <3>10 DEF CreateInv
  <2>2. ASSUME \A h \in Room : Begun(h) => Begun(h)',
               Creating(p)' => Creating(p) /\ job'[p] = job[p]
        PROVE  CreateInv'
    BY <2>0, <2>2, OthersCreate, CreateKept
  <2>3. ASSUME CreateCheck(p), Goto(p, "reread") PROVE CreateInv'
    <3>1. job[p] \in Room
      BY <2>3, <1>0 DEF CreateCheck, LoopTypeOK
    <3>2. \A h \in Room : Begun(h) => Begun(h)'
      <4>1. CASE TryMove(job[p], "PENDING", "PROCESSING")
        BY <4>1, <3>1, <1>0, StaysBegun
      <4>2. CASE state' = state
        BY <4>2 DEF Begun
      <4>3. QED
        BY <2>3, <4>1, <4>2 DEF CreateCheck
    <3>3. ~ Creating(p)'
      BY <2>3, <1>0 DEF Creating, Goto, LoopTypeOK
    <3>4. QED
      BY <3>2, <3>3, <2>2
  <2>4. ASSUME Cleanup(p) \/ Move(p) PROVE CreateInv'
    <3>1. job[p] \in Room \cup Deleter
      BY <2>4, <1>0 DEF Cleanup, Move, LoopTypeOK
    <3>2. \A h \in Room : Begun(h) => Begun(h)'
      <4>1. CASE state' = state
        BY <4>1 DEF Begun
      <4>2. CASE job[p] \in Room /\ (TryMove(job[p], "PROCESSING", "DELETED")
                                     \/ TryMove(job[p], "PROCESSING", "ACTIVE"))
        BY <4>2, <1>0, StaysBegun
      <4>3. CASE job[p] \in Deleter /\ TryMove(RoomOf[job[p]], "DELETING", "DELETED")
        BY <4>3, <1>0, StaysBegun
      <4>4. QED
        BY <2>4, <3>1, <4>1, <4>2, <4>3, <1>0 DEF Cleanup, Move, LoopTypeOK
    <3>3. ~ Creating(p)'
      BY <2>4, <1>0 DEF Cleanup, Move, Creating, Goto, LoopTypeOK
    <3>4. QED
      BY <3>2, <3>3, <2>2
  <2>5. ASSUME Lock(p) \/ Insert(p) \/ InsertRaises(p) PROVE CreateInv'
    <3>1. \A h \in Room : Begun(h) => Begun(h)'
      BY <2>5 DEF Lock, Insert, InsertRaises, storeVars, Begun
    <3>2. Creating(p)' => Creating(p) /\ job'[p] = job[p]
      BY <2>5, <1>0 DEF Lock, Insert, InsertRaises, Creating
    <3>3. QED
      BY <3>1, <3>2, <2>2
  <2>6. ASSUME \/ CreateReread(p) \/ DeleteLook(p) \/ LockFails(p) \/ SoftDelete(p)
               \/ Rename(p) \/ WriteRaises(p) \/ Ack(p) \/ Nack(p) \/ Crash(p)
               \/ Receive(p)
        PROVE  CreateInv'
    <3>1. \A h \in Room : Begun(h) => Begun(h)'
      BY <2>6 DEF CreateReread, DeleteLook, LockFails, SoftDelete, Rename, WriteRaises, Ack,
           Nack, Crash, Receive, storeVars, Begun
    <3>2. ~ Creating(p)'
      <4>1. CASE Receive(p)
        BY <4>1, <1>0 DEF Receive, FirstStep, Creating, LoopTypeOK
      <4>2. CASE DeleteLook(p) \/ SoftDelete(p) \/ Rename(p)
        BY <4>2, <1>0 DEF DeleteLook, SoftDelete, Rename, Creating, Goto, LoopTypeOK
      <4>3. CASE CreateReread(p) \/ LockFails(p) \/ WriteRaises(p)
        BY <4>3, <1>0 DEF CreateReread, LockFails, WriteRaises, Creating, Goto, LoopTypeOK
      <4>4. CASE Ack(p) \/ Nack(p) \/ Crash(p)
        BY <4>4, <1>0 DEF Ack, Nack, Crash, Creating, Idle, LoopTypeOK
      <4>5. QED
        BY <2>6, <4>1, <4>2, <4>3, <4>4
    <3>3. QED
      BY <3>1, <3>2, <2>2
  <2>7. CreateCheck(p) => Goto(p, "lock") \/ Goto(p, "reread")
    BY DEF CreateCheck
  <2>8. QED
    BY <1>6, <2>1, <2>3, <2>4, <2>5, <2>6, <2>7 DEF LoopRuns, LoopFails
<1>7. ASSUME UNCHANGED vars PROVE CreateInv'
  BY <1>7, <1>1 DEF vars, storeVars, loopVars, Begun
<1>8. QED
  BY <1>2, <1>3, <1>4, <1>5, <1>6, <1>7 DEF Next

\* A room is created by one consumer at a time, also from copies of its job and
\* through any failure (_handle_room_create).
THEOREM CreatedByOne == Spec => []OneCreates
<1>1. TypeOK /\ CreateInv /\ [Next]_vars => (TypeOK /\ CreateInv)'
  BY StepTypes, CreateStep
<1>2. CreateInv => OneCreates
  BY DEF CreateInv
<1>3. QED
  BY InitTypes, InitCreate, <1>1, <1>2, PTL DEF Spec

-----------------------------------------------------------------------------
(* The states of a room                                                    *)

\* What a transition does is legal, unless its room had no state.
LEMMA MovesLegally ==
  ASSUME StoreTypeOK, NEW g \in Room, NEW from, NEW to,
         from # "none" \/ to \in {"CREATING", "ACTIVE"},
         TryMove(g, from, to)
  PROVE  LegalMove
<1>1. SUFFICES ASSUME NEW h \in Room, state'[h] # state[h]
               PROVE  \/ state[h] = "none" /\ state'[h] \in {"CREATING", "ACTIVE"}
                      \/ state'[h] \in Successors(state[h])
  BY DEF LegalMove
<1>2. CanMove(g, from, to) /\ h = g /\ state'[h] = to /\ state[h] = from
  BY <1>1 DEF TryMove, StoreTypeOK, CanMove, Matches
<1>3. QED
  BY <1>2 DEF CanMove, Permitted

LEMMA StepLegal == TypeOK /\ [Next]_vars => [LegalMove]_vars
<1> SUFFICES ASSUME TypeOK, [Next]_vars PROVE [LegalMove]_vars
  OBVIOUS
<1>0. /\ StoreTypeOK /\ LoopTypeOK
      /\ \A d \in Deleter : RoomOf[d] \in Room
  BY RoomOfTypes DEF TypeOK
<1>1. CASE state' = state
  BY <1>1 DEF LegalMove
<1>2. ASSUME NEW g \in Room, CreateRuns(g) \/ ListRuns(g) \/ ListRedis(g) \/ ListRead(g)
      PROVE  LegalMove
  <2>1. CASE TryMove(g, "none", "CREATING") \/ TryMove(g, "CREATING", "PENDING")
    BY <2>1, <1>0, MovesLegally
  <2>2. CASE Restore(g)
    BY <2>2, <1>0, MovesLegally DEF Restore
  <2>3. QED
    BY <1>2, <1>1, <2>1, <2>2 DEF LegalMove, CreateRuns, ListRuns, ListRedis, ListRead,
         Create, Cache, Pend, QueueCreate, ListCheck, ListCache, storeVars
<1>3. ASSUME NEW g \in Room, Expire(g) PROVE LegalMove
  BY <1>3, <1>0 DEF Expire, LegalMove, StoreTypeOK
<1>4. ASSUME NEW d \in Deleter, Mark(d) \/ DeleteRuns(d) PROVE LegalMove
  <2>1. CASE TryMove(RoomOf[d], "ACTIVE", "DELETING")
             \/ TryMove(RoomOf[d], "DELETING", "DELETED")
    BY <2>1, <1>0, MovesLegally
  <2>2. QED
    BY <1>4, <2>1 DEF LegalMove, Mark, DeleteRuns, Uncache, UncacheFails, QueueDelete,
         storeVars
<1>5. ASSUME NEW u \in Updater, QueueRename(u) PROVE LegalMove
  BY <1>5 DEF QueueRename, storeVars, LegalMove
<1>6. ASSUME NEW p \in Process, CreateCheck(p) \/ Cleanup(p) \/ Move(p) PROVE LegalMove
  <2>1. job[p] \in Room \cup Deleter
    BY <1>6, <1>0 DEF CreateCheck, Cleanup, Move, LoopTypeOK
  <2>2. CASE job[p] \in Room /\ \/ TryMove(job[p], "PENDING", "PROCESSING")
                                \/ TryMove(job[p], "PROCESSING", "ACTIVE")
                                \/ TryMove(job[p], "PROCESSING", "DELETED")
    BY <2>2, <1>0, MovesLegally
  <2>3. CASE job[p] \in Deleter /\ TryMove(RoomOf[job[p]], "DELETING", "DELETED")
    BY <2>3, <1>0, MovesLegally
  <2>4. CASE state' = state
    BY <2>4 DEF LegalMove
  <2>5. QED
    BY <1>6, <1>0, <2>1, <2>2, <2>3, <2>4 DEF CreateCheck, Cleanup, Move, LoopTypeOK
<1>7. ASSUME NEW p \in Process,
             \/ Receive(p) \/ CreateReread(p) \/ DeleteLook(p) \/ Lock(p) \/ LockFails(p)
             \/ Insert(p) \/ InsertRaises(p) \/ SoftDelete(p) \/ Rename(p) \/ WriteRaises(p)
             \/ Ack(p) \/ Nack(p) \/ Crash(p)
      PROVE  LegalMove
  BY <1>7 DEF Receive, CreateReread, DeleteLook, Lock, LockFails, Insert, InsertRaises,
       SoftDelete, Rename, WriteRaises, Ack, Nack, Crash, storeVars, LegalMove
<1>8. QED
  BY <1>2, <1>3, <1>4, <1>5, <1>6, <1>7 DEF Next, LoopRuns, LoopFails

\* Whoever moves a room and whatever fails, its state follows room_transitions.
THEOREM Lifecycle == Spec => LifecycleRespected
<1>1. TypeOK /\ [Next]_vars => [LegalMove]_vars
  BY StepLegal
<1>2. QED
  BY InitTypes, StepTypes, <1>1, PTL DEF Spec, LifecycleRespected

-----------------------------------------------------------------------------
(* State and row, while nothing fails                                      *)

InNormal(j) == \E i \in DOMAIN normal : normal[i] = j

\* Somebody is going to create the room, or is creating it.
Awaited(g) == InNormal(g) \/ \E p \in Process : job[p] = g /\ hpc[p] = "check"
Worked(g)  == \E p \in Process : job[p] = g /\ hpc[p] \in {"lock", "write", "move"}

\* The create handler goes through the first states alone; then the room waits for
\* its job, is worked on, or has a row for good.
RoomInv(g) ==
    /\ rpc[g] # "failed"
    /\ rpc[g] = "create" => state[g] = "none" /\ g \notin listed
    /\ rpc[g] \in {"cache", "pend"} => state[g] = "CREATING"
    /\ rpc[g] = "queue" => state[g] = "PENDING"
    /\ rpc[g] # "done" => row[g] = "none" /\ page[g] = "no" /\ ~ InNormal(g)
    /\ rpc[g] = "done" =>
        \/ state[g] = "PENDING" /\ Awaited(g)
        \/ state[g] = "PROCESSING" /\ Worked(g)
        \/ state[g] \in {"none", "ACTIVE", "DELETING"} /\ row[g] # "none"
        \/ state[g] = "DELETED" /\ row[g] = "inactive"

\* A consumer writes the state after the row.
ConsumerInv(p) ==
    /\ hpc[p] # "cleanup"
    /\ job[p] \in Room => rpc[job[p]] = "done"
    /\ hpc[p] = "move" /\ job[p] \in Room => row[job[p]] # "none"
    /\ hpc[p] = "move" /\ job[p] \in Deleter => row[RoomOf[job[p]]] = "inactive"

Agree ==
    /\ \A g \in Room : RoomInv(g)
    /\ \A p \in Process : ConsumerInv(p)

RowInv == NothingFailed => Agree

\* Putting a job at the end of the list adds it, and nothing else.
LEMMA AppendIn ==
  ASSUME QueueTypeOK, NEW j \in Room \cup Updater, normal' = Append(normal, j)
  PROVE  \A h \in Room : InNormal(h)' <=> InNormal(h) \/ h = j
<1> DEFINE Late == Room \cup Updater
<1>1. normal \in Seq(Late) /\ j \in Late
  BY DEF QueueTypeOK
<1> HIDE DEF Late
<1>2. /\ DOMAIN Append(normal, j) = DOMAIN normal \cup {Len(normal) + 1}
      /\ \A i \in DOMAIN normal : Append(normal, j)[i] = normal[i]
      /\ Append(normal, j)[Len(normal) + 1] = j
  BY <1>1
<1>3. QED
  BY <1>2 DEF InNormal

\* Taking the head leaves the rest.
LEMMA TailIn ==
  ASSUME QueueTypeOK, normal # <<>>, normal' = Tail(normal)
  PROVE  /\ InNormal(Head(normal))
         /\ \A h \in Room : /\ InNormal(h) => h = Head(normal) \/ InNormal(h)'
                            /\ InNormal(h)' => InNormal(h)
<1> DEFINE Late == Room \cup Updater
<1>1. normal \in Seq(Late)
  BY DEF QueueTypeOK
<1> HIDE DEF Late
<1>2. /\ DOMAIN Tail(normal) = 1..(Len(normal) - 1) /\ DOMAIN normal = 1..Len(normal)
      /\ \A i \in 1..(Len(normal) - 1) : Tail(normal)[i] = normal[i + 1]
      /\ Head(normal) = normal[1] /\ Len(normal) \in Nat \ {0}
  BY <1>1
<1>3. InNormal(Head(normal))
  BY <1>2 DEF InNormal
<1>4. ASSUME NEW h \in Room, InNormal(h), h # Head(normal) PROVE InNormal(h)'
  <2>1. PICK i \in DOMAIN normal : normal[i] = h
    BY <1>4 DEF InNormal
  <2>2. i - 1 \in DOMAIN Tail(normal) /\ Tail(normal)[i - 1] = h
    BY <1>2, <1>4, <2>1
  <2>3. QED
    BY <2>2 DEF InNormal
<1>5. ASSUME NEW h \in Room, InNormal(h)' PROVE InNormal(h)
  <2>1. PICK i \in DOMAIN Tail(normal) : Tail(normal)[i] = h
    BY <1>5 DEF InNormal
  <2>2. i + 1 \in DOMAIN normal /\ normal[i + 1] = h
    BY <1>2, <2>1
  <2>3. QED
    BY <2>2 DEF InNormal
<1>6. QED
  BY <1>3, <1>4, <1>5

\* What a transition does to the states.
LEMMA MoveEffect ==
  ASSUME StoreTypeOK, NEW g \in Room, NEW from, NEW to, TryMove(g, from, to)
  PROVE  /\ \A h \in Room \ {g} : state'[h] = state[h]
         /\ state'[g] = IF CanMove(g, from, to) THEN to ELSE state[g]
BY DEF StoreTypeOK, TryMove

LEMMA MayMove ==
  ASSUME NEW g \in Room
  PROVE  /\ CanMove(g, "CREATING", "PENDING") <=> state[g] = "CREATING"
         /\ CanMove(g, "PENDING", "PROCESSING") <=> state[g] = "PENDING"
         /\ CanMove(g, "PROCESSING", "ACTIVE") <=> state[g] = "PROCESSING"
         /\ CanMove(g, "ACTIVE", "DELETING") <=> state[g] = "ACTIVE"
         /\ CanMove(g, "DELETING", "DELETED") <=> state[g] = "DELETING"
         /\ \A s \in RoomState : CanMove(g, "none", s) <=> state[g] = "none"
BY DEF CanMove, Permitted, Matches, Successors

\* A step that changes nothing of a room, or only helps its job on, keeps what is
\* said of it.
LEMMA SameRoom ==
  ASSUME NEW g \in Room, RoomInv(g), state'[g] = state[g], row'[g] = row[g],
         rpc'[g] = rpc[g], page'[g] = page[g] \/ rpc[g] = "done",
         g \in listed' => g \in listed \/ rpc[g] = "done",
         InNormal(g)' => InNormal(g) \/ rpc[g] = "done",
         Awaited(g) => Awaited(g)', Worked(g) => Worked(g)'
  PROVE  RoomInv(g)'
BY DEF RoomInv

\* Requests that are through stay so, and rows only go on.
Onward ==
    \A g \in Room : /\ rpc[g] = "done" => rpc'[g] = "done"
                    /\ row[g] # "none" => row'[g] # "none"
                    /\ row[g] = "inactive" => row'[g] = "inactive"

LEMMA SameConsumer ==
  ASSUME NEW p \in Process, ConsumerInv(p), Onward, hpc'[p] = hpc[p], job'[p] = job[p]
  PROVE  ConsumerInv(p)'
BY RoomOfTypes DEF ConsumerInv, Onward

\* A handler's step leaves the consumers alone, and jobs where they are.
LEMMA HandlersApart ==
  ASSUME UNCHANGED <<hpc, job>>, NEW g, InNormal(g) => InNormal(g)'
  PROVE  (Awaited(g) => Awaited(g)') /\ (Worked(g) => Worked(g)')
BY DEF Awaited, Worked

-----------------------------------------------------------------------------
(* Handlers                                                                *)

LEMMA CreateAgrees ==
  ASSUME TypeOK, Agree, ~ Fault, NEW g \in Room, CreateRuns(g)
  PROVE  Agree'
<1>0. StoreTypeOK /\ RequestTypeOK /\ QueueTypeOK /\ RoomInv(g)
  BY DEF TypeOK, Agree
<1>1. /\ UNCHANGED <<row, page, hpc, job>>
      /\ \A h \in Room \ {g} : /\ state'[h] = state[h] /\ rpc'[h] = rpc[h]
                               /\ h \in listed' => h \in listed
                               /\ InNormal(h)' <=> InNormal(h)
      /\ InNormal(g) => InNormal(g)'
      /\ RoomInv(g)'
      /\ rpc[g] # "done"
  <2>1. CASE Create(g)
    <3>1. /\ rpc[g] = "create" /\ rpc' = [rpc EXCEPT ![g] = "cache"]
          /\ TryMove(g, "none", "CREATING")
          /\ UNCHANGED <<row, listed, page, normal, hpc, job>>
      BY <2>1 DEF Create, queueVars, loopVars
    <3>2. state[g] = "none" /\ state'[g] = "CREATING"
      BY <1>0, <3>1, MoveEffect, MayMove DEF RoomInv, RoomState
    <3>3. \A h \in Room : InNormal(h)' <=> InNormal(h)
      BY <3>1 DEF InNormal
    <3>4. \A h \in Room \ {g} : state'[h] = state[h] /\ rpc'[h] = rpc[h]
      BY <1>0, <3>1, MoveEffect DEF RequestTypeOK
    <3>5. rpc'[g] = "cache"
      BY <1>0, <3>1 DEF RequestTypeOK
    <3>6. RoomInv(g)'
      BY <1>0, <3>1, <3>2, <3>3, <3>5 DEF RoomInv
    <3>7. QED
      BY <3>1, <3>3, <3>4, <3>6
  <2>2. CASE Cache(g)
    <3>1. /\ rpc[g] = "cache" /\ rpc' = [rpc EXCEPT ![g] = "pend"]
          /\ listed' = listed \cup {g}
          /\ UNCHANGED <<state, row, page, normal, hpc, job>>
      BY <2>2 DEF Cache, queueVars, loopVars
    <3>2. \A h \in Room : InNormal(h)' <=> InNormal(h)
      BY <3>1 DEF InNormal
    <3>3. rpc'[g] = "pend" /\ \A h \in Room \ {g} : rpc'[h] = rpc[h]
      BY <1>0, <3>1 DEF RequestTypeOK
    <3>4. RoomInv(g)'
      BY <1>0, <3>1, <3>2, <3>3 DEF RoomInv
    <3>5. QED
      BY <3>1, <3>2, <3>3, <3>4
  <2>3. CASE Pend(g)
    <3>1. /\ rpc[g] = "pend" /\ rpc' = [rpc EXCEPT ![g] = "queue"]
          /\ TryMove(g, "CREATING", "PENDING")
          /\ UNCHANGED <<row, listed, page, normal, hpc, job>>
      BY <2>3 DEF Pend, queueVars, loopVars
    <3>2. state[g] = "CREATING" /\ state'[g] = "PENDING"
      BY <1>0, <3>1, MoveEffect, MayMove DEF RoomInv
    <3>3. \A h \in Room : InNormal(h)' <=> InNormal(h)
      BY <3>1 DEF InNormal
    <3>4. \A h \in Room \ {g} : state'[h] = state[h] /\ rpc'[h] = rpc[h]
      BY <1>0, <3>1, MoveEffect DEF RequestTypeOK
    <3>5. rpc'[g] = "queue"
      BY <1>0, <3>1 DEF RequestTypeOK
    <3>6. RoomInv(g)'
      BY <1>0, <3>1, <3>2, <3>3, <3>5 DEF RoomInv
    <3>7. QED
      BY <3>1, <3>3, <3>4, <3>6
  <2>4. CASE QueueCreate(g)
    <3>1. /\ rpc[g] = "queue" /\ rpc' = [rpc EXCEPT ![g] = "done"]
          /\ normal' = Append(normal, g)
          /\ UNCHANGED <<state, row, listed, page, hpc, job>>
      BY <2>4 DEF QueueCreate, storeVars, loopVars
    <3>2. \A h \in Room : InNormal(h)' <=> InNormal(h) \/ h = g
      BY <1>0, <3>1, AppendIn
    <3>3. rpc'[g] = "done" /\ \A h \in Room \ {g} : rpc'[h] = rpc[h]
      BY <1>0, <3>1 DEF RequestTypeOK
    <3>4. state'[g] = "PENDING" /\ Awaited(g)'
      BY <1>0, <3>1, <3>2 DEF RoomInv, Awaited
    <3>5. RoomInv(g)'
      BY <3>3, <3>4 DEF RoomInv
    <3>6. QED
      BY <3>1, <3>2, <3>3, <3>5
  <2>5. QED
    BY <2>1, <2>2, <2>3, <2>4 DEF CreateRuns
<1>2. ASSUME NEW h \in Room PROVE RoomInv(h)'
  <2>1. CASE h = g
    BY <1>1, <2>1
  <2>2. CASE h # g
    <3>1. (Awaited(h) => Awaited(h)') /\ (Worked(h) => Worked(h)')
      BY <1>1, <2>2, HandlersApart
    <3>2. QED
      BY <1>1, <2>2, <3>1, SameRoom DEF Agree
  <2>3. QED
    BY <2>1, <2>2
<1>3. Onward
  BY <1>1 DEF Onward
<1>4. \A p \in Process : ConsumerInv(p)'
  BY <1>1, <1>3, SameConsumer DEF Agree
<1>5. QED
  BY <1>2, <1>4 DEF Agree

\* A list handler makes a room ACTIVE only when it has no state, and then it has
\* a row.
LEMMA RestoreAgrees ==
  ASSUME TypeOK, Agree, ~ Fault, NEW g \in Room, FoundNoState(g), Restore(g),
         rpc[g] = "done"
  PROVE  /\ \A h \in Room \ {g} : state'[h] = state[h]
         /\ state'[g] = "ACTIVE" /\ row[g] # "none"
<1>1. state[g] = "none" /\ TryMove(g, "none", "ACTIVE") /\ StoreTypeOK
  BY DEF FoundNoState, Restore, TypeOK
<1>2. QED
  BY <1>1, MoveEffect, MayMove DEF Agree, RoomInv, RoomState

LEMMA ListAgrees ==
  ASSUME TypeOK, Agree, ~ Fault, NEW g \in Room,
         ListRuns(g) \/ ListRedis(g) \/ ListRead(g)
  PROVE  Agree'
<1>0. StoreTypeOK /\ RoomInv(g) /\ rpc[g] \in {"create", "cache", "pend", "queue", "done", "failed"}
  BY DEF TypeOK, RequestTypeOK, Agree
<1>1. /\ UNCHANGED <<row, rpc, normal, hpc, job>>
      /\ \A h \in Room \ {g} : page'[h] = page[h] /\ (h \in listed' => h \in listed)
  BY <1>0 DEF ListRuns, ListRedis, ListRead, ListCheck, ListCache, requestVars, queueVars,
     loopVars, StoreTypeOK
<1>2. \A h \in Room : InNormal(h)' <=> InNormal(h)
  BY <1>1 DEF InNormal
<1>3. \A h \in Room : (Awaited(h) => Awaited(h)') /\ (Worked(h) => Worked(h)')
  BY <1>1, <1>2, HandlersApart
<1>4. CASE UNCHANGED state /\ rpc[g] = "done"
  <2>1. \A h \in Room : RoomInv(h)'
    BY <1>1, <1>2, <1>3, <1>4, SameRoom DEF Agree
  <2>2. Onward
    BY <1>1 DEF Onward
  <2>3. QED
    BY <1>1, <2>1, <2>2, SameConsumer DEF Agree
<1>5. CASE FoundNoState(g) /\ Restore(g) /\ rpc[g] = "done"
  <2>1. /\ \A h \in Room \ {g} : state'[h] = state[h]
        /\ state'[g] = "ACTIVE" /\ row[g] # "none"
    BY <1>5, RestoreAgrees
  <2>2. RoomInv(g)'
    BY <1>1, <1>5, <2>1 DEF RoomInv
  <2>3. \A h \in Room \ {g} : RoomInv(h)'
    BY <1>1, <1>2, <1>3, <2>1, SameRoom DEF Agree
  <2>4. Onward
    BY <1>1 DEF Onward
  <2>5. QED
    BY <1>1, <2>2, <2>3, <2>4, SameConsumer DEF Agree
<1>6. rpc[g] = "done" \/ ~ (ListRuns(g) \/ ListRead(g))
  BY <1>0 DEF RoomInv, ListRuns, ListRead, ListCheck, ListCache
<1>7. CASE ListRedis(g) /\ rpc[g] # "done"
  <2>1. state[g] = "none" /\ g \in listed
    BY <1>7 DEF ListRedis, FoundNoState
  <2>2. QED
    BY <1>0, <1>7, <2>1 DEF RoomInv
<1>8. QED
  BY <1>4, <1>5, <1>6, <1>7 DEF ListRuns, ListRedis, ListRead, ListCheck, ListCache

LEMMA ExpireAgrees ==
  ASSUME TypeOK, Agree, NEW g \in Room, Expire(g)
  PROVE  Agree'
<1>1. /\ Quiet(g) /\ state' = [state EXCEPT ![g] = "none"]
      /\ UNCHANGED <<row, listed, page, rpc, normal, hpc, job>>
  BY DEF Expire, requestVars, queueVars, loopVars
<1>2. RoomInv(g) /\ StoreTypeOK
  BY DEF Agree, TypeOK
<1>3. ~ Awaited(g) /\ ~ Worked(g) /\ rpc[g] = "done"
  <2>1. normal = <<>> /\ \A p \in Process : hpc[p] = "idle"
    BY <1>1 DEF Quiet
  <2>2. DOMAIN normal = {}
    BY <2>1
  <2>3. QED
    BY <1>1, <1>2, <2>1, <2>2 DEF Awaited, Worked, InNormal, Quiet, RoomInv
<1>4. state'[g] = "none" /\ \A h \in Room \ {g} : state'[h] = state[h]
  BY <1>1, <1>2 DEF StoreTypeOK
<1>5. \A h \in Room : InNormal(h)' <=> InNormal(h)
  BY <1>1 DEF InNormal
<1>6. \A h \in Room : (Awaited(h) => Awaited(h)') /\ (Worked(h) => Worked(h)')
  BY <1>1, <1>5, HandlersApart
<1>7. RoomInv(g)'
  BY <1>1, <1>2, <1>3, <1>4 DEF RoomInv
<1>8. \A h \in Room \ {g} : RoomInv(h)'
  BY <1>1, <1>4, <1>5, <1>6, SameRoom DEF Agree
<1>9. Onward
  BY <1>1 DEF Onward
<1>10. QED
  BY <1>1, <1>7, <1>8, <1>9, SameConsumer DEF Agree

LEMMA DeleterAgrees ==
  ASSUME TypeOK, Agree, ~ Fault, NEW d \in Deleter, Mark(d) \/ DeleteRuns(d)
  PROVE  Agree'
<1> DEFINE g == RoomOf[d]
<1>0. StoreTypeOK /\ g \in Room /\ RoomInv(g)
  BY RoomOfTypes DEF TypeOK, Agree
<1>1. /\ UNCHANGED <<row, page, rpc, normal, hpc, job>>
      /\ listed' \subseteq listed
      /\ UNCHANGED state \/ TryMove(g, "ACTIVE", "DELETING")
  BY DEF Mark, DeleteRuns, Uncache, UncacheFails, QueueDelete, queueVars, loopVars, storeVars
<1>2. \A h \in Room : InNormal(h)' <=> InNormal(h)
  BY <1>1 DEF InNormal
<1>3. \A h \in Room : (Awaited(h) => Awaited(h)') /\ (Worked(h) => Worked(h)')
  BY <1>1, <1>2, HandlersApart
<1>4. /\ \A h \in Room \ {g} : state'[h] = state[h]
      /\ state'[g] = state[g] \/ (state[g] = "ACTIVE" /\ state'[g] = "DELETING")
  BY <1>0, <1>1, MoveEffect, MayMove
<1> HIDE DEF g
<1>5. RoomInv(g)'
  <2>1. CASE state'[g] = state[g]
    BY <1>0, <1>1, <1>2, <1>3, <2>1, SameRoom
  <2>2. CASE state[g] = "ACTIVE" /\ state'[g] = "DELETING"
    BY <1>0, <1>1, <1>2, <2>2 DEF RoomInv, TypeOK, RequestTypeOK
  <2>3. QED
    BY <1>4, <2>1, <2>2
<1>6. \A h \in Room \ {g} : RoomInv(h)'
  BY <1>1, <1>2, <1>3, <1>4, SameRoom DEF Agree
<1>7. Onward
  BY <1>1 DEF Onward
<1>8. QED
  BY <1>0, <1>1, <1>5, <1>6, <1>7, SameConsumer DEF Agree

LEMMA UpdaterAgrees ==
  ASSUME TypeOK, Agree, NEW u \in Updater, QueueRename(u)
  PROVE  Agree'
<1>1. /\ UNCHANGED <<state, row, listed, page, rpc, hpc, job>>
      /\ normal' = Append(normal, u) \/ UNCHANGED normal
  BY DEF QueueRename, storeVars, loopVars
<1>2. \A h \in Room : InNormal(h)' <=> InNormal(h)
  <2>1. CASE UNCHANGED normal
    BY <2>1 DEF InNormal
  <2>2. CASE normal' = Append(normal, u)
    BY <2>2, AppendIn, RoomAssumption DEF TypeOK
  <2>3. QED
    BY <1>1, <2>1, <2>2
<1>3. \A h \in Room : (Awaited(h) => Awaited(h)') /\ (Worked(h) => Worked(h)')
  BY <1>1, <1>2, HandlersApart
<1>4. \A h \in Room : RoomInv(h)'
  BY <1>1, <1>2, <1>3, SameRoom DEF Agree
<1>5. Onward
  BY <1>1 DEF Onward
<1>6. QED
  BY <1>1, <1>4, <1>5, SameConsumer DEF Agree

-----------------------------------------------------------------------------
(* Consumers                                                               *)

\* While p makes a step, the job of a room is waiting or worked on as before, unless
\* it was p that had it.
LEMMA Witnesses ==
  ASSUME NEW p \in Process, NEW h,
         \A q \in Process \ {p} : hpc'[q] = hpc[q] /\ job'[q] = job[q],
         InNormal(h) => InNormal(h)' \/ (job'[p] = h /\ hpc'[p] = "check")
  PROVE  /\ job[p] # h \/ hpc[p] # "check" => (Awaited(h) => Awaited(h)')
         /\ job[p] # h \/ hpc[p] \notin {"lock", "write", "move"} => (Worked(h) => Worked(h)')
BY DEF Awaited, Worked

\* A consumer's step keeps the invariant when it keeps it for the rooms it touches and
\* for the consumer.
LEMMA LoopAgrees ==
  ASSUME Agree, NEW p \in Process, UNCHANGED <<rpc, page, listed>>,
         \A q \in Process \ {p} : hpc'[q] = hpc[q] /\ job'[q] = job[q],
         \A h \in Room : InNormal(h)' => InNormal(h) \/ rpc[h] = "done",
         \A h \in Room : \/ RoomInv(h)'
                         \/ /\ state'[h] = state[h] /\ row'[h] = row[h]
                            /\ Awaited(h) => Awaited(h)'
                            /\ Worked(h) => Worked(h)',
         \A h \in Room : /\ row[h] # "none" => row'[h] # "none"
                         /\ row[h] = "inactive" => row'[h] = "inactive",
         ConsumerInv(p)'
  PROVE  Agree'
<1>1. \A h \in Room : RoomInv(h)'
  BY SameRoom DEF Agree
<1>2. Onward
  BY DEF Onward
<1>3. \A q \in Process : ConsumerInv(q)'
  BY <1>2, SameConsumer DEF Agree
<1>4. QED
  BY <1>1, <1>3 DEF Agree

LEMMA ReceiveAgrees ==
  ASSUME TypeOK, Agree, NEW p \in Process, Receive(p)
  PROVE  Agree'
<1>0. LoopTypeOK /\ QueueTypeOK
  BY DEF TypeOK
<1>1. /\ UNCHANGED <<state, row, listed, page, rpc>> /\ hpc[p] = "idle"
      /\ \A q \in Process \ {p} : hpc'[q] = hpc[q] /\ job'[q] = job[q]
  BY <1>0 DEF Receive, storeVars, requestVars, LoopTypeOK
<1>2. CASE high # <<>>
  <2>1. job'[p] = Head(high) /\ hpc'[p] = FirstStep(Head(high)) /\ UNCHANGED normal
    BY <1>0, <1>2 DEF Receive, FromHigh, LoopTypeOK
  <2>2. Head(high) \in Deleter
    BY <1>0, <1>2 DEF QueueTypeOK
  <2>3. hpc'[p] = "look" /\ job'[p] \notin Room
    BY <2>1, <2>2, RoomAssumption DEF FirstStep
  <2>4. \A h \in Room : InNormal(h)' <=> InNormal(h)
    BY <2>1 DEF InNormal
  <2>5. ConsumerInv(p)'
    BY <2>3 DEF ConsumerInv
  <2>6. \A h \in Room : (Awaited(h) => Awaited(h)') /\ (Worked(h) => Worked(h)')
    BY <1>1, <2>4, Witnesses
  <2>7. QED
    BY <1>1, <2>4, <2>5, <2>6, LoopAgrees
<1>3. CASE high = <<>>
  <2>1. /\ normal # <<>> /\ job'[p] = Head(normal) /\ hpc'[p] = FirstStep(Head(normal))
        /\ normal' = Tail(normal) \/ UNCHANGED normal
    BY <1>0, <1>3 DEF Receive, FromHigh, LoopTypeOK
  <2>2. /\ InNormal(Head(normal))
        /\ \A h \in Room : /\ InNormal(h) => h = Head(normal) \/ InNormal(h)'
                           /\ InNormal(h)' => InNormal(h)
    <3>1. CASE normal' = Tail(normal)
      BY <1>0, <2>1, <3>1, TailIn
    <3>2. CASE UNCHANGED normal
      <4>1. 1 \in DOMAIN normal /\ Head(normal) = normal[1]
        BY <1>0, <2>1 DEF QueueTypeOK
      <4>2. QED
        BY <3>2, <4>1 DEF InNormal
    <3>3. QED
      BY <2>1, <3>1, <3>2
  <2>3. Head(normal) \in Room => hpc'[p] = "check"
    BY <2>1, RoomAssumption DEF FirstStep
  <2>4. hpc'[p] \in {"check", "look", "lock"}
    BY <2>1 DEF FirstStep
  <2>5. \A h \in Room : (Awaited(h) => Awaited(h)') /\ (Worked(h) => Worked(h)')
    BY <1>1, <2>1, <2>2, <2>3, Witnesses
  <2>6. job'[p] \in Room => rpc[job'[p]] = "done"
    BY <2>1, <2>2 DEF Agree, RoomInv
  <2>7. ConsumerInv(p)'
    BY <1>1, <2>4, <2>6 DEF ConsumerInv
  <2>8. QED
    BY <1>1, <2>2, <2>5, <2>7, LoopAgrees
<1>4. QED
  BY <1>2, <1>3

LEMMA CheckAgrees ==
  ASSUME TypeOK, Agree, ~ Fault, NEW p \in Process, CreateCheck(p)
  PROVE  Agree'
<1>0. LoopTypeOK /\ StoreTypeOK /\ ConsumerInv(p)
  BY DEF TypeOK, Agree
<1>1. PICK g \in Room : g = job[p]
  BY <1>0 DEF CreateCheck, LoopTypeOK
<1>2. /\ hpc[p] = "check" /\ TryMove(g, "PENDING", "PROCESSING")
      /\ Goto(p, IF CanMove(g, "PENDING", "PROCESSING") THEN "lock" ELSE "reread")
      /\ UNCHANGED <<row, listed, page, rpc, normal, job>>
  BY <1>1 DEF CreateCheck, requestVars, queueVars
<1>3. /\ \A q \in Process \ {p} : hpc'[q] = hpc[q] /\ job'[q] = job[q]
      /\ hpc'[p] = IF CanMove(g, "PENDING", "PROCESSING") THEN "lock" ELSE "reread"
      /\ job'[p] = g
  BY <1>0, <1>1, <1>2 DEF Goto, LoopTypeOK
<1>4. \A h \in Room : InNormal(h)' <=> InNormal(h)
  BY <1>2 DEF InNormal
<1>5. rpc[g] = "done"
  BY <1>0, <1>1 DEF ConsumerInv
<1>6. ConsumerInv(p)'
  BY <1>2, <1>3, <1>5 DEF ConsumerInv
<1>7. \A h \in Room \ {g} : /\ state'[h] = state[h]
                            /\ Awaited(h) => Awaited(h)'
                            /\ Worked(h) => Worked(h)'
  BY <1>0, <1>1, <1>2, <1>3, <1>4, MoveEffect, Witnesses
<1>8. RoomInv(g)'
  <2>1. CASE state[g] = "PENDING"
    <3>1. state'[g] = "PROCESSING" /\ hpc'[p] = "lock"
      BY <1>0, <1>2, <1>3, <2>1, MoveEffect, MayMove
    <3>2. Worked(g)'
      BY <1>3, <3>1 DEF Worked
    <3>3. QED
      BY <1>2, <1>5, <3>1, <3>2 DEF RoomInv
  <2>2. CASE state[g] # "PENDING"
    <3>1. state'[g] = state[g]
      BY <1>0, <1>2, <2>2, MoveEffect, MayMove
    <3>2. Worked(g) => Worked(g)'
      BY <1>2, <1>3, <1>4, Witnesses
    <3>3. QED
      BY <1>2, <1>5, <2>2, <3>1, <3>2 DEF Agree, RoomInv
  <2>3. QED
    BY <2>1, <2>2
<1>9. QED
  BY <1>2, <1>3, <1>4, <1>6, <1>7, <1>8, LoopAgrees

\* The steps that write neither a state nor a row.
LEMMA PassAgrees ==
  ASSUME TypeOK, Agree, ~ Fault, NEW p \in Process,
         CreateReread(p) \/ DeleteLook(p) \/ Lock(p) \/ Rename(p)
  PROVE  Agree'
<1>0. LoopTypeOK /\ ConsumerInv(p)
  BY DEF TypeOK, Agree
<1>1. /\ UNCHANGED <<state, row, listed, page, rpc, normal, job>>
      /\ \A q \in Process \ {p} : hpc'[q] = hpc[q] /\ job'[q] = job[q]
  BY <1>0 DEF CreateReread, DeleteLook, Lock, Rename, Goto, storeVars, requestVars,
     queueVars, LoopTypeOK
<1>2. \/ hpc[p] = "reread" /\ hpc'[p] \in {"ack", "nack"}
      \/ hpc[p] = "look" /\ hpc'[p] \in {"ack", "lock"}
      \/ hpc[p] = "lock" /\ hpc'[p] = "write"
      \/ hpc[p] = "write" /\ hpc'[p] \in {"ack", "nack"} /\ job[p] \in Updater
  BY <1>0 DEF CreateReread, DeleteLook, Lock, Rename, Goto, LoopTypeOK
<1>3. \A h \in Room : InNormal(h)' <=> InNormal(h)
  BY <1>1 DEF InNormal
<1>4. ConsumerInv(p)'
  BY <1>0, <1>1, <1>2 DEF ConsumerInv
<1>5. ASSUME NEW h \in Room PROVE (Awaited(h) => Awaited(h)') /\ (Worked(h) => Worked(h)')
  <2>1. CASE hpc[p] = "lock" /\ hpc'[p] = "write" /\ job[p] = h
    <3>1. Worked(h)'
      BY <1>1, <2>1 DEF Worked
    <3>2. QED
      BY <1>1, <1>3, <2>1, <3>1, Witnesses
  <2>2. CASE job[p] # h \/ hpc[p] \in {"reread", "look"}
    BY <1>1, <1>3, <2>2, Witnesses
  <2>3. QED
    BY <1>2, <2>1, <2>2, RoomAssumption
<1>6. QED
  BY <1>1, <1>3, <1>4, <1>5, LoopAgrees

LEMMA InsertAgrees ==
  ASSUME TypeOK, Agree, NEW p \in Process, Insert(p)
  PROVE  Agree'
<1>0. LoopTypeOK /\ StoreTypeOK /\ ConsumerInv(p)
  BY DEF TypeOK, Agree
<1>1. PICK g \in Room : g = job[p]
  BY DEF Insert
<1>2. /\ hpc[p] = "write" /\ row' = Inserted(g) /\ Goto(p, "move")
      /\ UNCHANGED <<state, listed, page, rpc, normal, job>>
  BY <1>1 DEF Insert, requestVars, queueVars
<1>3. /\ \A q \in Process \ {p} : hpc'[q] = hpc[q] /\ job'[q] = job[q]
      /\ hpc'[p] = "move" /\ job'[p] = g
  BY <1>0, <1>1, <1>2 DEF Goto, LoopTypeOK
<1>4. /\ \A h \in Room \ {g} : row'[h] = row[h]
      /\ row'[g] # "none" /\ (row[g] # "none" => row'[g] = row[g])
  BY <1>0, <1>2 DEF Inserted, StoreTypeOK
<1>5. \A h \in Room : InNormal(h)' <=> InNormal(h)
  BY <1>2 DEF InNormal
<1>6. rpc[g] = "done" /\ RoomInv(g)
  BY <1>0, <1>1 DEF ConsumerInv, Agree
<1>7. ConsumerInv(p)'
  BY <1>2, <1>3, <1>4, <1>6, RoomAssumption DEF ConsumerInv
<1>8. \A h \in Room : Awaited(h) => Awaited(h)'
  BY <1>1, <1>2, <1>3, <1>5, Witnesses
<1>9. \A h \in Room \ {g} : Worked(h) => Worked(h)'
  BY <1>1, <1>2, <1>3, <1>5, Witnesses
<1>10. Worked(g)'
  BY <1>3 DEF Worked
<1>11. RoomInv(g)'
  BY <1>2, <1>4, <1>6, <1>8, <1>10 DEF RoomInv
<1>12. QED
  BY <1>2, <1>3, <1>4, <1>5, <1>7, <1>8, <1>9, <1>11, LoopAgrees

LEMMA SoftDeleteAgrees ==
  ASSUME TypeOK, Agree, NEW p \in Process, SoftDelete(p)
  PROVE  Agree'
<1>0. LoopTypeOK /\ StoreTypeOK /\ ConsumerInv(p)
  BY DEF TypeOK, Agree
<1>1. PICK g \in Room : g = RoomOf[job[p]]
  BY RoomOfTypes DEF SoftDelete
<1>2. /\ hpc[p] = "write" /\ job[p] \in Deleter /\ job[p] \notin Room
      /\ \/ row[g] = "active" /\ row' = SoftDeleted(g) /\ Goto(p, "move")
         \/ UNCHANGED row /\ Goto(p, "nack")
      /\ UNCHANGED <<state, listed, page, rpc, normal, job>>
  BY <1>1, RoomAssumption DEF SoftDelete, requestVars, queueVars
<1>3. /\ \A q \in Process \ {p} : hpc'[q] = hpc[q] /\ job'[q] = job[q]
      /\ job'[p] = job[p]
      /\ \/ row[g] = "active" /\ row'[g] = "inactive" /\ hpc'[p] = "move"
         \/ row'[g] = row[g] /\ hpc'[p] = "nack"
      /\ \A h \in Room \ {g} : row'[h] = row[h]
  BY <1>0, <1>2 DEF Goto, SoftDeleted, LoopTypeOK, StoreTypeOK
<1>4. \A h \in Room : InNormal(h)' <=> InNormal(h)
  BY <1>2 DEF InNormal
<1>5. \A h \in Room : (Awaited(h) => Awaited(h)') /\ (Worked(h) => Worked(h)')
  BY <1>2, <1>3, <1>4, Witnesses
<1>6. ConsumerInv(p)'
  BY <1>1, <1>2, <1>3 DEF ConsumerInv
<1>7. RoomInv(g)'
  BY <1>2, <1>3, <1>4, <1>5 DEF Agree, RoomInv
<1>8. \A h \in Room : /\ row[h] # "none" => row'[h] # "none"
                      /\ row[h] = "inactive" => row'[h] = "inactive"
  BY <1>3
<1>9. QED
  BY <1>2, <1>3, <1>4, <1>5, <1>6, <1>7, <1>8, LoopAgrees

LEMMA MoveAgrees ==
  ASSUME TypeOK, Agree, ~ Fault, NEW p \in Process, Move(p)
  PROVE  Agree'
<1>0. LoopTypeOK /\ StoreTypeOK /\ ConsumerInv(p) /\ job[p] \in Room \cup Deleter
  BY DEF TypeOK, Agree, LoopTypeOK, Move
<1>1. PICK g \in Room : g = IF job[p] \in Room THEN job[p] ELSE RoomOf[job[p]]
  BY <1>0, RoomOfTypes
<1>2. /\ hpc[p] = "move" /\ Goto(p, "ack")
      /\ IF job[p] \in Room THEN TryMove(g, "PROCESSING", "ACTIVE")
                            ELSE TryMove(g, "DELETING", "DELETED")
      /\ UNCHANGED <<row, listed, page, rpc, normal, job>>
  BY <1>1 DEF Move, requestVars, queueVars
<1>3. /\ \A q \in Process \ {p} : hpc'[q] = hpc[q] /\ job'[q] = job[q]
      /\ job'[p] = job[p] /\ hpc'[p] = "ack"
  BY <1>0, <1>2 DEF Goto, LoopTypeOK
<1>4. \A h \in Room : InNormal(h)' <=> InNormal(h)
  BY <1>2 DEF InNormal
<1>5. \A h \in Room : Awaited(h) => Awaited(h)'
  BY <1>2, <1>3, <1>4, Witnesses
<1>6. \A h \in Room \ {g} : state'[h] = state[h] /\ (Worked(h) => Worked(h)')
  BY <1>0, <1>1, <1>2, <1>3, <1>4, MoveEffect, Witnesses
<1>7. ConsumerInv(p)'
  BY <1>0, <1>2, <1>3 DEF ConsumerInv
<1>8. RoomInv(g)'
  <2>1. CASE job[p] \in Room
    <3>1. g = job[p] /\ rpc[g] = "done" /\ row[g] # "none"
      BY <1>0, <1>1, <1>2, <2>1 DEF ConsumerInv
    <3>2. state'[g] = IF state[g] = "PROCESSING" THEN "ACTIVE" ELSE state[g]
      BY <1>0, <1>2, <2>1, MoveEffect, MayMove
    <3>3. QED
      BY <1>2, <1>4, <1>5, <3>1, <3>2 DEF Agree, RoomInv
  <2>2. CASE job[p] \notin Room
    <3>1. row[g] = "inactive"
      BY <1>0, <1>1, <1>2, <2>2 DEF ConsumerInv
    <3>2. state'[g] = IF state[g] = "DELETING" THEN "DELETED" ELSE state[g]
      BY <1>0, <1>2, <2>2, MoveEffect, MayMove
    <3>3. Worked(g) => Worked(g)'
      BY <1>2, <1>3, <1>4, <2>2, Witnesses
    <3>4. QED
      BY <1>2, <1>4, <1>5, <3>1, <3>2, <3>3 DEF Agree, RoomInv
  <2>3. QED
    BY <2>1, <2>2
<1>9. QED
  BY <1>2, <1>3, <1>4, <1>5, <1>6, <1>7, <1>8, LoopAgrees

LEMMA EndAgrees ==
  ASSUME TypeOK, Agree, NEW p \in Process, Ack(p) \/ Nack(p)
  PROVE  Agree'
<1>0. LoopTypeOK /\ QueueTypeOK /\ ConsumerInv(p)
  BY DEF TypeOK, Agree
<1>1. /\ UNCHANGED <<state, row, listed, page, rpc>> /\ hpc[p] \in {"ack", "nack"}
      /\ Idle(p) /\ job[p] \in Job
  BY <1>0 DEF Ack, Nack, storeVars, requestVars, LoopTypeOK
<1>2. /\ \A q \in Process \ {p} : hpc'[q] = hpc[q] /\ job'[q] = job[q]
      /\ hpc'[p] = "idle" /\ job'[p] = NoOne
  BY <1>0, <1>1 DEF Idle, LoopTypeOK
<1>3. \/ UNCHANGED normal
      \/ job[p] \in Room \cup Updater /\ normal' = Append(normal, job[p])
  BY <1>1 DEF Ack, Nack, Requeue, queueVars, Job
<1>4. \A h \in Room : /\ InNormal(h) => InNormal(h)'
                      /\ InNormal(h)' => InNormal(h) \/ rpc[h] = "done"
  <2>1. CASE UNCHANGED normal
    BY <2>1 DEF InNormal
  <2>2. CASE job[p] \in Room \cup Updater /\ normal' = Append(normal, job[p])
    <3>1. \A h \in Room : InNormal(h)' <=> InNormal(h) \/ h = job[p]
      BY <1>0, <2>2, AppendIn
    <3>2. QED
      BY <1>0, <3>1 DEF ConsumerInv
  <2>3. QED
    BY <1>3, <2>1, <2>2
<1>5. \A h \in Room : (Awaited(h) => Awaited(h)') /\ (Worked(h) => Worked(h)')
  BY <1>1, <1>2, <1>4, Witnesses
<1>6. NoOne \notin Room
  BY RoomAssumption DEF Job
<1>7. ConsumerInv(p)'
  BY <1>2, <1>6 DEF ConsumerInv
<1>8. QED
  BY <1>1, <1>2, <1>4, <1>5, <1>7, LoopAgrees

-----------------------------------------------------------------------------
LEMMA InitAgrees == Init => Agree
<1> SUFFICES ASSUME Init PROVE Agree
  OBVIOUS
<1>1. DOMAIN normal = {}
  BY DEF Init
<1>2. \A g \in Room : ~ InNormal(g)
  BY <1>1 DEF InNormal
<1>3. \A g \in Room : RoomInv(g)
  BY <1>2 DEF Init, RoomInv
<1>4. NoOne \notin Room
  BY RoomAssumption DEF Job
<1>5. QED
  BY <1>3, <1>4 DEF Init, Agree, ConsumerInv

LEMMA RowStep == TypeOK /\ RowInv /\ [Next]_vars => RowInv'
<1> SUFFICES ASSUME TypeOK, RowInv, [Next]_vars, NothingFailed' PROVE Agree'
  BY DEF RowInv
<1>1. faults \in Nat /\ faults' = 0
  BY RoomAssumption DEF TypeOK, BoundsTypeOK, NothingFailed
<1>2. ~ Fault
  BY <1>1 DEF Fault
<1>3. NothingFailed
  <2>1. Fault \/ UNCHANGED faults
    BY DEF Next, CreateRuns, ListRuns, DeleteRuns, LoopRuns, LoopFails, Create, Cache, Pend,
       QueueCreate, ListCheck, ListCache, ListRedis, ListRead, Expire, FoundNoState, Mark,
       Uncache, UncacheFails, QueueDelete, QueueRename, Receive, CreateCheck, CreateReread,
       DeleteLook, Lock, LockFails, Insert, InsertRaises, Cleanup, SoftDelete, Rename,
       WriteRaises, Move, Ack, Nack, Crash, vars, bounds
  <2>2. QED
    BY <1>1, <1>2, <2>1 DEF NothingFailed
<1>4. Agree
  BY <1>3 DEF RowInv
<1>5. ASSUME NEW p \in Process, LoopRuns(p) PROVE Agree'
  <2>1. ~ Cleanup(p)
    BY <1>4 DEF Agree, ConsumerInv, Cleanup
  <2>2. QED
    BY <1>2, <1>4, <1>5, <2>1, ReceiveAgrees, CheckAgrees, PassAgrees, InsertAgrees,
       SoftDeleteAgrees, MoveAgrees, EndAgrees DEF LoopRuns
<1>6. \A p \in Process : ~ LoopFails(p)
  BY <1>2 DEF LoopFails, LockFails, InsertRaises, WriteRaises, Crash
<1>7. CASE UNCHANGED vars
  BY <1>4, <1>7 DEF vars, storeVars, requestVars, queueVars, loopVars, Agree, RoomInv,
     ConsumerInv, Awaited, Worked, InNormal
<1>8. QED
  BY <1>2, <1>4, <1>5, <1>6, <1>7, CreateAgrees, ListAgrees, ExpireAgrees, DeleterAgrees,
     UpdaterAgrees DEF Next

\* StateMatchesRow: while nothing fails, an ACTIVE room has its row, whoever made it
\* ACTIVE, and the row of a DELETED room is not active, whatever jobs are handed out
\* twice and whatever states expire (chat_persistence_consumer.py:139-319, and the list
\* handler of chat_template_impl.py).
THEOREM StateAndRow == Spec => []StateMatchesRow
<1>1. Init => TypeOK /\ RowInv
  BY InitTypes, InitAgrees DEF RowInv
<1>2. TypeOK /\ RowInv /\ [Next]_vars => TypeOK' /\ RowInv'
  BY StepTypes, RowStep
<1>3. TypeOK /\ RowInv => StateMatchesRow
  <2> SUFFICES ASSUME TypeOK, Agree, NEW g \in Room
               PROVE  /\ state[g] = "ACTIVE" => row[g] # "none"
                      /\ state[g] = "DELETED" => row[g] # "active"
    BY DEF RowInv, StateMatchesRow
  <2>1. RoomInv(g) /\ rpc[g] \in {"create", "cache", "pend", "queue", "done", "failed"}
    BY DEF Agree, TypeOK, RequestTypeOK
  <2>2. QED
    BY <2>1 DEF RoomInv
<1>4. QED
  BY <1>1, <1>2, <1>3, PTL DEF Spec
=============================================================================
