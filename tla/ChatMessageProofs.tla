--------------------------- MODULE ChatMessageProofs ---------------------------
(***************************************************************************)
(* Proofs about ChatMessage, for every number of requests, clients,        *)
(* processes and rooms, every batch size and any number of faults: types,  *)
(* that a message counts as sent only when it is stored, that a cancelled  *)
(* message is never stored, that every state change is a legal one, and    *)
(* that a message is never in two buffers or batches.                      *)
(***************************************************************************)
EXTENDS ChatMessage, SequenceTheorems, TLAPS

LEMMA InitTypes == Init => TypeOK
<1> SUFFICES ASSUME Init PROVE TypeOK
  OBVIOUS
<1> USE ChatAssumption
<1>1. StoreTypeOK
  BY DEF Init, StoreTypeOK, MessageState
<1>2. SendTypeOK
  BY DEF Init, SendTypeOK, SendStep, Steps, Part
<1>3. QueueTypeOK
  BY DEF Init, QueueTypeOK
<1>4. ClientTypeOK
  BY DEF Init, ClientTypeOK, MessageState
<1>5. LoopTypeOK
  BY DEF Init, LoopTypeOK
<1>6. BatchTypeOK
  BY DEF Init, BatchTypeOK
<1>7. BoundsTypeOK
  BY DEF Init, BoundsTypeOK
<1>8. QED
  BY <1>1, <1>2, <1>3, <1>4, <1>5, <1>6, <1>7 DEF TypeOK

\* What the batch operators do to a buffer.
LEMMA Slices ==
  ASSUME NEW s \in Seq(Message)
  PROVE  /\ FirstBatch(s) \in SUBSET Message
         /\ RestOf(s) \in Seq(Message)
         /\ DOMAIN RestOf(s) = 1 .. Len(s) - BatchLength(s)
         /\ \A i \in 1 .. Len(s) - BatchLength(s) : RestOf(s)[i] = s[BatchLength(s) + i]
         /\ FirstBatch(s) \subseteq {s[i] : i \in DOMAIN s}
         /\ {RestOf(s)[i] : i \in DOMAIN RestOf(s)} \subseteq {s[i] : i \in DOMAIN s}
<1>1. /\ BatchLength(s) \in Nat
      /\ BatchLength(s) <= Len(s)
  BY ChatAssumption DEF BatchLength
<1>2. DOMAIN s = 1..Len(s) /\ Len(s) \in Nat
  OBVIOUS
<1>3. \A i \in BatchLength(s) + 1 .. Len(s) : s[i] \in Message
  BY <1>1, <1>2
<1>4. /\ RestOf(s) \in Seq(Message)
      /\ Len(RestOf(s)) = IF BatchLength(s) + 1 <= Len(s) THEN Len(s) - BatchLength(s) ELSE 0
      /\ \A i \in 1 .. Len(s) - BatchLength(s) : RestOf(s)[i] = s[BatchLength(s) + i]
  <2> DEFINE k == BatchLength(s) + 1
             n == Len(s)
  <2>1. k \in Int /\ n \in Int
    BY <1>1, <1>2
  <2>2. \A i \in k .. n : s[i] \in Message
    BY <1>3
  <2> HIDE DEF k, n
  <2>3. /\ SubSeq(s, k, n) \in Seq(Message)
        /\ Len(SubSeq(s, k, n)) = IF k <= n THEN n - k + 1 ELSE 0
        /\ \A i \in 1 .. n - k + 1 : SubSeq(s, k, n)[i] = s[k + i - 1]
    BY <2>1, <2>2, SubSeqProperties
  <2>4. QED
    BY <1>1, <1>2, <2>3, SMTT(30) DEF k, n, RestOf
<1>5. FirstBatch(s) \subseteq {s[i] : i \in DOMAIN s}
  BY <1>1, <1>2 DEF FirstBatch
<1>6. {RestOf(s)[i] : i \in DOMAIN RestOf(s)} \subseteq {s[i] : i \in DOMAIN s}
  <2> SUFFICES ASSUME NEW i \in DOMAIN RestOf(s)
               PROVE  \E j \in DOMAIN s : RestOf(s)[i] = s[j]
    OBVIOUS
  <2>1. i \in 1 .. Len(RestOf(s))
    BY <1>4
  <2>2. i \in 1 .. Len(s) - BatchLength(s)
    BY <2>1, <1>1, <1>2, <1>4
  <2>3. BatchLength(s) + i \in DOMAIN s
    BY <2>2, <1>1, <1>2
  <2>4. QED
    BY <2>2, <2>3, <1>4
<1>7. FirstBatch(s) \in SUBSET Message
  BY <1>5, <1>2
<1>8. DOMAIN RestOf(s) = 1 .. Len(s) - BatchLength(s)
  <2>1. DOMAIN RestOf(s) = 1..Len(RestOf(s))
    BY <1>4
  <2>2. CASE BatchLength(s) + 1 <= Len(s)
    BY <1>1, <1>4, <2>1, <2>2
  <2>3. CASE BatchLength(s) = Len(s)
    BY <1>1, <1>2, <1>4, <2>1, <2>3
  <2>4. QED
    BY <1>1, <1>2, <2>2, <2>3
<1>9. QED
  BY <1>4, <1>5, <1>6, <1>7, <1>8

LEMMA StartTypes ==
  ASSUME BatchTypeOK, NEW b \in Batcher, NEW s, FirstBatch(s) \in SUBSET Message,
         StartBatch(b, s), lock' = lock
  PROVE  BatchTypeOK'
<1>1. /\ bpc' \in [Batcher -> {"idle", "lock", "save", "mark"}]
      /\ batch' \in [Batcher -> SUBSET Message]
      /\ group' \in [Batcher -> Room \cup {NoOne}]
      /\ current' \in [Batcher -> Message \cup {NoOne}]
  BY DEF StartBatch, BatchTypeOK
<1>2. bpc'[b] = "lock" /\ group'[b] = NoOne /\ current'[b] = NoOne
  BY DEF StartBatch, BatchTypeOK
<1>3. \A a \in Batcher \ {b} :
        bpc'[a] = bpc[a] /\ group'[a] = group[a] /\ current'[a] = current[a]
  BY DEF StartBatch, BatchTypeOK
<1>4. QED
  BY <1>1, <1>2, <1>3 DEF BatchTypeOK

-----------------------------------------------------------------------------
LEMMA StepTypes == TypeOK /\ [Next]_vars => TypeOK'
<1> SUFFICES ASSUME TypeOK, [Next]_vars PROVE TypeOK'
  OBVIOUS
<1> USE ChatAssumption
<1>0. /\ StoreTypeOK /\ SendTypeOK /\ QueueTypeOK /\ ClientTypeOK
      /\ LoopTypeOK /\ BatchTypeOK /\ BoundsTypeOK
  BY DEF TypeOK
<1>a. NoOne \notin Message /\ NoOne \notin Job /\ NoOne \notin Batcher /\ NoOne \notin Room
  BY DEF Job
<1> USE <1>0, <1>a
<1>1. ASSUME NEW r \in Request, NEW k \in Part, Compose(r, k)
      PROVE  TypeOK'
  <2>1. StoreTypeOK'
    BY <1>1 DEF Compose, TryMove, Advance, StoreTypeOK, MessageState
  <2>2. SendTypeOK'
    BY <1>1 DEF Compose, TryMove, Advance, SendTypeOK, SendStep, Steps, AfterStep,
      Part, Message
  <2>3. QueueTypeOK' /\ ClientTypeOK' /\ LoopTypeOK' /\ BatchTypeOK' /\ BoundsTypeOK'
    BY <1>1 DEF Compose, QueueTypeOK, ClientTypeOK, LoopTypeOK, BatchTypeOK,
      BoundsTypeOK, queueVars, clientVars, loopVars, batchVars, bounds
  <2>4. QED
    BY <2>1, <2>2, <2>3 DEF TypeOK
<1>2. ASSUME NEW r \in Request, NEW k \in Part, QueueSave(r, k)
      PROVE  TypeOK'
  <2>1. SendTypeOK'
    BY <1>2 DEF QueueSave, Advance, SendTypeOK, SendStep, Steps, AfterStep, Part,
      Message
  <2>2. QueueTypeOK'
    <3>1. <<r, k>> \in Job
      BY DEF Message, Job
    <3>2. QED
      BY <1>2, <3>1 DEF QueueSave, QueueTypeOK
  <2>3. StoreTypeOK' /\ ClientTypeOK' /\ LoopTypeOK' /\ BatchTypeOK' /\ BoundsTypeOK'
    BY <1>2 DEF QueueSave, StoreTypeOK, ClientTypeOK, LoopTypeOK, BatchTypeOK,
      BoundsTypeOK, clientVars, loopVars, batchVars, bounds
  <2>4. QED
    BY <2>1, <2>2, <2>3 DEF TypeOK
<1>3. ASSUME NEW r \in Request, NEW k \in Part, Pend(r, k)
      PROVE  TypeOK'
  <2>1. StoreTypeOK'
    BY <1>3 DEF Pend, TryMove, Advance, StoreTypeOK, MessageState
  <2>2. SendTypeOK'
    BY <1>3 DEF Pend, TryMove, Advance, SendTypeOK, SendStep, Steps, AfterStep, Part,
      Message
  <2>3. QueueTypeOK' /\ ClientTypeOK' /\ LoopTypeOK' /\ BatchTypeOK' /\ BoundsTypeOK'
    BY <1>3 DEF Pend, QueueTypeOK, ClientTypeOK, LoopTypeOK, BatchTypeOK, BoundsTypeOK,
      queueVars, clientVars, loopVars, batchVars, bounds
  <2>4. QED
    BY <2>1, <2>2, <2>3 DEF TypeOK
<1>4. ASSUME NEW r \in Request, Reply(r)
      PROVE  TypeOK'
  <2>1. SendTypeOK'
    BY <1>4 DEF Reply, Advance, SendTypeOK, SendStep, Steps, AfterStep, Part, Message
  <2>2. StoreTypeOK' /\ QueueTypeOK' /\ ClientTypeOK' /\ LoopTypeOK' /\ BatchTypeOK' /\ BoundsTypeOK'
    BY <1>4 DEF Reply, StoreTypeOK, QueueTypeOK, ClientTypeOK, LoopTypeOK, BatchTypeOK,
      BoundsTypeOK, queueVars, clientVars, loopVars, batchVars, bounds
  <2>3. QED
    BY <2>1, <2>2 DEF TypeOK
<1>5. ASSUME NEW r \in Request, ReplyFails(r)
      PROVE  TypeOK'
  <2>1. StoreTypeOK'
    BY <1>5 DEF ReplyFails, TryMove, StoreTypeOK, MessageState
  <2>2. SendTypeOK'
    BY <1>5 DEF ReplyFails, TryMove, SendTypeOK, SendStep, Steps, AfterStep, Part,
      Message
  <2>3. QueueTypeOK' /\ ClientTypeOK' /\ LoopTypeOK' /\ BatchTypeOK' /\ BoundsTypeOK'
    BY <1>5 DEF ReplyFails, QueueTypeOK, ClientTypeOK, LoopTypeOK, BatchTypeOK,
      BoundsTypeOK, queueVars, clientVars, loopVars, batchVars, bounds
  <2>4. QED
    BY <2>1, <2>2, <2>3 DEF TypeOK
<1>6. ASSUME NEW r \in Request, SendStepFails(r)
      PROVE  TypeOK'
  <2>1. SendTypeOK'
    BY <1>6 DEF SendStepFails, Advance, SendTypeOK, SendStep, Steps, AfterStep, Part,
      Message
  <2>2. BoundsTypeOK'
    BY <1>6 DEF SendStepFails, Advance, BoundsTypeOK, Fault, bounds
  <2>3. StoreTypeOK' /\ QueueTypeOK' /\ ClientTypeOK' /\ LoopTypeOK' /\ BatchTypeOK'
    BY <1>6 DEF SendStepFails, StoreTypeOK, QueueTypeOK, ClientTypeOK, LoopTypeOK,
      BatchTypeOK, queueVars, clientVars, loopVars, batchVars
  <2>4. QED
    BY <2>1, <2>2, <2>3 DEF TypeOK
<1>7. ASSUME NEW c \in Client, NEW m \in Message, SmartRead(c, m)
      PROVE  TypeOK'
  <2>1. ClientTypeOK'
    <3>1. state[m] \in MessageState
      BY DEF StoreTypeOK
    <3>2. /\ target' \in [Client -> Message \cup {NoOne}]
          /\ seen' \in [Client -> MessageState]
          /\ cpc' \in [Client -> {"start", "cas", "check", "done", "refused"}]
      BY <1>7, <3>1 DEF SmartRead, ClientTypeOK
    <3>3. target'[c] = m /\ cpc'[c] # "start"
      BY <1>7 DEF SmartRead, ClientTypeOK
    <3>4. \A d \in Client \ {c} : target'[d] = target[d] /\ cpc'[d] = cpc[d]
      BY <1>7 DEF SmartRead, ClientTypeOK
    <3>5. \A d \in Client : cpc'[d] # "start" <=> target'[d] # NoOne
      BY <3>3, <3>4 DEF ClientTypeOK
    <3>6. QED
      BY <3>2, <3>5 DEF ClientTypeOK
  <2>2. StoreTypeOK' /\ SendTypeOK' /\ QueueTypeOK' /\ LoopTypeOK' /\ BatchTypeOK' /\ BoundsTypeOK'
    BY <1>7 DEF SmartRead, StoreTypeOK, SendTypeOK, QueueTypeOK, LoopTypeOK,
      BatchTypeOK, BoundsTypeOK, sendVars, queueVars, loopVars, batchVars, bounds
  <2>3. QED
    BY <2>1, <2>2 DEF TypeOK
<1>8. ASSUME NEW c \in Client, SmartCas(c)
      PROVE  TypeOK'
  <2>1. StoreTypeOK'
    <3>1. target[c] \in Message
      BY <1>8 DEF SmartCas, ClientTypeOK
    <3>2. SmartTarget(seen[c]) \in MessageState
      BY DEF SmartTarget, MessageState
    <3>3. state' \in [Message -> MessageState]
      BY <1>8, <3>2 DEF SmartCas, TryMove, StoreTypeOK
    <3>4. cancelled' \in SUBSET Message
      BY <1>8, <3>1 DEF SmartCas, StoreTypeOK
    <3>5. UNCHANGED <<row, page>>
      BY <1>8 DEF SmartCas
    <3>6. QED
      BY <3>3, <3>4, <3>5 DEF StoreTypeOK
  <2>2. ClientTypeOK'
    BY <1>8 DEF SmartCas, TryMove, SmartTarget, ClientTypeOK, MessageState
  <2>3. BoundsTypeOK'
    BY <1>8 DEF SmartCas, TryMove, SmartTarget, BoundsTypeOK, Fault, bounds
  <2>4. SendTypeOK' /\ QueueTypeOK' /\ LoopTypeOK' /\ BatchTypeOK'
    BY <1>8 DEF SmartCas, SendTypeOK, QueueTypeOK, LoopTypeOK, BatchTypeOK, sendVars,
      queueVars, loopVars, batchVars
  <2>5. QED
    BY <2>1, <2>2, <2>3, <2>4 DEF TypeOK
<1>9. ASSUME NEW c \in Client, QueueDelete(c)
      PROVE  TypeOK'
  <2>1. QueueTypeOK'
    BY <1>9 DEF QueueDelete, QueueTypeOK, Job
  <2>2. ClientTypeOK'
    BY <1>9 DEF QueueDelete, ClientTypeOK, MessageState
  <2>3. StoreTypeOK' /\ SendTypeOK' /\ LoopTypeOK' /\ BatchTypeOK' /\ BoundsTypeOK'
    BY <1>9 DEF QueueDelete, StoreTypeOK, SendTypeOK, LoopTypeOK, BatchTypeOK,
      BoundsTypeOK, sendVars, loopVars, batchVars, bounds
  <2>4. QED
    BY <2>1, <2>2, <2>3 DEF TypeOK
<1>10. ASSUME NEW c \in Client, DeleteStepFails(c)
       PROVE  TypeOK'
  <2>1. ClientTypeOK'
    BY <1>10 DEF DeleteStepFails, ClientTypeOK, MessageState
  <2>2. BoundsTypeOK'
    BY <1>10 DEF DeleteStepFails, BoundsTypeOK, Fault, bounds
  <2>3. StoreTypeOK' /\ SendTypeOK' /\ QueueTypeOK' /\ LoopTypeOK' /\ BatchTypeOK'
    BY <1>10 DEF DeleteStepFails, StoreTypeOK, SendTypeOK, QueueTypeOK, LoopTypeOK,
      BatchTypeOK, sendVars, queueVars, loopVars, batchVars
  <2>4. QED
    BY <2>1, <2>2, <2>3 DEF TypeOK
<1>11. ASSUME NEW p \in Process, Receive(p)
       PROVE  TypeOK'
  <2>1. QueueTypeOK'
    <3>1. Tail(mq) \in Seq(Job)
      BY <1>11 DEF Receive, QueueTypeOK
    <3>2. mq' \in {mq, Tail(mq)} /\ UNCHANGED <<dlq, tries>>
      BY <1>11 DEF Receive
    <3>3. QED
      BY <3>1, <3>2 DEF QueueTypeOK
  <2>2. LoopTypeOK'
    <3>1. Head(mq) \in Job
      BY <1>11 DEF Receive, QueueTypeOK
    <3>2. hpc' = [hpc EXCEPT ![p] = IF Head(mq) \in Message THEN "save" ELSE "delete"]
      BY <1>11 DEF Receive
    <3>3. job' = [job EXCEPT ![p] = Head(mq)] /\ buffer' = buffer
      BY <1>11 DEF Receive
    <3>4. job'[p] \in Job /\ hpc'[p] = IF job'[p] \in Message THEN "save" ELSE "delete"
      BY <3>1, <3>2, <3>3 DEF LoopTypeOK
    <3>5. \A q \in Process \ {p} : job'[q] = job[q] /\ hpc'[q] = hpc[q]
      BY <3>2, <3>3 DEF LoopTypeOK
    <3>6. /\ hpc' \in [Process -> {"idle", "save", "reread", "batching", "delete", "ack", "nack"}]
          /\ job' \in [Process -> Job \cup {NoOne}]
      BY <3>1, <3>2, <3>3 DEF LoopTypeOK
    <3>7. job'[p] \in Message \/ job'[p] \in Client
      BY <3>4 DEF Job
    <3>8. QED
      BY <3>3, <3>4, <3>5, <3>6, <3>7 DEF LoopTypeOK
  <2>3. BoundsTypeOK'
    BY <1>11 DEF Receive, BoundsTypeOK, Fault, bounds
  <2>4. StoreTypeOK' /\ SendTypeOK' /\ ClientTypeOK' /\ BatchTypeOK'
    BY <1>11 DEF Receive, StoreTypeOK, SendTypeOK, ClientTypeOK, BatchTypeOK, sendVars,
      clientVars, batchVars
  <2>5. QED
    BY <2>1, <2>2, <2>3, <2>4 DEF TypeOK
<1>12. ASSUME NEW p \in Process, TakeIn(p)
       PROVE  TypeOK'
  <2>1. StoreTypeOK'
    BY <1>12 DEF TakeIn, TryMove, StartBatch, StoreTypeOK, MessageState
  <2>2. LoopTypeOK'
    <3>1. Append(buffer[p], job[p]) \in Seq(Message)
      BY <1>12 DEF TakeIn, LoopTypeOK
    <3>2. RestOf(Append(buffer[p], job[p])) \in Seq(Message)
      BY <3>1, Slices
    <3>3. /\ buffer' \in [Process -> Seq(Message)]
          /\ hpc' \in [Process -> {"idle", "save", "reread", "batching", "delete", "ack", "nack"}]
          /\ hpc'[p] \in {"batching", "ack"}
          /\ \A q \in Process \ {p} : hpc'[q] = hpc[q]
      BY <1>12, <3>1, <3>2 DEF TakeIn, LoopTypeOK
    <3>4. job' = job /\ job[p] # NoOne
      BY <1>12 DEF TakeIn, LoopTypeOK
    <3>5. QED
      BY <3>3, <3>4 DEF LoopTypeOK
  <2>3. BatchTypeOK'
    <3>1. Append(buffer[p], job[p]) \in Seq(Message)
      BY <1>12 DEF TakeIn, LoopTypeOK
    <3>2. FirstBatch(Append(buffer[p], job[p])) \in SUBSET Message
      BY <3>1, Slices
    <3>3. lock' = lock
      BY <1>12 DEF TakeIn
    <3>4. CASE UNCHANGED batchVars
      BY <3>3, <3>4 DEF batchVars, BatchTypeOK
    <3>5. CASE StartBatch(<<p, "loop">>, Append(buffer[p], job[p]))
      <4>1. <<p, "loop">> \in Batcher
        BY DEF Batcher
      <4>2. QED
        BY <3>2, <3>3, <3>5, <4>1, StartTypes
    <3>6. QED
      BY <1>12, <3>4, <3>5 DEF TakeIn
  <2>4. SendTypeOK' /\ QueueTypeOK' /\ ClientTypeOK' /\ BoundsTypeOK'
    BY <1>12 DEF TakeIn, SendTypeOK, QueueTypeOK, ClientTypeOK, BoundsTypeOK, sendVars,
      queueVars, clientVars, bounds, StartBatch
  <2>5. QED
    BY <2>1, <2>2, <2>3, <2>4 DEF TypeOK
<1>13. ASSUME NEW p \in Process, TakeInFails(p)
       PROVE  TypeOK'
  <2>1. StoreTypeOK'
    BY <1>13 DEF TakeInFails, TryMove, StoreTypeOK, MessageState
  <2>2. LoopTypeOK'
    BY <1>13 DEF TakeInFails, TryMove, LoopTypeOK
  <2>3. BoundsTypeOK'
    BY <1>13 DEF TakeInFails, TryMove, BoundsTypeOK, Fault, bounds
  <2>4. SendTypeOK' /\ QueueTypeOK' /\ ClientTypeOK' /\ BatchTypeOK'
    BY <1>13 DEF TakeInFails, SendTypeOK, QueueTypeOK, ClientTypeOK, BatchTypeOK,
      sendVars, queueVars, clientVars, batchVars
  <2>5. QED
    BY <2>1, <2>2, <2>3, <2>4 DEF TypeOK
<1>14. ASSUME NEW p \in Process, Reread(p)
       PROVE  TypeOK'
  <2>1. LoopTypeOK'
    BY <1>14, SMTT(30) DEF Reread, LoopTypeOK
  <2>2. BoundsTypeOK'
    BY <1>14 DEF Reread, BoundsTypeOK, Fault, bounds
  <2>3. StoreTypeOK' /\ SendTypeOK' /\ QueueTypeOK' /\ ClientTypeOK' /\ BatchTypeOK'
    BY <1>14 DEF Reread, StoreTypeOK, SendTypeOK, QueueTypeOK, ClientTypeOK,
      BatchTypeOK, sendVars, queueVars, clientVars, batchVars
  <2>4. QED
    BY <2>1, <2>2, <2>3 DEF TypeOK
<1>15. ASSUME NEW p \in Process, LoopBatchDone(p)
       PROVE  TypeOK'
  <2>1. LoopTypeOK'
    BY <1>15 DEF LoopBatchDone, LoopTypeOK
  <2>2. StoreTypeOK' /\ SendTypeOK' /\ QueueTypeOK' /\ ClientTypeOK' /\ BatchTypeOK' /\ BoundsTypeOK'
    BY <1>15 DEF LoopBatchDone, StoreTypeOK, SendTypeOK, QueueTypeOK, ClientTypeOK,
      BatchTypeOK, BoundsTypeOK, sendVars, queueVars, clientVars, batchVars, bounds
  <2>3. QED
    BY <2>1, <2>2 DEF TypeOK
<1>16. ASSUME NEW p \in Process, SoftDelete(p)
       PROVE  TypeOK'
  <2>1. StoreTypeOK'
    BY <1>16 DEF SoftDelete, StoreTypeOK, MessageState
  <2>2. LoopTypeOK'
    BY <1>16, ZenonT(60) DEF SoftDelete, LoopTypeOK
  <2>3. BoundsTypeOK'
    BY <1>16 DEF SoftDelete, BoundsTypeOK, Fault, bounds
  <2>4. SendTypeOK' /\ QueueTypeOK' /\ ClientTypeOK' /\ BatchTypeOK'
    BY <1>16 DEF SoftDelete, SendTypeOK, QueueTypeOK, ClientTypeOK, BatchTypeOK,
      sendVars, queueVars, clientVars, batchVars
  <2>5. QED
    BY <2>1, <2>2, <2>3, <2>4 DEF TypeOK
<1>17. ASSUME NEW p \in Process, SoftDeleteFails(p)
       PROVE  TypeOK'
  <2>1. LoopTypeOK'
    BY <1>17 DEF SoftDeleteFails, LoopTypeOK
  <2>2. BoundsTypeOK'
    BY <1>17 DEF SoftDeleteFails, BoundsTypeOK, Fault, bounds
  <2>3. StoreTypeOK' /\ SendTypeOK' /\ QueueTypeOK' /\ ClientTypeOK' /\ BatchTypeOK'
    BY <1>17 DEF SoftDeleteFails, StoreTypeOK, SendTypeOK, QueueTypeOK, ClientTypeOK,
      BatchTypeOK, sendVars, queueVars, clientVars, batchVars
  <2>4. QED
    BY <2>1, <2>2, <2>3 DEF TypeOK
<1>18. ASSUME NEW p \in Process, Ack(p)
       PROVE  TypeOK'
  <2>1. LoopTypeOK'
    BY <1>18 DEF Ack, Idle, LoopTypeOK
  <2>2. StoreTypeOK' /\ SendTypeOK' /\ QueueTypeOK' /\ ClientTypeOK' /\ BatchTypeOK' /\ BoundsTypeOK'
    BY <1>18 DEF Ack, StoreTypeOK, SendTypeOK, QueueTypeOK, ClientTypeOK, BatchTypeOK,
      BoundsTypeOK, sendVars, queueVars, clientVars, batchVars, bounds
  <2>3. QED
    BY <2>1, <2>2 DEF TypeOK
<1>19. ASSUME NEW p \in Process, Nack(p)
       PROVE  TypeOK'
  <2>1. QueueTypeOK'
    <3>1. job[p] \in Job
      BY <1>19 DEF Nack, LoopTypeOK
    <3>2. CASE MayRetry(job[p])
      <4>1. tries[job[p]] + 1 \in 0..MaxRetries
        BY <3>1, <3>2 DEF MayRetry, QueueTypeOK
      <4>2. /\ tries' = [tries EXCEPT ![job[p]] = tries[job[p]] + 1]
            /\ mq' = Append(mq, job[p])
            /\ dlq' = dlq
        BY <1>19, <3>2 DEF Nack
      <4>3. QED
        BY <3>1, <4>1, <4>2 DEF QueueTypeOK
    <3>3. CASE ~ MayRetry(job[p])
      BY <1>19, <3>1, <3>3 DEF Nack, QueueTypeOK
    <3>4. QED
      BY <3>2, <3>3
  <2>2. LoopTypeOK'
    BY <1>19 DEF Nack, Idle, MayRetry, LoopTypeOK
  <2>3. StoreTypeOK' /\ SendTypeOK' /\ ClientTypeOK' /\ BatchTypeOK' /\ BoundsTypeOK'
    BY <1>19 DEF Nack, StoreTypeOK, SendTypeOK, ClientTypeOK, BatchTypeOK,
      BoundsTypeOK, sendVars, clientVars, batchVars, bounds
  <2>4. QED
    BY <2>1, <2>2, <2>3 DEF TypeOK
<1>20. ASSUME NEW p \in Process, TimerBatch(p)
       PROVE  TypeOK'
  <2>1. LoopTypeOK'
    <3>1. RestOf(buffer[p]) \in Seq(Message)
      BY Slices DEF LoopTypeOK
    <3>2. QED
      BY <1>20, <3>1 DEF TimerBatch, LoopTypeOK
  <2>2. BatchTypeOK'
    <3>1. FirstBatch(buffer[p]) \in SUBSET Message
      BY Slices DEF LoopTypeOK
    <3>2. QED
      BY <1>20, <3>1, StartTypes DEF TimerBatch, Batcher
  <2>3. StoreTypeOK' /\ SendTypeOK' /\ QueueTypeOK' /\ ClientTypeOK' /\ BoundsTypeOK'
    BY <1>20 DEF TimerBatch, StoreTypeOK, SendTypeOK, QueueTypeOK, ClientTypeOK,
      BoundsTypeOK, sendVars, queueVars, clientVars, bounds, StartBatch
  <2>4. QED
    BY <2>1, <2>2, <2>3 DEF TypeOK
<1>21. ASSUME NEW p \in Process, Crash(p)
       PROVE  TypeOK'
  <2>1. LoopTypeOK'
    BY <1>21 DEF Crash, Idle, LoopTypeOK
  <2>2. BatchTypeOK'
    BY <1>21 DEF Crash, Idle, BatchTypeOK
  <2>3. BoundsTypeOK'
    BY <1>21 DEF Crash, Idle, BoundsTypeOK, Fault, bounds
  <2>4. StoreTypeOK' /\ SendTypeOK' /\ QueueTypeOK' /\ ClientTypeOK'
    BY <1>21 DEF Crash, StoreTypeOK, SendTypeOK, QueueTypeOK, ClientTypeOK, sendVars,
      queueVars, clientVars
  <2>5. QED
    BY <2>1, <2>2, <2>3, <2>4 DEF TypeOK
<1>22. ASSUME NEW b \in Batcher, NEW g \in Room, Acquire(b, g)
       PROVE  TypeOK'
  <2>1. BatchTypeOK'
    BY <1>22 DEF Acquire, BatchTypeOK
  <2>2. StoreTypeOK' /\ SendTypeOK' /\ QueueTypeOK' /\ ClientTypeOK' /\ LoopTypeOK' /\ BoundsTypeOK'
    BY <1>22 DEF Acquire, StoreTypeOK, SendTypeOK, QueueTypeOK, ClientTypeOK,
      LoopTypeOK, BoundsTypeOK, sendVars, queueVars, clientVars, loopVars, bounds
  <2>3. QED
    BY <2>1, <2>2 DEF TypeOK
<1>23. ASSUME NEW b \in Batcher, NEW m \in Message, Save(b, m)
       PROVE  TypeOK'
  <2>1. StoreTypeOK'
    BY <1>23 DEF Save, IsNext, StoreTypeOK, MessageState
  <2>2. BatchTypeOK'
    <3>1. /\ bpc' = [bpc EXCEPT ![b] = "mark"]
          /\ current' = [current EXCEPT ![b] = m]
          /\ UNCHANGED <<batch, group, lock>>
          /\ bpc[b] = "save"
      BY <1>23 DEF Save, IsNext
    <3>2. /\ bpc'[b] = "mark" /\ current'[b] = m
          /\ \A a \in Batcher \ {b} : bpc'[a] = bpc[a] /\ current'[a] = current[a]
          /\ bpc' \in [Batcher -> {"idle", "lock", "save", "mark"}]
          /\ current' \in [Batcher -> Message \cup {NoOne}]
      BY <3>1 DEF BatchTypeOK
    <3>3. QED
      BY <3>1, <3>2 DEF BatchTypeOK
  <2>3. SendTypeOK' /\ QueueTypeOK' /\ ClientTypeOK' /\ LoopTypeOK' /\ BoundsTypeOK'
    BY <1>23 DEF Save, SendTypeOK, QueueTypeOK, ClientTypeOK, LoopTypeOK, BoundsTypeOK,
      sendVars, queueVars, clientVars, loopVars, bounds
  <2>4. QED
    BY <2>1, <2>2, <2>3 DEF TypeOK
<1>24. ASSUME NEW b \in Batcher, NEW m \in Message, SaveRaises(b, m)
       PROVE  TypeOK'
  <2>1. StoreTypeOK'
    BY <1>24 DEF SaveRaises, IsNext, Drop, StoreTypeOK, MessageState
  <2>2. BatchTypeOK'
    BY <1>24 DEF SaveRaises, IsNext, Drop, BatchTypeOK
  <2>3. BoundsTypeOK'
    BY <1>24 DEF SaveRaises, IsNext, Drop, BoundsTypeOK, Fault, bounds
  <2>4. SendTypeOK' /\ QueueTypeOK' /\ ClientTypeOK' /\ LoopTypeOK'
    BY <1>24 DEF SaveRaises, SendTypeOK, QueueTypeOK, ClientTypeOK, LoopTypeOK,
      sendVars, queueVars, clientVars, loopVars
  <2>5. QED
    BY <2>1, <2>2, <2>3, <2>4 DEF TypeOK
<1>25. ASSUME NEW b \in Batcher, MarkSent(b)
       PROVE  TypeOK'
  <2>1. StoreTypeOK'
    BY <1>25 DEF MarkSent, TryMove, Drop, StoreTypeOK, MessageState
  <2>2. BatchTypeOK'
    BY <1>25 DEF MarkSent, TryMove, Drop, BatchTypeOK
  <2>3. BoundsTypeOK'
    BY <1>25 DEF MarkSent, TryMove, Drop, BoundsTypeOK, Fault, bounds
  <2>4. SendTypeOK' /\ QueueTypeOK' /\ ClientTypeOK' /\ LoopTypeOK'
    BY <1>25 DEF MarkSent, SendTypeOK, QueueTypeOK, ClientTypeOK, LoopTypeOK, sendVars,
      queueVars, clientVars, loopVars
  <2>5. QED
    BY <2>1, <2>2, <2>3, <2>4 DEF TypeOK
<1>26. ASSUME NEW b \in Batcher, Release(b)
       PROVE  TypeOK'
  <2>1. BatchTypeOK'
    BY <1>26 DEF Release, NextRoom, BatchTypeOK
  <2>2. StoreTypeOK' /\ SendTypeOK' /\ QueueTypeOK' /\ ClientTypeOK' /\ LoopTypeOK' /\ BoundsTypeOK'
    BY <1>26 DEF Release, StoreTypeOK, SendTypeOK, QueueTypeOK, ClientTypeOK,
      LoopTypeOK, BoundsTypeOK, sendVars, queueVars, clientVars, loopVars, bounds
  <2>3. QED
    BY <2>1, <2>2 DEF TypeOK
<1>27. ASSUME NEW b \in Batcher, NEW g \in Room, AcquireTimeout(b, g)
       PROVE  TypeOK'
  <2>1. BatchTypeOK'
    BY <1>27 DEF AcquireTimeout, NextRoom, GroupOf, BatchTypeOK
  <2>2. BoundsTypeOK'
    BY <1>27 DEF AcquireTimeout, NextRoom, GroupOf, BoundsTypeOK, Fault, bounds
  <2>3. StoreTypeOK' /\ SendTypeOK' /\ QueueTypeOK' /\ ClientTypeOK' /\ LoopTypeOK'
    BY <1>27 DEF AcquireTimeout, StoreTypeOK, SendTypeOK, QueueTypeOK, ClientTypeOK,
      LoopTypeOK, sendVars, queueVars, clientVars, loopVars
  <2>4. QED
    BY <2>1, <2>2, <2>3 DEF TypeOK
<1>28. ASSUME NEW g \in Room, LeaseEnds(g)
       PROVE  TypeOK'
  <2>1. BatchTypeOK'
    BY <1>28 DEF LeaseEnds, batchVars, BatchTypeOK
  <2>2. BoundsTypeOK'
    BY <1>28 DEF LeaseEnds, batchVars, BoundsTypeOK, Fault, bounds
  <2>3. StoreTypeOK' /\ SendTypeOK' /\ QueueTypeOK' /\ ClientTypeOK' /\ LoopTypeOK'
    BY <1>28 DEF LeaseEnds, StoreTypeOK, SendTypeOK, QueueTypeOK, ClientTypeOK,
      LoopTypeOK, sendVars, queueVars, clientVars, loopVars
  <2>4. QED
    BY <2>1, <2>2, <2>3 DEF TypeOK
<1>29. ASSUME NEW m \in Message, ListRead(m)
       PROVE  TypeOK'
  <2>1. StoreTypeOK'
    BY <1>29 DEF ListRead, StoreTypeOK, MessageState
  <2>2. SendTypeOK' /\ QueueTypeOK' /\ ClientTypeOK' /\ LoopTypeOK' /\ BatchTypeOK' /\ BoundsTypeOK'
    BY <1>29 DEF ListRead, SendTypeOK, QueueTypeOK, ClientTypeOK, LoopTypeOK,
      BatchTypeOK, BoundsTypeOK, sendVars, queueVars, clientVars, loopVars, batchVars,
      bounds
  <2>3. QED
    BY <2>1, <2>2 DEF TypeOK
<1>30. ASSUME NEW m \in Message, ListRestore(m)
       PROVE  TypeOK'
  <2>1. StoreTypeOK'
    BY <1>30 DEF ListRestore, TryMove, StoreTypeOK, MessageState
  <2>2. SendTypeOK' /\ QueueTypeOK' /\ ClientTypeOK' /\ LoopTypeOK' /\ BatchTypeOK' /\ BoundsTypeOK'
    BY <1>30 DEF ListRestore, SendTypeOK, QueueTypeOK, ClientTypeOK, LoopTypeOK,
      BatchTypeOK, BoundsTypeOK, sendVars, queueVars, clientVars, loopVars, batchVars,
      bounds
  <2>3. QED
    BY <2>1, <2>2 DEF TypeOK
<1>31. ASSUME NEW m \in Message, Expire(m)
       PROVE  TypeOK'
  <2>1. StoreTypeOK'
    BY <1>31 DEF Expire, StoreTypeOK, MessageState
  <2>2. BoundsTypeOK'
    BY <1>31 DEF Expire, BoundsTypeOK, Fault, bounds
  <2>3. SendTypeOK' /\ QueueTypeOK' /\ ClientTypeOK' /\ LoopTypeOK' /\ BatchTypeOK'
    BY <1>31 DEF Expire, SendTypeOK, QueueTypeOK, ClientTypeOK, LoopTypeOK,
      BatchTypeOK, sendVars, queueVars, clientVars, loopVars, batchVars
  <2>4. QED
    BY <2>1, <2>2, <2>3 DEF TypeOK
<1>32. CASE UNCHANGED vars
  BY <1>32 DEF TypeOK, StoreTypeOK, SendTypeOK, QueueTypeOK, ClientTypeOK, LoopTypeOK,
       BatchTypeOK, BoundsTypeOK, vars, sendVars, queueVars, clientVars, loopVars,
       batchVars, bounds
<1>33. QED
  BY <1>1, <1>2, <1>3, <1>4, <1>5, <1>6, <1>7, <1>8, <1>9, <1>10, <1>11, <1>12, <1>13,
    <1>14, <1>15, <1>16, <1>17, <1>18, <1>19, <1>20, <1>21, <1>22, <1>23, <1>24, <1>25,
    <1>26, <1>27, <1>28, <1>29, <1>30, <1>31, <1>32 DEF Next, SendRuns, DeleteRuns,
       LoopRuns, BatchRuns

THEOREM TypeCorrect == Spec => []TypeOK
<1>1. QED
  BY InitTypes, StepTypes, PTL DEF Spec
-----------------------------------------------------------------------------
(* The safety invariants                                                   *)

\* The messages in a buffer or batch, and those not composed yet.
Custody == {m \in Message : InCustody(m)}

Fresh ==
    {m \in Message :
        \/ spc[m[1]] = <<"compose", "user">>
        \/ m[2] = "ai" /\ spc[m[1]] \in {<<"queue", "user">>, <<"pend", "user">>,
                                         <<"compose", "ai">>}}

FreshInv ==
    \A m \in Fresh : state[m] = "none" /\ row[m] = "none" /\ m \notin Custody \cup cancelled

EarlyInv ==
    \A m \in Message :
        state[m] \in {"COMPOSING", "PENDING"} => row[m] = "none" /\ m \notin Custody

RowInv ==
    /\ \A m \in page : row[m] # "none"
    /\ \A b \in Batcher : bpc[b] = "mark" => row[current[b]] # "none"

SeenInv == \A c \in Client : cpc[c] = "cas" => seen[c] \notin {"none", "DELETING", "DELETED"}

CancelInv ==
    \A m \in cancelled :
        row[m] = "none" /\ m \notin Custody /\ state[m] \in {"DELETED", "none"}

\* The inductive invariant: a message leaves the early states only into the hands
\* of the one who moved it, so that a cancelled one is in nobody's.
Inv == FreshInv /\ EarlyInv /\ RowInv /\ SeenInv /\ CancelInv /\ SentIsStored

MarkKept ==
    \A b \in Batcher : bpc'[b] = "mark" => bpc[b] = "mark" /\ current'[b] = current[b]

SeenKept == \A c \in Client : cpc'[c] = "cas" => cpc[c] = "cas" /\ seen'[c] = seen[c]

LEMMA InitInv == Init => Inv
<1> SUFFICES ASSUME Init PROVE Inv
  OBVIOUS
<1>1. Custody = {}
  BY DEF Init, Custody, InCustody, BufferSet
<1>2. QED
  BY <1>1 DEF Init, Inv, FreshInv, EarlyInv, RowInv, SeenInv, CancelInv, SentIsStored, Fresh

\* A step that changes no state and makes no row preserves the invariant.
LEMMA Quietly ==
  ASSUME TypeOK, TypeOK', Inv, UNCHANGED <<state, cancelled>>,
         \A m \in Message : row'[m] = "none" <=> row[m] = "none",
         page' \subseteq page, Custody' \subseteq Custody, Fresh' \subseteq Fresh,
         MarkKept, SeenInv'
  PROVE  Inv'
<1>1. page \subseteq Message /\ page' \subseteq Message /\ cancelled \subseteq Message
  BY DEF TypeOK, StoreTypeOK
<1>2. FreshInv'
  BY DEF Inv, FreshInv, Fresh
<1>3. EarlyInv'
  BY DEF Inv, EarlyInv
<1>4. RowInv'
  <2>1. \A b \in Batcher : bpc'[b] = "mark" => current'[b] \in Message
    BY DEF TypeOK, BatchTypeOK
  <2>2. QED
    BY <1>1, <2>1 DEF Inv, RowInv, MarkKept
<1>5. CancelInv' /\ SentIsStored'
  BY <1>1 DEF Inv, CancelInv, SentIsStored
<1>6. QED
  BY <1>2, <1>3, <1>4, <1>5 DEF Inv

\* A step that moves one message, composed before, to another state preserves the
\* invariant when the new state agrees with the row and the holders of the message.
LEMMA Moving ==
  ASSUME TypeOK, TypeOK', Inv, NEW m \in Message, NEW to,
         state' = [state EXCEPT ![m] = to], UNCHANGED row,
         cancelled' \subseteq cancelled \cup {m}, page' \subseteq page,
         Custody' \subseteq Custody \cup {m}, Fresh' \subseteq Fresh \ {m},
         MarkKept, SeenKept,
         to \in {"COMPOSING", "PENDING"} => row[m] = "none" /\ m \notin Custody',
         to \in {"SENT", "DELETING"} => row[m] # "none",
         m \in cancelled' =>
           row[m] = "none" /\ m \notin Custody' /\ to \in {"DELETED", "none"}
  PROVE  Inv'
<1>1. /\ page \subseteq Message /\ page' \subseteq Message
      /\ cancelled \subseteq Message /\ cancelled' \subseteq Message
      /\ state \in [Message -> MessageState]
  BY DEF TypeOK, StoreTypeOK
<1>2. state'[m] = to /\ \A n \in Message \ {m} : state'[n] = state[n]
  BY <1>1
<1>3. FreshInv'
  BY <1>2, ZenonT(60) DEF Inv, FreshInv, Fresh
<1>4. EarlyInv'
  BY <1>2 DEF Inv, EarlyInv
<1>5. RowInv'
  BY <1>1 DEF Inv, RowInv, MarkKept
<1>6. SeenInv'
  BY DEF Inv, SeenInv, SeenKept
<1>7. CancelInv'
  BY <1>1, <1>2 DEF Inv, CancelInv
<1>8. SentIsStored'
  BY <1>2 DEF Inv, SentIsStored
<1>9. QED
  BY <1>3, <1>4, <1>5, <1>6, <1>7, <1>8 DEF Inv

\* A step that stores the row of a message in custody preserves the invariant.
LEMMA Storing ==
  ASSUME TypeOK, TypeOK', Inv, NEW m \in Custody, UNCHANGED <<state, cancelled>>,
         row' = [row EXCEPT ![m] = "stored"],
         page' \subseteq page, Custody' \subseteq Custody, Fresh' \subseteq Fresh,
         \A b \in Batcher :
           bpc'[b] = "mark" => (bpc[b] = "mark" /\ current'[b] = current[b]) \/ current'[b] = m,
         SeenInv'
  PROVE  Inv'
<1>1. /\ page \subseteq Message /\ cancelled \subseteq Message
      /\ row \in [Message -> {"none", "stored", "deleted"}]
  BY DEF TypeOK, StoreTypeOK
<1>2. m \in Message /\ row'[m] = "stored" /\ \A n \in Message \ {m} : row'[n] = row[n]
  BY <1>1 DEF Custody
<1>3. FreshInv'
  BY <1>2 DEF Inv, FreshInv, Fresh
<1>4. EarlyInv'
  BY <1>2 DEF Inv, EarlyInv
<1>5. RowInv'
  <2>1. \A b \in Batcher : bpc'[b] = "mark" => current'[b] \in Message
    BY DEF TypeOK, BatchTypeOK
  <2>2. QED
    BY <1>1, <1>2, <2>1 DEF Inv, RowInv
<1>6. CancelInv' /\ SentIsStored'
  BY <1>1, <1>2 DEF Inv, CancelInv, SentIsStored
<1>7. QED
  BY <1>3, <1>4, <1>5, <1>6 DEF Inv

LEMMA SameCustody == ASSUME UNCHANGED <<buffer, batch>> PROVE Custody' = Custody
BY DEF Custody, InCustody, BufferSet

LEMMA LessCustody ==
  ASSUME \A p \in Process : BufferSet(p)' \subseteq BufferSet(p),
         \A b \in Batcher : batch'[b] \subseteq batch[b]
  PROVE  Custody' \subseteq Custody
BY DEF Custody, InCustody

\* What a buffer gives to a batch stays in custody.
LEMMA CustodyPassed ==
  ASSUME BatchTypeOK, LoopTypeOK, NEW p \in Process, NEW b \in Batcher, NEW s \in Seq(Message),
         NEW S \in SUBSET Message, {s[i] : i \in DOMAIN s} \subseteq Custody \cup S,
         StartBatch(b, s), buffer' = [buffer EXCEPT ![p] = RestOf(s)]
  PROVE  Custody' \subseteq Custody \cup S
<1>1. batch'[b] \subseteq Custody \cup S
  BY Slices DEF StartBatch, BatchTypeOK
<1>2. \A a \in Batcher \ {b} : batch'[a] = batch[a]
  BY DEF StartBatch, BatchTypeOK
<1>3. BufferSet(p)' \subseteq Custody \cup S
  <2>1. BufferSet(p)' = {RestOf(s)[i] : i \in DOMAIN RestOf(s)}
    BY DEF BufferSet, LoopTypeOK
  <2>2. {RestOf(s)[i] : i \in DOMAIN RestOf(s)} \subseteq {s[i] : i \in DOMAIN s}
    BY Slices
  <2>3. QED
    BY <2>1, <2>2
<1>4. \A q \in Process \ {p} : BufferSet(q)' = BufferSet(q)
  BY DEF BufferSet, LoopTypeOK
<1>5. SUFFICES ASSUME NEW m \in Message, InCustody(m)' PROVE m \in Custody \cup S
  BY DEF Custody
<1>6. CASE \E q \in Process : m \in BufferSet(q)'
  BY <1>3, <1>4, <1>6 DEF Custody, InCustody
<1>7. CASE \E a \in Batcher : m \in batch'[a]
  BY <1>1, <1>2, <1>7 DEF Custody, InCustody
<1>8. QED
  BY <1>5, <1>6, <1>7 DEF InCustody

LEMMA Appended ==
  ASSUME NEW s \in Seq(Message), NEW m \in Message
  PROVE  /\ Append(s, m) \in Seq(Message)
         /\ {Append(s, m)[i] : i \in DOMAIN Append(s, m)} = {s[i] : i \in DOMAIN s} \cup {m}
<1>1. /\ Append(s, m) \in Seq(Message)
      /\ DOMAIN s = 1..Len(s) /\ Len(s) \in Nat
      /\ DOMAIN Append(s, m) = 1..Len(s) + 1
      /\ \A i \in 1..Len(s) : Append(s, m)[i] = s[i]
      /\ Append(s, m)[Len(s) + 1] = m
  OBVIOUS
<1>2. 1..Len(s) + 1 = 1..Len(s) \cup {Len(s) + 1}
  BY <1>1
<1>3. QED
  BY <1>1, <1>2

LEMMA SameFresh == ASSUME spc' = spc PROVE Fresh' = Fresh
BY DEF Fresh

\* A handler's next step makes no message fresh, and composing ends it.
LEMMA FreshShrinks ==
  ASSUME TypeOK, NEW r \in Request, Advance(r)
  PROVE  /\ Fresh' \subseteq Fresh
         /\ \A k \in Part : spc[r] = <<"compose", k>> => <<r, k>> \notin Fresh'
<1>1. spc'[r] = AfterStep(spc[r]) /\ \A q \in Request \ {r} : spc'[q] = spc[q]
  BY DEF TypeOK, SendTypeOK, Advance
<1>2. spc[r] \in SendStep
  BY DEF TypeOK, SendTypeOK
<1>3. \A m \in Message : m[1] \in Request /\ m[2] \in Part
  BY DEF Message
<1>4. Fresh' \subseteq Fresh
  <2> SUFFICES ASSUME NEW m \in Fresh' PROVE m \in Fresh
    OBVIOUS
  <2>1. m \in Message
    BY DEF Fresh
  <2>2. CASE m[1] # r
    BY <1>1, <1>3, <2>1, <2>2 DEF Fresh
  <2>3. CASE m[1] = r
    BY <1>1, <1>2, <2>1, <2>3 DEF Fresh, AfterStep, SendStep, Steps, Part
  <2>4. QED
    BY <2>2, <2>3
<1>5. ASSUME NEW k \in Part, spc[r] = <<"compose", k>>
      PROVE  <<r, k>> \notin Fresh'
  BY <1>1, <1>5 DEF Fresh, AfterStep, Part
<1>6. QED
  BY <1>4, <1>5

-----------------------------------------------------------------------------
LEMMA InvStep == TypeOK /\ Inv /\ [Next]_vars => Inv'
<1> SUFFICES ASSUME TypeOK, Inv, [Next]_vars PROVE Inv'
  OBVIOUS
<1>a. TypeOK'
  BY StepTypes
<1>b. FreshInv /\ EarlyInv /\ RowInv /\ SeenInv /\ CancelInv /\ SentIsStored
  BY DEF Inv
<1>c. /\ StoreTypeOK /\ ClientTypeOK /\ LoopTypeOK /\ BatchTypeOK
      /\ StoreTypeOK' /\ LoopTypeOK' /\ BatchTypeOK'
  BY <1>a DEF TypeOK
<1>d. NoOne \notin Message
  BY ChatAssumption DEF Job
<1>1. ASSUME NEW r \in Request, NEW k \in Part, Compose(r, k)
      PROVE  Inv'
  <2> DEFINE m == <<r, k>>
  <2>1. m \in Message /\ m \in Fresh
    BY <1>1 DEF Compose, Fresh, Message, Part
  <2>2. state[m] = "none" /\ row[m] = "none" /\ m \notin Custody /\ m \notin cancelled
    BY <1>b, <2>1 DEF FreshInv
  <2> HIDE DEF m
  <2>3. state' = [state EXCEPT ![m] = "COMPOSING"]
    BY <1>1, <2>2 DEF Compose, TryMove, CanMove, Permitted, Matches, m
  <2>4. Fresh' \subseteq Fresh \ {m}
    BY <1>1, FreshShrinks DEF Compose, m
  <2>5. UNCHANGED <<row, page, cancelled, bpc, current, cpc, seen, buffer, batch>>
    BY <1>1 DEF Compose, clientVars, loopVars, batchVars
  <2>6. Custody' = Custody /\ MarkKept /\ SeenKept
    BY <2>5, SameCustody DEF MarkKept, SeenKept
  <2>7. QED
    BY <1>a, <2>1, <2>2, <2>3, <2>4, <2>5, <2>6, Moving
<1>2. ASSUME NEW r \in Request, NEW k \in Part, QueueSave(r, k)
      PROVE  Inv'
  <2>1. UNCHANGED <<state, cancelled>> /\ page' \subseteq page
    BY <1>2 DEF QueueSave, clientVars, loopVars, batchVars
  <2>2. UNCHANGED row
    BY <1>2 DEF QueueSave, clientVars, loopVars, batchVars
  <2>3. Custody' \subseteq Custody
    BY <1>2, SameCustody DEF QueueSave, clientVars, loopVars, batchVars
  <2>4. Fresh' \subseteq Fresh
    BY <1>2, FreshShrinks DEF QueueSave
  <2>5. MarkKept
    BY <1>2, <1>c DEF QueueSave, clientVars, loopVars, batchVars, MarkKept, BatchTypeOK
  <2>6. SeenInv'
    BY <1>2, <1>b, <1>c DEF QueueSave, clientVars, loopVars, batchVars, SeenInv,
      ClientTypeOK
  <2>7. QED
    BY <1>a, <2>1, <2>2, <2>3, <2>4, <2>5, <2>6, Quietly
<1>3. ASSUME NEW r \in Request, NEW k \in Part, Pend(r, k)
      PROVE  Inv'
  <2> DEFINE m == <<r, k>>
  <2>1. m \in Message
    BY DEF Message
  <2> HIDE DEF m
  <2>2. Fresh' \subseteq Fresh
    BY <1>3, FreshShrinks DEF Pend
  <2>3. UNCHANGED <<row, page, cancelled, bpc, current, cpc, seen, buffer, batch>>
    BY <1>3 DEF Pend, clientVars, loopVars, batchVars
  <2>4. Custody' = Custody /\ MarkKept /\ SeenKept /\ SeenInv'
    BY <1>b, <2>3, SameCustody DEF MarkKept, SeenKept, SeenInv
  <2>5. CASE state' = state
    BY <1>a, <2>2, <2>3, <2>4, <2>5, Quietly
  <2>6. CASE state[m] = "COMPOSING" /\ state' = [state EXCEPT ![m] = "PENDING"]
    <3>1. row[m] = "none" /\ m \notin Custody /\ m \notin cancelled /\ m \notin Fresh
      BY <1>b, <2>1, <2>6 DEF FreshInv, EarlyInv, CancelInv
    <3>2. QED
      BY <1>a, <2>1, <2>2, <2>3, <2>4, <2>6, <3>1, Moving
  <2>7. QED
    BY <1>3, <2>5, <2>6 DEF Pend, TryMove, CanMove, Matches, m
<1>4. ASSUME NEW r \in Request, Reply(r)
      PROVE  Inv'
  <2>1. UNCHANGED <<state, cancelled>> /\ page' \subseteq page
    BY <1>4 DEF Reply, clientVars, loopVars, batchVars
  <2>2. UNCHANGED row
    BY <1>4 DEF Reply, clientVars, loopVars, batchVars
  <2>3. Custody' \subseteq Custody
    BY <1>4, SameCustody DEF Reply, clientVars, loopVars, batchVars
  <2>4. Fresh' \subseteq Fresh
    BY <1>4, FreshShrinks DEF Reply
  <2>5. MarkKept
    BY <1>4, <1>c DEF Reply, clientVars, loopVars, batchVars, MarkKept, BatchTypeOK
  <2>6. SeenInv'
    BY <1>4, <1>b, <1>c DEF Reply, clientVars, loopVars, batchVars, SeenInv, ClientTypeOK
  <2>7. QED
    BY <1>a, <2>1, <2>2, <2>3, <2>4, <2>5, <2>6, Quietly
<1>5. ASSUME NEW r \in Request, ReplyFails(r)
      PROVE  Inv'
  <2> DEFINE m == <<r, "ai">>
  <2>1. m \in Message
    BY DEF Message, Part
  <2>2. Fresh' \subseteq Fresh
    <3>1. spc'[r] = <<"failed", "ai">> /\ \A q \in Request \ {r} : spc'[q] = spc[q]
      BY <1>5 DEF ReplyFails, TypeOK, SendTypeOK
    <3>2. \A n \in Message : n[1] \in Request
      BY DEF Message
    <3>3. QED
      BY <3>1, <3>2 DEF Fresh
  <2> HIDE DEF m
  <2>3. UNCHANGED <<row, page, cancelled, bpc, current, cpc, seen, buffer, batch>>
    BY <1>5 DEF ReplyFails, clientVars, loopVars, batchVars
  <2>4. Custody' = Custody /\ MarkKept /\ SeenKept /\ SeenInv'
    BY <1>b, <2>3, SameCustody DEF MarkKept, SeenKept, SeenInv
  <2>5. CASE state' = state
    BY <1>a, <2>2, <2>3, <2>4, <2>5, Quietly
  <2>6. CASE state[m] = "PENDING" /\ state' = [state EXCEPT ![m] = "DELETED"]
    <3>1. m \notin cancelled /\ m \notin Fresh
      BY <1>b, <2>1, <2>6 DEF FreshInv, CancelInv
    <3>2. QED
      BY <1>a, <2>1, <2>2, <2>3, <2>4, <2>6, <3>1, Moving
  <2>7. QED
    BY <1>5, <2>5, <2>6 DEF ReplyFails, TryMove, CanMove, Matches, m
<1>6. ASSUME NEW r \in Request, SendStepFails(r)
      PROVE  Inv'
  <2>1. UNCHANGED <<state, cancelled>> /\ page' \subseteq page
    BY <1>6 DEF SendStepFails, clientVars, loopVars, batchVars
  <2>2. UNCHANGED row
    BY <1>6 DEF SendStepFails, clientVars, loopVars, batchVars
  <2>3. Custody' \subseteq Custody
    BY <1>6, SameCustody DEF SendStepFails, clientVars, loopVars, batchVars
  <2>4. Fresh' \subseteq Fresh
    BY <1>6, FreshShrinks DEF SendStepFails
  <2>5. MarkKept
    BY <1>6, <1>c DEF SendStepFails, clientVars, loopVars, batchVars, MarkKept,
      BatchTypeOK
  <2>6. SeenInv'
    BY <1>6, <1>b, <1>c DEF SendStepFails, clientVars, loopVars, batchVars, SeenInv,
      ClientTypeOK
  <2>7. QED
    BY <1>a, <2>1, <2>2, <2>3, <2>4, <2>5, <2>6, Quietly
<1>7. ASSUME NEW c \in Client, NEW m \in Message, SmartRead(c, m)
      PROVE  Inv'
  <2>1. UNCHANGED <<state, cancelled>> /\ page' \subseteq page
    BY <1>7 DEF SmartRead, sendVars, loopVars, batchVars
  <2>2. UNCHANGED row
    BY <1>7 DEF SmartRead, sendVars, loopVars, batchVars
  <2>3. Custody' \subseteq Custody
    BY <1>7, SameCustody DEF SmartRead, sendVars, loopVars, batchVars
  <2>4. Fresh' \subseteq Fresh
    BY <1>7, SameFresh DEF SmartRead, sendVars, loopVars, batchVars
  <2>5. MarkKept
    BY <1>7, <1>c DEF SmartRead, sendVars, loopVars, batchVars, MarkKept, BatchTypeOK
  <2>6. SeenInv'
    <3>1. cpc'[c] = "cas" => state[m] \notin {"none", "DELETING", "DELETED"}
      BY <1>7, <1>c DEF SmartRead, ClientTypeOK
    <3>2. seen'[c] = state[m] /\ \A d \in Client \ {c} : cpc'[d] = cpc[d] /\ seen'[d] = seen[d]
      BY <1>7, <1>c DEF SmartRead, ClientTypeOK
    <3>3. QED
      BY <1>b, <3>1, <3>2 DEF SeenInv
  <2>7. QED
    BY <1>a, <2>1, <2>2, <2>3, <2>4, <2>5, <2>6, Quietly
<1>8. ASSUME NEW c \in Client, SmartCas(c)
      PROVE  Inv'
  <2> DEFINE m == target[c]
             to == SmartTarget(seen[c])
  <2>1. m \in Message
    BY <1>8, <1>c DEF SmartCas, ClientTypeOK
  <2>2. seen[c] \notin {"none", "DELETING", "DELETED"}
    BY <1>8, <1>b DEF SmartCas, SeenInv
  <2> HIDE DEF m
  <2>3. UNCHANGED <<row, page, bpc, current, seen, buffer, batch, spc>>
    BY <1>8 DEF SmartCas, sendVars, loopVars, batchVars
  <2>4. Custody' = Custody /\ Fresh' = Fresh /\ MarkKept
    BY <2>3, SameCustody, SameFresh DEF MarkKept
  <2>5. SeenKept /\ SeenInv'
    <3>1. cpc'[c] # "cas" /\ \A d \in Client \ {c} : cpc'[d] = cpc[d]
      BY <1>8, <1>c DEF SmartCas, ClientTypeOK
    <3>2. QED
      BY <1>b, <2>3, <3>1 DEF SeenKept, SeenInv
  <2>6. CASE UNCHANGED <<state, cancelled>>
    BY <1>a, <2>3, <2>4, <2>5, <2>6, Quietly
  <2>7. CASE /\ state[m] = seen[c] /\ to \in Successors(seen[c])
             /\ state' = [state EXCEPT ![m] = to]
             /\ cancelled' = IF to = "DELETED" THEN cancelled \cup {m} ELSE cancelled
    <3>1. m \notin cancelled /\ m \notin Fresh
      BY <1>b, <2>1, <2>2, <2>7 DEF FreshInv, CancelInv
    <3>2. CASE seen[c] \in {"COMPOSING", "PENDING"}
      <4>1. to = "DELETED" /\ row[m] = "none" /\ m \notin Custody
        BY <1>b, <2>1, <2>7, <3>2 DEF SmartTarget, EarlyInv
      <4>2. QED
        BY <1>a, <2>1, <2>3, <2>4, <2>5, <2>7, <3>1, <4>1, Moving, ZenonT(60)
    <3>3. CASE seen[c] \notin {"COMPOSING", "PENDING"}
      <4>1. to = "DELETING" /\ seen[c] = "SENT"
        BY <2>2, <2>7, <3>3 DEF SmartTarget, Successors
      <4>2. row[m] # "none"
        BY <1>b, <2>1, <2>7, <4>1 DEF SentIsStored
      <4>3. QED
        BY <1>a, <2>1, <2>3, <2>4, <2>5, <2>7, <3>1, <4>1, <4>2, Moving, ZenonT(60)
    <3>4. QED
      BY <3>2, <3>3
  <2>8. QED
    BY <1>8, <2>2, <2>6, <2>7 DEF SmartCas, TryMove, CanMove, Permitted, Matches, m
<1>9. ASSUME NEW c \in Client, QueueDelete(c)
      PROVE  Inv'
  <2>1. UNCHANGED <<state, cancelled>> /\ page' \subseteq page
    BY <1>9 DEF QueueDelete, sendVars, loopVars, batchVars
  <2>2. UNCHANGED row
    BY <1>9 DEF QueueDelete, sendVars, loopVars, batchVars
  <2>3. Custody' \subseteq Custody
    BY <1>9, SameCustody DEF QueueDelete, sendVars, loopVars, batchVars
  <2>4. Fresh' \subseteq Fresh
    BY <1>9, SameFresh DEF QueueDelete, sendVars, loopVars, batchVars
  <2>5. MarkKept
    BY <1>9, <1>c DEF QueueDelete, sendVars, loopVars, batchVars, MarkKept, BatchTypeOK
  <2>6. SeenInv'
    BY <1>9, <1>b, <1>c DEF QueueDelete, sendVars, loopVars, batchVars, SeenInv,
      ClientTypeOK
  <2>7. QED
    BY <1>a, <2>1, <2>2, <2>3, <2>4, <2>5, <2>6, Quietly
<1>10. ASSUME NEW c \in Client, DeleteStepFails(c)
       PROVE  Inv'
  <2>1. UNCHANGED <<state, cancelled>> /\ page' \subseteq page
    BY <1>10 DEF DeleteStepFails, sendVars, loopVars, batchVars
  <2>2. UNCHANGED row
    BY <1>10 DEF DeleteStepFails, sendVars, loopVars, batchVars
  <2>3. Custody' \subseteq Custody
    BY <1>10, SameCustody DEF DeleteStepFails, sendVars, loopVars, batchVars
  <2>4. Fresh' \subseteq Fresh
    BY <1>10, SameFresh DEF DeleteStepFails, sendVars, loopVars, batchVars
  <2>5. MarkKept
    BY <1>10, <1>c DEF DeleteStepFails, sendVars, loopVars, batchVars, MarkKept,
      BatchTypeOK
  <2>6. SeenInv'
    BY <1>10, <1>b, <1>c DEF DeleteStepFails, sendVars, loopVars, batchVars, SeenInv,
      ClientTypeOK
  <2>7. QED
    BY <1>a, <2>1, <2>2, <2>3, <2>4, <2>5, <2>6, Quietly
<1>11. ASSUME NEW p \in Process, Receive(p)
       PROVE  Inv'
  <2>1. UNCHANGED <<state, cancelled>> /\ page' \subseteq page
    BY <1>11 DEF Receive, sendVars, clientVars, batchVars
  <2>2. UNCHANGED row
    BY <1>11 DEF Receive, sendVars, clientVars, batchVars
  <2>3. Custody' \subseteq Custody
    BY <1>11, SameCustody DEF Receive, sendVars, clientVars, batchVars
  <2>4. Fresh' \subseteq Fresh
    BY <1>11, SameFresh DEF Receive, sendVars, clientVars, batchVars
  <2>5. MarkKept
    BY <1>11, <1>c DEF Receive, sendVars, clientVars, batchVars, MarkKept, BatchTypeOK
  <2>6. SeenInv'
    BY <1>11, <1>b, <1>c DEF Receive, sendVars, clientVars, batchVars, SeenInv,
      ClientTypeOK
  <2>7. QED
    BY <1>a, <2>1, <2>2, <2>3, <2>4, <2>5, <2>6, Quietly
<1>12. ASSUME NEW p \in Process, TakeIn(p)
       PROVE  Inv'
  <2> DEFINE m == job[p]
             filled == Append(buffer[p], m)
             loop == <<p, "loop">>
  <2>1. m \in Message
    BY <1>12, <1>c DEF TakeIn, LoopTypeOK
  <2>2. state[m] = "PENDING" /\ state' = [state EXCEPT ![m] = "PROCESSING"]
    BY <1>12 DEF TakeIn, TryMove, CanMove, Permitted, Matches
  <2>3. m \notin cancelled /\ m \notin Fresh
    BY <1>b, <2>1, <2>2 DEF FreshInv, CancelInv
  <2>4. UNCHANGED <<row, page, cancelled, cpc, seen, spc>>
    BY <1>12 DEF TakeIn, sendVars, clientVars
  <2>5. filled \in Seq(Message) /\ {filled[i] : i \in DOMAIN filled} = BufferSet(p) \cup {m}
    <3>1. buffer[p] \in Seq(Message)
      BY <1>c DEF LoopTypeOK
    <3> HIDE DEF m
    <3>2. QED
      BY <2>1, <3>1, Appended DEF BufferSet
  <2>6. {filled[i] : i \in DOMAIN filled} \subseteq Custody \cup {m}
    <3>1. BufferSet(p) \subseteq Message
      BY <1>c DEF LoopTypeOK, BufferSet
    <3>2. QED
      BY <2>5, <3>1 DEF Custody, InCustody
  <2>7. loop \in Batcher
    BY DEF Batcher
  <2>8. Custody' \subseteq Custody \cup {m}
    <3>1. CASE Full(filled)
      <4>1. StartBatch(loop, filled) /\ buffer' = [buffer EXCEPT ![p] = RestOf(filled)]
        BY <1>12, <3>1 DEF TakeIn
      <4> HIDE DEF m, filled, loop
      <4>2. {m} \in SUBSET Message
        BY <2>1
      <4>3. QED
        BY <1>c, <2>5, <2>6, <2>7, <4>1, <4>2, CustodyPassed
    <3>2. CASE ~ Full(filled)
      <4>1. batch' = batch /\ buffer' = [buffer EXCEPT ![p] = filled]
        BY <1>12, <3>2 DEF TakeIn, batchVars
      <4>2. BufferSet(p)' = BufferSet(p) \cup {m}
        BY <1>c, <2>5, <4>1 DEF BufferSet, LoopTypeOK
      <4>3. \A q \in Process \ {p} : BufferSet(q)' = BufferSet(q)
        BY <1>c, <4>1 DEF BufferSet, LoopTypeOK
      <4>4. QED
        BY <4>1, <4>2, <4>3 DEF Custody, InCustody
    <3>3. QED
      BY <3>1, <3>2
  <2>9. MarkKept
    BY <1>12, <1>c DEF TakeIn, StartBatch, batchVars, MarkKept, BatchTypeOK
  <2> HIDE DEF m, filled
  <2>10. SeenKept /\ Fresh' = Fresh
    BY <2>4, SameFresh DEF SeenKept
  <2>11. /\ cancelled' \subseteq cancelled \cup {m} /\ m \notin cancelled'
         /\ page' \subseteq page
         /\ Fresh' \subseteq Fresh \ {m}
    BY <2>3, <2>4, <2>10
  <2>12. "PROCESSING" \notin {"COMPOSING", "PENDING", "SENT", "DELETING"}
    OBVIOUS
  <2>13. state' = [state EXCEPT ![m] = "PROCESSING"] /\ UNCHANGED row
    BY <2>2, <2>4
  <2>14. QED
    BY <1>a, <2>1, <2>8, <2>9, <2>10, <2>11, <2>12, <2>13, Moving
<1>13. ASSUME NEW p \in Process, TakeInFails(p)
       PROVE  Inv'
  <2> DEFINE m == job[p]
  <2>1. m \in Message
    BY <1>13, <1>c DEF TakeInFails, LoopTypeOK
  <2> HIDE DEF m
  <2>2. UNCHANGED <<row, page, cancelled, bpc, current, cpc, seen, buffer, batch, spc>>
    BY <1>13 DEF TakeInFails, sendVars, clientVars, batchVars
  <2>3. Custody' = Custody /\ Fresh' = Fresh /\ MarkKept /\ SeenKept /\ SeenInv'
    BY <1>b, <2>2, SameCustody, SameFresh DEF MarkKept, SeenKept, SeenInv
  <2>4. CASE state' = state
    BY <1>a, <2>2, <2>3, <2>4, Quietly
  <2>5. CASE state[m] = "PENDING" /\ state' = [state EXCEPT ![m] = "PROCESSING"]
    <3>1. m \notin cancelled /\ m \notin Fresh
      BY <1>b, <2>1, <2>5 DEF FreshInv, CancelInv
    <3>2. QED
      BY <1>a, <2>1, <2>2, <2>3, <2>5, <3>1, Moving, ZenonT(60)
  <2>6. QED
    BY <1>13, <2>4, <2>5 DEF TakeInFails, TryMove, CanMove, Matches, m
<1>14. ASSUME NEW p \in Process, Reread(p)
       PROVE  Inv'
  <2>1. UNCHANGED <<state, cancelled>> /\ page' \subseteq page
    BY <1>14 DEF Reread, sendVars, clientVars, batchVars
  <2>2. UNCHANGED row
    BY <1>14 DEF Reread, sendVars, clientVars, batchVars
  <2>3. Custody' \subseteq Custody
    BY <1>14, SameCustody DEF Reread, sendVars, clientVars, batchVars
  <2>4. Fresh' \subseteq Fresh
    BY <1>14, SameFresh DEF Reread, sendVars, clientVars, batchVars
  <2>5. MarkKept
    BY <1>14, <1>c DEF Reread, sendVars, clientVars, batchVars, MarkKept, BatchTypeOK
  <2>6. SeenInv'
    BY <1>14, <1>b, <1>c DEF Reread, sendVars, clientVars, batchVars, SeenInv,
      ClientTypeOK
  <2>7. QED
    BY <1>a, <2>1, <2>2, <2>3, <2>4, <2>5, <2>6, Quietly
<1>15. ASSUME NEW p \in Process, LoopBatchDone(p)
       PROVE  Inv'
  <2>1. UNCHANGED <<state, cancelled>> /\ page' \subseteq page
    BY <1>15 DEF LoopBatchDone, sendVars, clientVars, batchVars
  <2>2. UNCHANGED row
    BY <1>15 DEF LoopBatchDone, sendVars, clientVars, batchVars
  <2>3. Custody' \subseteq Custody
    BY <1>15, SameCustody DEF LoopBatchDone, sendVars, clientVars, batchVars
  <2>4. Fresh' \subseteq Fresh
    BY <1>15, SameFresh DEF LoopBatchDone, sendVars, clientVars, batchVars
  <2>5. MarkKept
    BY <1>15, <1>c DEF LoopBatchDone, sendVars, clientVars, batchVars, MarkKept,
      BatchTypeOK
  <2>6. SeenInv'
    BY <1>15, <1>b, <1>c DEF LoopBatchDone, sendVars, clientVars, batchVars, SeenInv,
      ClientTypeOK
  <2>7. QED
    BY <1>a, <2>1, <2>2, <2>3, <2>4, <2>5, <2>6, Quietly
<1>16. ASSUME NEW p \in Process, SoftDelete(p)
       PROVE  Inv'
  <2>1. UNCHANGED <<state, cancelled>> /\ page' \subseteq page
    BY <1>16 DEF SoftDelete, sendVars, clientVars, batchVars
  <2>2. \A m \in Message : row'[m] = "none" <=> row[m] = "none"
    BY <1>16, <1>c DEF SoftDelete, Found, StoreTypeOK
  <2>3. Custody' \subseteq Custody
    BY <1>16, SameCustody DEF SoftDelete, sendVars, clientVars, batchVars
  <2>4. Fresh' \subseteq Fresh
    BY <1>16, SameFresh DEF SoftDelete, sendVars, clientVars, batchVars
  <2>5. MarkKept
    BY <1>16, <1>c DEF SoftDelete, sendVars, clientVars, batchVars, MarkKept, BatchTypeOK
  <2>6. SeenInv'
    BY <1>16, <1>b, <1>c DEF SoftDelete, sendVars, clientVars, batchVars, SeenInv,
      ClientTypeOK
  <2>7. QED
    BY <1>a, <2>1, <2>2, <2>3, <2>4, <2>5, <2>6, Quietly
<1>17. ASSUME NEW p \in Process, SoftDeleteFails(p)
       PROVE  Inv'
  <2>1. UNCHANGED <<state, cancelled>> /\ page' \subseteq page
    BY <1>17 DEF SoftDeleteFails, sendVars, clientVars, batchVars
  <2>2. UNCHANGED row
    BY <1>17 DEF SoftDeleteFails, sendVars, clientVars, batchVars
  <2>3. Custody' \subseteq Custody
    BY <1>17, SameCustody DEF SoftDeleteFails, sendVars, clientVars, batchVars
  <2>4. Fresh' \subseteq Fresh
    BY <1>17, SameFresh DEF SoftDeleteFails, sendVars, clientVars, batchVars
  <2>5. MarkKept
    BY <1>17, <1>c DEF SoftDeleteFails, sendVars, clientVars, batchVars, MarkKept,
      BatchTypeOK
  <2>6. SeenInv'
    BY <1>17, <1>b, <1>c DEF SoftDeleteFails, sendVars, clientVars, batchVars, SeenInv,
      ClientTypeOK
  <2>7. QED
    BY <1>a, <2>1, <2>2, <2>3, <2>4, <2>5, <2>6, Quietly
<1>18. ASSUME NEW p \in Process, Ack(p)
       PROVE  Inv'
  <2>1. UNCHANGED <<state, cancelled>> /\ page' \subseteq page
    BY <1>18 DEF Ack, sendVars, clientVars, batchVars
  <2>2. UNCHANGED row
    BY <1>18 DEF Ack, sendVars, clientVars, batchVars
  <2>3. Custody' \subseteq Custody
    BY <1>18, SameCustody DEF Ack, sendVars, clientVars, batchVars
  <2>4. Fresh' \subseteq Fresh
    BY <1>18, SameFresh DEF Ack, sendVars, clientVars, batchVars
  <2>5. MarkKept
    BY <1>18, <1>c DEF Ack, sendVars, clientVars, batchVars, MarkKept, BatchTypeOK
  <2>6. SeenInv'
    BY <1>18, <1>b, <1>c DEF Ack, sendVars, clientVars, batchVars, SeenInv, ClientTypeOK
  <2>7. QED
    BY <1>a, <2>1, <2>2, <2>3, <2>4, <2>5, <2>6, Quietly
<1>19. ASSUME NEW p \in Process, Nack(p)
       PROVE  Inv'
  <2>1. UNCHANGED <<state, cancelled>> /\ page' \subseteq page
    BY <1>19 DEF Nack, sendVars, clientVars, batchVars
  <2>2. UNCHANGED row
    BY <1>19 DEF Nack, sendVars, clientVars, batchVars
  <2>3. Custody' \subseteq Custody
    BY <1>19, SameCustody DEF Nack, sendVars, clientVars, batchVars
  <2>4. Fresh' \subseteq Fresh
    BY <1>19, SameFresh DEF Nack, sendVars, clientVars, batchVars
  <2>5. MarkKept
    BY <1>19, <1>c DEF Nack, sendVars, clientVars, batchVars, MarkKept, BatchTypeOK
  <2>6. SeenInv'
    BY <1>19, <1>b, <1>c DEF Nack, sendVars, clientVars, batchVars, SeenInv, ClientTypeOK
  <2>7. QED
    BY <1>a, <2>1, <2>2, <2>3, <2>4, <2>5, <2>6, Quietly
<1>20. ASSUME NEW p \in Process, TimerBatch(p)
       PROVE  Inv'
  <2>1. UNCHANGED <<state, cancelled>> /\ page' \subseteq page
    BY <1>20 DEF TimerBatch, sendVars, clientVars
  <2>2. UNCHANGED row
    BY <1>20 DEF TimerBatch, sendVars, clientVars
  <2>3. Custody' \subseteq Custody
    <3>1. buffer[p] \in Seq(Message) /\ {buffer[p][i] : i \in DOMAIN buffer[p]} \subseteq Message
      BY <1>c DEF LoopTypeOK
    <3>2. {buffer[p][i] : i \in DOMAIN buffer[p]} \subseteq Custody \cup {}
      BY <3>1 DEF Custody, InCustody, BufferSet
    <3>3. <<p, "timer">> \in Batcher
      BY DEF Batcher
    <3>4. /\ StartBatch(<<p, "timer">>, buffer[p])
          /\ buffer' = [buffer EXCEPT ![p] = RestOf(buffer[p])]
      BY <1>20 DEF TimerBatch
    <3>5. Custody' \subseteq Custody \cup {}
      BY <1>c, <3>1, <3>2, <3>3, <3>4, CustodyPassed
    <3>6. QED
      BY <3>5
  <2>4. Fresh' \subseteq Fresh
    BY <1>20, SameFresh DEF TimerBatch, sendVars, clientVars
  <2>5. MarkKept
    BY <1>20, <1>c DEF TimerBatch, StartBatch, MarkKept, BatchTypeOK
  <2>6. SeenInv'
    BY <1>20, <1>b, <1>c DEF TimerBatch, sendVars, clientVars, SeenInv, ClientTypeOK
  <2>7. QED
    BY <1>a, <2>1, <2>2, <2>3, <2>4, <2>5, <2>6, Quietly
<1>21. ASSUME NEW p \in Process, Crash(p)
       PROVE  Inv'
  <2>1. UNCHANGED <<state, cancelled>> /\ page' \subseteq page
    BY <1>21 DEF Crash, sendVars, clientVars
  <2>2. UNCHANGED row
    BY <1>21 DEF Crash, sendVars, clientVars
  <2>3. Custody' \subseteq Custody
    <3>1. \A q \in Process : BufferSet(q)' \subseteq BufferSet(q)
      BY <1>21, <1>c DEF Crash, BufferSet, LoopTypeOK
    <3>2. \A b \in Batcher : batch'[b] \subseteq batch[b]
      BY <1>21, <1>c DEF Crash, BatchTypeOK
    <3>3. QED
      BY <3>1, <3>2, LessCustody
  <2>4. Fresh' \subseteq Fresh
    BY <1>21, SameFresh DEF Crash, sendVars, clientVars
  <2>5. MarkKept
    BY <1>21, <1>c DEF Crash, sendVars, clientVars, MarkKept, BatchTypeOK
  <2>6. SeenInv'
    BY <1>21, <1>b, <1>c DEF Crash, sendVars, clientVars, SeenInv, ClientTypeOK
  <2>7. QED
    BY <1>a, <2>1, <2>2, <2>3, <2>4, <2>5, <2>6, Quietly
<1>22. ASSUME NEW b \in Batcher, NEW g \in Room, Acquire(b, g)
       PROVE  Inv'
  <2>1. UNCHANGED <<state, cancelled>> /\ page' \subseteq page
    BY <1>22 DEF Acquire, sendVars, clientVars, loopVars
  <2>2. UNCHANGED row
    BY <1>22 DEF Acquire, sendVars, clientVars, loopVars
  <2>3. Custody' \subseteq Custody
    BY <1>22, SameCustody DEF Acquire, sendVars, clientVars, loopVars
  <2>4. Fresh' \subseteq Fresh
    BY <1>22, SameFresh DEF Acquire, sendVars, clientVars, loopVars
  <2>5. MarkKept
    BY <1>22, <1>c DEF Acquire, sendVars, clientVars, loopVars, MarkKept, BatchTypeOK
  <2>6. SeenInv'
    BY <1>22, <1>b, <1>c DEF Acquire, sendVars, clientVars, loopVars, SeenInv,
      ClientTypeOK
  <2>7. QED
    BY <1>a, <2>1, <2>2, <2>3, <2>4, <2>5, <2>6, Quietly
<1>23. ASSUME NEW b \in Batcher, NEW g \in Room, AcquireTimeout(b, g)
       PROVE  Inv'
  <2>1. UNCHANGED <<state, cancelled>> /\ page' \subseteq page
    BY <1>23 DEF AcquireTimeout, sendVars, clientVars
  <2>2. UNCHANGED row
    BY <1>23 DEF AcquireTimeout, sendVars, clientVars
  <2>3. Custody' \subseteq Custody
    <3>1. /\ \A q \in Process : BufferSet(q)' \subseteq BufferSet(q)
          /\ \A a \in Batcher : batch'[a] \subseteq batch[a]
      BY <1>23, <1>c DEF AcquireTimeout, NextRoom, GroupOf, BufferSet, loopVars,
        BatchTypeOK
    <3>2. QED
      BY <3>1, LessCustody
  <2>4. Fresh' \subseteq Fresh
    BY <1>23, SameFresh DEF AcquireTimeout, sendVars, clientVars
  <2>5. MarkKept
    BY <1>23, <1>c DEF AcquireTimeout, NextRoom, MarkKept, BatchTypeOK
  <2>6. SeenInv'
    BY <1>23, <1>b, <1>c DEF AcquireTimeout, sendVars, clientVars, SeenInv, ClientTypeOK
  <2>7. QED
    BY <1>a, <2>1, <2>2, <2>3, <2>4, <2>5, <2>6, Quietly
<1>24. ASSUME NEW b \in Batcher, NEW m \in Message, Save(b, m)
       PROVE  Inv'
  <2>1. m \in Custody
    BY <1>24 DEF Save, IsNext, Earliest, GroupOf, Custody, InCustody
  <2>2. UNCHANGED <<state, page, cancelled, cpc, seen, spc>>
    BY <1>24 DEF Save, sendVars, clientVars
  <2>3. Custody' \subseteq Custody
    <3>1. /\ \A q \in Process : BufferSet(q)' \subseteq BufferSet(q)
          /\ \A a \in Batcher : batch'[a] \subseteq batch[a]
      BY <1>24, <1>c DEF Save, Drop, BufferSet, loopVars, BatchTypeOK
    <3>2. QED
      BY <3>1, LessCustody
  <2>4. Fresh' = Fresh /\ SeenInv'
    BY <1>b, <2>2, SameFresh DEF SeenInv
  <2>5. row' = [row EXCEPT ![m] = "stored"]
    BY <1>24 DEF Save
  <2>6. \A a \in Batcher :
          bpc'[a] = "mark" => (bpc[a] = "mark" /\ current'[a] = current[a]) \/ current'[a] = m
    BY <1>24, <1>c DEF Save, BatchTypeOK
  <2>7. QED
    BY <1>a, <2>1, <2>2, <2>3, <2>4, <2>5, <2>6, Storing
<1>25. ASSUME NEW b \in Batcher, NEW m \in Message, SaveRaises(b, m)
       PROVE  Inv'
  <2>1. m \in Custody
    BY <1>25 DEF SaveRaises, IsNext, Earliest, GroupOf, Custody, InCustody
  <2>2. UNCHANGED <<state, page, cancelled, cpc, seen, spc>>
    BY <1>25 DEF SaveRaises, sendVars, clientVars
  <2>3. Custody' \subseteq Custody
    <3>1. /\ \A q \in Process : BufferSet(q)' \subseteq BufferSet(q)
          /\ \A a \in Batcher : batch'[a] \subseteq batch[a]
      BY <1>25, <1>c DEF SaveRaises, Drop, BufferSet, loopVars, BatchTypeOK
    <3>2. QED
      BY <3>1, LessCustody
  <2>4. Fresh' = Fresh /\ SeenInv'
    BY <1>b, <2>2, SameFresh DEF SeenInv
  <2>5. MarkKept
    BY <1>25 DEF SaveRaises, MarkKept
  <2>6. CASE UNCHANGED row
    BY <1>a, <2>2, <2>3, <2>4, <2>5, <2>6, Quietly
  <2>7. CASE row' = [row EXCEPT ![m] = "stored"]
    BY <1>a, <2>1, <2>2, <2>3, <2>4, <2>5, <2>7, Storing DEF MarkKept
  <2>8. QED
    BY <1>25, <2>6, <2>7 DEF SaveRaises
<1>26. ASSUME NEW b \in Batcher, MarkSent(b)
       PROVE  Inv'
  <2> DEFINE m == current[b]
  <2>1. m \in Message /\ row[m] # "none"
    BY <1>26, <1>b, <1>c DEF MarkSent, BatchTypeOK, RowInv
  <2>2. UNCHANGED <<row, page, cancelled, cpc, seen, spc>>
    BY <1>26 DEF MarkSent, sendVars, clientVars
  <2>3. Custody' \subseteq Custody
    <3>1. /\ \A q \in Process : BufferSet(q)' \subseteq BufferSet(q)
          /\ \A a \in Batcher : batch'[a] \subseteq batch[a]
      BY <1>26, <1>c DEF MarkSent, Drop, BufferSet, loopVars, BatchTypeOK
    <3>2. QED
      BY <3>1, LessCustody
  <2>4. MarkKept
    BY <1>26, <1>c DEF MarkSent, MarkKept, BatchTypeOK
  <2>5. Fresh' = Fresh /\ SeenKept /\ SeenInv'
    BY <1>b, <2>2, SameFresh DEF SeenKept, SeenInv
  <2>6. CASE state' = state
    BY <1>a, <2>2, <2>3, <2>4, <2>5, <2>6, Quietly
  <2>7. CASE state[m] = "PROCESSING" /\ state' = [state EXCEPT ![m] = "SENT"]
    <3>1. m \notin cancelled /\ m \notin Fresh
      BY <1>b, <2>1, <2>7 DEF FreshInv, CancelInv
    <3> HIDE DEF m
    <3>2. QED
      BY <1>a, <2>1, <2>2, <2>3, <2>4, <2>5, <2>7, <3>1, Moving, ZenonT(60)
  <2>8. QED
    BY <1>26, <2>6, <2>7 DEF MarkSent, TryMove, CanMove, Matches
<1>27. ASSUME NEW b \in Batcher, Release(b)
       PROVE  Inv'
  <2>1. UNCHANGED <<state, cancelled>> /\ page' \subseteq page
    BY <1>27 DEF Release, sendVars, clientVars
  <2>2. UNCHANGED row
    BY <1>27 DEF Release, sendVars, clientVars
  <2>3. Custody' \subseteq Custody
    <3>1. /\ \A q \in Process : BufferSet(q)' \subseteq BufferSet(q)
          /\ \A a \in Batcher : batch'[a] \subseteq batch[a]
      BY <1>27, <1>c DEF Release, NextRoom, BufferSet, loopVars, BatchTypeOK
    <3>2. QED
      BY <3>1, LessCustody
  <2>4. Fresh' \subseteq Fresh
    BY <1>27, SameFresh DEF Release, sendVars, clientVars
  <2>5. MarkKept
    BY <1>27, <1>c DEF Release, NextRoom, MarkKept, BatchTypeOK
  <2>6. SeenInv'
    BY <1>27, <1>b, <1>c DEF Release, sendVars, clientVars, SeenInv, ClientTypeOK
  <2>7. QED
    BY <1>a, <2>1, <2>2, <2>3, <2>4, <2>5, <2>6, Quietly
<1>28. ASSUME NEW g \in Room, LeaseEnds(g)
       PROVE  Inv'
  <2>1. UNCHANGED <<state, cancelled>> /\ page' \subseteq page
    BY <1>28 DEF LeaseEnds, sendVars, clientVars, loopVars, batchVars
  <2>2. UNCHANGED row
    BY <1>28 DEF LeaseEnds, sendVars, clientVars, loopVars, batchVars
  <2>3. Custody' \subseteq Custody
    BY <1>28, SameCustody DEF LeaseEnds, sendVars, clientVars, loopVars, batchVars
  <2>4. Fresh' \subseteq Fresh
    BY <1>28, SameFresh DEF LeaseEnds, sendVars, clientVars, loopVars, batchVars
  <2>5. MarkKept
    BY <1>28, <1>c DEF LeaseEnds, sendVars, clientVars, loopVars, batchVars, MarkKept,
      BatchTypeOK
  <2>6. SeenInv'
    BY <1>28, <1>b, <1>c DEF LeaseEnds, sendVars, clientVars, loopVars, batchVars,
      SeenInv, ClientTypeOK
  <2>7. QED
    BY <1>a, <2>1, <2>2, <2>3, <2>4, <2>5, <2>6, Quietly
<1>29. ASSUME NEW m \in Message, ListRead(m)
       PROVE  Inv'
  <2>1. page' = page \cup {m} /\ row[m] # "none"
    BY <1>29 DEF ListRead, Found
  <2>2. UNCHANGED <<state, row, spc, cpc, seen, buffer, bpc, batch, current, cancelled>>
    BY <1>29 DEF ListRead, sendVars, clientVars, loopVars, batchVars
  <2>3. Custody' = Custody /\ Fresh' = Fresh
    BY <2>2, SameCustody, SameFresh
  <2>4. FreshInv' /\ EarlyInv' /\ SeenInv' /\ CancelInv' /\ SentIsStored'
    BY <1>b, <2>2, <2>3 DEF FreshInv, EarlyInv, SeenInv, CancelInv, SentIsStored
  <2>5. RowInv'
    BY <1>b, <2>1, <2>2 DEF RowInv
  <2>6. QED
    BY <2>4, <2>5 DEF Inv
<1>30. ASSUME NEW m \in Message, ListRestore(m)
       PROVE  Inv'
  <2>1. UNCHANGED <<row, spc, cpc, seen, buffer, bpc, batch, current, cancelled>>
    BY <1>30 DEF ListRestore, sendVars, clientVars, loopVars, batchVars
  <2>2. Custody' = Custody /\ Fresh' = Fresh /\ MarkKept /\ SeenKept /\ SeenInv'
    BY <1>b, <2>1, SameCustody, SameFresh DEF MarkKept, SeenKept, SeenInv
  <2>3. page' \subseteq page /\ row[m] # "none"
    BY <1>30, <1>b DEF ListRestore, RowInv
  <2>4. m \notin cancelled /\ m \notin Fresh
    BY <1>b, <2>3 DEF FreshInv, CancelInv
  <2>5. CASE state' = state
    BY <1>a, <2>1, <2>2, <2>3, <2>5, Quietly
  <2>6. CASE state' = [state EXCEPT ![m] = "SENT"]
    BY <1>a, <2>1, <2>2, <2>3, <2>4, <2>6, Moving, ZenonT(60)
  <2>7. QED
    BY <1>30, <2>5, <2>6 DEF ListRestore, TryMove
<1>31. ASSUME NEW m \in Message, Expire(m)
       PROVE  Inv'
  <2>1. UNCHANGED <<row, page, spc, cpc, seen, buffer, bpc, batch, current, cancelled>>
    BY <1>31 DEF Expire, sendVars, clientVars, loopVars, batchVars
  <2>2. Custody' = Custody /\ Fresh' = Fresh /\ MarkKept /\ SeenKept
    BY <2>1, SameCustody, SameFresh DEF MarkKept, SeenKept
  <2>3. state[m] # "none" /\ state' = [state EXCEPT ![m] = "none"]
    BY <1>31 DEF Expire
  <2>4. m \notin Fresh /\ (m \in cancelled => row[m] = "none" /\ m \notin Custody)
    BY <1>b, <2>3 DEF FreshInv, CancelInv
  <2>5. QED
    BY <1>a, <2>1, <2>2, <2>3, <2>4, Moving, ZenonT(60)
<1>32. CASE UNCHANGED vars
  <2>1. UNCHANGED <<state, row, page, spc, cpc, seen, buffer, bpc, batch, current, cancelled>>
    BY <1>32 DEF vars, sendVars, clientVars, loopVars, batchVars
  <2>2. Custody' = Custody /\ Fresh' = Fresh /\ MarkKept /\ SeenInv'
    BY <1>b, <2>1, SameCustody, SameFresh DEF MarkKept, SeenInv
  <2>3. QED
    BY <1>a, <2>1, <2>2, Quietly
<1>33. QED
  BY <1>1, <1>2, <1>3, <1>4, <1>5, <1>6, <1>7, <1>8, <1>9, <1>10, <1>11, <1>12, <1>13,
    <1>14, <1>15, <1>16, <1>17, <1>18, <1>19, <1>20, <1>21, <1>22, <1>23, <1>24, <1>25,
    <1>26, <1>27, <1>28, <1>29, <1>30, <1>31, <1>32 DEF Next, SendRuns, DeleteRuns,
    LoopRuns, BatchRuns

THEOREM Invariant == Spec => []Inv
<1>1. QED
  BY InitTypes, StepTypes, InitInv, InvStep, PTL DEF Spec

\* A message counts as sent, or as being deleted, only when it is stored.
THEOREM SentStored == Spec => []SentIsStored
<1>1. Inv => SentIsStored
  BY DEF Inv
<1>2. QED
  BY <1>1, Invariant, PTL

\* A message deleted before it was processed is never saved.
THEOREM NeverStored == Spec => []CancelledNeverStored
<1>1. TypeOK /\ Inv => CancelledNeverStored
  BY DEF Inv, CancelInv, CancelledNeverStored, Custody, TypeOK, StoreTypeOK
<1>2. QED
  BY <1>1, TypeCorrect, Invariant, PTL

-----------------------------------------------------------------------------
(* Every state change is legal                                             *)

LEMMA MovesLegally ==
  ASSUME TypeOK, NEW m \in Message, NEW from, NEW to, TryMove(m, from, to),
         from # "none" \/ to \in {"COMPOSING", "SENT"}
  PROVE  LegalMove
<1>1. state \in [Message -> MessageState]
  BY DEF TypeOK, StoreTypeOK
<1>2. CASE state' = state
  BY <1>2 DEF LegalMove
<1>3. CASE CanMove(m, from, to) /\ state' = [state EXCEPT ![m] = to]
  <2>1. state'[m] = to /\ \A n \in Message \ {m} : state'[n] = state[n]
    BY <1>1, <1>3
  <2>2. state[m] = from /\ (from = "none" \/ to \in Successors(from))
    BY <1>3 DEF CanMove, Permitted, Matches
  <2>3. QED
    BY <2>1, <2>2 DEF LegalMove
<1>4. QED
  BY <1>2, <1>3 DEF TryMove

LEMMA StepLegal == TypeOK /\ Inv /\ [Next]_vars => [LegalMove]_vars
<1> SUFFICES ASSUME TypeOK, Inv, Next PROVE LegalMove
  OBVIOUS
<1>c. ClientTypeOK /\ LoopTypeOK /\ BatchTypeOK /\ SeenInv
  BY DEF TypeOK, Inv
<1>1. CASE UNCHANGED state
  BY <1>1 DEF LegalMove
<1>2. ASSUME NEW r \in Request, NEW k \in Part, Compose(r, k) \/ Pend(r, k)
      PROVE  LegalMove
  BY <1>2, MovesLegally DEF Compose, Pend, Message
<1>3. ASSUME NEW r \in Request, ReplyFails(r) PROVE LegalMove
  <2>1. <<r, "ai">> \in Message
    BY DEF Message, Part
  <2>2. QED
    BY <1>3, <2>1, MovesLegally DEF ReplyFails
<1>4. ASSUME NEW c \in Client, SmartCas(c) PROVE LegalMove
  <2>1. target[c] \in Message /\ seen[c] # "none"
    BY <1>4, <1>c DEF SmartCas, ClientTypeOK, SeenInv
  <2>2. TryMove(target[c], seen[c], SmartTarget(seen[c]))
    BY <1>4 DEF SmartCas
  <2>3. QED
    BY <2>1, <2>2, MovesLegally
<1>5. ASSUME NEW p \in Process, TakeIn(p) \/ TakeInFails(p) PROVE LegalMove
  <2>1. job[p] \in Message
    BY <1>5, <1>c DEF TakeIn, TakeInFails, LoopTypeOK
  <2>2. UNCHANGED state \/ TryMove(job[p], "PENDING", "PROCESSING")
    BY <1>5 DEF TakeIn, TakeInFails
  <2>3. QED
    BY <1>1, <2>1, <2>2, MovesLegally
<1>6. ASSUME NEW b \in Batcher, MarkSent(b) PROVE LegalMove
  <2>1. current[b] \in Message
    BY <1>6, <1>c DEF MarkSent, BatchTypeOK
  <2>2. UNCHANGED state \/ TryMove(current[b], "PROCESSING", "SENT")
    BY <1>6 DEF MarkSent
  <2>3. QED
    BY <1>1, <2>1, <2>2, MovesLegally
<1>7. ASSUME NEW m \in Message, ListRestore(m) PROVE LegalMove
  BY <1>1, <1>7, MovesLegally DEF ListRestore
<1>8. ASSUME NEW m \in Message, Expire(m) PROVE LegalMove
  BY <1>8 DEF Expire, LegalMove
<1>9. ASSUME NEW r \in Request,
             (\E k \in Part : QueueSave(r, k)) \/ Reply(r) \/ SendStepFails(r)
      PROVE  UNCHANGED state
  BY <1>9 DEF QueueSave, Reply, SendStepFails
<1>10. ASSUME NEW c \in Client,
              QueueDelete(c) \/ DeleteStepFails(c) \/ \E m \in Message : SmartRead(c, m)
       PROVE  UNCHANGED state
  BY <1>10 DEF QueueDelete, DeleteStepFails, SmartRead
<1>11. ASSUME NEW p \in Process,
              \/ Receive(p) \/ Reread(p) \/ LoopBatchDone(p) \/ SoftDelete(p) \/ Ack(p)
              \/ Nack(p) \/ SoftDeleteFails(p) \/ TimerBatch(p) \/ Crash(p)
       PROVE  UNCHANGED state
  BY <1>11 DEF Receive, Reread, LoopBatchDone, SoftDelete, Ack, Nack, SoftDeleteFails,
       TimerBatch, Crash
<1>12. ASSUME NEW b \in Batcher,
              \/ \E g \in Room : Acquire(b, g) \/ AcquireTimeout(b, g)
              \/ \E m \in Message : Save(b, m) \/ SaveRaises(b, m)
              \/ Release(b)
       PROVE  UNCHANGED state
  BY <1>12 DEF Acquire, AcquireTimeout, Save, SaveRaises, Release
<1>13. ASSUME (\E g \in Room : LeaseEnds(g)) \/ (\E m \in Message : ListRead(m))
       PROVE  UNCHANGED state
  BY <1>13 DEF LeaseEnds, ListRead
<1>14. QED
  BY <1>1, <1>2, <1>3, <1>4, <1>5, <1>6, <1>7, <1>8, <1>9, <1>10, <1>11, <1>12, <1>13
     DEF Next, SendRuns, DeleteRuns, LoopRuns, BatchRuns

\* Whoever moves a message, its state follows message_transitions.
THEOREM Lifecycle == Spec => LifecycleRespected
<1>1. QED
  BY TypeCorrect, Invariant, StepLegal, PTL DEF Spec, LifecycleRespected

-----------------------------------------------------------------------------
(* A message is in one buffer or batch                                     *)

Distinct(s) == \A i, j \in DOMAIN s : s[i] = s[j] => i = j

\* TakenOnce, by the sets of messages that are held.
OnceInv ==
    /\ \A p \in Process : Distinct(buffer[p])
    /\ \A p, q \in Process : p # q => BufferSet(p) \cap BufferSet(q) = {}
    /\ \A b, c \in Batcher : b # c => batch[b] \cap batch[c] = {}
    /\ \A p \in Process, b \in Batcher : BufferSet(p) \cap batch[b] = {}

LEMMA OnceInvMeans == TypeOK /\ OnceInv => TakenOnce
<1> SUFFICES ASSUME TypeOK, OnceInv, NEW m \in Message
             PROVE  /\ \A p, q \in Process : \A i \in DOMAIN buffer[p], j \in DOMAIN buffer[q] :
                         buffer[p][i] = m /\ buffer[q][j] = m => p = q /\ i = j
                    /\ \A b, c \in Batcher : m \in batch[b] /\ m \in batch[c] => b = c
                    /\ \A p \in Process, b \in Batcher : ~ (m \in BufferSet(p) /\ m \in batch[b])
  BY DEF TakenOnce
<1>1. ASSUME NEW p \in Process, NEW q \in Process, NEW i \in DOMAIN buffer[p],
             NEW j \in DOMAIN buffer[q], buffer[p][i] = m, buffer[q][j] = m
      PROVE  p = q /\ i = j
  <2>1. m \in BufferSet(p) \cap BufferSet(q)
    BY <1>1 DEF BufferSet
  <2>2. QED
    BY <1>1, <2>1 DEF OnceInv, Distinct
<1>2. QED
  BY <1>1 DEF OnceInv

\* The two parts of a buffer without repetitions.
LEMMA DistinctParts ==
  ASSUME NEW s \in Seq(Message), Distinct(s)
  PROVE  /\ Distinct(RestOf(s))
         /\ FirstBatch(s) \cap {RestOf(s)[i] : i \in DOMAIN RestOf(s)} = {}
<1>1. /\ BatchLength(s) \in Nat /\ BatchLength(s) <= Len(s)
      /\ DOMAIN s = 1..Len(s) /\ Len(s) \in Nat
  BY ChatAssumption DEF BatchLength
<1>2. /\ DOMAIN RestOf(s) = 1 .. Len(s) - BatchLength(s)
      /\ \A i \in 1 .. Len(s) - BatchLength(s) : RestOf(s)[i] = s[BatchLength(s) + i]
  BY Slices
<1>3. \A i \in DOMAIN RestOf(s) : BatchLength(s) + i \in DOMAIN s
  BY <1>1, <1>2
<1>4. Distinct(RestOf(s))
  <2> SUFFICES ASSUME NEW i \in DOMAIN RestOf(s), NEW j \in DOMAIN RestOf(s),
                      RestOf(s)[i] = RestOf(s)[j]
               PROVE  i = j
    BY DEF Distinct
  <2>1. BatchLength(s) + i = BatchLength(s) + j
    BY <1>2, <1>3 DEF Distinct
  <2>2. i \in Nat /\ j \in Nat
    BY <1>1, <1>2
  <2>3. QED
    BY <1>1, <2>1, <2>2
<1>5. FirstBatch(s) \cap {RestOf(s)[i] : i \in DOMAIN RestOf(s)} = {}
  <2> SUFFICES ASSUME NEW i \in 1..BatchLength(s), NEW j \in DOMAIN RestOf(s),
                      s[i] = RestOf(s)[j]
               PROVE  FALSE
    BY DEF FirstBatch
  <2>1. i \in DOMAIN s
    BY <1>1
  <2>2. i = BatchLength(s) + j
    BY <1>2, <1>3, <2>1 DEF Distinct
  <2>3. j \in Nat /\ j >= 1
    BY <1>1, <1>2
  <2>4. QED
    BY <1>1, <2>2, <2>3
<1>6. QED
  BY <1>4, <1>5

\* A batch takes the front of a buffer whose messages nobody else holds.
LEMMA OncePassed ==
  ASSUME BatchTypeOK, LoopTypeOK, OnceInv, NEW p \in Process, NEW b \in Batcher,
         NEW s \in Seq(Message), Distinct(s),
         \A q \in Process \ {p} : {s[i] : i \in DOMAIN s} \cap BufferSet(q) = {},
         \A a \in Batcher : {s[i] : i \in DOMAIN s} \cap batch[a] = {},
         StartBatch(b, s), buffer' = [buffer EXCEPT ![p] = RestOf(s)]
  PROVE  OnceInv'
<1>1. batch'[b] = FirstBatch(s) /\ \A a \in Batcher \ {b} : batch'[a] = batch[a]
  BY DEF StartBatch, BatchTypeOK
<1>2. buffer'[p] = RestOf(s) /\ \A q \in Process \ {p} : buffer'[q] = buffer[q]
  BY DEF LoopTypeOK
<1>3. /\ BufferSet(p)' = {RestOf(s)[i] : i \in DOMAIN RestOf(s)}
      /\ \A q \in Process \ {p} : BufferSet(q)' = BufferSet(q)
  BY <1>2 DEF BufferSet
<1>4. /\ batch'[b] \subseteq {s[i] : i \in DOMAIN s}
      /\ BufferSet(p)' \subseteq {s[i] : i \in DOMAIN s}
      /\ Distinct(RestOf(s)) /\ batch'[b] \cap BufferSet(p)' = {}
  BY <1>1, <1>3, Slices, DistinctParts
<1>5. \A q \in Process : Distinct(buffer'[q])
  BY <1>2, <1>4 DEF OnceInv
<1>6. \A q, r \in Process : q # r => BufferSet(q)' \cap BufferSet(r)' = {}
  BY <1>3, <1>4, SMTT(30) DEF OnceInv
<1>7. \A a, c \in Batcher : a # c => batch'[a] \cap batch'[c] = {}
  BY <1>1, <1>4 DEF OnceInv
<1>8. \A q \in Process, a \in Batcher : BufferSet(q)' \cap batch'[a] = {}
  <2> DEFINE items == {s[i] : i \in DOMAIN s}
  <2>1. /\ \A q \in Process \ {p} : items \cap BufferSet(q) = {}
        /\ \A a \in Batcher : items \cap batch[a] = {}
        /\ batch'[b] \subseteq items /\ BufferSet(p)' \subseteq items
        /\ batch'[b] \cap BufferSet(p)' = {}
    BY <1>4
  <2>2. \A q \in Process, a \in Batcher : BufferSet(q) \cap batch[a] = {}
    BY DEF OnceInv
  <2> HIDE DEF items
  <2> SUFFICES ASSUME NEW q \in Process, NEW a \in Batcher
               PROVE  BufferSet(q)' \cap batch'[a] = {}
    OBVIOUS
  <2>3. CASE q = p
    <3>1. CASE a = b
      BY <2>1, <2>3, <3>1
    <3>2. CASE a # b
      BY <1>1, <2>1, <2>3, <3>2
    <3>3. QED
      BY <3>1, <3>2
  <2>4. CASE q # p
    <3>1. CASE a = b
      BY <1>3, <2>1, <2>4, <3>1
    <3>2. CASE a # b
      BY <1>1, <1>3, <2>2, <2>4, <3>2
    <3>3. QED
      BY <3>1, <3>2
  <2>5. QED
    BY <2>3, <2>4
<1>9. QED
  BY <1>5, <1>6, <1>7, <1>8 DEF OnceInv

LEMMA OnceStep == TypeOK /\ Inv /\ OnceInv /\ [Next]_vars => OnceInv'
<1> SUFFICES ASSUME TypeOK, Inv, OnceInv, [Next]_vars PROVE OnceInv'
  OBVIOUS
<1>c. LoopTypeOK /\ BatchTypeOK /\ EarlyInv
  BY DEF TypeOK, Inv
<1>1. ASSUME \A p \in Process : buffer'[p] = buffer[p] \/ buffer'[p] = <<>>,
             \A b \in Batcher : batch'[b] \subseteq batch[b]
      PROVE  OnceInv'
  <2>1. \A p \in Process : Distinct(buffer'[p]) /\ BufferSet(p)' \subseteq BufferSet(p)
    BY <1>1 DEF OnceInv, Distinct, BufferSet
  <2>2. QED
    BY <1>1, <2>1 DEF OnceInv
<1>2. ASSUME UNCHANGED <<buffer, batch>> PROVE OnceInv'
  BY <1>1, <1>2
<1>3. ASSUME NEW p \in Process, TakeIn(p) PROVE OnceInv'
  <2> DEFINE m == job[p]
             filled == Append(buffer[p], m)
             loop == <<p, "loop">>
  <2>1. m \in Message
    BY <1>3, <1>c DEF TakeIn, LoopTypeOK
  <2>2. /\ \A q \in Process : m \notin BufferSet(q)
        /\ \A a \in Batcher : m \notin batch[a]
    BY <1>3, <1>c, <2>1 DEF TakeIn, CanMove, Matches, EarlyInv, Custody, InCustody
  <2>3. buffer[p] \in Seq(Message)
    BY <1>c DEF LoopTypeOK
  <2>4. /\ Full(filled) =>
             StartBatch(loop, filled) /\ buffer' = [buffer EXCEPT ![p] = RestOf(filled)]
        /\ ~ Full(filled) => batch' = batch /\ buffer' = [buffer EXCEPT ![p] = filled]
    BY <1>3 DEF TakeIn, batchVars
  <2>5. loop \in Batcher
    BY DEF Batcher
  <2> HIDE DEF m, loop
  <2>6. /\ filled \in Seq(Message)
        /\ {filled[i] : i \in DOMAIN filled} = BufferSet(p) \cup {m}
    BY <2>1, <2>3, Appended DEF BufferSet
  <2>7. Distinct(filled)
    <3>1. /\ DOMAIN buffer[p] = 1..Len(buffer[p]) /\ Len(buffer[p]) \in Nat
          /\ DOMAIN filled = 1..Len(buffer[p]) + 1
          /\ \A i \in 1..Len(buffer[p]) : filled[i] = buffer[p][i]
          /\ filled[Len(buffer[p]) + 1] = m
      BY <2>1, <2>3
    <3>2. \A i \in 1..Len(buffer[p]) : buffer[p][i] # m
      BY <2>2, <3>1 DEF BufferSet
    <3>3. Distinct(buffer[p])
      BY DEF OnceInv
    <3>4. \A i \in DOMAIN filled : i \in 1..Len(buffer[p]) \/ i = Len(buffer[p]) + 1
      BY <3>1
    <3> HIDE DEF filled
    <3>5. QED
      BY <3>1, <3>2, <3>3, <3>4 DEF Distinct
  <2> HIDE DEF filled
  <2>8. /\ \A q \in Process \ {p} : {filled[i] : i \in DOMAIN filled} \cap BufferSet(q) = {}
        /\ \A a \in Batcher : {filled[i] : i \in DOMAIN filled} \cap batch[a] = {}
    BY <2>2, <2>6 DEF OnceInv
  <2>9. CASE Full(filled)
    BY <1>c, <2>4, <2>5, <2>6, <2>7, <2>8, <2>9, OncePassed
  <2>10. CASE ~ Full(filled)
    <3>1. /\ buffer'[p] = filled /\ batch' = batch
          /\ \A q \in Process \ {p} : buffer'[q] = buffer[q]
      BY <1>c, <2>4, <2>10 DEF LoopTypeOK
    <3>2. /\ BufferSet(p)' = {filled[i] : i \in DOMAIN filled}
          /\ \A q \in Process \ {p} : BufferSet(q)' = BufferSet(q)
      BY <3>1 DEF BufferSet
    <3>3. \A q \in Process : Distinct(buffer'[q])
      BY <2>7, <3>1 DEF OnceInv
    <3>4. QED
      BY <2>8, <3>1, <3>2, <3>3 DEF OnceInv
  <2>11. QED
    BY <2>9, <2>10
<1>4. ASSUME NEW p \in Process, TimerBatch(p) PROVE OnceInv'
  <2> DEFINE timer == <<p, "timer">>
             s == buffer[p]
  <2>1. timer \in Batcher
    BY DEF Batcher
  <2>2. s \in Seq(Message) /\ {s[i] : i \in DOMAIN s} = BufferSet(p)
    BY <1>c DEF LoopTypeOK, BufferSet
  <2>3. StartBatch(timer, s) /\ buffer' = [buffer EXCEPT ![p] = RestOf(s)]
    BY <1>4 DEF TimerBatch
  <2>4. /\ Distinct(s)
        /\ \A q \in Process \ {p} : {s[i] : i \in DOMAIN s} \cap BufferSet(q) = {}
        /\ \A a \in Batcher : {s[i] : i \in DOMAIN s} \cap batch[a] = {}
    BY <2>2 DEF OnceInv
  <2> HIDE DEF timer, s
  <2>5. QED
    BY <1>c, <2>1, <2>2, <2>3, <2>4, OncePassed
<1>5. ASSUME NEW p \in Process, Crash(p) PROVE OnceInv'
  BY <1>1, <1>5, <1>c DEF Crash, LoopTypeOK, BatchTypeOK
<1>6. ASSUME NEW b \in Batcher, NEW m \in Message,
             Save(b, m) \/ SaveRaises(b, m)
      PROVE  OnceInv'
  BY <1>1, <1>6, <1>c DEF Save, SaveRaises, Drop, loopVars, BatchTypeOK
<1>7. ASSUME NEW b \in Batcher, NEW g \in Room, AcquireTimeout(b, g)
      PROVE  OnceInv'
  BY <1>1, <1>7, <1>c DEF AcquireTimeout, NextRoom, loopVars, BatchTypeOK
<1>8. ASSUME NEW r \in Request, SendRuns(r) \/ SendStepFails(r) PROVE OnceInv'
  BY <1>2, <1>8 DEF SendRuns, SendStepFails, Compose, QueueSave, Pend, Reply, ReplyFails,
       loopVars, batchVars
<1>9. ASSUME NEW c \in Client,
             DeleteRuns(c) \/ DeleteStepFails(c) \/ \E m \in Message : SmartRead(c, m)
      PROVE  OnceInv'
  BY <1>2, <1>9 DEF DeleteRuns, DeleteStepFails, SmartRead, SmartCas, QueueDelete,
       loopVars, batchVars
<1>10. ASSUME NEW p \in Process,
              \/ Receive(p) \/ TakeInFails(p) \/ Reread(p) \/ LoopBatchDone(p)
              \/ SoftDelete(p) \/ SoftDeleteFails(p) \/ Ack(p) \/ Nack(p)
       PROVE  OnceInv'
  BY <1>2, <1>10 DEF Receive, TakeInFails, Reread, LoopBatchDone, SoftDelete,
       SoftDeleteFails, Ack, Nack, batchVars
<1>11. ASSUME NEW b \in Batcher, NEW g \in Room, Acquire(b, g) PROVE OnceInv'
  BY <1>2, <1>11 DEF Acquire, loopVars
<1>12. ASSUME NEW g \in Room, LeaseEnds(g) PROVE OnceInv'
  BY <1>2, <1>12 DEF LeaseEnds, loopVars, batchVars
<1>13. ASSUME NEW m \in Message, ListRead(m) \/ ListRestore(m) \/ Expire(m)
       PROVE  OnceInv'
  BY <1>2, <1>13 DEF ListRead, ListRestore, Expire, loopVars, batchVars
<1>14. CASE UNCHANGED vars
  BY <1>2, <1>14 DEF vars, loopVars, batchVars
<1>15. ASSUME NEW b \in Batcher, MarkSent(b) \/ Release(b) PROVE OnceInv'
  BY <1>1, <1>15, <1>c DEF MarkSent, Release, Drop, NextRoom, loopVars, BatchTypeOK
<1>16. QED
  BY <1>3, <1>4, <1>5, <1>6, <1>7, <1>8, <1>9, <1>10, <1>11, <1>12, <1>13, <1>14, <1>15
     DEF Next, LoopRuns, BatchRuns

\* Two copies of a save job never bring a message into the buffers twice.
THEOREM OnceTaken == Spec => []TakenOnce
<1>1. Init => OnceInv
  BY DEF Init, OnceInv, Distinct, BufferSet
<1>2. QED
  BY <1>1, TypeCorrect, Invariant, OnceStep, OnceInvMeans, PTL DEF Spec

-----------------------------------------------------------------------------
(* The buffers                                                             *)

LEMMA StepBounded == TypeOK /\ BufferBounded /\ [Next]_vars => BufferBounded'
<1> SUFFICES ASSUME TypeOK, BufferBounded, [Next]_vars, NEW p \in Process
             PROVE  Len(buffer'[p]) < BatchSize
  BY DEF BufferBounded
<1>1. /\ \A q \in Process : buffer[q] \in Seq(Message) /\ Len(buffer[q]) < BatchSize
      /\ BatchSize \in Nat \ {0}
  BY ChatAssumption DEF BufferBounded, TypeOK, LoopTypeOK
<1>2. CASE buffer'[p] = buffer[p] \/ buffer'[p] = <<>>
  BY <1>1, <1>2
<1>3. ASSUME NEW q \in Process, TakeIn(q) PROVE Len(buffer'[p]) < BatchSize
  <2> DEFINE filled == Append(buffer[q], job[q])
  <2>1. job[q] \in Message
    BY <1>3 DEF TakeIn, TypeOK, LoopTypeOK
  <2>2. filled \in Seq(Message) /\ Len(filled) = Len(buffer[q]) + 1
    BY <1>1, <2>1
  <2>3. CASE Full(filled)
    <3>1. BatchLength(filled) = Len(filled)
      BY <1>1, <2>2, <2>3 DEF Full, BatchLength
    <3>2. DOMAIN RestOf(filled) = 1..0 /\ RestOf(filled) \in Seq(Message)
      <4> HIDE DEF filled
      <4>1. /\ DOMAIN RestOf(filled) = 1 .. Len(filled) - BatchLength(filled)
            /\ RestOf(filled) \in Seq(Message)
        BY <2>2, Slices
      <4>2. Len(filled) \in Nat /\ Len(filled) - BatchLength(filled) = 0
        BY <2>2, <3>1
      <4>3. QED
        BY <4>1, <4>2
    <3>3. Len(RestOf(filled)) = 0
      BY <3>2
    <3>4. buffer' = [buffer EXCEPT ![q] = RestOf(filled)]
      BY <1>3, <2>3 DEF TakeIn
    <3>5. QED
      BY <1>1, <3>3, <3>4 DEF TypeOK, LoopTypeOK
  <2>4. CASE ~Full(filled)
    <3>1. buffer' = [buffer EXCEPT ![q] = filled]
      BY <1>3, <2>4 DEF TakeIn
    <3>2. Len(filled) < BatchSize
      BY <1>1, <2>2, <2>4 DEF Full
    <3>3. QED
      BY <1>1, <3>1, <3>2 DEF TypeOK, LoopTypeOK
  <2>5. QED
    BY <2>3, <2>4
<1>4. ASSUME NEW q \in Process, TimerBatch(q) PROVE Len(buffer'[p]) < BatchSize
  <2>1. BatchLength(buffer[q]) = Len(buffer[q])
    BY <1>1 DEF BatchLength
  <2>2. DOMAIN RestOf(buffer[q]) = 1..0 /\ RestOf(buffer[q]) \in Seq(Message)
    BY <1>1, <2>1, Slices
  <2>3. Len(RestOf(buffer[q])) = 0
    BY <2>2
  <2>4. QED
    BY <1>1, <1>4, <2>3 DEF TimerBatch, TypeOK, LoopTypeOK
<1>5. ASSUME NEW q \in Process, Crash(q) PROVE Len(buffer'[p]) < BatchSize
  BY <1>2, <1>5 DEF Crash, TypeOK, LoopTypeOK
<1>6. CASE UNCHANGED buffer
  BY <1>2, <1>6
<1>7. QED
  BY <1>3, <1>4, <1>5, <1>6
     DEF Next, SendRuns, SendStepFails, Compose, QueueSave, Pend, Reply, ReplyFails,
         DeleteRuns, DeleteStepFails, SmartCas, QueueDelete, SmartRead, LoopRuns, Receive,
         TakeInFails, Reread, LoopBatchDone, SoftDelete, SoftDeleteFails, Ack, Nack,
         BatchRuns, Acquire, Save, SaveRaises, MarkSent, Release, AcquireTimeout,
         LeaseEnds, ListRead, ListRestore, Expire, vars, loopVars

\* BufferBounded: whatever batches overlap, fail or die, a buffer holds less than a full
\* batch between the steps of its consumer (chat_persistence_consumer.py:412-415).
THEOREM BuffersStayShort == Spec => []BufferBounded
<1>1. Init => BufferBounded
  BY ChatAssumption DEF Init, BufferBounded
<1>2. QED
  BY <1>1, TypeCorrect, StepBounded, PTL DEF Spec

-----------------------------------------------------------------------------
(* Without failures a message being processed is held                      *)

\* The inductive invariant: a message being processed is in a buffer or batch, and the
\* one whose row is written is the one a batch is about to mark.
AllHeld == \A m \in Message : state[m] = "PROCESSING" => InCustody(m)

HeldInv ==
    /\ AllHeld
    /\ \A m \in Message : state[m] = "PROCESSING" /\ row[m] # "none" =>
                             \E b \in Batcher : bpc[b] = "mark" /\ current[b] = m
    /\ \A b \in Batcher : bpc[b] = "mark" => current[b] \in batch[b]
    /\ \A b \in Batcher : bpc[b] = "idle" => batch[b] = {}
    /\ \A p \in Process : hpc[p] # "batching" => bpc[<<p, "loop">>] = "idle"

\* A batch and what it leaves are the buffer.
LEMMA PartsCover ==
  ASSUME NEW s \in Seq(Message)
  PROVE  {s[i] : i \in DOMAIN s} \subseteq FirstBatch(s) \cup {RestOf(s)[i] : i \in DOMAIN RestOf(s)}
<1>1. /\ BatchLength(s) \in Nat /\ BatchLength(s) <= Len(s)
      /\ DOMAIN s = 1..Len(s) /\ Len(s) \in Nat
  BY ChatAssumption DEF BatchLength
<1>2. /\ DOMAIN RestOf(s) = 1 .. Len(s) - BatchLength(s)
      /\ \A i \in 1 .. Len(s) - BatchLength(s) : RestOf(s)[i] = s[BatchLength(s) + i]
  BY Slices
<1> SUFFICES ASSUME NEW i \in DOMAIN s
             PROVE  s[i] \in FirstBatch(s) \cup {RestOf(s)[j] : j \in DOMAIN RestOf(s)}
  OBVIOUS
<1>3. CASE i <= BatchLength(s)
  BY <1>1, <1>3 DEF FirstBatch
<1>4. CASE i > BatchLength(s)
  <2> DEFINE j == i - BatchLength(s)
  <2>1. j \in 1 .. Len(s) - BatchLength(s) /\ BatchLength(s) + j = i
    BY <1>1, <1>4
  <2>2. RestOf(s)[j] = s[i]
    BY <1>2, <2>1
  <2>3. QED
    BY <1>2, <2>1, <2>2
<1>5. QED
  BY <1>1, <1>3, <1>4

\* A step that leaves buffers and batches alone, and makes no message PROCESSING.
LEMMA HeldStays ==
  ASSUME HeldInv, UNCHANGED <<buffer, batchVars>>,
         \A m \in Message : state'[m] = "PROCESSING" => state[m] = "PROCESSING",
         \A m \in Message : row'[m] # "none" => row[m] # "none",
         \A p \in Process : hpc'[p] # "batching" =>
             hpc[p] # "batching" \/ bpc[<<p, "loop">>] = "idle"
  PROVE  HeldInv'
<1>1. \A m \in Message : InCustody(m)' <=> InCustody(m)
  BY DEF InCustody, BufferSet, batchVars
<1>2. AllHeld'
  BY <1>1 DEF HeldInv, AllHeld
<1>3. QED
  BY <1>2 DEF HeldInv, batchVars

Items(s) == {s[i] : i \in DOMAIN s}

\* A batch that begins with the front of a buffer.
LEMMA HeldPassed ==
  ASSUME BatchTypeOK, LoopTypeOK, HeldInv, NEW p \in Process, NEW b \in Batcher,
         NEW s \in Seq(Message), BufferSet(p) \subseteq Items(s),
         bpc[b] = "idle", StartBatch(b, s), buffer' = [buffer EXCEPT ![p] = RestOf(s)],
         \A m \in Message : state'[m] = "PROCESSING" =>
             \/ state[m] = "PROCESSING"
             \/ row[m] = "none" /\ m \in Items(s),
         row' = row,
         \A q \in Process : b # <<q, "loop">> => hpc'[q] = hpc[q],
         \A q \in Process : b = <<q, "loop">> => hpc'[q] = "batching"
  PROVE  HeldInv'
<1>1. /\ batch'[b] = FirstBatch(s) /\ bpc'[b] = "lock"
      /\ \A a \in Batcher \ {b} :
            batch'[a] = batch[a] /\ bpc'[a] = bpc[a] /\ current'[a] = current[a]
  BY DEF StartBatch, BatchTypeOK
<1>2. BufferSet(p)' = {RestOf(s)[i] : i \in DOMAIN RestOf(s)}
  BY DEF BufferSet, LoopTypeOK
<1>3. \A q \in Process \ {p} : BufferSet(q)' = BufferSet(q)
  BY DEF BufferSet, LoopTypeOK
<1>4. batch[b] = {} /\ bpc[b] # "mark"
  BY DEF HeldInv
<1>5. Items(s) \subseteq batch'[b] \cup BufferSet(p)'
  BY <1>1, <1>2, PartsCover DEF Items
<1>6. \A m \in Message : InCustody(m) => InCustody(m)'
  BY <1>1, <1>3, <1>4, <1>5 DEF InCustody
<1>7. \A m \in Items(s) : InCustody(m)'
  BY <1>5 DEF InCustody
<1>8. AllHeld'
  BY <1>6, <1>7 DEF HeldInv, AllHeld
<1>9. \A m \in Message : state'[m] = "PROCESSING" /\ row'[m] # "none" =>
          \E a \in Batcher : bpc'[a] = "mark" /\ current'[a] = m
  BY <1>1, <1>4 DEF HeldInv
<1>10. /\ \A a \in Batcher : bpc'[a] = "mark" => current'[a] \in batch'[a]
       /\ \A a \in Batcher : bpc'[a] = "idle" => batch'[a] = {}
  BY <1>1 DEF HeldInv
<1>11. \A q \in Process : hpc'[q] # "batching" => bpc'[<<q, "loop">>] = "idle"
  <2> SUFFICES ASSUME NEW q \in Process, hpc'[q] # "batching"
               PROVE  bpc'[<<q, "loop">>] = "idle"
    OBVIOUS
  <2>1. <<q, "loop">> \in Batcher \ {b}
    BY DEF Batcher
  <2>2. QED
    BY <1>1, <2>1 DEF HeldInv
<1>12. QED
  BY <1>8, <1>9, <1>10, <1>11 DEF HeldInv

\* A step of a batch that goes on: only the messages it drops may leave it.
LEMMA HeldByOthers ==
  ASSUME BatchTypeOK, HeldInv, NEW b \in Batcher, buffer' = buffer, hpc' = hpc,
         \A a \in Batcher \ {b} :
            batch'[a] = batch[a] /\ bpc'[a] = bpc[a] /\ current'[a] = current[a],
         \A m \in Message : state'[m] = "PROCESSING" => state[m] = "PROCESSING",
         \A m \in batch[b] : state'[m] = "PROCESSING" => m \in batch'[b],
         \A m \in Message : state'[m] = "PROCESSING" /\ row'[m] # "none" =>
             \/ bpc'[b] = "mark" /\ current'[b] = m
             \/ row[m] # "none" /\ ~ (bpc[b] = "mark" /\ current[b] = m),
         bpc'[b] = "mark" => current'[b] \in batch'[b],
         bpc'[b] = "idle" => batch'[b] = {},
         bpc[b] # "idle"
  PROVE  HeldInv'
<1>1. \A p \in Process : BufferSet(p)' = BufferSet(p)
  BY DEF BufferSet
<1>2. AllHeld'
  <2> SUFFICES ASSUME NEW m \in Message, state'[m] = "PROCESSING"
               PROVE  InCustody(m)'
    BY DEF AllHeld
  <2>1. InCustody(m)
    BY DEF HeldInv, AllHeld
  <2>2. CASE \E p \in Process : m \in BufferSet(p)
    BY <1>1, <2>2 DEF InCustody
  <2>3. CASE \E a \in Batcher : m \in batch[a]
    <3>1. PICK a \in Batcher : m \in batch[a]
      BY <2>3
    <3>2. m \in batch'[a]
      BY <3>1
    <3>3. QED
      BY <3>2 DEF InCustody
  <2>4. QED
    BY <2>1, <2>2, <2>3 DEF InCustody
<1>3. \A m \in Message : state'[m] = "PROCESSING" /\ row'[m] # "none" =>
          \E a \in Batcher : bpc'[a] = "mark" /\ current'[a] = m
  <2> SUFFICES ASSUME NEW m \in Message, state'[m] = "PROCESSING", row'[m] # "none"
               PROVE  \E a \in Batcher : bpc'[a] = "mark" /\ current'[a] = m
    OBVIOUS
  <2>1. CASE bpc'[b] = "mark" /\ current'[b] = m
    BY <2>1
  <2>2. CASE row[m] # "none" /\ ~ (bpc[b] = "mark" /\ current[b] = m)
    <3>1. PICK a \in Batcher : bpc[a] = "mark" /\ current[a] = m
      BY <2>2 DEF HeldInv
    <3>2. a \in Batcher \ {b}
      BY <2>2, <3>1
    <3>3. QED
      BY <3>1, <3>2
  <2>3. QED
    BY <2>1, <2>2
<1>4. \A a \in Batcher : bpc'[a] = "mark" => current'[a] \in batch'[a]
  BY DEF HeldInv
<1>5. \A a \in Batcher : bpc'[a] = "idle" => batch'[a] = {}
  BY DEF HeldInv
<1>6. \A q \in Process : hpc'[q] # "batching" => bpc'[<<q, "loop">>] = "idle"
  <2> SUFFICES ASSUME NEW q \in Process, hpc'[q] # "batching"
               PROVE  bpc'[<<q, "loop">>] = "idle"
    OBVIOUS
  <2>1. <<q, "loop">> \in Batcher
    BY DEF Batcher
  <2>2. bpc[<<q, "loop">>] = "idle"
    BY DEF HeldInv
  <2>3. QED
    BY <2>1, <2>2
<1>7. QED
  BY <1>2, <1>3, <1>4, <1>5, <1>6 DEF HeldInv

\* A transition to another state makes no message PROCESSING.
LEMMA NoneProcessing ==
  ASSUME StoreTypeOK, NEW m \in Message, NEW from, NEW to, to # "PROCESSING",
         TryMove(m, from, to), NEW n \in Message, state'[n] = "PROCESSING"
  PROVE  state[n] = "PROCESSING"
BY DEF TryMove, StoreTypeOK

LEMMA HeldStep ==
  ASSUME MaxFaults = 0, MaxTimeouts = 0, MaxCrashes = 0, KeepsId,
         TypeOK, Inv, OnceInv, HeldInv, [Next]_vars
  PROVE  HeldInv'
<1>c. /\ StoreTypeOK /\ QueueTypeOK /\ ClientTypeOK /\ LoopTypeOK /\ BatchTypeOK
      /\ EarlyInv /\ ~ Fault
  BY DEF TypeOK, Inv, BoundsTypeOK, Fault
<1>s. ASSUME UNCHANGED <<hpc, buffer, batchVars, row>>,
             \A m \in Message : state'[m] = "PROCESSING" => state[m] = "PROCESSING"
      PROVE  HeldInv'
  BY <1>s, HeldStays
<1>h. ASSUME UNCHANGED <<state, buffer, batchVars>>,
             \A m \in Message : row'[m] # "none" => row[m] # "none",
             NEW p \in Process, NEW x, hpc' = [hpc EXCEPT ![p] = x],
             hpc[p] # "batching" \/ bpc[<<p, "loop">>] = "idle"
      PROVE  HeldInv'
  <2>1. \A q \in Process : hpc'[q] # "batching" =>
            hpc[q] # "batching" \/ bpc[<<q, "loop">>] = "idle"
    BY <1>h, <1>c DEF LoopTypeOK
  <2>2. QED
    BY <1>h, <2>1, HeldStays
<1>1. ASSUME NEW r \in Request, SendRuns(r) \/ SendStepFails(r) PROVE HeldInv'
  <2>1. ASSUME NEW k \in Part, Compose(r, k) \/ QueueSave(r, k) \/ Pend(r, k)
        PROVE  HeldInv'
    <3>1. <<r, k>> \in Message
      BY DEF Message
    <3>2. \A m \in Message : state'[m] = "PROCESSING" => state[m] = "PROCESSING"
      BY <2>1, <3>1, <1>c, NoneProcessing DEF Compose, QueueSave, Pend
    <3>3. UNCHANGED <<hpc, buffer, batchVars, row>>
      BY <2>1 DEF Compose, QueueSave, Pend, loopVars
    <3>4. QED
      BY <3>2, <3>3, <1>s
  <2>2. CASE Reply(r)
    BY <2>2, <1>s DEF Reply, loopVars
  <2>3. CASE ReplyFails(r)
    <3>1. <<r, "ai">> \in Message
      BY DEF Message, Part
    <3>2. \A m \in Message : state'[m] = "PROCESSING" => state[m] = "PROCESSING"
      BY <2>3, <3>1, <1>c, NoneProcessing DEF ReplyFails
    <3>3. QED
      BY <2>3, <3>2, <1>s DEF ReplyFails, loopVars
  <2>4. QED
    BY <1>1, <2>1, <2>2, <2>3, <1>c DEF SendRuns, SendStepFails
<1>2. ASSUME NEW c \in Client, DeleteRuns(c) \/ DeleteStepFails(c) PROVE HeldInv'
  <2>1. CASE SmartCas(c)
    <3>1. target[c] \in Message
      BY <2>1, <1>c DEF SmartCas, ClientTypeOK
    <3>2. SmartTarget(seen[c]) # "PROCESSING"
      BY DEF SmartTarget
    <3>3. \A m \in Message : state'[m] = "PROCESSING" => state[m] = "PROCESSING"
      BY <2>1, <3>1, <3>2, <1>c, NoneProcessing DEF SmartCas
    <3>4. QED
      BY <2>1, <3>3, <1>s DEF SmartCas, loopVars
  <2>2. CASE QueueDelete(c)
    BY <2>2, <1>s DEF QueueDelete, loopVars
  <2>3. QED
    BY <1>2, <2>1, <2>2, <1>c DEF DeleteRuns, DeleteStepFails
<1>3. ASSUME NEW c \in Client, NEW m \in Message, SmartRead(c, m) PROVE HeldInv'
  BY <1>3, <1>s DEF SmartRead, loopVars
<1>4. ASSUME NEW p \in Process, TakeIn(p) PROVE HeldInv'
  <2> DEFINE m == job[p]
  <2> DEFINE s == Append(buffer[p], m)
  <2>1. /\ m \in Message /\ buffer[p] \in Seq(Message) /\ s \in Seq(Message)
        /\ state[m] = "PENDING" /\ row[m] = "none"
    BY <1>4, <1>c DEF TakeIn, LoopTypeOK, CanMove, Matches, EarlyInv
  <2>2. /\ DOMAIN s = 1 .. Len(buffer[p]) + 1 /\ Len(buffer[p]) \in Nat
        /\ s[Len(buffer[p]) + 1] = m
        /\ DOMAIN buffer[p] = 1 .. Len(buffer[p])
        /\ \A i \in DOMAIN buffer[p] : s[i] = buffer[p][i]
    BY <2>1
  <2>3. \A n \in Message : state'[n] = "PROCESSING" => state[n] = "PROCESSING" \/ n = m
    BY <1>4, <2>1, <1>c DEF TakeIn, TryMove, StoreTypeOK
  <2>4. BufferSet(p) \subseteq Items(s) /\ m \in Items(s)
    BY <2>2 DEF BufferSet, Items
  <2>5. CASE Full(s)
    <3> DEFINE b == <<p, "loop">>
    <3>1. b \in Batcher
      BY DEF Batcher
    <3>2. bpc[b] = "idle"
      BY <1>4 DEF TakeIn, HeldInv
    <3>3. /\ StartBatch(b, s) /\ buffer' = [buffer EXCEPT ![p] = RestOf(s)]
          /\ hpc' = [hpc EXCEPT ![p] = "batching"] /\ row' = row
      BY <1>4, <2>5 DEF TakeIn
    <3>4. /\ \A q \in Process : b # <<q, "loop">> => hpc'[q] = hpc[q]
          /\ \A q \in Process : b = <<q, "loop">> => hpc'[q] = "batching"
      BY <3>3, <1>c DEF LoopTypeOK
    <3>5. \A n \in Message : state'[n] = "PROCESSING" =>
             \/ state[n] = "PROCESSING"
             \/ row[n] = "none" /\ n \in Items(s)
      BY <2>1, <2>3, <2>4
    <3> HIDE DEF b, s, m
    <3>6. QED
      BY <2>1, <2>4, <3>1, <3>2, <3>3, <3>4, <3>5, <1>c, HeldPassed
  <2>6. CASE ~ Full(s)
    <3>1. /\ buffer' = [buffer EXCEPT ![p] = s] /\ UNCHANGED <<batchVars, row>>
          /\ hpc' = [hpc EXCEPT ![p] = "ack"] /\ hpc[p] = "save"
      BY <1>4, <2>6 DEF TakeIn
    <3>2. /\ BufferSet(p)' = Items(s)
          /\ \A q \in Process \ {p} : BufferSet(q)' = BufferSet(q)
      BY <3>1, <1>c DEF BufferSet, LoopTypeOK, Items
    <3>3. \A n \in Message : InCustody(n) \/ n = m => InCustody(n)'
      <4> HIDE DEF s, m
      <4>1. QED
        BY <2>4, <3>1, <3>2 DEF InCustody, batchVars
    <3>4. AllHeld'
      BY <2>3, <3>3 DEF HeldInv, AllHeld
    <3>5. \A n \in Message : state'[n] = "PROCESSING" /\ row'[n] # "none" =>
              state[n] = "PROCESSING" /\ row[n] # "none"
      BY <2>1, <2>3, <3>1
    <3>6. \A q \in Process : hpc'[q] # "batching" => bpc'[<<q, "loop">>] = "idle"
      BY <3>1, <1>c DEF HeldInv, batchVars, LoopTypeOK
    <3>7. QED
      BY <3>1, <3>4, <3>5, <3>6 DEF HeldInv, batchVars
  <2>7. QED
    BY <2>5, <2>6
<1>5. ASSUME NEW p \in Process, LoopRuns(p) \/ SoftDeleteFails(p) PROVE HeldInv'
  <2>1. CASE Receive(p)
    <3>1. PICK x : hpc' = [hpc EXCEPT ![p] = x]
      BY <2>1 DEF Receive
    <3>2. QED
      BY <2>1, <3>1, <1>h DEF Receive
  <2>2. CASE TakeInFails(p)
    <3>1. UNCHANGED <<state, buffer, batchVars, row>> /\ hpc[p] = "save"
          /\ hpc' = [hpc EXCEPT ![p] = "reread"]
      BY <2>2, <1>c DEF TakeInFails
    <3>2. QED
      BY <3>1, <1>h
  <2>3. CASE Reread(p)
    <3>1. PICK x : hpc' = [hpc EXCEPT ![p] = x]
      BY <2>3 DEF Reread
    <3>2. QED
      BY <2>3, <3>1, <1>h DEF Reread
  <2>4. CASE LoopBatchDone(p)
    <3>1. PICK x : hpc' = [hpc EXCEPT ![p] = x]
      BY <2>4 DEF LoopBatchDone
    <3>2. QED
      BY <2>4, <3>1, <1>h DEF LoopBatchDone
  <2>5. CASE SoftDelete(p)
    <3>1. PICK x : hpc' = [hpc EXCEPT ![p] = x]
      BY <2>5, <1>c DEF SoftDelete
    <3>2. \A m \in Message : row'[m] # "none" => row[m] # "none"
      BY <2>5, <1>c DEF SoftDelete, Found, StoreTypeOK
    <3>3. QED
      BY <2>5, <3>1, <3>2, <1>h DEF SoftDelete
  <2>6. CASE Ack(p) \/ Nack(p)
    BY <2>6, <1>h DEF Ack, Nack, Idle
  <2>7. QED
    BY <1>5, <1>4, <2>1, <2>2, <2>3, <2>4, <2>5, <2>6, <1>c DEF LoopRuns, SoftDeleteFails
<1>6. ASSUME NEW p \in Process, TimerBatch(p) PROVE HeldInv'
  <2>1. <<p, "timer">> \in Batcher /\ \A q \in Process : <<p, "timer">> # <<q, "loop">>
    BY DEF Batcher
  <2>2. buffer[p] \in Seq(Message)
    BY <1>c DEF LoopTypeOK
  <2>3. BufferSet(p) \subseteq Items(buffer[p])
    BY DEF BufferSet, Items
  <2>4. /\ bpc[<<p, "timer">>] = "idle" /\ StartBatch(<<p, "timer">>, buffer[p])
        /\ buffer' = [buffer EXCEPT ![p] = RestOf(buffer[p])]
        /\ state' = state /\ row' = row /\ hpc' = hpc
    BY <1>6, <1>c DEF TimerBatch, LoopTypeOK
  <2>5. QED
    BY <2>1, <2>2, <2>3, <2>4, <1>c, HeldPassed
<1>7. ASSUME NEW b \in Batcher, NEW g \in Room, Acquire(b, g) PROVE HeldInv'
  <2>1. /\ bpc[b] = "lock" /\ bpc' = [bpc EXCEPT ![b] = "save"]
        /\ UNCHANGED <<state, row, hpc, buffer, batch, current>>
    BY <1>7 DEF Acquire, loopVars
  <2>2. \A a \in Batcher \ {b} : bpc'[a] = bpc[a]
    BY <2>1, <1>c DEF BatchTypeOK
  <2>3. bpc'[b] = "save"
    BY <2>1, <1>c DEF BatchTypeOK
  <2>4. QED
    BY <2>1, <2>2, <2>3, <1>c, HeldByOthers
<1>8. ASSUME NEW b \in Batcher, NEW m \in Message, Save(b, m) PROVE HeldInv'
  <2>1. /\ bpc[b] = "save" /\ m \in batch[b] /\ row[m] = "none"
        /\ row' = [row EXCEPT ![m] = "stored"] /\ bpc' = [bpc EXCEPT ![b] = "mark"]
        /\ current' = [current EXCEPT ![b] = m]
        /\ UNCHANGED <<state, hpc, buffer, batch>>
    BY <1>8 DEF Save, IsNext, Earliest, GroupOf, loopVars
  <2>2. /\ \A a \in Batcher \ {b} : bpc'[a] = bpc[a] /\ current'[a] = current[a]
        /\ bpc'[b] = "mark" /\ current'[b] = m
    BY <2>1, <1>c DEF BatchTypeOK
  <2>3. \A n \in Message : row'[n] # "none" => row[n] # "none" \/ n = m
    BY <2>1, <1>c DEF StoreTypeOK
  <2>4. QED
    BY <2>1, <2>2, <2>3, <1>c, HeldByOthers
<1>9. ASSUME NEW b \in Batcher, NEW m \in Message, SaveRaises(b, m) PROVE HeldInv'
  <2>1. /\ bpc[b] = "save" /\ m \in batch[b] /\ row[m] # "none"
        /\ batch' = [batch EXCEPT ![b] = @ \ {m}]
        /\ UNCHANGED <<state, row, hpc, buffer, bpc, current>>
    BY <1>9, <1>c DEF SaveRaises, MayCollide, IsNext, Earliest, GroupOf, loopVars, Drop
  <2>2. state[m] # "PROCESSING"
    <3> SUFFICES ASSUME state[m] = "PROCESSING" PROVE FALSE
      OBVIOUS
    <3>1. PICK a \in Batcher : bpc[a] = "mark" /\ current[a] = m
      BY <2>1 DEF HeldInv
    <3>2. m \in batch[a] /\ a # b
      BY <2>1, <3>1 DEF HeldInv
    <3>3. QED
      BY <2>1, <3>2 DEF OnceInv
  <2>3. /\ \A a \in Batcher \ {b} : batch'[a] = batch[a]
        /\ batch'[b] = batch[b] \ {m}
    BY <2>1, <1>c DEF BatchTypeOK
  <2>4. QED
    BY <2>1, <2>2, <2>3, <1>c, HeldByOthers
<1>10. ASSUME NEW b \in Batcher, MarkSent(b) PROVE HeldInv'
  <2> DEFINE m == current[b]
  <2>1. /\ bpc[b] = "mark" /\ TryMove(m, "PROCESSING", "SENT") /\ m \in batch[b]
        /\ batch' = [batch EXCEPT ![b] = @ \ {m}] /\ bpc' = [bpc EXCEPT ![b] = "save"]
        /\ current' = [current EXCEPT ![b] = NoOne]
        /\ UNCHANGED <<row, hpc, buffer>>
    BY <1>10, <1>c DEF MarkSent, HeldInv, loopVars, Drop
  <2>2. m \in Message
    BY <2>1, <1>c DEF BatchTypeOK
  <2>3. \A n \in Message : state'[n] = "PROCESSING" => state[n] = "PROCESSING" /\ n # m
    BY <2>1, <2>2, <1>c DEF TryMove, CanMove, Permitted, Successors, Matches, StoreTypeOK
  <2>4. /\ \A a \in Batcher \ {b} :
              batch'[a] = batch[a] /\ bpc'[a] = bpc[a] /\ current'[a] = current[a]
        /\ batch'[b] = batch[b] \ {m} /\ bpc'[b] = "save"
    BY <2>1, <1>c DEF BatchTypeOK
  <2>5. /\ \A n \in batch[b] : state'[n] = "PROCESSING" => n \in batch'[b]
        /\ \A n \in Message : state'[n] = "PROCESSING" /\ row'[n] # "none" =>
              row[n] # "none" /\ ~ (bpc[b] = "mark" /\ current[b] = n)
    BY <2>1, <2>3, <2>4, <1>c DEF BatchTypeOK
  <2> HIDE DEF m
  <2>6. QED
    BY <2>1, <2>3, <2>4, <2>5, <1>c, HeldByOthers
<1>11. ASSUME NEW b \in Batcher, Release(b) PROVE HeldInv'
  <2>1. /\ bpc[b] = "save" /\ UNCHANGED <<state, row, hpc, buffer, current>>
        /\ NextRoom(b, batch[b])
    BY <1>11 DEF Release, loopVars
  <2>2. /\ \A a \in Batcher \ {b} : batch'[a] = batch[a] /\ bpc'[a] = bpc[a]
        /\ batch'[b] = batch[b]
        /\ bpc'[b] = IF batch[b] = {} THEN "idle" ELSE "lock"
    BY <2>1, <1>c DEF BatchTypeOK, NextRoom
  <2>3. QED
    BY <2>1, <2>2, <1>c, HeldByOthers
<1>12. ASSUME NEW m \in Message, ListRead(m) \/ ListRestore(m) \/ Expire(m) PROVE HeldInv'
  <2>1. \A n \in Message : state'[n] = "PROCESSING" => state[n] = "PROCESSING"
    BY <1>12, <1>c, NoneProcessing DEF ListRead, ListRestore, Expire, StoreTypeOK
  <2>2. QED
    BY <1>12, <2>1, <1>s DEF ListRead, ListRestore, Expire, loopVars
<1>13. ASSUME NEW g \in Room, LeaseEnds(g) PROVE HeldInv'
  BY <1>13, <1>s DEF LeaseEnds, loopVars
<1>14. CASE UNCHANGED vars
  BY <1>14, <1>s DEF vars, loopVars
<1>15. /\ \A p \in Process : ~ Crash(p)
       /\ \A b \in Batcher, g \in Room : ~ AcquireTimeout(b, g)
  BY DEF Crash, AcquireTimeout, TypeOK, BoundsTypeOK
<1>16. QED
  BY <1>1, <1>2, <1>3, <1>5, <1>6, <1>7, <1>8, <1>9, <1>10, <1>11, <1>12, <1>13, <1>14,
     <1>15 DEF Next, BatchRuns

\* The messages stay on their shard.
LEMMA ShardKept == [Next]_vars => shard' = shard
<1> SUFFICES ASSUME [Next]_vars PROVE shard' = shard
  OBVIOUS
<1>1. (UNCHANGED bounds \/ Fault) => shard' = shard
  BY DEF bounds, Fault
<1>2. ASSUME NEW r \in Request, SendRuns(r) \/ SendStepFails(r) PROVE shard' = shard
  BY <1>1, <1>2 DEF SendRuns, SendStepFails, Compose, QueueSave, Pend, Reply, ReplyFails
<1>3. ASSUME NEW c \in Client, DeleteRuns(c) \/ DeleteStepFails(c) \/ \E m \in Message : SmartRead(c, m)
      PROVE  shard' = shard
  BY <1>1, <1>3 DEF DeleteRuns, DeleteStepFails, SmartCas, QueueDelete, SmartRead
<1>4. ASSUME NEW p \in Process, LoopRuns(p) \/ SoftDeleteFails(p) \/ TimerBatch(p) \/ Crash(p)
      PROVE  shard' = shard
  BY <1>1, <1>4 DEF LoopRuns, Receive, TakeIn, TakeInFails, Reread, LoopBatchDone, SoftDelete,
     Ack, Nack, SoftDeleteFails, TimerBatch, Crash
<1>5. ASSUME NEW b \in Batcher, BatchRuns(b) \/ \E g \in Room : AcquireTimeout(b, g)
      PROVE  shard' = shard
  BY <1>1, <1>5 DEF BatchRuns, Acquire, AcquireTimeout, Save, SaveRaises, MarkSent, Release
<1>6. ASSUME NEW g \in Room, LeaseEnds(g) PROVE shard' = shard
  BY <1>1, <1>6 DEF LeaseEnds
<1>7. ASSUME NEW m \in Message, ListRead(m) \/ ListRestore(m) \/ Expire(m) PROVE shard' = shard
  BY <1>1, <1>7 DEF ListRead, ListRestore, Expire
<1>8. CASE UNCHANGED vars
  BY <1>8 DEF vars, bounds
<1>9. QED
  BY <1>2, <1>3, <1>4, <1>5, <1>6, <1>7, <1>8 DEF Next

\* ProcessingHeld, when no command fails, no lock times out and no process dies: however
\* the batches of the handlers and timers overlap, a message of shard 1 that was taken from
\* the queue is in a buffer or batch until its row is written and it is marked
\* (chat_persistence_consumer.py:368-479).
THEOREM ProcessingIsHeld ==
  ASSUME MaxFaults = 0, MaxTimeouts = 0, MaxCrashes = 0
  PROVE  Spec => []ProcessingHeld
<1> DEFINE OnItsShard == KeepsId => HeldInv
<1>1. Init => OnceInv /\ OnItsShard
  BY DEF Init, OnceInv, HeldInv, AllHeld, Distinct, BufferSet, Batcher
<1>2. TypeOK /\ Inv /\ OnceInv /\ OnItsShard /\ [Next]_vars => OnceInv' /\ OnItsShard'
  BY OnceStep, HeldStep, ShardKept DEF KeepsId
<1>3. OnItsShard => ProcessingHeld
  BY DEF HeldInv, AllHeld, ProcessingHeld
<1>4. QED
  BY <1>1, <1>2, <1>3, TypeCorrect, Invariant, PTL DEF Spec
=============================================================================
