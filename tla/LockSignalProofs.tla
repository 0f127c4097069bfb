--------------------------- MODULE LockSignalProofs ---------------------------
(***************************************************************************)
(* Proofs about what runs on the master server under a distributed lock,   *)
(* and about that lock.                                                    *)
(*                                                                         *)
(* DistributedLock: its types, that work under a lease is exclusive, that  *)
(* only an owner releases, and that it implements LeaseLock; for every set *)
(* of keys, coroutines and processes, every Ttl and every bound.           *)
(*                                                                         *)
(* SignalMonitoring over MarketSocket: its types, and that no connection   *)
(* is left open besides the current one; for any number of connections,    *)
(* event loops, symbols, PINGPONGs and shards.                             *)
(***************************************************************************)
EXTENDS DistributedLock, SignalMonitoring, TLAPS

-----------------------------------------------------------------------------
(* The lock: types, tokens and leases                                      *)

\* A coroutine that is somewhere in acquire or release has a token; tokens in
\* use were issued, and no two coroutines have the same one.
TokenInv ==
    /\ \A t \in Task : pc[t] # "idle" => tok[t] # NoToken
    /\ \A t \in Task : tok[t] <= issued
    /\ \A s, t \in Task : (s # t /\ tok[s] # NoToken) => tok[s] # tok[t]

\* While a lease runs, Redis still holds the token of its coroutine, for
\* exactly as long.
LeaseInv ==
    \A t \in Task : lease[t] > 0 =>
        /\ pc[t] \in Holding
        /\ tok[t] # NoToken
        /\ store[want[t]] = tok[t]
        /\ ttl[want[t]] = lease[t]

IInv == TypeOK /\ TokenInv /\ LeaseInv

-----------------------------------------------------------------------------
\* The initial state is well typed.
LEMMA InitTypes == Init => TypeOK
<1> SUFFICES ASSUME Init PROVE TypeOK
  OBVIOUS
<1>1. RedisTypeOK
  BY LockAssumption DEF Init, NoToken, RedisTypeOK
<1>2. ProcTypeOK
  BY DEF Init, NoToken, ProcTypeOK
<1>3. TaskTypeOK
  <2>1. (CHOOSE k \in Key : TRUE) \in Key
    BY LockAssumption
  <2>2. want \in [Task -> Key]
    BY <2>1 DEF Init
  <2>3. pc \in [Task -> Phase]
    BY DEF Init, Phase
  <2>4. tok \in [Task -> Token \cup {NoToken}] /\ managed \in [Task -> BOOLEAN]
    BY DEF Init
  <2>5. lease \in [Task -> 0..Ttl]
    BY LockAssumption DEF Init
  <2>6. QED
    BY <2>2, <2>3, <2>4, <2>5 DEF TaskTypeOK
<1>4. CounterTypeOK
  BY LockAssumption DEF Init, CounterTypeOK
<1>5. QED
  BY <1>1, <1>2, <1>3, <1>4 DEF TypeOK

\* Every step keeps every variable in its type.
LEMMA StepTypes == TypeOK /\ [Next]_vars => TypeOK'
<1> SUFFICES ASSUME TypeOK, [Next]_vars PROVE TypeOK'
  OBVIOUS
<1> USE LockAssumption
<1> USE DEF TypeOK, RedisTypeOK, ProcTypeOK, TaskTypeOK, CounterTypeOK,
            Phase, Holding, Token, NoToken
<1>1. ASSUME NEW t \in Task, NEW k \in Key, NEW m \in BOOLEAN, Enter(t, k, m)
      PROVE  TypeOK'
  BY <1>1 DEF Enter, redisVars, procVars
<1>2. ASSUME NEW t \in Task, TryAcquire(t) PROVE TypeOK'
  BY <1>2 DEF TryAcquire, SetNxEx, procVars, counters
<1>3. ASSUME NEW t \in Task, AcquireReplyLost(t) PROVE TypeOK'
  BY <1>3 DEF AcquireReplyLost, SetNxEx, procVars, taskVars
<1>4. ASSUME NEW t \in Task, GiveUp(t) PROVE TypeOK'
  BY <1>4 DEF GiveUp, Return, redisVars, procVars, counters
<1>5. ASSUME NEW t \in Task, Resume(t) PROVE TypeOK'
  BY <1>5 DEF Resume, redisVars, counters
<1>6. ASSUME NEW t \in Task, Extend(t) PROVE TypeOK'
  BY <1>6 DEF Extend, procVars, taskVars, counters
<1>7. ASSUME NEW t \in Task, Leave(t) PROVE TypeOK'
  <2>1. UNCHANGED <<redisVars, procVars, want, counters>>
    BY <1>7 DEF Leave
  <2>2. CASE WillRelease(t)
    <3>1. /\ pc' = [pc EXCEPT ![t] = "releasing"]
          /\ UNCHANGED <<tok, managed, lease>>
      BY <1>7, <2>2 DEF Leave
    <3>2. QED
      BY <2>1, <3>1 DEF redisVars, procVars, counters
  <2>3. CASE ~WillRelease(t)
    <3>1. Return(t) /\ lease' = [lease EXCEPT ![t] = 0]
      BY <1>7, <2>3 DEF Leave
    <3>2. QED
      BY <2>1, <3>1 DEF Return, redisVars, procVars, counters
  <2>4. QED
    BY <2>2, <2>3
<1>8. ASSUME NEW t \in Task, Release(t) PROVE TypeOK'
  <2>1. UNCHANGED <<procVars, want, tok, managed, counters>>
    BY <1>8 DEF Release
  <2>2. CASE store[want[t]] = tok[t]
    <3>1. /\ store' = [store EXCEPT ![want[t]] = NoToken]
          /\ ttl' = [ttl EXCEPT ![want[t]] = 0]
      BY <1>8, <2>2 DEF Release, CompareAndDelete
    <3>2. /\ pc' = [pc EXCEPT ![t] = "released"]
          /\ lease' = [lease EXCEPT ![t] = 0]
      BY <1>8 DEF Release
    <3>3. QED
      BY <2>1, <3>1, <3>2 DEF procVars, counters
  <2>3. CASE store[want[t]] # tok[t]
    BY <1>8, <2>1, <2>3 DEF Release, CompareAndDelete, redisVars, procVars, counters
  <2>4. QED
    BY <2>2, <2>3
<1>9. ASSUME NEW t \in Task, ReleaseFails(t) PROVE TypeOK'
  BY <1>9 DEF ReleaseFails, redisVars, procVars
<1>10. ASSUME NEW t \in Task, Forget(t) PROVE TypeOK'
  BY <1>10 DEF Forget, Return, redisVars, counters
<1>11. ASSUME NEW p \in Proc, CloseBegin(p) PROVE TypeOK'
  BY <1>11 DEF CloseBegin, redisVars, taskVars
<1>12. ASSUME NEW p \in Proc, NEW e \in Key \X Token, CloseOne(p, e) PROVE TypeOK'
  <2>1. RedisTypeOK'
    <3>1. e[1] \in Key
      OBVIOUS
    <3>2. CASE store[e[1]] = e[2]
      <4>1. /\ store' = [store EXCEPT ![e[1]] = NoToken]
            /\ ttl' = [ttl EXCEPT ![e[1]] = 0]
        BY <1>12, <3>2 DEF CloseOne, CompareAndDelete
      <4>2. QED
        BY <3>1, <4>1
    <3>3. CASE store[e[1]] # e[2]
      BY <1>12, <3>3 DEF CloseOne, CompareAndDelete, redisVars
    <3>4. QED
      BY <3>2, <3>3
  <2>2. ProcTypeOK'
    BY <1>12 DEF CloseOne
  <2>3. lease' \in [Task -> 0..Ttl]
    BY <1>12 DEF CloseOne
  <2>4. TaskTypeOK' /\ CounterTypeOK'
    BY <1>12, <2>3 DEF CloseOne, taskVars, counters
  <2>5. QED
    BY <2>1, <2>2, <2>4
<1>13. ASSUME NEW p \in Proc, CloseEnd(p) PROVE TypeOK'
  BY <1>13 DEF CloseEnd, redisVars, taskVars, counters
<1>14. ASSUME NEW p \in Proc, Crash(p) PROVE TypeOK'
  <2>1. RedisTypeOK'
    BY <1>14 DEF Crash, redisVars
  <2>2. ProcTypeOK'
    BY <1>14 DEF Crash
  <2>3. pc' \in [Task -> Phase] /\ tok' \in [Task -> Token \cup {NoToken}]
    BY <1>14 DEF Crash
  <2>4. managed' \in [Task -> BOOLEAN] /\ want' \in [Task -> Key]
    BY <1>14 DEF Crash
  <2>5. lease' \in [Task -> 0..Ttl]
    BY <1>14 DEF Crash
  <2>6. CounterTypeOK'
    BY <1>14 DEF Crash
  <2>7. QED
    BY <2>1, <2>2, <2>3, <2>4, <2>5, <2>6
<1>15. ASSUME Tick PROVE TypeOK'
  <2>1. ttl' \in [Key -> 0..Ttl] /\ lease' \in [Task -> 0..Ttl]
    <3>1. \A n \in 0..Ttl : Decrement(n) \in 0..Ttl
      BY DEF Decrement
    <3>2. QED
      BY <1>15, <3>1 DEF Tick
  <2>2. store' \in [Key -> Token \cup {NoToken}]
    BY <1>15 DEF Tick
  <2>3. UNCHANGED <<procVars, taskVars, counters>>
    BY <1>15 DEF Tick
  <2>4. QED
    BY <2>1, <2>2, <2>3 DEF procVars, taskVars, counters
<1>16. CASE UNCHANGED vars
  BY <1>16 DEF vars
<1>17. QED
  BY <1>1, <1>2, <1>3, <1>4, <1>5, <1>6, <1>7, <1>8, <1>9, <1>10, <1>11, SMTT(30),
     <1>12, <1>13, <1>14, <1>15, <1>16 DEF Next, TaskStep, ProcStep

\* TypeOK: in every behaviour every variable keeps its type.
THEOREM TypeCorrect == Spec => []TypeOK
<1>1. Init => TypeOK
  BY InitTypes
<1>2. TypeOK /\ [Next]_vars => TypeOK'
  BY StepTypes
<1>3. QED
  BY <1>1, <1>2, PTL DEF Spec
-----------------------------------------------------------------------------
(* Work under a lease is exclusive                                         *)

LEMMA InitIInv == Init => IInv
<1> SUFFICES ASSUME Init PROVE TokenInv /\ LeaseInv
  BY InitTypes DEF IInv
<1>1. TokenInv
  BY DEF Init, TokenInv, NoToken
<1>2. LeaseInv
  BY DEF Init, LeaseInv
<1>3. QED
  BY <1>1, <1>2

\* Every step keeps the tokens in use issued and distinct.
LEMMA StepTokens == TypeOK /\ TokenInv /\ [Next]_vars => TokenInv'
<1> SUFFICES ASSUME TypeOK, TokenInv, [Next]_vars PROVE TokenInv'
  OBVIOUS
<1> USE DEF TypeOK, TaskTypeOK, CounterTypeOK, Token, NoToken, TokenInv
<1>1. ASSUME NEW t \in Task, NEW k \in Key, NEW m \in BOOLEAN, Enter(t, k, m)
      PROVE  TokenInv'
  <2>1. /\ tok' = [tok EXCEPT ![t] = issued + 1]
        /\ pc' = [pc EXCEPT ![t] = "acquiring"]
        /\ issued' = issued + 1
    BY <1>1 DEF Enter
  <2>2. QED
    BY <2>1
<1>2. ASSUME NEW t \in Task, TaskStep(t), issued' = issued,
             tok' = tok \/ Return(t),
             pc[t] # "idle"
      PROVE  TokenInv'
  <2>1. \A s \in Task : s # t => pc'[s] = pc[s] /\ tok'[s] = tok[s]
    BY <1>2 DEF TaskStep, Enter, TryAcquire, AcquireReplyLost, GiveUp, Resume,
       Extend, Leave, Release, ReleaseFails, Forget, Return, taskVars
  <2>2. tok'[t] = tok[t] \/ (pc'[t] = "idle" /\ tok'[t] = NoToken)
    BY <1>2 DEF Return
  <2>3. QED
    BY <1>2, <2>1, <2>2
<1>3. ASSUME NEW p \in Proc, Crash(p) PROVE TokenInv'
  <2>1. \A s \in Task : \/ pc'[s] = "idle" /\ tok'[s] = NoToken
                        \/ pc'[s] = pc[s] /\ tok'[s] = tok[s]
    BY <1>3 DEF Crash
  <2>2. issued' = issued
    BY <1>3 DEF Crash
  <2>3. QED
    BY <2>1, <2>2
<1>4. ASSUME UNCHANGED <<pc, tok, issued>> PROVE TokenInv'
  BY <1>4
<1>5. ASSUME NEW t \in Task, TaskStep(t) PROVE TokenInv'
  <2>1. CASE \E k \in Key, m \in BOOLEAN : Enter(t, k, m)
    BY <2>1, <1>1
  <2>2. CASE TryAcquire(t) \/ AcquireReplyLost(t) \/ GiveUp(t) \/ Resume(t)
    BY <2>2, <1>2, <1>5 DEF TryAcquire, AcquireReplyLost, GiveUp, Resume,
       counters, taskVars
  <2>3. CASE Extend(t) \/ Leave(t) \/ Release(t) \/ ReleaseFails(t) \/ Forget(t)
    BY <2>3, <1>2, <1>5 DEF Extend, Leave, Release, ReleaseFails, Forget,
       counters, taskVars
  <2>4. QED
    BY <1>5, <2>1, <2>2, <2>3 DEF TaskStep
<1>6. ASSUME NEW p \in Proc, ProcStep(p) PROVE TokenInv'
  BY <1>6, <1>3, <1>4 DEF ProcStep, CloseBegin, CloseOne, CloseEnd, taskVars, counters
<1>7. CASE Tick \/ UNCHANGED vars
  BY <1>7, <1>4 DEF Tick, vars, taskVars, counters
<1>8. QED
  BY <1>5, <1>6, <1>7 DEF Next
\* The claim of LeaseInv about one coroutine.
Leased(t) ==
    lease[t] > 0 =>
        /\ pc[t] \in Holding
        /\ tok[t] # NoToken
        /\ store[want[t]] = tok[t]
        /\ ttl[want[t]] = lease[t]

\* Every step keeps the token of a running lease in Redis, for as long.
LEMMA StepLeases == IInv /\ [Next]_vars => LeaseInv'
<1> SUFFICES ASSUME IInv, [Next]_vars, NEW s \in Task PROVE Leased(s)'
  BY DEF LeaseInv, Leased
<1> USE LockAssumption
<1>1. Leased(s)
  BY DEF IInv, LeaseInv, Leased
<1>2. \A t \in Task : (t # s /\ tok[s] # NoToken) => tok[t] # tok[s]
  BY DEF IInv, TokenInv
<1> USE DEF IInv, TypeOK, RedisTypeOK, TaskTypeOK, Leased, NoToken, Holding
<1>3. ASSUME NEW t \in Task, NEW k \in Key, NEW m \in BOOLEAN, Enter(t, k, m)
      PROVE  Leased(s)'
  <2>1. CASE s = t
    BY <1>1, <1>3, <2>1 DEF Enter
  <2>2. CASE s # t
    BY <1>1, <1>3, <2>2 DEF Enter, redisVars
  <2>3. QED
    BY <2>1, <2>2
<1>4. ASSUME NEW t \in Task, TryAcquire(t) PROVE Leased(s)'
  <2>1. CASE s = t
    <3>1. tok[t] # NoToken
      BY <1>4 DEF TryAcquire, TokenInv
    <3>2. QED
      BY <1>4, <2>1, <3>1 DEF TryAcquire, SetNxEx
  <2>2. CASE s # t
    BY <1>1, <1>4, <2>2 DEF TryAcquire, SetNxEx
  <2>3. QED
    BY <2>1, <2>2
<1>5. ASSUME NEW t \in Task, AcquireReplyLost(t) PROVE Leased(s)'
  BY <1>1, <1>5 DEF AcquireReplyLost, SetNxEx, taskVars
<1>6. ASSUME NEW t \in Task, GiveUp(t) PROVE Leased(s)'
  <2>1. CASE s = t
    BY <1>1, <1>6, <2>1 DEF GiveUp
  <2>2. CASE s # t
    BY <1>1, <1>6, <2>2 DEF GiveUp, Return, redisVars
  <2>3. QED
    BY <2>1, <2>2
<1>7. ASSUME NEW t \in Task, Resume(t) PROVE Leased(s)'
  BY <1>1, <1>7 DEF Resume, redisVars
<1>8. ASSUME NEW t \in Task, Extend(t) PROVE Leased(s)'
  <2>1. CASE s = t
    <3>1. tok[t] # NoToken
      BY <1>8 DEF Extend, TokenInv
    <3>2. QED
      BY <1>8, <2>1, <3>1 DEF Extend, taskVars
  <2>2. CASE s # t
    BY <1>1, <1>2, <1>8, <2>2 DEF Extend, taskVars
  <2>3. QED
    BY <2>1, <2>2
<1>9. ASSUME NEW t \in Task, Leave(t) PROVE Leased(s)'
  <2>1. CASE WillRelease(t)
    BY <1>1, <1>9, <2>1 DEF Leave, redisVars
  <2>2. CASE ~WillRelease(t)
    BY <1>1, <1>9, <2>2 DEF Leave, Return, redisVars
  <2>3. QED
    BY <2>1, <2>2
<1>10. ASSUME NEW t \in Task, Release(t) PROVE Leased(s)'
  <2>1. CASE s = t
    BY <1>10, <2>1 DEF Release
  <2>2. CASE s # t /\ lease[s] > 0 /\ want[s] = want[t]
    <3>1. store[want[t]] # tok[t]
      BY <1>1, <1>2, <2>2
    <3>2. QED
      BY <1>1, <1>10, <2>2, <3>1 DEF Release, CompareAndDelete, redisVars
  <2>3. CASE s # t /\ lease[s] > 0 /\ want[s] # want[t]
    <3>1. store'[want[s]] = store[want[s]] /\ ttl'[want[s]] = ttl[want[s]]
      BY <1>10, <2>3 DEF Release, CompareAndDelete, redisVars
    <3>2. QED
      BY <1>1, <1>10, <2>3, <3>1 DEF Release
  <2>4. CASE s # t /\ ~(lease[s] > 0)
    BY <1>10, <2>4 DEF Release
  <2>5. QED
    BY <2>1, <2>2, <2>3, <2>4
<1>11. ASSUME NEW t \in Task, ReleaseFails(t) PROVE Leased(s)'
  BY <1>1, <1>11 DEF ReleaseFails, redisVars
<1>12. ASSUME NEW t \in Task, Forget(t) PROVE Leased(s)'
  <2>1. CASE s = t
    BY <1>1, <1>12, <2>1 DEF Forget
  <2>2. CASE s # t
    BY <1>1, <1>12, <2>2 DEF Forget, Return, redisVars
  <2>3. QED
    BY <2>1, <2>2
<1>13. ASSUME NEW p \in Proc, NEW e \in Key \X Token, CloseOne(p, e)
       PROVE  Leased(s)'
  <2>1. lease'[s] = IF tok[s] = e[2] THEN 0 ELSE lease[s]
    BY <1>13 DEF CloseOne
  <2>2. UNCHANGED taskVars
    BY <1>13 DEF CloseOne
  <2>3. CASE lease[s] > 0 /\ tok[s] # e[2]
    <3>1. store'[want[s]] = store[want[s]] /\ ttl'[want[s]] = ttl[want[s]]
      BY <1>1, <1>13, <2>3 DEF CloseOne, CompareAndDelete, redisVars
    <3>2. QED
      BY <1>1, <2>1, <2>2, <2>3, <3>1 DEF taskVars
  <2>4. CASE ~(lease[s] > 0) \/ tok[s] = e[2]
    BY <2>1, <2>4
  <2>5. QED
    BY <2>3, <2>4
<1>14. ASSUME NEW p \in Proc, Crash(p) PROVE Leased(s)'
  BY <1>1, <1>14 DEF Crash, redisVars
<1>15. ASSUME Tick PROVE Leased(s)'
  <2>1. ttl'[want[s]] = Decrement(ttl[want[s]]) /\ lease'[s] = Decrement(lease[s])
    BY <1>15 DEF Tick
  <2>2. store'[want[s]] = IF ttl[want[s]] = 1 THEN NoToken ELSE store[want[s]]
    BY <1>15 DEF Tick
  <2>3. QED
    BY <1>1, <1>15, <2>1, <2>2 DEF Tick, Decrement, taskVars
<1>16. ASSUME UNCHANGED <<redisVars, taskVars, lease>> PROVE Leased(s)'
  BY <1>1, <1>16 DEF redisVars, taskVars
<1>17. ASSUME NEW p \in Proc, CloseBegin(p) \/ CloseEnd(p) PROVE Leased(s)'
  BY <1>16, <1>17 DEF CloseBegin, CloseEnd
<1>18. CASE UNCHANGED vars
  BY <1>16, <1>18 DEF vars, redisVars, taskVars
<1>19. QED
  BY <1>3, <1>4, <1>5, <1>6, <1>7, <1>8, <1>9, <1>10, <1>11, <1>12, <1>13,
     <1>14, <1>15, <1>17, <1>18 DEF Next, TaskStep, ProcStep

LEMMA IInvInductive == IInv /\ [Next]_vars => IInv'
BY StepTypes, StepTokens, StepLeases DEF IInv

\* Two leases on one key would need one token in Redis for two coroutines.
LEMMA IInvExcludes == IInv => ExclusiveWithinLease
BY DEF IInv, TokenInv, LeaseInv, ExclusiveWithinLease

\* ExclusiveWithinLease: no two coroutines ever work under one key within
\* their leases (acquire and release, distributed_lock.py:43-107).
THEOREM Exclusive == Spec => []ExclusiveWithinLease
<1>1. Init => IInv
  BY InitIInv
<1>2. IInv /\ [Next]_vars => IInv'
  BY IInvInductive
<1>3. IInv => ExclusiveWithinLease
  BY IInvExcludes
<1>4. QED
  BY <1>1, <1>2, <1>3, PTL DEF Spec
-----------------------------------------------------------------------------
(* Only an owner releases                                                  *)

\* OnlyOwnerReleases: a token leaves Redis by expiry, or by a release or a
\* shutdown that names it (Lua script, distributed_lock.py:86-93).
THEOREM OwnerReleases == Spec => OnlyOwnerReleases
<1> DEFINE Owned(k) ==
      \/ ttl[k] = 1 /\ store'[k] = NoToken
      \/ \E t \in Task : pc[t] = "releasing" /\ tok[t] = store[k]
      \/ \E p \in Proc : <<k, store[k]>> \in closing[p]
<1> DEFINE Gone(k) == store[k] # NoToken /\ store'[k] # store[k]
<1>1. ASSUME TypeOK, [Next]_vars, NEW k \in Key, Gone(k) PROVE Owned(k)
  <2> USE DEF TypeOK, RedisTypeOK, TaskTypeOK
  <2>1. ASSUME NEW t \in Task, TaskStep(t) PROVE Owned(k)
    <3>1. CASE TryAcquire(t) \/ AcquireReplyLost(t)
      BY <1>1, <3>1 DEF TryAcquire, AcquireReplyLost, SetNxEx
    <3>2. CASE Release(t)
      BY <1>1, <3>2 DEF Release, CompareAndDelete, redisVars
    <3>3. CASE UNCHANGED store
      BY <1>1, <3>3
    <3>4. QED
      BY <2>1, <3>1, <3>2, <3>3 DEF TaskStep, Enter, GiveUp, Resume, Extend,
         Leave, ReleaseFails, Forget, redisVars
  <2>2. ASSUME NEW p \in Proc, ProcStep(p) PROVE Owned(k)
    <3>1. ASSUME NEW e \in Key \X Token, CloseOne(p, e) PROVE Owned(k)
      <4>1. store[e[1]] = e[2] /\ k = e[1]
        BY <1>1, <3>1 DEF CloseOne, CompareAndDelete, redisVars
      <4>2. e = <<k, store[k]>> /\ e \in closing[p]
        BY <3>1, <4>1 DEF CloseOne
      <4>3. QED
        BY <4>2
    <3>2. CASE UNCHANGED store
      BY <1>1, <3>2
    <3>3. QED
      BY <2>2, <3>1, <3>2 DEF ProcStep, CloseBegin, CloseEnd, Crash, redisVars
  <2>3. CASE Tick
    BY <1>1, <2>3 DEF Tick
  <2>4. CASE UNCHANGED vars
    BY <1>1, <2>4 DEF vars
  <2>5. QED
    BY <1>1, <2>1, <2>2, <2>3, <2>4 DEF Next
<1>2. TypeOK /\ [Next]_vars => [\A k \in Key : Gone(k) => Owned(k)]_vars
  BY <1>1
<1>3. QED
  BY <1>2, TypeCorrect, PTL DEF Spec, OnlyOwnerReleases

-----------------------------------------------------------------------------
(* The Redis lock implements LeaseLock                                     *)

Works(t, k) == lease[t] > 0 /\ want[t] = k

\* A coroutine whose lease on a key starts finds no lease of another on it.
LEMMA NoHandover ==
  ASSUME IInv, [Next]_vars, NEW k \in Key, NEW s \in Task, NEW t \in Task,
         Works(s, k), Works(t, k)', ~ Works(t, k)
  PROVE  s = t
<1> USE DEF Works, IInv, TypeOK, RedisTypeOK, TaskTypeOK, NoToken
<1>1. store[k] = tok[s] /\ tok[s] # NoToken
  BY DEF LeaseInv
<1>2. CASE ~(lease[t] > 0)
  <2>1. TryAcquire(t) \/ Extend(t)
    <3>1. lease'[t] # lease[t]
      BY <1>2
    <3>2. ASSUME NEW r \in Task, TaskStep(r) PROVE r = t /\ (TryAcquire(t) \/ Extend(t))
      <4>1. CASE TryAcquire(r) \/ Extend(r)
        BY <3>1, <4>1 DEF TryAcquire, Extend
      <4>2. lease'[t] # 0
        OBVIOUS
      <4>3. CASE Leave(r) \/ Release(r) \/ ReleaseFails(r)
        BY <3>1, <4>2, <4>3 DEF Leave, Release, ReleaseFails
      <4>4. QED
        BY <3>1, <3>2, <4>1, <4>3 DEF TaskStep, Enter, AcquireReplyLost, GiveUp,
           Resume, Forget
    <3>3. ASSUME NEW p \in Proc, ProcStep(p) PROVE FALSE
      <4>1. ASSUME NEW e \in Key \X Token, CloseOne(p, e) PROVE FALSE
        BY <3>1, <4>1 DEF CloseOne
      <4>2. CASE Crash(p)
        BY <3>1, <4>2 DEF Crash
      <4>3. QED
        BY <3>1, <3>3, <4>1, <4>2 DEF ProcStep, CloseBegin, CloseEnd
    <3>4. ASSUME Tick PROVE FALSE
      BY <1>2, <3>1, <3>4 DEF Tick, Decrement
    <3>5. CASE UNCHANGED vars
      BY <3>1, <3>5 DEF vars
    <3>6. QED
      BY <3>2, <3>3, <3>4, <3>5 DEF Next
  <2>2. CASE TryAcquire(t)
    <3>1. want[t] = k
      BY <2>2 DEF TryAcquire
    <3>2. QED
      BY <1>1, <2>2, <3>1 DEF TryAcquire, SetNxEx
  <2>3. CASE Extend(t)
    <3>1. want[t] = k /\ store[k] = tok[t]
      BY <2>3 DEF Extend, taskVars
    <3>2. QED
      BY <1>1, <3>1 DEF TokenInv
  <2>4. QED
    BY <2>1, <2>2, <2>3
<1>3. CASE lease[t] > 0
  <2>1. want'[t] # want[t]
    BY <1>3
  <2>2. pc[t] # "idle"
    BY <1>3 DEF LeaseInv, Holding
  <2>3. want'[t] = want[t]
    <3>1. ASSUME NEW r \in Task, TaskStep(r) PROVE want'[t] = want[t]
      <4>1. ASSUME NEW x \in Key, NEW m \in BOOLEAN, Enter(r, x, m)
            PROVE  want'[t] = want[t]
        BY <2>2, <4>1 DEF Enter
      <4>2. QED
        BY <3>1, <4>1 DEF TaskStep, TryAcquire, AcquireReplyLost, GiveUp, Resume,
           Extend, Leave, Release, ReleaseFails, Forget, taskVars
    <3>2. ASSUME NEW p \in Proc, ProcStep(p) PROVE want'[t] = want[t]
      BY <3>2 DEF ProcStep, CloseBegin, CloseOne, CloseEnd, Crash, taskVars
    <3>3. QED
      BY <3>1, <3>2 DEF Next, Tick, taskVars, vars
  <2>4. QED
    BY <2>1, <2>3
<1>4. QED
  BY <1>2, <1>3

\* The owner of a key is whoever works under it, if anybody does.
LEMMA OwnerIs ==
  ASSUME NEW k \in Key
  PROVE  /\ Owner(k) \in Task \cup {NoTask}
         /\ Owner(k) \in Task => Works(Owner(k), k)
         /\ (\E t \in Task : Works(t, k)) => Owner(k) \in Task
<1>1. CASE \E t \in Task : Works(t, k)
  <2>1. Owner(k) = CHOOSE t \in Task : Works(t, k)
    BY <1>1 DEF Owner, Works
  <2>2. QED
    BY <1>1, <2>1
<1>2. CASE ~ \E t \in Task : Works(t, k)
  BY <1>2, LockAssumption DEF Owner, Works
<1>3. QED
  BY <1>1, <1>2
LEMMA OwnerIsNext ==
  ASSUME NEW k \in Key
  PROVE  /\ Owner(k)' \in Task \cup {NoTask}
         /\ Owner(k)' \in Task => \E t \in Task : t = Owner(k)' /\ Works(t, k)'
         /\ (\E t \in Task : Works(t, k)') => Owner(k)' \in Task
<1>1. CASE \E t \in Task : Works(t, k)'
  <2>1. Owner(k)' = CHOOSE t \in Task : Works(t, k)'
    BY <1>1 DEF Owner, Works
  <2>2. QED
    BY <1>1, <2>1
<1>2. CASE ~ \E t \in Task : Works(t, k)'
  BY <1>2, LockAssumption DEF Owner, Works
<1>3. QED
  BY <1>1, <1>2

\* At most one coroutine works under a key.
LEMMA WorksAlone ==
  ASSUME IInv, NEW k \in Key, NEW s \in Task, NEW t \in Task,
         Works(s, k), Works(t, k)
  PROVE  s = t
BY IInvExcludes DEF ExclusiveWithinLease, Works

LEMMA LeaseInit == Init => Lease!Init
<1> SUFFICES ASSUME Init, NEW k \in Key PROVE Owner(k) = NoTask
  BY DEF Lease!Init
<1>1. \A t \in Task : ~ Works(t, k)
  BY DEF Init, Works
<1>2. QED
  BY <1>1 DEF Owner, Works

LEMMA LeaseStep ==
  ASSUME IInv, [Next]_vars
  PROVE  Lease!Next
<1>1. [k \in Key |-> Owner(k)]' \in [Key -> Task \cup {NoTask}]
  BY OwnerIsNext
<1>2. ASSUME NEW k \in Key
      PROVE  \/ Owner(k)' = Owner(k)
             \/ Owner(k) = NoTask /\ Owner(k)' \in Task
             \/ Owner(k) \in Task /\ Owner(k)' = NoTask
  <2>1. CASE Owner(k) \in Task /\ Owner(k)' \in Task
    <3>1. Works(Owner(k), k)
      BY <2>1, OwnerIs
    <3>2. PICK t \in Task : t = Owner(k)' /\ Works(t, k)'
      BY <2>1, OwnerIsNext
    <3>3. CASE Works(t, k)
      BY <2>1, <3>1, <3>2, <3>3, WorksAlone
    <3>4. CASE ~ Works(t, k)
      BY <2>1, <3>1, <3>2, <3>4, NoHandover
    <3>5. QED
      BY <3>3, <3>4
  <2>2. QED
    BY <2>1, OwnerIs, OwnerIsNext
<1>3. ASSUME NEW k \in Key
      PROVE  \/ [x \in Key |-> Owner(x)]'[k] = [x \in Key |-> Owner(x)][k]
             \/ Lease!Grant(k)
             \/ Lease!Forfeit(k)
  BY <1>2, <1>3 DEF Lease!Grant, Lease!Forfeit
<1>4. QED
  BY <1>1, <1>3 DEF Lease!Next

\* ImplementsLease: the Redis lock is an abstract lease lock; the right to work
\* under a key never passes from one coroutine directly to another
\* (distributed_lock.py:43-107).
THEOREM Refines == Spec => ImplementsLease
<1>1. Init => IInv /\ Lease!Init
  BY InitIInv, LeaseInit
<1>2. IInv /\ [Next]_vars => IInv'
  BY IInvInductive
<1>3. IInv /\ [Next]_vars => [Lease!Next]_([k \in Key |-> Owner(k)])
  BY LeaseStep
<1>4. QED
  BY <1>1, <1>2, <1>3, PTL DEF Spec, ImplementsLease, Lease!Spec

-----------------------------------------------------------------------------
(* The monitoring of signals: types                                        *)

\* A call that asks for a connection has attempts left, and none is under way when the
\* symbols are read.
CallInv ==
    /\ \A k \in Caller : call[k] \in {"none", "begin"} => tries[k] = 0
    /\ \A k \in Caller : call[k] = "asking" => tries[k] < Attempts
    /\ sync \in {"idle", "reading"} => \A k \in Caller : call[k] = "none"
    /\ sync = "starting" => \A k \in Caller \ {First} : call[k] = "none"

SignalInv == SignalTypeOK /\ CallInv

LEMMA OtherIn ==
  ASSUME NEW S, NEW T, S \ T # {}
  PROVE  Other(S, T) \in S /\ Other(S, T) \notin T
BY DEF Other

LEMMA EventTypes ==
  /\ Lost \in EventType
  /\ \A k \in {"connect", "close", "lost", "price", "pingpong"} : Plain(k) \in EventType
  /\ \A s \in Symbol : About("subscribe", s) \in EventType /\ About("send", s) \in EventType
BY DEF Lost, EventType

LEMMA TakeTypes ==
  ASSUME NEW q \in Seq(EventType), q # <<>>
  PROVE  Tail(q) \in Seq(EventType) /\ Head(q) \in EventType
OBVIOUS

LEMMA PostTypes ==
  ASSUME NEW q \in Seq(EventType), NEW x \in EventType
  PROVE  Append(q, x) \in Seq(EventType)
OBVIOUS

LEMMA SymbolOf ==
  ASSUME NEW x \in EventType, x.kind \in {"subscribe", "send"}
  PROVE  x.symbol \in Symbol
BY DEF EventType, Plain, About

LEMMA CountTypes ==
  ASSUME events \in 0..MaxEvents, Event
  PROVE  events' \in 0..MaxEvents
BY SocketAssumption DEF Event

LEMMA SocketInitTypes == SocketInit => SocketTypeOK
<1> SUFFICES ASSUME SocketInit PROVE SocketTypeOK
  OBVIOUS
<1>1. current \in Loop
  BY SocketAssumption, OtherIn DEF SocketInit
<1>2. <<>> \in Seq(EventType) /\ <<Lost>> \in Seq(EventType)
  BY EventTypes
<1>3. queue \in Seq(EventType)
  BY <1>2 DEF SocketInit
<1>4. served \in [Conn -> SUBSET Symbol] /\ events \in 0..MaxEvents
  BY SocketAssumption DEF SocketInit
<1>5. /\ busy \in [Loop -> {"idle", "connecting", "closing"}]
      /\ recv \in [Conn -> {"off", "starting", "reading", "cancelled"}]
      /\ reads \in [Conn -> Conn \cup {NoConn}]
  BY DEF SocketInit
<1>6. QED
  BY <1>1, <1>3, <1>4, <1>5 DEF SocketInit, SocketTypeOK, State

LEMMA ContinueTypes ==
  ASSUME SocketTypeOK, NEW r \in Conn, NEW q \in Seq(EventType), Continue(r, q), Unchanged,
         events' \in 0..MaxEvents
  PROVE  SocketTypeOK'
<1>1. queue' \in Seq(EventType)
  BY PostTypes, EventTypes DEF Continue
<1>2. recv' \in [Conn -> {"off", "starting", "reading", "cancelled"}]
  BY DEF Continue, SocketTypeOK
<1>3. reads' \in [Conn -> Conn \cup {NoConn}]
  BY DEF Continue, SocketTypeOK
<1>4. QED
  BY <1>1, <1>2, <1>3 DEF Unchanged, loopVars, SocketTypeOK

LEMMA CancelTypes ==
  ASSUME SocketTypeOK, CancelLatest
  PROVE  recv' \in [Conn -> {"off", "starting", "reading", "cancelled"}]
<1>1. CASE latest = NoConn
  BY <1>1 DEF CancelLatest, SocketTypeOK
<1>2. CASE latest # NoConn
  BY <1>2 DEF CancelLatest, SocketTypeOK
<1>3. QED
  BY <1>1, <1>2

LEMMA BackTypes ==
  ASSUME SocketTypeOK, NEW l \in Loop, BackToQueue(l)
  PROVE  alive' \in SUBSET Loop
BY DEF BackToQueue, SocketTypeOK

LEMMA LoopTypes ==
  ASSUME SocketTypeOK, NEW l \in Loop, LoopStep(l) \/ ConnectFails(l)
  PROVE  SocketTypeOK'
<1> USE DEF State
<1>1. CASE HandleConnect(l)
  BY <1>1, TakeTypes DEF HandleConnect, Take, recvVars, SocketTypeOK
<1>2. CASE Connected(l)
  <2> DEFINE c == Other(Conn, InUse)
  <2>1. c \in Conn
    BY <1>2, OtherIn DEF Connected
  <2> HIDE DEF c
  <2>2. /\ socket' = c /\ open' = open \cup {c} /\ latest' = c
        /\ served' = [served EXCEPT ![c] = {}] /\ recv' = [recv EXCEPT ![c] = "starting"]
        /\ state' = "connected" /\ waiting' = {} /\ busy' = [busy EXCEPT ![l] = "idle"]
        /\ UNCHANGED <<queue, running, current, reads, untidy, events>>
    BY <1>2 DEF Connected, c
  <2>3. alive' \in SUBSET Loop
    BY <1>2, BackTypes DEF Connected
  <2>4. served' \in [Conn -> SUBSET Symbol]
        /\ recv' \in [Conn -> {"off", "starting", "reading", "cancelled"}]
    BY <2>1, <2>2 DEF SocketTypeOK
  <2>5. QED
    BY <2>1, <2>2, <2>3, <2>4 DEF SocketTypeOK
<1>3. CASE HandleSubscribe(l)
  <2>1. queue' \in Seq(EventType)
    <3>1. Take(l, "subscribe") /\ queue' = Append(Tail(queue), About("send", Head(queue).symbol))
      BY <1>3 DEF HandleSubscribe
    <3>2. /\ Tail(queue) \in Seq(EventType) /\ Head(queue) \in EventType
          /\ Head(queue).kind = "subscribe"
      BY <3>1, TakeTypes DEF Take, SocketTypeOK
    <3>3. About("send", Head(queue).symbol) \in EventType
      BY <3>2, SymbolOf, EventTypes
    <3>4. QED
      BY <3>1, <3>2, <3>3, PostTypes
  <2>2. QED
    BY <1>3, <2>1, BackTypes DEF HandleSubscribe, recvVars, SocketTypeOK
<1>4. CASE HandleSend(l)
  <2>1. Take(l, "send") /\ queue' = Tail(queue)
    BY <1>4 DEF HandleSend
  <2>2. Tail(queue) \in Seq(EventType) /\ Head(queue).symbol \in Symbol
    BY <2>1, TakeTypes, SymbolOf DEF Take, SocketTypeOK
  <2>3. served' \in [Conn -> SUBSET Symbol]
    BY <1>4, <2>2 DEF HandleSend, SocketTypeOK
  <2>4. alive' \in SUBSET Loop
    BY <1>4, BackTypes DEF HandleSend
  <2>5. QED
    BY <1>4, <2>1, <2>2, <2>3, <2>4 DEF HandleSend, recvVars, SocketTypeOK
<1>5. CASE HandleLost(l)
  BY <1>5, TakeTypes, BackTypes DEF HandleLost, Take, recvVars, SocketTypeOK
<1>6. CASE HandleClose(l)
  <2>1. queue' \in Seq(EventType)
    BY <1>6, TakeTypes DEF HandleClose, Take, SocketTypeOK
  <2>2. recv' \in [Conn -> {"off", "starting", "reading", "cancelled"}]
    BY <1>6, CancelTypes DEF HandleClose
  <2>3. busy' \in [Loop -> {"idle", "connecting", "closing"}]
    BY <1>6 DEF HandleClose, SocketTypeOK
  <2>4. QED
    BY <1>6, <2>1, <2>2, <2>3 DEF HandleClose, SocketTypeOK
<1>7. CASE Closed(l)
  <2>1. served' \in [Conn -> SUBSET Symbol] /\ busy' \in [Loop -> {"idle", "connecting", "closing"}]
    BY <1>7 DEF Closed, SocketTypeOK
  <2>2. QED
    BY <1>7, <2>1, BackTypes DEF Closed, recvVars, SocketTypeOK
<1>8. CASE HandlePrice(l)
  BY <1>8, TakeTypes, BackTypes DEF HandlePrice, Take, recvVars, SocketTypeOK
<1>9. CASE LoopEnds(l)
  BY <1>9 DEF LoopEnds, recvVars, SocketTypeOK
<1>10. CASE ConnectFails(l)
  <2>1. events' \in 0..MaxEvents
    BY <1>10, CountTypes DEF ConnectFails, SocketTypeOK
  <2>2. QED
    BY <1>10, <2>1, BackTypes DEF ConnectFails, recvVars, SocketTypeOK
<1>11. QED
  BY <1>1, <1>2, <1>3, <1>4, <1>5, <1>6, <1>7, <1>8, <1>9, <1>10 DEF LoopStep

LEMMA RecvTypes ==
  ASSUME SocketTypeOK, NEW r \in Conn,
         RecvStart(r) \/ RecvPrice(r) \/ RecvPingpong(r) \/ RecvEnds(r)
  PROVE  SocketTypeOK'
<1>1. CASE RecvStart(r)
  BY <1>1, ContinueTypes DEF RecvStart, SocketTypeOK
<1>2. CASE RecvPrice(r)
  BY <1>2, ContinueTypes, PostTypes, EventTypes DEF RecvPrice, SocketTypeOK
<1>3. CASE RecvPingpong(r)
  <2>1. events' \in 0..MaxEvents /\ Append(queue, Plain("pingpong")) \in Seq(EventType)
    BY <1>3, CountTypes, PostTypes, EventTypes DEF RecvPingpong, SocketTypeOK
  <2>2. QED
    BY <1>3, <2>1, ContinueTypes DEF RecvPingpong
<1>4. CASE RecvEnds(r)
  <2>1. queue' \in Seq(EventType)
    BY <1>4, PostTypes, EventTypes DEF RecvEnds, SocketTypeOK
  <2>2. recv' \in [Conn -> {"off", "starting", "reading", "cancelled"}]
        /\ reads' \in [Conn -> Conn \cup {NoConn}]
    BY <1>4 DEF RecvEnds, SocketTypeOK
  <2>3. QED
    BY <1>4, <2>1, <2>2 DEF RecvEnds, Unchanged, loopVars, SocketTypeOK
<1>5. QED
  BY <1>1, <1>2, <1>3, <1>4

LEMMA ClosesTypes ==
  ASSUME SocketTypeOK, NEW c \in Conn, ConnectionCloses(c)
  PROVE  SocketTypeOK'
<1>1. events' \in 0..MaxEvents
  BY CountTypes DEF ConnectionCloses, SocketTypeOK
<1>2. QED
  BY <1>1 DEF ConnectionCloses, loopVars, recvVars, SocketTypeOK

LEMMA ConnectTypes ==
  ASSUME SocketTypeOK, NEW k \in Caller, Connect(k), UNCHANGED events
  PROVE  SocketTypeOK'
<1>1. queue' \in Seq(EventType)
  BY PostTypes, EventTypes DEF Connect, SocketTypeOK
<1>2. alive' \in SUBSET Loop /\ current' \in Loop /\ running' \in BOOLEAN /\ busy' = busy
  <2>1. CASE running
    BY <2>1 DEF Connect, Start, loopVars, SocketTypeOK
  <2>2. CASE ~ running
    BY <2>2, OtherIn DEF Connect, Start, SocketTypeOK
  <2>3. QED
    BY <2>1, <2>2
<1>3. QED
  BY <1>1, <1>2 DEF Connect, recvVars, SocketTypeOK

LEMMA SubscribeTypes ==
  ASSUME SocketTypeOK, NEW s \in Symbol, Subscribe(s), UNCHANGED events
  PROVE  SocketTypeOK'
<1>1. queue' \in Seq(EventType)
  BY PostTypes, EventTypes DEF Subscribe, SocketTypeOK
<1>2. QED
  BY <1>1 DEF Subscribe, loopVars, recvVars, SocketTypeOK

LEMMA SocketSame == SocketTypeOK /\ UNCHANGED <<socketVars, events>> => SocketTypeOK'
BY DEF socketVars, loopVars, recvVars, SocketTypeOK

\* The calls of subscribe_symbol, and what the monitoring keeps beside the connection.
CallTypeOK ==
    /\ call \in [Caller -> {"none", "begin", "asking", "waiting", "settling"}]
    /\ tries \in [Caller -> 0..Attempts]

AimTypeOK ==
    /\ alarms \in SUBSET (Shard \X Symbol)
    /\ monitoring \in SUBSET Symbol
    /\ polled \in SUBSET Symbol
    /\ fallback \in BOOLEAN
    /\ stopper \in [Stopper -> {"none", "sleeping", "closing", "stopping",
                            "cancelling", "joining"}]
    /\ joins \in [Stopper -> Loop]
    /\ sync \in {"starting", "idle", "reading", "subscribing"}
    /\ found \in SUBSET Symbol
    /\ changes \in 0..MaxChanges

LEMMA SignalParts == SignalTypeOK <=> SocketTypeOK /\ CallTypeOK /\ AimTypeOK
BY DEF SignalTypeOK, CallTypeOK, AimTypeOK

LEMMA HandlePingpongTypes ==
  ASSUME SocketTypeOK, NEW l \in Loop, HandlePingpong(l)
  PROVE  SocketTypeOK'
<1>1. queue' \in Seq(EventType)
  BY TakeTypes DEF HandlePingpong, Take, SocketTypeOK
<1>2. QED
  BY <1>1, BackTypes DEF HandlePingpong, recvVars, SocketTypeOK

LEMMA CallSocketTypes ==
  ASSUME SocketTypeOK, NEW k \in Caller, CallStep(k)
  PROVE  SocketTypeOK'
<1> k \in Symbol
  BY SignalAssumption
<1>1. CASE CallNotNeeded(k)
  BY <1>1, SocketSame DEF CallNotNeeded
<1>2. CASE CallBegins(k)
  BY <1>2, SocketSame, SubscribeTypes DEF CallBegins
<1>3. CASE CallConnects(k)
  BY <1>3, ConnectTypes DEF CallConnects
<1>4. CASE CallHasNoKey(k)
  <2>1. events' \in 0..MaxEvents
    BY <1>4, CountTypes DEF CallHasNoKey, SocketTypeOK
  <2>2. QED
    BY <1>4, <2>1 DEF CallHasNoKey, socketVars, loopVars, recvVars, SocketTypeOK
<1>5. CASE CallSubscribes(k)
  BY <1>5, SubscribeTypes DEF CallSubscribes
<1>6. CASE CallTimesOut(k)
  <2>1. events' \in 0..MaxEvents
    BY <1>6, CountTypes DEF CallTimesOut, SocketTypeOK
  <2>2. QED
    BY <1>6, <2>1 DEF CallTimesOut, loopVars, recvVars, SocketTypeOK
<1>7. CASE CallEnds(k)
  BY <1>7, SocketSame DEF CallEnds
<1>8. QED
  BY <1>1, <1>2, <1>3, <1>4, <1>5, <1>6, <1>7 DEF CallStep

LEMMA StopperTypes ==
  ASSUME SocketTypeOK, NEW x \in Stopper, StopperStep(x)
  PROVE  SocketTypeOK'
<1>1. CASE StopperBegins(x)
  <2>1. queue' \in Seq(EventType)
    BY <1>1, PostTypes, EventTypes DEF StopperBegins, SocketTypeOK
  <2>2. QED
    BY <1>1, <2>1 DEF StopperBegins, loopVars, recvVars, SocketTypeOK
<1>2. CASE StopperStops(x)
  <2>1. events' \in 0..MaxEvents
    BY <1>2, CountTypes DEF StopperStops, SocketTypeOK
  <2>2. QED
    BY <1>2, <2>1 DEF StopperStops, socketVars, loopVars, recvVars, SocketTypeOK
<1>3. CASE StopperCancels(x)
  <2>1. recv' \in [Conn -> {"off", "starting", "reading", "cancelled"}]
    BY <1>3, CancelTypes DEF StopperCancels
  <2>2. QED
    BY <1>3, <2>1 DEF StopperCancels, SocketTypeOK
<1>4. CASE StopperJoins(x)
  BY <1>4, SocketSame DEF StopperJoins
<1>5. CASE StopperEnds(x)
  BY <1>5, SocketSame DEF StopperEnds
<1>6. QED
  BY <1>1, <1>2, <1>3, <1>4, <1>5 DEF StopperStep

LEMMA SocketTypes ==
  ASSUME SocketTypeOK, [SignalNext]_marketVars
  PROVE  SocketTypeOK'
<1>1. CASE SocketStep
  BY <1>1, LoopTypes, RecvTypes, ClosesTypes DEF SocketStep
<1>2. CASE \E r \in Conn : RecvPingpong(r)
  BY <1>2, RecvTypes
<1>3. CASE \E l \in Loop : HandlePingpong(l)
  BY <1>3, HandlePingpongTypes
<1>4. CASE \E k \in Caller : CallStep(k)
  BY <1>4, CallSocketTypes
<1>5. CASE InitEnds \/ SyncBegins \/ SyncEnds \/ HealthMonitor
  BY <1>5, SocketSame DEF InitEnds, SyncBegins, SyncEnds, HealthMonitor
<1>6. CASE SyncGivesUp \/ \E failing \in SUBSET Shard : SyncReads(failing)
  <2>1. events' \in 0..MaxEvents /\ UNCHANGED socketVars
    BY <1>6, CountTypes DEF SyncGivesUp, SyncReads, SocketTypeOK
  <2>2. QED
    BY <2>1 DEF socketVars, loopVars, recvVars, SocketTypeOK
<1>7. CASE \E d \in Shard, s \in Symbol : AlarmChanges(d, s)
  BY <1>7, SocketSame DEF AlarmChanges
<1>8. CASE \E x \in Stopper : StopperStep(x)
  BY <1>8, StopperTypes
<1>9. CASE UNCHANGED marketVars
  BY <1>9, SocketSame DEF marketVars
<1>10. QED
  BY <1>1, <1>2, <1>3, <1>4, <1>5, <1>6, <1>7, <1>8, <1>9 DEF SignalNext

\* The calls under one step: each keeps its attempts, and none begins but with the
\* synchronisation.
LEMMA CallKept ==
  ASSUME SignalInv, NEW k \in Caller, CallStep(k)
  PROVE  CallTypeOK' /\ CallInv' /\ AimTypeOK'
<1> USE SignalAssumption
<1>0. CallTypeOK /\ AimTypeOK /\ CallInv
  BY SignalParts DEF SignalInv
<1>1. /\ sync' = sync /\ alarms' = alarms /\ fallback' = fallback /\ found' = found
      /\ changes' = changes /\ stopper' = stopper /\ joins' = joins
      /\ call[k] # "none"
  BY DEF CallStep, CallNotNeeded, CallBegins, CallConnects, CallHasNoKey, CallSubscribes,
         CallTimesOut, CallEnds, Elsewhere, aimVars, stopVars, syncVars
<1>2. sync \notin {"idle", "reading"} /\ (sync = "starting" => k = First)
  BY <1>0, <1>1 DEF CallInv
<1>3. AimTypeOK'
  <2>1. monitoring' \in SUBSET Symbol /\ polled' \in SUBSET Symbol
    BY <1>0 DEF CallStep, CallNotNeeded, CallBegins, CallConnects, CallHasNoKey,
         CallSubscribes, CallTimesOut, CallEnds, Elsewhere, aimVars, AimTypeOK, Poll
  <2>2. QED
    BY <1>0, <1>1, <2>1 DEF AimTypeOK
<1>4. \E w \in {"none", "begin", "asking", "waiting", "settling"}, n \in 0..Attempts :
        /\ call' = [call EXCEPT ![k] = w] /\ tries' = [tries EXCEPT ![k] = n]
        /\ w \in {"none", "begin"} => n = 0
        /\ w = "asking" => n < Attempts
  <2> DEFINE W(w, n) == /\ call' = [call EXCEPT ![k] = w] /\ tries' = [tries EXCEPT ![k] = n]
                        /\ w \in {"none", "begin"} => n = 0
                        /\ w = "asking" => n < Attempts
  <2>0. /\ tries[k] \in 0..Attempts /\ 0 \in 0..Attempts
        /\ call = [call EXCEPT ![k] = call[k]]
        /\ tries = [tries EXCEPT ![k] = tries[k]]
    BY <1>0 DEF CallTypeOK
  <2>1. CASE CallNotNeeded(k) \/ CallEnds(k)
    <3>1. W("none", 0)
      BY <2>1 DEF CallNotNeeded, CallEnds, CallOver, Goto
    <3>2. QED
      BY <2>0, <3>1
  <2>2. CASE CallBegins(k)
    <3>1. tries[k] = 0
      BY <1>0, <2>2 DEF CallBegins, CallInv
    <3>2. W("settling", 0) \/ W("asking", 0)
      BY <2>0, <2>2, <3>1 DEF CallBegins, Goto
    <3>3. QED
      BY <3>2
  <2>3. CASE CallConnects(k)
    <3>1. tries[k] + 1 \in 0..Attempts
      BY <1>0, <2>0, <2>3 DEF CallConnects, CallInv
    <3>2. W("waiting", tries[k] + 1)
      BY <2>3 DEF CallConnects, Goto
    <3>3. QED
      BY <3>1, <3>2
  <2>4. CASE CallHasNoKey(k)
    <3>1. CASE tries[k] + 1 < Attempts
      <4>1. call' = [call EXCEPT ![k] = "asking"]
        BY <2>0, <2>4, <3>1 DEF CallHasNoKey
      <4>2. W("asking", tries[k] + 1) /\ tries[k] + 1 \in 0..Attempts
        BY <2>0, <2>4, <3>1, <4>1 DEF CallHasNoKey
      <4>3. QED
        BY <4>2
    <3>2. CASE ~ (tries[k] + 1 < Attempts)
      <4>1. W("none", 0)
        BY <2>4, <3>2 DEF CallHasNoKey, CallOver, Goto
      <4>2. QED
        BY <2>0, <4>1
    <3>3. QED
      BY <3>1, <3>2
  <2>5. CASE CallSubscribes(k)
    <3>1. W("settling", tries[k])
      BY <2>0, <2>5 DEF CallSubscribes, Goto
    <3>2. QED
      BY <2>0, <3>1
  <2>6. CASE CallTimesOut(k)
    <3>1. W("none", 0) \/ (W("asking", tries[k]) /\ tries[k] < Attempts)
      BY <2>0, <2>6 DEF CallTimesOut, CallOver, Goto
    <3>2. QED
      BY <2>0, <3>1
  <2>7. QED
    BY <2>1, <2>2, <2>3, <2>4, <2>5, <2>6 DEF CallStep
<1>5. PICK w \in {"none", "begin", "asking", "waiting", "settling"}, n \in 0..Attempts :
        /\ call' = [call EXCEPT ![k] = w] /\ tries' = [tries EXCEPT ![k] = n]
        /\ w \in {"none", "begin"} => n = 0
        /\ w = "asking" => n < Attempts
  BY <1>4
<1>6. CallTypeOK'
  BY <1>0, <1>5 DEF CallTypeOK
<1>7. CallInv'
  BY <1>0, <1>1, <1>2, <1>5 DEF CallInv, CallTypeOK
<1>8. QED
  BY <1>3, <1>6, <1>7

LEMMA SyncKept ==
  ASSUME SignalInv, NEW failing \in SUBSET Shard, SyncReads(failing)
  PROVE  CallTypeOK' /\ CallInv' /\ AimTypeOK'
<1> USE SignalAssumption
<1>1. CallTypeOK /\ AimTypeOK /\ CallInv
  BY SignalParts DEF SignalInv
<1>2. found' \in SUBSET Symbol
  BY <1>1 DEF SyncReads, AimTypeOK
<1>3. AimTypeOK'
  BY <1>1, <1>2 DEF SyncReads, AimTypeOK, aimVars, stopVars
<1>4. /\ \A k \in Caller : tries[k] = 0 /\ call'[k] \in {"none", "begin"}
      /\ call' \in [Caller -> {"none", "begin", "asking", "waiting", "settling"}]
      /\ tries' = tries /\ sync' = "subscribing"
  BY <1>1 DEF SyncReads, CallInv, CallTypeOK
<1>5. QED
  BY <1>1, <1>3, <1>4 DEF CallTypeOK, CallInv

LEMMA RestKept ==
  ASSUME SignalInv, UNCHANGED callVars,
         \/ UNCHANGED signalVars
         \/ \E l \in Loop : HandlePingpong(l)
         \/ InitEnds \/ SyncBegins \/ SyncGivesUp \/ SyncEnds
         \/ \E d \in Shard, s \in Symbol : AlarmChanges(d, s)
         \/ \E x \in Stopper : StopperStep(x)
         \/ HealthMonitor
  PROVE  CallTypeOK' /\ CallInv' /\ AimTypeOK'
<1> USE SignalAssumption DEF callVars
<1>0. CallTypeOK /\ AimTypeOK /\ CallInv /\ SocketTypeOK
  BY SignalParts DEF SignalInv
<1>1. CallTypeOK'
  BY <1>0 DEF CallTypeOK
<1>2. CASE UNCHANGED signalVars
  BY <1>0, <1>1, <1>2 DEF signalVars, aimVars, stopVars, syncVars, AimTypeOK, CallInv
<1>3. CASE \E l \in Loop : HandlePingpong(l)
  BY <1>0, <1>1, <1>3 DEF HandlePingpong, syncVars, AimTypeOK, CallInv
<1>4. CASE InitEnds \/ SyncBegins \/ SyncGivesUp
  BY <1>0, <1>1, <1>4 DEF InitEnds, SyncBegins, SyncGivesUp, aimVars, stopVars, AimTypeOK,
     CallInv
<1>5. CASE SyncEnds
  BY <1>0, <1>1, <1>5 DEF SyncEnds, Kept, stopVars, AimTypeOK, CallInv
<1>6. CASE \E d \in Shard, s \in Symbol : AlarmChanges(d, s)
  <2>1. changes' \in 0..MaxChanges /\ alarms' \in SUBSET (Shard \X Symbol)
    BY <1>0, <1>6 DEF AlarmChanges, AimTypeOK
  <2>2. QED
    BY <1>0, <1>1, <1>6, <2>1 DEF AlarmChanges, stopVars, AimTypeOK, CallInv
<1>7. CASE \E x \in Stopper : StopperStep(x)
  <2> PICK x \in Stopper : StopperStep(x)
    BY <1>7
  <2>1. UNCHANGED syncVars /\ UNCHANGED <<alarms, monitoring, fallback>>
    BY DEF StopperStep, StopperBegins, StopperStops, StopperCancels, StopperJoins,
           StopperEnds, aimVars
  <2>2. \E w \in {"none", "sleeping", "closing", "stopping", "cancelling", "joining"} :
          stopper' = [stopper EXCEPT ![x] = w]
    BY DEF StopperStep, StopperBegins, StopperStops, StopperCancels, StopperJoins,
           StopperEnds
  <2>3. joins' = joins \/ \E l \in Loop : joins' = [joins EXCEPT ![x] = l]
    <3>1. Other(Loop, {}) \in Loop /\ current \in Loop
      BY <1>0, OtherIn, SocketAssumption DEF SocketTypeOK
    <3>2. QED
      BY <3>1 DEF StopperStep, StopperBegins, StopperStops, StopperCancels, StopperJoins,
           StopperEnds
  <2>4. polled' \in SUBSET Symbol
    BY <1>0 DEF StopperStep, StopperBegins, StopperStops, StopperCancels, StopperJoins,
           StopperEnds, Poll, aimVars, AimTypeOK
  <2>5. QED
    BY <1>0, <1>1, <2>1, <2>2, <2>3, <2>4 DEF syncVars, AimTypeOK, CallInv
<1>8. CASE HealthMonitor
  BY <1>0, <1>1, <1>8 DEF HealthMonitor, Poll, stopVars, syncVars, AimTypeOK, CallInv
<1>9. QED
  BY <1>2, <1>3, <1>4, <1>5, <1>6, <1>7, <1>8

LEMMA SignalKept == SignalInv /\ [SignalNext]_marketVars => SignalInv'
<1> SUFFICES ASSUME SignalInv, [SignalNext]_marketVars
             PROVE  SignalInv'
  OBVIOUS
<1>1. SocketTypeOK'
  BY SocketTypes, SignalParts DEF SignalInv
<1>2. CallTypeOK' /\ CallInv' /\ AimTypeOK'
  <2>1. CASE \E k \in Caller : CallStep(k)
    BY <2>1, CallKept
  <2>2. CASE \E failing \in SUBSET Shard : SyncReads(failing)
    BY <2>2, SyncKept
  <2>3. CASE UNCHANGED signalVars \/ UNCHANGED marketVars
    BY <2>3, RestKept DEF marketVars, signalVars
  <2>4. CASE \/ \E l \in Loop : HandlePingpong(l)
             \/ InitEnds \/ SyncBegins \/ SyncGivesUp \/ SyncEnds
             \/ \E d \in Shard, s \in Symbol : AlarmChanges(d, s)
             \/ \E x \in Stopper : StopperStep(x)
             \/ HealthMonitor
    <3>1. UNCHANGED callVars
      BY <2>4 DEF HandlePingpong, InitEnds, SyncBegins, SyncGivesUp, SyncEnds, AlarmChanges,
           StopperStep, StopperBegins, StopperStops, StopperCancels, StopperJoins,
           StopperEnds, HealthMonitor
    <3>2. QED
      BY <2>4, <3>1, RestKept
  <2>5. QED
    BY <2>1, <2>2, <2>3, <2>4 DEF SignalNext
<1>3. QED
  BY <1>1, <1>2 DEF SignalInv, SignalTypeOK, CallTypeOK, AimTypeOK

LEMMA SignalStart == SignalInit => SignalInv
<1> SUFFICES ASSUME SignalInit PROVE SignalInv
  OBVIOUS
<1> USE SignalAssumption
<1>1. SocketTypeOK
  BY SocketInitTypes DEF SignalInit
<1>2. CallTypeOK /\ CallInv
  BY DEF SignalInit, CallTypeOK, CallInv
<1>3. joins \in [Stopper -> Loop] /\ changes \in 0..MaxChanges
  BY OtherIn, SocketAssumption DEF SignalInit
<1>4. AimTypeOK
  BY <1>3 DEF SignalInit, AimTypeOK
<1>5. QED
  BY <1>1, <1>2, <1>4, SignalParts DEF SignalInv

\* Every variable of the signal monitoring and of its connection keeps its type
\* (signal_monitoring_service.py, iocp_websocket.py).
THEOREM SignalTypes == SignalSpec => []SignalTypeOK
<1>1. SignalInv => SignalTypeOK
  BY DEF SignalInv
<1>2. QED
  BY <1>1, SignalStart, SignalKept, PTL DEF SignalSpec

-----------------------------------------------------------------------------
(* One connection                                                          *)

In(x, q) == \E i \in DOMAIN q : q[i] = x

Notice     == In(Lost, queue)
Connecting == \E l \in Loop : busy[l] = "connecting"
Closing    == \E l \in Loop : busy[l] = "closing"

\* The socket is the last connection or none; what is open is the socket.
SocketInv ==
    /\ socket \in {latest, NoConn}
    /\ open \subseteq {socket}

\* Only the last connection has a receive task, which reads that connection; while
\* it goes on, the state is a connected one unless nothing is open.
ReaderInv ==
    \A r \in Conn :
        /\ recv[r] # "off" => r = latest
        /\ reads[r] = IF recv[r] \in {"reading", "cancelled"} THEN r ELSE NoConn
        /\ recv[r] \in {"starting", "reading"} => IsConnected \/ open = {}

\* One event loop at most makes a connection, when nothing is left of those before.
ConnectingInv ==
    /\ \A l, m \in Loop : busy[l] = "connecting" /\ busy[m] = "connecting" => l = m
    /\ Connecting => /\ socket = NoConn /\ ~ Notice
                     /\ \A r \in Conn : recv[r] = "off"

\* The notice of a loss, queued or about to be, is of a connection that is closed or
\* that a loop is closing.
LossInv ==
    Notice \/ (\E r \in Conn : recv[r] = "cancelled") => open = {} \/ Closing

ConnInv == ~ untidy => SocketInv /\ ReaderInv /\ ConnectingInv /\ LossInv

LEMMA InTail ==
  ASSUME NEW q \in Seq(EventType), q # <<>>, NEW x, In(x, Tail(q))
  PROVE  In(x, q)
BY DEF In

LEMMA InAppend ==
  ASSUME NEW q \in Seq(EventType), NEW x, NEW y, In(x, Append(q, y))
  PROVE  In(x, q) \/ x = y
<1>1. PICK i \in DOMAIN Append(q, y) : Append(q, y)[i] = x
  BY DEF In
<1>2. i \in 1..(Len(q) + 1)
  BY <1>1
<1>3. CASE i = Len(q) + 1
  BY <1>1, <1>3
<1>4. CASE i \in 1..Len(q)
  BY <1>1, <1>4 DEF In
<1>5. QED
  BY <1>2, <1>3, <1>4

LEMMA InHead ==
  ASSUME NEW q \in Seq(EventType), q # <<>>
  PROVE  In(Head(q), q)
BY DEF In

LEMMA LostOnly ==
  /\ \A k \in {"connect", "close", "price", "pingpong"} : Plain(k) # Lost
  /\ \A k \in {"subscribe", "send"} : \A s : About(k, s) # Lost
  /\ \A x \in EventType : x.kind = "lost" => x = Lost
BY DEF EventType, Plain, About, Lost

LEMMA NoSocket ==
  ASSUME SocketTypeOK, SocketInv, socket = NoConn
  PROVE  open = {}
BY SocketAssumption DEF SocketTypeOK, SocketInv

\* A step that leaves the connection and its receive task alone, and that keeps a
\* connected state connected.
LEMMA Aside ==
  ASSUME ConnInv, UNCHANGED <<socket, open, busy, recv, reads, latest, untidy>>,
         Notice' => Notice, IsConnected => IsConnected'
  PROVE  ConnInv'
BY DEF ConnInv, SocketInv, ReaderInv, ConnectingInv, LossInv, Connecting, Closing

LEMMA Posts ==
  ASSUME SocketTypeOK, NEW x, queue' = queue \/ (x # Lost /\ queue' = Append(queue, x))
  PROVE  Notice' => Notice
BY InAppend DEF Notice, SocketTypeOK

LEMMA Takes ==
  ASSUME SocketTypeOK, queue # <<>>, queue' = Tail(queue)
  PROVE  Notice' => Notice
BY InTail DEF Notice, SocketTypeOK

\* The receive task goes on, or ends and says so.
LEMMA ContinueKeeps ==
  ASSUME SocketTypeOK, ConnInv, NEW r \in Conn, recv[r] \in {"starting", "reading"},
         NEW q, In(Lost, q) => Notice, q \in Seq(EventType), Continue(r, q), Unchanged
  PROVE  ConnInv'
<1> SUFFICES ASSUME ~ untidy PROVE (SocketInv /\ ReaderInv /\ ConnectingInv /\ LossInv)'
  BY DEF ConnInv, Unchanged
<1>0. SocketInv /\ ReaderInv /\ ConnectingInv /\ LossInv
  BY DEF ConnInv
<1>1. r = latest /\ ~ Connecting /\ (IsConnected \/ open = {})
  BY <1>0 DEF ReaderInv, ConnectingInv
<1>2. UNCHANGED <<state, socket, open, busy, latest>> /\ SocketInv' /\ ~ Connecting'
      /\ ConnectingInv'
  BY <1>0, <1>1 DEF Unchanged, loopVars, SocketInv, ConnectingInv, Connecting
<1>3. CASE IsConnected /\ socket # NoConn /\ ~ \E o \in Conn \ {r} : reads[o] = socket
  <2>1. /\ recv' = [recv EXCEPT ![r] = "reading"] /\ reads' = [reads EXCEPT ![r] = socket]
        /\ queue' = q
    BY <1>3 DEF Continue
  <2>2. socket = r
    BY <1>0, <1>1, <1>3 DEF SocketInv
  <2>3. ReaderInv'
    BY <1>0, <1>1, <1>2, <1>3, <2>1, <2>2 DEF ReaderInv, SocketTypeOK, IsConnected
  <2>4. LossInv'
    <3>1. Notice' => Notice
      BY <2>1 DEF Notice
    <3>2. \A o \in Conn : recv'[o] = "cancelled" => recv[o] = "cancelled"
      BY <2>1 DEF SocketTypeOK
    <3>3. QED
      BY <1>0, <1>2, <3>1, <3>2 DEF LossInv, Closing
  <2>5. QED
    BY <1>2, <2>3, <2>4
<1>4. CASE ~ (IsConnected /\ socket # NoConn /\ ~ \E o \in Conn \ {r} : reads[o] = socket)
  <2>1. /\ recv' = [recv EXCEPT ![r] = "off"] /\ reads' = [reads EXCEPT ![r] = NoConn]
    BY <1>4 DEF Continue
  <2>2. open = {}
    <3>1. CASE socket = NoConn
      BY <1>0, <3>1, NoSocket
    <3>2. CASE socket # NoConn
      <4>1. socket = r
        BY <1>0, <1>1, <3>2 DEF SocketInv
      <4>2. \A o \in Conn \ {r} : reads[o] \in {o, NoConn}
        BY <1>0 DEF ReaderInv
      <4>3. ~ IsConnected
        BY <1>4, <3>2, <4>1, <4>2
      <4>4. QED
        BY <1>1, <4>3
    <3>3. QED
      BY <3>1, <3>2
  <2>3. ReaderInv'
    BY <1>0, <1>2, <2>1, <2>2 DEF ReaderInv, SocketTypeOK
  <2>4. LossInv'
    BY <1>2, <2>2 DEF LossInv
  <2>5. QED
    BY <1>2, <2>3, <2>4
<1>5. QED
  BY <1>3, <1>4

LEMMA RecvKeeps ==
  ASSUME SocketTypeOK, ConnInv, NEW r \in Conn,
         RecvStart(r) \/ RecvPrice(r) \/ RecvPingpong(r) \/ RecvEnds(r)
  PROVE  ConnInv'
<1> queue \in Seq(EventType)
  BY DEF SocketTypeOK
<1>1. CASE RecvStart(r)
  BY <1>1, ContinueKeeps DEF RecvStart, Notice
<1>2. CASE RecvPrice(r) \/ RecvPingpong(r)
  <2>1. PICK x \in {Plain("price"), Plain("pingpong")} :
          recv[r] = "reading" /\ Continue(r, Append(queue, x)) /\ Unchanged
    BY <1>2 DEF RecvPrice, RecvPingpong
  <2>2. x # Lost /\ Append(queue, x) \in Seq(EventType)
    BY LostOnly, EventTypes, PostTypes
  <2>3. In(Lost, Append(queue, x)) => Notice
    BY <2>2, InAppend DEF Notice
  <2>4. QED
    BY <2>1, <2>2, <2>3, ContinueKeeps
<1>3. CASE RecvEnds(r)
  <2> SUFFICES ASSUME ~ untidy PROVE (SocketInv /\ ReaderInv /\ ConnectingInv /\ LossInv)'
    BY <1>3 DEF ConnInv, RecvEnds, Unchanged
  <2>0. SocketInv /\ ReaderInv /\ ConnectingInv /\ LossInv
    BY DEF ConnInv
  <2>1. recv[r] \in {"reading", "cancelled"} /\ r = latest /\ reads[r] = r /\ ~ Connecting
    BY <1>3, <2>0 DEF RecvEnds, ReaderInv, ConnectingInv
  <2>2. UNCHANGED <<state, socket, open, busy, latest>> /\ SocketInv' /\ ConnectingInv'
    BY <1>3, <2>0, <2>1 DEF RecvEnds, Unchanged, loopVars, SocketInv, ConnectingInv, Connecting
  <2>3. open = {} \/ Closing
    <3>1. CASE recv[r] = "cancelled"
      BY <2>0, <3>1 DEF LossInv
    <3>2. CASE reads[r] \notin open
      BY <2>0, <2>1, <3>2, NoSocket DEF SocketInv
    <3>3. QED
      BY <1>3, <3>1, <3>2 DEF RecvEnds
  <2>4. ReaderInv'
    BY <1>3, <2>0, <2>2 DEF RecvEnds, ReaderInv, IsConnected, SocketTypeOK
  <2>5. LossInv'
    BY <2>2, <2>3 DEF LossInv, Closing
  <2>6. QED
    BY <2>2, <2>4, <2>5
<1>4. QED
  BY <1>1, <1>2, <1>3

LEMMA ClosesKeeps ==
  ASSUME SocketTypeOK, ConnInv, NEW c \in Conn, ConnectionCloses(c)
  PROVE  ConnInv'
BY DEF ConnectionCloses, ConnInv, SocketInv, ReaderInv, ConnectingInv, LossInv, Connecting,
       Closing, Notice, IsConnected, loopVars, recvVars

\* The receive task is cancelled: only a closing one is left, or none.
LEMMA CancelKeeps ==
  ASSUME SocketTypeOK, ReaderInv, CancelLatest, UNCHANGED <<reads, latest>>
  PROVE  /\ ReaderInv'
         /\ \A r \in Conn : recv'[r] \in {"off", "cancelled"}
         /\ \A r \in Conn : recv[r] = "off" => recv'[r] = "off"
<1>1. CASE latest = NoConn
  <2>1. \A r \in Conn : recv[r] = "off" /\ recv' = recv
    BY <1>1, SocketAssumption DEF ReaderInv, CancelLatest
  <2>2. QED
    BY <2>1 DEF ReaderInv
<1>2. CASE latest # NoConn
  <2>1. latest \in Conn
    BY <1>2 DEF SocketTypeOK
  <2>2. /\ \A r \in Conn \ {latest} : recv[r] = "off" /\ recv'[r] = "off"
        /\ recv[latest] \in {"reading", "cancelled"} => recv'[latest] = "cancelled"
        /\ recv[latest] \in {"starting", "off"} => recv'[latest] = "off"
        /\ recv[latest] \in {"off", "starting", "reading", "cancelled"}
    BY <1>2, <2>1 DEF ReaderInv, CancelLatest, SocketTypeOK
  <2>3. QED
    BY <2>1, <2>2 DEF ReaderInv
<1>3. QED
  BY <1>1, <1>2

LEMMA ConnectKeeps ==
  ASSUME SocketTypeOK, ConnInv, NEW l \in Loop, HandleConnect(l)
  PROVE  ConnInv'
<1> SUFFICES ASSUME ~ untidy' PROVE (SocketInv /\ ReaderInv /\ ConnectingInv /\ LossInv)'
  BY DEF ConnInv
<1>1. /\ ~ untidy /\ socket = NoConn /\ ~ Notice
      /\ \A r \in Conn : recv[r] = "off"
      /\ \A m \in Loop : busy[m] = "idle"
  BY DEF HandleConnect, Quiet, Notice, In
<1>2. SocketInv /\ ReaderInv
  BY <1>1 DEF ConnInv
<1>3. open = {} /\ ~ Notice'
  BY <1>1, <1>2, NoSocket, Takes DEF HandleConnect, Take
<1>4. SocketInv' /\ ReaderInv'
  BY <1>1, <1>2, <1>3 DEF HandleConnect, recvVars, SocketInv, ReaderInv
<1>5. ConnectingInv'
  BY <1>1, <1>3 DEF HandleConnect, recvVars, ConnectingInv, SocketTypeOK
<1>6. LossInv'
  BY <1>3 DEF HandleConnect, LossInv
<1>7. QED
  BY <1>4, <1>5, <1>6

LEMMA ConnectedKeeps ==
  ASSUME SocketTypeOK, ConnInv, NEW l \in Loop, Connected(l)
  PROVE  ConnInv'
<1> SUFFICES ASSUME ~ untidy PROVE (SocketInv /\ ReaderInv /\ ConnectingInv /\ LossInv)'
  BY DEF ConnInv, Connected
<1> DEFINE c == Other(Conn, InUse)
<1>1. c \in Conn
  BY OtherIn DEF Connected
<1> HIDE DEF c
<1>2. /\ socket' = c /\ open' = open \cup {c} /\ latest' = c
      /\ recv' = [recv EXCEPT ![c] = "starting"] /\ state' = "connected"
      /\ busy' = [busy EXCEPT ![l] = "idle"] /\ queue' = queue /\ reads' = reads
  BY DEF Connected, c
<1>3. SocketInv /\ ReaderInv /\ ConnectingInv /\ LossInv /\ Connecting
  BY DEF ConnInv, Connected, Connecting
<1>4. open = {} /\ ~ Notice' /\ \A r \in Conn : recv[r] = "off" /\ reads[r] = NoConn
  BY <1>2, <1>3, NoSocket DEF ConnectingInv, ReaderInv, Notice
<1>5. SocketInv'
  BY <1>2, <1>4 DEF SocketInv
<1>6. ReaderInv'
  BY <1>1, <1>2, <1>4 DEF ReaderInv, SocketTypeOK, IsConnected
<1>7. ~ Connecting' /\ ConnectingInv'
  BY <1>2, <1>3 DEF Connected, Connecting, ConnectingInv, SocketTypeOK
<1>8. LossInv'
  BY <1>2, <1>4 DEF LossInv, SocketTypeOK
<1>9. QED
  BY <1>5, <1>6, <1>7, <1>8

LEMMA FailKeeps ==
  ASSUME SocketTypeOK, ConnInv, NEW l \in Loop, ConnectFails(l)
  PROVE  ConnInv'
<1> SUFFICES ASSUME ~ untidy PROVE (SocketInv /\ ReaderInv /\ ConnectingInv /\ LossInv)'
  BY DEF ConnInv, ConnectFails
<1>1. SocketInv /\ ReaderInv /\ ConnectingInv /\ LossInv /\ Connecting
  BY DEF ConnInv, ConnectFails, Connecting
<1>2. open = {} /\ \A r \in Conn : recv[r] = "off"
  BY <1>1, NoSocket DEF ConnectingInv
<1>3. SocketInv' /\ ReaderInv' /\ LossInv'
  BY <1>1, <1>2 DEF ConnectFails, recvVars, SocketInv, ReaderInv, LossInv
<1>4. ConnectingInv'
  BY <1>1 DEF ConnectFails, recvVars, ConnectingInv, Connecting, Notice, SocketTypeOK
<1>5. QED
  BY <1>3, <1>4

LEMMA LostKeeps ==
  ASSUME SocketTypeOK, ConnInv, NEW l \in Loop, HandleLost(l)
  PROVE  ConnInv'
<1> SUFFICES ASSUME ~ untidy' PROVE (SocketInv /\ ReaderInv /\ ConnectingInv /\ LossInv)'
  BY DEF ConnInv
<1>1. ~ untidy /\ ~ Closing
  BY DEF HandleLost, Closing
<1>2. SocketInv /\ ReaderInv /\ ConnectingInv /\ LossInv
  BY <1>1 DEF ConnInv
<1>3. Notice
  <2>1. queue # <<>> /\ queue \in Seq(EventType) /\ Head(queue).kind = "lost"
    BY DEF HandleLost, Take, SocketTypeOK
  <2>2. Head(queue) = Lost
    BY <2>1, TakeTypes, LostOnly
  <2>3. QED
    BY <2>1, <2>2, InHead DEF Notice
<1>4. open = {} /\ ~ Connecting
  BY <1>1, <1>2, <1>3 DEF LossInv, ConnectingInv
<1>5. /\ socket' = NoConn /\ UNCHANGED <<open, busy, recv, reads, latest>>
  BY DEF HandleLost, recvVars
<1>6. QED
  BY <1>2, <1>4, <1>5 DEF SocketInv, ReaderInv, ConnectingInv, Connecting, LossInv

LEMMA CloseKeeps ==
  ASSUME SocketTypeOK, ConnInv, NEW l \in Loop, HandleClose(l)
  PROVE  ConnInv'
<1> SUFFICES ASSUME ~ untidy PROVE (SocketInv /\ ReaderInv /\ ConnectingInv /\ LossInv)'
  BY DEF ConnInv, HandleClose
<1>1. SocketInv /\ ReaderInv /\ ConnectingInv
  BY DEF ConnInv
<1>2. /\ UNCHANGED <<socket, open, reads, latest>> /\ busy' = [busy EXCEPT ![l] = "closing"]
      /\ CancelLatest
  BY DEF HandleClose
<1>3. Notice' => Notice
  BY Takes DEF HandleClose, Take
<1>4. ReaderInv' /\ \A r \in Conn : recv[r] = "off" => recv'[r] = "off"
  BY <1>1, <1>2, CancelKeeps
<1>5. ConnectingInv'
  BY <1>1, <1>2, <1>3, <1>4 DEF ConnectingInv, Connecting, SocketTypeOK
<1>6. SocketInv' /\ Closing'
  BY <1>1, <1>2 DEF SocketInv, Closing, SocketTypeOK
<1>7. QED
  BY <1>4, <1>5, <1>6 DEF LossInv

LEMMA ClosedKeeps ==
  ASSUME SocketTypeOK, ConnInv, NEW l \in Loop, Closed(l)
  PROVE  ConnInv'
<1> SUFFICES ASSUME ~ untidy PROVE (SocketInv /\ ReaderInv /\ ConnectingInv /\ LossInv)'
  BY DEF ConnInv, Closed
<1>1. SocketInv /\ ReaderInv /\ ConnectingInv
  BY DEF ConnInv
<1>2. /\ open' = {} /\ socket' = NoConn /\ busy' = [busy EXCEPT ![l] = "idle"]
      /\ UNCHANGED <<recv, reads, latest, queue>>
  BY <1>1 DEF Closed, recvVars, SocketInv
<1>3. SocketInv' /\ ReaderInv' /\ LossInv'
  BY <1>1, <1>2 DEF SocketInv, ReaderInv, LossInv
<1>4. ConnectingInv'
  BY <1>1, <1>2 DEF ConnectingInv, Connecting, Notice, SocketTypeOK
<1>5. QED
  BY <1>3, <1>4

LEMMA LoopKeeps ==
  ASSUME SocketTypeOK, ConnInv, NEW l \in Loop,
         LoopStep(l) \/ ConnectFails(l) \/ HandlePingpong(l)
  PROVE  ConnInv'
<1>1. CASE HandleSubscribe(l)
  <2>1. Notice' => Notice
    <3>1. Tail(queue) \in Seq(EventType) /\ queue # <<>>
      BY <1>1, TakeTypes DEF HandleSubscribe, Take, SocketTypeOK
    <3>2. Notice' => In(Lost, Tail(queue))
      BY <1>1, <3>1, InAppend, LostOnly DEF HandleSubscribe, Notice
    <3>3. QED
      BY <3>1, <3>2, InTail DEF Notice, SocketTypeOK
  <2>2. QED
    BY <1>1, <2>1, Aside DEF HandleSubscribe, recvVars, IsConnected
<1>2. CASE HandleSend(l) \/ HandlePrice(l) \/ HandlePingpong(l)
  <2>1. Notice' => Notice
    BY <1>2, Takes DEF HandleSend, HandlePrice, HandlePingpong, Take
  <2>2. QED
    BY <1>2, <2>1, Aside DEF HandleSend, HandlePrice, HandlePingpong, recvVars, IsConnected
<1>3. CASE LoopEnds(l)
  BY <1>3, Aside DEF LoopEnds, recvVars, IsConnected, Notice
<1>4. QED
  BY <1>1, <1>2, <1>3, ConnectKeeps, ConnectedKeeps, FailKeeps, LostKeeps, CloseKeeps,
     ClosedKeeps DEF LoopStep

\* The tasks that wait for the connection only post.
LEMMA CallKeeps ==
  ASSUME SocketTypeOK, ConnInv, NEW k \in Caller, CallStep(k)
  PROVE  ConnInv'
<1>1. UNCHANGED <<state, socket, open, busy, recv, reads, latest, untidy>>
  BY DEF CallStep, CallNotNeeded, CallBegins, CallConnects, CallHasNoKey, CallSubscribes,
         CallTimesOut, CallEnds, Subscribe, Connect, Start, socketVars, loopVars, recvVars
<1>2. queue' = queue \/ \E x \in {Plain("connect"), About("subscribe", k)} :
                          queue' = Append(queue, x)
  BY DEF CallStep, CallNotNeeded, CallBegins, CallConnects, CallHasNoKey, CallSubscribes,
         CallTimesOut, CallEnds, Subscribe, Connect, socketVars
<1>3. Notice' => Notice
  BY <1>2, Posts, LostOnly DEF Notice
<1>4. QED
  BY <1>1, <1>3, Aside DEF IsConnected

LEMMA StopperKeeps ==
  ASSUME SocketTypeOK, ConnInv, NEW x \in Stopper, StopperStep(x)
  PROVE  ConnInv'
<1>1. CASE StopperCancels(x)
  <2> SUFFICES ASSUME ~ untidy' PROVE (SocketInv /\ ReaderInv /\ ConnectingInv /\ LossInv)'
    BY DEF ConnInv
  <2>1. ~ untidy /\ socket = NoConn
    BY <1>1 DEF StopperCancels
  <2>2. SocketInv /\ ReaderInv /\ ConnectingInv /\ open = {}
    BY <2>1, NoSocket DEF ConnInv
  <2>3. UNCHANGED <<socket, open, busy, queue, reads, latest>> /\ CancelLatest
    BY <1>1 DEF StopperCancels
  <2>4. ReaderInv' /\ \A r \in Conn : recv[r] = "off" => recv'[r] = "off"
    BY <2>2, <2>3, CancelKeeps
  <2>5. ConnectingInv'
    BY <2>2, <2>3, <2>4 DEF ConnectingInv, Connecting, Notice
  <2>6. QED
    BY <2>2, <2>3, <2>4, <2>5 DEF SocketInv, LossInv
<1>2. CASE StopperBegins(x)
  <2>1. Notice' => Notice
    BY <1>2, Posts, LostOnly DEF StopperBegins
  <2>2. QED
    BY <1>2, <2>1, Aside DEF StopperBegins, loopVars, recvVars, IsConnected
<1>3. CASE StopperStops(x) \/ StopperJoins(x) \/ StopperEnds(x)
  BY <1>3, Aside DEF StopperStops, StopperJoins, StopperEnds, socketVars, loopVars, recvVars,
     IsConnected, Notice
<1>4. QED
  BY <1>1, <1>2, <1>3 DEF StopperStep

LEMMA ConnKept ==
  ASSUME SocketTypeOK, ConnInv, [SignalNext]_marketVars
  PROVE  ConnInv'
<1>1. CASE SocketStep
  BY <1>1, LoopKeeps, RecvKeeps, ClosesKeeps DEF SocketStep
<1>2. CASE \E r \in Conn : RecvPingpong(r)
  BY <1>2, RecvKeeps
<1>3. CASE \E l \in Loop : HandlePingpong(l)
  BY <1>3, LoopKeeps
<1>4. CASE \E k \in Caller : CallStep(k)
  BY <1>4, CallKeeps
<1>5. CASE \E x \in Stopper : StopperStep(x)
  BY <1>5, StopperKeeps
<1>6. CASE UNCHANGED socketVars
  BY <1>6, Aside DEF socketVars, loopVars, recvVars, IsConnected, Notice
<1>7. QED
  BY <1>1, <1>2, <1>3, <1>4, <1>5, <1>6 DEF SignalNext, InitEnds, SyncBegins, SyncGivesUp,
     SyncEnds, SyncReads, AlarmChanges, HealthMonitor, marketVars

\* At the start the queue may hold the notice of the health check's connection, which is
\* closed.
LEMMA ConnStart == SocketInit => ConnInv
BY DEF SocketInit, ConnInv, SocketInv, ReaderInv, ConnectingInv, LossInv, Connecting

\* As long as every connection is made after the end of the last one, and no loss is
\* handled while another event loop closes the connection, no connection but the socket
\* is open: none is left behind that nobody would ever close
\* (iocp_websocket.py:380-424, 568-629, 631-674).
THEOREM NoneLeftOpen == SignalSpec => []OneConnection
<1>1. SignalInit => SignalInv /\ ConnInv
  BY SignalStart, ConnStart DEF SignalInit
<1>2. SignalInv /\ ConnInv /\ [SignalNext]_marketVars => (SignalInv /\ ConnInv)'
  BY SignalKept, ConnKept, SignalParts DEF SignalInv
<1>3. ConnInv => OneConnection
  BY DEF ConnInv, SocketInv, OneConnection
<1>4. QED
  BY <1>1, <1>2, <1>3, PTL DEF SignalSpec
===============================================================================
