--------------------------- MODULE WebServerProofs ---------------------------
(***************************************************************************)
(* Proofs about WebServer: types, and the election.  A server that was     *)
(* elected has the key of the lock until the lock ends, which excludes a   *)
(* second one; and a server that has the key is being made the master, or  *)
(* is the master, as long as no Redis command fails.                       *)
(***************************************************************************)
EXTENDS WebServer, TLAPS

-----------------------------------------------------------------------------
(* The stages of a start                                                   *)

\* BootOrder has thirteen stages, of which these matter.
LEMMA Stages ==
  ASSUME NEW i \in DOMAIN BootOrder
  PROVE  /\ i \in 1..13
         /\ BootOrder[i] = "database" <=> i = 1
         /\ BootOrder[i] = "redis" <=> i = 2
         /\ BootOrder[i] = "cloud" <=> i = 4
         /\ BootOrder[i] = "external" <=> i = 6
         /\ BootOrder[i] = "korea" <=> i = 7
         /\ BootOrder[i] = "templates" <=> i = 13
         /\ BootOrder[i] \in Optional <=> i \in {3, 5, 8, 9, 10, 11, 12}
<1>1. i \in 1..13
  BY DEF BootOrder
<1>2. \/ i = 1 \/ i = 2 \/ i = 3 \/ i = 4 \/ i = 5 \/ i = 6 \/ i = 7 \/ i = 8
      \/ i = 9 \/ i = 10 \/ i = 11 \/ i = 12 \/ i = 13
  BY <1>1
<1>3. QED
  BY <1>1, <1>2 DEF BootOrder, Optional

-----------------------------------------------------------------------------
(* Types                                                                   *)

LEMMA InitTypes == Init => TypeOK
BY ServerAssumption DEF Init, TypeOK, Process

LEMMA StartTypes ==
  ASSUME TypeOK, NEW s \in Server, BootStep(s)
  PROVE  TypeOK'
<1> USE ServerAssumption
<1>1. Me(s) \in Process
  BY DEF TypeOK, Me, Process
<1>2. {"cache", "database"} \subseteq Service
  BY DEF Service
<1>4. Lapse => key' \in Process \cup {Free} /\ ended' \subseteq Process
  BY DEF Lapse, TypeOK
<1>5. Clear(s) => key' \in Process \cup {Free} /\ ended' \subseteq Process
  BY <1>4 DEF Clear, TypeOK
<1>6. Optional \subseteq Service /\ Cloud \subseteq Service
  BY DEF Optional, Service
<1>7. CASE ConnectDatabase(s)
  BY <1>7, <1>2, <1>5 DEF ConnectDatabase, GoOn, TypeOK, bounds
<1>8. CASE ConnectFails(s)
  BY <1>8, <1>2, <1>5 DEF ConnectFails, CountTry, TypeOK, bounds
<1>9. CASE CheckRedis(s)
  BY <1>9 DEF CheckRedis, CountTry, GoOn, TypeOK, bounds
<1>10. CASE BootAborts(s)
  BY <1>10 DEF BootAborts, End, Failure, TypeOK, bounds
<1>11. CASE StartCloud(s)
  BY <1>11, <1>6 DEF StartCloud, GoOn, Failure, TypeOK, bounds
<1>12. ASSUME NEW x \in Optional, StartService(s, x) PROVE TypeOK'
  BY <1>12, <1>6 DEF StartService, GoOn, TypeOK, bounds
<1>13. ASSUME NEW x \in Optional, StartFails(s, x) PROVE TypeOK'
  BY <1>13 DEF StartFails, GoOn, Failure, TypeOK, bounds
<1>14. CASE BecomeMaster(s)
  BY <1>14, <1>1 DEF BecomeMaster, GoOn, TypeOK, bounds
<1>15. CASE BecomeSlave(s)
  BY <1>15 DEF BecomeSlave, GoOn, TypeOK, bounds
<1>16. CASE AcquireFails(s)
  BY <1>16, <1>1 DEF AcquireFails, GoOn, Fault, TypeOK
<1>17. CASE ClientsFail(s)
  BY <1>17 DEF ClientsFail, GoOn, Failure, TypeOK
<1>18. CASE StartKorea(s)
  BY <1>18 DEF StartKorea, GoOn, TypeOK, bounds, Service
<1>19. CASE KoreaFails(s)
  BY <1>19 DEF KoreaFails, LetGo, GoOn, TypeOK, Service
<1>20. CASE ServeRequests(s)
  BY <1>20 DEF ServeRequests, TypeOK, bounds
<1>21. QED
  BY <1>7, <1>8, <1>9, <1>10, <1>11, <1>12, <1>13, <1>14, <1>15, <1>16, <1>17, <1>18,
     <1>19, <1>20 DEF BootStep

LEMMA StepTypes == TypeOK /\ [Next]_vars => TypeOK'
<1> SUFFICES ASSUME TypeOK, [Next]_vars PROVE TypeOK'
  OBVIOUS
<1> USE ServerAssumption
<1>1. ASSUME NEW s \in Server, Start(s) PROVE TypeOK'
  BY <1>1 DEF Start, TypeOK, bounds
<1>2. ASSUME NEW s \in Server, Stop(s) PROVE TypeOK'
  BY <1>2 DEF Stop, TypeOK, bounds
<1>3. ASSUME NEW s \in Server, CloseNext(s) PROVE TypeOK'
  BY <1>3 DEF CloseNext, Failure, TypeOK, bounds
<1>4. ASSUME NEW s \in Server, StopDone(s) PROVE TypeOK'
  BY <1>4 DEF StopDone, End, TypeOK, bounds
<1>5. ASSUME NEW s \in Server, Crash(s) PROVE TypeOK'
  BY <1>5 DEF Crash, End, TypeOK, bounds
<1>6. CASE KeyExpires
  BY <1>6 DEF KeyExpires, Lapse, TypeOK, bounds
<1>7. CASE UNCHANGED vars
  BY <1>7 DEF vars, TypeOK, bounds
<1>8. QED
  BY <1>1, <1>2, <1>3, <1>4, <1>5, <1>6, <1>7, StartTypes DEF Next, StopStep

\* TypeOK: every variable keeps its type, whatever the servers and their services.
THEOREM TypeCorrect == Spec => []TypeOK
BY InitTypes, StepTypes, PTL DEF Spec

-----------------------------------------------------------------------------
(* The election                                                            *)

\* Where the roles begin and end: a process starts without one, and the stage of
\* the Korea Investment API is reached by a server that was elected only.
RoleFits(s) ==
    /\ phase[s] = "down" => role[s] = "none" /\ at[s] = 1
    /\ phase[s] = "booting" /\ at[s] = 7 => role[s] = "elected"
    /\ role[s] = "elected" => phase[s] = "booting" /\ at[s] = 7

\* Whoever was elected has the key until it ends.
Elected(s) == role[s] \in {"elected", "master"} /\ Me(s) \notin ended => key = Me(s)

\* A key names a start that took place, and its server makes use of it.
Used(s) ==
    /\ \A n \in Nat : key = <<s, n>> => n <= start[s]
    /\ faults = 0 /\ key = Me(s) /\ phase[s] \in {"booting", "serving"} =>
         \/ role[s] = "elected"
         \/ role[s] = "master" /\ "korea" \in up[s] /\ (phase[s] = "booting" => at[s] > 7)

Holds(s) == RoleFits(s) /\ Elected(s) /\ Used(s)

IInv == TypeOK /\ \A s \in Server : Holds(s)

\* What a step of one server leaves to the others.
Alone(s) ==
    \A t \in Server : t # s =>
        /\ phase'[t] = phase[t] /\ at'[t] = at[t] /\ role'[t] = role[t]
        /\ start'[t] = start[t] /\ up'[t] = up[t]

LEMMA InitIInv == Init => IInv
BY InitTypes, ServerAssumption DEF Init, IInv, Holds, RoleFits, Elected, Used, Me

\* Where a server is when it has reached a stage.
LEMMA Place ==
  ASSUME TypeOK, NEW s \in Server
  PROVE  /\ Reached(s, "database") => phase[s] = "booting" /\ at[s] = 1
         /\ Reached(s, "redis") => phase[s] = "booting" /\ at[s] = 2
         /\ Reached(s, "cloud") => phase[s] = "booting" /\ at[s] = 4
         /\ Reached(s, "external") => phase[s] = "booting" /\ at[s] = 6
         /\ Reached(s, "korea") => phase[s] = "booting" /\ at[s] = 7
         /\ Reached(s, "templates") => phase[s] = "booting" /\ at[s] = 13
         /\ \A x \in Optional : Reached(s, x) =>
              phase[s] = "booting" /\ at[s] \in {3, 5, 8, 9, 10, 11, 12}
BY Stages DEF Reached

\* Steps that leave the key alone keep what holds of the others; those that take it
\* when it is free, or let it go or lapse, do too.
LEMMA OthersHold ==
  ASSUME IInv, NEW s \in Server, Alone(s),
         faults' \in Nat, faults' = 0 => faults = 0,
         \/ UNCHANGED <<key, ended>>
         \/ key = Free /\ key' = Me(s) /\ UNCHANGED ended
         \/ key = Me(s) /\ key' = Free /\ UNCHANGED ended
         \/ Lapse,
         NEW t \in Server, t # s
  PROVE  Holds(t)'
<1>1. Holds(t) /\ Me(t)' = Me(t) /\ Me(t) # Me(s) /\ Me(t) # Free
  BY ServerAssumption DEF IInv, Alone, Me, TypeOK
<1>2. RoleFits(t)'
  BY <1>1 DEF Holds, RoleFits, Alone
<1>3. Elected(t)'
  BY <1>1 DEF Holds, Elected, Alone, Lapse
<1>4. \A n \in Nat : key' = <<t, n>> => key = <<t, n>>
  BY ServerAssumption DEF Me, Lapse
<1>5. Used(t)'
  BY <1>1, <1>4, ServerAssumption DEF Holds, Used, Alone, Me, TypeOK, IInv
<1>6. QED
  BY <1>2, <1>3, <1>5 DEF Holds
\* What a step leaves to show.
KeyStep(s) ==
    /\ Alone(s)
    /\ faults' \in Nat /\ (faults' = 0 => faults = 0)
    /\ \/ UNCHANGED <<key, ended>>
       \/ key = Free /\ key' = Me(s) /\ UNCHANGED ended
       \/ key = Me(s) /\ key' = Free /\ UNCHANGED ended
       \/ Lapse

LEMMA Together ==
  ASSUME IInv, NEW s \in Server, TypeOK', KeyStep(s), Holds(s)'
  PROVE  IInv'
BY OthersHold DEF IInv, KeyStep

LEMMA BootHolds ==
  ASSUME IInv, NEW s \in Server, BootStep(s)
  PROVE  KeyStep(s) /\ Holds(s)'
<1> USE Place, ServerAssumption DEF IInv, TypeOK, Alone, KeyStep
<1> DEFINE Goal == KeyStep(s) /\ Holds(s)'
<1>1. CASE ConnectDatabase(s)
  <2>1. KeyStep(s)
    BY <1>1 DEF ConnectDatabase, GoOn, Clear, Lapse, bounds, Lapse
  <2>2. RoleFits(s)'
    BY <1>1 DEF ConnectDatabase, GoOn, Clear, Lapse, bounds, Holds, RoleFits
  <2>3. Elected(s)'
    BY <1>1 DEF ConnectDatabase, GoOn, Clear, Lapse, bounds, Holds, RoleFits, Elected, Me, Lapse
  <2>4. Used(s)'
    BY <1>1 DEF ConnectDatabase, GoOn, Clear, Lapse, bounds, Holds, RoleFits, Used, Me, Lapse
  <2>5. QED
    BY <2>1, <2>2, <2>3, <2>4 DEF Holds
<1>2. CASE ConnectFails(s)
  <2>1. KeyStep(s)
    BY <1>2 DEF ConnectFails, CountTry, Clear, Lapse, bounds, Lapse
  <2>2. RoleFits(s)'
    BY <1>2 DEF ConnectFails, CountTry, Clear, Lapse, bounds, Holds, RoleFits
  <2>3. Elected(s)'
    BY <1>2 DEF ConnectFails, CountTry, Clear, Lapse, bounds, Holds, RoleFits, Elected, Me, Lapse
  <2>4. Used(s)'
    BY <1>2 DEF ConnectFails, CountTry, Clear, Lapse, bounds, Holds, RoleFits, Used, Me, Lapse
  <2>5. QED
    BY <2>1, <2>2, <2>3, <2>4 DEF Holds
<1>3. CASE CheckRedis(s)
  <2>1. KeyStep(s)
    BY <1>3 DEF CheckRedis, GoOn, CountTry, bounds, Lapse
  <2>2. RoleFits(s)'
    BY <1>3 DEF CheckRedis, GoOn, CountTry, bounds, Holds, RoleFits
  <2>3. Elected(s)'
    BY <1>3 DEF CheckRedis, GoOn, CountTry, bounds, Holds, RoleFits, Elected, Me, Lapse
  <2>4. Used(s)'
    BY <1>3 DEF CheckRedis, GoOn, CountTry, bounds, Holds, RoleFits, Used, Me, Lapse
  <2>5. QED
    BY <2>1, <2>2, <2>3, <2>4 DEF Holds
<1>4. CASE BootAborts(s)
  <2>1. KeyStep(s)
    BY <1>4 DEF BootAborts, End, Failure, bounds, Lapse
  <2>2. RoleFits(s)'
    BY <1>4 DEF BootAborts, End, Failure, bounds, Holds, RoleFits
  <2>3. Elected(s)'
    BY <1>4 DEF BootAborts, End, Failure, bounds, Holds, RoleFits, Elected, Me, Lapse
  <2>4. Used(s)'
    BY <1>4 DEF BootAborts, End, Failure, bounds, Holds, RoleFits, Used, Me, Lapse
  <2>5. QED
    BY <2>1, <2>2, <2>3, <2>4 DEF Holds
<1>5. CASE StartCloud(s)
  <2>1. KeyStep(s)
    BY <1>5 DEF StartCloud, GoOn, Failure, bounds, Lapse
  <2>2. RoleFits(s)'
    BY <1>5 DEF StartCloud, GoOn, Failure, bounds, Holds, RoleFits
  <2>3. Elected(s)'
    BY <1>5 DEF StartCloud, GoOn, Failure, bounds, Holds, RoleFits, Elected, Me, Lapse
  <2>4. Used(s)'
    BY <1>5 DEF StartCloud, GoOn, Failure, bounds, Holds, RoleFits, Used, Me, Lapse
  <2>5. QED
    BY <2>1, <2>2, <2>3, <2>4 DEF Holds
<1>6. ASSUME NEW x \in Optional, StartService(s, x) PROVE Goal
  <2>1. KeyStep(s)
    BY <1>6 DEF StartService, GoOn, bounds, Lapse
  <2>2. RoleFits(s)'
    BY <1>6 DEF StartService, GoOn, bounds, Holds, RoleFits
  <2>3. Elected(s)'
    BY <1>6 DEF StartService, GoOn, bounds, Holds, RoleFits, Elected, Me, Lapse
  <2>4. Used(s)'
    BY <1>6 DEF StartService, GoOn, bounds, Holds, RoleFits, Used, Me, Lapse
  <2>5. QED
    BY <2>1, <2>2, <2>3, <2>4 DEF Holds
<1>7. ASSUME NEW x \in Optional, StartFails(s, x) PROVE Goal
  <2>1. KeyStep(s)
    BY <1>7 DEF StartFails, GoOn, Failure, bounds, Lapse
  <2>2. RoleFits(s)'
    BY <1>7 DEF StartFails, GoOn, Failure, bounds, Holds, RoleFits
  <2>3. Elected(s)'
    BY <1>7 DEF StartFails, GoOn, Failure, bounds, Holds, RoleFits, Elected, Me, Lapse
  <2>4. Used(s)'
    BY <1>7 DEF StartFails, GoOn, Failure, bounds, Holds, RoleFits, Used, Me, Lapse
  <2>5. QED
    BY <2>1, <2>2, <2>3, <2>4 DEF Holds
<1>8. CASE BecomeMaster(s)
  <2>1. KeyStep(s)
    BY <1>8 DEF BecomeMaster, GoOn, bounds, MayAcquire, Lapse
  <2>2. RoleFits(s)'
    BY <1>8 DEF BecomeMaster, GoOn, bounds, MayAcquire, Holds, RoleFits
  <2>3. Elected(s)'
    BY <1>8 DEF BecomeMaster, GoOn, bounds, MayAcquire, Holds, RoleFits, Elected, Me, Lapse
  <2>4. Used(s)'
    BY <1>8 DEF BecomeMaster, GoOn, bounds, MayAcquire, Holds, RoleFits, Used, Me, Lapse
  <2>5. QED
    BY <2>1, <2>2, <2>3, <2>4 DEF Holds
<1>9. CASE BecomeSlave(s)
  <2>1. KeyStep(s)
    BY <1>9 DEF BecomeSlave, GoOn, bounds, Lapse
  <2>2. RoleFits(s)'
    BY <1>9 DEF BecomeSlave, GoOn, bounds, Holds, RoleFits
  <2>3. Elected(s)'
    BY <1>9 DEF BecomeSlave, GoOn, bounds, Holds, RoleFits, Elected, Me, Lapse
  <2>4. Used(s)'
    BY <1>9 DEF BecomeSlave, GoOn, bounds, Holds, RoleFits, Used, Me, Lapse
  <2>5. QED
    BY <2>1, <2>2, <2>3, <2>4 DEF Holds
<1>10. CASE AcquireFails(s)
  <2>1. KeyStep(s)
    BY <1>10 DEF AcquireFails, GoOn, Fault, MayAcquire, Lapse
  <2>2. RoleFits(s)'
    BY <1>10 DEF AcquireFails, GoOn, Fault, MayAcquire, Holds, RoleFits
  <2>3. Elected(s)'
    BY <1>10 DEF AcquireFails, GoOn, Fault, MayAcquire, Holds, RoleFits, Elected, Me, Lapse
  <2>4. Used(s)'
    BY <1>10 DEF AcquireFails, GoOn, Fault, MayAcquire, Holds, RoleFits, Used, Me, Lapse
  <2>5. QED
    BY <2>1, <2>2, <2>3, <2>4 DEF Holds
<1>11. CASE ClientsFail(s)
  <2>1. KeyStep(s)
    BY <1>11 DEF ClientsFail, GoOn, Failure, Lapse
  <2>2. RoleFits(s)'
    BY <1>11 DEF ClientsFail, GoOn, Failure, Holds, RoleFits
  <2>3. Elected(s)'
    BY <1>11 DEF ClientsFail, GoOn, Failure, Holds, RoleFits, Elected, Me, Lapse
  <2>4. Used(s)'
    BY <1>11 DEF ClientsFail, GoOn, Failure, Holds, RoleFits, Used, Me, Lapse
  <2>5. QED
    BY <2>1, <2>2, <2>3, <2>4 DEF Holds
<1>12. CASE StartKorea(s)
  <2>1. KeyStep(s)
    BY <1>12 DEF StartKorea, GoOn, bounds, Lapse
  <2>2. RoleFits(s)'
    BY <1>12 DEF StartKorea, GoOn, bounds, Holds, RoleFits
  <2>3. Elected(s)'
    BY <1>12 DEF StartKorea, GoOn, bounds, Holds, RoleFits, Elected, Me, Lapse
  <2>4. Used(s)'
    BY <1>12 DEF StartKorea, GoOn, bounds, Holds, RoleFits, Used, Me, Lapse
  <2>5. QED
    BY <2>1, <2>2, <2>3, <2>4 DEF Holds
<1>13. CASE KoreaFails(s)
  <2>1. KeyStep(s)
    BY <1>13 DEF KoreaFails, GoOn, LetGo, Lapse
  <2>2. RoleFits(s)'
    BY <1>13 DEF KoreaFails, GoOn, LetGo, Holds, RoleFits
  <2>3. Elected(s)'
    BY <1>13 DEF KoreaFails, GoOn, LetGo, Holds, RoleFits, Elected, Me, Lapse
  <2>4. Used(s)'
    BY <1>13 DEF KoreaFails, GoOn, LetGo, Holds, RoleFits, Used, Me, Lapse
  <2>5. QED
    BY <2>1, <2>2, <2>3, <2>4 DEF Holds
<1>14. CASE ServeRequests(s)
  <2>1. KeyStep(s)
    BY <1>14 DEF ServeRequests, bounds, Lapse
  <2>2. RoleFits(s)'
    BY <1>14 DEF ServeRequests, bounds, Holds, RoleFits
  <2>3. Elected(s)'
    BY <1>14 DEF ServeRequests, bounds, Holds, RoleFits, Elected, Me, Lapse
  <2>4. Used(s)'
    BY <1>14 DEF ServeRequests, bounds, Holds, RoleFits, Used, Me, Lapse
  <2>5. QED
    BY <2>1, <2>2, <2>3, <2>4 DEF Holds
<1>15. QED
  BY <1>1, <1>2, <1>3, <1>4, <1>5, <1>6, <1>7, <1>8, <1>9, <1>10, <1>11, <1>12, <1>13, <1>14 DEF BootStep

LEMMA StepIInv == IInv /\ [Next]_vars => IInv'
<1> SUFFICES ASSUME IInv, [Next]_vars PROVE IInv'
  OBVIOUS
<1>1. TypeOK /\ TypeOK'
  BY StepTypes DEF IInv
<1>2. ASSUME NEW s \in Server, BootStep(s) PROVE IInv'
  BY <1>1, <1>2, BootHolds, Together
<1>3. ASSUME NEW s \in Server, Start(s) PROVE IInv'
  <2> USE ServerAssumption DEF IInv, TypeOK
  <2>1. KeyStep(s)
    BY <1>3 DEF Start, bounds, KeyStep, Alone
  <2>2. RoleFits(s)'
    BY <1>3 DEF Start, bounds, Holds, RoleFits
  <2>3. Elected(s)'
    BY <1>3 DEF Start, bounds, Holds, RoleFits, Elected, Me
  <2>4. Used(s)'
    BY <1>3 DEF Start, bounds, Holds, RoleFits, Used, Me
  <2>5. QED
    BY <1>1, <2>1, <2>2, <2>3, <2>4, Together DEF Holds
<1>4. ASSUME NEW s \in Server, Stop(s) PROVE IInv'
  <2> USE ServerAssumption DEF IInv, TypeOK
  <2>1. KeyStep(s)
    BY <1>4 DEF Stop, bounds, KeyStep, Alone
  <2>2. RoleFits(s)'
    BY <1>4 DEF Stop, bounds, Holds, RoleFits
  <2>3. Elected(s)'
    BY <1>4 DEF Stop, bounds, Holds, RoleFits, Elected, Me
  <2>4. Used(s)'
    BY <1>4 DEF Stop, bounds, Holds, RoleFits, Used, Me
  <2>5. QED
    BY <1>1, <2>1, <2>2, <2>3, <2>4, Together DEF Holds
<1>5. ASSUME NEW s \in Server, CloseNext(s) PROVE IInv'
  <2> USE ServerAssumption DEF IInv, TypeOK
  <2>1. KeyStep(s)
    BY <1>5 DEF CloseNext, Failure, bounds, KeyStep, Alone
  <2>2. RoleFits(s)'
    BY <1>5 DEF CloseNext, Failure, bounds, Holds, RoleFits
  <2>3. Elected(s)'
    BY <1>5 DEF CloseNext, Failure, bounds, Holds, RoleFits, Elected, Me
  <2>4. Used(s)'
    BY <1>5 DEF CloseNext, Failure, bounds, Holds, RoleFits, Used, Me
  <2>5. QED
    BY <1>1, <2>1, <2>2, <2>3, <2>4, Together DEF Holds
<1>6. ASSUME NEW s \in Server, StopDone(s) PROVE IInv'
  <2> USE ServerAssumption DEF IInv, TypeOK
  <2>1. KeyStep(s)
    BY <1>6 DEF StopDone, End, bounds, KeyStep, Alone
  <2>2. RoleFits(s)'
    BY <1>6 DEF StopDone, End, bounds, Holds, RoleFits
  <2>3. Elected(s)'
    BY <1>6 DEF StopDone, End, bounds, Holds, RoleFits, Elected, Me
  <2>4. Used(s)'
    BY <1>6 DEF StopDone, End, bounds, Holds, RoleFits, Used, Me
  <2>5. QED
    BY <1>1, <2>1, <2>2, <2>3, <2>4, Together DEF Holds
<1>7. ASSUME NEW s \in Server, Crash(s) PROVE IInv'
  <2> USE ServerAssumption DEF IInv, TypeOK
  <2>1. KeyStep(s)
    BY <1>7 DEF Crash, End, bounds, KeyStep, Alone
  <2>2. RoleFits(s)'
    BY <1>7 DEF Crash, End, bounds, Holds, RoleFits
  <2>3. Elected(s)'
    BY <1>7 DEF Crash, End, bounds, Holds, RoleFits, Elected, Me
  <2>4. Used(s)'
    BY <1>7 DEF Crash, End, bounds, Holds, RoleFits, Used, Me
  <2>5. QED
    BY <1>1, <2>1, <2>2, <2>3, <2>4, Together DEF Holds
<1>8. ASSUME KeyExpires, NEW s \in Server PROVE Holds(s)'
  BY <1>8, ServerAssumption
     DEF KeyExpires, Lapse, bounds, IInv, TypeOK, Holds, RoleFits, Elected, Used, Me
<1>9. ASSUME UNCHANGED vars, NEW s \in Server PROVE Holds(s)'
  BY <1>9 DEF vars, bounds, IInv, Holds, RoleFits, Elected, Used, Me
<1>10. QED
  BY <1>1, <1>2, <1>3, <1>4, <1>5, <1>6, <1>7, <1>8, <1>9 DEF Next, StopStep, IInv

\* The inductive invariant of the election.
THEOREM Invariant == Spec => []IInv
BY InitIInv, StepIInv, PTL DEF Spec

\* OneMaster: two servers whose locks have not ended are never masters at once,
\* however many servers start, fail, stop and crash.
THEOREM OnlyOneMaster == Spec => []OneMaster
<1>1. IInv => OneMaster
  <2> SUFFICES ASSUME IInv, NEW s \in Server, NEW t \in Server,
                      {role[s], role[t]} \subseteq {"elected", "master"},
                      {Me(s), Me(t)} \cap ended = {}
               PROVE  s = t
    BY DEF OneMaster
  <2>1. key = Me(s) /\ key = Me(t)
    BY DEF IInv, Holds, Elected
  <2>2. QED
    BY <2>1 DEF Me
<1>2. QED
  BY <1>1, Invariant, PTL

\* LockIsUsed: while no Redis command fails, a server that serves with the key of the
\* master lock is the master, and has the Korea Investment service.
THEOREM HolderIsMaster == Spec => []LockIsUsed
<1>1. IInv => LockIsUsed
  BY DEF IInv, Holds, Used, RoleFits, LockIsUsed
<1>2. QED
  BY <1>1, Invariant, PTL
=============================================================================
