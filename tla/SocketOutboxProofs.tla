-------------------------- MODULE SocketOutboxProofs --------------------------
(***************************************************************************)
(* Proofs about two components of the server, one part for each:           *)
(*   WebSocket: types, the limit of connections, the lists of the manager, *)
(*     the sends of a call, and the shutdown;                              *)
(*   UniversalOutbox: types, that what is marked published was handled,    *)
(*     that events are taken up in their order, and that an event is       *)
(*     handled once unless something fails.                                *)
(* They share no definition.                                               *)
(***************************************************************************)
EXTENDS WebSocket, UniversalOutbox, FiniteSetTheorems, TLAPS

-----------------------------------------------------------------------------
(* Types                                                                   *)

\* Without keeps the type, takes c out, and keeps the rest once each.
LEMMA WithoutRemoves ==
  ASSUME NEW l \in Seq(Channel), NEW c \in Channel,
         \A m, n \in DOMAIN l : l[m] = l[n] => m = n
  PROVE  /\ Without(l, c) \in Seq(Channel)
         /\ \A m, n \in DOMAIN Without(l, c) :
               Without(l, c)[m] = Without(l, c)[n] => m = n
         /\ \A n \in DOMAIN Without(l, c) :
               Without(l, c)[n] # c /\ \E m \in DOMAIN l : l[m] = Without(l, c)[n]
<1>1. CASE \E k \in DOMAIN l : l[k] = c
  <2> DEFINE k == CHOOSE n \in DOMAIN l : l[n] = c
             f == [n \in 1..(Len(l) - 1) |-> IF n < k THEN l[n] ELSE l[n + 1]]
  <2>1. Without(l, c) = f
    BY <1>1 DEF Without
  <2>2. k \in 1..Len(l) /\ l[k] = c
    BY <1>1
  <2> HIDE DEF k
  <2>3. DOMAIN f = 1..(Len(l) - 1) /\ Len(l) - 1 \in Nat
    BY <2>2
  <2>4. \A n \in 1..(Len(l) - 1) : f[n] = l[IF n < k THEN n ELSE n + 1]
                                   /\ (IF n < k THEN n ELSE n + 1) \in (1..Len(l)) \ {k}
    BY <2>2
  <2>5. f \in Seq(Channel)
    BY <2>2, <2>3
  <2>6. \A m, n \in DOMAIN f : f[m] = f[n] => m = n
    BY <2>2, <2>3, <2>4
  <2>7. \A n \in DOMAIN f : f[n] # c /\ \E m \in DOMAIN l : l[m] = f[n]
    BY <2>2, <2>3, <2>4
  <2>8. QED
    BY <2>1, <2>5, <2>6, <2>7, SMTT(30)
<1>2. CASE ~\E k \in DOMAIN l : l[k] = c
  BY <1>2 DEF Without
<1>3. QED
  BY <1>1, <1>2

\* A connection has no channel twice.
Distinct == \A s \in Sock : \A m, n \in DOMAIN chans[s] : chans[s][m] = chans[s][n] => m = n

Typed == TypeOK /\ Distinct

LEMMA ActiveFinite == IsFiniteSet(Active) /\ Active \subseteq Sock
<1>1. Active \subseteq Sock
  BY DEF Active
<1>2. QED
  BY <1>1, FS_Subset, WebSocketAssumption

LEMMA InitTyped == Init => Typed
BY WebSocketAssumption
   DEF Init, Typed, TypeOK, Distinct, Nothing, Task, Sender

LEMMA DisconnectTypes ==
  ASSUME Typed, NEW S \in SUBSET Active, DisconnectAll(S), UNCHANGED idOf
  PROVE  /\ active' \in [Id -> Sock \cup {NoSock}]
         /\ \A i \in Id : active'[i] # NoSock => idOf'[active'[i]] = i
         /\ userIds' \in [User -> [Id -> Nat]]
         /\ subs' \in [Channel -> SUBSET Id]
         /\ chans' \in [Sock -> Seq(Channel)]
         /\ Distinct'
         /\ ping' \in [Sock -> {"never", "recent", "old"}]
         /\ open' \in Int
         /\ Active' = Active \ S
<1> USE DEF Typed, TypeOK, DisconnectAll
<1>1. S \subseteq Sock /\ NoSock \notin S /\ IsFiniteSet(S)
  BY ActiveFinite, FS_Subset, WebSocketAssumption
<1>2. Cardinality(S) \in Nat
  BY <1>1, FS_CardinalityType
<1>3. active' \in [Id -> Sock \cup {NoSock}]
      /\ \A i \in Id : active'[i] # NoSock => idOf'[active'[i]] = i
  OBVIOUS
<1>4. userIds' \in [User -> [Id -> Nat]]
  <2>1. ASSUME NEW u \in User, NEW i \in Id
        PROVE  (IF userIds[u][i] > 0 /\ active[i] \in S /\ UserOf[active[i]] = u
                  THEN userIds[u][i] - 1 ELSE userIds[u][i]) \in Nat
    OBVIOUS
  <2>2. QED
    BY <2>1
<1>5. subs' \in [Channel -> SUBSET Id]
  OBVIOUS
<1>6. chans' \in [Sock -> Seq(Channel)] /\ ping' \in [Sock -> {"never", "recent", "old"}]
  <2>1. <<>> \in Seq(Channel)
    OBVIOUS
  <2>2. QED
    BY <2>1
<1>7. Distinct'
  BY DEF Distinct
<1>8. Active' = Active \ S
  BY <1>1, WebSocketAssumption DEF Active
<1>9. QED
  BY <1>2, <1>3, <1>4, <1>5, <1>6, <1>7, <1>8

\* The actions that take connections out.
Leaving == \/ \E t \in Task : SendLost(t)
           \/ \E s \in Sock : EndpointLeaves(s)
           \/ CleanUp \/ CloseAll

\* What such a step does to the lists.
LEMMA LeavingDisconnects ==
  ASSUME Typed, Leaving
  PROVE  \E S \in SUBSET Active : DisconnectAll(S)
<1>1. ASSUME NEW i \in Id, Disconnect(i) PROVE \E S \in SUBSET Active : DisconnectAll(S)
  <2>1. {active[i]} \ {NoSock} \subseteq Active
    BY DEF Active, Typed, TypeOK
  <2>2. QED
    BY <1>1, <2>1 DEF Disconnect
<1>2. ASSUME NEW t \in Task, SendLost(t) PROVE \E S \in SUBSET Active : DisconnectAll(S)
  <2>1. idOf[sending[t]] \in Id
    BY <1>2 DEF SendLost, Typed, TypeOK
  <2>2. QED
    BY <1>1, <1>2, <2>1 DEF SendLost
<1>3. ASSUME NEW s \in Sock, EndpointLeaves(s) PROVE \E S \in SUBSET Active : DisconnectAll(S)
  BY <1>1, <1>3 DEF EndpointLeaves, Typed, TypeOK
<1>4. CASE CleanUp
  BY <1>4 DEF CleanUp, Inactive
<1>5. CASE CloseAll
  BY <1>5 DEF CloseAll
<1>6. QED
  BY <1>2, <1>3, <1>4, <1>5 DEF Leaving

LEMMA ConfirmedType ==
  ASSUME Typed, NEW t \in Task, Confirmed(t)
  PROVE  conn' \in [Sock -> {"new", "accepting", "confirming", "served", "over"}]
BY DEF Confirmed, Typed, TypeOK

LEMMA LeavingTyped ==
  ASSUME Typed, Leaving
  PROVE  Typed'
<1> USE DEF Typed, TypeOK, sendVars, ghosts
<1>1. UNCHANGED idOf
  BY DEF Leaving, SendLost, EndpointLeaves, CleanUp, CloseAll
<1>2. PICK S \in SUBSET Active : DisconnectAll(S)
  BY LeavingDisconnects
<1>3. /\ active' \in [Id -> Sock \cup {NoSock}]
      /\ \A i \in Id : active'[i] # NoSock => idOf'[active'[i]] = i
      /\ userIds' \in [User -> [Id -> Nat]]
      /\ subs' \in [Channel -> SUBSET Id]
      /\ chans' \in [Sock -> Seq(Channel)]
      /\ Distinct'
      /\ ping' \in [Sock -> {"never", "recent", "old"}]
      /\ open' \in Int
  BY <1>1, <1>2, DisconnectTypes
<1>4. ASSUME NEW t \in Task, SendLost(t) PROVE Typed'
  BY <1>3, <1>4, ConfirmedType DEF SendLost, Continue
<1>5. ASSUME NEW s \in Sock, EndpointLeaves(s) PROVE Typed'
  BY <1>3, <1>5 DEF EndpointLeaves
<1>6. CASE CleanUp
  BY <1>3, <1>6 DEF CleanUp
<1>7. CASE CloseAll
  BY <1>3, <1>7 DEF CloseAll, Accepting
<1>8. QED
  BY <1>4, <1>5, <1>6, <1>7 DEF Leaving

LEMMA ConnectTyped ==
  ASSUME Typed, NEW s \in Sock, ConnectClient(s) \/ Accepted(s) \/ AcceptFails(s)
  PROVE  Typed'
<1> USE DEF Typed, TypeOK
<1>1. CASE ConnectClient(s)
  <2>1. conn' \in [Sock -> {"new", "accepting", "confirming", "served", "over"}]
    BY <1>1 DEF ConnectClient
  <2>2. IsFiniteSet(Accepting')
    <3>1. Accepting' \subseteq Sock
      BY DEF Accepting
    <3>2. QED
      BY <3>1, FS_Subset, WebSocketAssumption
  <2>3. together' \in Nat
    BY <1>1, <2>2, FS_CardinalityType DEF ConnectClient
  <2>4. QED
    BY <1>1, <2>1, <2>3 DEF ConnectClient, Distinct, listVars, sendVars
<1>2. CASE Accepted(s)
  <2>1. idOf[s] \in Id /\ UserOf[s] \in User
    BY WebSocketAssumption
  <2>2. userIds' \in [User -> [Id -> Nat]]
    BY <1>2, <2>1 DEF Accepted
  <2>3. active' \in [Id -> Sock \cup {NoSock}]
        /\ \A i \in Id : active'[i] # NoSock => idOf'[active'[i]] = i
    BY <1>2, <2>1 DEF Accepted
  <2>4. replaced' \in SUBSET Sock
    BY <1>2, <2>1 DEF Accepted
  <2>5. s \in Task
    BY DEF Task
  <2>6. conn' \in [Sock -> {"new", "accepting", "confirming", "served", "over"}]
        /\ sending' \in [Task -> Sock \cup {NoSock}]
    BY <1>2, <2>5 DEF Accepted
  <2>7. QED
    BY <1>2, <2>2, <2>3, <2>4, <2>6 DEF Accepted, Distinct
<1>3. CASE AcceptFails(s)
  BY <1>3 DEF AcceptFails, Distinct, listVars, sendVars, ghosts
<1>4. QED
  BY <1>1, <1>2, <1>3

LEMMA RequestTyped ==
  ASSUME Typed, NEW s \in Sock,
         Ping(s) \/ \E c \in Channel : Subscribe(s, c) \/ Unsubscribe(s, c)
  PROVE  Typed'
<1> USE DEF Typed, TypeOK
<1>1. Request(s)
  BY DEF Ping, Subscribe, Unsubscribe
<1> DEFINE a == active[idOf[s]]
<1>2. a \in Sock /\ idOf[s] \in Id /\ s \in Task
  BY <1>1 DEF Request, Task
<1>3. sending' \in [Task -> Sock \cup {NoSock}]
  BY <1>1, <1>2 DEF Request
<1>4. CASE Ping(s)
  BY <1>1, <1>2, <1>3, <1>4 DEF Ping, Request, Distinct, ghosts
<1>5. ASSUME NEW c \in Channel, Subscribe(s, c) PROVE Typed'
  <2>1. subs' \in [Channel -> SUBSET Id]
    BY <1>2, <1>5 DEF Subscribe
  <2>2. CASE c \in {chans[a][k] : k \in DOMAIN chans[a]}
    BY <1>1, <1>3, <1>5, <2>1, <2>2, SMTT(30) DEF Subscribe, Request, Distinct, ghosts
  <2>3. CASE c \notin {chans[a][k] : k \in DOMAIN chans[a]}
    <3>1. chans' = [chans EXCEPT ![a] = Append(chans[a], c)]
      BY <1>5, <2>3 DEF Subscribe
    <3>2. chans[a] \in Seq(Channel)
      BY <1>2
    <3>2a. Append(chans[a], c) \in Seq(Channel)
      BY <3>2
    <3>3. chans' \in [Sock -> Seq(Channel)]
      BY <1>2, <3>1, <3>2a
    <3>4. \A m, n \in DOMAIN Append(chans[a], c) :
             Append(chans[a], c)[m] = Append(chans[a], c)[n] => m = n
      BY <1>2, <2>3, <3>2 DEF Distinct
    <3>5. Distinct'
      BY <1>2, <3>1, <3>4 DEF Distinct
    <3>6. QED
      BY <1>1, <1>3, <1>5, <2>1, <3>3, <3>5 DEF Subscribe, Request, ghosts
  <2>4. QED
    BY <2>2, <2>3
<1>6. ASSUME NEW c \in Channel, Unsubscribe(s, c) PROVE Typed'
  <2>1. subs' \in [Channel -> SUBSET Id]
    BY <1>2, <1>6 DEF Unsubscribe
  <2>2. chans' = [chans EXCEPT ![a] = Without(chans[a], c)]
    BY <1>6 DEF Unsubscribe
  <2>3. /\ Without(chans[a], c) \in Seq(Channel)
        /\ \A m, n \in DOMAIN Without(chans[a], c) :
              Without(chans[a], c)[m] = Without(chans[a], c)[n] => m = n
    BY <1>2, WithoutRemoves DEF Distinct
  <2>4. chans' \in [Sock -> Seq(Channel)] /\ Distinct'
    BY <1>2, <2>2, <2>3 DEF Distinct
  <2>5. QED
    BY <1>1, <1>3, <1>6, <2>1, <2>4 DEF Unsubscribe, Request, ghosts
<1>7. QED
  BY <1>4, <1>5, <1>6

LEMMA AudienceType ==
  ASSUME Typed, NEW a \in Aim
  PROVE  Audience(a) \in [Id -> Nat] /\ Meant(a) \in SUBSET Active
<1>1. a.kind \in {"user", "channel", "all"}
      /\ (a.kind = "user" => a.name \in User)
  BY DEF Aim, ToAll
<1>2. CASE a.kind = "user"
  BY <1>1, <1>2 DEF Audience, Meant, Typed, TypeOK
<1>3. CASE a.kind = "channel"
  BY <1>1, <1>3 DEF Audience, Meant
<1>4. CASE a.kind = "all"
  BY <1>1, <1>4 DEF Audience, Meant
<1>5. QED
  BY <1>1, <1>2, <1>3, <1>4

LEMMA SendTyped ==
  ASSUME Typed,
         \/ \E t \in Sender, a \in Aim : Broadcast(t, a)
         \/ \E t \in Sender : SendNext(t)
         \/ \E t \in Task : SendReturns(t)
  PROVE  Typed'
<1> USE DEF Typed, TypeOK, listVars, ghosts
<1>1. ASSUME NEW t \in Sender, NEW a \in Aim, Broadcast(t, a) PROVE Typed'
  <2>1. Audience(a) \in [Id -> Nat] /\ Meant(a) \in SUBSET Sock
    BY AudienceType, ActiveFinite
  <2>2. QED
    BY <1>1, <2>1 DEF Broadcast, Distinct
<1>2. ASSUME NEW t \in Sender, SendNext(t) PROVE Typed'
  <2>1. PICK i \in Remaining(t) : /\ todo' = [todo EXCEPT ![t][i] = @ - 1]
                                  /\ sending' = [sending EXCEPT ![t] = active[i]]
                                  /\ owed' = [owed EXCEPT ![t] = @ \ {active[i]}]
    BY <1>2 DEF SendNext
  <2>2. i \in Id /\ todo[t][i] > 0 /\ t \in Task
    BY DEF Remaining, Task
  <2>3. todo' \in [Sender -> [Id -> Nat]]
    <3>1. todo[t][i] - 1 \in Nat
      BY <2>2
    <3>2. [todo[t] EXCEPT ![i] = @ - 1] \in [Id -> Nat]
      BY <2>2, <3>1
    <3>3. todo' = [todo EXCEPT ![t] = [todo[t] EXCEPT ![i] = @ - 1]]
      BY <2>1
    <3>4. QED
      BY <3>2, <3>3
  <2>4. QED
    BY <1>2, <2>1, <2>2, <2>3 DEF SendNext, Distinct
<1>3. ASSUME NEW t \in Task, SendReturns(t) PROVE Typed'
  BY <1>3, ConfirmedType DEF SendReturns, Distinct
<1>4. QED
  BY <1>1, <1>2, <1>3

LEMMA OtherTyped ==
  ASSUME Typed,
         \/ \E s \in Sock : PeerGoes(s) \/ PingAges(s)
         \/ StopTasks
         \/ UNCHANGED vars
  PROVE  Typed'
<1> USE DEF Typed, TypeOK, listVars, sendVars, ghosts
<1>1. ASSUME NEW s \in Sock, PeerGoes(s) PROVE Typed'
  BY <1>1 DEF PeerGoes, Distinct
<1>2. ASSUME NEW s \in Sock, PingAges(s) PROVE Typed'
  BY <1>2 DEF PingAges, Distinct
<1>3. CASE StopTasks
  <2>1. Nothing \in [Id -> Nat]
    BY DEF Nothing
  <2>2. QED
    BY <1>3, <2>1 DEF StopTasks, Distinct, Task, Sender
<1>4. CASE UNCHANGED vars
  BY <1>4 DEF vars, Distinct
<1>5. QED
  BY <1>1, <1>2, <1>3, <1>4

LEMMA StepTyped == Typed /\ [Next]_vars => Typed'
BY LeavingTyped, ConnectTyped, RequestTyped, SendTyped, OtherTyped
   DEF Next, Leaving, SendStep

\* TypeOK: every variable keeps its type, for any number of connections, channels and
\* calls; no connection is filed under the client id of another one.
THEOREM TypeCorrect == Spec => []TypeOK
<1>1. Typed => TypeOK
  BY DEF Typed
<1>2. Spec => []Typed
  BY InitTyped, StepTyped, PTL DEF Spec
<1>3. QED
  BY <1>1, <1>2, PTL

-----------------------------------------------------------------------------
(* The connections a step makes and ends                                   *)

\* A handshake is neither begun nor ended.
NoHandshake == \A s \in Sock : /\ conn'[s] = conn[s] \/ conn'[s] \notin {"new", "accepting"}
                               /\ conn[s] \in {"new", "accepting"} => conn'[s] = conn[s]

LEMMA ConfirmedHandshake ==
  ASSUME Typed, NEW t \in Task, Confirmed(t)
  PROVE  NoHandshake
BY DEF Confirmed, NoHandshake, Typed, TypeOK

\* Connections are taken out.
LEMMA LeavingEffect ==
  ASSUME Typed, Leaving
  PROVE  /\ NoHandshake
         /\ UNCHANGED <<idOf, replaced, together, owed>>
         /\ \E S \in SUBSET Active : DisconnectAll(S) /\ Active' = Active \ S
<1>1. UNCHANGED <<idOf, replaced, together, owed>>
  BY DEF Leaving, SendLost, EndpointLeaves, CleanUp, CloseAll, sendVars, ghosts
<1>2. \E S \in SUBSET Active : DisconnectAll(S) /\ Active' = Active \ S
  BY <1>1, LeavingDisconnects, DisconnectTypes
<1>3. NoHandshake
  <2>1. ASSUME NEW t \in Task, SendLost(t) PROVE NoHandshake
    BY <2>1, ConfirmedHandshake DEF SendLost
  <2>2. ASSUME NEW s \in Sock, EndpointLeaves(s) PROVE NoHandshake
    BY <2>2 DEF EndpointLeaves, NoHandshake, Typed, TypeOK
  <2>3. CASE CleanUp \/ CloseAll
    BY <2>3 DEF CleanUp, CloseAll, NoHandshake
  <2>4. QED
    BY <2>1, <2>2, <2>3 DEF Leaving
<1>4. QED
  BY <1>1, <1>2, <1>3

\* A connection is filed, over another one perhaps.
LEMMA AcceptedEffect ==
  ASSUME Typed, NEW s \in Sock, Accepted(s)
  PROVE  /\ Active' = (Active \ {active[idOf[s]]}) \cup {s}
         /\ replaced' = replaced \cup (Active \cap {active[idOf[s]]})
         /\ Accepting' = Accepting \ {s}
         /\ \A r \in Sock : conn'[r] = IF r = s THEN "confirming" ELSE conn[r]
<1> USE WebSocketAssumption DEF Typed, TypeOK, Accepted
<1>1. Active' = (Active \ {active[idOf[s]]}) \cup {s}
  BY DEF Active
<1>2. replaced' = replaced \cup (Active \cap {active[idOf[s]]})
  BY DEF Active
<1>3. \A r \in Sock : conn'[r] = IF r = s THEN "confirming" ELSE conn[r]
  OBVIOUS
<1>4. Accepting' = Accepting \ {s}
  BY <1>3 DEF Accepting
<1>5. QED
  BY <1>1, <1>2, <1>3, <1>4

\* The steps that change no list of connections.
Quiet == /\ NoHandshake
         /\ UNCHANGED <<idOf, active, userIds, open, replaced, together, late>>
         /\ up' = "down" => up = "down"

LEMMA QuietSteps ==
  ASSUME Typed,
         \/ \E s \in Sock, c \in Channel : Subscribe(s, c) \/ Unsubscribe(s, c)
         \/ \E s \in Sock : Ping(s) \/ PeerGoes(s) \/ PingAges(s)
         \/ \E t \in Sender, a \in Aim : Broadcast(t, a)
         \/ \E t \in Sender : SendNext(t)
         \/ \E t \in Task : SendReturns(t)
         \/ StopTasks
         \/ UNCHANGED vars
  PROVE  Quiet
<1>1. ASSUME NEW t \in Task, SendReturns(t) PROVE Quiet
  BY <1>1, ConfirmedHandshake, SMTT(30) DEF SendReturns, Quiet, listVars, ghosts
<1>2. ASSUME NEW s \in Sock,
             Ping(s) \/ PeerGoes(s) \/ PingAges(s)
               \/ \E c \in Channel : Subscribe(s, c) \/ Unsubscribe(s, c)
      PROVE  Quiet
  BY <1>2 DEF Ping, PeerGoes, PingAges, Subscribe, Unsubscribe, Request, Quiet, NoHandshake,
              listVars, ghosts
<1>3. ASSUME NEW t \in Sender, SendNext(t) \/ \E a \in Aim : Broadcast(t, a) PROVE Quiet
  BY <1>3 DEF SendNext, Broadcast, Quiet, NoHandshake, listVars, ghosts
<1>4. CASE StopTasks \/ UNCHANGED vars
  BY <1>4 DEF StopTasks, vars, Quiet, NoHandshake, listVars, ghosts
<1>5. QED
  BY <1>1, <1>2, <1>3, <1>4

\* Every step is one of these.
LEMMA StepKinds ==
  ASSUME Typed, [Next]_vars
  PROVE  \/ \E s \in Sock : ConnectClient(s) \/ Accepted(s) \/ AcceptFails(s)
         \/ Leaving
         \/ Quiet
BY QuietSteps DEF Next, SendStep, Leaving

-----------------------------------------------------------------------------
(* The limit                                                               *)

LEMMA Sizes == /\ IsFiniteSet(Active) /\ Cardinality(Active) \in Nat
               /\ IsFiniteSet(Accepting) /\ Cardinality(Accepting) \in Nat
<1>1. Accepting \subseteq Sock
  BY DEF Accepting
<1>2. QED
  BY <1>1, ActiveFinite, FS_Subset, FS_CardinalityType, WebSocketAssumption

LEMMA StepLimit == Typed /\ LimitHeld /\ [Next]_vars => LimitHeld'
<1> SUFFICES ASSUME Typed, LimitHeld, [Next]_vars PROVE LimitHeld'
  OBVIOUS
<1> DEFINE a == Cardinality(Active)
           h == Cardinality(Accepting)
<1>0. a \in Nat /\ h \in Nat /\ together \in Nat /\ MaxConnections \in Nat \ {0}
  BY Sizes, WebSocketAssumption DEF Typed, TypeOK
<1>1. a + h < MaxConnections + (IF together = 0 THEN 1 ELSE together)
  BY DEF LimitHeld
<1>2. ASSUME NEW s \in Sock, ConnectClient(s) PROVE LimitHeld'
  <2>1. Active' = Active
    BY <1>2 DEF ConnectClient, Active, listVars
  <2>2. CASE Full(a)
    <3>1. Accepting' = Accepting
      BY <1>2, <2>2 DEF ConnectClient, Accepting, Typed, TypeOK
    <3>2. together' = IF h > together THEN h ELSE together
      BY <1>2, <3>1 DEF ConnectClient
    <3>3. QED
      BY <1>0, <1>1, <2>1, <3>1, <3>2 DEF LimitHeld
  <2>3. CASE ~Full(a)
    <3>1. Accepting' = Accepting \cup {s} /\ s \notin Accepting
      BY <1>2, <2>3 DEF ConnectClient, Accepting, Typed, TypeOK
    <3>2. Cardinality(Accepting') = h + 1
      BY <3>1, Sizes, FS_AddElement
    <3>3. together' = IF h + 1 > together THEN h + 1 ELSE together
      BY <1>2, <3>2 DEF ConnectClient
    <3>4. a < MaxConnections
      BY <1>0, <2>3 DEF Full
    <3>5. QED
      BY <1>0, <2>1, <3>2, <3>3, <3>4 DEF LimitHeld
  <2>4. QED
    BY <2>2, <2>3
<1>3. ASSUME NEW s \in Sock, Accepted(s) PROVE LimitHeld'
  <2>1. Active' \subseteq Active \cup {s} /\ Accepting' = Accepting \ {s} /\ s \in Accepting
    BY <1>3, AcceptedEffect DEF Accepted, Accepting
  <2>2. Cardinality(Accepting') = h - 1
    BY <2>1, Sizes, FS_RemoveElement
  <2>3. IsFiniteSet(Active \cup {s}) /\ Cardinality(Active \cup {s}) <= a + 1
    <3>1. IsFiniteSet(Active \cup {s})
          /\ Cardinality(Active \cup {s}) = IF s \in Active THEN a ELSE a + 1
      BY Sizes, FS_AddElement
    <3>2. QED
      BY <1>0, <3>1
  <2>4. Cardinality(Active') <= Cardinality(Active \cup {s})
        /\ Cardinality(Active') \in Nat /\ Cardinality(Active \cup {s}) \in Nat
    BY <2>1, <2>3, FS_Subset, FS_CardinalityType
  <2>5. together' = together
    BY <1>3 DEF Accepted
  <2>6. QED
    BY <1>0, <1>1, <2>2, <2>3, <2>4, <2>5 DEF LimitHeld
<1>4. ASSUME Active' \subseteq Active, Accepting' \subseteq Accepting, together' = together
      PROVE  LimitHeld'
  <2>1. /\ Cardinality(Active') \in Nat /\ Cardinality(Active') <= a
        /\ Cardinality(Accepting') \in Nat /\ Cardinality(Accepting') <= h
    BY <1>4, Sizes, FS_Subset, FS_CardinalityType
  <2>2. QED
    BY <1>0, <1>1, <1>4, <2>1 DEF LimitHeld
<1>5. ASSUME NEW s \in Sock, AcceptFails(s) PROVE LimitHeld'
  BY <1>4, <1>5 DEF AcceptFails, Active, Accepting, Typed, TypeOK, listVars, ghosts
<1>6. ASSUME NoHandshake PROVE Accepting' \subseteq Accepting
  BY <1>6 DEF NoHandshake, Accepting
<1>7. CASE Leaving
  BY <1>4, <1>6, <1>7, LeavingEffect
<1>8. CASE Quiet
  BY <1>4, <1>6, <1>8 DEF Quiet, Active
<1>9. QED
  BY <1>2, <1>3, <1>5, <1>7, <1>8, StepKinds

\* LimitHeld: however handshakes overlap, the limit is exceeded by less than the number
\* of those that were under way together (websocket_service.py:111-114).
THEOREM LimitKept == Spec => []LimitHeld
<1>1. Init => LimitHeld
  <2> SUFFICES ASSUME Init PROVE LimitHeld
    OBVIOUS
  <2>1. Active = {} /\ Accepting = {}
    BY WebSocketAssumption DEF Init, Active, Accepting
  <2>2. Cardinality(Active) = 0 /\ Cardinality(Accepting) = 0
    BY <2>1, FS_EmptySet
  <2>3. QED
    BY <2>2, WebSocketAssumption DEF Init, LimitHeld
<1>2. QED
  BY <1>1, InitTyped, StepTyped, StepLimit, PTL DEF Spec

-----------------------------------------------------------------------------
(* The shutdown                                                            *)

\* Whoever is connected or connecting after the shutdown was connecting at its end.
Overtaken == up = "down" => Active \cup Accepting \subseteq late

LEMMA StepOvertaken == Typed /\ Overtaken /\ [Next]_vars => Overtaken'
<1> SUFFICES ASSUME Typed, Overtaken, [Next]_vars, up' = "down"
             PROVE  (Active \cup Accepting \subseteq late)'
  BY DEF Overtaken
<1>1. ASSUME NEW s \in Sock, Accepted(s) PROVE (Active \cup Accepting \subseteq late)'
  <2>1. Active' \subseteq Active \cup {s} /\ Accepting' \subseteq Accepting
    BY <1>1, AcceptedEffect
  <2>2. s \in Accepting /\ up' = up /\ late' = late
    BY <1>1 DEF Accepted, Accepting
  <2>3. QED
    BY <2>1, <2>2 DEF Overtaken
<1>2. ASSUME NEW s \in Sock, ConnectClient(s) \/ AcceptFails(s)
      PROVE  (Active \cup Accepting \subseteq late)'
  <2>1. Active' = Active /\ up' = up /\ late' = late
    BY <1>2 DEF ConnectClient, AcceptFails, Active, listVars, ghosts
  <2>2. Accepting' \subseteq Accepting
    <3>1. AcceptFails(s)
      BY <1>2, <2>1 DEF ConnectClient
    <3>2. QED
      BY <3>1 DEF AcceptFails, Accepting, Typed, TypeOK
  <2>3. QED
    BY <2>1, <2>2 DEF Overtaken
<1>3. ASSUME NoHandshake PROVE Accepting' \subseteq Accepting
  BY <1>3 DEF NoHandshake, Accepting
<1>4. CASE Leaving
  <2>1. Active' \subseteq Active /\ Accepting' \subseteq Accepting
    BY <1>3, <1>4, LeavingEffect
  <2>2. CASE CloseAll
    <3>1. DisconnectAll(Active) /\ late' = Accepting /\ UNCHANGED idOf
      BY <2>2 DEF CloseAll
    <3>2. Active' = {}
      BY <3>1, DisconnectTypes
    <3>3. QED
      BY <2>1, <3>1, <3>2
  <2>3. CASE ~CloseAll
    <3>1. UNCHANGED <<up, late>>
      BY <1>4, <2>3 DEF Leaving, SendLost, EndpointLeaves, CleanUp, ghosts
    <3>2. QED
      BY <2>1, <3>1 DEF Overtaken
  <2>4. QED
    BY <2>2, <2>3
<1>5. CASE Quiet
  <2>1. Active' = Active /\ Accepting' \subseteq Accepting
    BY <1>3, <1>5 DEF Quiet, Active
  <2>2. QED
    BY <1>5, <2>1 DEF Quiet, Overtaken
<1>6. QED
  BY <1>1, <1>2, <1>4, <1>5, StepKinds

\* ShutdownCloses: no connection is left by the shutdown, but those whose handshake it
\* overtook (websocket_service.py:73-93).
THEOREM ShutdownIsComplete == Spec => []ShutdownCloses
<1>1. Init => Overtaken
  BY DEF Init, Overtaken
<1>2. Overtaken => ShutdownCloses
  BY DEF Overtaken, ShutdownCloses
<1>3. QED
  BY <1>1, <1>2, InitTyped, StepTyped, StepOvertaken, PTL DEF Spec

-----------------------------------------------------------------------------
(* The lists                                                               *)

\* A websocket that has not been accepted is in no list, and the replaced connections
\* are not active.
Unknown(s) == /\ s \notin Active /\ s \notin replaced
              /\ chans[s] = <<>>
              /\ \A t \in Sender : s \notin owed[t]

Known == /\ \A s \in Sock : conn[s] \in {"new", "accepting"} => Unknown(s)
         /\ Active \cap replaced = {}

\* The entries that the list of a user should have for a client id.
Filed(u, i) == {s \in Active \cup replaced : UserOf[s] = u /\ idOf[s] = i}

LEMMA FiledFinite ==
  ASSUME Typed
  PROVE  /\ IsFiniteSet(Active \cup replaced)
         /\ \A u, i : IsFiniteSet(Filed(u, i)) /\ Cardinality(Filed(u, i)) \in Nat
<1>1. Active \cup replaced \subseteq Sock
  BY ActiveFinite DEF Typed, TypeOK
<1>2. IsFiniteSet(Active \cup replaced)
  BY <1>1, FS_Subset, WebSocketAssumption
<1>3. ASSUME NEW u, NEW i
      PROVE  IsFiniteSet(Filed(u, i)) /\ Cardinality(Filed(u, i)) \in Nat
  <2>1. Filed(u, i) \subseteq Active \cup replaced
    BY DEF Filed
  <2>2. QED
    BY <1>2, <2>1, FS_Subset, FS_CardinalityType
<1>4. QED
  BY <1>2, <1>3

\* Only an active connection gets a channel.
LEMMA ChansGrow ==
  ASSUME Typed, [Next]_vars, NEW s \in Sock, s \notin Active, chans[s] = <<>>
  PROVE  chans'[s] = <<>>
<1>1. ASSUME NEW r \in Sock, NEW c \in Channel, Subscribe(r, c) \/ Unsubscribe(r, c)
      PROVE  chans'[s] = <<>>
  <2>1. active[idOf[r]] \in Active
    BY <1>1 DEF Subscribe, Unsubscribe, Request, Active, Typed, TypeOK
  <2>2. \E l : chans' = chans \/ chans' = [chans EXCEPT ![active[idOf[r]]] = l]
    BY <1>1 DEF Subscribe, Unsubscribe
  <2>3. QED
    BY <2>1, <2>2 DEF Typed, TypeOK
<1>2. CASE Leaving
  BY <1>2, LeavingDisconnects DEF DisconnectAll
<1>3. CASE UNCHANGED chans
  BY <1>3
<1>4. QED
  BY <1>1, <1>2, <1>3
     DEF Next, ConnectClient, Accepted, AcceptFails, Ping, PeerGoes, EndpointLeaves,
         PingAges, Broadcast, SendNext, SendStep, SendReturns, StopTasks, Leaving, vars,
         listVars

\* Only active connections become owed.
LEMMA OwedGrows ==
  ASSUME Typed, [Next]_vars, NEW t \in Sender
  PROVE  owed'[t] \subseteq owed[t] \cup Active
<1>1. ASSUME NEW r \in Sender, NEW a \in Aim, Broadcast(r, a)
      PROVE  owed'[t] \subseteq owed[t] \cup Active
  BY <1>1, AudienceType DEF Broadcast, Typed, TypeOK
<1>2. ASSUME NEW r \in Sender, SendNext(r) PROVE owed'[t] \subseteq owed[t]
  BY <1>2 DEF SendNext, Typed, TypeOK
<1>3. CASE UNCHANGED owed
  BY <1>3
<1>4. CASE Leaving
  BY <1>4, LeavingEffect
<1>5. QED
  BY <1>1, <1>2, <1>3, <1>4
     DEF Next, ConnectClient, Accepted, AcceptFails, Subscribe, Unsubscribe, Ping, Request,
         PeerGoes, PingAges, SendStep, SendReturns, StopTasks, Leaving, vars, sendVars

\* What is not accepted stays unknown, unless it is accepted.
LEMMA StepKnown == Typed /\ Known /\ [Next]_vars => Known'
<1> SUFFICES ASSUME Typed, Known, [Next]_vars PROVE Known'
  OBVIOUS
<1>1. ASSUME NEW s \in Sock, conn'[s] \in {"new", "accepting"}
      PROVE  conn[s] \in {"new", "accepting"}
  <2>1. ASSUME NEW r \in Sock, ConnectClient(r) \/ AcceptFails(r)
        PROVE  conn[s] \in {"new", "accepting"}
    BY <1>1, <2>1 DEF ConnectClient, AcceptFails, Typed, TypeOK
  <2>2. ASSUME NEW r \in Sock, Accepted(r) PROVE conn[s] \in {"new", "accepting"}
    BY <1>1, <2>2, AcceptedEffect
  <2>3. CASE NoHandshake
    BY <1>1, <2>3 DEF NoHandshake
  <2>4. QED
    BY <2>1, <2>2, <2>3, LeavingEffect, StepKinds DEF Quiet
<1>2. ASSUME NEW s \in Sock, conn'[s] \in {"new", "accepting"}, Unknown(s)
      PROVE  s \notin Active' /\ s \notin replaced'
  <2>1. ASSUME NEW r \in Sock, ConnectClient(r) \/ AcceptFails(r)
        PROVE  s \notin Active' /\ s \notin replaced'
    BY <1>2, <2>1 DEF ConnectClient, AcceptFails, Unknown, Active, listVars, ghosts
  <2>2. ASSUME NEW r \in Sock, Accepted(r) PROVE s \notin Active' /\ s \notin replaced'
    BY <1>2, <2>2, AcceptedEffect DEF Unknown
  <2>3. CASE Leaving
    BY <1>2, <2>3, LeavingEffect DEF Unknown
  <2>4. CASE Quiet
    BY <1>2, <2>4 DEF Quiet, Unknown, Active
  <2>5. QED
    BY <2>1, <2>2, <2>3, <2>4, StepKinds
<1>3. ASSUME NEW s \in Sock, Unknown(s) PROVE chans'[s] = <<>>
  BY <1>3, ChansGrow DEF Unknown
<1>4. ASSUME NEW s \in Sock, Unknown(s), NEW t \in Sender PROVE s \notin owed'[t]
  BY <1>4, OwedGrows DEF Unknown
<1>5. Active' \cap replaced' = {}
  <2>1. ASSUME NEW r \in Sock, ConnectClient(r) \/ AcceptFails(r)
        PROVE  Active' \cap replaced' = {}
    BY <2>1 DEF ConnectClient, AcceptFails, Known, Active, listVars, ghosts
  <2>2. ASSUME NEW r \in Sock, Accepted(r) PROVE Active' \cap replaced' = {}
    <3>1. r \notin Active /\ r \notin replaced
      BY <2>2 DEF Accepted, Known, Unknown
    <3>2. QED
      BY <2>2, <3>1, AcceptedEffect DEF Known
  <2>3. CASE Leaving
    BY <2>3, LeavingEffect DEF Known
  <2>4. CASE Quiet
    BY <2>4 DEF Quiet, Known, Active
  <2>5. QED
    BY <2>1, <2>2, <2>3, <2>4, StepKinds
<1>6. QED
  BY <1>1, <1>2, <1>3, <1>4, <1>5 DEF Known, Unknown

LEMMA StepLists == Typed /\ Known /\ ListsAgree /\ [Next]_vars => ListsAgree'
<1> SUFFICES ASSUME Typed, Known, ListsAgree, [Next]_vars PROVE ListsAgree'
  OBVIOUS
<1> DEFINE R == Active \cup replaced
<1>0. /\ open = Cardinality(R)
      /\ \A u \in User, i \in Id : userIds[u][i] = Cardinality(Filed(u, i))
  BY DEF ListsAgree, Filed
<1>1. ASSUME R' = R, UNCHANGED <<idOf, open, userIds>> PROVE ListsAgree'
  BY <1>0, <1>1 DEF ListsAgree, Filed
<1>2. ASSUME NEW s \in Sock, ConnectClient(s) \/ AcceptFails(s) PROVE ListsAgree'
  BY <1>1, <1>2 DEF ConnectClient, AcceptFails, Active, listVars, ghosts
<1>3. CASE Quiet
  BY <1>1, <1>3 DEF Quiet, Active
<1>4. ASSUME NEW s \in Sock, Accepted(s) PROVE ListsAgree'
  <2>1. s \notin R
    BY <1>4 DEF Accepted, Known, Unknown
  <2>2. R' = R \cup {s}
    BY <1>4, AcceptedEffect
  <2>3. UNCHANGED idOf /\ idOf[s] \in Id /\ UserOf[s] \in User
    BY <1>4, WebSocketAssumption DEF Accepted, Typed, TypeOK
  <2>4. open' = Cardinality(R')
    BY <1>0, <1>4, <2>1, <2>2, FiledFinite, FS_AddElement, ZenonT(60) DEF Accepted
  <2>5. ASSUME NEW u \in User, NEW i \in Id
        PROVE  userIds'[u][i] = Cardinality(Filed(u, i)')
    <3>1. CASE u = UserOf[s] /\ i = idOf[s]
      <4>1. Filed(u, i)' = Filed(u, i) \cup {s} /\ s \notin Filed(u, i)
        BY <2>1, <2>2, <2>3, <3>1 DEF Filed
      <4>2. Cardinality(Filed(u, i)') = Cardinality(Filed(u, i)) + 1
        BY <4>1, FiledFinite, FS_AddElement
      <4>3. userIds'[u][i] = userIds[u][i] + 1
        BY <1>4, <2>3, <3>1 DEF Accepted, Typed, TypeOK
      <4>4. QED
        BY <1>0, <4>2, <4>3
    <3>2. CASE ~(u = UserOf[s] /\ i = idOf[s])
      <4>1. Filed(u, i)' = Filed(u, i)
        BY <2>2, <2>3, <3>2 DEF Filed
      <4>2. userIds'[u][i] = userIds[u][i]
        BY <1>4, <2>3, <3>2 DEF Accepted, Typed, TypeOK
      <4>3. QED
        BY <1>0, <4>1, <4>2
    <3>3. QED
      BY <3>1, <3>2
  <2>6. QED
    BY <2>4, <2>5 DEF ListsAgree, Filed
<1>5. CASE Leaving
  <2>1. PICK S \in SUBSET Active : DisconnectAll(S) /\ Active' = Active \ S
    BY <1>5, LeavingEffect
  <2>2. UNCHANGED <<idOf, replaced>>
    BY <1>5, LeavingEffect
  <2>3. R' = R \ S /\ S \subseteq R
    BY <2>1, <2>2 DEF Known
  <2>4. open' = Cardinality(R')
    <3>1. Cardinality(R \ S) = Cardinality(R) - Cardinality(R \cap S)
      BY FiledFinite, FS_Difference
    <3>2. R \cap S = S
      BY <2>3
    <3>3. QED
      BY <1>0, <2>1, <2>3, <3>1, <3>2 DEF DisconnectAll
  <2>5. ASSUME NEW u \in User, NEW i \in Id
        PROVE  userIds'[u][i] = Cardinality(Filed(u, i)')
    <3>1. Filed(u, i)' = Filed(u, i) \ S
      BY <2>2, <2>3 DEF Filed
    <3>2. userIds'[u][i] = IF userIds[u][i] > 0 /\ active[i] \in S /\ UserOf[active[i]] = u
                             THEN userIds[u][i] - 1 ELSE userIds[u][i]
      BY <2>1 DEF DisconnectAll
    <3>3. CASE active[i] \in S /\ UserOf[active[i]] = u
      <4>1. active[i] \in Filed(u, i)
        <5>1. active[i] \in Active /\ active[i] # NoSock
          BY <2>1, <3>3, ActiveFinite, WebSocketAssumption
        <5>2. idOf[active[i]] = i
          BY <5>1 DEF Typed, TypeOK
        <5>3. QED
          BY <3>3, <5>1, <5>2 DEF Filed
      <4>2. Filed(u, i)' = Filed(u, i) \ {active[i]}
        <5>1. \A s \in S : s \in Filed(u, i) => s = active[i]
          BY <2>1 DEF Filed, Active
        <5>2. QED
          BY <3>1, <3>3, <5>1
      <4>3. Cardinality(Filed(u, i)') = Cardinality(Filed(u, i)) - 1
        <5>1. IsFiniteSet(Filed(u, i))
          BY FiledFinite
        <5>2. Cardinality(Filed(u, i) \ {active[i]}) = Cardinality(Filed(u, i)) - 1
          BY <4>1, <5>1, FS_RemoveElement
        <5>3. QED
          BY <4>2, <5>2
      <4>4. Cardinality(Filed(u, i)) # 0 /\ Cardinality(Filed(u, i)) \in Nat
        BY <4>1, FiledFinite, FS_EmptySet
      <4>5. QED
        BY <1>0, <3>2, <3>3, <4>3, <4>4
    <3>4. CASE ~(active[i] \in S /\ UserOf[active[i]] = u)
      <4>1. Filed(u, i)' = Filed(u, i)
        <5>1. \A s \in S : s \notin Filed(u, i)
          BY <2>1, <3>4 DEF Filed, Active
        <5>2. QED
          BY <3>1, <5>1
      <4>2. QED
        BY <1>0, <3>2, <3>4, <4>1
    <3>5. QED
      BY <3>3, <3>4
  <2>6. QED
    BY <2>4, <2>5 DEF ListsAgree, Filed
<1>6. QED
  BY <1>2, <1>3, <1>4, <1>5, StepKinds

LEMMA InitKnown == Init => Known /\ ListsAgree
<1> SUFFICES ASSUME Init PROVE Known /\ ListsAgree
  OBVIOUS
<1>1. Active = {} /\ replaced = {}
  BY WebSocketAssumption DEF Init, Active
<1>2. Known
  BY <1>1 DEF Init, Known, Unknown
<1>3. \A u, i : Filed(u, i) = {}
  BY <1>1 DEF Filed
<1>4. ListsAgree
  BY <1>1, <1>3, FS_EmptySet DEF Init, ListsAgree, Nothing, Filed
<1>5. QED
  BY <1>2, <1>4

Listed == Typed /\ Known /\ ListsAgree

LEMMA StepListed == Listed /\ [Next]_vars => Listed'
BY StepTyped, StepKnown, StepLists DEF Listed

LEMMA InitListed == Init => Listed
BY InitTyped, InitKnown DEF Listed

\* ListsAgree: the counter and the lists of the users name the connections there are and
\* those that were replaced, and no others (websocket_client.py:77-144).
THEOREM ListsMatch == Spec => []ListsAgree
<1>1. Listed => ListsAgree
  BY DEF Listed
<1>2. QED
  BY <1>1, InitListed, StepListed, PTL DEF Spec

-----------------------------------------------------------------------------
(* The sends of a call                                                     *)

\* The channels of an active connection name its client id.
Subscribed == \A s \in Active : \A k \in DOMAIN chans[s] : idOf[s] \in subs[chans[s][k]]

LEMMA StepSubscribed == Listed /\ Subscribed /\ [Next]_vars => Subscribed'
<1> SUFFICES ASSUME Listed, Subscribed, [Next]_vars, NEW r \in Active',
                    NEW k \in DOMAIN chans'[r]
             PROVE  idOf'[r] \in subs'[chans'[r][k]]
  BY DEF Subscribed
<1> USE DEF Listed, Typed, TypeOK
<1>0. \A s \in Active : s \in Sock /\ s # NoSock /\ idOf[s] \in Id /\ active[idOf[s]] = s
  BY WebSocketAssumption DEF Active
<1>1. CASE UNCHANGED <<idOf, active, chans, subs>>
  BY <1>1 DEF Subscribed, Active
<1>2. ASSUME NEW s \in Sock, Accepted(s) PROVE idOf'[r] \in subs'[chans'[r][k]]
  <2>1. UNCHANGED <<chans, subs, idOf>> /\ (r = s \/ r \in Active)
    <3>1. UNCHANGED <<chans, subs, idOf>>
      BY <1>2 DEF Accepted
    <3>2. Active' = (Active \ {active[idOf[s]]}) \cup {s}
      BY <1>2, AcceptedEffect
    <3>3. QED
      BY <3>1, <3>2
  <2>2. r # s
    BY <1>2, <2>1 DEF Accepted, Known, Unknown
  <2>3. QED
    BY <2>1, <2>2 DEF Subscribed
<1>3. CASE Leaving
  <2>1. PICK S \in SUBSET Active : DisconnectAll(S) /\ Active' = Active \ S
    BY <1>3, LeavingEffect
  <2>2. UNCHANGED idOf
    BY <1>3, LeavingEffect
  <2>3. r \in Active /\ r \notin S /\ r \in Sock
    BY <1>0, <2>1
  <2>4. chans'[r] = chans[r]
    BY <2>1, <2>3 DEF DisconnectAll
  <2>5. idOf[r] \in subs[chans[r][k]] /\ chans[r][k] \in Channel
    BY <2>3, <2>4 DEF Subscribed
  <2>6. \A s \in S : idOf[s] # idOf[r]
    BY <1>0, <2>1, <2>3
  <2>7. subs'[chans[r][k]] = subs[chans[r][k]] \
            {idOf[s] : s \in {q \in S : chans[r][k] \in Unsubscribed(q)}}
    BY <2>1, <2>5 DEF DisconnectAll
  <2>8. idOf[r] \in subs'[chans[r][k]]
    BY <2>5, <2>6, <2>7
  <2>9. QED
    BY <2>2, <2>4, <2>8
<1>4. ASSUME NEW s \in Sock, NEW c \in Channel, Subscribe(s, c) \/ Unsubscribe(s, c)
      PROVE  idOf'[r] \in subs'[chans'[r][k]]
  <2> DEFINE a == active[idOf[s]]
  <2>1. /\ a \in Active /\ idOf[a] = idOf[s] /\ UNCHANGED <<idOf, active>>
        /\ idOf[s] \in Id /\ a \in Sock
    BY <1>4 DEF Subscribe, Unsubscribe, Request, Active
  <2>2. r \in Active /\ r \in Sock
    BY <1>0, <2>1 DEF Active
  <2>3. CASE Subscribe(s, c)
    <3>1. subs' = [subs EXCEPT ![c] = @ \cup {idOf[s]}]
      BY <2>3 DEF Subscribe
    <3>2. \/ chans'[r] = chans[r]
          \/ r = a /\ chans'[r] = Append(chans[r], c)
      BY <2>1, <2>2, <2>3 DEF Subscribe
    <3>3. CASE chans'[r] = chans[r]
      BY <2>1, <2>2, <3>1, <3>3 DEF Subscribed
    <3>4. CASE r = a /\ chans'[r] = Append(chans[r], c)
      <4>1. chans[r] \in Seq(Channel)
        BY <2>2
      <4>2. chans'[r][k] = c \/ (k \in DOMAIN chans[r] /\ chans'[r][k] = chans[r][k])
        BY <3>4, <4>1
      <4>3. QED
        BY <2>1, <2>2, <3>1, <3>4, <4>2 DEF Subscribed
    <3>5. QED
      BY <3>2, <3>3, <3>4
  <2>4. CASE Unsubscribe(s, c)
    <3>1. subs' = [subs EXCEPT ![c] = @ \ {idOf[s]}]
          /\ chans' = [chans EXCEPT ![a] = Without(chans[a], c)]
      BY <2>4 DEF Unsubscribe
    <3>2. CASE r = a
      <4>1. chans'[r] = Without(chans[r], c)
        BY <2>2, <3>1, <3>2
      <4>2. chans'[r][k] # c /\ \E m \in DOMAIN chans[r] : chans[r][m] = chans'[r][k]
        <5>1. chans[r] \in Seq(Channel)
              /\ \A m, n \in DOMAIN chans[r] : chans[r][m] = chans[r][n] => m = n
          BY <2>2 DEF Distinct
        <5>2. \A n \in DOMAIN Without(chans[r], c) :
                 /\ Without(chans[r], c)[n] # c
                 /\ \E m \in DOMAIN chans[r] : chans[r][m] = Without(chans[r], c)[n]
          BY <5>1, WithoutRemoves
        <5>3. QED
          BY <4>1, <5>2
      <4>3. QED
        BY <2>1, <2>2, <3>1, <4>2 DEF Subscribed
    <3>3. CASE r # a
      <4>1. idOf[r] # idOf[s]
        BY <1>0, <2>2, <3>3
      <4>2. chans'[r] = chans[r]
        BY <2>2, <3>1, <3>3
      <4>3. idOf[r] \in subs[chans[r][k]] /\ chans[r][k] \in Channel
        BY <2>2, <4>2 DEF Subscribed
      <4>4. QED
        BY <2>1, <3>1, <4>1, <4>2, <4>3
    <3>4. QED
      BY <3>2, <3>3
  <2>5. QED
    BY <1>4, <2>3, <2>4
<1>5. QED
  BY <1>1, <1>2, <1>3, <1>4
     DEF Next, ConnectClient, AcceptFails, Ping, Request, PeerGoes, EndpointLeaves,
         PingAges, Broadcast, SendNext, SendStep, SendReturns, StopTasks, Leaving, vars,
         listVars

\* The copy that a call makes has all connections it is for.
LEMMA AudienceComplete ==
  ASSUME Listed, Subscribed, NEW a \in Aim, NEW s \in Meant(a)
  PROVE  Audience(a)[idOf[s]] > 0
<1> USE DEF Listed, Typed, TypeOK
<1>1. a.kind \in {"user", "channel", "all"}
      /\ (a.kind = "user" => a.name \in User)
  BY DEF Aim, ToAll
<1>2. s \in Active /\ s \in Sock /\ idOf[s] \in Id /\ active[idOf[s]] = s /\ s # NoSock
  BY AudienceType, ActiveFinite, WebSocketAssumption DEF Active
<1>3. CASE a.kind = "user"
  <2>1. s \in Filed(a.name, idOf[s])
    BY <1>2, <1>3 DEF Meant, Filed
  <2>2. userIds[a.name][idOf[s]] = Cardinality(Filed(a.name, idOf[s]))
    BY <1>1, <1>2, <1>3 DEF ListsAgree, Filed
  <2>3. /\ IsFiniteSet(Filed(a.name, idOf[s]))
        /\ Cardinality(Filed(a.name, idOf[s])) \in Nat
    BY FiledFinite
  <2>4. Cardinality(Filed(a.name, idOf[s])) # 0
    BY <2>1, <2>3, FS_EmptySet
  <2>5. QED
    BY <1>3, <2>2, <2>3, <2>4 DEF Audience
<1>4. CASE a.kind = "channel"
  <2>1. idOf[s] \in subs[a.name]
    BY <1>2, <1>4 DEF Meant, Subscribed
  <2>2. QED
    BY <1>2, <1>4, <2>1 DEF Audience
<1>5. CASE a.kind = "all"
  BY <1>2, <1>5 DEF Audience
<1>6. QED
  BY <1>1, <1>3, <1>4, <1>5

LEMMA StepSkipped ==
  Listed /\ Subscribed /\ NobodySkipped /\ [Next]_vars => NobodySkipped'
<1> SUFFICES ASSUME Listed, Subscribed, NobodySkipped, [Next]_vars, NEW t \in Sender,
                    ~(t = Heartbeat /\ up' # "running"), NEW s \in owed'[t] \cap Active'
             PROVE  todo'[t][idOf'[s]] > 0
  BY SMTT(30) DEF NobodySkipped
<1> USE DEF Listed, Typed, TypeOK
<1>0. up' = "running" => up = "running"
  BY DEF Next, ConnectClient, Accepted, AcceptFails, Subscribe, Unsubscribe, Ping, Request,
         PeerGoes, EndpointLeaves, PingAges, Broadcast, SendNext, SendStep, SendReturns,
         SendLost, CleanUp, StopTasks, CloseAll, vars
<1>1. \A r \in owed[t] \cap Active : todo[t][idOf[r]] > 0
  BY <1>0 DEF NobodySkipped
<1>2. CASE Active' \subseteq Active /\ UNCHANGED <<idOf, todo, owed>>
  BY <1>1, <1>2
<1>3. ASSUME NEW r \in Sock, Accepted(r) PROVE todo'[t][idOf'[s]] > 0
  <2>1. UNCHANGED <<idOf, todo, owed>> /\ r \notin owed[t]
    BY <1>3 DEF Accepted, Known, Unknown
  <2>2. s \in Active
    BY <1>3, <2>1, AcceptedEffect
  <2>3. QED
    BY <1>1, <2>1, <2>2
<1>4. CASE Leaving
  <2>1. UNCHANGED todo
    BY <1>4 DEF Leaving, SendLost, Continue, EndpointLeaves, CleanUp, CloseAll, sendVars
  <2>2. QED
    BY <1>2, <1>4, <2>1, LeavingEffect
<1>5. ASSUME NEW r \in Sender, NEW a \in Aim, Broadcast(r, a)
      PROVE  todo'[t][idOf'[s]] > 0
  <2>1. UNCHANGED <<idOf, active>>
    BY <1>5 DEF Broadcast, listVars
  <2>2. CASE t = r
    <3>1. todo'[t] = Audience(a) /\ owed'[t] = Meant(a)
      BY <1>5, <2>2 DEF Broadcast
    <3>2. QED
      BY <2>1, <3>1, AudienceComplete
  <2>3. CASE t # r
    <3>1. todo'[t] = todo[t] /\ owed'[t] = owed[t]
      BY <1>5, <2>3 DEF Broadcast
    <3>2. QED
      BY <1>1, <2>1, <3>1 DEF Active
  <2>4. QED
    BY <2>2, <2>3
<1>6. ASSUME NEW r \in Sender, SendNext(r) PROVE todo'[t][idOf'[s]] > 0
  <2>1. UNCHANGED <<idOf, active>>
    BY <1>6 DEF SendNext, listVars
  <2>2. PICK i \in Remaining(r) : /\ todo' = [todo EXCEPT ![r][i] = @ - 1]
                                  /\ owed' = [owed EXCEPT ![r] = @ \ {active[i]}]
    BY <1>6 DEF SendNext
  <2>3. s \in Active /\ s \in owed[t] /\ active[idOf[s]] = s /\ i \in Id
    BY <2>1, <2>2 DEF Active, Remaining
  <2>4. t = r => idOf[s] # i
    BY <2>2, <2>3
  <2>5. todo'[t][idOf[s]] = todo[t][idOf[s]]
    BY <2>2, <2>3, <2>4
  <2>6. QED
    BY <1>1, <2>1, <2>3, <2>5
<1>7. CASE StopTasks
  <2>1. t # Heartbeat /\ UNCHANGED <<idOf, active, owed>>
    BY <1>7 DEF StopTasks, listVars
  <2>2. todo'[t] = todo[t]
    BY <1>7, <2>1 DEF StopTasks
  <2>3. QED
    BY <1>1, <2>1, <2>2 DEF Active
<1>8. CASE UNCHANGED <<idOf, active, todo, owed>>
  BY <1>2, <1>8 DEF Active
<1>9. QED
  BY <1>3, <1>4, <1>5, <1>6, <1>7, <1>8
     DEF Next, ConnectClient, AcceptFails, Subscribe, Unsubscribe, Ping, Request,
         PeerGoes, PingAges, SendStep, SendReturns, Leaving, vars, listVars, sendVars

\* NobodySkipped: whoever is connected, replaced or disconnected while a call sends, and
\* however its sends end, it is still to come to every connection that it was for when
\* it began (websocket_client.py:173-210).
THEOREM NobodyIsSkipped == Spec => []NobodySkipped
<1>1. Init => Subscribed /\ NobodySkipped
  BY WebSocketAssumption DEF Init, Subscribed, NobodySkipped, Active
<1>2. QED
  BY <1>1, InitListed, StepListed, StepSubscribed, StepSkipped, PTL DEF Spec

-----------------------------------------------------------------------------
(* The outbox: types                                                       *)

LEMMA OutboxInitTypes == OutboxInit => OutboxTypeOK
BY OutboxAssumption DEF OutboxInit, OutboxTypeOK, Status, Phase, Working, Busy

\* Where a consumer goes next, with its batch.
LEMMA DoneTypes ==
  ASSUME OutboxTypeOK, NEW c \in Consumer, NEW e \in Event, Current(c, e), Done(c, e)
  PROVE  /\ pc' \in [Consumer -> Phase]
         /\ batch' \in [Consumer -> SUBSET Event]
         /\ snap' \in [Consumer -> [Event -> Nat]]
         /\ \A d \in Consumer : pc'[d] \in Busy <=> batch'[d] # {}
<1> USE DEF OutboxTypeOK
<1>1. snap' \in [Consumer -> [Event -> Nat]]
  BY DEF Done
<1>2. batch' = [batch EXCEPT ![c] = batch[c] \ {e}]
  BY DEF Done
<1>3. pc' = [pc EXCEPT ![c] = IF batch[c] # {e} THEN "handle" ELSE AfterShard(unvisited[c])]
  BY DEF Done, Goto
<1>4. pc' \in [Consumer -> Phase]
  BY <1>3 DEF AfterShard, Phase, Working, Busy
<1>5. \A d \in Consumer : pc'[d] \in Busy <=> batch'[d] # {}
  <2>1. pc'[c] \in Busy <=> batch[c] # {e}
    BY <1>3 DEF AfterShard, Busy
  <2>2. batch'[c] = batch[c] \ {e} /\ e \in batch[c]
    BY <1>2 DEF Current
  <2>3. \A d \in Consumer \ {c} : pc'[d] = pc[d] /\ batch'[d] = batch[d]
    BY <1>2, <1>3
  <2>4. QED
    BY <2>1, <2>2, <2>3
<1>6. QED
  BY <1>1, <1>2, <1>4, <1>5

LEMMA AfterMarkTypes ==
  ASSUME OutboxTypeOK, NEW c \in Consumer, NEW e \in Event, Marking(c, e), AfterMark(c, e)
  PROVE  /\ pc' \in [Consumer -> Phase]
         /\ batch' \in [Consumer -> SUBSET Event]
         /\ snap' \in [Consumer -> [Event -> Nat]]
         /\ \A d \in Consumer : pc'[d] \in Busy <=> batch'[d] # {}
<1>1. CASE pc[c] = "markRaised"
  BY <1>1 DEF AfterMark, Goto, OutboxTypeOK, Phase, Working, Busy
<1>2. CASE pc[c] # "markRaised"
  BY <1>2, DoneTypes DEF AfterMark, Marking
<1>3. QED
  BY <1>1, <1>2

LEMMA SetStatusTypes ==
  ASSUME OutboxTypeOK, NEW c \in Consumer, NEW e \in Event, Marking(c, e),
         NEW times \in Nat, SetStatus(e, NewStatus(c, e), times)
  PROVE  row' \in [Event -> Status] /\ retries' \in [Event -> Nat]
<1>1. NewStatus(c, e) \in Status
  BY DEF NewStatus, RetryStatus, Marking, Busy, Status
<1>2. QED
  BY <1>1 DEF SetStatus, OutboxTypeOK

LEMMA OutboxStepTypes == OutboxTypeOK /\ [OutboxNext]_outboxVars => OutboxTypeOK'
<1> SUFFICES ASSUME OutboxTypeOK, [OutboxNext]_outboxVars PROVE OutboxTypeOK'
  OBVIOUS
<1> USE OutboxAssumption
<1>1. ASSUME NEW e \in Event, Publish(e) PROVE OutboxTypeOK'
  <2>1. PlaceOf(e) \in Shard \X Partition
    BY DEF PlaceOf, Partition
  <2>2. row' \in [Event -> Status] /\ seq' \in [Event -> Nat]
        /\ lastSeq' \in [Shard \X Partition -> Nat]
    BY <1>1, <2>1 DEF Publish, OutboxTypeOK, Status
  <2>3. QED
    BY <1>1, <2>2 DEF Publish, OutboxTypeOK, ownVars, history
<1>2. ASSUME NEW e \in Event, CleanupPublished(e) \/ CleanupFailed(e) PROVE OutboxTypeOK'
  BY <1>2 DEF CleanupPublished, CleanupFailed, OutboxTypeOK, ownVars, history, Status
<1>3. ASSUME NEW c \in Consumer, Lock(c) PROVE OutboxTypeOK'
  BY <1>3 DEF Lock, Goto, OutboxTypeOK, tableVars, ownVars, history, Phase, Working, Busy
<1>4. ASSUME NEW c \in Consumer, ListShards(c) PROVE OutboxTypeOK'
  BY <1>4 DEF ListShards, Goto, OutboxTypeOK, tableVars, history, Phase, Working, Busy
<1>5. ASSUME NEW c \in Consumer, ListFails(c) PROVE OutboxTypeOK'
  BY <1>5 DEF ListFails, Fault, Goto, OutboxTypeOK, tableVars, ownVars, history, Phase,
              Working, Busy
<1>6. ASSUME NEW c \in Consumer, NEW s \in Shard, Read(c, s) PROVE OutboxTypeOK'
  <2> DEFINE L == Limited(Visible(s))
  <2>1. L \in SUBSET Event
    BY DEF Limited, Visible
  <2> HIDE DEF L
  <2>2. pc' = [pc EXCEPT ![c] = IF L = {} THEN AfterShard(unvisited[c] \ {s}) ELSE "handle"]
        /\ batch' = [batch EXCEPT ![c] = L]
    BY <1>6 DEF Read, Goto, L
  <2>3. pc' \in [Consumer -> Phase] /\ batch' \in [Consumer -> SUBSET Event]
    BY <2>1, <2>2 DEF OutboxTypeOK, AfterShard, Phase, Working, Busy
  <2>4. \A d \in Consumer : pc'[d] \in Busy <=> batch'[d] # {}
    BY <2>2 DEF OutboxTypeOK, AfterShard, Busy
  <2>5. snap' \in [Consumer -> [Event -> Nat]]
    BY <1>6 DEF Read, OutboxTypeOK
  <2>6. unvisited' \in [Consumer -> SUBSET Shard]
    BY <1>6 DEF Read, OutboxTypeOK
  <2>7. QED
    BY <1>6, <2>3, <2>4, <2>5, <2>6 DEF Read, OutboxTypeOK, tableVars, history
<1>7. ASSUME NEW c \in Consumer, NEW s \in Shard, ReadFails(c, s) PROVE OutboxTypeOK'
  BY <1>7 DEF ReadFails, Fault, Goto, AfterShard, OutboxTypeOK, tableVars, history, Phase,
              Working, Busy
<1>8. ASSUME NEW c \in Consumer, NEW e \in Event, Handle(c, e) PROVE OutboxTypeOK'
  <2>1. PICK result \in DOMAIN Outcome :
          /\ pc' = [pc EXCEPT ![c] = Outcome[result]]
          /\ handled' = [handled EXCEPT ![e] = IF result = "ok" THEN @ + 1 ELSE @]
    BY <1>8 DEF Handle, Goto
  <2>2. Outcome[result] \in Busy
    BY DEF Outcome, Busy
  <2>3. pc' \in [Consumer -> Phase] /\ \A d \in Consumer : pc'[d] \in Busy <=> pc[d] \in Busy
    BY <1>8, <2>1, <2>2 DEF Handle, OutboxTypeOK, Phase, Working, Busy
  <2>4. handled' \in [Event -> Nat]
    BY <2>1 DEF OutboxTypeOK
  <2>5. QED
    BY <1>8, <2>3, <2>4 DEF Handle, OutboxTypeOK, tableVars, ownVars
<1>9. ASSUME NEW c \in Consumer, NEW e \in Event, Skip(c, e) PROVE OutboxTypeOK'
  BY <1>9 DEF Skip, Goto, OutboxTypeOK, tableVars, ownVars, Phase, Working, Busy
<1>10. ASSUME NEW c \in Consumer, NEW e \in Event, Mark(c, e) PROVE OutboxTypeOK'
  BY <1>10, AfterMarkTypes, SetStatusTypes DEF Mark, OutboxTypeOK, history
<1>11. ASSUME NEW c \in Consumer, NEW e \in Event, MarkFails(c, e) PROVE OutboxTypeOK'
  BY <1>11, AfterMarkTypes DEF MarkFails, Fault, OutboxTypeOK, tableVars, history
<1>12. ASSUME NEW c \in Consumer, NEW e \in Event, MarkTwice(c, e) PROVE OutboxTypeOK'
  BY <1>12, AfterMarkTypes, SetStatusTypes DEF MarkTwice, Fault, OutboxTypeOK, history
<1>13. ASSUME NEW c \in Consumer, Release(c) \/ ReleaseFails(c) PROVE OutboxTypeOK'
  <2>1. pc[c] \notin Busy
    BY <1>13 DEF Release, ReleaseFails, Busy
  <2>2. PICK p \in {"idle", "stopped"} : pc' = [pc EXCEPT ![c] = p]
    BY <1>13 DEF Release, ReleaseFails, Goto
  <2>3. pc' \in [Consumer -> Phase] /\ \A d \in Consumer : pc'[d] \in Busy <=> pc[d] \in Busy
    BY <2>1, <2>2 DEF OutboxTypeOK, Phase, Working, Busy
  <2>4. owner' \in Consumer \cup {NoConsumer} /\ faults' \in 0..MaxFaults
    BY <1>13 DEF Release, ReleaseFails, Released, Fault, OutboxTypeOK
  <2>5. QED
    BY <1>13, <2>3, <2>4 DEF Release, ReleaseFails, OutboxTypeOK, tableVars, ownVars, history
<1>14. ASSUME NEW c \in Consumer, Stop(c) PROVE OutboxTypeOK'
  BY <1>14 DEF Stop, Fault, Goto, OutboxTypeOK, tableVars, history, Phase, Working, Busy
<1>15. ASSUME NEW c \in Consumer, Crash(c) PROVE OutboxTypeOK'
  BY <1>15 DEF Crash, Fault, Goto, OutboxTypeOK, tableVars, history, Phase, Working, Busy
<1>16. ASSUME NEW c \in Consumer, Restart(c) PROVE OutboxTypeOK'
  BY <1>16 DEF Restart, Goto, OutboxTypeOK, tableVars, ownVars, history, Phase, Working, Busy
<1>17. CASE ExpireAbandoned \/ ExpireUnderWork
  BY <1>17 DEF ExpireAbandoned, ExpireUnderWork, Fault, OutboxTypeOK, tableVars, ownVars,
               history
<1>18. CASE UNCHANGED outboxVars
  BY <1>18 DEF OutboxTypeOK, outboxVars
<1>19. QED
  BY <1>1, <1>2, <1>3, <1>4, <1>5, <1>6, <1>7, <1>8, <1>9, <1>10, <1>11, <1>12, <1>13,
     <1>14, <1>15, <1>16, <1>17, <1>18 DEF OutboxNext, ConsumerStep, ConsumerFault

\* Every reachable state of the outbox is well typed
\* (create_universal_outbox.sql:9-41, universal_outbox_consumer.py:126-296).
THEOREM OutboxTypes == OutboxSpec => []OutboxTypeOK
BY OutboxInitTypes, OutboxStepTypes, PTL DEF OutboxSpec

-----------------------------------------------------------------------------
(* The outbox: the rows and the batches                                    *)

\* The published events of a place have numbers of their own, from 1 on.
NumberInv ==
    /\ IsFiniteSet({e \in Event : row[e] # "none"})
    /\ \A e \in Event : row[e] = "none" <=> seq[e] = 0
    /\ \A e \in Event : seq[e] <= lastSeq[PlaceOf(e)]
    /\ \A e, f \in Event :
        (PlaceOf(e) = PlaceOf(f) /\ seq[e] = seq[f] /\ seq[e] # 0) => e = f

\* What has left the pending rows, or come back to them, was taken up.
RowInv(e) ==
    /\ row[e] = "none" => e \notin tried /\ handled[e] = 0
    /\ row[e] \notin {"none", "pending"} \/ retries[e] > 0 => e \in tried

\* A consumer has been through the handler of its event.
Marks(c) == pc[c] \in Busy \ {"handle"}

\* Its batch is of one shard, which it will not visit again; the events before those
\* of the batch are in it too or have been taken up.
BatchInv(c) ==
    /\ \A e \in batch[c] : row[e] # "none" /\ ShardOf[e] \notin unvisited[c]
    /\ \A e, f \in batch[c] : ShardOf[e] = ShardOf[f]
    /\ \A e \in Event : Marks(c) /\ Current(c, e) => e \in tried
    /\ \A e \in Registered : pc[c] = "markPublished" /\ Current(c, e) => handled[e] > 0
    /\ \A f \in batch[c], e \in Event :
        (PlaceOf(e) = PlaceOf(f) /\ 0 < seq[e] /\ seq[e] < seq[f])
            => e \in tried \/ e \in batch[c]

OutboxInv ==
    /\ OutboxTypeOK
    /\ NumberInv
    /\ \A e \in Event : RowInv(e)
    /\ \A e \in Registered : row[e] = "published" => handled[e] > 0
    /\ \A c \in Consumer : BatchInv(c)

\* A step leaves the consumer d alone.
Alone(d) == pc'[d] = pc[d] /\ unvisited'[d] = unvisited[d] /\ batch'[d] = batch[d]

\* A step takes back nothing that is known of an event.
Gains ==
    /\ tried \subseteq tried'
    /\ \A e \in Event : handled'[e] >= handled[e]

\* A consumer is at one event.
LEMMA OneCurrent ==
  ASSUME OutboxTypeOK, NumberInv, NEW c \in Consumer, BatchInv(c),
         NEW e \in Event, NEW f \in Event, Current(c, e), Current(c, f)
  PROVE  e = f
<1>1. e \in batch[c] /\ f \in batch[c] /\ ~ Before(e, f) /\ ~ Before(f, e)
  BY DEF Current
<1>2. ShardOf[e] = ShardOf[f] /\ row[e] # "none"
  BY <1>1 DEF BatchInv
<1>3. PartOf[e] = PartOf[f] /\ seq[e] = seq[f]
  <2>1. PartOf[e] \in Nat /\ PartOf[f] \in Nat /\ seq[e] \in Nat /\ seq[f] \in Nat
    BY OutboxAssumption DEF OutboxTypeOK
  <2>2. QED
    BY <1>1, <2>1 DEF Before
<1>4. seq[e] # 0
  BY <1>2 DEF NumberInv
<1>5. QED
  BY <1>2, <1>3, <1>4 DEF NumberInv, PlaceOf

\* The event a consumer is at depends on its batch and the numbers of that alone.
LEMMA SameCurrent ==
  ASSUME NEW d \in Consumer, batch'[d] = batch[d], \A e \in batch[d] : seq'[e] = seq[e],
         NEW e \in Event
  PROVE  Current(d, e)' <=> Current(d, e)
BY DEF Current, Before

\* Without a publication the numbers stay.
LEMMA NumbersKept ==
  ASSUME NumberInv, seq' = seq, lastSeq' = lastSeq,
         \A e \in Event : row'[e] = "none" <=> row[e] = "none"
  PROVE  NumberInv'
<1>1. {e \in Event : row'[e] # "none"} = {e \in Event : row[e] # "none"}
  OBVIOUS
<1>2. QED
  BY <1>1 DEF NumberInv, PlaceOf

\* What a step of another does to the batch of a consumer: nothing, also when it
\* publishes an event, whose number is the largest of its place.
LEMMA BatchKept ==
  ASSUME OutboxTypeOK, OutboxTypeOK', NEW d \in Consumer, BatchInv(d), Alone(d), Gains,
         \A e \in Event : row[e] # "none" => row'[e] # "none" /\ seq'[e] = seq[e],
         \A e, f \in Event : (PlaceOf(e) = PlaceOf(f) /\ seq'[e] # seq[e] /\ row[f] # "none")
                                => seq[f] < seq'[e]
  PROVE  BatchInv(d)'
<1> USE DEF BatchInv, Alone, Gains
<1>1. \A e \in batch[d] : e \in Event /\ seq'[e] = seq[e]
  BY DEF OutboxTypeOK
<1>2. \A e \in Event : Current(d, e)' <=> Current(d, e)
  BY <1>1, SameCurrent
<1>3. (\A e \in batch[d] : row[e] # "none" /\ ShardOf[e] \notin unvisited[d])'
  BY <1>1
<1>4. (\A e, f \in batch[d] : ShardOf[e] = ShardOf[f])'
  OBVIOUS
<1>5. (\A e \in Event : Marks(d) /\ Current(d, e) => e \in tried)'
  BY <1>2 DEF Marks
<1>6. (\A e \in Registered : pc[d] = "markPublished" /\ Current(d, e) => handled[e] > 0)'
  <2> SUFFICES ASSUME NEW e \in Registered, pc[d] = "markPublished", Current(d, e)'
               PROVE  handled'[e] > 0
    OBVIOUS
  <2>1. e \in Event
    BY DEF Current, OutboxTypeOK
  <2>2. handled[e] > 0
    BY <1>2, <2>1
  <2>3. QED
    BY <2>1, <2>2 DEF OutboxTypeOK
<1>7. ASSUME NEW f \in batch[d], NEW e \in Event,
             PlaceOf(e) = PlaceOf(f), 0 < seq'[e], seq'[e] < seq'[f]
      PROVE  e \in tried' \/ e \in batch'[d]
  <2>1. f \in Event /\ row[f] # "none" /\ seq'[f] = seq[f]
    BY <1>1
  <2>2. seq'[e] = seq[e]
    BY <1>7, <2>1 DEF OutboxTypeOK
  <2>3. QED
    BY <1>7, <2>1, <2>2
<1>8. QED
  BY <1>3, <1>4, <1>5, <1>6, <1>7 DEF PlaceOf

\* The same for a step that publishes nothing.
LEMMA OthersKept ==
  ASSUME OutboxTypeOK, OutboxTypeOK', NEW d \in Consumer, BatchInv(d), Alone(d), Gains,
         seq' = seq, \A e \in Event : row'[e] = "none" <=> row[e] = "none"
  PROVE  BatchInv(d)'
BY BatchKept DEF OutboxTypeOK

\* A consumer that is through with an event it has marked, or wanted to mark.
LEMMA DoneBatch ==
  ASSUME OutboxInv, OutboxTypeOK', NEW c \in Consumer, NEW e \in Event,
         Marking(c, e), Done(c, e), Gains, seq' = seq, unvisited' = unvisited,
         \A f \in Event : row'[f] = "none" <=> row[f] = "none"
  PROVE  BatchInv(c)'
<1> USE DEF OutboxInv
<1>1. BatchInv(c)
  OBVIOUS
<1>2. batch'[c] = batch[c] \ {e} /\ e \in tried
  BY <1>1 DEF Done, Marking, Marks, OutboxTypeOK, BatchInv
<1>3. pc'[c] \notin Busy \ {"handle"}
  BY DEF Done, Goto, AfterShard, Busy, OutboxTypeOK
<1>4. pc'[c] # "markPublished"
  BY <1>3 DEF Busy
<1>5. \A f \in batch'[c] : f \in Event /\ row'[f] # "none" /\ ShardOf[f] \notin unvisited'[c]
  BY <1>1, <1>2 DEF BatchInv, OutboxTypeOK
<1>6. \A f, g \in batch'[c] : ShardOf[f] = ShardOf[g]
  BY <1>1, <1>2 DEF BatchInv
<1>7. ASSUME NEW f \in batch'[c], NEW g \in Event,
             PlaceOf(g) = PlaceOf(f), 0 < seq[g], seq[g] < seq[f]
      PROVE  g \in tried' \/ g \in batch'[c]
  BY <1>1, <1>2, <1>7 DEF BatchInv, Gains
<1>8. QED
  BY <1>3, <1>4, <1>5, <1>6, <1>7 DEF BatchInv, Marks, PlaceOf

\* A consumer that stays with its batch, and with what it is about to mark.
LEMMA SameBatch ==
  ASSUME OutboxInv, OutboxTypeOK', NEW c \in Consumer, batch'[c] = batch[c], Gains,
         seq' = seq, unvisited'[c] \subseteq unvisited[c] \/ batch[c] = {},
         \A f \in Event : row'[f] = "none" <=> row[f] = "none",
         \A f \in Event : Marks(c)' /\ Current(c, f) => f \in tried',
         \A f \in Registered : pc'[c] = "markPublished" /\ Current(c, f) => handled'[f] > 0
  PROVE  BatchInv(c)'
<1> USE DEF OutboxInv
<1>1. BatchInv(c)
  OBVIOUS
<1>2. \A f \in Event : Current(c, f)' <=> Current(c, f)
  BY SameCurrent
<1>3. \A f \in batch'[c] : f \in Event /\ row'[f] # "none" /\ ShardOf[f] \notin unvisited'[c]
  BY <1>1 DEF BatchInv, OutboxTypeOK
<1>4. \A f, g \in batch'[c] : ShardOf[f] = ShardOf[g]
  BY <1>1 DEF BatchInv
<1>5. \A f \in Registered : pc'[c] = "markPublished" /\ Current(c, f)' => handled'[f] > 0
  <2>1. \A f \in Registered : Current(c, f)' => f \in Event
    BY DEF Current, OutboxTypeOK
  <2>2. QED
    BY <1>2, <2>1
<1>6. ASSUME NEW f \in batch'[c], NEW g \in Event,
             PlaceOf(g) = PlaceOf(f), 0 < seq[g], seq[g] < seq[f]
      PROVE  g \in tried' \/ g \in batch'[c]
  BY <1>1, <1>6 DEF BatchInv, Gains
<1>7. QED
  BY <1>2, <1>3, <1>4, <1>5, <1>6 DEF BatchInv, PlaceOf

\* An earlier event of the place of one that is read is read with it.
LEMMA EarlierRead ==
  ASSUME OutboxTypeOK, NumberInv, NEW s \in Shard, NEW e \in Event, NEW f \in Event,
         f \in Limited(Visible(s)), e \in Visible(s), PartOf[e] = PartOf[f], seq[e] < seq[f]
  PROVE  e \in Limited(Visible(s))
<1> DEFINE V == Visible(s)
           P(g) == {h \in V : Before(h, g)}
<1>1. V \subseteq {g \in Event : row[g] # "none"}
  BY DEF Visible
<1>2. IsFiniteSet(V)
  BY <1>1, FS_Subset DEF NumberInv
<1>3. P(e) \subseteq P(f) /\ P(f) \subseteq V
  <2>1. ASSUME NEW h \in V, Before(h, e) PROVE Before(h, f)
    <3>1. h \in Event
      BY <1>1
    <3>2. QED
      BY <2>1, <3>1, OutboxAssumption DEF Before, OutboxTypeOK
  <2>2. QED
    BY <2>1
<1>4. IsFiniteSet(P(f)) /\ IsFiniteSet(P(e)) /\ Cardinality(P(e)) <= Cardinality(P(f))
  BY <1>2, <1>3, FS_Subset
<1>5. Cardinality(P(e)) \in Nat /\ Cardinality(P(f)) \in Nat
  BY <1>4, FS_CardinalityType
<1>6. Cardinality(P(f)) < Batch
  BY DEF Limited
<1>7. Cardinality(P(e)) < Batch
  BY <1>4, <1>5, <1>6, OutboxAssumption
<1>8. QED
  BY <1>7 DEF Limited

LEMMA OutboxInitInv == OutboxInit => OutboxInv
<1> SUFFICES ASSUME OutboxInit PROVE OutboxInv
  OBVIOUS
<1>1. OutboxTypeOK
  BY OutboxInitTypes
<1>2. {e \in Event : row[e] # "none"} = {}
  BY DEF OutboxInit
<1>3. \A e \in Event : PlaceOf(e) \in Shard \X Partition
  BY OutboxAssumption DEF PlaceOf, Partition
<1>4. NumberInv
  <2>1. \A e \in Event : row[e] = "none" /\ seq[e] = 0 /\ lastSeq[PlaceOf(e)] = 0
    BY <1>3 DEF OutboxInit
  <2>2. IsFiniteSet({e \in Event : row[e] # "none"})
    BY <1>2, FS_EmptySet
  <2>3. QED
    BY <2>1, <2>2 DEF NumberInv
<1>5. \A c \in Consumer : BatchInv(c)
  BY DEF BatchInv, Marks, Busy, Current, OutboxInit
<1>6. \A e \in Event : row[e] = "none" /\ retries[e] = 0 /\ e \notin tried /\ handled[e] = 0
  BY DEF OutboxInit
<1>7. QED
  BY <1>1, <1>4, <1>5, <1>6, OutboxAssumption DEF OutboxInv, RowInv

\* A published event comes last in its place.
LEMMA PublishKeeps ==
  ASSUME OutboxInv, OutboxTypeOK', NEW e \in Event, Publish(e)
  PROVE  OutboxInv'
<1> USE DEF OutboxInv
<1>1. /\ row[e] = "none" /\ row' = [row EXCEPT ![e] = "pending"]
      /\ lastSeq' = [lastSeq EXCEPT ![PlaceOf(e)] = lastSeq[PlaceOf(e)] + 1]
      /\ seq' = [seq EXCEPT ![e] = lastSeq[PlaceOf(e)] + 1]
  BY DEF Publish
<1>2. UNCHANGED <<retries, pc, unvisited, batch, tried, handled>>
  BY DEF Publish, ownVars, history
<1>3. \A f \in Event : PlaceOf(f) \in Shard \X Partition /\ lastSeq[PlaceOf(f)] \in Nat
  BY OutboxAssumption DEF PlaceOf, Partition, OutboxTypeOK
<1>4. seq'[e] = lastSeq[PlaceOf(e)] + 1 /\ \A f \in Event \ {e} : seq'[f] = seq[f]
  BY <1>1 DEF OutboxTypeOK
<1>5. \A f \in Event : lastSeq'[PlaceOf(f)] =
        IF PlaceOf(f) = PlaceOf(e) THEN lastSeq[PlaceOf(f)] + 1 ELSE lastSeq[PlaceOf(f)]
  BY <1>1, <1>3 DEF OutboxTypeOK
<1>6. row'[e] = "pending" /\ \A f \in Event \ {e} : row'[f] = row[f]
  BY <1>1 DEF OutboxTypeOK
<1>7. \A f \in Event : PlaceOf(f) = PlaceOf(e) => seq[f] < seq'[e]
  BY <1>3, <1>4 DEF NumberInv, OutboxTypeOK
<1>8. NumberInv'
  <2>1. IsFiniteSet({f \in Event : row'[f] # "none"})
    <3>1. {f \in Event : row'[f] # "none"} = {f \in Event : row[f] # "none"} \cup {e}
      BY <1>6
    <3>2. QED
      BY <3>1, FS_AddElement DEF NumberInv
  <2>2. \A f \in Event : row'[f] = "none" <=> seq'[f] = 0
    BY <1>3, <1>4, <1>6 DEF NumberInv
  <2>3. \A f \in Event : seq'[f] <= lastSeq'[PlaceOf(f)]
    <3>1. \A f \in Event : seq[f] <= lastSeq[PlaceOf(f)] /\ seq[f] \in Nat
      BY DEF NumberInv, OutboxTypeOK
    <3>2. QED
      BY <3>1, <1>3, <1>4, <1>5
  <2>4. \A f, g \in Event :
          (PlaceOf(f) = PlaceOf(g) /\ seq'[f] = seq'[g] /\ seq'[f] # 0) => f = g
    <3>1. \A f \in Event \ {e} : PlaceOf(f) = PlaceOf(e) => seq'[f] # seq'[e]
      BY <1>4, <1>7 DEF OutboxTypeOK
    <3>2. QED
      BY <1>4, <3>1 DEF NumberInv
  <2>5. QED
    BY <2>1, <2>2, <2>3, <2>4 DEF NumberInv, PlaceOf
<1>9. \A f \in Event : RowInv(f)'
  BY <1>2, <1>6 DEF RowInv
<1>10. \A f \in Registered : row'[f] = "published" => handled'[f] > 0
  BY <1>1, <1>2, OutboxAssumption DEF OutboxTypeOK
<1>11. ASSUME NEW d \in Consumer PROVE BatchInv(d)'
  <2>1. Alone(d) /\ Gains
    BY <1>2 DEF Alone, Gains, OutboxTypeOK
  <2>2. \A f \in Event : row[f] # "none" => row'[f] # "none" /\ seq'[f] = seq[f]
    BY <1>1, <1>4, <1>6
  <2>3. \A f, g \in Event :
          (PlaceOf(f) = PlaceOf(g) /\ seq'[f] # seq[f] /\ row[g] # "none") => seq[g] < seq'[f]
    BY <1>4, <1>7
  <2>4. QED
    BY <2>1, <2>2, <2>3, BatchKept
<1>12. QED
  BY <1>8, <1>9, <1>10, <1>11

\* What is left to show of a step that publishes nothing.
LEMMA OutboxKept ==
  ASSUME OutboxInv, OutboxTypeOK', seq' = seq, lastSeq' = lastSeq, Gains,
         \A e \in Event : row'[e] = "none" <=> row[e] = "none",
         \A e \in Event : row[e] = "none" => (e \in tried' <=> e \in tried)
                                             /\ handled'[e] = handled[e],
         \A e \in Event : row'[e] # row[e] \/ retries'[e] # retries[e] => e \in tried',
         \A e \in Registered : row'[e] = "published" => row[e] = "published" \/ handled'[e] > 0,
         \A d \in Consumer : Alone(d) \/ BatchInv(d)'
  PROVE  OutboxInv'
<1> USE DEF OutboxInv
<1>1. NumberInv'
  BY NumbersKept
<1>2. \A e \in Event : RowInv(e)'
  BY DEF RowInv, Gains
<1>3. \A e \in Registered : row'[e] = "published" => handled'[e] > 0
  BY OutboxAssumption DEF Gains, OutboxTypeOK
<1>4. \A d \in Consumer : BatchInv(d)'
  BY OthersKept
<1>5. QED
  BY <1>1, <1>2, <1>3, <1>4

\* What a mark may do to the table and to the batch of its consumer.
LEMMA MarkKeeps ==
  ASSUME OutboxInv, OutboxTypeOK', NEW c \in Consumer, NEW e \in Event,
         Marking(c, e), AfterMark(c, e),
         \/ UNCHANGED <<row, retries>>
         \/ \E times \in Nat : SetStatus(e, NewStatus(c, e), times),
         UNCHANGED <<seq, lastSeq, owner, unvisited, handled, tried>>
  PROVE  OutboxInv'
<1> USE DEF OutboxInv
<1>1. e \in batch[c] /\ Marks(c) /\ row[e] # "none" /\ e \in tried /\ Current(c, e)
  BY DEF Marking, Marks, Current, BatchInv
<1>2. \A f \in Event \ {e} : row'[f] = row[f] /\ retries'[f] = retries[f]
  BY DEF SetStatus, OutboxTypeOK
<1>3. row'[e] = row[e] \/ row'[e] = NewStatus(c, e)
  BY DEF SetStatus, OutboxTypeOK
<1>4. NewStatus(c, e) # "none" /\ (NewStatus(c, e) = "published" => pc[c] = "markPublished")
  BY <1>1 DEF Marks, NewStatus, RetryStatus, Busy
<1>5. Gains
  BY DEF Gains, OutboxTypeOK
<1>6. \A f \in Event : row'[f] = "none" <=> row[f] = "none"
  BY <1>1, <1>2, <1>3, <1>4
<1>7. \A f \in Event : row'[f] # row[f] \/ retries'[f] # retries[f] => f \in tried'
  BY <1>1, <1>2
<1>8. \A f \in Registered : row'[f] = "published" => row[f] = "published" \/ handled'[f] > 0
  BY <1>1, <1>2, <1>3, <1>4, OutboxAssumption DEF BatchInv
<1>9. BatchInv(c)'
  <2>1. CASE pc[c] = "markRaised"
    <3>1. pc'[c] = "markRetry" /\ batch' = batch
      BY <2>1 DEF AfterMark, Goto, OutboxTypeOK
    <3>2. \A f \in Event : Current(c, f) => f \in tried'
      BY <1>1 DEF BatchInv
    <3>3. QED
      BY <1>5, <1>6, <3>1, <3>2, SameBatch
  <2>2. CASE pc[c] # "markRaised"
    BY <1>5, <1>6, <2>2, DoneBatch DEF AfterMark
  <2>3. QED
    BY <2>1, <2>2
<1>10. \A d \in Consumer \ {c} : Alone(d)
  BY DEF AfterMark, Done, Goto, Alone, OutboxTypeOK
<1>11. \A f \in Event : row[f] = "none" => (f \in tried' <=> f \in tried)
                                            /\ handled'[f] = handled[f]
  OBVIOUS
<1>12. QED
  BY <1>5, <1>6, <1>7, <1>8, <1>9, <1>10, <1>11, OutboxKept

\* A consumer that takes up its event.
LEMMA HandleKeeps ==
  ASSUME OutboxInv, OutboxTypeOK', NEW c \in Consumer, NEW e \in Event,
         Handle(c, e) \/ Skip(c, e)
  PROVE  OutboxInv'
<1> USE DEF OutboxInv
<1>1. /\ UNCHANGED <<row, seq, lastSeq, retries, unvisited, batch>>
      /\ tried' = tried \cup {e}
      /\ pc[c] = "handle" /\ Current(c, e)
  BY DEF Handle, Skip, tableVars, ownVars
<1>2. \A d \in Consumer \ {c} : Alone(d)
  BY <1>1 DEF Handle, Skip, Goto, Alone, OutboxTypeOK
<1>3. \A f \in Event \ {e} : handled'[f] = handled[f]
  BY DEF Handle, Skip, OutboxTypeOK
<1>4. handled'[e] >= handled[e] /\ (e \in Registered /\ pc'[c] = "markPublished" => handled'[e] > 0)
  <2>1. CASE Skip(c, e)
    BY <2>1 DEF Skip, OutboxTypeOK
  <2>2. CASE Handle(c, e)
    <3>1. PICK result \in DOMAIN Outcome :
            /\ pc' = [pc EXCEPT ![c] = Outcome[result]]
            /\ handled' = [handled EXCEPT ![e] = IF result = "ok" THEN @ + 1 ELSE @]
      BY <2>2 DEF Handle, Goto
    <3>2. Outcome[result] = "markPublished" => result = "ok"
      BY DEF Outcome
    <3>3. pc'[c] = Outcome[result]
          /\ handled'[e] = IF result = "ok" THEN handled[e] + 1 ELSE handled[e]
      BY <3>1 DEF OutboxTypeOK
    <3>4. handled[e] \in Nat
      BY DEF OutboxTypeOK
    <3>5. QED
      BY <3>2, <3>3, <3>4
  <2>3. QED
    BY <2>1, <2>2
<1>5. Gains
  <2>1. \A f \in Event : handled[f] \in Nat
    BY DEF OutboxTypeOK
  <2>2. \A f \in Event : handled'[f] >= handled[f]
    BY <1>3, <1>4, <2>1
  <2>3. QED
    BY <1>1, <2>2 DEF Gains
<1>6. \A f \in Event : Current(c, f) => f = e
  BY <1>1, OneCurrent
<1>7. row[e] # "none"
  BY <1>1 DEF Current, BatchInv
<1>8. BatchInv(c)'
  <2>1. \A f \in Event : Current(c, f) => f \in tried'
    BY <1>1, <1>6
  <2>2. \A f \in Registered : pc'[c] = "markPublished" /\ Current(c, f) => handled'[f] > 0
    BY <1>4, <1>6, OutboxAssumption
  <2>3. QED
    BY <1>1, <1>5, <2>1, <2>2, SameBatch
<1>9. \A f \in Event : row[f] = "none" => (f \in tried' <=> f \in tried)
                                           /\ handled'[f] = handled[f]
  BY <1>1, <1>3, <1>7
<1>10. QED
  BY <1>1, <1>2, <1>5, <1>8, <1>9, OutboxKept

\* A consumer that reads the events of a shard: what comes before them and is not read
\* is not pending any more, or has failed before.
LEMMA ReadKeeps ==
  ASSUME OutboxInv, OutboxTypeOK', NEW c \in Consumer, NEW s \in Shard, Read(c, s)
  PROVE  OutboxInv'
<1> USE DEF OutboxInv
<1> DEFINE L == Limited(Visible(s))
<1>1. /\ UNCHANGED <<row, seq, lastSeq, retries, tried, handled>>
      /\ unvisited'[c] = unvisited[c] \ {s}
      /\ batch'[c] = L
  BY DEF Read, tableVars, history, OutboxTypeOK
<1>2. pc'[c] \in {"handle", "release", "read"}
  BY DEF Read, Goto, AfterShard, OutboxTypeOK
<1>3. \A d \in Consumer \ {c} : Alone(d)
  BY DEF Read, Goto, Alone, OutboxTypeOK
<1>4. Gains
  BY <1>1 DEF Gains, OutboxTypeOK
<1>5. \A f \in L : f \in Visible(s) /\ f \in Event /\ ShardOf[f] = s /\ row[f] = "pending"
  BY DEF Limited, Visible
<1>6. ASSUME NEW f \in L, NEW e \in Event,
             PlaceOf(e) = PlaceOf(f), 0 < seq[e], seq[e] < seq[f]
      PROVE  e \in tried \/ e \in L
  <2>1. ShardOf[e] = s /\ PartOf[e] = PartOf[f]
    BY <1>5, <1>6 DEF PlaceOf
  <2>2. row[e] # "none"
    BY <1>6 DEF NumberInv
  <2>3. CASE e \in Visible(s)
    BY <1>5, <1>6, <2>1, <2>3, EarlierRead
  <2>4. CASE e \notin Visible(s)
    <3>1. row[e] # "pending" \/ ~ retries[e] < MaxRetries
      BY <2>1, <2>4 DEF Visible
    <3>2. row[e] # "pending" \/ retries[e] > 0
      BY <3>1, OutboxAssumption DEF OutboxTypeOK
    <3>3. QED
      BY <2>2, <3>2 DEF RowInv
  <2>5. QED
    BY <2>3, <2>4
<1> HIDE DEF L
<1>7. BatchInv(c)'
  BY <1>1, <1>2, <1>5, <1>6 DEF BatchInv, Marks, Busy, PlaceOf
<1>8. QED
  BY <1>1, <1>3, <1>4, <1>7, OutboxKept

\* A consumer that gives its batch up, or has none.
LEMMA WithoutBatch ==
  ASSUME OutboxInv, OutboxTypeOK', NEW c \in Consumer,
         UNCHANGED <<row, seq, lastSeq, retries, tried, handled>>,
         batch'[c] = {}, \A d \in Consumer \ {c} : Alone(d)
  PROVE  OutboxInv'
<1>1. BatchInv(c)'
  BY DEF BatchInv, Current
<1>2. Gains
  BY DEF Gains, OutboxTypeOK, OutboxInv
<1>3. QED
  BY <1>1, <1>2, OutboxKept DEF OutboxInv

\* A row that is settled is deleted.
LEMMA CleanupKeeps ==
  ASSUME OutboxInv, OutboxTypeOK', NEW e \in Event, CleanupPublished(e) \/ CleanupFailed(e)
  PROVE  OutboxInv'
<1>1. /\ row[e] \notin {"none", "pending"} /\ row' = [row EXCEPT ![e] = "deleted"]
      /\ UNCHANGED <<seq, lastSeq, retries, pc, unvisited, batch, tried, handled>>
  BY DEF CleanupPublished, CleanupFailed, ownVars, history
<1>2. row'[e] = "deleted" /\ \A f \in Event \ {e} : row'[f] = row[f]
  BY <1>1 DEF OutboxInv, OutboxTypeOK
<1>3. Gains /\ \A d \in Consumer : Alone(d)
  BY <1>1 DEF Gains, Alone, OutboxInv, OutboxTypeOK
<1>4. \A f \in Event : row'[f] # row[f] => f \in tried'
  BY <1>1, <1>2 DEF OutboxInv, RowInv
<1>5. \A f \in Registered : row'[f] = "published" => row[f] = "published"
  BY <1>2, OutboxAssumption
<1>6. QED
  BY <1>1, <1>2, <1>3, <1>4, <1>5, OutboxKept

LEMMA OutboxStepInv == OutboxInv /\ [OutboxNext]_outboxVars => OutboxInv'
<1> SUFFICES ASSUME OutboxInv, [OutboxNext]_outboxVars PROVE OutboxInv'
  OBVIOUS
<1>1. OutboxTypeOK'
  BY OutboxStepTypes DEF OutboxInv
<1>2. ASSUME NEW e \in Event, Publish(e) \/ CleanupPublished(e) \/ CleanupFailed(e)
      PROVE  OutboxInv'
  BY <1>1, <1>2, PublishKeeps, CleanupKeeps
<1>3. ASSUME NEW c \in Consumer, Lock(c) \/ ListShards(c) \/ Release(c) \/ ListFails(c)
                                 \/ ReleaseFails(c) \/ Restart(c)
      PROVE  OutboxInv'
  <2>1. UNCHANGED <<row, seq, lastSeq, retries, tried, handled, batch>>
    BY <1>3 DEF Lock, ListShards, Release, ListFails, ReleaseFails, Restart, tableVars,
                ownVars, history
  <2>2. batch[c] = {}
    BY <1>3 DEF Lock, ListShards, Release, ListFails, ReleaseFails, Restart, Busy, OutboxInv,
                OutboxTypeOK
  <2>3. \A d \in Consumer \ {c} : pc'[d] = pc[d] /\ unvisited'[d] = unvisited[d]
    BY <1>3 DEF Lock, ListShards, Release, ListFails, ReleaseFails, Restart, Goto, ownVars,
                OutboxInv, OutboxTypeOK
  <2>4. QED
    BY <1>1, <2>1, <2>2, <2>3, WithoutBatch DEF Alone
<1>4. ASSUME NEW c \in Consumer, Stop(c) \/ Crash(c) PROVE OutboxInv'
  <2>1. /\ UNCHANGED <<row, seq, lastSeq, retries, tried, handled>>
        /\ batch'[c] = {} /\ \A d \in Consumer \ {c} : Alone(d)
    BY <1>4 DEF Stop, Crash, Goto, Alone, tableVars, history, OutboxInv, OutboxTypeOK
  <2>2. QED
    BY <1>1, <2>1, WithoutBatch
<1>5. ASSUME NEW c \in Consumer, NEW s \in Shard, ReadFails(c, s) PROVE OutboxInv'
  <2>1. /\ UNCHANGED <<row, seq, lastSeq, retries, tried, handled, batch>>
        /\ batch[c] = {} /\ \A d \in Consumer \ {c} : Alone(d)
    BY <1>5 DEF ReadFails, Goto, Alone, Busy, tableVars, history, OutboxInv, OutboxTypeOK
  <2>2. QED
    BY <1>1, <2>1, WithoutBatch
<1>6. ASSUME NEW c \in Consumer, NEW s \in Shard, Read(c, s) PROVE OutboxInv'
  BY <1>1, <1>6, ReadKeeps
<1>7. ASSUME NEW c \in Consumer, NEW e \in Event, Handle(c, e) \/ Skip(c, e) PROVE OutboxInv'
  BY <1>1, <1>7, HandleKeeps
<1>8. ASSUME NEW c \in Consumer, NEW e \in Event, Mark(c, e) \/ MarkFails(c, e) \/ MarkTwice(c, e)
      PROVE  OutboxInv'
  <2>1. /\ Marking(c, e) /\ AfterMark(c, e)
        /\ UNCHANGED <<row, retries>> \/ \E times \in Nat : SetStatus(e, NewStatus(c, e), times)
        /\ UNCHANGED <<seq, lastSeq, owner, unvisited, handled, tried>>
    BY <1>8 DEF Mark, MarkFails, MarkTwice, tableVars, history
  <2>2. QED
    BY <1>1, <2>1, MarkKeeps
<1>9. CASE ExpireAbandoned \/ ExpireUnderWork \/ UNCHANGED outboxVars
  <2>1. UNCHANGED <<row, seq, lastSeq, retries, tried, handled, pc, unvisited, batch>>
    BY <1>9 DEF ExpireAbandoned, ExpireUnderWork, outboxVars, tableVars, ownVars, history
  <2>2. Gains /\ \A d \in Consumer : Alone(d)
    BY <2>1 DEF Gains, Alone, OutboxInv, OutboxTypeOK
  <2>3. QED
    BY <1>1, <2>1, <2>2, OutboxKept
<1>10. QED
  BY <1>2, <1>3, <1>4, <1>5, <1>6, <1>7, <1>8, <1>9 DEF OutboxNext, ConsumerStep, ConsumerFault

LEMMA OutboxInvariant == OutboxSpec => []OutboxInv
BY OutboxInitInv, OutboxStepInv, PTL DEF OutboxSpec

\* Nothing that has a handler is marked published without a successful run of it
\* (_process_single_event, universal_outbox_consumer.py:207-242).
THEOREM PublishedHandled == OutboxSpec => []PublishedWasHandled
<1>1. OutboxInv => PublishedWasHandled
  BY DEF OutboxInv, PublishedWasHandled
<1>2. QED
  BY <1>1, OutboxInvariant, PTL

\* No event is taken up before the earlier ones of its place have been
\* (create_universal_outbox.sql:150-160, universal_outbox_consumer.py:186-190).
THEOREM InOrder == OutboxSpec => []TakenInOrder
<1> DEFINE Earlier(e, f) == PlaceOf(e) = PlaceOf(f) /\ 0 < seq[e] /\ seq[e] < seq[f]
<1>1. OutboxInit => TakenInOrder
  BY DEF OutboxInit, TakenInOrder
<1>2. OutboxInv /\ OutboxInv' /\ TakenInOrder /\ [OutboxNext]_outboxVars => TakenInOrder'
  <2> SUFFICES ASSUME OutboxInv, OutboxInv', TakenInOrder, [OutboxNext]_outboxVars,
                      NEW e \in Event, NEW f \in Event,
                      PlaceOf(e) = PlaceOf(f), 0 < seq'[e], seq'[e] < seq'[f], f \in tried'
               PROVE  e \in tried'
    BY DEF TakenInOrder, PlaceOf
  <2>1. ASSUME NEW x \in Event, Publish(x) PROVE e \in tried'
    <3>1. f # x /\ row[f] # "none" /\ tried' = tried
      BY <2>1 DEF Publish, history, OutboxInv, RowInv
    <3>2. seq'[f] = seq[f] /\ seq'[x] = lastSeq[PlaceOf(x)] + 1
          /\ \A g \in Event \ {x} : seq'[g] = seq[g]
      BY <2>1, <3>1 DEF Publish, OutboxInv, OutboxTypeOK
    <3>3. e # x
      <4>1. lastSeq[PlaceOf(f)] \in Nat /\ seq[f] \in Nat /\ seq[f] <= lastSeq[PlaceOf(f)]
        BY OutboxAssumption DEF PlaceOf, Partition, OutboxInv, OutboxTypeOK, NumberInv
      <4>2. QED
        BY <3>2, <4>1
    <3>4. QED
      BY <3>1, <3>2, <3>3 DEF TakenInOrder
  <2>2. ASSUME NEW c \in Consumer, NEW x \in Event, Handle(c, x) \/ Skip(c, x)
        PROVE  e \in tried'
    <3>1. tried' = tried \cup {x} /\ seq' = seq /\ Current(c, x)
      BY <2>2 DEF Handle, Skip, tableVars
    <3>2. CASE f = x
      <4>1. e \in tried \/ e \in batch[c]
        BY <3>1, <3>2 DEF OutboxInv, BatchInv, Current
      <4>2. Before(e, f)
        BY <3>1, <3>2 DEF Before, PlaceOf
      <4>3. QED
        BY <3>1, <3>2, <4>1, <4>2 DEF Current
    <3>3. CASE f # x
      BY <3>1, <3>3 DEF TakenInOrder
    <3>4. QED
      BY <3>2, <3>3
  <2>3. CASE seq' = seq /\ tried' = tried
    BY <2>3 DEF TakenInOrder
  <2>4. ASSUME NEW x \in Event, CleanupPublished(x) \/ CleanupFailed(x)
        PROVE  seq' = seq /\ tried' = tried
    BY <2>4 DEF CleanupPublished, CleanupFailed, history
  <2>5. ASSUME NEW c \in Consumer,
               \/ Lock(c) \/ ListShards(c) \/ Release(c) \/ ListFails(c) \/ ReleaseFails(c)
               \/ Stop(c) \/ Crash(c) \/ Restart(c)
        PROVE  seq' = seq /\ tried' = tried
    BY <2>5 DEF Lock, ListShards, Release, ListFails, ReleaseFails, Stop, Crash, Restart,
                tableVars, history
  <2>6. ASSUME NEW c \in Consumer, NEW s \in Shard, Read(c, s) \/ ReadFails(c, s)
        PROVE  seq' = seq /\ tried' = tried
    BY <2>6 DEF Read, ReadFails, tableVars, history
  <2>7. ASSUME NEW c \in Consumer, NEW x \in Event, Mark(c, x) \/ MarkFails(c, x) \/ MarkTwice(c, x)
        PROVE  seq' = seq /\ tried' = tried
    BY <2>7 DEF Mark, MarkFails, MarkTwice, tableVars, history
  <2>8. ASSUME ExpireAbandoned \/ ExpireUnderWork \/ UNCHANGED outboxVars
        PROVE  seq' = seq /\ tried' = tried
    BY <2>8 DEF ExpireAbandoned, ExpireUnderWork, outboxVars, tableVars, history
  <2>9. QED
    BY <2>1, <2>2, <2>3, <2>4, <2>5, <2>6, <2>7, <2>8 DEF OutboxNext, ConsumerStep, ConsumerFault
<1>3. QED
  BY <1>1, <1>2, OutboxInvariant, PTL DEF OutboxSpec

-----------------------------------------------------------------------------
(* The outbox: an event is handled once, unless something fails            *)

\* The handler run that c is through with succeeded, or there is none.
Succeeded(c, e) == pc[c] = "markPublished" /\ Current(c, e)

\* A consumer that works may still run the handler of an event.
Claims(c, e) ==
    /\ pc[c] \in Working
    /\ \/ pc[c] = "list"
       \/ ShardOf[e] \in unvisited[c]
       \/ e \in batch[c] /\ ~ Succeeded(c, e)

\* The consumers that may, although they have lost the lock.
Late(e) == {c \in Consumer \ {owner} : Claims(c, e)}

\* The event may still be handled under the lock.
Open(e) ==
    /\ owner # NoConsumer => ~ Succeeded(owner, e)
    /\ \/ row[e] \in {"none", "pending"}
       \/ owner # NoConsumer /\ e \in batch[owner]

\* The successes so far and those that may come are paid for by the faults so far.
ClaimInv(e) ==
    /\ IsFiniteSet(Late(e))
    /\ handled[e] + (IF Open(e) THEN 1 ELSE 0) + Cardinality(Late(e)) <= 1 + faults

LEMMA NotMore ==
  ASSUME NEW S, IsFiniteSet(S), NEW T, T \subseteq S
  PROVE  /\ IsFiniteSet(T) /\ Cardinality(T) \in Nat /\ Cardinality(S) \in Nat
         /\ Cardinality(T) <= Cardinality(S)
BY FS_Subset, FS_CardinalityType

LEMMA OneLess ==
  ASSUME NEW S, IsFiniteSet(S), NEW x \in S, NEW T, T \subseteq S \ {x}
  PROVE  /\ IsFiniteSet(T) /\ Cardinality(T) \in Nat /\ Cardinality(S) \in Nat
         /\ Cardinality(T) + 1 <= Cardinality(S)
<1>1. IsFiniteSet(S \ {x}) /\ Cardinality(S \ {x}) = Cardinality(S) - 1
  BY FS_RemoveElement
<1>2. IsFiniteSet(T) /\ Cardinality(T) \in Nat /\ Cardinality(T) <= Cardinality(S \ {x})
  BY <1>1, NotMore
<1>3. Cardinality(S) \in Nat
  BY FS_CardinalityType
<1>4. QED
  BY <1>1, <1>2, <1>3

LEMMA OneMore ==
  ASSUME NEW S, IsFiniteSet(S), NEW x, NEW T, T \subseteq S \cup {x}
  PROVE  /\ IsFiniteSet(T) /\ Cardinality(T) \in Nat /\ Cardinality(S) \in Nat
         /\ Cardinality(T) <= Cardinality(S) + 1
<1>1. IsFiniteSet(S \cup {x}) /\ Cardinality(S) \in Nat
      /\ Cardinality(S \cup {x}) <= Cardinality(S) + 1
  <2>1. Cardinality(S) \in Nat
    BY FS_CardinalityType
  <2>2. IsFiniteSet(S \cup {x}) /\ (Cardinality(S \cup {x}) = Cardinality(S)
                                    \/ Cardinality(S \cup {x}) = Cardinality(S) + 1)
    BY FS_AddElement
  <2>3. QED
    BY <2>1, <2>2
<1>2. IsFiniteSet(T) /\ Cardinality(T) \in Nat /\ Cardinality(T) <= Cardinality(S \cup {x})
      /\ Cardinality(S \cup {x}) \in Nat
  BY <1>1, NotMore
<1>3. QED
  BY <1>1, <1>2

\* Nothing is gained: no success, no claim.
LEMMA ClaimKept ==
  ASSUME OutboxTypeOK, NEW e \in Event, ClaimInv(e), handled'[e] = handled[e],
         faults' = faults, Open(e)' => Open(e), Late(e)' \subseteq Late(e)
  PROVE  ClaimInv(e)'
<1>1. handled[e] \in Nat /\ faults \in Nat
  BY OutboxAssumption DEF OutboxTypeOK
<1>2. QED
  BY <1>1, NotMore DEF ClaimInv

\* A fault pays for a claim.
LEMMA ClaimPaid ==
  ASSUME OutboxTypeOK, NEW e \in Event, ClaimInv(e), handled'[e] = handled[e],
         faults' = faults + 1, NEW c,
         \/ Late(e)' \subseteq Late(e)
         \/ (Open(e)' => Open(e)) /\ Late(e)' \subseteq Late(e) \cup {c}
  PROVE  ClaimInv(e)'
<1>1. handled[e] \in Nat /\ faults \in Nat
  BY OutboxAssumption DEF OutboxTypeOK
<1>2. CASE Late(e)' \subseteq Late(e)
  BY <1>1, <1>2, NotMore DEF ClaimInv
<1>3. CASE (Open(e)' => Open(e)) /\ Late(e)' \subseteq Late(e) \cup {c}
  BY <1>1, <1>3, OneMore DEF ClaimInv
<1>4. QED
  BY <1>2, <1>3

\* A late consumer gives its claim up: for a success, or for a row that is pending again.
LEMMA ClaimSpent ==
  ASSUME OutboxTypeOK, NEW e \in Event, ClaimInv(e), faults' = faults,
         NEW c \in Late(e), Late(e)' \subseteq Late(e) \ {c},
         \/ handled'[e] = handled[e]
         \/ handled'[e] = handled[e] + 1 /\ (Open(e)' => Open(e))
  PROVE  ClaimInv(e)'
<1>1. handled[e] \in Nat /\ faults \in Nat
  BY OutboxAssumption DEF OutboxTypeOK
<1>2. /\ IsFiniteSet(Late(e)') /\ Cardinality(Late(e)') \in Nat /\ Cardinality(Late(e)) \in Nat
      /\ Cardinality(Late(e)') + 1 <= Cardinality(Late(e))
  BY OneLess DEF ClaimInv
<1>3. QED
  BY <1>1, <1>2 DEF ClaimInv

\* The owner of the lock has handled the event, which is open no more.
LEMMA ClaimUsed ==
  ASSUME OutboxTypeOK, NEW e \in Event, ClaimInv(e), faults' = faults,
         Open(e), ~ Open(e)', handled'[e] = handled[e] + 1, Late(e)' \subseteq Late(e)
  PROVE  ClaimInv(e)'
<1>1. handled[e] \in Nat /\ faults \in Nat
  BY OutboxAssumption DEF OutboxTypeOK
<1>2. QED
  BY <1>1, NotMore DEF ClaimInv

\* A consumer that a step leaves alone claims what it claimed.
LEMMA SameClaims ==
  ASSUME OutboxTypeOK, NEW d \in Consumer, Alone(d), \A f \in batch[d] : seq'[f] = seq[f],
         NEW e \in Event
  PROVE  (Claims(d, e)' <=> Claims(d, e)) /\ (Succeeded(d, e)' <=> Succeeded(d, e))
<1>1. Current(d, e)' <=> Current(d, e)
  BY SameCurrent DEF Alone
<1>2. QED
  BY <1>1 DEF Alone, Claims, Succeeded

\* What a step of a consumer changes in the claims: at most its own.
LEMMA LateAfter ==
  ASSUME OutboxTypeOK, NEW c \in Consumer, \A d \in Consumer \ {c} : Alone(d),
         seq' = seq, NEW e \in Event,
         owner' = owner \/ (owner = NoConsumer /\ owner' = c) \/ (owner = c /\ owner' = NoConsumer)
  PROVE  /\ Late(e)' \subseteq Late(e) \cup {c}
         /\ ~ Claims(c, e)' => Late(e)' \subseteq Late(e) \ {c}
         /\ (owner' = owner /\ (Claims(c, e)' => Claims(c, e))) => Late(e)' \subseteq Late(e)
<1>1. \A d \in Consumer \ {c} : Claims(d, e)' <=> Claims(d, e)
  BY SameClaims
<1>2. \A d \in Consumer \ {c} : d # owner' => d # owner
  BY OutboxAssumption
<1>3. QED
  BY <1>1, <1>2, OutboxAssumption DEF Late

\* ... and in what is open: what it has come to, or has given up.
LEMMA OpenAfter ==
  ASSUME OutboxTypeOK, NEW c \in Consumer, \A d \in Consumer \ {c} : Alone(d),
         seq' = seq, owner' = owner, NEW e \in Event,
         row'[e] \in {"none", "pending"} => row[e] \in {"none", "pending"},
         ~ Succeeded(c, e)' => ~ Succeeded(c, e),
         e \in batch'[c] => e \in batch[c] \/ row[e] \in {"none", "pending"}
  PROVE  Open(e)' => Open(e)
<1>1. owner # NoConsumer /\ owner # c => Alone(owner) /\ owner \in Consumer
  BY DEF OutboxTypeOK
<1>2. owner # NoConsumer /\ owner # c => (Succeeded(owner, e)' <=> Succeeded(owner, e))
                                          /\ batch'[owner] = batch[owner]
  BY <1>1, SameClaims DEF Alone
<1>3. QED
  BY <1>2 DEF Open

LEMMA MarkClaims ==
  ASSUME OutboxInv, NEW c \in Consumer, NEW x \in Event, Mark(c, x),
         NEW e \in Event, ClaimInv(e)
  PROVE  ClaimInv(e)'
<1> USE DEF OutboxInv
<1>1. /\ Marking(c, x) /\ AfterMark(c, x) /\ SetStatus(x, NewStatus(c, x), 1)
      /\ UNCHANGED <<seq, owner, unvisited, handled, faults>>
  BY DEF Mark, history
<1>2. Current(c, x) /\ x \in batch[c] /\ pc[c] \in Working /\ ShardOf[x] \notin unvisited[c]
  BY <1>1 DEF Marking, Current, BatchInv, Working
<1>3. \A d \in Consumer \ {c} : Alone(d)
  BY <1>1 DEF AfterMark, Done, Goto, Alone, OutboxTypeOK
<1>4. ~ Succeeded(c, e)'
  BY <1>1 DEF AfterMark, Done, Goto, AfterShard, OutboxTypeOK, Succeeded
<1>5. batch'[c] \subseteq batch[c] /\ pc'[c] # "list" /\ unvisited'[c] = unvisited[c]
  BY <1>1 DEF AfterMark, Done, Goto, AfterShard, OutboxTypeOK
<1>6. x \in batch'[c] => pc[c] = "markRaised"
  BY <1>1 DEF AfterMark, Done, OutboxTypeOK
<1>7. Succeeded(c, e) => e = x
  BY <1>2, OneCurrent DEF Succeeded
<1>8. Claims(c, e)' => Claims(c, e)
  <2> SUFFICES ASSUME Claims(c, e)' PROVE Claims(c, e)
    OBVIOUS
  <2>1. ShardOf[e] \in unvisited[c] \/ e \in batch'[c]
    BY <1>5 DEF Claims
  <2>2. Succeeded(c, e) => e \notin batch'[c]
    BY <1>6, <1>7 DEF Succeeded
  <2>3. QED
    BY <1>2, <1>5, <2>1, <2>2 DEF Claims
<1>9. Late(e)' \subseteq Late(e)
  BY <1>1, <1>3, <1>8, LateAfter
<1>10. \A f \in Event \ {x} : row'[f] = row[f]
  BY <1>1 DEF SetStatus, OutboxTypeOK
<1>11. CASE e # x \/ (row'[x] \notin {"none", "pending"} /\ (x \in batch'[c] \/ c # owner))
  <2>1. ASSUME Open(e)' PROVE Open(e)
    <3>1. row'[e] \in {"none", "pending"} => row[e] \in {"none", "pending"}
      BY <1>10, <1>11
    <3>2. CASE owner = c
      <4>1. Succeeded(c, e) => FALSE
        BY <1>6, <1>7, <1>11, <3>2 DEF Succeeded
      <4>2. QED
        BY <1>1, <1>5, <2>1, <3>1, <3>2, <4>1 DEF Open
    <3>3. CASE owner # c
      <4>1. owner # NoConsumer => Alone(owner) /\ owner \in Consumer
        BY <1>3, <3>3 DEF OutboxTypeOK
      <4>2. owner # NoConsumer => (Succeeded(owner, e)' <=> Succeeded(owner, e))
                                  /\ batch'[owner] = batch[owner]
        BY <1>1, <4>1, SameClaims DEF Alone
      <4>3. QED
        BY <1>1, <2>1, <3>1, <4>2 DEF Open
    <3>4. QED
      BY <3>2, <3>3
  <2>2. QED
    BY <1>1, <1>9, <2>1, ClaimKept
<1>12. CASE e = x /\ row'[x] \notin {"none", "pending"} /\ x \notin batch'[c] /\ c = owner
  <2>1. ~ Open(e)'
    BY <1>1, <1>12 DEF Open
  <2>2. QED
    BY <1>1, <1>9, <2>1, ClaimKept
<1>13. CASE e = x /\ row'[x] \in {"none", "pending"}
  <2>1. pc[c] = "markRetry"
    BY <1>1, <1>2, <1>13 DEF SetStatus, NewStatus, Marking, Busy, BatchInv, OutboxTypeOK
  <2>2. ~ Succeeded(c, e)
    BY <2>1 DEF Succeeded
  <2>3. Claims(c, e)
    BY <1>2, <1>13, <2>2 DEF Claims
  <2>4. CASE c = owner
    <3>1. Open(e)
      BY <1>2, <1>13, <2>2, <2>4, OutboxAssumption DEF Open
    <3>2. QED
      BY <1>1, <1>9, <3>1, ClaimKept
  <2>5. CASE c # owner
    <3>1. c \in Late(e)
      BY <2>3, <2>5 DEF Late
    <3>2. ~ Claims(c, e)'
      BY <1>2, <1>5, <1>6, <1>13, <2>1 DEF Claims
    <3>3. Late(e)' \subseteq Late(e) \ {c}
      BY <1>1, <1>3, <3>2, LateAfter
    <3>4. QED
      BY <1>1, <3>1, <3>3, ClaimSpent
  <2>6. QED
    BY <2>4, <2>5
<1>14. QED
  BY <1>11, <1>12, <1>13

LEMMA HandleClaims ==
  ASSUME OutboxInv, NEW c \in Consumer, NEW x \in Event, Handle(c, x) \/ Skip(c, x),
         NEW e \in Event, ClaimInv(e)
  PROVE  ClaimInv(e)'
<1> USE DEF OutboxInv
<1>1. /\ UNCHANGED <<row, seq, owner, unvisited, batch, faults>>
      /\ pc[c] = "handle" /\ Current(c, x) /\ x \in batch[c]
  BY DEF Handle, Skip, Current, tableVars, ownVars
<1>2. \A d \in Consumer \ {c} : Alone(d)
  BY <1>1 DEF Handle, Skip, Goto, Alone, OutboxTypeOK
<1>3. pc'[c] \in {"markPublished", "markFailed", "markRaised"}
  BY DEF Handle, Skip, Outcome, Goto, OutboxTypeOK
<1>4. \A f \in Event : ~ Succeeded(c, f)
  BY <1>1 DEF Succeeded
<1>5. pc[c] \in Working /\ ShardOf[x] \notin unvisited[c]
  BY <1>1 DEF Working, Busy, BatchInv
<1>6. Claims(c, e)' => Claims(c, e)
  BY <1>1, <1>3, <1>4, <1>5 DEF Claims
<1>7. Late(e)' \subseteq Late(e)
  BY <1>1, <1>2, <1>6, LateAfter
<1>8. Open(e)' => Open(e)
  BY <1>1, <1>2, <1>4, OpenAfter
<1>9. CASE handled'[e] = handled[e]
  BY <1>1, <1>7, <1>8, <1>9, ClaimKept
<1>10. CASE handled'[e] # handled[e]
  <2>1. Handle(c, x) /\ e = x
    BY <1>10 DEF Handle, Skip, OutboxTypeOK
  <2>2. PICK result \in DOMAIN Outcome :
          /\ pc' = [pc EXCEPT ![c] = Outcome[result]]
          /\ handled' = [handled EXCEPT ![x] = IF result = "ok" THEN @ + 1 ELSE @]
    BY <2>1 DEF Handle, Goto
  <2>3. result = "ok"
    BY <1>10, <2>2 DEF OutboxTypeOK
  <2>4. handled'[e] = handled[e] + 1 /\ pc'[c] = "markPublished"
    BY <2>1, <2>2, <2>3 DEF Outcome, OutboxTypeOK
  <2>5. Succeeded(c, e)'
    BY <1>1, <2>1, <2>4, SameCurrent DEF Succeeded
  <2>6. CASE c = owner
    <3>1. Open(e) /\ ~ Open(e)'
      BY <1>1, <1>4, <2>1, <2>5, <2>6, OutboxAssumption DEF Open
    <3>2. QED
      BY <1>1, <1>7, <2>4, <3>1, ClaimUsed
  <2>7. CASE c # owner
    <3>1. c \in Late(e)
      BY <1>1, <1>4, <1>5, <2>1, <2>7 DEF Late, Claims
    <3>2. ~ Claims(c, e)'
      BY <1>1, <1>5, <2>1, <2>4, <2>5 DEF Claims
    <3>3. Late(e)' \subseteq Late(e) \ {c}
      BY <1>1, <1>2, <3>2, LateAfter
    <3>4. QED
      BY <1>1, <1>8, <2>4, <3>1, <3>3, ClaimSpent
  <2>8. QED
    BY <2>6, <2>7
<1>11. QED
  BY <1>9, <1>10

LEMMA ReadClaims ==
  ASSUME OutboxInv, NEW c \in Consumer, NEW s \in Shard, Read(c, s),
         NEW e \in Event, ClaimInv(e)
  PROVE  ClaimInv(e)'
<1> USE DEF OutboxInv
<1> DEFINE L == Limited(Visible(s))
<1>1. /\ UNCHANGED <<row, seq, owner, handled, faults>>
      /\ unvisited'[c] = unvisited[c] \ {s} /\ s \in unvisited[c]
      /\ batch'[c] = L /\ pc[c] = "read"
  BY DEF Read, tableVars, history, OutboxTypeOK
<1>2. pc'[c] \in {"handle", "release", "read"}
  BY DEF Read, Goto, AfterShard, OutboxTypeOK
<1>3. \A d \in Consumer \ {c} : Alone(d)
  BY DEF Read, Goto, Alone, OutboxTypeOK
<1>4. \A f \in L : ShardOf[f] = s /\ row[f] = "pending"
  BY DEF Limited, Visible
<1> HIDE DEF L
<1>5. Claims(c, e)' => Claims(c, e)
  BY <1>1, <1>2, <1>4 DEF Claims, Working
<1>6. Open(e)' => Open(e)
  <2>1. ~ Succeeded(c, e)
    BY <1>1 DEF Succeeded
  <2>2. QED
    BY <1>1, <1>3, <1>4, <2>1, OpenAfter
<1>7. QED
  BY <1>1, <1>3, <1>5, <1>6, LateAfter, ClaimKept

\* A fault of a consumer that keeps the lock, or has none.
LEMMA FaultClaims ==
  ASSUME OutboxInv, NEW c \in Consumer, \A d \in Consumer \ {c} : Alone(d),
         UNCHANGED <<seq, owner, handled>>, faults' = faults + 1,
         NEW e \in Event, ClaimInv(e), Claims(c, e)' => Claims(c, e)
  PROVE  ClaimInv(e)'
BY LateAfter, ClaimPaid DEF OutboxInv

\* A fault at a mark: the consumer goes on without it, or after two of them.
LEMMA MarkFaultClaims ==
  ASSUME OutboxInv, NEW c \in Consumer, NEW x \in Event, Marking(c, x), AfterMark(c, x),
         UNCHANGED <<seq, owner, unvisited, handled>>, faults' = faults + 1,
         NEW e \in Event, ClaimInv(e)
  PROVE  ClaimInv(e)'
<1> USE DEF OutboxInv
<1>1. Current(c, x) /\ pc[c] \in Working
  BY DEF Marking, Working
<1>2. \A d \in Consumer \ {c} : Alone(d)
  BY DEF AfterMark, Done, Goto, Alone, OutboxTypeOK
<1>3. batch'[c] \subseteq batch[c] /\ pc'[c] # "list" /\ unvisited'[c] = unvisited[c]
  BY DEF AfterMark, Done, Goto, AfterShard, OutboxTypeOK
<1>4. x \in batch'[c] => pc[c] = "markRaised"
  BY DEF AfterMark, Done, OutboxTypeOK
<1>5. Succeeded(c, e) => e = x
  BY <1>1, OneCurrent DEF Succeeded
<1>6. Claims(c, e)' => Claims(c, e)
  <2> SUFFICES ASSUME Claims(c, e)' PROVE Claims(c, e)
    OBVIOUS
  <2>1. ShardOf[e] \in unvisited[c] \/ e \in batch'[c]
    BY <1>3 DEF Claims
  <2>2. Succeeded(c, e) => e \notin batch'[c]
    BY <1>4, <1>5 DEF Succeeded
  <2>3. QED
    BY <1>1, <1>3, <2>1, <2>2 DEF Claims
<1>7. QED
  BY <1>2, <1>6, FaultClaims

LEMMA PublishClaims ==
  ASSUME OutboxInv, NEW x \in Event, Publish(x), NEW e \in Event, ClaimInv(e)
  PROVE  ClaimInv(e)'
<1> USE DEF OutboxInv
<1>1. /\ row[x] = "none" /\ UNCHANGED <<owner, pc, unvisited, batch, handled, faults>>
      /\ \A f \in Event \ {x} : row'[f] = row[f] /\ seq'[f] = seq[f]
  BY DEF Publish, ownVars, history, OutboxTypeOK
<1>2. \A d \in Consumer : Alone(d) /\ \A f \in batch[d] : seq'[f] = seq[f]
  BY <1>1 DEF Alone, BatchInv, OutboxTypeOK
<1>3. \A d \in Consumer : (Claims(d, e)' <=> Claims(d, e)) /\ (Succeeded(d, e)' <=> Succeeded(d, e))
  BY <1>2, SameClaims
<1>4. Late(e)' \subseteq Late(e)
  BY <1>1, <1>3 DEF Late
<1>5. row'[e] \in {"none", "pending"} => row[e] \in {"none", "pending"}
  BY <1>1
<1>6. Open(e)' => Open(e)
  BY <1>1, <1>3, <1>5 DEF Open, OutboxTypeOK
<1>7. QED
  BY <1>1, <1>4, <1>6, ClaimKept

LEMMA CleanupClaims ==
  ASSUME OutboxInv, NEW x \in Event, CleanupPublished(x) \/ CleanupFailed(x),
         NEW e \in Event, ClaimInv(e)
  PROVE  ClaimInv(e)'
<1> USE DEF OutboxInv
<1>1. /\ UNCHANGED <<seq, owner, pc, unvisited, batch, handled, faults>>
      /\ row'[x] = "deleted" /\ \A f \in Event \ {x} : row'[f] = row[f]
  BY DEF CleanupPublished, CleanupFailed, ownVars, history, OutboxTypeOK
<1>2. \A d \in Consumer : (Claims(d, e)' <=> Claims(d, e)) /\ (Succeeded(d, e)' <=> Succeeded(d, e))
  BY <1>1, SameClaims DEF Alone
<1>3. Late(e)' \subseteq Late(e)
  BY <1>1, <1>2 DEF Late
<1>4. row'[e] \in {"none", "pending"} => row[e] \in {"none", "pending"}
  BY <1>1
<1>5. Open(e)' => Open(e)
  BY <1>1, <1>2, <1>4 DEF Open, OutboxTypeOK
<1>6. QED
  BY <1>1, <1>3, <1>5, ClaimKept

\* A consumer that takes the lock, goes on without it, or starts.
LEMMA LockClaims ==
  ASSUME OutboxInv, NEW c \in Consumer,
         Lock(c) \/ ListShards(c) \/ Release(c) \/ Restart(c), NEW e \in Event, ClaimInv(e)
  PROVE  ClaimInv(e)'
<1> USE DEF OutboxInv
<1>1. UNCHANGED <<row, seq, batch, handled, faults>>
  BY DEF Lock, ListShards, Release, Restart, tableVars, ownVars, history
<1>2. \A d \in Consumer \ {c} : Alone(d)
  BY <1>1 DEF Lock, ListShards, Release, Restart, Goto, ownVars, Alone, OutboxTypeOK
<1>3. batch[c] = {} /\ ~ Succeeded(c, e) /\ ~ Succeeded(c, e)'
  BY DEF Lock, ListShards, Release, Restart, Goto, Busy, Succeeded, OutboxTypeOK
<1>4. CASE ListShards(c) \/ Restart(c)
  <2>1. owner' = owner
    BY <1>4 DEF ListShards, Restart
  <2>2. Claims(c, e)' => Claims(c, e)
    BY <1>4 DEF ListShards, Restart, Goto, Claims, Working, Busy, OutboxTypeOK
  <2>3. Open(e)' => Open(e)
    BY <1>1, <1>2, <1>3, <2>1, OpenAfter
  <2>4. QED
    BY <1>1, <1>2, <2>1, <2>2, <2>3, LateAfter, ClaimKept
<1>5. CASE Lock(c)
  <2>1. owner = NoConsumer /\ owner' = c
    BY <1>5 DEF Lock
  <2>2. Late(e)' \subseteq Late(e)
    <3>1. \A d \in Consumer \ {c} : Claims(d, e)' <=> Claims(d, e)
      BY <1>1, <1>2, SameClaims
    <3>2. QED
      BY <2>1, <3>1, OutboxAssumption DEF Late
  <2>3. Open(e)' => Open(e)
    BY <1>1, <1>3, <2>1 DEF Open
  <2>4. QED
    BY <1>1, <2>2, <2>3, ClaimKept
<1>6. CASE Release(c)
  <2>1. ~ Claims(c, e)'
    BY <1>6 DEF Release, Goto, Claims, Working, Busy, OutboxTypeOK
  <2>2. owner' = IF owner = c THEN NoConsumer ELSE owner
    BY <1>6 DEF Release, Released
  <2>3. Late(e)' \subseteq Late(e)
    BY <1>1, <1>2, <2>1, <2>2, LateAfter
  <2>4. CASE owner = c
    <3>1. Open(e)' => Open(e)
      BY <1>1, <1>3, <2>2, <2>4 DEF Open
    <3>2. QED
      BY <1>1, <2>3, <3>1, ClaimKept
  <2>5. CASE owner # c
    <3>1. Open(e)' => Open(e)
      BY <1>1, <1>2, <1>3, <2>2, <2>5, OpenAfter
    <3>2. QED
      BY <1>1, <2>3, <3>1, ClaimKept
  <2>6. QED
    BY <2>4, <2>5
<1>7. QED
  BY <1>4, <1>5, <1>6

\* A consumer that fails or goes: it claims nothing it did not claim before.
LEMMA FailClaims ==
  ASSUME OutboxInv, NEW c \in Consumer,
         \/ ListFails(c) \/ ReleaseFails(c) \/ Stop(c) \/ Crash(c)
         \/ \E s \in Shard : ReadFails(c, s),
         NEW e \in Event, ClaimInv(e)
  PROVE  ClaimInv(e)'
<1> USE DEF OutboxInv
<1>1. UNCHANGED <<seq, owner, handled>> /\ faults' = faults + 1
  BY DEF ListFails, ReleaseFails, Stop, Crash, ReadFails, Fault, tableVars, history
<1>2. \A d \in Consumer \ {c} : Alone(d)
  <2>1. CASE ListFails(c) \/ ReleaseFails(c)
    BY <2>1 DEF ListFails, ReleaseFails, Goto, ownVars, Alone, OutboxTypeOK
  <2>2. CASE Stop(c) \/ Crash(c) \/ \E s \in Shard : ReadFails(c, s)
    BY <2>2 DEF Stop, Crash, ReadFails, Goto, Alone, OutboxTypeOK
  <2>3. QED
    BY <2>1, <2>2
<1>3. Claims(c, e)' => Claims(c, e)
  <2>1. CASE ListFails(c) \/ ReleaseFails(c)
    BY <2>1 DEF ListFails, ReleaseFails, Goto, Claims, Working, Busy, OutboxTypeOK
  <2>2. CASE Stop(c) \/ Crash(c)
    <3>1. batch'[c] = {} /\ unvisited'[c] = {} /\ pc'[c] # "list"
      BY <2>2 DEF Stop, Crash, Goto, OutboxTypeOK
    <3>2. QED
      BY <3>1 DEF Claims
  <2>3. ASSUME NEW s \in Shard, ReadFails(c, s) PROVE Claims(c, e)' => Claims(c, e)
    <3>1. batch'[c] = {} /\ unvisited'[c] \subseteq unvisited[c] /\ pc'[c] # "list"
          /\ pc[c] \in Working
      BY <2>3 DEF ReadFails, Goto, AfterShard, Working, Busy, OutboxTypeOK
    <3>2. QED
      BY <3>1 DEF Claims
  <2>4. QED
    BY <2>1, <2>2, <2>3
<1>4. QED
  BY <1>1, <1>2, <1>3, FaultClaims

\* The lock expires: its owner, if it works, is late from now on.
LEMMA ExpireClaims ==
  ASSUME OutboxInv, ExpireAbandoned \/ ExpireUnderWork, NEW e \in Event, ClaimInv(e)
  PROVE  ClaimInv(e)'
<1> USE DEF OutboxInv
<1>1. /\ UNCHANGED <<row, seq, pc, unvisited, batch, handled>>
      /\ owner # NoConsumer /\ owner' = NoConsumer
  BY DEF ExpireAbandoned, ExpireUnderWork, tableVars, ownVars, history
<1>2. \A d \in Consumer : (Claims(d, e)' <=> Claims(d, e)) /\ (Succeeded(d, e)' <=> Succeeded(d, e))
  BY <1>1, SameClaims DEF Alone
<1>3. Late(e)' \subseteq Late(e) \cup {owner}
  BY <1>1, <1>2 DEF Late
<1>4. owner \in Consumer
  BY <1>1 DEF OutboxTypeOK
<1>5. CASE ExpireAbandoned
  <2>1. faults' = faults /\ pc[owner] \notin Working
    BY <1>5 DEF ExpireAbandoned
  <2>2. ~ Claims(owner, e) /\ ~ Succeeded(owner, e)
    BY <2>1 DEF Claims, Succeeded, Working, Busy
  <2>3. Late(e)' \subseteq Late(e)
    BY <1>1, <1>2, <1>4, <2>2 DEF Late
  <2>4. Open(e)' => Open(e)
    BY <1>1, <2>2 DEF Open
  <2>5. QED
    BY <1>1, <2>1, <2>3, <2>4, ClaimKept
<1>6. CASE ExpireUnderWork
  <2>1. faults' = faults + 1
    BY <1>6 DEF ExpireUnderWork, Fault
  <2>2. CASE Succeeded(owner, e)
    <3>1. ShardOf[e] \notin unvisited[owner] /\ pc[owner] # "list"
      BY <1>4, <2>2 DEF Succeeded, Current, BatchInv
    <3>2. ~ Claims(owner, e)
      BY <2>2, <3>1 DEF Claims
    <3>3. Late(e)' \subseteq Late(e)
      BY <1>1, <1>2, <1>4, <3>2 DEF Late
    <3>4. QED
      BY <1>1, <2>1, <3>3, ClaimPaid
  <2>3. CASE ~ Succeeded(owner, e)
    <3>1. Open(e)' => Open(e)
      BY <1>1, <2>3 DEF Open
    <3>2. QED
      BY <1>1, <1>3, <2>1, <3>1, ClaimPaid
  <2>4. QED
    BY <2>2, <2>3
<1>7. QED
  BY <1>5, <1>6

LEMMA StepClaims ==
  ASSUME OutboxInv, [OutboxNext]_outboxVars, NEW e \in Event, ClaimInv(e)
  PROVE  ClaimInv(e)'
<1>1. ASSUME NEW x \in Event, Publish(x) \/ CleanupPublished(x) \/ CleanupFailed(x)
      PROVE  ClaimInv(e)'
  BY <1>1, PublishClaims, CleanupClaims
<1>2. ASSUME NEW c \in Consumer, Lock(c) \/ ListShards(c) \/ Release(c) \/ Restart(c)
      PROVE  ClaimInv(e)'
  BY <1>2, LockClaims
<1>3. ASSUME NEW c \in Consumer, ListFails(c) \/ ReleaseFails(c) \/ Stop(c) \/ Crash(c)
      PROVE  ClaimInv(e)'
  BY <1>3, FailClaims
<1>4. ASSUME NEW c \in Consumer, NEW s \in Shard, Read(c, s) \/ ReadFails(c, s)
      PROVE  ClaimInv(e)'
  BY <1>4, ReadClaims, FailClaims
<1>5. ASSUME NEW c \in Consumer, NEW x \in Event, Handle(c, x) \/ Skip(c, x) \/ Mark(c, x)
      PROVE  ClaimInv(e)'
  BY <1>5, HandleClaims, MarkClaims
<1>6. ASSUME NEW c \in Consumer, NEW x \in Event, MarkFails(c, x) \/ MarkTwice(c, x)
      PROVE  ClaimInv(e)'
  <2>1. /\ Marking(c, x) /\ AfterMark(c, x) /\ faults' = faults + 1
        /\ UNCHANGED <<seq, owner, unvisited, handled>>
    BY <1>6 DEF MarkFails, MarkTwice, Fault, tableVars, history
  <2>2. QED
    BY <2>1, MarkFaultClaims
<1>7. CASE ExpireAbandoned \/ ExpireUnderWork
  BY <1>7, ExpireClaims
<1>8. CASE UNCHANGED outboxVars
  <2>1. UNCHANGED <<row, seq, owner, pc, unvisited, batch, handled, faults>>
    BY <1>8 DEF outboxVars
  <2>2. (Late(e)' = Late(e)) /\ (Open(e)' <=> Open(e))
    BY <2>1 DEF Late, Open, Claims, Succeeded, Current, Before
  <2>3. QED
    BY <2>1, <2>2, ClaimKept DEF OutboxInv
<1>9. QED
  BY <1>1, <1>2, <1>3, <1>4, <1>5, <1>6, <1>7, <1>8 DEF OutboxNext, ConsumerStep, ConsumerFault

\* A handler succeeds once for an event, and once more at most for each failed or
\* repeated call, crash, shutdown and lock that expired under work
\* (universal_outbox_consumer.py:126-152, 186-194).
THEOREM OnceUnlessFaults == OutboxSpec => []HandledOnce
<1> DEFINE AllClaims == \A e \in Event : ClaimInv(e)
<1>1. OutboxInit => AllClaims
  <2> SUFFICES ASSUME OutboxInit, NEW e \in Event PROVE ClaimInv(e)
    OBVIOUS
  <2>1. Late(e) = {} /\ handled[e] = 0 /\ faults = 0
    BY DEF OutboxInit, Late, Claims, Working, Busy
  <2>2. QED
    BY <2>1, FS_EmptySet DEF ClaimInv
<1>2. OutboxInv /\ AllClaims /\ [OutboxNext]_outboxVars => AllClaims'
  BY StepClaims
<1>3. OutboxInv /\ AllClaims => HandledOnce
  <2> SUFFICES ASSUME OutboxInv, AllClaims, NEW e \in Event PROVE handled[e] <= 1 + faults
    BY DEF HandledOnce
  <2>1. handled[e] \in Nat /\ faults \in Nat /\ Cardinality(Late(e)) \in Nat
    BY FS_CardinalityType, OutboxAssumption DEF ClaimInv, OutboxInv, OutboxTypeOK
  <2>2. QED
    BY <2>1 DEF ClaimInv
<1>4. OutboxSpec => []AllClaims
  <2> HIDE DEF AllClaims
  <2>1. QED
    BY <1>1, <1>2, OutboxInvariant, PTL DEF OutboxSpec
<1>5. QED
  <2> HIDE DEF AllClaims
  <2>1. QED
    BY <1>3, <1>4, OutboxInvariant, PTL
=============================================================================
