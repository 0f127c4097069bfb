------------------------------ MODULE WebSocket ------------------------------
(***************************************************************************)
(* WebSocketService and WebSocketClientManager (service/websocket/): the   *)
(* connections of one process, its users and channels, what is sent to     *)
(* them, the heartbeat and the cleanup of inactive connections.            *)
(*                                                                         *)
(* Everything runs on one event loop: a handler is split where it waits,   *)
(* at the handshake and at each send_text.  disconnect, subscribe and      *)
(* unsubscribe await nothing that suspends and are atomic.                 *)
(*                                                                         *)
(* Of these operations the repository calls only start_background_tasks,   *)
(* broadcast_message and shutdown: the /ws endpoint (routers/websocket.py) *)
(* accepts, reads and answers by itself.  The model is of the service with *)
(* the endpoint of its README (service/websocket/README.md:743-755), which *)
(* hands connections, messages and their end to connect_client,            *)
(* handle_client_message and disconnect_client.                            *)
(***************************************************************************)
EXTENDS Integers, Sequences, FiniteSets

CONSTANTS
    Sock,            \* websockets, each used for one connection
    NoSock,          \* no websocket
    Id,              \* client ids
    User,            \* users
    Channel,         \* channels
    IdChoices,       \* the ways client ids may be given to the websockets
    UserOf,          \* the user of each
    Caller,          \* concurrent calls of the three sending methods
    Calls,           \* what they send to
    Heartbeat,       \* the heartbeat task
    MaxConnections   \* max_connections

ToAll == [kind |-> "all"]

\* A user, a channel or everybody.
Aim == [kind : {"user"}, name : User] \cup [kind : {"channel"}, name : Channel]
         \cup {ToAll}

ASSUME WebSocketAssumption ==
    /\ NoSock \notin Sock
    /\ IdChoices \subseteq [Sock -> Id]
    /\ \A s \in Sock : UserOf[s] \in User
    /\ Heartbeat \notin Caller \cup Sock
    /\ Caller \cap Sock = {}
    /\ Calls \subseteq Aim
    /\ IsFiniteSet(Sock)
    /\ MaxConnections \in Nat \ {0}

Sender == Caller \cup {Heartbeat}
Task   == Sender \cup Sock      \* a connection answers with a task of its own

VARIABLES
    idOf,       \* the client id each websocket connects under, chosen once
    up,         \* the service: running, stopping or down
    active,     \* active_connections: the connection of each client id
    userIds,    \* user_clients: how often the list of a user names a client id
    subs,       \* channel_subscribers
    chans,      \* the channels of each connection
    open,       \* stats["active_connections"]
    ping,       \* last_ping of each connection: never, recent or old
    conn,       \* how far each websocket is
    gone,       \* peers that have gone
    sending,    \* the connection each task waits for in send_text
    todo,       \* how often each task has still to send to each client id
    owed,       \* connections its call was for when it began, and not yet tried
    replaced,   \* connections another one has replaced under the same id
    late,       \* handshakes the shutdown has overtaken
    together    \* the most handshakes that were under way at once

listVars == <<active, userIds, subs, chans, open>>
sendVars == <<sending, todo, owed>>
ghosts   == <<replaced, late, together>>
vars == <<idOf, up, active, userIds, subs, chans, open, ping, conn, gone, sending,
          todo, owed, replaced, late, together>>

Active == {s \in Sock : active[idOf[s]] = s}
Nothing == [i \in Id |-> 0]

\* Every variable keeps its type; a connection is filed under its own client id.
TypeOK ==
    /\ idOf \in [Sock -> Id]
    /\ up \in {"running", "stopping", "down"}
    /\ active \in [Id -> Sock \cup {NoSock}]
    /\ \A i \in Id : active[i] # NoSock => idOf[active[i]] = i
    /\ userIds \in [User -> [Id -> Nat]]
    /\ subs \in [Channel -> SUBSET Id]
    /\ chans \in [Sock -> Seq(Channel)]
    /\ open \in Int
    /\ ping \in [Sock -> {"never", "recent", "old"}]
    /\ conn \in [Sock -> {"new", "accepting", "confirming", "served", "over"}]
    /\ gone \in SUBSET Sock
    /\ sending \in [Task -> Sock \cup {NoSock}]
    /\ todo \in [Sender -> [Id -> Nat]]
    /\ owed \in [Sender -> SUBSET Sock]
    /\ replaced \in SUBSET Sock
    /\ late \in SUBSET Sock
    /\ together \in Nat

Init ==
    /\ idOf \in IdChoices
    /\ up = "running"
    /\ active = [i \in Id |-> NoSock]
    /\ userIds = [u \in User |-> Nothing]
    /\ subs = [c \in Channel |-> {}]
    /\ chans = [s \in Sock |-> <<>>]
    /\ open = 0
    /\ ping = [s \in Sock |-> "never"]
    /\ conn = [s \in Sock |-> "new"]
    /\ gone = {}
    /\ sending = [t \in Task |-> NoSock]
    /\ todo = [t \in Sender |-> Nothing]
    /\ owed = [t \in Sender |-> {}]
    /\ replaced = {} /\ late = {}
    /\ together = 0

-----------------------------------------------------------------------------
(* The connections                                                         *)

Accepting == {s \in Sock : conn[s] = "accepting"}

\* Mutant of Full: one connection too many.
FullAbove(n) == n > MaxConnections

\* len(active_connections) >= max_connections.
Full(n) == n >= MaxConnections

\* connect_client: the limit is looked at before the handshake.
ConnectClient(s) ==
    /\ up # "down" /\ conn[s] = "new"
    /\ conn' = [conn EXCEPT ![s] =
                 IF Full(Cardinality(Active)) THEN "over" ELSE "accepting"]
    /\ together' = IF Cardinality(Accepting') > together
                     THEN Cardinality(Accepting') ELSE together
    /\ UNCHANGED <<idOf, up, listVars, ping, gone, sendVars, replaced, late>>

\* accept() has returned: the connection is filed and counted, over another one of
\* the same client id if there is one, and the confirmation is sent.
Accepted(s) ==
    LET i == idOf[s] IN
    /\ conn[s] = "accepting"
    /\ conn' = [conn EXCEPT ![s] = "confirming"]
    /\ active' = [active EXCEPT ![i] = s]
    /\ replaced' = replaced \cup ({active[i]} \ {NoSock})
    /\ userIds' = [userIds EXCEPT ![UserOf[s]][i] = @ + 1]
    /\ open' = open + 1
    /\ sending' = [sending EXCEPT ![s] = s]
    /\ UNCHANGED <<idOf, up, subs, chans, ping, gone, todo, owed, late, together>>

\* The handshake fails.
AcceptFails(s) ==
    /\ conn[s] = "accepting"
    /\ conn' = [conn EXCEPT ![s] = "over"]
    /\ UNCHANGED <<idOf, up, listVars, ping, gone, sendVars, ghosts>>

\* The channels disconnect takes the client out of: its loop runs over the list
\* that unsubscribe_from_channel shortens, and so misses every second one.
Unsubscribed(s) == {chans[s][k] : k \in {n \in 1..Len(chans[s]) : n % 2 = 1}}

\* Mutant of DisconnectAll: the users keep their client ids.
DisconnectButUser(S) ==
    /\ active' = [i \in Id |-> IF active[i] \in S THEN NoSock ELSE active[i]]
    /\ subs' = [c \in Channel |->
                  subs[c] \ {idOf[s] : s \in {r \in S : c \in Unsubscribed(r)}}]
    /\ chans' = [s \in Sock |-> IF s \in S THEN <<>> ELSE chans[s]]
    /\ ping' = [s \in Sock |-> IF s \in S THEN "never" ELSE ping[s]]
    /\ open' = open - Cardinality(S)
    /\ UNCHANGED userIds

\* disconnect of the active connections S, one after the other: channels, one
\* entry of the user's list, active_connections.  The client object is dropped,
\* the websocket is not closed.
DisconnectAll(S) ==
    /\ active' = [i \in Id |-> IF active[i] \in S THEN NoSock ELSE active[i]]
    /\ subs' = [c \in Channel |->
                  subs[c] \ {idOf[s] : s \in {r \in S : c \in Unsubscribed(r)}}]
    /\ chans' = [s \in Sock |-> IF s \in S THEN <<>> ELSE chans[s]]
    /\ ping' = [s \in Sock |-> IF s \in S THEN "never" ELSE ping[s]]
    /\ userIds' = [u \in User |-> [i \in Id |->
                     IF userIds[u][i] > 0 /\ active[i] \in S /\ UserOf[active[i]] = u
                       THEN userIds[u][i] - 1 ELSE userIds[u][i]]]
    /\ open' = open - Cardinality(S)

\* disconnect(client_id): whatever connection has the id by now.
Disconnect(i) == DisconnectAll({active[i]} \ {NoSock})

-----------------------------------------------------------------------------
(* Requests of the peers                                                   *)

\* An endpoint hands a message of the peer of s to handle_client_message, which
\* finds the connection with that client id; it answers on the same one.
Request(s) ==
    /\ up # "down" /\ conn[s] = "served" /\ s \notin gone
    /\ sending[s] = NoSock
    /\ active[idOf[s]] # NoSock
    /\ sending' = [sending EXCEPT ![s] = active[idOf[s]]]
    /\ UNCHANGED <<idOf, up, active, userIds, open, conn, gone, todo, owed,
                   ghosts>>

Subscribe(s, c) ==
    LET a == active[idOf[s]] IN
    /\ Request(s)
    /\ chans' = IF c \in {chans[a][k] : k \in DOMAIN chans[a]} THEN chans
                ELSE [chans EXCEPT ![a] = Append(@, c)]
    /\ subs' = [subs EXCEPT ![c] = @ \cup {idOf[s]}]
    /\ UNCHANGED ping

\* list.remove: l without c, which it names once at most.
Without(l, c) ==
    IF \E k \in DOMAIN l : l[k] = c
      THEN LET k == CHOOSE n \in DOMAIN l : l[n] = c
           IN  [n \in 1..(Len(l) - 1) |-> IF n < k THEN l[n] ELSE l[n + 1]]
      ELSE l

Unsubscribe(s, c) ==
    /\ Request(s)
    /\ chans' = [chans EXCEPT ![active[idOf[s]]] = Without(@, c)]
    /\ subs' = [subs EXCEPT ![c] = @ \ {idOf[s]}]
    /\ UNCHANGED ping

Ping(s) ==
    /\ Request(s)
    /\ ping' = [ping EXCEPT ![active[idOf[s]]] = "recent"]
    /\ UNCHANGED <<chans, subs>>

-----------------------------------------------------------------------------
(* Sending                                                                 *)

\* Mutant of Audience: everybody is everybody who has sent a ping.
AudiencePinged(a) ==
    CASE a.kind = "user"    -> userIds[a.name]
      [] a.kind = "channel" -> [i \in Id |-> IF i \in subs[a.name] THEN 1 ELSE 0]
      [] a.kind = "all"     -> [i \in Id |->
            IF active[i] # NoSock /\ ping[active[i]] # "never" THEN 1 ELSE 0]

\* The client ids a call is for, copied when it begins.
Audience(a) ==
    CASE a.kind = "user"    -> userIds[a.name]
      [] a.kind = "channel" -> [i \in Id |-> IF i \in subs[a.name] THEN 1 ELSE 0]
      [] a.kind = "all"     -> [i \in Id |-> IF active[i] # NoSock THEN 1 ELSE 0]

\* The connections it should reach.
Meant(a) ==
    CASE a.kind = "user"    -> {s \in Active : UserOf[s] = a.name}
      [] a.kind = "channel" -> {s \in Active :
                                  a.name \in {chans[s][k] : k \in DOMAIN chans[s]}}
      [] a.kind = "all"     -> Active

Idle(t) == sending[t] = NoSock /\ todo[t] = Nothing

\* send_to_user, broadcast_to_channel, broadcast_to_all; the heartbeat task sends
\* to all.
Broadcast(t, a) ==
    /\ Idle(t)
    /\ \/ t = Heartbeat /\ a = ToAll /\ up = "running"
       \/ t # Heartbeat /\ a \in Calls /\ up # "down"
    /\ todo' = [todo EXCEPT ![t] = Audience(a)]
    /\ owed' = [owed EXCEPT ![t] = Meant(a)]
    /\ UNCHANGED <<idOf, up, listVars, ping, conn, gone, sending, ghosts>>

\* The client ids a call has still to send to.
Remaining(t) == {i \in Id : todo[t][i] > 0}

\* send_to_client for the next of its client ids: nothing if it has left, else it
\* waits for send_text.
SendNext(t) ==
    /\ sending[t] = NoSock
    /\ \E i \in Remaining(t) :
        /\ todo' = [todo EXCEPT ![t][i] = @ - 1]
        /\ sending' = [sending EXCEPT ![t] = active[i]]
        /\ owed' = [owed EXCEPT ![t] = @ \ {active[i]}]
    /\ UNCHANGED <<idOf, up, listVars, ping, conn, gone, ghosts>>

\* connect has sent its confirmation, whatever became of it.
Confirmed(t) == conn' = IF t \in Sock /\ conn[t] = "confirming"
                          THEN [conn EXCEPT ![t] = "served"] ELSE conn

\* Mutant of Continue: the first failure ends the call.
GiveUp(t) == todo' = IF t \in Sender THEN [todo EXCEPT ![t] = Nothing] ELSE todo

\* A client that cannot be reached does not keep the call from the others.
Continue(t) == UNCHANGED todo

\* The text is sent, to a peer that has gone perhaps, or another exception than
\* WebSocketDisconnect is counted: the connection stays.
SendReturns(t) ==
    /\ sending[t] # NoSock
    /\ sending' = [sending EXCEPT ![t] = NoSock]
    /\ Confirmed(t)
    /\ UNCHANGED <<idOf, up, listVars, ping, gone, todo, owed, ghosts>>

\* WebSocketDisconnect: the client id is disconnected.
SendLost(t) ==
    /\ sending[t] \in gone
    /\ Disconnect(idOf[sending[t]])
    /\ sending' = [sending EXCEPT ![t] = NoSock]
    /\ Continue(t)
    /\ Confirmed(t)
    /\ UNCHANGED <<idOf, up, gone, owed, ghosts>>

-----------------------------------------------------------------------------
(* Peers, time, shutdown                                                   *)

PeerGoes(s) ==
    /\ conn[s] \in {"accepting", "confirming", "served"} /\ s \notin gone
    /\ gone' = gone \cup {s}
    /\ UNCHANGED <<idOf, up, listVars, ping, conn, sendVars, ghosts>>

\* The receive of an endpoint fails and it calls disconnect_client.
EndpointLeaves(s) ==
    /\ up # "down" /\ conn[s] = "served" /\ s \in gone
    /\ sending[s] = NoSock
    /\ conn' = [conn EXCEPT ![s] = "over"]
    /\ Disconnect(idOf[s])
    /\ UNCHANGED <<idOf, up, gone, sendVars, ghosts>>

\* connection_timeout passes without a ping.
PingAges(s) ==
    /\ s \in Active /\ ping[s] = "recent"
    /\ ping' = [ping EXCEPT ![s] = "old"]
    /\ UNCHANGED <<idOf, up, listVars, conn, gone, sendVars, ghosts>>

Inactive == {s \in Active : ping[s] = "old"}

\* The cleanup loop: every inactive connection, without a pause in between.
CleanUp ==
    /\ up = "running"
    /\ Inactive # {}
    /\ DisconnectAll(Inactive)
    /\ UNCHANGED <<idOf, up, conn, gone, sendVars, ghosts>>

\* shutdown, first part: the two tasks are cancelled, the heartbeat in the middle
\* of its sending perhaps, and awaited.
StopTasks ==
    /\ up = "running"
    /\ up' = "stopping"
    /\ sending' = [sending EXCEPT ![Heartbeat] = NoSock]
    /\ todo' = [todo EXCEPT ![Heartbeat] = Nothing]
    /\ UNCHANGED <<idOf, listVars, ping, conn, gone, owed, ghosts>>

\* Second part: every connection is taken out and the manager forgotten; what has
\* begun goes on with the old manager.
CloseAll ==
    /\ up = "stopping"
    /\ up' = "down"
    /\ DisconnectAll(Active)
    /\ late' = Accepting
    /\ UNCHANGED <<idOf, conn, gone, sendVars, replaced, together>>

-----------------------------------------------------------------------------
SendStep(t) == SendReturns(t) \/ SendLost(t)

Next ==
    \/ \E s \in Sock : ConnectClient(s) \/ Accepted(s) \/ AcceptFails(s)
    \/ \E s \in Sock, c \in Channel : Subscribe(s, c) \/ Unsubscribe(s, c)
    \/ \E s \in Sock : Ping(s) \/ PeerGoes(s) \/ EndpointLeaves(s) \/ PingAges(s)
    \/ \E t \in Sender, a \in Aim : Broadcast(t, a)
    \/ \E t \in Sender : SendNext(t)
    \/ \E t \in Task : SendStep(t)
    \/ CleanUp \/ StopTasks \/ CloseAll

Spec == Init /\ [][Next]_vars

\* The loop resumes what can go on: sends end (uvicorn ends those to a peer that
\* no longer answers), the two tasks wake up again and again.
Fairness ==
    /\ \A t \in Task : WF_vars(SendStep(t))
    /\ \A t \in Sender : WF_vars(SendNext(t))
    /\ WF_vars(Broadcast(Heartbeat, ToAll))
    /\ WF_vars(CleanUp)

FairSpec == Spec /\ Fairness

-----------------------------------------------------------------------------
(* Properties                                                              *)

\* max_connections is exceeded by no more than the handshakes that were under way
\* at the same time, less one: connect_client looks at the number of connections
\* before it waits for accept (websocket_service.py:111-114).
LimitHeld ==
    Cardinality(Active) + Cardinality(Accepting)
        < MaxConnections + (IF together = 0 THEN 1 ELSE together)

\* The counter and the users' lists name the connections there are, plus those
\* that another connection with the same client id has replaced, which no call
\* takes out again, however connections end (websocket_client.py:77-144).
ListsAgree ==
    /\ open = Cardinality(Active \cup replaced)
    /\ \A u \in User, i \in Id :
        userIds[u][i] = Cardinality({s \in Active \cup replaced :
                                       UserOf[s] = u /\ idOf[s] = i})

\* A call is still to come to every connection it was for when it began, is there
\* still and has not been tried, whatever has been disconnected by it or by others
\* in the meantime and however its other sends ended: at its end all have been
\* tried (the copies of send_to_user and the broadcasts, websocket_client.py:173-210).
NobodySkipped ==
    \A t \in Sender :
        ~(t = Heartbeat /\ up # "running") =>
            \A s \in owed[t] \cap Active : todo[t][idOf[s]] > 0

\* When the service is down no connection is left, but those whose handshake the
\* shutdown overtook, which nobody takes out (websocket_service.py:73-93).
ShutdownCloses == (up = "down") => (Active \subseteq late)

\* A connection that stays while the service runs gets a heartbeat again and again,
\* whatever happens to the other ones (_heartbeat_loop, websocket_service.py:270-289).
HeartbeatReaches ==
    \A s \in Sock :
        <>[](s \in Active /\ up = "running") => []<>(sending[Heartbeat] = s)
=============================================================================
