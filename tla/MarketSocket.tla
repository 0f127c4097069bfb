----------------------------- MODULE MarketSocket -----------------------------
(***************************************************************************)
(* The connection to the market data provider: IOCPWebSocket               *)
(* (service/external/iocp_websocket.py) as KoreaInvestmentWebSocketIOCP    *)
(* uses it.  Requests are events of one queue, an event loop handles them  *)
(* one after the other, and every connection gets a receive task of its    *)
(* own that posts what it reads.                                           *)
(*                                                                         *)
(* Everything runs on one asyncio loop: a handler is split where it waits. *)
(* Events whose handler only logs (the completions, ERROR_OCCURRED, which  *)
(* nothing posts) are left out.                                            *)
(***************************************************************************)
EXTENDS Naturals, Sequences

CONSTANTS
    Conn,       \* connections to the provider
    NoConn,     \* self.websocket is None
    Loop,       \* event loop tasks
    Symbol,     \* stock symbols
    Caller,     \* tasks that wait for a connection
    MaxQueue,   \* bound: messages the provider sends while events are queued
    MaxEvents   \* bound: connections that fail or are lost, and what the
                \* environment of the composed system does

ASSUME SocketAssumption ==
    /\ NoConn \notin Conn
    /\ Loop # {}
    /\ MaxQueue \in Nat
    /\ MaxEvents \in Nat

VARIABLES
    state,      \* _state
    socket,     \* websocket
    open,       \* connections that are open at the provider
    served,     \* symbols the provider sends on each connection
    queue,      \* _event_queue
    running,    \* _running
    alive,      \* event loop tasks that exist
    current,    \* _event_loop_task
    busy,       \* what each event loop waits for
    recv,       \* the receive task of each connection
    reads,      \* the connection it reads
    latest,     \* _recv_task, by its connection
    waiting,    \* callers that wait for CONNECTED
    untidy,     \* a connection was made before the last one was gone, stop() has
                \* run with a connection, or the loss of one was handled by another
                \* event loop while it was being closed
    events      \* events of the environment so far

loopVars   == <<running, alive, current, busy>>
recvVars   == <<recv, reads, latest>>
socketVars == <<state, socket, open, served, queue, loopVars, recvVars, waiting,
                untidy>>

State == {"disconnected", "connecting", "connected", "subscribed", "closing", "error"}
Plain(kind) == [kind |-> kind]
About(kind, s) == [kind |-> kind, symbol |-> s]
EventType == {Plain(k) : k \in {"connect", "close", "lost", "price", "pingpong"}}
               \cup {About(k, s) : k \in {"subscribe", "send"}, s \in Symbol}
Lost == Plain("lost")

SocketTypeOK ==
    /\ state \in State
    /\ socket \in Conn \cup {NoConn}
    /\ open \in SUBSET Conn
    /\ served \in [Conn -> SUBSET Symbol]
    /\ queue \in Seq(EventType)
    /\ running \in BOOLEAN
    /\ alive \in SUBSET Loop
    /\ current \in Loop
    /\ busy \in [Loop -> {"idle", "connecting", "closing"}]
    /\ recv \in [Conn -> {"off", "starting", "reading", "cancelled"}]
    /\ reads \in [Conn -> Conn \cup {NoConn}]
    /\ latest \in Conn \cup {NoConn}
    /\ waiting \in SUBSET Caller
    /\ untidy \in BOOLEAN
    /\ events \in 0..MaxEvents

\* One of S that is not in T: which one it is makes no difference.
Other(S, T) == CHOOSE x \in S : x \notin T

\* The health check of the start has connected and disconnected: its CONNECTION_LOST
\* may still be queued.
SocketInit ==
    /\ state = "disconnected"
    /\ socket = NoConn
    /\ open = {}
    /\ served = [c \in Conn |-> {}]
    /\ queue \in {<<>>, <<Lost>>}
    /\ running = FALSE
    /\ alive = {}
    /\ current = Other(Loop, {})
    /\ busy = [l \in Loop |-> "idle"]
    /\ recv = [c \in Conn |-> "off"]
    /\ reads = [c \in Conn |-> NoConn]
    /\ latest = NoConn
    /\ waiting = {}
    /\ untidy = FALSE
    /\ events = 0

Event == events < MaxEvents /\ events' = events + 1

-----------------------------------------------------------------------------
(* What the callers do: they post                                          *)

IsConnected == state \in {"connected", "subscribed"}

\* start: a new event loop, if _running is off; the last one may not have ended yet.
Start ==
    IF running THEN UNCHANGED loopVars
    ELSE /\ Loop \ (alive \cup {current}) # {}
         /\ current' = Other(Loop, alive \cup {current})
         /\ alive' = alive \cup {current'}
         /\ running' = TRUE
         /\ UNCHANGED busy

\* connect: posts the request and waits for CONNECTED, if it is not so already.
Connect(k) ==
    /\ Start
    /\ queue' = Append(queue, Plain("connect"))
    /\ waiting' = IF state = "connected" THEN waiting ELSE waiting \cup {k}
    /\ UNCHANGED <<state, socket, open, served, recvVars, untidy>>

\* subscribe: posts the request; it always returns True.
Subscribe(s) ==
    /\ queue' = Append(queue, About("subscribe", s))
    /\ UNCHANGED <<state, socket, open, served, loopVars, recvVars, waiting, untidy>>

-----------------------------------------------------------------------------
(* The receive tasks                                                       *)

\* The test of _recv_loop, and recv(): it reads the connection of the moment, unless
\* another task is reading that one.  However it ends, it posts CONNECTION_LOST.
Continue(r, q) ==
    IF IsConnected /\ socket # NoConn /\ ~ \E o \in Conn \ {r} : reads[o] = socket
      THEN /\ recv' = [recv EXCEPT ![r] = "reading"]
           /\ reads' = [reads EXCEPT ![r] = socket]
           /\ queue' = q
      ELSE /\ recv' = [recv EXCEPT ![r] = "off"]
           /\ reads' = [reads EXCEPT ![r] = NoConn]
           /\ queue' = Append(q, Lost)

Unchanged == UNCHANGED <<state, socket, open, served, loopVars, latest, waiting,
                         untidy>>

RecvStart(r) ==
    /\ recv[r] = "starting"
    /\ Continue(r, queue)
    /\ Unchanged /\ UNCHANGED events

\* A price of a subscribed symbol arrives.
RecvPrice(r) ==
    /\ recv[r] = "reading" /\ reads[r] \in open
    /\ served[reads[r]] # {}
    /\ Len(queue) < MaxQueue
    /\ Continue(r, Append(queue, Plain("price")))
    /\ Unchanged /\ UNCHANGED events

\* PINGPONG arrives.
RecvPingpong(r) ==
    /\ recv[r] = "reading" /\ reads[r] \in open
    /\ Event
    /\ Continue(r, Append(queue, Plain("pingpong")))
    /\ Unchanged

\* The connection is closed, or the task has been cancelled in recv().
RecvEnds(r) ==
    /\ \/ recv[r] = "reading" /\ reads[r] \notin open
       \/ recv[r] = "cancelled"
    /\ recv' = [recv EXCEPT ![r] = "off"]
    /\ reads' = [reads EXCEPT ![r] = NoConn]
    /\ queue' = Append(queue, Lost)
    /\ Unchanged /\ UNCHANGED events

\* _recv_task.cancel(): a task that has not started ends without a word.
CancelLatest ==
    recv' = IF latest = NoConn THEN recv
            ELSE [recv EXCEPT ![latest] = CASE @ = "reading"  -> "cancelled"
                                            [] @ = "starting" -> "off"
                                            [] OTHER          -> @]

\* What follows `await _recv_task`: a task that is cancelled ends at once.
CancelledEnded == \A r \in Conn : recv[r] # "cancelled"

\* The provider closes a connection, or the network does.
ConnectionCloses(c) ==
    /\ c \in open
    /\ Event
    /\ open' = open \ {c}
    /\ served' = [served EXCEPT ![c] = {}]
    /\ UNCHANGED <<state, socket, queue, loopVars, recvVars, waiting, untidy>>

-----------------------------------------------------------------------------
(* The event loop                                                          *)

\* The loop looks at _running between two events.
BackToQueue(l) == alive' = IF running THEN alive ELSE alive \ {l}

Take(l, kind) ==
    /\ l \in alive /\ busy[l] = "idle"
    /\ queue # <<>> /\ Head(queue).kind = kind

\* Nothing is left of the connections before: no socket, no reader, no notice that
\* one was lost, no other connection in the making.
Quiet ==
    /\ socket = NoConn
    /\ \A r \in Conn : recv[r] = "off"
    /\ Lost \notin {queue[k] : k \in DOMAIN queue}
    /\ \A l \in Loop : busy[l] = "idle"

HandleConnect(l) ==
    /\ Take(l, "connect")
    /\ queue' = Tail(queue)
    /\ state' = "connecting"
    /\ busy' = [busy EXCEPT ![l] = "connecting"]
    /\ untidy' = (untidy \/ ~Quiet)
    /\ UNCHANGED <<socket, open, served, running, alive, current, recvVars, waiting,
                   events>>

\* Connections somebody still has to do with.  One that is open, and that no task of
\* the program knows, is forgotten once it counts for nothing.
InUse == (IF untidy THEN {} ELSE open) \cup {socket}
           \cup {c \in Conn : recv[c] # "off"} \cup {reads[r] : r \in Conn}

\* websockets.connect returns: whoever waits for CONNECTED is woken.
Connected(l) ==
    /\ busy[l] = "connecting"
    /\ Conn \ InUse # {}
    /\ LET c == Other(Conn, InUse) IN
        /\ socket' = c
        /\ open' = open \cup {c}
        /\ served' = [served EXCEPT ![c] = {}]
        /\ recv' = [recv EXCEPT ![c] = "starting"]
        /\ latest' = c
    /\ state' = "connected"
    /\ waiting' = {}
    /\ busy' = [busy EXCEPT ![l] = "idle"]
    /\ BackToQueue(l)
    /\ UNCHANGED <<queue, running, current, reads, untidy, events>>

ConnectFails(l) ==
    /\ busy[l] = "connecting"
    /\ Event
    /\ state' = "error"
    /\ busy' = [busy EXCEPT ![l] = "idle"]
    /\ BackToQueue(l)
    /\ UNCHANGED <<socket, open, served, queue, running, current, recvVars, waiting,
                   untidy>>

\* SUBSCRIBED whatever the state was; the message is posted as another event.
HandleSubscribe(l) ==
    /\ Take(l, "subscribe")
    /\ queue' = Append(Tail(queue), About("send", Head(queue).symbol))
    /\ state' = "subscribed"
    /\ BackToQueue(l)
    /\ UNCHANGED <<socket, open, served, running, current, busy, recvVars, waiting,
                   untidy, events>>

\* Without a websocket, or with a closed one, the message is dropped.
HandleSend(l) ==
    /\ Take(l, "send")
    /\ queue' = Tail(queue)
    /\ served' = IF socket \in open
                   THEN [served EXCEPT ![socket] = @ \cup {Head(queue).symbol}]
                   ELSE served
    /\ BackToQueue(l)
    /\ UNCHANGED <<state, socket, open, running, current, busy, recvVars, waiting,
                   untidy, events>>

\* The socket is forgotten.  A loop that is about to close it finds none.
HandleLost(l) ==
    /\ Take(l, "lost")
    /\ queue' = Tail(queue)
    /\ state' = "disconnected"
    /\ socket' = NoConn
    /\ BackToQueue(l)
    /\ untidy' = (untidy \/ \E m \in Loop : busy[m] = "closing")
    /\ UNCHANGED <<open, served, running, current, busy, recvVars, waiting, events>>

\* CLOSE_REQUEST, first part: the receive task is cancelled and awaited.
HandleClose(l) ==
    /\ Take(l, "close")
    /\ queue' = Tail(queue)
    /\ state' = "closing"
    /\ busy' = [busy EXCEPT ![l] = "closing"]
    /\ CancelLatest
    /\ UNCHANGED <<socket, open, served, running, alive, current, reads, latest, waiting,
                   untidy, events>>

\* Mutant of Closed: the websocket is forgotten and not closed.
ClosedInName(l) ==
    /\ busy[l] = "closing" /\ CancelledEnded
    /\ UNCHANGED <<open, served>>
    /\ socket' = NoConn
    /\ state' = "disconnected"
    /\ busy' = [busy EXCEPT ![l] = "idle"]
    /\ BackToQueue(l)
    /\ UNCHANGED <<queue, running, current, recvVars, waiting, untidy, events>>

\* Second part: the websocket is closed.
Closed(l) ==
    /\ busy[l] = "closing" /\ CancelledEnded
    /\ open' = open \ {socket}
    /\ served' = [c \in Conn |-> IF c = socket THEN {} ELSE served[c]]
    /\ socket' = NoConn
    /\ state' = "disconnected"
    /\ busy' = [busy EXCEPT ![l] = "idle"]
    /\ BackToQueue(l)
    /\ UNCHANGED <<queue, running, current, recvVars, waiting, untidy, events>>

\* The interceptors get a price: what they do with it changes nothing here.
HandlePrice(l) ==
    /\ Take(l, "price")
    /\ queue' = Tail(queue)
    /\ BackToQueue(l)
    /\ UNCHANGED <<state, socket, open, served, running, current, busy, recvVars,
                   waiting, untidy, events>>

\* The queue stays empty for a second and _running is off.
LoopEnds(l) ==
    /\ l \in alive /\ busy[l] = "idle" /\ ~running
    /\ alive' = alive \ {l}
    /\ UNCHANGED <<state, socket, open, served, queue, running, current, busy, recvVars,
                   waiting, untidy, events>>

LoopStep(l) ==
    \/ HandleConnect(l) \/ Connected(l) \/ HandleSubscribe(l) \/ HandleSend(l)
    \/ HandleLost(l) \/ HandleClose(l) \/ Closed(l) \/ HandlePrice(l) \/ LoopEnds(l)

SocketStep ==
    \/ \E l \in Loop : LoopStep(l) \/ ConnectFails(l)
    \/ \E r \in Conn : RecvStart(r) \/ RecvPrice(r) \/ RecvEnds(r)
    \/ \E c \in Conn : ConnectionCloses(c)
=============================================================================
