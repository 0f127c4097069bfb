--------------------------- MODULE SignalMonitoring ---------------------------
(***************************************************************************)
(* SignalMonitoringService (service/signal/signal_monitoring_service.py)   *)
(* of the master server over the connection of MarketSocket: the           *)
(* synchronisation of the monitored symbols with the users' alarms, the    *)
(* subscription of a symbol, and the fallback to polling that the provider *)
(* starts with a PINGPONG (korea_investment_websocket_iocp.py).            *)
(*                                                                         *)
(* The scheduler runs the synchronisation under a distributed lock, one    *)
(* run at a time.  The service has its provider: without one               *)
(* subscribe_symbol returns at once, and nothing here happens.             *)
(***************************************************************************)
EXTENDS MarketSocket

CONSTANTS
    Shard,      \* database shards
    UsStock,    \* the symbols of one to five letters
    First,      \* the symbol init subscribes, long before the first synchronisation
    Attempts,   \* connection attempts of a call
    Stopper,    \* bound: PINGPONGs, by the tasks they create
    MaxChanges  \* bound: alarms that are created, toggled or deleted

ASSUME SignalAssumption ==
    /\ UsStock \subseteq Symbol
    /\ First \in UsStock
    /\ Caller = Symbol
    /\ Attempts \in Nat \ {0}
    /\ MaxChanges \in Nat

VARIABLES
    alarms,      \* active alarms: the shard and the symbol of each
    monitoring,  \* _monitoring_symbols
    polled,      \* symbols with a polling task
    fallback,    \* _use_rest_fallback
    stopper,     \* _delayed_disconnect tasks
    joins,       \* the event loop each waits for
    call,        \* calls of subscribe_symbol, by their symbol
    tries,       \* connection attempts each has made
    sync,        \* init while it subscribes First, and _sync_active_alarms
    found,       \* the symbols it has read
    changes      \* changes of the alarms so far

aimVars    == <<alarms, monitoring, polled, fallback>>
stopVars   == <<stopper, joins>>
callVars   == <<call, tries>>
syncVars   == <<sync, found, changes>>
signalVars == <<aimVars, stopVars, callVars, syncVars>>
marketVars == <<socketVars, events, signalVars>>

Symbols == {a[2] : a \in alarms}

\* Every variable keeps its type.
SignalTypeOK ==
    /\ SocketTypeOK
    /\ alarms \in SUBSET (Shard \X Symbol)
    /\ monitoring \in SUBSET Symbol
    /\ polled \in SUBSET Symbol
    /\ fallback \in BOOLEAN
    /\ stopper \in [Stopper -> {"none", "sleeping", "closing", "stopping",
                            "cancelling", "joining"}]
    /\ joins \in [Stopper -> Loop]
    /\ call \in [Caller -> {"none", "begin", "asking", "waiting", "settling"}]
    /\ tries \in [Caller -> 0..Attempts]
    /\ sync \in {"starting", "idle", "reading", "subscribing"}
    /\ found \in SUBSET Symbol
    /\ changes \in 0..MaxChanges

SignalInit ==
    /\ SocketInit
    /\ alarms \in SUBSET (Shard \X Symbol)
    /\ monitoring = {} /\ polled = {}
    /\ fallback = FALSE
    /\ stopper = [x \in Stopper |-> "none"]
    /\ joins = [x \in Stopper |-> Other(Loop, {})]
    /\ call = [k \in Caller |-> IF k = First THEN "begin" ELSE "none"]
    /\ tries = [k \in Caller |-> 0]
    /\ sync = "starting" /\ found = {} /\ changes = 0

-----------------------------------------------------------------------------
(* subscribe_symbol                                                        *)

Goto(k, where) == call' = [call EXCEPT ![k] = where]

CallOver(k) ==
    /\ Goto(k, "none")
    /\ tries' = [tries EXCEPT ![k] = 0]

Elsewhere == UNCHANGED <<aimVars, stopVars, syncVars>>

\* _start_rest_api_polling: a new task in place of the old one.
Poll(S) == polled' = polled \cup S

\* Monitored already, or not to be monitored: _is_us_stock.
NotForUs(k) == k \in monitoring \/ k \notin UsStock

\* There is nothing to do, or the symbol is polled instead in fallback mode.
CallNotNeeded(k) ==
    /\ call[k] = "begin"
    /\ NotForUs(k) \/ fallback
    /\ IF NotForUs(k) THEN UNCHANGED polled ELSE Poll({k})
    /\ CallOver(k)
    /\ UNCHANGED <<socketVars, events, alarms, monitoring, fallback, stopVars,
                   syncVars>>

\* _ensure_websocket_connection: connected, or the approval key is asked for.
CallBegins(k) ==
    /\ call[k] = "begin"
    /\ ~ NotForUs(k) /\ ~fallback
    /\ IF IsConnected
         THEN Subscribe(k) /\ Goto(k, "settling")
         ELSE UNCHANGED socketVars /\ Goto(k, "asking")
    /\ UNCHANGED <<tries, events>> /\ Elsewhere

\* An attempt to connect.
CallConnects(k) ==
    /\ call[k] = "asking"
    /\ Connect(k)
    /\ tries' = [tries EXCEPT ![k] = @ + 1]
    /\ Goto(k, "waiting")
    /\ UNCHANGED events /\ Elsewhere

\* Without an approval key the attempt ends before it asks for anything.
CallHasNoKey(k) ==
    /\ call[k] = "asking"
    /\ Event
    /\ IF tries[k] + 1 < Attempts
         THEN UNCHANGED call /\ tries' = [tries EXCEPT ![k] = @ + 1]
         ELSE CallOver(k)
    /\ UNCHANGED socketVars /\ Elsewhere

\* The connection is there: the symbol is subscribed.
CallSubscribes(k) ==
    /\ call[k] = "waiting" /\ k \notin waiting
    /\ Subscribe(k)
    /\ Goto(k, "settling")
    /\ UNCHANGED <<tries, events>> /\ Elsewhere

\* What is waited for may still come: the request is queued or at work.
Underway(kind) ==
    /\ alive # {}
    /\ \/ Plain(kind) \in {queue[i] : i \in DOMAIN queue}
       \/ \E l \in Loop : busy[l] # "idle"

\* The wait of ten seconds ends; a late answer may still come.
CallTimesOut(k) ==
    /\ call[k] = "waiting" /\ k \in waiting
    /\ IF Underway("connect") THEN Event ELSE UNCHANGED events
    /\ waiting' = waiting \ {k}
    /\ IF tries[k] < Attempts THEN Goto(k, "asking") /\ UNCHANGED tries
       ELSE CallOver(k)
    /\ UNCHANGED <<state, socket, open, served, queue, loopVars, recvVars, untidy>>
    /\ Elsewhere

\* A second after the request: the symbol is monitored.
CallEnds(k) ==
    /\ call[k] = "settling"
    /\ monitoring' = monitoring \cup {k}
    /\ CallOver(k)
    /\ UNCHANGED <<socketVars, events, alarms, polled, fallback, stopVars, syncVars>>

CallStep(k) ==
    \/ CallNotNeeded(k) \/ CallBegins(k) \/ CallConnects(k) \/ CallHasNoKey(k)
    \/ CallSubscribes(k) \/ CallTimesOut(k) \/ CallEnds(k)

-----------------------------------------------------------------------------
(* _sync_active_alarms                                                     *)

\* init is over: _initialized.
InitEnds ==
    /\ sync = "starting" /\ call[First] = "none"
    /\ sync' = "idle"
    /\ UNCHANGED <<socketVars, events, aimVars, stopVars, callVars, found, changes>>

SyncBegins ==
    /\ sync = "idle"
    /\ sync' = "reading"
    /\ UNCHANGED <<socketVars, events, aimVars, stopVars, callVars, found, changes>>

\* The active symbols of the shards; a shard that fails counts as one without alarms.
SyncReads(failing) ==
    /\ sync = "reading"
    /\ IF failing = {} THEN UNCHANGED events ELSE Event
    /\ found' = {a[2] : a \in {b \in alarms : b[1] \notin failing}}
    /\ call' = [k \in Caller |->
                  IF k \in found' \ monitoring THEN "begin" ELSE call[k]]
    /\ sync' = "subscribing"
    /\ UNCHANGED <<socketVars, aimVars, stopVars, tries, changes>>

\* The list of shards cannot be read: nothing is done.
SyncGivesUp ==
    /\ sync = "reading"
    /\ Event
    /\ sync' = "idle"
    /\ UNCHANGED <<socketVars, aimVars, stopVars, callVars, found, changes>>

\* Mutant of Kept: the symbols without alarms stay.
KeptAll == monitoring

\* unsubscribe_symbol takes a symbol out of the set and does nothing else.
Kept == monitoring \cap found

\* Its calls have returned: symbols without alarms are taken out.
SyncEnds ==
    /\ sync = "subscribing"
    /\ \A s \in Symbol : call[s] = "none"
    /\ monitoring' = Kept
    /\ sync' = "idle" /\ found' = {}
    /\ UNCHANGED <<socketVars, events, alarms, polled, fallback, stopVars, callVars,
                   changes>>

AlarmChanges(d, s) ==
    /\ changes < MaxChanges
    /\ changes' = changes + 1
    /\ alarms' = IF <<d, s>> \in alarms THEN alarms \ {<<d, s>>}
                                      ELSE alarms \cup {<<d, s>>}
    /\ UNCHANGED <<socketVars, events, monitoring, polled, fallback, stopVars,
                   callVars, sync, found>>

-----------------------------------------------------------------------------
(* The fallback                                                            *)

\* The interceptor of the provider sees the PINGPONG: the fallback is for good, a
\* task will end the connection.
HandlePingpong(l) ==
    /\ Take(l, "pingpong")
    /\ queue' = Tail(queue)
    /\ fallback' = TRUE
    /\ \E x \in Stopper :
        /\ stopper[x] = "none"
        /\ stopper' = [stopper EXCEPT ![x] = "sleeping"]
    /\ BackToQueue(l)
    /\ UNCHANGED <<state, socket, open, served, running, current, busy, recvVars,
                   waiting, untidy, events>>
    /\ UNCHANGED <<alarms, monitoring, polled, joins, callVars, syncVars>>

\* disconnect: nothing to do, or the request is posted.
StopperBegins(x) ==
    /\ stopper[x] = "sleeping"
    /\ IF state = "disconnected"
         THEN UNCHANGED queue /\ stopper' = [stopper EXCEPT ![x] = "stopping"]
         ELSE /\ queue' = Append(queue, Plain("close"))
              /\ stopper' = [stopper EXCEPT ![x] = "closing"]
    /\ UNCHANGED <<state, socket, open, served, loopVars, recvVars, waiting, untidy,
                   events, aimVars, joins, callVars, syncVars>>

\* DISCONNECTED, or the wait of five seconds is over; then stop().
StopperStops(x) ==
    /\ stopper[x] = "closing"
    /\ IF state # "disconnected" /\ Underway("close") THEN Event ELSE UNCHANGED events
    /\ stopper' = [stopper EXCEPT ![x] = "stopping"]
    /\ UNCHANGED <<socketVars, aimVars, joins, callVars, syncVars>>

\* stop(): _running off, the receive task cancelled and awaited.
StopperCancels(x) ==
    /\ stopper[x] = "stopping"
    /\ stopper' = [stopper EXCEPT ![x] = "cancelling"]
    /\ running' = FALSE
    /\ CancelLatest
    /\ untidy' = (untidy \/ socket # NoConn)
    /\ UNCHANGED <<state, socket, open, served, queue, alive, current, busy, reads,
                   latest, waiting, events>>
    /\ UNCHANGED <<aimVars, joins, callVars, syncVars>>

\* ... and then the event loop of the moment.
StopperJoins(x) ==
    /\ stopper[x] = "cancelling" /\ CancelledEnded
    /\ stopper' = [stopper EXCEPT ![x] = "joining"]
    /\ joins' = [joins EXCEPT ![x] = current]
    /\ UNCHANGED <<socketVars, events, aimVars, callVars, syncVars>>

\* That one has ended: after init, every monitored symbol is polled.
StopperEnds(x) ==
    /\ stopper[x] = "joining" /\ joins[x] \notin alive
    /\ IF sync = "starting" THEN UNCHANGED polled ELSE Poll(monitoring)
    /\ stopper' = [stopper EXCEPT ![x] = "none"]
    /\ joins' = [joins EXCEPT ![x] = Other(Loop, {})]
    /\ UNCHANGED <<socketVars, events, alarms, monitoring, fallback, callVars,
                   syncVars>>

StopperStep(x) ==
    \/ StopperBegins(x) \/ StopperStops(x) \/ StopperCancels(x) \/ StopperJoins(x)
    \/ StopperEnds(x)

\* Mutant of HealthMonitor: it polls only when nothing is polled yet.
HealthMonitorOnce ==
    /\ fallback /\ sync # "starting" /\ polled = {}
    /\ Poll(monitoring)
    /\ UNCHANGED <<socketVars, events, alarms, monitoring, fallback, stopVars,
                   callVars, syncVars>>

\* The health monitor, once a minute after init.
HealthMonitor ==
    /\ fallback /\ sync # "starting"
    /\ Poll(monitoring)
    /\ UNCHANGED <<socketVars, events, alarms, monitoring, fallback, stopVars,
                   callVars, syncVars>>

-----------------------------------------------------------------------------
SignalNext ==
    \/ SocketStep /\ UNCHANGED signalVars
    \/ \E r \in Conn : RecvPingpong(r) /\ UNCHANGED signalVars
    \/ \E l \in Loop : HandlePingpong(l)
    \/ \E k \in Caller : CallStep(k)
    \/ InitEnds \/ SyncBegins \/ SyncGivesUp \/ SyncEnds
    \/ \E failing \in SUBSET Shard : SyncReads(failing)
    \/ \E d \in Shard, s \in Symbol : AlarmChanges(d, s)
    \/ \E x \in Stopper : StopperStep(x)
    \/ HealthMonitor

SignalSpec == SignalInit /\ [][SignalNext]_marketVars

\* The asyncio loop resumes what can go on; the scheduler starts the synchronisation
\* again and again, the health monitor looks every minute.
SignalFairness ==
    /\ \A l \in Loop :
        WF_marketVars((LoopStep(l) /\ UNCHANGED signalVars) \/ HandlePingpong(l))
    /\ \A r \in Conn : WF_marketVars((RecvStart(r) \/ RecvEnds(r)) /\ UNCHANGED signalVars)
    /\ \A k \in Caller : WF_marketVars(CallStep(k))
    /\ WF_marketVars(InitEnds \/ SyncBegins \/ SyncReads({}) \/ SyncEnds)
    /\ \A x \in Stopper : WF_marketVars(StopperStep(x))
    /\ WF_marketVars(HealthMonitor)

FairSignalSpec == SignalSpec /\ SignalFairness

-----------------------------------------------------------------------------
(* Properties                                                              *)

\* No connection stays open besides the current one, as long as none was made before
\* the last one was gone with its receive task and the notice of its loss, and no such
\* notice was handled while another event loop was closing the connection
\* (iocp_websocket.py:380-424, 568-629, 631-674).
OneConnection == ~untidy => open \subseteq {socket}

\* A US stock that has alarms from some time on is monitored or polled again and again,
\* and a symbol that has none is monitored no more, whatever has failed or changed before
\* (_sync_active_alarms, signal_monitoring_service.py:196-259).  An alarm for any other
\* symbol is never followed (336-338).
AlarmsAreFollowed ==
    /\ \A s \in UsStock : <>[](s \in Symbols) => <>[](s \in monitoring \cup polled)
    /\ \A s \in Symbol : <>[](s \notin Symbols) => <>[](s \notin monitoring)

\* Once the fallback has begun, every symbol that is monitored gets a polling task,
\* also one whose subscription was under way
\* (korea_investment_websocket_iocp.py:370-385, signal_monitoring_service.py:150-172).
FallbackIsPolled ==
    \A s \in UsStock :
        (fallback /\ s \in monitoring) ~> (s \in polled \/ s \notin monitoring)
=============================================================================
