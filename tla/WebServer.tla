------------------------------ MODULE WebServer ------------------------------
(***************************************************************************)
(* Start and shutdown of the web servers: lifespan in                      *)
(* application/base_web_server/main.py, with the election of the one       *)
(* server that works with the Korea Investment API, in                     *)
(* service/external/external_service.py and                                *)
(* service/signal/signal_monitoring_service.py.                            *)
(*                                                                         *)
(* A server starts its services in BootOrder and closes them in StopOrder. *)
(* The servers share nothing but Redis, and of it only the key of the      *)
(* master lock matters here.  The lock is the lease lock that              *)
(* DistributedLock implements.  The tests that lifespan makes of a service *)
(* after its start, and their messages, are left out: their failures are   *)
(* logged and change nothing.  So are the flags of ServiceContainer that   *)
(* only repeat which services are up.  The configuration has the section   *)
(* korea_investment.                                                       *)
(***************************************************************************)
EXTENDS Naturals, Sequences

CONSTANTS
    Server,
    Dev,            \* servers whose configured env is not PROD
    Free,           \* nobody holds the master lock
    Cloud,          \* the configured services of AWS: storage, search, email ...
    DbTries,        \* max_db_retries (3)
    RedisTries,     \* max_redis_retries (5)
    MaxStarts,      \* bound: how often each server is started
    MaxFailures,    \* bound: services that fail to start or to close
    MaxFaults       \* bound: Redis commands that fail or whose reply is lost

Mail == {"email", "sms"}
CloudService == {"storage", "search", "vectordb", "rag"} \cup Mail

ASSUME ServerAssumption ==
    /\ Dev \subseteq Server
    /\ Cloud \subseteq CloudService
    /\ Free \notin Server \X Nat
    /\ DbTries \in Nat \ {0} /\ RedisTries \in Nat \ {0}
    /\ MaxStarts \in [Server -> Nat]
    /\ MaxFailures \in Nat /\ MaxFaults \in Nat

BootOrder ==
    <<"database", "redis", "chat", "cloud", "lock", "external", "korea", "scheduler",
      "queue", "notification", "signals", "websocket", "templates">>

StopOrder ==
    <<"chat", "scheduler", "queue", "websocket", "notification", "signals", "mail",
      "lock", "cloud", "external", "cache", "database">>

Service ==
    {"cache", "database", "chat", "lock", "external", "korea", "scheduler", "queue",
     "notification", "signals", "websocket"} \cup CloudService

VARIABLES
    phase,     \* of each server: down, booting, serving, stopping
    start,     \* how often it was started
    at,        \* its place in BootOrder or StopOrder
    tries,     \* attempts of its retry loop
    up,        \* its services that are initialized
    role,      \* none, elected, master, slave
    key,       \* who set korea_investment:master:global, or Free
    ended,     \* holders whose key expired or was flushed
    failures, faults

bounds == <<failures, faults>>
vars == <<phase, start, at, tries, up, role, key, ended, bounds>>

\* A process is a server in one of its starts.
Process == Server \X Nat

TypeOK ==
    /\ phase \in [Server -> {"down", "booting", "serving", "stopping"}]
    /\ start \in [Server -> Nat]
    /\ at \in [Server -> Nat]
    /\ tries \in [Server -> Nat]
    /\ up \in [Server -> SUBSET Service]
    /\ role \in [Server -> {"none", "elected", "master", "slave"}]
    /\ key \in Process \cup {Free}
    /\ ended \subseteq Process
    /\ failures \in 0..MaxFailures /\ faults \in 0..MaxFaults

Init ==
    /\ phase = [s \in Server |-> "down"]
    /\ start = [s \in Server |-> 0]
    /\ at = [s \in Server |-> 1]
    /\ tries = [s \in Server |-> 0]
    /\ up = [s \in Server |-> {}]
    /\ role = [s \in Server |-> "none"]
    /\ key = Free /\ ended = {}
    /\ failures = 0 /\ faults = 0

Me(s) == <<s, start[s]>>

Failure == failures < MaxFailures /\ failures' = failures + 1 /\ UNCHANGED faults
Fault == faults < MaxFaults /\ faults' = faults + 1 /\ UNCHANGED failures

-----------------------------------------------------------------------------
(* Starting                                                                *)

Start(s) ==
    /\ phase[s] = "down"
    /\ start[s] < MaxStarts[s]
    /\ phase' = [phase EXCEPT ![s] = "booting"]
    /\ start' = [start EXCEPT ![s] = @ + 1]
    /\ UNCHANGED <<at, tries, up, role, key, ended, bounds>>

Reached(s, x) == phase[s] = "booting" /\ at[s] \in DOMAIN BootOrder /\ BootOrder[at[s]] = x

\* The next stage, with these services up.
GoOn(s, n, services) ==
    /\ at' = [at EXCEPT ![s] = @ + n]
    /\ tries' = [tries EXCEPT ![s] = 0]
    /\ up' = [up EXCEPT ![s] = services]

\* The process ends.  What it left in Redis stays there.
End(s) ==
    /\ phase' = [phase EXCEPT ![s] = "down"]
    /\ up' = [up EXCEPT ![s] = {}]
    /\ role' = [role EXCEPT ![s] = "none"]
    /\ at' = [at EXCEPT ![s] = 1]
    /\ tries' = [tries EXCEPT ![s] = 0]

\* The key is gone from Redis.
Lapse == key' = Free /\ ended' = IF key = Free THEN ended ELSE ended \cup {key}

\* clear_redis_chat_data clears the whole Redis server, unless env is PROD.
Clear(s) == IF s \in Dev THEN Lapse ELSE UNCHANGED <<key, ended>>

\* A mutant of CountTry: the loop starts over after its last attempt.
StartOver(s) == tries' = [tries EXCEPT ![s] = (@ + 1) % DbTries]

CountTry(s) == tries' = [tries EXCEPT ![s] = @ + 1]

\* An attempt to connect to the cache and the database; it clears Redis each time.
ConnectDatabase(s) ==
    /\ Reached(s, "database")
    /\ tries[s] < DbTries
    /\ Clear(s)
    /\ GoOn(s, 1, {"cache", "database"})
    /\ UNCHANGED <<phase, start, role, bounds>>

ConnectFails(s) ==
    /\ Reached(s, "database")
    /\ tries[s] < DbTries
    /\ Clear(s)
    /\ CountTry(s)
    /\ up' = [up EXCEPT ![s] = {"cache"}]
    /\ UNCHANGED <<phase, start, at, role, bounds>>

\* The health check of Redis.
CheckRedis(s) ==
    /\ Reached(s, "redis")
    /\ tries[s] < RedisTries
    /\ \/ GoOn(s, 1, up[s])
       \/ CountTry(s) /\ UNCHANGED <<at, up>>
    /\ UNCHANGED <<phase, start, role, key, ended, bounds>>

\* The tries are used up, or the templates cannot be initialized: lifespan raises,
\* and the process ends without closing anything.
BootAborts(s) ==
    /\ \/ Reached(s, "database") /\ tries[s] >= DbTries /\ UNCHANGED bounds
       \/ Reached(s, "redis") /\ tries[s] >= RedisTries /\ UNCHANGED bounds
       \/ Reached(s, "templates") /\ Failure
    /\ End(s)
    /\ UNCHANGED <<start, key, ended>>

\* What the start of a service needs of the others.
Ready(s, x) ==
    /\ x = "queue" => "cache" \in up[s]
    /\ x = "signals" /\ role[s] = "master" => "scheduler" \in up[s]

Optional ==
    {"chat", "lock", "scheduler", "queue", "notification", "signals", "websocket"}

StartService(s, x) ==
    /\ Reached(s, x)
    /\ x \in Optional
    /\ Ready(s, x)
    /\ GoOn(s, 1, up[s] \cup {x})
    /\ UNCHANGED <<phase, start, role, key, ended, bounds>>

\* A service that fails is logged, and the server starts without it.
StartFails(s, x) ==
    /\ Reached(s, x)
    /\ x \in Optional
    /\ IF Ready(s, x) THEN Failure ELSE UNCHANGED bounds
    /\ GoOn(s, 1, up[s])
    /\ UNCHANGED <<phase, start, role, key, ended>>

\* The services of AWS are independent, but RAG needs search or a vector database.
\* Nothing else needs them, and they start in one step here.
StartCloud(s) ==
    /\ Reached(s, "cloud")
    /\ \E started \in SUBSET Cloud :
         /\ "rag" \in started => started \cap {"search", "vectordb"} # {}
         /\ IF started = Cloud THEN UNCHANGED bounds ELSE Failure
         /\ GoOn(s, 1, up[s] \cup started)
    /\ UNCHANGED <<phase, start, role, key, ended>>

ServeRequests(s) ==
    /\ Reached(s, "templates")
    /\ phase' = [phase EXCEPT ![s] = "serving"]
    /\ UNCHANGED <<start, at, tries, up, role, key, ended, bounds>>

-----------------------------------------------------------------------------
(* ExternalService.init: the master                                        *)

\* A mutant of MayAcquire: the lock is taken although another server has it.
MayOverwrite(s) == "lock" \in up[s]

MayAcquire(s) == "lock" \in up[s] /\ key = Free

\* The server takes the lock, for 24 hours ...
BecomeMaster(s) ==
    /\ Reached(s, "external")
    /\ MayAcquire(s)
    /\ key' = Me(s)
    /\ role' = [role EXCEPT ![s] = "elected"]
    /\ GoOn(s, 1, up[s])
    /\ UNCHANGED <<phase, start, ended, bounds>>

\* ... or it is a slave, without a lock service or when the lock is taken, and init
\* returns before the service counts as initialized.
BecomeSlave(s) ==
    /\ Reached(s, "external")
    /\ ~ MayAcquire(s)
    /\ role' = [role EXCEPT ![s] = "slave"]
    /\ GoOn(s, 2, up[s])
    /\ UNCHANGED <<phase, start, key, ended, bounds>>

\* The SET NX fails, or it takes effect and its reply is lost: acquire gives up, and
\* the slave may have set the key.
AcquireFails(s) ==
    /\ Reached(s, "external")
    /\ MayAcquire(s)
    /\ Fault
    /\ key' \in {key, Me(s)}
    /\ role' = [role EXCEPT ![s] = "slave"]
    /\ GoOn(s, 2, up[s])
    /\ UNCHANGED <<phase, start, ended>>

\* A client cannot be started: init raises before the election.
ClientsFail(s) ==
    /\ Reached(s, "external")
    /\ Failure
    /\ GoOn(s, 2, up[s])
    /\ UNCHANGED <<phase, start, role, key, ended>>

\* The master connects to the Korea Investment API and registers itself.
StartKorea(s) ==
    /\ Reached(s, "korea")
    /\ role' = [role EXCEPT ![s] = "master"]
    /\ GoOn(s, 1, up[s] \cup {"external", "korea"})
    /\ UNCHANGED <<phase, start, key, ended, bounds>>

\* A mutant of LetGo: the lock is kept.
KeepKey(s) == UNCHANGED key

\* release deletes the key if it has the token of this server.
LetGo(s) == key' = IF key = Me(s) THEN Free ELSE key

\* One of its checks fails, after the service itself was initialized or before: the
\* lock is released, unless that fails too, and init raises.
KoreaFails(s) ==
    /\ Reached(s, "korea")
    /\ failures < MaxFailures /\ failures' = failures + 1
    /\ \/ LetGo(s) /\ UNCHANGED faults
       \/ UNCHANGED key /\ faults < MaxFaults /\ faults' = faults + 1
    /\ role' = [role EXCEPT ![s] = "none"]
    /\ \E services \in {up[s], up[s] \cup {"korea"}} : GoOn(s, 1, services)
    /\ UNCHANGED <<phase, start, ended>>

-----------------------------------------------------------------------------
(* Stopping                                                                *)

Stop(s) ==
    /\ phase[s] = "serving"
    /\ phase' = [phase EXCEPT ![s] = "stopping"]
    /\ at' = [at EXCEPT ![s] = 1]
    /\ UNCHANGED <<start, tries, up, role, key, ended, bounds>>

\* The shutdown of the signal service closes the Korea Investment service too.
Closes(x) ==
    CASE x = "signals" -> {"signals", "korea"}
      [] x = "mail"    -> Mail
      [] x = "cloud"   -> CloudService \ Mail
      [] OTHER         -> {x}

Initialized(s, x) == x \in up[s] \/ (x \in {"mail", "cloud"} /\ Closes(x) \cap up[s] # {})

\* The next service is closed if it is up; when that fails the error is logged.
CloseNext(s) ==
    /\ phase[s] = "stopping"
    /\ at[s] \in DOMAIN StopOrder
    /\ LET closing == IF Initialized(s, StopOrder[at[s]]) THEN Closes(StopOrder[at[s]])
                                                          ELSE {}
       IN  \/ up' = [up EXCEPT ![s] = @ \ closing] /\ UNCHANGED bounds
           \/ closing # {} /\ UNCHANGED up /\ Failure
    /\ at' = [at EXCEPT ![s] = @ + 1]
    /\ UNCHANGED <<phase, start, tries, role, key, ended>>

\* The lock service releases the locks of its manager only, and nobody else uses
\* the token of the master lock: the key stays.
StopDone(s) ==
    /\ phase[s] = "stopping"
    /\ at[s] \notin DOMAIN StopOrder
    /\ End(s)
    /\ UNCHANGED <<start, key, ended, bounds>>

-----------------------------------------------------------------------------
(* The environment                                                         *)

Crash(s) ==
    /\ phase[s] # "down"
    /\ End(s)
    /\ UNCHANGED <<start, key, ended, bounds>>

\* The 24 hours of the master lock, which nobody extends, are over.
KeyExpires ==
    /\ key # Free
    /\ Lapse
    /\ UNCHANGED <<phase, start, at, tries, up, role, bounds>>

-----------------------------------------------------------------------------
BootStep(s) ==
    \/ ConnectDatabase(s) \/ ConnectFails(s) \/ CheckRedis(s) \/ BootAborts(s)
    \/ StartCloud(s)
    \/ \E x \in Optional : StartService(s, x) \/ StartFails(s, x)
    \/ BecomeMaster(s) \/ BecomeSlave(s) \/ AcquireFails(s) \/ ClientsFail(s)
    \/ StartKorea(s) \/ KoreaFails(s)
    \/ ServeRequests(s)

StopStep(s) == CloseNext(s) \/ StopDone(s)

Next ==
    \/ \E s \in Server : Start(s) \/ BootStep(s) \/ Stop(s) \/ StopStep(s) \/ Crash(s)
    \/ KeyExpires

Spec == Init /\ [][Next]_vars

\* The calls that lifespan awaits return or raise.
Fairness == \A s \in Server : WF_vars(BootStep(s)) /\ WF_vars(StopStep(s))

FairSpec == Spec /\ Fairness

-----------------------------------------------------------------------------
(* Properties                                                              *)

\* Two servers are never masters at once, whatever fails in the start of one, as
\* long as the lock of neither ran out after its 24 hours or was flushed by the
\* start of a server that is not PROD (external_service.py:46-54, main.py:107-129).
OneMaster ==
    \A s, t \in Server :
        ({role[s], role[t]} \subseteq {"elected", "master"} /\ {Me(s), Me(t)} \cap ended = {})
            => s = t

\* The election is not wasted: as long as no Redis command fails, a server that
\* serves and holds the master lock is the master and has the Korea Investment
\* service; a master whose start failed has let go of the lock, so that another
\* server can be elected (external_service.py:96-106).
LockIsUsed ==
    faults = 0 =>
        \A s \in Server :
            (phase[s] = "serving" /\ key = Me(s)) => role[s] = "master" /\ "korea" \in up[s]

\* A start ends, in a server that serves or in none, however often the database
\* and Redis refuse; and a shutdown ends, whichever services fail to close
\* (main.py:172-235, 1365-1600).
StartAndStopEnd ==
    \A s \in Server :
        phase[s] \in {"booting", "stopping"} ~> phase[s] \in {"serving", "down"}
=============================================================================
