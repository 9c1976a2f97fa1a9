------------------------------- MODULE Lifecycle -------------------------------
(***************************************************************************)
(* One backend process from its start to its exit: the startup order of    *)
(* cmd/server/main.go, the listener and the graceful shutdown of           *)
(* internal/server/server.go, the shared PostgreSQL pool and Redis client, *)
(* and the requests that use them.  Three kinds of goroutine interleave:   *)
(* main, the one inside Serve that accepts, and one handler per request.   *)
(***************************************************************************)
EXTENDS Naturals

CONSTANTS
    Conns,       \* client connections
    MaxSignals   \* SIGINTs and SIGTERMs sent in a behaviour: a bound

ASSUME LifecycleAssumption == MaxSignals \in Nat

VARIABLES
    stage,     \* what main does next
    err,       \* run is going to return an error: exit status 1
    signals,   \* signals delivered; the context is cancelled by the first
    pool,      \* the PostgreSQL pool
    redis,     \* the Redis client
    closing,   \* http.Server is shutting down or closed
    listener,  \* the TCP listener
    acceptor,  \* the goroutine in http.Server.Serve
    result,    \* the channel serveResult: "empty", "nil" or "error"
    phase,     \* phase[c]: what connection c is doing
    cut,       \* connections the server closed under a running request
    starved    \* history: requests that met a closed pool or client

main   == <<stage, err>>
stores == <<pool, redis>>
http   == <<closing, listener, acceptor, result>>
vars   == <<main, signals, stores, http, phase, cut, starved>>

cancelled == signals > 0

Busy(c)  == phase[c] \in {"running", "query"}
Ended    == {"exited", "killed"}

Init ==
    /\ stage = "config" /\ err = FALSE
    /\ signals = 0
    /\ pool = "none" /\ redis = "none"
    /\ closing = FALSE /\ listener = "none" /\ acceptor = "none" /\ result = "empty"
    /\ phase = [c \in Conns |-> "none"]
    /\ cut = {} /\ starved = {}

-------------------------------------------------------------------------------
(* run: the startup order, and its defers. *)

(* run returns: the deferred calls close Redis, then the pool. *)
Unwind(p, r) ==
    stage' = IF r = "open" THEN "close_redis" ELSE IF p = "open" THEN "close_pool" ELSE "exited"

Fail(p, r) == Unwind(p, r) /\ err' = TRUE

(* LoadDotEnv and config.Load. *)
LoadConfig ==
    /\ stage = "config"
    /\ \/ stage' = "postgres" /\ UNCHANGED err
       \/ Fail(pool, redis)
    /\ UNCHANGED <<signals, stores, http, phase, cut, starved>>

(* db.Connect: pings until the database answers, the timeout passes or the *)
(* context is cancelled; a pool that is not returned is closed.            *)
ConnectPostgres ==
    /\ stage = "postgres"
    /\ \/ /\ ~cancelled /\ pool' = "open"
          /\ stage' = "migrate" /\ UNCHANGED err
       \/ /\ pool' \in {"none", "closed"} /\ Fail("none", redis)
    /\ UNCHANGED <<signals, redis, http, phase, cut, starved>>

(* db.Migrate, then VerifyEmbeddingDimensions: both use the context. *)
UseDatabase(at, next) ==
    /\ stage = at
    /\ \/ ~cancelled /\ stage' = next /\ UNCHANGED err
       \/ Fail(pool, redis)
    /\ UNCHANGED <<signals, stores, http, phase, cut, starved>>

RunMigrations   == UseDatabase("migrate", "verify")
VerifyEmbedding == UseDatabase("verify", "redis")

(* queue.Connect, the same loop. *)
ConnectRedis ==
    /\ stage = "redis"
    /\ \/ /\ ~cancelled /\ redis' = "open"
          /\ stage' = "wire" /\ UNCHANGED err
       \/ /\ redis' \in {"none", "closed"} /\ Fail(pool, "none")
    /\ UNCHANGED <<signals, pool, http, phase, cut, starved>>

(* NewHasher, NewTokens, NewRouter: nothing here looks at the context. *)
Wire ==
    /\ stage = "wire"
    /\ \/ stage' = "listen" /\ UNCHANGED err
       \/ Fail(pool, redis)
    /\ UNCHANGED <<signals, stores, http, phase, cut, starved>>

(* Server.Run: bind the port, start the accepting goroutine. *)
Listen ==
    /\ stage = "listen"
    /\ \/ /\ listener' = "open" /\ acceptor' = "starting"
          /\ stage' = "serve" /\ UNCHANGED err
       \/ Fail(pool, redis) /\ UNCHANGED <<listener, acceptor>>
    /\ UNCHANGED <<signals, stores, closing, result, phase, cut, starved>>

-------------------------------------------------------------------------------
(* The accepting goroutine: http.Server.Serve. *)

(* It starts whenever it is scheduled, perhaps after Shutdown. *)
AcceptorStarts ==
    /\ acceptor = "starting" /\ ~closing
    /\ acceptor' = "accepting"
    /\ UNCHANGED <<main, signals, stores, closing, listener, result, phase, cut, starved>>

(* Serve closes the listener as it returns; ErrServerClosed becomes nil. *)
AcceptorStops ==
    /\ acceptor \in {"starting", "accepting"} /\ closing
    /\ acceptor' = "stopped" /\ result' = "nil" /\ listener' = "closed"
    /\ UNCHANGED <<main, signals, stores, closing, phase, cut, starved>>

(* Accept fails for good. *)
AcceptFails ==
    /\ acceptor = "accepting" /\ ~closing
    /\ acceptor' = "failed" /\ result' = "error" /\ listener' = "closed"
    /\ UNCHANGED <<main, signals, stores, closing, phase, cut, starved>>

-------------------------------------------------------------------------------
(* Server.Serve: select, and shutdown. *)

(* Both channels may be ready; select takes either. *)
ServeReturned ==
    /\ stage = "serve" /\ result # "empty"
    /\ result' = "empty"
    /\ err' = (result = "error")
    /\ Unwind(pool, redis)
    /\ UNCHANGED <<signals, stores, closing, listener, acceptor, phase, cut, starved>>

(* Shutdown closes the listeners Serve has registered so far. *)
BeginShutdown ==
    /\ stage = "serve" /\ cancelled
    /\ stage' = "drain"
    /\ closing' = TRUE
    /\ listener' = IF acceptor = "starting" THEN listener ELSE "closed"
    /\ UNCHANGED <<err, signals, stores, acceptor, result, phase, cut, starved>>

(* The connections once those in S are closed: a request that is running   *)
(* keeps its goroutine.                                                    *)
Closed(S) == [c \in Conns |-> IF c \in S /\ ~Busy(c) THEN "closed" ELSE phase[c]]

(* Mutant: Shutdown returns as soon as the listener is closed. *)
DrainedAtOnce ==
    /\ stage = "drain"
    /\ stage' = "await"
    /\ phase' = Closed(Conns)
    /\ UNCHANGED <<err, signals, stores, http, cut, starved>>

(* Shutdown returns nil: no request is running, idle connections closed. *)
Drained ==
    /\ stage = "drain"
    /\ \A c \in Conns : ~Busy(c)
    /\ stage' = "await"
    /\ phase' = Closed(Conns)
    /\ UNCHANGED <<err, signals, stores, http, cut, starved>>

(* Mutant: shutdown waits without a deadline. *)
GraceExpiresNever == FALSE /\ UNCHANGED vars

(* Shutdown returns context.DeadlineExceeded. *)
GraceExpires ==
    /\ stage = "drain"
    /\ stage' = "force"
    /\ UNCHANGED <<err, signals, stores, http, phase, cut, starved>>

(* Mutant: the connections are left open when the grace period is over. *)
ForceCloseSkipped ==
    /\ stage = "force"
    /\ stage' = "await" /\ err' = TRUE
    /\ UNCHANGED <<signals, stores, http, phase, cut, starved>>

(* http.Server.Close: also cancels the contexts of running requests. *)
ForceClose ==
    /\ stage = "force"
    /\ stage' = "await" /\ err' = TRUE
    /\ cut' = cut \cup {c \in Conns : Busy(c)}
    /\ phase' = Closed(Conns)
    /\ UNCHANGED <<signals, stores, http, starved>>

(* Mutant: what Serve returned is received and dropped. *)
AwaitIgnored ==
    /\ stage = "await" /\ result # "empty"
    /\ result' = "empty"
    /\ Unwind(pool, redis)
    /\ UNCHANGED <<err, signals, stores, closing, listener, acceptor, phase, cut, starved>>

(* <-serveResult *)
Await ==
    /\ stage = "await" /\ result # "empty"
    /\ result' = "empty"
    /\ err' = (err \/ result = "error")
    /\ Unwind(pool, redis)
    /\ UNCHANGED <<signals, stores, closing, listener, acceptor, phase, cut, starved>>

-------------------------------------------------------------------------------
(* The defers, and the end of the process. *)

CloseRedis ==
    /\ stage = "close_redis"
    /\ redis' = "closed"
    /\ stage' = "close_pool"
    /\ UNCHANGED <<err, signals, pool, http, phase, cut, starved>>

(* Every connection ends with the process. *)
Exit(how) ==
    /\ stage' = how
    /\ cut' = cut \cup {c \in Conns : Busy(c)}
    /\ phase' = [c \in Conns |-> IF phase[c] = "none" THEN "none" ELSE "closed"]

(* pool.Close refuses new work at once and returns when every connection   *)
(* was given back.                                                         *)
ClosePool ==
    /\ stage = "close_pool"
    /\ \/ /\ pool = "open" /\ pool' = "closing"
          /\ UNCHANGED <<stage, phase, cut>>
       \/ /\ pool = "closing"
          /\ \A c \in Conns : phase[c] # "query"
          /\ pool' = "closed"
          /\ Exit("exited")
    /\ UNCHANGED <<err, signals, redis, http, starved>>

-------------------------------------------------------------------------------
(* Requests. *)

(* A connection is accepted, or one in use carries another request. *)
Connect(c) ==
    /\ acceptor = "accepting" /\ listener = "open"
    /\ phase[c] = "none"
    /\ phase' = [phase EXCEPT ![c] = "idle"]
    /\ UNCHANGED <<main, signals, stores, http, cut, starved>>

Arrive(c) ==
    /\ phase[c] = "idle"
    /\ phase' = [phase EXCEPT ![c] = "running"]
    /\ UNCHANGED <<main, signals, stores, http, cut, starved>>

(* The handler takes a connection from the pool for a query. *)
Acquire(c) ==
    /\ phase[c] = "running" /\ c \notin cut /\ pool = "open"
    /\ phase' = [phase EXCEPT ![c] = "query"]
    /\ UNCHANGED <<main, signals, stores, http, cut, starved>>

Release(c) ==
    /\ phase[c] = "query"
    /\ phase' = [phase EXCEPT ![c] = "running"]
    /\ UNCHANGED <<main, signals, stores, http, cut, starved>>

(* The handler meets a store that is closed; a 500 is all it can answer. *)
Starve(c) ==
    /\ phase[c] = "running" /\ c \notin cut
    /\ pool # "open" \/ redis # "open"
    /\ starved' = starved \cup {c}
    /\ UNCHANGED <<main, signals, stores, http, phase, cut>>

(* The handler returns; the connection is kept unless the server closes. *)
Answer(c) ==
    /\ phase[c] = "running"
    /\ phase' = [phase EXCEPT ![c] = IF closing \/ c \in cut THEN "closed" ELSE "idle"]
    /\ UNCHANGED <<main, signals, stores, http, cut, starved>>

-------------------------------------------------------------------------------
(* SIGINT or SIGTERM.  signal.NotifyContext keeps the handler it installed *)
(* until stop is called, which main defers: the first signal cancels the   *)
(* context, later ones do nothing.                                         *)
Signal ==
    /\ stage \notin Ended
    /\ signals < MaxSignals
    /\ signals' = signals + 1
    /\ UNCHANGED <<main, stores, http, phase, cut, starved>>

Kill ==
    /\ stage \notin Ended
    /\ Exit("killed")
    /\ UNCHANGED <<err, signals, stores, http, starved>>

-------------------------------------------------------------------------------
Startup ==
    \/ LoadConfig \/ ConnectPostgres \/ RunMigrations \/ VerifyEmbedding
    \/ ConnectRedis \/ Wire \/ Listen

Main ==
    \/ Startup
    \/ ServeReturned \/ BeginShutdown
    \/ Drained \/ GraceExpires \/ ForceClose \/ Await
    \/ CloseRedis \/ ClosePool

Acceptor == AcceptorStarts \/ AcceptorStops

Handler(c) ==
    /\ stage \notin Ended
    /\ Connect(c) \/ Arrive(c) \/ Acquire(c) \/ Release(c) \/ Starve(c) \/ Answer(c)

Next ==
    \/ Main \/ Acceptor \/ AcceptFails
    \/ \E c \in Conns : Handler(c)
    \/ Signal \/ Kill

Spec == Init /\ [][Next]_vars

(* Main and the accepting goroutine run.  A handler is only known to       *)
(* return once its context is cancelled: a query has no deadline of its    *)
(* own.                                                                    *)
Fairness ==
    /\ WF_vars(Main) /\ WF_vars(Acceptor)
    /\ \A c \in Conns : WF_vars(c \in cut /\ (Release(c) \/ Answer(c)))

FairSpec == Spec /\ Fairness

-------------------------------------------------------------------------------
(* Invariants. *)

TypeOK ==
    /\ stage \in {"config", "postgres", "migrate", "verify", "redis", "wire", "listen",
                  "serve", "drain", "force", "await", "close_redis", "close_pool"} \cup Ended
    /\ err \in BOOLEAN
    /\ signals \in 0..MaxSignals
    /\ pool \in {"none", "open", "closing", "closed"}
    /\ redis \in {"none", "open", "closed"}
    /\ closing \in BOOLEAN
    /\ listener \in {"none", "open", "closed"}
    /\ acceptor \in {"none", "starting", "accepting", "stopped", "failed"}
    /\ result \in {"empty", "nil", "error"}
    /\ phase \in [Conns -> {"none", "idle", "running", "query", "closed"}]
    /\ cut \subseteq Conns /\ starved \subseteq Conns

Starting == {"config", "postgres", "migrate", "verify", "redis", "wire", "listen"}
Draining == {"drain", "force", "await"}
Leaving  == {"close_redis", "close_pool", "exited"}

(* Main serves only with both stores open, closes them in order, and has   *)
(* neither left when it exits.                                             *)
StoresHeld ==
    /\ stage \in {"config", "postgres"} => pool = "none"
    /\ stage \in {"config", "postgres", "migrate", "verify", "redis"} => redis = "none"
    /\ stage \in {"migrate", "verify", "redis", "close_redis"} => pool = "open"
    /\ stage \in {"wire", "listen", "serve"} \cup Draining => pool = "open" /\ redis = "open"
    /\ stage = "close_redis" => redis = "open"
    /\ stage = "close_pool" => pool \in {"open", "closing"} /\ redis # "open"
    /\ stage = "exited" => pool \in {"none", "closed"} /\ redis # "open"

(* What the accepting goroutine has sent is in the channel until main      *)
(* takes it, and main takes it once, on the way out.                       *)
ResultOnce ==
    /\ stage \in Starting => acceptor = "none"
    /\ acceptor \in {"none", "starting", "accepting"} => result = "empty"
    /\ acceptor = "stopped" => closing /\ result # "error"
    /\ acceptor = "failed" => result # "nil"
    /\ stage \in {"serve"} \cup Draining =>
          /\ acceptor # "none"
          /\ acceptor \in {"stopped", "failed"} => result # "empty"
    /\ stage \in Draining => closing
    /\ stage \in Starting \cup {"serve"} => ~closing
    /\ acceptor \in {"stopped", "failed"} => listener = "closed"
    /\ closing /\ acceptor = "accepting" => listener = "closed"
    /\ stage \in Leaving => acceptor \in {"none", "stopped", "failed"}
    /\ acceptor = "none" => listener = "none" /\ \A c \in Conns : phase[c] = "none"

(* A request that is running when main leaves was cut off, or the listener *)
(* had failed, and main knows of either.                                   *)
LeftBehind ==
    /\ stage \in Starting \cup {"serve", "drain", "force"} => cut = {}
    /\ stage \in Draining /\ cut # {} => err
    /\ \A c \in cut : phase[c] \notin {"none", "idle"}
    /\ stage = "await" => \A c \in Conns : Busy(c) => c \in cut
    /\ stage = "await" => \A c \in Conns : phase[c] # "idle"
    /\ stage \in Leaving /\ ~err =>
          cut = {} /\ acceptor # "failed" /\ \A c \in Conns : phase[c] \in {"none", "closed"}
    /\ stage \in Leaving /\ acceptor # "failed" =>
          \A c \in Conns : phase[c] \in {"none", "closed"} \/ c \in cut
    /\ stage \in Leaving /\ acceptor \notin {"none", "failed"} => closing

(* Stated with the properties below. *)
StoresOutliveRequests == acceptor # "failed" => starved = {}

IndInv == TypeOK /\ StoresHeld /\ ResultOnce /\ LeftBehind /\ StoresOutliveRequests

-------------------------------------------------------------------------------
(* Safety. *)

(* A process that exits with status 0 answered every request it began:     *)
(* "stopping it without dropping requests that are already in flight".     *)
CleanExitDropsNothing == stage = "exited" /\ ~err => cut = {} /\ starved = {}

(* A listener that failed is an error of the process, also when a signal   *)
(* came at the same moment and select preferred it.                        *)
ListenerFailureReported == stage = "exited" /\ acceptor = "failed" => err

(* Whatever step of the startup failed, or however serving ended, run      *)
(* leaves no pool, client or listener open behind.                         *)
NothingLeftOpen ==
    stage = "exited" =>
        pool \in {"none", "closed"} /\ redis # "open" /\ listener # "open"

(* "A second signal ... kills the process outright, so a hung shutdown     *)
(* never traps an operator."                                               *)
SecondSignalKills == [][signals = 1 /\ signals' = 2 => stage' = "killed"]_vars

-------------------------------------------------------------------------------
(* Liveness. *)

(* A process told to stop stops: a startup gives up, running requests get  *)
(* the grace period and no more.  Not after a failed listener: then nobody *)
(* closes the connections, and pool.Close waits for the queries.           *)
StopEnds == cancelled ~> (stage \in Ended \/ acceptor = "failed")
===============================================================================
