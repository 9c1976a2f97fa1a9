--------------------------------- MODULE Boot ---------------------------------
(***************************************************************************)
(* The startup of Lifecycle in detail: cmd/server/main.go up to the        *)
(* listener, with what config.Load makes of the environment, the loops in  *)
(* which internal/db/postgres.go and internal/queue/redis.go wait for      *)
(* their store, and the constructors that check the settings again.  The   *)
(* rest of the process is Lifecycle's.                                     *)
(***************************************************************************)
EXTENDS Lifecycle, Configuration

CONSTANTS
    Machines,      \* the environments and search paths a process may start with
    SchemaWidth,   \* the width of incidents.embedding: vector(1536)
    ConnectTicks,  \* the connect timeout, in ticks
    RetryTicks,    \* readyRetryInterval, in ticks
    Corrections,   \* environments an operator may take values from
    Forgotten      \* what nothing reads any more

(* What is read as a number or a duration is one, or unreadable; a key is  *)
(* known by its length.                                                    *)
Typed(e) ==
    /\ \A v \in Integral \cup Durations : e[v] \in Int \cup {Absent, Blank, Garbled}
    /\ e["JWT_SECRET"] \in Nat \cup {Absent, Blank}

ASSUME BootAssumption ==
    /\ ConnectTicks \in Nat \ {0} /\ RetryTicks \in Nat \ {0}
    /\ \A m \in Machines :
          Typed(m.env) /\ \A i \in DOMAIN m.path : i \in Nat \ {0} /\ Typed(m.path[i].vars)

(* What a process on machine m may read: its environment, completed by one *)
(* of the files.                                                           *)
Readable(m) == {m.env} \cup {Merge(m.env, m.path[i].vars) : i \in DOMAIN m.path}

(* Values that go with whatever e holds elsewhere: the widest pool, the    *)
(* shortest access token, and a key and models should e need them.         *)
Cures(fix, e) ==
    LET d == Settings(fix) IN
    /\ d["DATABASE_MAX_CONNS"] = maxDatabaseConns /\ d["DATABASE_MIN_CONNS"] = 0
    /\ d["ACCESS_TOKEN_TTL"] = 1
    /\ d["REFRESH_TOKEN_TTL"] > Settings(e)["ACCESS_TOKEN_TTL"]
    /\ d["AI_PROVIDER"] = "mock" /\ \A v \in Models \cup {"OPENAI_API_KEY"} : ~Unset(fix, v)

ASSUME CorrectionsAssumption ==
    /\ \A fix \in Corrections : Typed(fix) /\ Problems(fix) = {}
    /\ \A m \in Machines : \A e \in Readable(m) : \E fix \in Corrections : Cures(fix, e)

VARIABLES
    environ,   \* the process environment
    path,      \* the .env files from the working directory upwards
    settings,  \* the Config that Load returned
    reported,  \* the variables named by the error Load returned
    waiting,   \* waitForReady: "no", "ping" or "pause"
    waited,    \* ticks since the wait began
    paused,    \* ticks since the last ping failed
    up,        \* for how many ticks the store has been answering, 0: not now
    hung       \* a ping of this wait took time to answer

input    == <<environ, path>>
wait     == <<waiting, waited, paused, up, hung>>
bootVars == <<input, settings, reported, wait>>
allVars  == <<vars, bootVars>>

BootInit ==
    /\ Init
    /\ \E m \in Machines : environ = m.env /\ path = m.path
    /\ settings = Forgotten /\ reported = {}
    /\ waiting = "no" /\ waited = 0 /\ paused = 0 /\ up = 0 /\ hung = FALSE

-------------------------------------------------------------------------------
(* LoadDotEnv puts the variables of the nearest .env file into the         *)
(* environment.                                                            *)
Environment ==
    IF findDotEnv(path) = 0 THEN environ ELSE Merge(environ, path[findDotEnv(path)].vars)

(* LoadDotEnv, then Load: "nothing reads the environment after Load        *)
(* returns".                                                               *)
LoadSettings ==
    /\ stage = "config"
    /\ \/ /\ DotEnvFails(path)
          /\ Fail(pool, redis) /\ UNCHANGED <<input, settings, reported>>
       \/ /\ ~DotEnvFails(path) /\ Problems(Environment) # {}
          /\ Fail(pool, redis)
          /\ environ' = Environment /\ reported' = Problems(Environment)
          /\ UNCHANGED <<path, settings>>
       \/ /\ ~DotEnvFails(path) /\ Problems(Environment) = {}
          /\ stage' = "postgres" /\ UNCHANGED err
          /\ settings' = Settings(Environment)
          /\ environ' = Forgotten /\ path' = Forgotten
          /\ UNCHANGED reported
    /\ UNCHANGED <<signals, stores, http, phase, cut, starved, wait>>

-------------------------------------------------------------------------------
(* waitForReady, for both stores: ping until the store answers, the        *)
(* timeout passes or the context is cancelled.                             *)

WaitOver == waiting' = "no" /\ waited' = 0 /\ paused' = 0 /\ up' = 0 /\ hung' = FALSE

BeginWait ==
    /\ waiting = "no" /\ waiting' = "ping"
    /\ up' \in {0, RetryTicks + 2}
    /\ UNCHANGED <<vars, input, settings, reported, waited, paused, hung>>

(* poolConfig: the URL may be more than url.Parse makes of it. *)
DialPostgres ==
    /\ stage = "postgres" /\ waiting = "no"
    /\ \/ poolConfigAccepts(settings) /\ BeginWait
       \/ /\ pool' = "none" /\ Fail("none", redis)
          /\ UNCHANGED <<signals, redis, http, phase, cut, starved, bootVars>>

(* redis.ParseURL *)
DialRedis ==
    /\ stage = "redis" /\ waiting = "no"
    /\ \/ BeginWait
       \/ /\ redis' = "none" /\ Fail(pool, "none")
          /\ UNCHANGED <<signals, pool, http, phase, cut, starved, bootVars>>

PingAnswered ==
    /\ waiting = "ping" /\ up > 0 /\ ~cancelled
    /\ \/ stage = "postgres" /\ stage' = "migrate" /\ pool' = "open" /\ UNCHANGED redis
       \/ stage = "redis" /\ stage' = "wire" /\ redis' = "open" /\ UNCHANGED pool
    /\ WaitOver
    /\ UNCHANGED <<err, signals, http, phase, cut, starved, input, settings, reported>>

PingFailed ==
    /\ stage \in {"postgres", "redis"}
    /\ waiting = "ping" /\ up = 0
    /\ waiting' = "pause"
    /\ UNCHANGED <<vars, input, settings, reported, waited, paused, up, hung>>

(* Mutant: the loop pauses again without a ping. *)
PauseEndsUntried ==
    /\ stage \in {"postgres", "redis"}
    /\ waiting = "pause" /\ paused = RetryTicks
    /\ paused' = 0
    /\ UNCHANGED <<vars, input, settings, reported, waiting, waited, up, hung>>

PauseEnds ==
    /\ stage \in {"postgres", "redis"}
    /\ waiting = "pause" /\ paused = RetryTicks
    /\ waiting' = "ping" /\ paused' = 0
    /\ UNCHANGED <<vars, input, settings, reported, waited, up, hung>>

(* Mutant: a store that never became ready is left for the caller to       *)
(* close, who was given none.                                              *)
GiveUpLeaky ==
    /\ waiting # "no"
    /\ waited = ConnectTicks \/ cancelled
    /\ \/ stage = "postgres" /\ pool' = "open" /\ Fail("none", redis) /\ UNCHANGED redis
       \/ stage = "redis" /\ redis' = "open" /\ Fail(pool, "none") /\ UNCHANGED pool
    /\ WaitOver
    /\ UNCHANGED <<signals, http, phase, cut, starved, input, settings, reported>>

(* The deadline or a signal ends a ping that is on its way as well as a    *)
(* pause.                                                                  *)
GiveUp ==
    /\ waiting # "no"
    /\ waited = ConnectTicks \/ cancelled
    /\ \/ stage = "postgres" /\ pool' = "closed" /\ Fail("none", redis) /\ UNCHANGED redis
       \/ stage = "redis" /\ redis' = "closed" /\ Fail(pool, "none") /\ UNCHANGED pool
    /\ WaitOver
    /\ UNCHANGED <<signals, http, phase, cut, starved, input, settings, reported>>

Tick ==
    /\ stage \in {"postgres", "redis"}
    /\ waiting # "no" /\ waited < ConnectTicks
    /\ waited' = waited + 1
    /\ \/ waiting = "ping" /\ hung' = TRUE /\ UNCHANGED paused
       \/ waiting = "pause" /\ paused < RetryTicks /\ paused' = paused + 1 /\ UNCHANGED hung
    /\ up' = IF up \in {0, RetryTicks + 2} THEN up ELSE up + 1
    /\ UNCHANGED <<vars, input, settings, reported, waiting>>

(* The store comes up, or goes away again. *)
StoreTurns ==
    /\ stage \in {"postgres", "redis"} /\ waiting # "no"
    /\ up' = IF up = 0 THEN 1 ELSE 0
    /\ UNCHANGED <<vars, input, settings, reported, waiting, waited, paused, hung>>

-------------------------------------------------------------------------------
(* VerifyEmbeddingDimensions: the query may fail, the widths may differ.   *)
CompareWidths ==
    /\ stage = "verify"
    /\ \/ /\ ~cancelled /\ settings["EMBEDDING_DIMENSIONS"] = SchemaWidth
          /\ stage' = "redis" /\ UNCHANGED err
       \/ Fail(pool, redis)
    /\ UNCHANGED <<signals, stores, http, phase, cut, starved, bootVars>>

(* NewHasher, NewTokens, NewRouter. *)
Construct ==
    /\ stage = "wire"
    /\ \/ /\ NewHasherAccepts(settings) /\ NewTokensAccepts(settings)
          /\ stage' = "listen" /\ UNCHANGED err
          /\ settings' = Forgotten
       \/ /\ ~(NewHasherAccepts(settings) /\ NewTokensAccepts(settings))
          /\ Fail(pool, redis) /\ UNCHANGED settings
    /\ UNCHANGED <<signals, stores, http, phase, cut, starved, input, reported, wait>>

BootMain ==
    \/ LoadSettings \/ DialPostgres \/ DialRedis
    \/ PingAnswered \/ PingFailed \/ PauseEnds \/ GiveUp
    \/ CompareWidths \/ Construct

(* What Lifecycle already tells in full. *)
Elsewhere ==
    /\ \/ RunMigrations \/ Listen
       \/ ServeReturned \/ BeginShutdown \/ Drained \/ GraceExpires \/ ForceClose \/ Await
       \/ CloseRedis \/ ClosePool
    /\ UNCHANGED bootVars

Around ==
    /\ \/ Acceptor \/ AcceptFails \/ Signal \/ Kill
       \/ \E c \in Conns : Handler(c)
    /\ UNCHANGED bootVars

BootNext == BootMain \/ Elsewhere \/ Tick \/ StoreTurns \/ Around

BootSpec == BootInit /\ [][BootNext]_allVars

BootFairness ==
    /\ WF_allVars(BootMain \/ Elsewhere) /\ WF_allVars(Tick)
    /\ WF_allVars(Acceptor /\ UNCHANGED bootVars)
    /\ \A c \in Conns :
          WF_allVars(c \in cut /\ (Release(c) \/ Answer(c)) /\ UNCHANGED bootVars)

FairBootSpec == BootSpec /\ BootFairness

-------------------------------------------------------------------------------
(* The checks that poolConfig, NewHasher and NewTokens repeat refuse       *)
(* nothing that Load accepted: no store is opened for settings that a      *)
(* later step would turn down.                                             *)
LaterChecksAgree ==
    stage \in {"postgres", "migrate", "verify", "redis", "wire"} =>
        poolConfigAccepts(settings) /\ NewHasherAccepts(settings) /\ NewTokensAccepts(settings)

(* An operator who corrects the variables Load named has corrected them    *)
(* all ("so a misconfigured deployment can be fixed in a single pass"),    *)
(* but for two limits that hide behind another: a minimum of the pool that *)
(* is beyond the maximum's ceiling is not named while the maximum is no    *)
(* smaller, and a refresh token of the shortest life there is (one unit of *)
(* the model's durations) is not named, although no access token's life is *)
(* shorter.                                                                *)
Corrected(fix) == [v \in Vars |-> IF v \in reported THEN fix[v] ELSE environ[v]]

MinimumHidden(c) ==
    /\ c["DATABASE_MIN_CONNS"] > maxDatabaseConns
    /\ c["DATABASE_MAX_CONNS"] >= c["DATABASE_MIN_CONNS"]

NoShorterLife(c) == c["REFRESH_TOKEN_TTL"] = 1

OnePassSuffices ==
    reported # {} =>
        (MinimumHidden(Settings(environ)) \/ NoShorterLife(Settings(environ))
            <=> ~\E fix \in Corrections : Problems(Corrected(fix)) = {})

(* A store that has been answering for a whole retry interval when the     *)
(* timeout passes was found, unless a ping hung: "retrying matters ...     *)
(* where the backend can start while PostgreSQL is still booting".         *)
ReadyStoreIsFound ==
    [][GiveUp /\ ~cancelled /\ ~hung => up <= RetryTicks + 1]_allVars
===============================================================================
