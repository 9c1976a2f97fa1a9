------------------------------ MODULE BootProofs ------------------------------
(***************************************************************************)
(* Theorems about Boot: it implements the startup that Lifecycle allows,   *)
(* so that every theorem of LifecycleProofs holds of it; the checks that   *)
(* are made twice agree; what Load reports is all that has to be           *)
(* corrected; and a store that is ready is found.                          *)
(***************************************************************************)
EXTENDS Boot, LifecycleProofs

-------------------------------------------------------------------------------
(* Every step of the detailed startup is a step of Lifecycle's, or none.   *)

LEMMA LoadStep == ASSUME LoadSettings PROVE LoadConfig
<1> USE DEF LoadSettings, LoadConfig
<1>1. UNCHANGED <<signals, stores, http, phase, cut, starved>>
  OBVIOUS
<1>2. Fail(pool, redis) \/ (stage' = "postgres" /\ UNCHANGED err)
  OBVIOUS
<1> QED BY <1>1, <1>2

LEMMA DialPostgresStep == ASSUME DialPostgres PROVE ConnectPostgres \/ UNCHANGED vars
BY DEF DialPostgres, BeginWait, ConnectPostgres, stores

LEMMA DialRedisStep == ASSUME DialRedis PROVE ConnectRedis \/ UNCHANGED vars
BY DEF DialRedis, BeginWait, ConnectRedis, stores

LEMMA PingAnsweredStep == ASSUME PingAnswered PROVE ConnectPostgres \/ ConnectRedis
BY DEF PingAnswered, ConnectPostgres, ConnectRedis

LEMMA GiveUpStep == ASSUME GiveUp PROVE ConnectPostgres \/ ConnectRedis
BY DEF GiveUp, ConnectPostgres, ConnectRedis

LEMMA CompareWidthsStep == ASSUME CompareWidths PROVE VerifyEmbedding
BY DEF CompareWidths, VerifyEmbedding, UseDatabase

LEMMA ConstructStep == ASSUME Construct PROVE Wire
BY DEF Construct, Wire

LEMMA StepsAreLifecycle == ASSUME [BootNext]_allVars PROVE [Next]_vars
<1>1. CASE BootMain
  <2>1. CASE LoadSettings
    BY <2>1, LoadStep DEF Next, Main, Startup
  <2>2. CASE DialPostgres
    BY <2>2, DialPostgresStep DEF Next, Main, Startup
  <2>3. CASE DialRedis
    BY <2>3, DialRedisStep DEF Next, Main, Startup
  <2>4. CASE PingAnswered
    BY <2>4, PingAnsweredStep DEF Next, Main, Startup
  <2>5. CASE PingFailed \/ PauseEnds
    BY <2>5 DEF PingFailed, PauseEnds
  <2>6. CASE GiveUp
    BY <2>6, GiveUpStep DEF Next, Main, Startup
  <2>7. CASE CompareWidths
    BY <2>7, CompareWidthsStep DEF Next, Main, Startup
  <2>8. CASE Construct
    BY <2>8, ConstructStep DEF Next, Main, Startup
  <2> QED BY <1>1, <2>1, <2>2, <2>3, <2>4, <2>5, <2>6, <2>7, <2>8 DEF BootMain
<1>2. CASE Elsewhere
  BY <1>2 DEF Elsewhere, Next, Main, Startup
<1>3. CASE Tick \/ StoreTurns
  BY <1>3 DEF Tick, StoreTurns
<1>4. CASE Around
  BY <1>4 DEF Around, Next
<1>5. CASE UNCHANGED allVars
  BY <1>5 DEF allVars
<1> QED BY <1>1, <1>2, <1>3, <1>4, <1>5 DEF BootNext

(* The startup with its configuration, its waits and its repeated checks   *)
(* is one that Lifecycle allows, whatever the environment holds: what      *)
(* LifecycleProofs shows of cmd/server/main.go it shows of this detail.    *)
THEOREM BootImplementsLifecycle == BootSpec => Spec
<1>1. BootInit => Init
  BY DEF BootInit
<1>2. [BootNext]_allVars => [Next]_vars
  BY StepsAreLifecycle
<1> QED BY <1>1, <1>2, PTL DEF BootSpec, Spec

(* What Lifecycle promises of an exit, with this startup.                  *)
THEOREM BootExitsCleanly ==
    BootSpec => [](CleanExitDropsNothing /\ ListenerFailureReported /\ NothingLeftOpen)
BY BootImplementsLifecycle, CleanExit, FailureReported, AllClosed, PTL

-------------------------------------------------------------------------------
(* What Load accepts, the later checks accept. *)

LEMMA DefaultsTyped == \A v \in Integral \cup Durations : Default(v) \in Int
BY DEF Integral, Durations, Default

LEMMA MergeTyped ==
    ASSUME NEW e, NEW f, Typed(e), Typed(f)
    PROVE  Typed(Merge(e, f))
<1>1. "JWT_SECRET" \in Vars /\ Integral \cup Durations \subseteq Vars
  BY DEF Vars, Parsed, Required
<1> QED BY <1>1 DEF Typed, Merge

LEMMA SettingsTyped ==
    ASSUME NEW e, Typed(e), "JWT_SECRET" \notin Missing(e)
    PROVE  /\ \A v \in Integral \cup Durations : Settings(e)[v] \in Int
           /\ Settings(e)["JWT_SECRET"] \in Nat /\ Settings(e)["JWT_SECRET"] # Blank
<1>1. "JWT_SECRET" \in Vars /\ Integral \cup Durations \subseteq Vars
  BY DEF Vars, Parsed, Required
<1>2. ASSUME NEW v \in Integral \cup Durations PROVE Settings(e)[v] \in Int
  <2>1. v \in Parsed
    BY DEF Parsed
  <2>2. Default(v) \in Int
    BY DefaultsTyped
  <2>3. e[v] \in Int \cup {Absent, Blank, Garbled}
    BY DEF Typed
  <2>4. Settings(e)[v] = Read(e, v)
    BY <1>1 DEF Settings
  <2> QED BY <2>1, <2>2, <2>3, <2>4 DEF Read, Unset
<1>3. ~Unset(e, "JWT_SECRET")
  BY DEF Missing, Required
<1>4. "JWT_SECRET" \notin Parsed \cup {"CORS_ORIGINS"}
  BY DEF Parsed, Integral, Durations
<1>5. Settings(e)["JWT_SECRET"] = e["JWT_SECRET"]
  BY <1>1, <1>3, <1>4 DEF Settings, Read
<1> QED BY <1>2, <1>3, <1>5 DEF Typed, Unset

LEMMA AcceptedOnceAndAgain ==
    ASSUME NEW e, Typed(e), Problems(e) = {}
    PROVE  LET c == Settings(e)
           IN  poolConfigAccepts(c) /\ NewHasherAccepts(c) /\ NewTokensAccepts(c)
<1> DEFINE c == Settings(e)
<1>1. Missing(e) = {} /\ validate(c) = {}
  BY DEF Problems
<1>2. /\ \A v \in Integral \cup Durations : c[v] \in Int
      /\ c["JWT_SECRET"] \in Nat /\ c["JWT_SECRET"] # Blank
  BY <1>1, SettingsTyped
<1> HIDE DEF c
<1>3. validateDatabase(c) = {} /\ validateAuth(c) = {}
  <2> DEFINE D == validateDatabase(c)
             A == validateAuth(c)
             R == validateRedis(c)
             I == validateAI(c)
             E == When(c["ENV"] \notin {"development", "test", "production"}, "ENV")
             P == When(c["HTTP_PORT"] \notin 1..65535, "HTTP_PORT")
  <2>1. validate(c) = E \cup P \cup D \cup R \cup A \cup I
    BY DEF validate
  <2> HIDE DEF D, A, R, I, E, P
  <2>2. D = {} /\ A = {}
    BY <1>1, <2>1
  <2> QED BY <2>2 DEF D, A
<1>4. poolConfigAccepts(c)
  <2>1. c["DATABASE_MAX_CONNS"] \in Int /\ c["DATABASE_MIN_CONNS"] \in Int
    BY <1>2 DEF Integral
  <2> QED BY <1>3, <2>1 DEF validateDatabase, When, poolConfigAccepts, maxDatabaseConns, maxPoolSize
<1>5. NewHasherAccepts(c)
  BY <1>3 DEF validateAuth, When, NewHasherAccepts, MinBcryptCost, MaxBcryptCost
<1>6. NewTokensAccepts(c)
  <2>1. c["ACCESS_TOKEN_TTL"] \in Int /\ c["REFRESH_TOKEN_TTL"] \in Int
    BY <1>2 DEF Durations
  <2>2. c["ACCESS_TOKEN_TTL"] > 0 /\ c["REFRESH_TOKEN_TTL"] > 0
    <3> DEFINE N == NotPositive(c, {"ACCESS_TOKEN_TTL", "REFRESH_TOKEN_TTL"})
    <3>1. N \subseteq validateAuth(c)
      BY DEF validateAuth
    <3>2. N = {}
      BY <1>3, <3>1
    <3> QED BY <2>1, <3>2 DEF NotPositive
  <2>3. c["ACCESS_TOKEN_TTL"] < c["REFRESH_TOKEN_TTL"]
    BY <1>3, <2>1, <2>2 DEF validateAuth, When
  <2>4. c["JWT_SECRET"] >= minSecretLength
    BY <1>3, <1>2 DEF validateAuth, When, minJWTSecretLength, minSecretLength
  <2> QED BY <2>2, <2>3, <2>4 DEF NewTokensAccepts
<1> QED BY <1>4, <1>5, <1>6 DEF c

(* Until Load has read it, the environment is the one the process was      *)
(* started with.                                                           *)
Unread ==
    stage = "config" => \E m \in Machines : environ = m.env /\ path = m.path

AgreeInv == Unread /\ LaterChecksAgree

(* The file that decides is one of the search path. *)
LEMMA FoundFile ==
    ASSUME stage = "config", Unread, findDotEnv(path) # 0
    PROVE  findDotEnv(path) \in DOMAIN path
<1> DEFINE D == {i \in DOMAIN path :
                   /\ i <= dotEnvSearchDepth + 1
                   /\ path[i].kind \in {"file", "malformed", "forbidden"}}
<1>1. PICK m \in Machines : environ = m.env /\ path = m.path
  BY DEF Unread
<1>2. D \subseteq 1..6
  BY <1>1, BootAssumption DEF dotEnvSearchDepth
<1>3. D # {} => \E i \in D : \A j \in D : i <= j
  BY <1>2
<1> QED BY <1>3 DEF findDotEnv

LEMMA EnvironmentTyped == ASSUME stage = "config", Unread PROVE Typed(Environment)
<1>1. PICK m \in Machines : environ = m.env /\ path = m.path
  BY DEF Unread
<1>2. Typed(environ) /\ \A i \in DOMAIN path : Typed(path[i].vars)
  BY <1>1, BootAssumption
<1> QED BY <1>2, FoundFile, MergeTyped DEF Environment

LEMMA AgreeInit == ASSUME BootInit PROVE AgreeInv
BY DEF BootInit, Init, AgreeInv, Unread, LaterChecksAgree

LEMMA AgreeStep == ASSUME AgreeInv, [BootNext]_allVars PROVE AgreeInv'
<1> DEFINE Guarded == {"postgres", "migrate", "verify", "redis", "wire"}
<1>1. CASE LoadSettings
  <2>1. stage = "config"
    BY <1>1 DEF LoadSettings
  <2>2. CASE Fail(pool, redis)
    <3>1. stage' \in {"close_redis", "close_pool", "exited"}
      BY <2>2 DEF Fail, Unwind
    <3> QED BY <3>1 DEF AgreeInv, Unread, LaterChecksAgree
  <2>3. CASE ~Fail(pool, redis)
    <3>1. Problems(Environment) = {} /\ settings' = Settings(Environment) /\ stage' = "postgres"
      BY <1>1, <2>3 DEF LoadSettings
    <3>2. Typed(Environment)
      BY <2>1, EnvironmentTyped DEF AgreeInv
    <3>3. LET c == Settings(Environment)
          IN  poolConfigAccepts(c) /\ NewHasherAccepts(c) /\ NewTokensAccepts(c)
      BY <3>1, <3>2, AcceptedOnceAndAgain
    <3>4. (poolConfigAccepts(settings) /\ NewHasherAccepts(settings) /\ NewTokensAccepts(settings))'
      BY <3>1, <3>3 DEF poolConfigAccepts, NewHasherAccepts, NewTokensAccepts
    <3> QED BY <3>1, <3>4 DEF AgreeInv, Unread, LaterChecksAgree
  <2> QED BY <2>2, <2>3
<1>2. CASE /\ UNCHANGED settings
           /\ stage' \in Guarded => stage \in Guarded
           /\ stage' = "config" => stage = "config" /\ UNCHANGED input
  BY <1>2 DEF AgreeInv, Unread, LaterChecksAgree, input, poolConfigAccepts, NewHasherAccepts, NewTokensAccepts
<1>3. CASE Construct
  BY <1>3 DEF Construct, Fail, Unwind, AgreeInv, Unread, LaterChecksAgree
<1>4. CASE DialPostgres \/ DialRedis \/ PingAnswered \/ PingFailed \/ PauseEnds
  BY <1>4, <1>2 DEF DialPostgres, DialRedis, PingAnswered, PingFailed, PauseEnds, BeginWait,
     Fail, Unwind, vars, main, bootVars
<1>5. CASE GiveUp \/ CompareWidths \/ Tick \/ StoreTurns
  BY <1>5, <1>2 DEF GiveUp, CompareWidths, Tick, StoreTurns, Fail, Unwind, vars, main, bootVars
<1>6. CASE Elsewhere
  BY <1>6, <1>2 DEF Elsewhere, bootVars, RunMigrations, UseDatabase, Listen, ServeReturned,
     BeginShutdown, Drained, GraceExpires, ForceClose, Await, CloseRedis, ClosePool, Exit,
     Fail, Unwind
<1>7. CASE Around
  BY <1>7, <1>2 DEF Around, bootVars, Acceptor, AcceptorStarts, AcceptorStops, AcceptFails,
     Signal, Kill, Exit, Handler, Connect, Arrive, Acquire, Release, Starve, Answer, main
<1>8. CASE UNCHANGED allVars
  BY <1>8, <1>2 DEF allVars, vars, main, bootVars
<1> QED BY <1>1, <1>3, <1>4, <1>5, <1>6, <1>7, <1>8 DEF BootNext, BootMain

(* Nothing that Load accepted is refused by poolConfig, NewHasher or       *)
(* NewTokens, for every environment and every .env file there is.          *)
THEOREM LaterChecksAgreeAlways == BootSpec => []LaterChecksAgree
<1>1. BootInit => AgreeInv
  BY AgreeInit
<1>2. AgreeInv /\ [BootNext]_allVars => AgreeInv'
  BY AgreeStep
<1>3. AgreeInv => LaterChecksAgree
  BY DEF AgreeInv
<1> QED BY <1>1, <1>2, <1>3, PTL DEF BootSpec

-------------------------------------------------------------------------------
(* One pass over the variables that Load named. *)

(* Load reads the environment once. *)
LEMMA InputStep ==
    ASSUME [BootNext]_allVars, ~LoadSettings
    PROVE  UNCHANGED <<input, reported>> /\ (stage' = "config" => stage = "config")
<1>1. CASE DialPostgres \/ DialRedis \/ PingAnswered \/ PingFailed \/ PauseEnds \/ Construct
  BY <1>1 DEF DialPostgres, DialRedis, PingAnswered, PingFailed, PauseEnds, Construct, BeginWait,
     Fail, Unwind, vars, main, bootVars
<1>2. CASE GiveUp \/ CompareWidths \/ Tick \/ StoreTurns
  BY <1>2 DEF GiveUp, CompareWidths, Tick, StoreTurns, Fail, Unwind, vars, main, bootVars
<1>3. CASE Elsewhere
  BY <1>3 DEF Elsewhere, bootVars, RunMigrations, UseDatabase, Listen, ServeReturned,
     BeginShutdown, Drained, GraceExpires, ForceClose, Await, CloseRedis, ClosePool, Exit,
     Fail, Unwind
<1>4. CASE Around
  BY <1>4 DEF Around, bootVars, Acceptor, AcceptorStarts, AcceptorStops, AcceptFails,
     Signal, Kill, Exit, Handler, Connect, Arrive, Acquire, Release, Starve, Answer, main
<1>5. CASE UNCHANGED allVars
  BY <1>5 DEF allVars, vars, main, bootVars
<1> QED  BY <1>1, <1>2, <1>3, <1>4, <1>5 DEF BootNext, BootMain

LEMMA SettingsNumbers ==
    ASSUME NEW e, Typed(e), NEW v \in Integral \cup Durations
    PROVE  Settings(e)[v] \in Int
<1>1. v \in Vars /\ v \in Parsed
  BY DEF Vars, Parsed
<1>2. Default(v) \in Int /\ e[v] \in Int \cup {Absent, Blank, Garbled}
  BY DefaultsTyped DEF Typed
<1> QED  BY <1>1, <1>2 DEF Settings, Read, Unset

(* Which variables each part of validate looks after. *)
DatabaseVars == {"DATABASE_URL", "DATABASE_CONNECT_TIMEOUT", "DATABASE_MAX_CONNS", "DATABASE_MIN_CONNS"}
RedisVars    == {"REDIS_URL", "REDIS_CONNECT_TIMEOUT"}
AuthVars     == {"JWT_SECRET", "ACCESS_TOKEN_TTL", "REFRESH_TOKEN_TTL", "BCRYPT_COST"}
AIVars       == Models \cup {"OPENAI_API_KEY", "AI_PROVIDER", "EMBEDDING_DIMENSIONS", "AI_REQUEST_TIMEOUT"}

LEMMA WhenNames == \A wrong, v : When(wrong, v) \subseteq {v} /\ (v \in When(wrong, v) <=> wrong)
BY DEF When

LEMMA Scopes ==
    ASSUME NEW c
    PROVE  /\ validateDatabase(c) \subseteq DatabaseVars /\ validateRedis(c) \subseteq RedisVars
           /\ validateAuth(c) \subseteq AuthVars /\ validateAI(c) \subseteq AIVars
<1>1. \A vs : NotPositive(c, vs) \subseteq vs
  BY DEF NotPositive
<1>2. validateDatabase(c) \subseteq DatabaseVars
  BY <1>1 DEF validateDatabase, When, DatabaseVars
<1>3. validateRedis(c) \subseteq RedisVars
  BY <1>1 DEF validateRedis, When, RedisVars
<1>4. validateAuth(c) \subseteq AuthVars
  BY <1>1 DEF validateAuth, When, AuthVars
<1>5. validateAI(c) \subseteq AIVars
  BY <1>1 DEF validateAI, When, AIVars
<1> QED  BY <1>2, <1>3, <1>4, <1>5

BadEnv(x)  == x \notin {"development", "test", "production"}
BadPort(x) == x \notin 1..65535
EnvPart(c)  == When(BadEnv(c["ENV"]), "ENV")
PortPart(c) == When(BadPort(c["HTTP_PORT"]), "HTTP_PORT")

LEMMA Parts ==
    ASSUME NEW c
    PROVE  /\ validate(c) = EnvPart(c) \cup PortPart(c) \cup validateDatabase(c)
                             \cup validateRedis(c) \cup validateAuth(c) \cup validateAI(c)
           /\ EnvPart(c) \subseteq {"ENV"} /\ PortPart(c) \subseteq {"HTTP_PORT"}
<1>1. validate(c) = EnvPart(c) \cup PortPart(c) \cup validateDatabase(c)
                    \cup validateRedis(c) \cup validateAuth(c) \cup validateAI(c)
  <2> DEFINE E == When(c["ENV"] \notin {"development", "test", "production"}, "ENV")
             P == When(c["HTTP_PORT"] \notin 1..65535, "HTTP_PORT")
  <2>1. validate(c) = E \cup P \cup validateDatabase(c) \cup validateRedis(c)
                      \cup validateAuth(c) \cup validateAI(c)
    BY DEF validate
  <2>2. E = EnvPart(c) /\ P = PortPart(c)
    BY DEF EnvPart, PortPart, BadEnv, BadPort
  <2> HIDE DEF E, P
  <2> QED  BY <2>1, <2>2
<1>2. EnvPart(c) \subseteq {"ENV"} /\ PortPart(c) \subseteq {"HTTP_PORT"}
  BY WhenNames, Zenon DEF EnvPart, PortPart
<1> QED  BY <1>1, <1>2

LEMMA Apart ==
    /\ DatabaseVars \cap (RedisVars \cup AuthVars \cup AIVars \cup {"ENV", "HTTP_PORT"}) = {}
    /\ RedisVars \cap (AuthVars \cup AIVars \cup {"ENV", "HTTP_PORT"}) = {}
    /\ AuthVars \cap (AIVars \cup {"ENV", "HTTP_PORT"}) = {}
    /\ AIVars \cap {"ENV", "HTTP_PORT"} = {}
    /\ "ENV" # "HTTP_PORT"
BY DEF DatabaseVars, RedisVars, AuthVars, AIVars, Models

(* A part's complaint of a variable is validate's. *)
LEMMA DatabasePart ==
    ASSUME NEW c, NEW v \in DatabaseVars
    PROVE  v \in validate(c) <=> v \in validateDatabase(c)
BY Parts, Scopes, Apart

LEMMA RedisPart ==
    ASSUME NEW c, NEW v \in RedisVars
    PROVE  v \in validate(c) <=> v \in validateRedis(c)
BY Parts, Scopes, Apart

LEMMA AuthPart ==
    ASSUME NEW c, NEW v \in AuthVars
    PROVE  v \in validate(c) <=> v \in validateAuth(c)
BY Parts, Scopes, Apart

LEMMA AIPart ==
    ASSUME NEW c, NEW v \in AIVars
    PROVE  v \in validate(c) <=> v \in validateAI(c)
BY Parts, Scopes, Apart

LEMMA ServerPart ==
    ASSUME NEW c
    PROVE  /\ "ENV" \in validate(c) <=> BadEnv(c["ENV"])
           /\ "HTTP_PORT" \in validate(c) <=> BadPort(c["HTTP_PORT"])
<1>1. "ENV" \in validate(c) <=> "ENV" \in EnvPart(c)
  BY Parts, Scopes, Apart
<1>2. "HTTP_PORT" \in validate(c) <=> "HTTP_PORT" \in PortPart(c)
  BY Parts, Scopes, Apart
<1>3. ("ENV" \in EnvPart(c) <=> BadEnv(c["ENV"])) /\ ("HTTP_PORT" \in PortPart(c) <=> BadPort(c["HTTP_PORT"]))
  BY WhenNames DEF EnvPart, PortPart
<1> QED  BY <1>1, <1>2, <1>3

LEMMA OthersUnjudged ==
    ASSUME NEW c, NEW v \in validate(c)
    PROVE  v \in DatabaseVars \cup RedisVars \cup AuthVars \cup AIVars \cup {"ENV", "HTTP_PORT"}
BY Parts, Scopes

(* Every other variable is judged by its own value. *)
Own == Vars \ ({"DATABASE_MIN_CONNS", "ACCESS_TOKEN_TTL", "OPENAI_API_KEY"} \cup Models)

LEMMA OwnValue ==
    ASSUME NEW c, NEW n, NEW v \in Own, n[v] = c[v]
    PROVE  v \in validate(c) <=> v \in validate(n)
<1>1. v \in Vars /\ v \notin {"DATABASE_MIN_CONNS", "ACCESS_TOKEN_TTL", "OPENAI_API_KEY"} \cup Models
  BY DEF Own
<1>2. CASE v \in DatabaseVars
  <2>1. v \in {"DATABASE_URL", "DATABASE_CONNECT_TIMEOUT", "DATABASE_MAX_CONNS"}
    BY <1>1, <1>2 DEF DatabaseVars
  <2>2. v \in validateDatabase(c) <=> v \in validateDatabase(n)
    <3>1. CASE v = "DATABASE_URL"
      BY <3>1 DEF validateDatabase, When, NotPositive
    <3>2. CASE v = "DATABASE_CONNECT_TIMEOUT"
      BY <3>2 DEF validateDatabase, When, NotPositive
    <3>3. CASE v = "DATABASE_MAX_CONNS"
      BY <3>3 DEF validateDatabase, When, NotPositive
    <3> QED  BY <2>1, <3>1, <3>2, <3>3
  <2> QED  BY <1>2, <2>2, DatabasePart
<1>3. CASE v \in RedisVars
  <2>1. v \in validateRedis(c) <=> v \in validateRedis(n)
    <3>1. CASE v = "REDIS_URL"
      BY <3>1 DEF validateRedis, When, NotPositive
    <3>2. CASE v = "REDIS_CONNECT_TIMEOUT"
      BY <3>2 DEF validateRedis, When, NotPositive
    <3> QED  BY <1>3, <3>1, <3>2 DEF RedisVars
  <2> QED  BY <1>3, <2>1, RedisPart
<1>4. CASE v \in AuthVars
  <2>1. v \in validateAuth(c) <=> v \in validateAuth(n)
    <3>1. CASE v = "JWT_SECRET"
      BY <3>1 DEF validateAuth, When, NotPositive
    <3>2. CASE v = "REFRESH_TOKEN_TTL"
      BY <3>2 DEF validateAuth, When, NotPositive
    <3>3. CASE v = "BCRYPT_COST"
      BY <3>3 DEF validateAuth, When, NotPositive
    <3> QED  BY <1>1, <1>4, <3>1, <3>2, <3>3 DEF AuthVars
  <2> QED  BY <1>4, <2>1, AuthPart
<1>5. CASE v \in AIVars
  <2>1. v \in validateAI(c) <=> v \in validateAI(n)
    <3>1. CASE v = "AI_PROVIDER"
      BY <3>1 DEF validateAI, When, NotPositive, Models
    <3>2. CASE v \in {"EMBEDDING_DIMENSIONS", "AI_REQUEST_TIMEOUT"}
      BY <3>2 DEF validateAI, When, NotPositive, Models
    <3> QED  BY <1>1, <1>5, <3>1, <3>2 DEF AIVars
  <2> QED  BY <1>5, <2>1, AIPart
<1>6. CASE v = "ENV"
  BY <1>6, ServerPart
<1>7. CASE v = "HTTP_PORT"
  BY <1>7, ServerPart
<1>8. CASE v \notin DatabaseVars \cup RedisVars \cup AuthVars \cup AIVars \cup {"ENV", "HTTP_PORT"}
  BY <1>8, OthersUnjudged
<1> QED  BY <1>2, <1>3, <1>4, <1>5, <1>6, <1>7, <1>8

(* The rest is judged together with another variable. *)
LEMMA PoolComplaints ==
    ASSUME NEW c
    PROVE  /\ "DATABASE_MAX_CONNS" \in validate(c) <=> c["DATABASE_MAX_CONNS"] \notin 1..maxDatabaseConns
           /\ "DATABASE_MIN_CONNS" \in validate(c) <=>
                 c["DATABASE_MIN_CONNS"] < 0 \/ c["DATABASE_MIN_CONNS"] > c["DATABASE_MAX_CONNS"]
<1>1. /\ "DATABASE_MAX_CONNS" \in validate(c) <=> "DATABASE_MAX_CONNS" \in validateDatabase(c)
      /\ "DATABASE_MIN_CONNS" \in validate(c) <=> "DATABASE_MIN_CONNS" \in validateDatabase(c)
  BY DatabasePart DEF DatabaseVars
<1>2. "DATABASE_MAX_CONNS" \in validateDatabase(c) <=> c["DATABASE_MAX_CONNS"] \notin 1..maxDatabaseConns
  BY DEF validateDatabase, When, NotPositive
<1>3. "DATABASE_MIN_CONNS" \in validateDatabase(c) <=>
         c["DATABASE_MIN_CONNS"] < 0 \/ c["DATABASE_MIN_CONNS"] > c["DATABASE_MAX_CONNS"]
  BY DEF validateDatabase, When, NotPositive
<1> QED  BY <1>1, <1>2, <1>3, Zenon

LEMMA TokenComplaints ==
    ASSUME NEW c
    PROVE  /\ "REFRESH_TOKEN_TTL" \in validate(c) <=> c["REFRESH_TOKEN_TTL"] <= 0
           /\ "ACCESS_TOKEN_TTL" \in validate(c) <=>
                 \/ c["ACCESS_TOKEN_TTL"] <= 0
                 \/ /\ c["ACCESS_TOKEN_TTL"] > 0 /\ c["REFRESH_TOKEN_TTL"] > 0
                    /\ c["ACCESS_TOKEN_TTL"] >= c["REFRESH_TOKEN_TTL"]
<1>1. /\ "REFRESH_TOKEN_TTL" \in validate(c) <=> "REFRESH_TOKEN_TTL" \in validateAuth(c)
      /\ "ACCESS_TOKEN_TTL" \in validate(c) <=> "ACCESS_TOKEN_TTL" \in validateAuth(c)
  BY AuthPart DEF AuthVars
<1>2. "REFRESH_TOKEN_TTL" \in validateAuth(c) <=> c["REFRESH_TOKEN_TTL"] <= 0
  BY DEF validateAuth, When, NotPositive
<1>3. "ACCESS_TOKEN_TTL" \in validateAuth(c) <=>
         \/ c["ACCESS_TOKEN_TTL"] <= 0
         \/ /\ c["ACCESS_TOKEN_TTL"] > 0 /\ c["REFRESH_TOKEN_TTL"] > 0
            /\ c["ACCESS_TOKEN_TTL"] >= c["REFRESH_TOKEN_TTL"]
  BY DEF validateAuth, When, NotPositive
<1> QED  BY <1>1, <1>2, <1>3, Zenon

ProviderVars == Models \cup {"OPENAI_API_KEY"}

LEMMA ProviderComplaints ==
    ASSUME NEW c, NEW v \in ProviderVars
    PROVE  v \in validate(c) <=> c["AI_PROVIDER"] = "openai" /\ c[v] = Blank
<1>1. v \in validate(c) <=> v \in validateAI(c)
  BY AIPart DEF AIVars, ProviderVars
<1>2. v \in validateAI(c) <=> c["AI_PROVIDER"] = "openai" /\ c[v] = Blank
  BY DEF validateAI, When, NotPositive, Models, ProviderVars
<1> QED  BY <1>1, <1>2, Zenon

(* Settings of which the ones complained of were replaced are valid, when  *)
(* the replacements go with the others.                                    *)
LEMMA MixedPool ==
    ASSUME NEW c, NEW d, NEW n, NEW R, validate(c) \subseteq R,
           \A v \in Vars : n[v] = IF v \in R THEN d[v] ELSE c[v],
           \A v \in Integral : c[v] \in Int,
           ~MinimumHidden(c),
           d["DATABASE_MAX_CONNS"] = maxDatabaseConns, d["DATABASE_MIN_CONNS"] = 0
    PROVE  "DATABASE_MIN_CONNS" \notin validate(n)
<1> DEFINE cmax == c["DATABASE_MAX_CONNS"]
           cmin == c["DATABASE_MIN_CONNS"]
           nmax == n["DATABASE_MAX_CONNS"]
           nmin == n["DATABASE_MIN_CONNS"]
           MaxR == "DATABASE_MAX_CONNS" \in R
           MinR == "DATABASE_MIN_CONNS" \in R
<1>1. cmax \in Int /\ cmin \in Int
  BY DEF Integral
<1>2. nmax = IF MaxR THEN maxDatabaseConns ELSE cmax
  BY DEF Vars, Parsed, Integral
<1>3. nmin = IF MinR THEN 0 ELSE cmin
  BY DEF Vars, Parsed, Integral
<1>4. MaxR \/ cmax \in 1..maxDatabaseConns
  BY PoolComplaints
<1>5. MinR \/ ~(cmin < 0 \/ cmin > cmax)
  BY PoolComplaints
<1>6. ~(cmin > maxDatabaseConns /\ cmax >= cmin)
  BY DEF MinimumHidden
<1>7. ~(nmin < 0 \/ nmin > nmax)
  <2> HIDE DEF cmax, cmin, nmax, nmin, MaxR, MinR
  <2> QED  BY <1>1, <1>2, <1>3, <1>4, <1>5, <1>6 DEF maxDatabaseConns
<1> QED  BY <1>7, PoolComplaints

LEMMA MixedTokens ==
    ASSUME NEW c, NEW d, NEW n, NEW R, validate(c) \subseteq R, validate(d) = {},
           \A v \in Vars : n[v] = IF v \in R THEN d[v] ELSE c[v],
           \A v \in Durations : c[v] \in Int /\ d[v] \in Int,
           ~NoShorterLife(c),
           d["ACCESS_TOKEN_TTL"] = 1, d["REFRESH_TOKEN_TTL"] > c["ACCESS_TOKEN_TTL"]
    PROVE  "ACCESS_TOKEN_TTL" \notin validate(n)
<1> DEFINE cacc == c["ACCESS_TOKEN_TTL"]
           cref == c["REFRESH_TOKEN_TTL"]
           dref == d["REFRESH_TOKEN_TTL"]
           nacc == n["ACCESS_TOKEN_TTL"]
           nref == n["REFRESH_TOKEN_TTL"]
           AccR == "ACCESS_TOKEN_TTL" \in R
           RefR == "REFRESH_TOKEN_TTL" \in R
<1>1. cacc \in Int /\ cref \in Int /\ dref \in Int
  BY DEF Durations
<1>2. nacc = IF AccR THEN 1 ELSE cacc
  BY DEF Vars, Parsed, Durations
<1>3. nref = IF RefR THEN dref ELSE cref
  BY DEF Vars, Parsed, Durations
<1>4. RefR \/ ~(cref <= 0)
  BY TokenComplaints
<1>5. AccR \/ ~(cacc <= 0 \/ (cacc > 0 /\ cref > 0 /\ cacc >= cref))
  BY TokenComplaints
<1>6. cref # 1 /\ dref > cacc
  BY DEF NoShorterLife
<1>7. dref > 1
  <2>1. "ACCESS_TOKEN_TTL" \notin validate(d) /\ "REFRESH_TOKEN_TTL" \notin validate(d)
    OBVIOUS
  <2>2. ~(dref <= 0) /\ ~(1 > 0 /\ dref > 0 /\ 1 >= dref)
    BY <2>1, TokenComplaints
  <2> HIDE DEF dref
  <2> QED  BY <1>1, <2>2
<1>8. ~(nacc <= 0 \/ (nacc > 0 /\ nref > 0 /\ nacc >= nref))
  <2> HIDE DEF cacc, cref, dref, nacc, nref, AccR, RefR
  <2> QED  BY <1>1, <1>2, <1>3, <1>4, <1>5, <1>6, <1>7
<1> QED  BY <1>8, TokenComplaints

LEMMA MixedValid ==
    ASSUME NEW c, NEW d, NEW n, NEW R, validate(c) \subseteq R, validate(d) = {},
           \A v \in Vars : n[v] = IF v \in R THEN d[v] ELSE c[v],
           \A v \in Integral \cup Durations : c[v] \in Int /\ d[v] \in Int,
           ~MinimumHidden(c), ~NoShorterLife(c),
           d["DATABASE_MAX_CONNS"] = maxDatabaseConns, d["DATABASE_MIN_CONNS"] = 0,
           d["ACCESS_TOKEN_TTL"] = 1, d["REFRESH_TOKEN_TTL"] > c["ACCESS_TOKEN_TTL"],
           d["AI_PROVIDER"] = "mock", \A v \in ProviderVars : d[v] # Blank
    PROVE  validate(n) = {}
<1>1. "DATABASE_MIN_CONNS" \notin validate(n)
  BY MixedPool
<1>2. "ACCESS_TOKEN_TTL" \notin validate(n)
  BY MixedTokens
<1>3. ASSUME NEW v \in ProviderVars PROVE v \notin validate(n)
  <2> SUFFICES ASSUME n["AI_PROVIDER"] = "openai", n[v] = Blank PROVE FALSE
    BY ProviderComplaints
  <2>1. "AI_PROVIDER" \in Vars /\ v \in Vars
    BY DEF Vars, ProviderVars
  <2>2. c["AI_PROVIDER"] = "openai"
    BY <2>1
  <2>3. v \notin R /\ c[v] = Blank
    BY <2>1
  <2> QED  BY <2>2, <2>3, ProviderComplaints
<1>4. ASSUME NEW v \in Own PROVE v \notin validate(n)
  <2>1. v \in Vars
    BY DEF Own
  <2>2. CASE v \in R
    <3>1. n[v] = d[v] /\ v \notin validate(d)
      BY <2>1, <2>2
    <3> QED  BY <3>1, OwnValue
  <2>3. CASE v \notin R
    <3>1. n[v] = c[v] /\ v \notin validate(c)
      BY <2>1, <2>3
    <3> QED  BY <3>1, OwnValue
  <2> QED  BY <2>2, <2>3
<1>5. ASSUME NEW v \in validate(n) PROVE v \in Vars
  <2>1. v \in DatabaseVars \cup RedisVars \cup AuthVars \cup AIVars \cup {"ENV", "HTTP_PORT"}
    BY OthersUnjudged
  <2> QED  BY <2>1 DEF DatabaseVars, RedisVars, AuthVars, AIVars, Vars, Parsed, Integral,
           Durations, Required
<1> QED  BY <1>1, <1>2, <1>3, <1>4, <1>5 DEF Own, ProviderVars

(* What Load makes of an environment in which the reported variables were  *)
(* replaced. *)
Replaced(e, fix) == [v \in Vars |-> IF v \in Problems(e) THEN fix[v] ELSE e[v]]

LEMMA ReplacedSettings ==
    ASSUME NEW e, NEW fix
    PROVE  \A v \in Vars : Settings(Replaced(e, fix))[v] =
              IF v \in Problems(e) THEN Settings(fix)[v] ELSE Settings(e)[v]
<1> SUFFICES ASSUME NEW v \in Vars
             PROVE  Settings(Replaced(e, fix))[v] =
                       IF v \in Problems(e) THEN Settings(fix)[v] ELSE Settings(e)[v]
  OBVIOUS
<1>1. Replaced(e, fix)[v] = IF v \in Problems(e) THEN fix[v] ELSE e[v]
  BY DEF Replaced
<1>2. \A x : Settings(x)[v] = Read(x, v)
  BY DEF Settings
<1>3. CASE v \in Problems(e)
  BY <1>1, <1>2, <1>3 DEF Read, Unset
<1>4. CASE v \notin Problems(e)
  BY <1>1, <1>2, <1>4 DEF Read, Unset
<1> QED  BY <1>3, <1>4

LEMMA ReplacedReads ==
    ASSUME NEW e, NEW fix, Problems(fix) = {}
    PROVE  Unreadable(Replaced(e, fix)) = {} /\ Missing(Replaced(e, fix)) = {}
<1>1. /\ Unreadable(fix) = {} /\ Unreadable(e) \subseteq Problems(e)
      /\ Missing(fix) = {} /\ Missing(e) \subseteq Problems(e)
  BY DEF Problems
<1>2. Parsed \subseteq Vars /\ Required \subseteq Vars
  BY DEF Vars
<1>3. \A v \in Vars : Replaced(e, fix)[v] = IF v \in Problems(e) THEN fix[v] ELSE e[v]
  BY DEF Replaced
<1>4. Unreadable(Replaced(e, fix)) = {}
  BY <1>1, <1>2, <1>3 DEF Unreadable
<1>5. Missing(Replaced(e, fix)) = {}
  BY <1>1, <1>2, <1>3 DEF Missing, Unset
<1> QED  BY <1>4, <1>5

LEMMA OnePass ==
    ASSUME NEW e, NEW fix, Typed(e), Typed(fix), Problems(fix) = {}, Cures(fix, e),
           ~MinimumHidden(Settings(e)), ~NoShorterLife(Settings(e))
    PROVE  Problems(Replaced(e, fix)) = {}
<1> DEFINE c == Settings(e)
           d == Settings(fix)
           n == Settings(Replaced(e, fix))
           R == Problems(e)
<1>1. validate(c) \subseteq R /\ validate(d) = {}
  BY DEF Problems
<1>2. \A v \in Vars : n[v] = IF v \in R THEN d[v] ELSE c[v]
  BY ReplacedSettings
<1>3. \A v \in Integral \cup Durations : c[v] \in Int /\ d[v] \in Int
  BY SettingsNumbers
<1>4. /\ d["DATABASE_MAX_CONNS"] = maxDatabaseConns /\ d["DATABASE_MIN_CONNS"] = 0
      /\ d["ACCESS_TOKEN_TTL"] = 1 /\ d["REFRESH_TOKEN_TTL"] > c["ACCESS_TOKEN_TTL"]
      /\ d["AI_PROVIDER"] = "mock"
  BY Zenon DEF Cures
<1>5. \A v \in ProviderVars : d[v] # Blank
  <2> SUFFICES ASSUME NEW v \in ProviderVars PROVE d[v] # Blank
    OBVIOUS
  <2>1. ~Unset(fix, v)
    BY DEF Cures, ProviderVars
  <2>2. v \in Vars /\ v \notin Parsed \cup {"CORS_ORIGINS"}
    BY DEF Vars, Parsed, Integral, Durations, Models, ProviderVars
  <2> QED  BY <2>1, <2>2 DEF Settings, Read, Unset
<1>6. ~MinimumHidden(c) /\ ~NoShorterLife(c)
  OBVIOUS
<1>7. validate(n) = {}
  <2> HIDE DEF c, d, n, R
  <2> QED  BY <1>1, <1>2, <1>3, <1>4, <1>5, <1>6, MixedValid
<1> QED  BY <1>7, ReplacedReads DEF Problems

(* The two limits that no one pass corrects. *)
LEMMA NoPassForMinimum ==
    ASSUME NEW e, NEW fix, Typed(e), Typed(fix), Problems(fix) = {}, MinimumHidden(Settings(e))
    PROVE  Problems(Replaced(e, fix)) # {}
<1> DEFINE c == Settings(e)
           d == Settings(fix)
           n == Settings(Replaced(e, fix))
           min == "DATABASE_MIN_CONNS"
           max == "DATABASE_MAX_CONNS"
<1>1. min \in Integral /\ max \in Integral /\ min \in Vars /\ max \in Vars /\ min \in Parsed
  BY DEF Integral, Vars, Parsed
<1>2. c[min] \in Int /\ c[max] \in Int /\ d[max] \in Int
  BY <1>1, SettingsNumbers
<1>3. c[min] > maxDatabaseConns /\ c[max] >= c[min]
  BY DEF MinimumHidden
<1>4. max \in Problems(e)
  <2>1. c[max] \notin 1..maxDatabaseConns
    <3> HIDE DEF c, max, min
    <3> QED  BY <1>2, <1>3 DEF maxDatabaseConns
  <2> QED  BY <2>1, PoolComplaints DEF Problems
<1>5. min \notin Problems(e)
  <2>1. ~(c[min] < 0 \/ c[min] > c[max])
    <3> HIDE DEF c, max, min
    <3> QED  BY <1>2, <1>3 DEF maxDatabaseConns
  <2>2. min \notin validate(c)
    BY <2>1, PoolComplaints
  <2>3. min \notin Missing(e)
    BY DEF Missing, Required
  <2>4. e[min] # Garbled
    <3> SUFFICES ASSUME e[min] = Garbled PROVE FALSE
      OBVIOUS
    <3>1. c[min] = Default(min)
      BY <1>1 DEF Settings, Read
    <3>2. Default(min) = 2
      BY DEF Default
    <3> HIDE DEF c, min
    <3> QED  BY <1>3, <3>1, <3>2 DEF maxDatabaseConns
  <2> QED  BY <2>2, <2>3, <2>4 DEF Problems, Unreadable
<1>6. n[min] = c[min] /\ n[max] = d[max]
  BY <1>1, <1>4, <1>5, ReplacedSettings
<1>7. d[max] \in 1..maxDatabaseConns
  BY PoolComplaints DEF Problems
<1>8. n[min] > n[max]
  <2> HIDE DEF c, d, n, min, max
  <2> QED  BY <1>2, <1>3, <1>6, <1>7 DEF maxDatabaseConns
<1> QED  BY <1>8, PoolComplaints DEF Problems

LEMMA NoPassForLife ==
    ASSUME NEW e, NEW fix, Typed(e), Typed(fix), Problems(fix) = {}, NoShorterLife(Settings(e))
    PROVE  Problems(Replaced(e, fix)) # {}
<1> DEFINE c == Settings(e)
           d == Settings(fix)
           n == Settings(Replaced(e, fix))
           acc == "ACCESS_TOKEN_TTL"
           ref == "REFRESH_TOKEN_TTL"
<1>1. acc \in Durations /\ ref \in Durations /\ acc \in Vars /\ ref \in Vars /\ ref \in Parsed
  BY DEF Durations, Vars, Parsed
<1>2. c[acc] \in Int /\ d[acc] \in Int
  BY <1>1, SettingsNumbers
<1>3. c[ref] = 1
  BY DEF NoShorterLife
<1>4. acc \in Problems(e)
  <2>1. c[acc] <= 0 \/ (c[acc] > 0 /\ c[ref] > 0 /\ c[acc] >= c[ref])
    <3> HIDE DEF c, acc, ref
    <3> QED  BY <1>2, <1>3
  <2> QED  BY <2>1, TokenComplaints DEF Problems
<1>5. ref \notin Problems(e)
  <2>1. ref \notin validate(c)
    BY <1>3, TokenComplaints
  <2>2. ref \notin Missing(e)
    BY DEF Missing, Required
  <2>3. e[ref] # Garbled
    <3> SUFFICES ASSUME e[ref] = Garbled PROVE FALSE
      OBVIOUS
    <3>1. c[ref] = Default(ref)
      BY <1>1 DEF Settings, Read
    <3>2. Default(ref) = 2592000
      BY DEF Default
    <3> HIDE DEF c, ref
    <3> QED  BY <1>3, <3>1, <3>2
  <2> QED  BY <2>1, <2>2, <2>3 DEF Problems, Unreadable
<1>6. n[ref] = 1 /\ n[acc] = d[acc]
  BY <1>1, <1>3, <1>4, <1>5, ReplacedSettings
<1>7. ~(d[acc] <= 0)
  BY TokenComplaints DEF Problems
<1>8. n[acc] > 0 /\ n[ref] > 0 /\ n[acc] >= n[ref]
  <2> HIDE DEF c, d, n, acc, ref
  <2> QED  BY <1>2, <1>6, <1>7
<1> QED  BY <1>8, TokenComplaints DEF Problems

(* What Load reported are the problems of an environment that it read, for *)
(* which the operator has the values.                                      *)
ReportInv ==
    reported # {} =>
        /\ stage # "config" /\ Typed(environ) /\ reported = Problems(environ)
        /\ \E fix \in Corrections : Cures(fix, environ)

LEMMA EnvironmentReadable ==
    ASSUME stage = "config", Unread
    PROVE  \E m \in Machines : Environment \in Readable(m)
<1>1. PICK m \in Machines : environ = m.env /\ path = m.path
  BY DEF Unread
<1> QED  BY <1>1, FoundFile DEF Environment, Readable

LEMMA ReportStep ==
    ASSUME AgreeInv, ReportInv, [BootNext]_allVars
    PROVE  ReportInv'
<1>1. CASE ~LoadSettings
  <2>1. environ' = environ /\ reported' = reported /\ (stage' = "config" => stage = "config")
    BY <1>1, InputStep DEF input
  <2> QED  BY <2>1 DEF ReportInv
<1>2. CASE LoadSettings
  <2>1. stage = "config" /\ reported = {}
    BY <1>2 DEF LoadSettings, ReportInv
  <2>2. CASE reported' = reported
    BY <2>1, <2>2 DEF ReportInv
  <2>3. CASE reported' # reported
    <3>1. /\ Fail(pool, redis)
          /\ environ' = Environment /\ reported' = Problems(Environment)
      BY <1>2, <2>3 DEF LoadSettings, input
    <3>2. stage' # "config"
      BY <3>1 DEF Fail, Unwind
    <3>3. Typed(Environment)
      BY <2>1, EnvironmentTyped DEF AgreeInv
    <3>4. \E fix \in Corrections : Cures(fix, Environment)
      BY <2>1, EnvironmentReadable, CorrectionsAssumption DEF AgreeInv
    <3> QED  BY <3>1, <3>2, <3>3, <3>4 DEF ReportInv
  <2> QED  BY <2>2, <2>3
<1> QED  BY <1>1, <1>2

LEMMA ReportSuffices == ASSUME ReportInv PROVE OnePassSuffices
<1> SUFFICES ASSUME reported # {}
             PROVE  MinimumHidden(Settings(environ)) \/ NoShorterLife(Settings(environ))
                       <=> ~\E fix \in Corrections : Problems(Corrected(fix)) = {}
  BY DEF OnePassSuffices
<1>1. Typed(environ) /\ reported = Problems(environ)
  BY DEF ReportInv
<1>2. PICK cure \in Corrections : Cures(cure, environ)
  BY DEF ReportInv
<1>3. \A fix : Corrected(fix) = Replaced(environ, fix)
  BY <1>1 DEF Corrected, Replaced
<1>4. \A fix \in Corrections : Typed(fix) /\ Problems(fix) = {}
  BY CorrectionsAssumption
<1>5. CASE MinimumHidden(Settings(environ))
  BY <1>1, <1>3, <1>4, <1>5, NoPassForMinimum
<1>6. CASE NoShorterLife(Settings(environ))
  BY <1>1, <1>3, <1>4, <1>6, NoPassForLife
<1>7. CASE ~MinimumHidden(Settings(environ)) /\ ~NoShorterLife(Settings(environ))
  BY <1>1, <1>2, <1>3, <1>4, <1>7, OnePass
<1> QED  BY <1>5, <1>6, <1>7

(* Whatever the environment and the .env files hold, the variables that    *)
(* Load's error names are all that have to be corrected, but for the two   *)
(* limits that hide behind another; and with one of those no correction of *)
(* the named ones alone is enough.                                         *)
THEOREM OnePassAlways == BootSpec => []OnePassSuffices
<1>1. BootInit => AgreeInv /\ ReportInv
  BY AgreeInit DEF BootInit, ReportInv
<1>2. AgreeInv /\ ReportInv /\ [BootNext]_allVars => (AgreeInv /\ ReportInv)'
  BY AgreeStep, ReportStep
<1>3. ReportInv => OnePassSuffices
  BY ReportSuffices
<1> QED  BY <1>1, <1>2, <1>3, PTL DEF BootSpec

-------------------------------------------------------------------------------
(* The wait for a store. *)

LEMMA ZeroIsInRange == 0 \in Nat /\ 0 \in 0..RetryTicks /\ 0 \in 0..(RetryTicks + 2)
BY BootAssumption

(* While no ping of this wait has taken time, a store answers at a ping    *)
(* only since the pause that led to it, or since before the wait began;    *)
(* and one that answers during a pause does so since the last ping failed. *)
WaitInv ==
    /\ waiting \in {"no", "ping", "pause"} /\ waited \in Nat /\ hung \in BOOLEAN
    /\ paused \in 0..RetryTicks /\ up \in 0..(RetryTicks + 2)
    /\ waiting = "no" => waited = 0 /\ ~hung
    /\ waiting # "pause" => paused = 0
    /\ waiting = "ping" /\ ~hung => waited = 0 \/ up <= RetryTicks + 1
    /\ waiting = "pause" /\ ~hung => up <= paused + 1

Waits == \/ DialPostgres \/ DialRedis \/ PingAnswered \/ PingFailed \/ PauseEnds \/ GiveUp
         \/ Tick \/ StoreTurns

LEMMA OthersDoNotWait == ASSUME [BootNext]_allVars, ~Waits PROVE UNCHANGED wait
<1>1. CASE LoadSettings \/ CompareWidths \/ Construct
  BY <1>1 DEF LoadSettings, CompareWidths, Construct, bootVars
<1>2. CASE Elsewhere \/ Around
  BY <1>2 DEF Elsewhere, Around, bootVars
<1>3. CASE UNCHANGED allVars
  BY <1>3 DEF allVars, bootVars
<1> QED  BY <1>1, <1>2, <1>3 DEF BootNext, BootMain, Waits

LEMMA WaitStep == ASSUME WaitInv, [BootNext]_allVars PROVE WaitInv'
<1> USE BootAssumption
<1>1. CASE UNCHANGED wait
  BY <1>1 DEF wait, WaitInv
<1>2. CASE DialPostgres \/ DialRedis
  <2>1. CASE BeginWait
    BY <2>1 DEF BeginWait, WaitInv
  <2>2. CASE ~BeginWait
    <3>1. UNCHANGED wait
      BY <1>2, <2>2 DEF DialPostgres, DialRedis, bootVars
    <3> QED  BY <3>1, <1>1
  <2> QED  BY <2>1, <2>2
<1>3. CASE PingAnswered \/ GiveUp
  <2>1. WaitOver
    BY <1>3 DEF PingAnswered, GiveUp
  <2> QED  BY <2>1, ZeroIsInRange, Zenon DEF WaitOver, WaitInv
<1>4. CASE PingFailed
  BY <1>4 DEF PingFailed, WaitInv
<1>5. CASE PauseEnds
  BY <1>5 DEF PauseEnds, WaitInv
<1>6. CASE Tick
  <2>1. waited' \in Nat /\ waiting' = waiting /\ waiting # "no"
    BY <1>6 DEF Tick, WaitInv
  <2>2. up' \in 0..(RetryTicks + 2)
    BY <1>6 DEF Tick, WaitInv
  <2>3. CASE waiting = "ping" /\ hung' = TRUE /\ UNCHANGED paused
    BY <2>1, <2>2, <2>3 DEF WaitInv
  <2>4. CASE /\ waiting = "pause" /\ paused < RetryTicks
             /\ paused' = paused + 1 /\ UNCHANGED hung
    <3>1. ~hung => up' <= paused' + 1
      BY <1>6, <2>4 DEF Tick, WaitInv
    <3> QED  BY <2>1, <2>2, <2>4, <3>1 DEF WaitInv
  <2> QED  BY <1>6, <2>3, <2>4 DEF Tick
<1>7. CASE StoreTurns
  BY <1>7 DEF StoreTurns, WaitInv
<1> QED  BY <1>1, <1>2, <1>3, <1>4, <1>5, <1>6, <1>7, OthersDoNotWait DEF Waits

(* Whatever the timeouts are, in ticks, and however the store comes and    *)
(* goes: waitForReady does not give up on a store that has been answering  *)
(* for more than a retry interval, unless a ping hung or a signal came.    *)
THEOREM ReadyStoreFound == BootSpec => ReadyStoreIsFound
<1>1. BootInit => WaitInv
  BY ZeroIsInRange, Zenon DEF BootInit, WaitInv
<1>2. WaitInv /\ [BootNext]_allVars => WaitInv'
  BY WaitStep
<1>3. WaitInv => (GiveUp /\ ~cancelled /\ ~hung => up <= RetryTicks + 1)
  BY BootAssumption DEF WaitInv, GiveUp
<1>4. WaitInv /\ [BootNext]_allVars
         => [GiveUp /\ ~cancelled /\ ~hung => up <= RetryTicks + 1]_allVars
  BY <1>3
<1> QED  BY <1>1, <1>2, <1>4, PTL DEF BootSpec, ReadyStoreIsFound
===============================================================================
