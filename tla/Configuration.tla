----------------------------- MODULE Configuration -----------------------------
(***************************************************************************)
(* Configuration: internal/config (config.go, reader.go, dotenv.go) and    *)
(* the checks that db.poolConfig, auth.NewHasher and auth.NewTokens repeat *)
(* on what it accepted.                                                    *)
(*                                                                         *)
(* An environment maps each variable (named without its FLOWCAST_ prefix)  *)
(* to what it holds: Absent, Blank, Garbled (text that is not of the       *)
(* variable's type), or its value: an integer, a duration in seconds, the  *)
(* scheme of a URL, the length of the signing key in bytes, a word.        *)
(***************************************************************************)
EXTENDS Integers, Sequences

CONSTANTS Absent, Blank, Garbled

Integral == {"HTTP_PORT", "DATABASE_MAX_CONNS", "DATABASE_MIN_CONNS", "BCRYPT_COST",
             "EMBEDDING_DIMENSIONS"}

Durations == {"HTTP_READ_TIMEOUT", "HTTP_WRITE_TIMEOUT", "HTTP_IDLE_TIMEOUT",
              "SHUTDOWN_TIMEOUT", "DATABASE_CONNECT_TIMEOUT", "DATABASE_MAX_CONN_LIFETIME",
              "DATABASE_MAX_CONN_IDLE_TIME", "REDIS_CONNECT_TIMEOUT", "ACCESS_TOKEN_TTL",
              "REFRESH_TOKEN_TTL", "AI_REQUEST_TIMEOUT"}

Models   == {"ANALYSIS_MODEL", "POSTMORTEM_MODEL", "EMBEDDING_MODEL"}
Required == {"DATABASE_URL", "REDIS_URL", "JWT_SECRET"}

(* Variables whose value must be of a type to be read at all. *)
Parsed == Integral \cup Durations \cup {"LOG_LEVEL"}

Vars == Parsed \cup Required \cup Models \cup {"ENV", "CORS_ORIGINS", "AI_PROVIDER", "OPENAI_API_KEY"}

minJWTSecretLength == 32
MinBcryptCost      == 4
MaxBcryptCost      == 31
maxDatabaseConns   == 1000

(* What a variable is when the environment has nothing for it; Blank is    *)
(* the empty string.                                                       *)
Default(v) ==
    CASE v = "ENV"                         -> "development"
      [] v = "HTTP_PORT"                   -> 8080
      [] v = "LOG_LEVEL"                   -> "info"
      [] v = "HTTP_READ_TIMEOUT"           -> 15
      [] v = "HTTP_WRITE_TIMEOUT"          -> 30
      [] v = "HTTP_IDLE_TIMEOUT"           -> 60
      [] v = "SHUTDOWN_TIMEOUT"            -> 15
      [] v = "CORS_ORIGINS"                -> "local"
      [] v = "DATABASE_CONNECT_TIMEOUT"    -> 15
      [] v = "DATABASE_MAX_CONNS"          -> 10
      [] v = "DATABASE_MIN_CONNS"          -> 2
      [] v = "DATABASE_MAX_CONN_LIFETIME"  -> 3600
      [] v = "DATABASE_MAX_CONN_IDLE_TIME" -> 1800
      [] v = "REDIS_CONNECT_TIMEOUT"       -> 10
      [] v = "ACCESS_TOKEN_TTL"            -> 900
      [] v = "REFRESH_TOKEN_TTL"           -> 2592000
      [] v = "BCRYPT_COST"                 -> 12
      [] v = "AI_PROVIDER"                 -> "mock"
      [] v = "EMBEDDING_DIMENSIONS"        -> 1536
      [] v = "AI_REQUEST_TIMEOUT"          -> 60
      [] OTHER                             -> Blank

-------------------------------------------------------------------------------
(* reader.go *)

Unset(env, v) == env[v] \in {Absent, Blank}

(* A value that cannot be read is reported and replaced by the default; a  *)
(* list of origins without an entry is the default and no problem.         *)
Read(env, v) ==
    IF Unset(env, v) \/ (env[v] = Garbled /\ v \in Parsed \cup {"CORS_ORIGINS"})
    THEN Default(v) ELSE env[v]

Settings(env) == [v \in Vars |-> Read(env, v)]

Unreadable(env) == {v \in Parsed : env[v] = Garbled}
Missing(env)    == {v \in Required : Unset(env, v)}

-------------------------------------------------------------------------------
(* config.go: validate, on the settings c.  Each operator is the set of    *)
(* variables it complains of.                                              *)

When(wrong, v) == IF wrong THEN {v} ELSE {}

NotPositive(c, vs) == {v \in vs : c[v] <= 0}

(* Mutant: the pool's minimum is compared with the ceiling of the maximum. *)
validateDatabaseApart(c) ==
    When(c["DATABASE_URL"] \notin {Blank, "postgres", "postgresql"}, "DATABASE_URL")
    \cup NotPositive(c, {"DATABASE_CONNECT_TIMEOUT"})
    \cup When(c["DATABASE_MAX_CONNS"] \notin 1..maxDatabaseConns, "DATABASE_MAX_CONNS")
    \cup When(c["DATABASE_MIN_CONNS"] \notin 0..maxDatabaseConns, "DATABASE_MIN_CONNS")

validateDatabase(c) ==
    When(c["DATABASE_URL"] \notin {Blank, "postgres", "postgresql"}, "DATABASE_URL")
    \cup NotPositive(c, {"DATABASE_CONNECT_TIMEOUT"})
    \cup When(c["DATABASE_MAX_CONNS"] \notin 1..maxDatabaseConns, "DATABASE_MAX_CONNS")
    \cup When(\/ c["DATABASE_MIN_CONNS"] < 0
              \/ c["DATABASE_MIN_CONNS"] > c["DATABASE_MAX_CONNS"], "DATABASE_MIN_CONNS")

validateRedis(c) ==
    NotPositive(c, {"REDIS_CONNECT_TIMEOUT"})
    \cup When(c["REDIS_URL"] \notin {Blank, "redis", "rediss"}, "REDIS_URL")

validateAuth(c) ==
    When(c["JWT_SECRET"] # Blank /\ c["JWT_SECRET"] < minJWTSecretLength, "JWT_SECRET")
    \cup NotPositive(c, {"ACCESS_TOKEN_TTL", "REFRESH_TOKEN_TTL"})
    \cup When(/\ c["ACCESS_TOKEN_TTL"] > 0 /\ c["REFRESH_TOKEN_TTL"] > 0
              /\ c["ACCESS_TOKEN_TTL"] >= c["REFRESH_TOKEN_TTL"], "ACCESS_TOKEN_TTL")
    \cup When(c["BCRYPT_COST"] \notin MinBcryptCost..MaxBcryptCost, "BCRYPT_COST")

(* Mutant: of several missing settings of the provider one is reported. *)
validateAIFirst(c) ==
    (IF c["AI_PROVIDER"] # "openai" THEN {}
     ELSE IF c["OPENAI_API_KEY"] = Blank THEN {"OPENAI_API_KEY"}
     ELSE {v \in Models : c[v] = Blank})
    \cup When(c["AI_PROVIDER"] \notin {"mock", "openai"}, "AI_PROVIDER")
    \cup NotPositive(c, {"EMBEDDING_DIMENSIONS", "AI_REQUEST_TIMEOUT"})

validateAI(c) ==
    (IF c["AI_PROVIDER"] = "openai"
     THEN {v \in Models \cup {"OPENAI_API_KEY"} : c[v] = Blank} ELSE {})
    \cup When(c["AI_PROVIDER"] \notin {"mock", "openai"}, "AI_PROVIDER")
    \cup NotPositive(c, {"EMBEDDING_DIMENSIONS", "AI_REQUEST_TIMEOUT"})

validate(c) ==
    When(c["ENV"] \notin {"development", "test", "production"}, "ENV")
    \cup When(c["HTTP_PORT"] \notin 1..65535, "HTTP_PORT")
    \cup validateDatabase(c) \cup validateRedis(c) \cup validateAuth(c) \cup validateAI(c)

(* Load: the variables its ValidationError names; none, and it succeeds.   *)
Problems(env) == Unreadable(env) \cup Missing(env) \cup validate(Settings(env))

-------------------------------------------------------------------------------
(* dotenv.go.  A search path lists, for the working directory and each one *)
(* above it up to the root, the kind of thing called .env there and its    *)
(* variables: "nothing", a "folder", a "file", or a file that cannot be    *)
(* reached ("forbidden") or parsed ("malformed").                          *)

dotEnvSearchDepth == 5

(* The level whose .env decides: a regular file, or one whose stat fails;  *)
(* 0 when there is none within the search depth.                           *)
findDotEnv(path) ==
    LET decisive == {i \in DOMAIN path :
                        /\ i <= dotEnvSearchDepth + 1
                        /\ path[i].kind \in {"file", "malformed", "forbidden"}}
    IN IF decisive = {} THEN 0 ELSE CHOOSE i \in decisive : \A j \in decisive : i <= j

DotEnvFails(path) == findDotEnv(path) # 0 /\ path[findDotEnv(path)].kind # "file"

(* godotenv.Load: "variables already present in the environment win", a    *)
(* blank one too.                                                          *)
Merge(env, file) == [v \in Vars |-> IF env[v] = Absent THEN file[v] ELSE env[v]]

-------------------------------------------------------------------------------
(* The checks repeated by whoever is handed a part of the settings.        *)

maxPoolSize     == 1000
minSecretLength == 32

poolConfigAccepts(c) ==
    /\ c["DATABASE_MAX_CONNS"] \in 1..maxPoolSize
    /\ c["DATABASE_MIN_CONNS"] \in 0..c["DATABASE_MAX_CONNS"]

(* bcrypt accepts a cost of 4 to 31. *)
NewHasherAccepts(c) == c["BCRYPT_COST"] \in 4..31

NewTokensAccepts(c) ==
    /\ c["JWT_SECRET"] >= minSecretLength
    /\ c["ACCESS_TOKEN_TTL"] > 0 /\ c["REFRESH_TOKEN_TTL"] > 0
    /\ c["ACCESS_TOKEN_TTL"] < c["REFRESH_TOKEN_TTL"]
===============================================================================
