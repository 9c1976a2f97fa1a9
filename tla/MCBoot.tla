-------------------------------- MODULE MCBoot --------------------------------
(* A small instance of Boot for TLC: an environment that is right, every   *)
(* way to change one or two of its variables, and every subset of what the *)
(* openai provider needs.                                                  *)
EXTENDS Boot, TLC

Baseline ==
    [v \in Vars |-> CASE v = "DATABASE_URL" -> "postgres"
                      [] v = "REDIS_URL"    -> "redis"
                      [] v = "JWT_SECRET"   -> 32
                      [] OTHER              -> Absent]

(* Values at and around the limits of each check. *)
Trial(v) ==
    CASE v = "ENV"                      -> {Blank, "staging"}
      [] v = "HTTP_PORT"                -> {0, 65535, 65536, Garbled}
      [] v = "LOG_LEVEL"                -> {Garbled}
      [] v = "CORS_ORIGINS"             -> {Garbled}
      [] v \in {"DATABASE_URL", "REDIS_URL"} -> {Absent, Blank, Garbled, "http"}
      [] v = "JWT_SECRET"               -> {Blank, 31}
      [] v = "DATABASE_MAX_CONNS"       -> {0, 1, 1000, 1001, 2000, Garbled}
      [] v = "DATABASE_MIN_CONNS"       -> {-1, 0, 1, 11, 1000, 1001, 3000, Garbled}
      [] v = "BCRYPT_COST"              -> {3, 4, 31, 32, Garbled}
      [] v = "ACCESS_TOKEN_TTL"         -> {0, 1, 900, 2592000, Garbled}
      [] v = "REFRESH_TOKEN_TTL"        -> {0, 1, 2, 900, 901, Garbled}
      [] v = "EMBEDDING_DIMENSIONS"     -> {0, 768, Garbled}
      [] v \in Durations                -> {-1, 0, Garbled}
      [] v = "AI_PROVIDER"              -> {"openai", "other"}
      [] OTHER                          -> {Blank, "set"}

Trials == UNION {{<<v, x>> : x \in Trial(v)} : v \in Vars}

Openai ==
    {[v \in Vars |-> IF v = "AI_PROVIDER" THEN "openai"
                     ELSE IF v \in S THEN "set" ELSE Baseline[v]] :
        S \in SUBSET (Models \cup {"OPENAI_API_KEY"})}

Deployed ==
    {[[Baseline EXCEPT ![t[1]] = t[2]] EXCEPT ![u[1]] = u[2]] : t \in Trials, u \in Trials}
    \cup Openai

(* On a developer's machine the required variables come from a file; the   *)
(* one that is used is the nearest, down to the sixth level.               *)
File(max)   == [kind |-> "file", vars |-> [Baseline EXCEPT !["DATABASE_MAX_CONNS"] = max]]
None(kind)  == [kind |-> kind, vars |-> [v \in Vars |-> Absent]]
Local       == [[v \in Vars |-> Absent] EXCEPT !["JWT_SECRET"] = 32]
LocalBlank  == [Local EXCEPT !["DATABASE_MAX_CONNS"] = Blank]
Paths ==
    {<<>>, <<File(5)>>, <<None("folder"), File(0), File(5)>>, <<None("forbidden"), File(5)>>,
     <<None("malformed"), File(5)>>,
     [i \in 1..6 |-> IF i = 6 THEN File(5) ELSE None("nothing")],
     [i \in 1..7 |-> IF i = 7 THEN File(5) ELSE None("nothing")]}

MCMachines ==
    [env : Deployed, path : {<<>>}] \cup [env : {Local, LocalBlank}, path : Paths]

MCCorrections ==
    {[v \in Vars |->
        CASE v = "DATABASE_URL"       -> "postgres"
          [] v = "REDIS_URL"          -> "redis"
          [] v = "JWT_SECRET"         -> 32
          [] v = "DATABASE_MAX_CONNS" -> 1000
          [] v = "DATABASE_MIN_CONNS" -> 0
          [] v = "ACCESS_TOKEN_TTL"   -> 1
          [] v = "REFRESH_TOKEN_TTL"  -> 5184000
          [] v \in Models \cup {"OPENAI_API_KEY"} -> "set"
          [] OTHER                    -> Absent]}
===============================================================================
