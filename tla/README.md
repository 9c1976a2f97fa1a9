# FlowCast, specified

TLA+ specifications of the FlowCast backend (`src/backend`, Go), their TLC model-checking
configurations, and machine-checked proofs. Every definition names the code it stands for in
the `map` of `PROJECT.json`; this file says what is modelled and how, what each run and each
theorem shows, and what is left out. Paths below are relative to `src/backend/` unless they
start with `src/`.

## 1. Inventory

FlowCast is meant to be a modular monolith. At this commit the parts that exist are accounts
and sessions, the incident repository, schema migrations, the HTTP server around them, and
configuration; `internal/ai`, `correlation`, `evaluation`, `integrations`, `simulation` and
`workers` hold only a `doc.go`.

| Part | State it keeps | Operations | Talks to |
|---|---|---|---|
| Sessions (`internal/handlers/auth.go`, `internal/queue/sessions.go`, `internal/auth/token.go`) | revocation entries in Redis, each with a ttl; one cookie per browser; the tokens themselves carry the rest | Register, Login, Refresh, Logout; `Revoke`, `IsRevoked`; `IssuePair`, `ParseRefresh` | PostgreSQL (users), Redis, the browser |
| Users (`internal/repository/user.go`) | rows of `teams` and `users` | `CreateTeamWithOwner`, `FindByEmail`, `FindByID`, `FindTeamByID` | PostgreSQL |
| Migrations (`internal/db/migrate.go`, `migrations/`) | `schema_migrations`, the schema, one advisory lock | `Migrate`, run by every instance at startup | PostgreSQL |
| Incidents (`internal/repository/incident.go`, `internal/models`) | rows of `incidents` | `Create`, `GetByID`, `FindByExternalID`, `List`, `Update`, `Delete` | PostgreSQL |
| Server (`internal/server/server.go`, `cmd/server/main.go`) | the listener, the shutdown context, the pool and the Redis client | `Run`, `Serve`, `shutdown`; startup in a fixed order | signals, net/http, everything above |
| Health (`internal/handlers/health.go`) | none between requests; one result slot per probe within one | `ServeHTTP` | PostgreSQL, Redis |
| Middleware, responses (`internal/middleware`, `internal/api`) | per request: id, status, whether a header was written | recovery, logging, request ids, CORS, authentication | every handler |
| Configuration (`internal/config`) | none | `Load`, `validate`, `LoadDotEnv` | the environment |
| Connections (`internal/db/postgres.go`, `internal/queue/redis.go`) | the pool, the Redis client | `Connect`, which waits for the store and retries | PostgreSQL, Redis, signals |
| Domain models (`internal/models`, `validateRegistration`) | none | one `Validate` per kind of record | whoever writes the tables of `migrations/` |

How they interact: `main.run` connects to PostgreSQL, migrates, connects to Redis, builds the
router and serves until a signal. A request passes the middleware chain into a handler, which
calls the repositories (SQL over one shared pool) and the session store (Redis commands).
Handlers share no memory; they meet only in PostgreSQL, in Redis and in the browser's cookie
jar. Instances of the process meet in PostgreSQL's advisory lock and `schema_migrations`.

What is hard, and what would be correct:

- *Sessions.* A refresh checks Redis, reads PostgreSQL, writes Redis and then answers: four
  separate steps that other requests, failures, crashes, expiry and account deletion fall
  between, and a response that may never arrive. Correct means: a replaced or withdrawn token
  is dead; a deleted account's sessions end; nobody is signed out by a failing dependency; the
  store does not grow for ever.
- *Migrations.* Instances start together, die halfway, lose the answer of a COMMIT, leave
  server sessions behind that hold or wait for the lock, and come back with other builds.
  Correct means: a file takes effect once and exactly when it is recorded, in version order,
  serving instances agree, and nobody waits for ever.
- *Incidents and users.* Row-level concurrency: unique indexes decide between racing
  transactions, partial updates overlap, pages of a listing shift under insertions.
- *Server.* The listener may fail while a signal arrives; requests outlive the grace period;
  shared clients close under running handlers.
- *Health, middleware.* Panics after a part of a response was written, probes that hang.
- *Configuration and connections.* Checks over two variables hide behind checks of one; four
  places repeat limits that have to agree; a store that boots late has to be found.
- *Domain models.* Every rule exists twice, in Go and as a CHECK: what the first accepts the
  second should store, and one list of complaints should be all that a caller needs.

The hazards of `PROJECT.json` list these at their lines, with the property that covers each,
or the reason why none does.

## 2. Plan

| # | Modules | About | State |
|---|---|---|---|
| 1 | `RefreshLedger`, `Sessions`, `MCSessions`, `SessionsProofs`, `SerialProofs` | sessions and rotation; the abstract ledger; proofs, also for a serial client | done |
| 2 | `MigrationLog`, `Migrations`, `MCMigrations`, `MigrationsProofs` | migrations at startup; the abstract log; proofs | done |
| 3 | `Lifecycle`, `MCLifecycle`, `LifecycleProofs` | one process: startup, serving, signals, shutdown; proofs | done |
| 4 | `TeamShelves`, `Incidents`, `MCIncidents`, `IncidentsProofs` | tenancy, external ids, patches, pagination under writers; the abstract shelves; proofs | done |
| 5 | `Accounts`, `Registration`, `Requests`, `MCRequests`, `RequestsProofs` | the registration transaction over the pool, composed with the middleware chain, the health check and the routes behind the token; the abstract accounts; proofs | done |
| 6 | `Configuration`, `Boot`, `MCBoot`, `BootProofs` | the environment, `config.Load`, the waits for the stores, the repeated checks; a refinement of `Lifecycle`; proofs | done |
| 7 | `AccessTokens` | the access tokens over `Sessions` | done |
| 8 | `Records`, `MCRecords`, `RecordsProofs` | the `Validate` methods against the tables; proof | done |

Each module takes its sizes as CONSTANTS with a named ASSUME, has one action per statement
or handler step, and keeps recursion out, so that it can be proved about. What would come next:
new modules when the packages that only hold a `doc.go` are written.

## 3. Sessions

`Sessions.tla` models the four handlers of `auth.go` as programs over a request slot: `pc` is
the call the handler makes next, the other fields are its locals and the response's
Set-Cookie. Each call that leaves the process is one action.

| Code | Action or operator |
|---|---|
| the router's four POST routes | `SendRegister`, `SendLogin`, `SendRefresh`, `SendLogout` |
| `Register` (up to the session) | `CreateAccount`: created, taken (409), failed, or committed with its answer lost |
| `Login`, `rejectCredentials` | `VerifyCredentials` |
| `Refresh`: cookie and `ParseRefresh`; `IsRevoked`; `FindByID` and `remainingLife`; `Revoke` | `ParseRefresh`, `CheckRevoked`, `LoadUser`, `RevokeDone` / `RevokeFailed` |
| `Logout` | `ParseLogout`, then the same `RevokeDone` / `RevokeFailed` |
| `respondWithSession`, `IssuePair`, `setRefreshCookie` | `IssueSession`, `IssueFailed` |
| `rejectSession`, `clearRefreshCookie` | `SetCookie`: which answers clear the cookie |
| the answer on its way | `Deliver`, `LoseResponse` |
| the environment | `Crash`, `DeleteAccount` (no handler deletes accounts; a row may be deleted by hand), `RedisLoses`, `Tick` |

State: `acct` is the users table, `entry[t]` the ttl of `revoked:<jti>` in Redis, `life[t]`
what is left of the token's `exp`, `jar[b]` the cookie of browser `b`. `owner`, `parent`,
`root` say whose token it is, what it replaced and which session it belongs to; the code does
not store the last two, they exist to state properties. `withdrawn`, `late`, `ended` and
`redisLost` are history. Time is relative: `Tick` counts `life` and `entry` down together, so
a slow `Revoke` (its ttl computed before the tick, stored after it) makes an entry outlive its
token, as in the code. *Browsers* send what their jar holds; *scripts* may present any token
ever minted, which is what makes "a replaced token is dead" worth saying.

`Prompt = TRUE` keeps ticks out of the handlers (a request is much shorter than a token's
life); `Prompt = FALSE` allows them anywhere.

`AccessTokens.tla` EXTENDS it with the access token that `IssuePair` mints beside each refresh
token. Nothing stores one, so its remaining life is a function of the pair's age
(`AccessLife`), `ParseAccess` is `Authenticate`'s whole check, and `Bearers` are what a client
can put into the header, refresh tokens included. `Clocks` adds how long ago each session was
logged out and each account deleted.

`RefreshLedger.tla` is the abstract specification: a token is unissued, usable, dead, in that
order, and a token that replaces another is issued when that one is dead, until the store of
revocations is wiped, after which it promises nothing. `RotationIsLedger` instantiates it with
`status` computed from `minted`, `life` and `entry`, and `intact` from `redisLost`.

| Run | Instance | Shows |
|---|---|---|
| `rotation` | 1 user, 2 tokens, one script, 2 requests in flight, ttl 2, ticks anywhere, any failure or crash, Redis may lose entries | `ReplacedIsDead`, `WithdrawnRefused`, `NoLifeAfterDeletion`, the refinement `RotationIsLedger`, and the inductive invariant of the proofs |
| `serial` | `AccessTokens`: one browser, one request at a time, 3 tokens, prompt handlers, Redis may lose entries | `OneLiveToken`, `LogoutEndsSession`, `OnlyDeadCookiesCleared`; `CutoffIsBounded`: after a logout or a deletion an access token is good for less than its lifetime; `StoreDrains` under fairness |
| `two_tabs` | one browser, two requests in flight, 3 tokens | `OneLiveToken` is violated (below) |
| `expired_record` | one script, 2 requests, ticks anywhere | `WithdrawnNeverRenewed` is violated (below) |

Why the bounds are enough: two requests are needed for every race between handlers and no
handler relates three; one account, since a token never changes owner and handlers of
different accounts touch different entries; a session is a chain, and 2 tokens (3 where
a chain with both ends matters) exercise parent, child and the child's own rotation; a ttl
of 2 lets an entry be younger than, as old as, and older than what it covers; an access
lifetime of 1 is the one below it. Request slots are symmetric. When Redis loses an entry,
what rests on the entry is no longer claimed, and `StoreDrains` and `NoLifeAfterDeletion` still are: tokens
that work again die of their own age.

Fairness (`serial`): a handler's next step is weakly fair (Go runs a handler until it returns,
every call in it has the request's context and comes back), and time passes. Clients owe
nothing. `Tick` is strongly fair only because `Prompt` may disable it while a handler runs.

`StoreDrains` says that in the end no token is alive and no entry is left, for good. Minting is
bounded (`MaxTokens`), so this is what "every entry and every token ends" comes to; the
mutant that sets no ttl breaks it.

`OneLiveToken` and the cookie properties hold for a browser that sends one request at a time
(`SerialProofs` proves it), and only there: with two requests in flight the first is violated by `two_tabs`, and a 401
that arrives after another request's 200 erases a live cookie.

## 4. Migrations

`Migrations.tla` models `Migrate` and `applyMigration` statement by statement. `pc[i]` is the
statement instance `i` sends next: `lock`, `ensure`, `read`, then per file `next`, `body`,
`record`, `commit`, and `unlock`. A build is a set of files `[version, checksum]`; a checksum
stands for a file's content, and `Broken` are the contents whose SQL fails.

| Code | Action |
|---|---|
| `loadMigrations`, then `Acquire` | `Start` (a build with two files of one version fails there: `Valid`) |
| `pg_advisory_lock` | `Lock` |
| `ensureMigrationsTable`, `appliedChecksums` | `EnsureTable`, `ReadApplied` |
| the loop | `NextFile`: `Skip`, `Refuse` (`ErrChecksumMismatch`), `Begin`, in version order |
| `applyMigration` | `RunBody`, `Record`, `Commit` |
| the deferred `pg_advisory_unlock` | `Unlock` |
| an error return | `StatementFails` (rollback, unlock), `ConnectionBreaks` (neither reaches the server) |
| a killed process, a stopped instance | `Die` |
| PostgreSQL without its client | `GhostCommits` (a COMMIT that was on its way), `GhostEnds`, `StrayLocks`, `StrayEnds` (abandoned waiters) |

The advisory lock belongs to a server session, not to a process: `holder = Ghost` is a session
whose client is gone, and `strays` counts abandoned sessions still queueing. `ran[v]` counts
how often a file of version `v` took effect; `rows[v]` is what `schema_migrations` records.
Statements inside the transaction change nothing visible before `Committed`, which is why
`RunBody` and `Record` only move `pc`; their failures matter.

`MigrationLog.tla` is the abstract specification: a log with one content per version, for good,
and instances that serve only a build the log contains. `MigrateKeepsLog` instantiates it with
`log <- rows` and the instances whose `Migrate` returned.

| Run | Instance | Shows |
|---|---|---|
| `migrate` | 2 instances, 3 starts, 3 versions, six builds: current, older, one with a gap, one edited, one failing, one with a duplicate version | `RecordedIffRan`, `GapsComeFromBuilds`, `ServersAgree`, `StartsFailAlone`, the refinement, the inductive invariant |
| `migrate_ends` | 2 instances, 3 starts, two builds, fairness | `StartsEnd`: nobody waits on the lock for ever |

Bounds: two instances give every contention for the lock, the third start comes after a
failure, a death or a success with any other build; three versions are the least with a gap in
the middle. Starts are counted (`MaxStarts`), so the system does stop when they are used up
and deadlock is not checked. Instances are symmetric in `migrate`.

Fairness (`migrate_ends`): a running process sends its next statement; the server ends a
session whose client is gone; a waiter is not passed over for ever (PostgreSQL queues waiters
for a lock), which is the strong fairness of `Lock`. Nothing else is assumed: starts,
failures, deaths, ghosts' commits and strays taking the lock are free.

## 5. The process

`Lifecycle.tla` models one process. Three kinds of goroutine interleave: main (`stage` is the
call of `run`, `Serve` or `shutdown` it makes next), the goroutine `Serve` starts to accept
(`acceptor`, which sends one value on `serveResult`, here `result`), and one handler per
connection (`phase[c]`: `none`, `idle`, `running`, `query` while it holds a pooled
connection, `closed`). `pool`, `redis`, `listener` are what main opens and must close; `cut`
are the connections the server closed under a running request, `starved` the requests that met
a closed pool or client (history).

| Code | Action |
|---|---|
| `run`, top to bottom | `LoadConfig`, `ConnectPostgres`, `RunMigrations`, `VerifyEmbedding`, `ConnectRedis`, `Wire`, `Listen`; each may fail, and those that use the context fail once it is cancelled |
| `Serve`'s goroutine | `AcceptorStarts`, `AcceptorStops` (`ErrServerClosed`), `AcceptFails` |
| `Serve`'s select | `ServeReturned`, `BeginShutdown`: when both channels are ready, either |
| `shutdown` | `Drained`, `GraceExpires`, `ForceClose`, `Await` |
| the deferred calls | `CloseRedis`, then `ClosePool`, which waits for the queries |
| handlers, net/http, pgxpool | `Connect`, `Arrive`, `Acquire`, `Release`, `Starve`, `Answer` |
| the operator | `Signal`, `Kill` |

`Configuration.tla` and `Boot.tla` give the startup in detail; the rest of `Boot` is
`Lifecycle`, which it EXTENDS and refines. In `Configuration` an environment maps each variable
to nothing, an empty string, text that cannot be read as its type, or a value; `Problems` is
the set of variables that `Load`'s error names. As in the code, a value that cannot be read is
reported *and* replaced by its default, which then takes part in the checks over two variables.

| Code | Action or operator |
|---|---|
| `LoadDotEnv`, `LoadDotEnvFrom` | `findDotEnv` (the nearest regular file within six levels), `Merge` (the environment wins, with a blank variable too) |
| `Load`, `reader`, `validate` and the four it calls | `LoadSettings`: `Read`, `Unreadable`, `Missing`, `validate` |
| `poolConfig`, `redis.ParseURL` | `DialPostgres`, `DialRedis` |
| `waitForReady`, in both packages | `PingAnswered`, `PingFailed`, `PauseEnds`, `GiveUp` (the deadline or a signal), `Tick` |
| `VerifyEmbeddingDimensions` | `CompareWidths` |
| `NewHasher`, `NewTokens` | `Construct`, with the checks they repeat |
| a store that boots, or goes away | `StoreTurns` |

Time runs in the waits only: `waited` since a wait began, `paused` since its last failed ping,
`up` since the store began to answer. A ping may hang; it then uses up what is left of the wait.

| Run | Instance | Shows |
|---|---|---|
| `lifecycle` | `MCBoot`: 3,807 environments and search paths, a connect timeout of four ticks with retries every two, 3 connections, 2 signals | a clean exit dropped nothing, a failed listener is always reported, nothing is left open on any path, requests never meet a closed store unless the listener failed, and a process told to stop stops; `LaterChecksAgree`: the repeated checks refuse nothing that `Load` accepted; `OnePassSuffices`: correcting what `Load` named is enough, but for two cases (section 10); `ReadyStoreIsFound`: a wait does not give up on a store that has answered for a retry interval |
| `second_signal` | `Lifecycle` alone | `SecondSignalKills` is violated (section 10) |

Bounds: the environments are a right one with any one or two of its variables replaced by
values on both sides of each limit, every subset of what the openai provider needs, and a
developer's machine with `.env` files on each level; no check of `config.go` relates three
variables except the provider's. A wait of two retry intervals has a ping at its start, in the
middle and at its end. A handler relates to no other but through the counts "some request is running" and
"some query is running", so three connections give none, one, and a mixture that differs
between them; two signals are the least with a second one. A process ends, so deadlock is not
checked.

Fairness: main and the accepting goroutine are scheduled. A handler is *not* assumed to
return: a query has no deadline of its own. It is weakly fair only once `http.Server.Close`
has closed its connection, which cancels the request's context and with it the query.
`Boot` adds that time passes in a wait (`Tick`); stores need not come up.
`StopEnds` therefore rests on the grace period and the forced close, as it should. It is
stated until the listener fails: then `Serve` returns at once, nobody closes the connections,
and `pool.Close` waits for their queries while signals are still caught.

## 6. Incidents

`Incidents.tla` models the repository over the table shared by all teams. Every method is one
SQL statement, hence one step. What a method answers is an operator on the table it runs
against (`GetByID`, `FindByExternalID`, `CreateAnswer`, `UpdateAnswer`, `Pages`); the actions
`Create`, `Update`, `Delete` are the writes that succeed. Constraints and the partial unique
index come from `migrations/0003_incidents.sql` (`Allowed`, `Duplicate`). Title, description,
severity, source and metadata are payload and left out: a listing filters on severity and
source as it does on the status. `walk` is a client that requests one page after the other
until it was given as many as the total says; it remembers what was there when it began
(`first`) and whether the listing has since `grown` or `shrunk`.

`TeamShelves.tla` is the abstract specification of multi-tenancy: each team has a shelf of its
own, and what a team does depends on its own shelf and changes no other. `TeamsApart`
instantiates it with each team's rows.

| Run | Instance | Shows |
|---|---|---|
| `tenancy` | 2 teams, 2 ids, 1 external id, 2 statuses, 2 start times, a resolution time earlier than one of them | the constraints (`IndInv`), `TeamsAreBlind`: no answer to a team depends on another team's rows, and the refinement `TeamsApart` |
| `paging` | 1 team, 4 ids, 2 start times, a page of one or two rows, writers between the pages | `WalkMissesNothing`, `WalkRepeatsNothing` |

Bounds: two teams can collide on one external id and name each other's ids; a resolution time
that suits one start time and not the other makes the constraint bite. For paging, four
incidents give more pages than one and ties of the start time on both sides of a page's
boundary; limits are asked for below and above what `bounds` allows. External ids play
no part in a listing. Ids are used up and there is one walk per behaviour, so deadlock
is not checked; teams and external ids are symmetric in `tenancy`.

A walk may miss a row when another one leaves the listing (offsets shift back over it), and
may repeat one when another joins: the two properties say that nothing else goes wrong, in
particular not with incidents that share a start time.

## 7. Requests and registrations

Two modules compose here. `Registration.tla` is `CreateTeamWithOwner`, statement by statement,
in transactions of many requests over one connection pool: `tx[r].at` is the statement request
`r` sends next, `Held` the connections in use, `teams` and `users` the committed rows. The
database's part is what the code counts on: an INSERT of an address waits for a transaction
that has inserted it (`KeyBusy`) and fails once that one commits. `Requests.tla` EXTENDS it
with a request's way through the chain of `internal/handlers/router.go` and back; `req[r].at`
is where it is, and the rest of `req[r]` is its response: what is on the wire (`sent`, `docs`),
the `responseRecorder` (`status`, `wrote`), the log record, the slots of the health check's
probes.

| Code | Action |
|---|---|
| `RequestID`, `CORS` | `Arrive`: CORS answers a preflight before anything else sees it |
| `notFound`, `methodNotAllowed` | `Unmatched` |
| `healthHandler.ServeHTTP`, `run` | `StartProbes`; `ProbeSucceeds`, `ProbeFails` (an error or a recovered panic), `ProbesExpire`; `AnswerHealth` after `wg.Wait` |
| `Register` before the repository | `Register`: 400, 422, 500, or the call |
| `CreateTeamWithOwner` | `Begin`, `InsertTeam`, `InsertUser`, `Commit`; `StatementFails` (error or panic, rolled back by the deferred `Rollback`), `ConnectionBreaks` (COMMIT may be under way) |
| `Register` after it | `Registered`: 201, 409, 500, or the panic goes on |
| PostgreSQL without its client | `GhostEnds`: commits or rolls back |
| `Authenticate` and the handler behind it | `Authenticate`, `InnerWrites`, `InnerEnds`: any handler that sends status lines and parts of one document in any order, returns, panics or aborts |
| `Recoverer`, `Logger` | `Recover`, `Log` |

`Accounts.tla` is the abstract specification: a team and its user appear in one step, and an
address has one account. `RegistrationIsAtomic` instantiates it with the committed tables.

| Run | Instance | Shows |
|---|---|---|
| `requests` | 3 requests (any route; a registration or a health check; a registration), 2 connections, 1 address, 2 probes of which one needs a connection | a log record tells what was sent; one document per response; 201 and 409 are true and stay true; a health answer covers every dependency; registrations are atomic; every request ends |

Bounds: two registrations and one address are the least for a race on the index, and the third
request, which may register too, finds the pool empty with two connections; the address is
then held by a ghost, a transaction or an account in all orders. Three team ids, since one is
stored or held by a ghost and two are in flight. The one status a protected handler may send
differs from the recorder's 200 and from 500. A slot of `Requests` carries one request, so the
system stops and deadlock is not checked; that no request is stuck is `RequestsEnd`.

Fairness: a request moves on (`Progress`), that is, handlers return, also the ones behind the
token, the database executes a statement unless it waits for a lock or a connection, and probes
give up once their context has expired (pgx does; go-redis is taken to). A probe need not
answer before that. The server finds out about abandoned transactions (`GhostsEnd`), without
which a registration of the same address waits for ever. Failures and panics are free. Weak
fairness is enough for the wait for a connection because nobody takes one twice.

## 8. Records

`Records.tla` puts the two copies of the rules side by side: what `Validate` reports for each
kind of record, and `validateRegistration` for the form of `Register` (`Issues`), against what
the tables of `migrations/0002` to `0004` refuse (`Refusals`). Both are sets of fields. A text
is its length in characters and in bytes, the spaces around it, and whether it holds a NUL,
because these are what the two copies measure differently: `maxLen` counts bytes
(`internal/models/errors.go:62-66`, whose message says characters), `length()` counts
characters. An address is its sequence of `@`, `.` and other characters, as far as `ValidEmail`
looks. A confidence is in hundredths or NaN, a time 0 is Go's zero time and the earliest, and an
enumeration's value is known or not (`internal/models/schema_parity_test.go` compares the lists).

A form is checked (`Check`), corrected in what was reported (`Correct`, rightly or wrongly) and
written once it is accepted (`Write`). At this commit only `Register` does all of this:
`IncidentRepository.Create` is called by tests, and the `Validate` methods are called by tests
and by one another. For the tables nobody writes yet, a caller is assumed that validates and
trims as the two that exist do.

| Run | Instance | Shows |
|---|---|---|
| `records` | twelve kinds of form, each with up to two unusual fields, at both sides of every limit, texts whose bytes exceed their characters, and addresses of 320 and 321 | `AcceptedIsStored`: what is accepted is refused in exactly the gaps below; `OneRoundTrip`: from any list of complaints there is a correction of just the fields it names that is accepted, but for one incident (section 10) |

Bounds: the only checks over two fields relate two times or a hypothesis to its analysis. The
largest integer a column holds is a constant, 9 in the run.

`Gaps` says where an accepted record is refused, which a caller would see as a 500:
- a NUL in any text, which JSON can carry and PostgreSQL cannot store;
- `validateRegistration` does not bound `name` and `team_name`, the tables do at 200;
- an `external_id` of spaces, which is not `""`;
- a `causal_rank`, `root_cause_rank` or `diagnosis_latency_ms` wider than `integer`;
- a confidence that is NaN, which is neither below 0 nor above 1;
- the hypotheses of an analysis: `IncidentAnalysis.Validate` counts them and compares their
  ranks, and does not call their `Validate`, although its comment says "including its
  hypotheses" (`internal/models/analysis.go:74`);
- a scenario's `category` beyond 100 characters;
- a webhook secret of 16 bytes that are fewer characters.

A record ends when it is stored or refused, so deadlock is not checked.

## 9. Proofs

All proofs are checked by TLAPS for every value of the constants that satisfies the modules'
named assumptions (the constants' types; that sentinels such as `None` are not ordinary
values).

`SessionsProofs.tla`: `Invariance` proves `IndInv`. The properties are not inductive by
themselves; what they need is
- `EntryCovers`: an entry, and what a successful `Revoke` left, lasts at least as long as its
  token. Without it nothing says that a withdrawn token stays refused;
- `RequestSound`: what a handler has established at each step, above all that the ttl carried
  to `Revoke` covers the token's remaining life however long the step takes, and that a refresh
  reaches `IssuePair` only with its token in `withdrawn`;
- `ParentsWithdrawn`, `LateIsOrphan`, `TokenShape`: the shape of the token forest.

From it follow `TypeCorrect`, `RotationKillsParent` (`ReplacedIsDead`), `AccountDeletionSticks`
(`NoLifeAfterDeletion`), `WithdrawalSticks` (the action property `WithdrawnRefused`) and
`RotationImplementsLedger`: each action is a `Grant`, `Renew`, `Retire` or stutter of the
ledger, or the store has been wiped.

`SerialProofs.tla` proves what holds of a client that waits for each answer before it sends the
next request (`OneSlot`), for any number of tokens and any ttl, and with Redis failing and
losing entries. Each theorem assumes only what it needs:
- `OneLiveTokenWhenSerial` (`OneSlot`, `Prompt`; any number of browsers and scripts). Its
  strengthening `RefreshKnows` says that a refresh past its check holds the session's one live
  token, so the session is dead when `IssuePair` is called;
- `LogoutEndsWhenSerial` (`OneSlot`, `Prompt`, and one browser that alone holds its tokens). Its
  strengthening `LogoutKnows` says that the request carries the browser's cookie and that no
  logged-out session passes the check, so none is renewed or delivered;
- `FailuresKeepCookies` (`OneSlot` alone): `OnlyDeadCookiesCleared`, from `ClearKnows`, an empty
  cookie answers a logout or a token that is spent, and `SpentStays`, what is spent stays spent.
`two_tabs` shows why `OneSlot` is assumed, and `expired_record` why `Prompt` is: a request that
overlaps the expiry of its token can renew a withdrawn one.

Two more theorems are about `AccessTokens`, and bound how long an access token outlives what
should have ended it:
- `DeletionCutsOff` (`Prompt` alone: any number of requests in flight, of browsers and of
  scripts). `DeletionClock` says that, after a deletion, the time since then and what is left of
  any access token of the account add up to at most its lifetime, which a tick preserves and
  a grant has to establish; hence it also says that a handler which read the account before the
  deletion answers before time passes;
- `CutoffWhenSerial` (`OneSlot`, `Prompt`, one browser that alone holds its tokens): the whole of
  `CutoffIsBounded`. `LogoutClock` is the same sum from the logout of the token's session, and
  rests on `LogoutInv`: no session is renewed after its logout.
Both need that an access token's life is shorter than a refresh token's (`AccessAssumption`, as
`validateAuth` and `NewTokens` demand), because the age of the pair is the age of both.

`MigrationsProofs.tla`: `Invariance` proves `IndInv`, whose strengthening is `OneHolder` (only
the holder is between lock and unlock), `InstancesSound` (what the holder read is still what is
recorded for every file it has yet to look at, and every file behind it is recorded with its
own checksum) and `GhostCurrent` (the file a ghost may still commit is the one wanted next).
From it: `AppliedOnce`, `InVersionOrder`, `ServersShareSchema`, `ConcurrentStartsSucceed` (its
own small invariant) and `MigrateImplementsLog`.

`LifecycleProofs.tla`: `Invariance` proves `IndInv`, whose strengthening is `StoresHeld` (which
store is open at which stage of main), `ResultOnce` (what the accepting goroutine sent is in
the channel until main takes it, once) and `LeftBehind` (a request that is running when main
leaves was cut off, or the listener had failed, and `err` knows of either). From it:
`StoresStayOpen`, `CleanExit`, `FailureReported`, `AllClosed`.

`IncidentsProofs.tla`: `Invariance` proves `IndInv` (rows keep their constraints; one incident
per team and external id). `AnswersAreBlind` compares each method's answer on the table with
its answer on `Alone(rows, t)`, the table without the other teams. `TableImplementsShelves`
shows that a write to an id that is the team's or nobody's is a `Put` on its shelf
(`ShelfWrite`), which is where the team id in every WHERE clause is needed.

`PagingMissesNothing` and `PagingRepeatsNothing` hold for any number of incidents, any limits and
any writers between the pages. The argument counts: an incident's rank in the listing is the
number of incidents before it (`Rank`), which is strictly monotone because the order is total:
start times decide, ids break ties (`BeforeIsStrictOrder`, `RankInjective`). A page is a set of
consecutive ranks (`PageIsPlaced`). `MissInv` says that, as long as nothing has left the listing,
what was there at the beginning still is, and has been shown if its rank is below the offset: an
incident that joins only raises ranks (`RanksGrow`). `RepeatInv` says that, as long as nothing
has joined it, whatever has been shown and is still listed has a rank below the offset: one that
leaves only lowers ranks. The order itself stays, since no patch changes a start time
(`WritesKeepStarts`).

`RequestsProofs.tla`: a step of `Next` is the database's, the request's, or the call that is
both, and the lemmas take the two apart (`DatabaseInv`, `ResponseInv`). `Invariance` proves
`IndInv`. What `AccountsSound` adds to "one account per address" is that uncommitted rows clash
neither with committed ones nor with each other, ghosts' included; with it a commit is an `Open`
of `Accounts` whoever makes it (`RegistrationImplementsAccounts`). What `RecorderSound` adds is
that the recorder agrees with the wire wherever a request may be, from which `LogIsTrue` and
`SingleDocument` follow, and with the probes' slots `HealthVerdict`. `AnswersAreTrue` needs that
a request whose answer is out has left the repository (`AccountsStay`).

`BootProofs.tla`: `BootImplementsLifecycle` shows that each step of the detailed startup is a
step of `Lifecycle` or none, so `LifecycleProofs` carries over (`BootExitsCleanly`).
`LaterChecksAgreeAlways` holds for every environment and every `.env` file; its lemmas follow a
variable from the environment to the settings, where the work is to show that what can be read
has its type (`Typed` is assumed of the machines) and that `validate`'s bounds give those of
`poolConfig`, `NewHasher` and `NewTokens`.

`OnePassAlways` (`OnePassSuffices`) goes through `validate` variable by variable. All but six
are judged by their own value alone (`OwnValue`), so a value that was accepted in one environment
is accepted in the corrected one; what is left are the three checks over two variables
(`MixedPool`, `MixedTokens`, and the provider's in `MixedValid`). The operator's side is
`CorrectionsAssumption`: every correction is an environment that `Load` accepts, and for every
environment a process may read there is one that `Cures` it, that is, offers the largest pool,
the shortest access token, and a refresh token that lives longer than the access token in place.
(It therefore leaves out an access lifetime of 292 years, the longest duration Go has.)
The attempt at this proof corrected the property: the exception it stated for the pool was too
wide, and the one for the tokens was missing (section 10).

`ReadyStoreFound` (`ReadyStoreIsFound`), for any connect timeout and retry interval. Its
invariant `WaitInv` says that a store which answers during a pause has not done so for longer
than the pause, unless a ping hung; `ConnectTicks` is at least 1, as `validateDatabase` and
`validateRedis` demand: with a deadline that has passed at once nothing is pinged.

`RecordsProofs.tla`: one lemma per kind, for texts, addresses and numbers of any size. The core
is that a text has no more characters than bytes, that a text without bytes is the only one
without characters, and that an accepted address has at least five characters
(`AddressFits`, for the CHECK's minimum of three). `AcceptedIsStoredAlways` follows from them.

`OneRoundTripAlways` (`OneRoundTrip`) assumes that a caller may write any form without an issue
(`FullForms`); on the run's finite set of forms TLC shows the same. One lemma per kind gives the
answer to a report: a form with a good value in each reported field, which changes nothing else
and has no issue. This fails for one incident, and `NotAnswered` shows that nothing answers that
one.

Only model-checked: the liveness properties (`StoreDrains`, `StartsEnd`, `StopEnds`,
`RequestsEnd`), which need fairness and ENABLED. Every safety and action property of a run is
stated by a theorem.

## 10. Findings

1. `two_tabs`: `Refresh` asks `IsRevoked` and later calls `Revoke`, two Redis commands, and
   `Revoke` does not say that the token was revoked already. Two refreshes of one cookie in
   flight together both issue a replacement, so the worst case *is* two live tokens for one
   session, contrary to the comment at `internal/handlers/auth.go:323-324`.
2. `expired_record`: a refresh that passed signature validation just before its token expired
   asks the store after the entry expired with it; the withdrawn token is renewed. The comment
   at `internal/queue/sessions.go:33-34` says an expired token needs no record.
3. `second_signal`: `signal.NotifyContext` catches signals until `stop` is called, and `main`
   only defers `stop`. A second signal during a shutdown changes nothing, contrary to the
   comment at `cmd/server/main.go:32-34`.

Observations without a run: Redis losing its data revives withdrawn tokens, which the comment
at `internal/queue/sessions.go:20` accepts (the properties of section 3 are stated until Redis
loses something); `Logout` "always succeeds" by its comment and answers 500 when `Revoke`
fails (the cookie is cleared all the same, which `SetCookie` models); a checksum mismatch is
found after lower missing versions were applied, and `Migrate` then reports none of them;
a preflight that CORS answers and a request aborted with `http.ErrAbortHandler` leave no log
record, although `internal/middleware/logging.go:10` says one per request; the gaps of section 8;
a 500 after a COMMIT whose answer was lost may leave an account behind, and the
client's retry is answered with 409;
the total of a listing comes with its rows, so a page past the end says 0 where the comment at
`internal/repository/incident.go:58` says "the total matching the filter"; a patch that clears
`resolved_at` ("reopens an incident") leaves the status as it is unless it names one; after a
failed listener nobody closes the connections, and a handler stuck in a query keeps
`pool.Close` waiting; `nbf` is the issuer's clock, so an instance whose clock is behind refuses
a fresh token of another.

About configuration: with `DATABASE_MAX_CONNS=2000` and `DATABASE_MIN_CONNS=1500` only the
first is reported, and bringing it down to its ceiling uncovers the second, so two passes are
needed where `internal/config/config.go:116-118` promises one (`MinimumHidden`; a minimum of
1001 or more that the maximum reaches). The same happens with a refresh token's lifetime of one
nanosecond: only the access token's is reported, and no lifetime is shorter (`NoShorterLife`).
These are the exceptions that `OnePassSuffices` makes, and in both no correction of the reported
variables is enough. A variable that cannot be read is replaced by its
default before the checks, so a complaint about its partner may be spurious; the HTTP timeouts,
`SHUTDOWN_TIMEOUT` and `DATABASE_MAX_CONN_LIFETIME` are not checked for their sign; a `.env`
that is a folder is passed over, one that cannot be reached or parsed stops the start.

About forms: `Incident.Validate` reports a missing `started_at` and compares it with
`resolved_at` as if it were given. With a `resolved_at` that is Go's zero time only the start is
reported, and then every start is later than that end (`EndedBeforeAll`): the second complaint
comes in a second round trip, where `internal/models/errors.go:29-30` promises one.

## 11. Not modelled

Cryptography (bcrypt, HMAC): `Sessions` keeps its outcome, and `Records` and `Boot` the checks
around it. JSON shapes and `DecodeJSON` beyond "it decodes or it does not", headers, request
ids, log lines, error texts, the redacting `LogValue`s. Clock skew between instances. What
PostgreSQL, Redis and their drivers do inside a call: its outcomes are modelled, and for a ping
how long it takes. The pure helpers of `internal/models` that no other code calls
(`SortEventsByTime`, `Top`, `SortHypotheses`, `Duration`, `IsOpen`, `IsCausal`,
`Terminal`, the `Parse` functions), and the members of the enumerations. JSON columns other
than a scenario's target. `FindTeamByID`, a read that nothing depends on. `internal/ai`,
`correlation`, `evaluation`, `integrations`, `simulation` and `workers` hold only a `doc.go`.
