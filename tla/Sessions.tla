------------------------------- MODULE Sessions -------------------------------
(***************************************************************************)
(* Refresh-token sessions: the Register, Login, Refresh and Logout         *)
(* handlers of internal/handlers/auth.go, the Redis revocation store of    *)
(* internal/queue/sessions.go, the user rows they read, and the cookie     *)
(* each browser holds.  Every call that leaves the process (a query, a     *)
(* Redis command) is a step of its own, so requests interleave between     *)
(* them; a response may be lost and the process may die at any point.      *)
(*                                                                         *)
(* Time is relative: life[t] is how long token t stays valid and entry[t]  *)
(* how long Redis keeps its revocation, both counted down by Tick.         *)
(***************************************************************************)
EXTENDS Naturals, FiniteSets

CONSTANTS
    Users,          \* account ids the database may hand out
    MaxTokens,      \* refresh tokens minted in a behaviour: a bound
    Browsers,       \* clients with a cookie jar
    Scripts,        \* clients that keep, and may present, every token minted
    Requests,       \* requests in flight at once: a bound
    RefreshTTL,     \* FLOWCAST_REFRESH_TOKEN_TTL, in ticks
    None,           \* no user, no token, no cookie
    Keep,           \* a response without a Set-Cookie header
    RedisMayLose,   \* TRUE: Redis can lose entries (a wipe, a lost append)
    Prompt          \* TRUE: no tick falls inside a handler

(* A refresh token is named by the order it was minted in (its jti is a    *)
(* random UUID).                                                           *)
Tokens == 1..MaxTokens

ASSUME SessionsAssumption ==
    /\ MaxTokens \in Nat
    /\ RefreshTTL \in Nat \ {0}
    /\ None \notin Users \cup Tokens \cup Browsers \cup Scripts
    /\ Browsers \cap Scripts = {}
    /\ Keep \notin Tokens \cup {None}
    /\ RedisMayLose \in BOOLEAN
    /\ Prompt \in BOOLEAN

VARIABLES
    acct,      \* acct[u]: "none", "live" or "gone": the row of users
    minted,    \* how many tokens were minted
    owner,     \* owner[t]: the subject of token t, or None
    parent,    \* parent[t]: the token t was minted to replace, or None
    root,      \* root[t]: the first token of t's session, or None
    life,      \* life[t]: ticks until t expires
    entry,     \* entry[t]: ticks until Redis drops t's revocation, 0: none
    jar,       \* jar[b]: the refresh cookie browser b holds, or None
    req,       \* req[r]: the request in slot r
    withdrawn, \* history: tokens whose Revoke returned success
    late,      \* history: tokens minted after their account was deleted
    ended,     \* history: sessions whose logout revoked the token presented
    redisLost  \* history: Redis has lost an entry

stores  == <<acct, minted, owner, parent, root, life, entry>>
history == <<withdrawn, late, ended, redisLost>>
vars    == <<stores, jar, req, history>>

Issued    == 1..minted
Usable(t) == life[t] > 0 /\ entry[t] = 0

(* A request at step pc of operation op, with its handler's locals and the *)
(* Set-Cookie header of its response.                                      *)
Request(pc, op, by, user, tok, cookie) ==
    [pc |-> pc, op |-> op, by |-> by, user |-> user, tok |-> tok, ttl |-> 0,
     cookie |-> cookie]

Idle == Request("idle", "none", None, None, None, Keep)

(* Mutant: a refresh that fails for any reason clears the cookie. *)
SetCookieOnFailure(q, status) ==
    IF q.op \in {"logout", "refresh"} /\ q.tok # None THEN None ELSE Keep

(* The Set-Cookie header an answer carries: every logout clears the        *)
(* cookie, a refresh does when it refuses the token itself (401), and only *)
(* a new session sets one.                                                 *)
SetCookie(q, status) ==
    IF \/ q.op = "logout"
       \/ q.op = "refresh" /\ status = 401 /\ q.tok # None
    THEN None ELSE Keep

Goto(r, next) == req' = [req EXCEPT ![r].pc = next, ![r].ttl = 0]

(* The handler returns; of its locals only the response is left. *)
Reply(r, cookie) ==
    req' = [req EXCEPT ![r] =
               Request("reply", req[r].op, req[r].by, None, None, cookie)]

Answer(r, status) == Reply(r, SetCookie(req[r], status))

At(r, op, pc) == req[r].op = op /\ req[r].pc = pc

Init ==
    /\ acct = [u \in Users |-> "none"]
    /\ minted = 0
    /\ owner = [t \in Tokens |-> None]
    /\ parent = [t \in Tokens |-> None]
    /\ root = [t \in Tokens |-> None]
    /\ life = [t \in Tokens |-> 0]
    /\ entry = [t \in Tokens |-> 0]
    /\ jar = [b \in Browsers |-> None]
    /\ req = [r \in Requests |-> Idle]
    /\ withdrawn = {} /\ late = {} /\ ended = {} /\ redisLost = FALSE

-------------------------------------------------------------------------------
(* A client sends a request.  From a browser, a session request carries    *)
(* the cookie the jar holds at that moment.                                *)

Presentable(c) == IF c \in Browsers THEN {jar[c]} ELSE Issued \cup {None}

Send(r, c, op, pc, user, tok) ==
    /\ req[r].pc = "idle"
    /\ req' = [req EXCEPT ![r] = Request(pc, op, c, user, tok, Keep)]
    /\ UNCHANGED <<stores, jar, history>>

SendRegister(r, c) == Send(r, c, "register", "create", None, None)
SendLogin(r, c)    == \E u \in Users : Send(r, c, "login", "verify", u, None)
SendRefresh(r, c)  == \E t \in Presentable(c) : Send(r, c, "refresh", "parse", None, t)
SendLogout(r, c)   == \E t \in Presentable(c) : Send(r, c, "logout", "parse", None, t)

-------------------------------------------------------------------------------
(* Register and Login, up to the session they end in. *)

(* CreateTeamWithOwner: one transaction, here one step (Registration       *)
(* models its inside).  A commit may succeed and its answer be lost.       *)
CreateAccount(r) ==
    /\ At(r, "register", "create")
    /\ \/ \E u \in Users :
             /\ acct[u] = "none"
             /\ acct' = [acct EXCEPT ![u] = "live"]
             /\ \/ req' = [req EXCEPT ![r].pc = "issue", ![r].user = u]
                \/ Answer(r, 500)
       \/ /\ \E u \in Users : acct[u] = "live"
          /\ Answer(r, 409)
          /\ UNCHANGED acct
       \/ Answer(r, 500) /\ UNCHANGED acct
    /\ UNCHANGED <<minted, owner, parent, root, life, entry, jar, history>>

(* FindByEmail, then Verify: the hash may not match, the query may fail. *)
VerifyCredentials(r) ==
    /\ At(r, "login", "verify")
    /\ \/ acct[req[r].user] = "live" /\ Goto(r, "issue")
       \/ Answer(r, 401)
       \/ Answer(r, 500)
    /\ UNCHANGED <<stores, jar, history>>

-------------------------------------------------------------------------------
(* Refresh and Logout. *)

(* ParseRefresh accepts a token until it expires. *)
Parses(t) == t # None /\ life[t] > 0

(* Mutants: a remaining life rounded down, or up, by a tick. *)
RemainingLifeFloor(t) == life[t] - 1
RemainingLifeCeil(t)  == life[t] + 1

(* remainingLife: read just before Revoke, which may be slow to arrive. *)
RemainingLife(t) == life[t]

ParseRefresh(r) ==
    /\ At(r, "refresh", "parse")
    /\ IF Parses(req[r].tok) THEN Goto(r, "check") ELSE Answer(r, 401)
    /\ UNCHANGED <<stores, jar, history>>

(* Mutant: an unreachable Redis counts as "not revoked". *)
CheckRevokedFailOpen(r) ==
    /\ At(r, "refresh", "check")
    /\ \/ entry[req[r].tok] > 0 /\ Answer(r, 401)
       \/ Goto(r, "load")
    /\ UNCHANGED <<stores, jar, history>>

(* IsRevoked: an unreachable Redis fails the request, it is no answer. *)
CheckRevoked(r) ==
    /\ At(r, "refresh", "check")
    /\ \/ entry[req[r].tok] > 0 /\ Answer(r, 401)
       \/ entry[req[r].tok] = 0 /\ Goto(r, "load")
       \/ Answer(r, 500)
    /\ UNCHANGED <<stores, jar, history>>

(* Mutants: the claims are trusted, no row needed; the replacement is      *)
(* issued before the old token is revoked.                                 *)
LoadUserTrusting(r) ==
    /\ At(r, "refresh", "load")
    /\ req' = [req EXCEPT ![r].pc = "revoke", ![r].user = owner[req[r].tok],
                          ![r].ttl = RemainingLife(req[r].tok)]
    /\ UNCHANGED <<stores, jar, history>>

LoadUserIssuing(r) ==
    /\ At(r, "refresh", "load")
    /\ acct[owner[req[r].tok]] = "live"
    /\ req' = [req EXCEPT ![r].pc = "issue", ![r].user = owner[req[r].tok]]
    /\ UNCHANGED <<stores, jar, history>>

(* FindByID on the token's subject. *)
LoadUser(r) ==
    LET u == owner[req[r].tok] IN
    /\ At(r, "refresh", "load")
    /\ \/ /\ acct[u] = "live"
          /\ req' = [req EXCEPT ![r].pc = "revoke", ![r].user = u,
                                ![r].ttl = RemainingLife(req[r].tok)]
       \/ acct[u] # "live" /\ Answer(r, 401)
       \/ Answer(r, 500)
    /\ UNCHANGED <<stores, jar, history>>

ParseLogout(r) ==
    /\ At(r, "logout", "parse")
    /\ IF Parses(req[r].tok)
          THEN req' = [req EXCEPT ![r].pc = "revoke",
                                  ![r].ttl = RemainingLife(req[r].tok)]
          ELSE Answer(r, 204)
    /\ UNCHANGED <<stores, jar, history>>

(* Revoke: SET key "1" with the ttl computed earlier; nothing is sent for  *)
(* a token that had expired by then.                                       *)
Stored(t, ttl) == IF ttl = 0 THEN entry ELSE [entry EXCEPT ![t] = ttl]

RevokeDone(r) ==
    /\ req[r].pc = "revoke"
    /\ entry' = Stored(req[r].tok, req[r].ttl)
    /\ withdrawn' = withdrawn \cup {req[r].tok}
    /\ \/ req[r].op = "refresh" /\ Goto(r, "issue") /\ UNCHANGED ended
       \/ /\ req[r].op = "logout"
          /\ Answer(r, 204)
          /\ ended' = ended \cup {root[req[r].tok]}
    /\ UNCHANGED <<acct, minted, owner, parent, root, life, jar, late, redisLost>>

(* Mutant: a refresh goes on when Redis does not answer. *)
RevokeFailedIgnored(r) ==
    /\ req[r].pc = "revoke"
    /\ IF req[r].op = "refresh" THEN Goto(r, "issue") ELSE Answer(r, 500)
    /\ UNCHANGED <<stores, jar, history>>

(* The command failed or its answer was lost: it may have been applied. *)
RevokeFailed(r) ==
    /\ req[r].pc = "revoke"
    /\ req[r].ttl > 0
    /\ entry' \in {entry, Stored(req[r].tok, req[r].ttl)}
    /\ Answer(r, 500)
    /\ UNCHANGED <<acct, minted, owner, parent, root, life, jar, history>>

-------------------------------------------------------------------------------
(* respondWithSession, the response on its way, and what may go wrong. *)

(* IssuePair and setRefreshCookie. *)
IssueSession(r) ==
    /\ req[r].pc = "issue"
    /\ minted < MaxTokens
    /\ minted' = minted + 1
    /\ LET t == minted + 1 IN
          /\ owner' = [owner EXCEPT ![t] = req[r].user]
          /\ parent' = [parent EXCEPT ![t] = req[r].tok]
          /\ root' = [root EXCEPT ![t] = IF req[r].tok = None THEN t ELSE root[req[r].tok]]
          /\ life' = [life EXCEPT ![t] = RefreshTTL]
          /\ late' = IF acct[req[r].user] = "live" THEN late ELSE late \cup {t}
          /\ Reply(r, t)
    /\ UNCHANGED <<acct, entry, jar, withdrawn, ended, redisLost>>

IssueFailed(r) ==
    /\ req[r].pc = "issue"
    /\ Answer(r, 500)
    /\ UNCHANGED <<stores, jar, history>>

Deliver(r) ==
    /\ req[r].pc = "reply"
    /\ jar' = IF req[r].cookie = Keep \/ req[r].by \in Scripts THEN jar
              ELSE [jar EXCEPT ![req[r].by] = req[r].cookie]
    /\ req' = [req EXCEPT ![r] = Idle]
    /\ UNCHANGED <<stores, history>>

(* The connection broke: the browser never sees the answer. *)
LoseResponse(r) ==
    /\ req[r].pc = "reply"
    /\ req' = [req EXCEPT ![r] = Idle]
    /\ UNCHANGED <<stores, jar, history>>

(* The process dies: every request in flight dies with it. *)
Crash ==
    /\ \E r \in Requests : req[r].pc # "idle"
    /\ req' = [r \in Requests |-> Idle]
    /\ UNCHANGED <<stores, jar, history>>

(* An operator deletes the account; no handler does. *)
DeleteAccount(u) ==
    /\ acct[u] = "live"
    /\ acct' = [acct EXCEPT ![u] = "gone"]
    /\ UNCHANGED <<minted, owner, parent, root, life, entry, jar, req, history>>

RedisLoses ==
    /\ RedisMayLose
    /\ \E S \in SUBSET {t \in Tokens : entry[t] > 0} :
          /\ S # {}
          /\ entry' = [t \in Tokens |-> IF t \in S THEN 0 ELSE entry[t]]
    /\ redisLost' = TRUE
    /\ UNCHANGED <<acct, minted, owner, parent, root, life, jar, req, withdrawn, late, ended>>

(* Mutant: the revocation is stored without an expiry. *)
TickPersistent ==
    /\ \E t \in Tokens : life[t] > 0
    /\ life' = [t \in Tokens |-> IF life[t] = 0 THEN 0 ELSE life[t] - 1]
    /\ UNCHANGED <<acct, minted, owner, parent, root, entry, jar, req, history>>

(* A tick: tokens age and Redis expires what is due. *)
Aged(f) == [t \in Tokens |-> IF f[t] = 0 THEN 0 ELSE f[t] - 1]

Tick ==
    /\ \E t \in Tokens : life[t] > 0 \/ entry[t] > 0
    /\ Prompt => \A r \in Requests : req[r].pc \notin {"check", "load", "revoke", "issue"}
    /\ life' = Aged(life)
    /\ entry' = Aged(entry)
    /\ UNCHANGED <<acct, minted, owner, parent, root, jar, req, history>>

-------------------------------------------------------------------------------
(* What one request does next: a step of its handler, then its response. *)
Handle(r) ==
    \/ CreateAccount(r) \/ VerifyCredentials(r)
    \/ ParseRefresh(r) \/ CheckRevoked(r) \/ LoadUser(r)
    \/ ParseLogout(r)
    \/ RevokeDone(r) \/ RevokeFailed(r)
    \/ IssueSession(r) \/ IssueFailed(r)
    \/ Deliver(r) \/ LoseResponse(r)

Submit(r, c) ==
    \/ SendRegister(r, c) \/ SendLogin(r, c)
    \/ SendRefresh(r, c) \/ SendLogout(r, c)

Next ==
    \/ \E r \in Requests, c \in Browsers \cup Scripts : Submit(r, c)
    \/ \E r \in Requests : Handle(r)
    \/ Crash
    \/ \E u \in Users : DeleteAccount(u)
    \/ RedisLoses
    \/ Tick

Spec == Init /\ [][Next]_vars

(* Handlers run to an answer and time passes; clients owe nothing.  Tick   *)
(* is strongly fair because Prompt, a choice of grain, may disable it for  *)
(* as long as one handler runs.                                            *)
Fairness ==
    /\ \A r \in Requests : WF_vars(Handle(r))
    /\ SF_vars(Tick)

FairSpec == Spec /\ Fairness

-------------------------------------------------------------------------------
(* Invariants. *)

RequestType ==
    [pc : {"idle", "create", "verify", "parse", "check", "load", "revoke",
           "issue", "reply"},
     op : {"none", "register", "login", "refresh", "logout"},
     by : Browsers \cup Scripts \cup {None}, user : Users \cup {None},
     tok : Tokens \cup {None}, ttl : 0..RefreshTTL,
     cookie : Tokens \cup {None, Keep}]

(* The state has its shape: what every handler of auth.go may assume.      *)
TypeOK ==
    /\ acct \in [Users -> {"none", "live", "gone"}]
    /\ minted \in 0..MaxTokens
    /\ owner \in [Tokens -> Users \cup {None}]
    /\ parent \in [Tokens -> Tokens \cup {None}]
    /\ root \in [Tokens -> Tokens \cup {None}]
    /\ life \in [Tokens -> 0..RefreshTTL]
    /\ entry \in [Tokens -> 0..RefreshTTL]
    /\ jar \in [Browsers -> Tokens \cup {None}]
    /\ req \in [Requests -> RequestType]
    /\ withdrawn \subseteq Tokens /\ late \subseteq Tokens /\ ended \subseteq Tokens
    /\ redisLost \in BOOLEAN

(* An unminted token has left no trace; a minted one names a minted parent *)
(* and a minted root.                                                      *)
TokenShape ==
    \A t \in Tokens :
        IF t > minted
        THEN /\ owner[t] = None /\ parent[t] = None /\ root[t] = None
             /\ life[t] = 0 /\ entry[t] = 0
             /\ t \notin withdrawn /\ t \notin late
        ELSE owner[t] \in Users /\ root[t] \in Issued /\ parent[t] \in Issued \cup {None}

(* Until Redis loses something, a revocation it has outlives the token it  *)
(* cancels, and a Revoke that returned success left one unless the token   *)
(* had expired.                                                            *)
EntryCovers ==
    ~redisLost => \A t \in Tokens :
        entry[t] > 0 \/ t \in withdrawn => entry[t] >= life[t]

ParentsWithdrawn == \A t \in Tokens : parent[t] # None => parent[t] \in withdrawn

(* A token minted too late belongs to a deleted account and is no parent. *)
LateIsOrphan ==
    /\ \A t \in late : t \in Issued /\ acct[owner[t]] = "gone"
    /\ \A t \in Tokens : parent[t] \notin late

(* What a request has established by the time it is at each step: the ttl  *)
(* a slow Revoke carries still covers what is left of the token, and no    *)
(* refresh reaches IssuePair before its Revoke returned.                   *)
RequestSound(q) ==
    /\ q.pc = "idle" \/ q.by # None
    /\ q.cookie \in Issued \cup {None, Keep}
    /\ q.pc = "verify" => q.user \in Users
    /\ q.tok # None => q.tok \in Issued /\ q.op \in {"refresh", "logout"}
    /\ q.pc \in {"check", "load"} => q.op = "refresh"
    /\ q.pc \in {"check", "load", "revoke"} => q.tok # None
    /\ q.pc = "revoke" => q.ttl >= life[q.tok]
    /\ q.pc = "issue" =>
          /\ q.user \in Users /\ acct[q.user] # "none"
          /\ q.op # "logout"
          /\ q.op = "refresh" <=> q.tok # None
          /\ q.op = "refresh" => q.tok \in withdrawn
    /\ q.op = "refresh" /\ q.pc = "revoke" =>
          q.user \in Users /\ acct[q.user] # "none"
    /\ q.op = "refresh" /\ q.pc \in {"revoke", "issue"} => q.tok \notin late

JarsIssued == \A b \in Browsers : jar[b] \in Issued \cup {None}

RequestsSound == \A r \in Requests : RequestSound(req[r])

(* The inductive invariant behind the theorems of SessionsProofs. *)
IndInv ==
    /\ TypeOK /\ TokenShape /\ EntryCovers /\ ParentsWithdrawn
    /\ LateIsOrphan /\ JarsIssued /\ RequestsSound

-------------------------------------------------------------------------------
(* Safety. *)

(* Refresh: "the presented token is rotated, not reused".  Once a          *)
(* replacement exists the token it replaced no longer works, whatever      *)
(* requests, crashes, slow or failed Redis commands came in between.       *)
ReplacedIsDead ==
    ~redisLost => \A t \in Tokens : parent[t] # None => ~Usable(parent[t])

(* A token whose Revoke returned success is refused by every later check   *)
(* made while it is valid, also in a request that was already on its way.  *)
WithdrawnRefused ==
    [][\A r \in Requests :
          /\ ~redisLost
          /\ req[r].pc = "check"
          /\ req[r].tok \in withdrawn /\ life[req[r].tok] > 0
          => req'[r].pc # "load"]_vars

(* A session outlives its account by at most one token: one may be minted  *)
(* by a request that had already read the user row, and FindByID keeps it  *)
(* from ever being renewed.                                                *)
NoLifeAfterDeletion == \A t \in Tokens : parent[t] \notin late

(* Refresh revokes first so that there are never "two live tokens for one  *)
(* session".                                                               *)
OneLiveToken ==
    ~redisLost =>
        \A s, t \in Issued : root[s] = root[t] /\ Usable(s) /\ Usable(t) => s = t

(* A browser is made to forget its cookie only by a logout, or when the    *)
(* cookie would not have worked any more: a failing Redis or database      *)
(* signs nobody out (Refresh clears the cookie with a 401, never a 500).   *)
OnlyDeadCookiesCleared ==
    [][\A b \in Browsers :
          ~redisLost /\ jar[b] # None /\ jar'[b] = None =>
              \/ ~Usable(jar[b])
              \/ acct[owner[jar[b]]] # "live"
              \/ \E r \in Requests : req[r].by = b /\ At(r, "logout", "reply")]_vars

(* After a Logout that answered 204, what the browser still holds of that  *)
(* session is dead, also when the answer never reached it.                 *)
LogoutEndsSession ==
    ~redisLost =>
        \A b \in Browsers :
            jar[b] # None /\ root[jar[b]] \in ended => ~Usable(jar[b])

(* Revoke: "an expired token is already refused by signature validation    *)
(* and needs no record", so a withdrawn token is never renewed, whether    *)
(* its record is still there or has expired.                               *)
WithdrawnNeverRenewed ==
    [][\A r \in Requests :
          req[r].pc = "check" /\ req[r].tok \in withdrawn => req'[r].pc # "load"]_vars

(* The ledger this code keeps between PostgreSQL, Redis and the cookies. *)
Status(t) ==
    IF t > minted THEN "unissued" ELSE IF Usable(t) THEN "usable" ELSE "dead"

LedgerStatus == [t \in Tokens |-> Status(t)]

Ledger == INSTANCE RefreshLedger WITH status <- LedgerStatus, intact <- ~redisLost

(* Rotation implements the ledger: usable once, dead for good, replaced    *)
(* only when dead, until Redis is wiped.                                   *)
RotationIsLedger == Ledger!LedgerSpec

-------------------------------------------------------------------------------
(* Liveness. *)

(* Every token dies and the store forgets it, for good: "the store never   *)
(* grows without bound", and "nothing durable is lost if Redis is wiped".  *)
(* Behaviours mint MaxTokens tokens at most, so this is about each of them.*)
StoreDrains == <>[](\A t \in Tokens : life[t] = 0 /\ entry[t] = 0)
===============================================================================
