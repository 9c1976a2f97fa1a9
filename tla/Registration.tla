----------------------------- MODULE Registration -----------------------------
(***************************************************************************)
(* CreateTeamWithOwner of internal/repository/user.go, statement by        *)
(* statement, in transactions of many requests over one connection pool.   *)
(* An email address stands for its normalised form.                        *)
(***************************************************************************)
EXTENDS Naturals, FiniteSets

CONSTANTS
    Requests,    \* requests the server is given
    Emails,
    Teams,       \* team ids the database may generate
    PoolSize,    \* connections of the PostgreSQL pool
    None

ASSUME RegistrationAssumption ==
    /\ IsFiniteSet(Requests)
    /\ PoolSize \in Nat \ {0}
    /\ None \notin Emails \cup Teams

VARIABLES
    teams,    \* committed rows of teams
    users,    \* committed rows of users
    tx,       \* tx[r]: what CreateTeamWithOwner of request r is doing
    ghosts    \* transactions whose client is gone, all rows written

db == <<teams, users, tx, ghosts>>

User == [email : Emails, team : Teams]

(* at: the statement to send next; result: what the call returned. *)
Tx == [at : {"none", "begin", "team", "user", "commit", "done"},
       email : Emails \cup {None}, team : Teams \cup {None},
       result : {None, "created", "conflict", "error", "panic"}]

NoTx == [at |-> "none", email |-> None, team |-> None, result |-> None]

RegistrationInit ==
    /\ teams = {} /\ users = {}
    /\ tx = [r \in Requests |-> NoTx]
    /\ ghosts = {}

(* Connections taken from the pool. *)
Held == {r \in Requests : tx[r].at \in {"team", "user", "commit"}}

PoolFree == Cardinality(Held) < PoolSize

(* Rows not committed yet. *)
TeamsInFlight == {tx[r].team : r \in Held} \cup {g.team : g \in ghosts}

(* Somebody's uncommitted row has this key: an INSERT of it waits. *)
KeyBusy(e) ==
    \/ \E r \in Requests : tx[r].at = "commit" /\ tx[r].email = e
    \/ \E g \in ghosts : g.email = e

(* Mutant: no rollback is deferred, the connection stays in its            *)
(* transaction.                                                            *)
ReturnLeaky(r, result) == tx' = [tx EXCEPT ![r].result = result]

(* The call returns: tx.Rollback, deferred, ends what was not committed and *)
(* gives the connection back, also when a panic passes through.            *)
Return(r, result) ==
    tx' = [tx EXCEPT ![r].at = "done", ![r].result = result,
                     ![r].team = IF result = "created" THEN @ ELSE None]

Call(r, e) ==
    /\ tx[r].at = "none"
    /\ tx' = [tx EXCEPT ![r].at = "begin", ![r].email = e]

(* A call waits for a connection of the pool. *)
Begin(r) ==
    /\ tx[r].at = "begin" /\ PoolFree
    /\ tx' = [tx EXCEPT ![r].at = "team"]
    /\ UNCHANGED <<teams, users, ghosts>>

(* Mutant: the team is inserted outside the transaction. *)
InsertTeamAtOnce(r) ==
    /\ tx[r].at = "team" /\ tx[r].result = None
    /\ \E t \in Teams \ (teams \cup TeamsInFlight) :
          /\ tx' = [tx EXCEPT ![r].at = "user", ![r].team = t]
          /\ teams' = teams \cup {t}
    /\ UNCHANGED <<users, ghosts>>

(* INSERT INTO teams, with a fresh id. *)
InsertTeam(r) ==
    /\ tx[r].at = "team" /\ tx[r].result = None
    /\ \E t \in Teams \ (teams \cup TeamsInFlight) :
          tx' = [tx EXCEPT ![r].at = "user", ![r].team = t]
    /\ UNCHANGED <<teams, users, ghosts>>

(* Mutant: the index on lower(email) is not unique. *)
InsertUserUnchecked(r) ==
    /\ tx[r].at = "user" /\ tx[r].result = None
    /\ tx' = [tx EXCEPT ![r].at = "commit"]
    /\ UNCHANGED <<teams, users, ghosts>>

(* INSERT INTO users: the unique index makes it wait for a transaction     *)
(* that has inserted the same address, and fail if that one commits.       *)
InsertUser(r) ==
    /\ tx[r].at = "user" /\ tx[r].result = None
    /\ ~KeyBusy(tx[r].email)
    /\ IF \E u \in users : u.email = tx[r].email
       THEN Return(r, "conflict")
       ELSE tx' = [tx EXCEPT ![r].at = "commit"]
    /\ UNCHANGED <<teams, users, ghosts>>

Store(e, t) ==
    /\ teams' = teams \cup {t}
    /\ users' = users \cup {[email |-> e, team |-> t]}

Commit(r) ==
    /\ tx[r].at = "commit" /\ tx[r].result = None
    /\ Store(tx[r].email, tx[r].team)
    /\ Return(r, "created")
    /\ UNCHANGED ghosts

(* Mutant: the error of Commit is not looked at. *)
StatementFailsQuietly(r) ==
    /\ tx[r].at \in {"begin", "team", "user", "commit"} /\ tx[r].result = None
    /\ Return(r, IF tx[r].at = "commit" THEN "created" ELSE "error")
    /\ UNCHANGED <<teams, users, ghosts>>

(* A statement fails, the request's context is cancelled or pgx panics;    *)
(* the server rolls back before anybody notices.                           *)
StatementFails(r) ==
    /\ tx[r].at \in {"begin", "team", "user", "commit"} /\ tx[r].result = None
    /\ \E result \in {"error", "panic"} : Return(r, result)
    /\ UNCHANGED <<teams, users, ghosts>>

(* The connection breaks with the user inserted; COMMIT may have been      *)
(* sent, and the server keeps the transaction until it finds out.          *)
ConnectionBreaks(r) ==
    /\ tx[r].at = "commit" /\ tx[r].result = None
    /\ ghosts' = ghosts \cup {[email |-> tx[r].email, team |-> tx[r].team]}
    /\ Return(r, "error")
    /\ UNCHANGED <<teams, users>>

(* The server rolls an abandoned transaction back, or commits it. *)
GhostEnds(g) ==
    /\ g \in ghosts
    /\ ghosts' = ghosts \ {g}
    /\ Store(g.email, g.team) \/ UNCHANGED <<teams, users>>
    /\ UNCHANGED tx

Statement(r) == Begin(r) \/ InsertTeam(r) \/ InsertUser(r) \/ Commit(r)

CreateTeamWithOwner(r) == Statement(r) \/ StatementFails(r) \/ ConnectionBreaks(r)

-------------------------------------------------------------------------------
RegistrationTypeOK ==
    /\ teams \subseteq Teams
    /\ users \subseteq User
    /\ tx \in [Requests -> Tx]
    /\ ghosts \subseteq User

(* One account per address, one user per team; rows not committed yet      *)
(* clash with none that are, nor with each other.                          *)
AccountsSound ==
    /\ teams = {u.team : u \in users}
    /\ \A u, v \in users \cup ghosts : u.email = v.email \/ u.team = v.team => u = v
    /\ \A r \in Requests :
          /\ tx[r].at \in {"user", "commit"} =>
                tx[r].team # None /\ \A u \in users \cup ghosts : u.team # tx[r].team
          /\ tx[r].at = "commit" => \A u \in users \cup ghosts : u.email # tx[r].email
    /\ \A r, s \in Requests :
          r # s /\ tx[r].at \in {"user", "commit"} /\ tx[s].at \in {"user", "commit"} =>
              /\ tx[r].team # tx[s].team
              /\ tx[r].at = "commit" /\ tx[s].at = "commit" => tx[r].email # tx[s].email
    /\ users \cap ghosts = {}

(* What the call returned is so. *)
ResultsTrue ==
    \A r \in Requests :
        /\ tx[r].at = "none" => tx[r] = NoTx
        /\ tx[r].at # "none" => tx[r].email # None
        /\ tx[r].at # "done" => tx[r].result = None
        /\ tx[r].result = "created" => [email |-> tx[r].email, team |-> tx[r].team] \in users
        /\ tx[r].result = "conflict" => \E u \in users : u.email = tx[r].email
===============================================================================
