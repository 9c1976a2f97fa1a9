------------------------------- MODULE Requests -------------------------------
(***************************************************************************)
(* A request from its arrival to its log record: the middleware chain      *)
(* RequestID, CORS, Logger, Recoverer of internal/handlers/router.go, and  *)
(* behind it the health check, a registration, or a route that needs a     *)
(* token, whose handler may be any.  Requests meet in the connection pool  *)
(* and in the accounts.                                                    *)
(*                                                                         *)
(* Headers, request ids and the text of bodies are left out.  Each element *)
(* of Requests is one request: a bound on how many there are.              *)
(***************************************************************************)
EXTENDS Registration

CONSTANTS
    Asks,         \* Asks[r]: the routes request r may be for
    Checks,       \* the probes of the health check
    PooledChecks, \* those that need a connection of the pool
    InnerStatuses \* statuses a handler behind the token may send

Routes == {"preflight", "unmatched", "wrong_method", "health", "register", "protected"}

ASSUME RequestsAssumption ==
    /\ None \notin Routes /\ None \notin 200..599
    /\ None \notin {"created", "conflict", "error", "panic"}
    /\ None \notin {"running", "ok", "unavailable"}
    /\ Asks \in [Requests -> SUBSET Routes]
    /\ PooledChecks \subseteq Checks
    /\ InnerStatuses \subseteq 200..599

VARIABLE req   \* req[r]: the request's place and its response

vars == <<db, req>>

Places == Routes \cup {"none", "probing", "repository", "inner",
                       "panicked", "aborting", "returned", "done", "aborted"}

Status == 200..599

(* sent: the status line on the wire; docs: bodies begun after it; status, *)
(* wrote: the responseRecorder; logged: the status in the log record;      *)
(* probes, expired: results and context of a health check.                 *)
Request == [at : Places, route : Routes \cup {None},
            sent : Status \cup {None}, docs : Nat,
            status : Status, wrote : BOOLEAN, logged : Status \cup {None},
            probes : [Checks -> {None, "running", "ok", "unavailable"}], expired : BOOLEAN]

Unsent == [at |-> "none", route |-> None, sent |-> None, docs |-> 0,
           status |-> 200, wrote |-> FALSE, logged |-> None,
           probes |-> [c \in Checks |-> None], expired |-> FALSE]

Init == RegistrationInit /\ req = [r \in Requests |-> Unsent]

-------------------------------------------------------------------------------
(* The writer a handler is given: each operator is the request after it.   *)

OnWire(q, s) == IF q.sent = None THEN s ELSE q.sent

(* Mutant: every status is recorded, whatever went out before. *)
WriteHeaderAgain(q, s) ==
    [q EXCEPT !.status = s, !.wrote = TRUE, !.sent = OnWire(q, s)]

WriteHeader(q, s) ==
    IF q.wrote THEN q
    ELSE [[q EXCEPT !.status = s, !.sent = OnWire(q, s)] EXCEPT !.wrote = TRUE]

Write(q) == [WriteHeader(q, 200) EXCEPT !.docs = @ + 1]

WriteJSON(q, s) == Write(WriteHeader(q, s))

Become(r, q, at) == req' = [req EXCEPT ![r] = [q EXCEPT !.at = at]]

(* The handler answers with a JSON document and returns. *)
Answer(r, s) == Become(r, WriteJSON(req[r], s), "returned")

-------------------------------------------------------------------------------
(* From the outside in. *)

(* RequestID, then CORS, which answers a preflight itself. *)
Arrive(r, route) ==
    /\ req[r].at = "none"
    /\ LET q == [req[r] EXCEPT !.route = route] IN
       IF route = "preflight"
       THEN Become(r, [q EXCEPT !.sent = 200], "done")
       ELSE Become(r, q, route)
    /\ UNCHANGED db

Unmatched(r) ==
    /\ \/ req[r].at = "unmatched" /\ Answer(r, 404)
       \/ req[r].at = "wrong_method" /\ Answer(r, 405)
    /\ UNCHANGED db

-------------------------------------------------------------------------------
(* GET /health *)

StartProbes(r) ==
    /\ req[r].at = "health"
    /\ Become(r, [req[r] EXCEPT !.probes = [c \in Checks |-> "running"]], "probing")
    /\ UNCHANGED db

SetProbe(r, c, result) ==
    /\ req[r].at = "probing" /\ req[r].probes[c] = "running"
    /\ req' = [req EXCEPT ![r].probes[c] = result]
    /\ UNCHANGED db

ProbeSucceeds(r, c) == (c \in PooledChecks => PoolFree) /\ SetProbe(r, c, "ok")

(* An error, a panic, which run recovers, or the end of the context. *)
ProbeFails(r, c) == SetProbe(r, c, "unavailable")

(* context.WithTimeout *)
ProbesExpire(r) ==
    /\ req[r].at = "probing" /\ ~req[r].expired
    /\ req' = [req EXCEPT ![r].expired = TRUE]
    /\ UNCHANGED db

HealthStatus(q) == IF \A c \in Checks : q.probes[c] = "ok" THEN 200 ELSE 503

(* Mutant: the results are read without waiting for the probes. *)
AnswerHealthAtOnce(r) ==
    /\ req[r].at = "probing"
    /\ Answer(r, HealthStatus(req[r]))
    /\ UNCHANGED db

(* wg.Wait, and the verdict. *)
AnswerHealth(r) ==
    /\ req[r].at = "probing"
    /\ \A c \in Checks : req[r].probes[c] # "running"
    /\ Answer(r, HealthStatus(req[r]))
    /\ UNCHANGED db

-------------------------------------------------------------------------------
(* POST /api/v1/auth/register *)

(* Malformed, invalid, or the password cannot be hashed; or on to the      *)
(* repository.                                                             *)
Register(r) ==
    /\ req[r].at = "register"
    /\ \/ \E s \in {400, 422, 500} : Answer(r, s) /\ UNCHANGED db
       \/ \E e \in Emails :
             /\ Call(r, e) /\ UNCHANGED <<teams, users, ghosts>>
             /\ Become(r, req[r], "repository")

Repository(r) ==
    /\ req[r].at = "repository"
    /\ CreateTeamWithOwner(r)
    /\ UNCHANGED req

(* The statuses Register may answer with once the repository returned; 500 *)
(* for a session that cannot be issued to the account there now is.        *)
RegisterStatuses(result) ==
    CASE result = "created"  -> {201, 500}
      [] result = "conflict" -> {409}
      [] OTHER               -> {500}

Registered(r) ==
    /\ req[r].at = "repository" /\ tx[r].result # None
    /\ IF tx[r].result = "panic" THEN Become(r, req[r], "panicked")
       ELSE \E s \in RegisterStatuses(tx[r].result) : Answer(r, s)
    /\ UNCHANGED db

-------------------------------------------------------------------------------
(* Behind the token. *)

Authenticate(r) ==
    /\ req[r].at = "protected"
    /\ Answer(r, 401) \/ Become(r, req[r], "inner")
    /\ UNCHANGED db

(* The handler sends a status line, and perhaps another; or a part of a    *)
(* body.                                                                   *)
InnerWrites(r) ==
    /\ req[r].at = "inner"
    /\ \/ \E s \in InnerStatuses : Become(r, WriteHeader(req[r], s), "inner")
       \/ req[r].docs = 0 /\ Become(r, Write(req[r]), "inner")
    /\ UNCHANGED db

(* It returns, answers with a payload that may not encode, or panics.      *)
InnerEnds(r) ==
    /\ req[r].at = "inner"
    /\ \/ Become(r, req[r], "returned")
       \/ req[r].docs = 0 /\ \E s \in InnerStatuses \cup {500} : Answer(r, s)
       \/ \E at \in {"panicked", "aborting"} : Become(r, req[r], at)
    /\ UNCHANGED db

-------------------------------------------------------------------------------
(* From the inside out. *)

(* Mutant: the error is written whatever went out before. *)
RecoverAlways(r) ==
    /\ \/ req[r].at = "panicked" /\ Answer(r, 500)
       \/ req[r].at = "aborting" /\ Become(r, req[r], "aborted")
    /\ UNCHANGED db

(* http.ErrAbortHandler passes through everything and drops the            *)
(* connection.                                                             *)
Recover(r) ==
    /\ \/ /\ req[r].at = "panicked"
          /\ IF req[r].wrote THEN Become(r, req[r], "returned") ELSE Answer(r, 500)
       \/ req[r].at = "aborting" /\ Become(r, req[r], "aborted")
    /\ UNCHANGED db

(* Logger; net/http then sends the status line nobody has sent. *)
Log(r) ==
    /\ req[r].at = "returned"
    /\ Become(r, [req[r] EXCEPT !.logged = req[r].status, !.sent = OnWire(req[r], 200)], "done")
    /\ UNCHANGED db

-------------------------------------------------------------------------------
Handle(r) ==
    \/ Unmatched(r) \/ StartProbes(r) \/ AnswerHealth(r)
    \/ Register(r) \/ Registered(r)
    \/ Authenticate(r) \/ InnerEnds(r)
    \/ Recover(r) \/ Log(r)

(* The server finds out about abandoned transactions. *)
GhostsEnd == \E g \in ghosts : GhostEnds(g) /\ UNCHANGED req

Next ==
    \/ \E r \in Requests :
          \/ \E route \in Asks[r] : Arrive(r, route)
          \/ Handle(r) \/ Repository(r) \/ InnerWrites(r)
          \/ \E c \in Checks : ProbeSucceeds(r, c) \/ ProbeFails(r, c)
          \/ ProbesExpire(r)
    \/ GhostsEnd

Spec == Init /\ [][Next]_vars

(* A request moves on: its handler runs, also one behind the token returns, *)
(* the database executes the statement it was sent, and the probes expire  *)
(* and then give up.                                                       *)
Progress(r) ==
    \/ Handle(r)
    \/ req[r].at = "repository" /\ Statement(r) /\ UNCHANGED req
    \/ ProbesExpire(r)
    \/ req[r].expired /\ \E c \in Checks : ProbeFails(r, c)

Fairness == WF_vars(GhostsEnd) /\ \A r \in Requests : WF_vars(Progress(r))

FairSpec == Spec /\ Fairness

-------------------------------------------------------------------------------
(* Invariants. *)

TypeOK == RegistrationTypeOK /\ req \in [Requests -> Request]

(* Each request is where its route can take it. *)
RouteSound ==
    \A r \in Requests :
        LET q == req[r] IN
        /\ q.at = "none" => q = Unsent
        /\ q.at \in Routes => q.route = q.at
        /\ q.at = "probing" => q.route = "health" /\ \A c \in Checks : q.probes[c] # None
        /\ q.at = "repository" => q.route = "register"
        /\ q.at \in {"inner", "aborting"} => q.route = "protected"
        /\ q.at = "panicked" => q.route \in {"register", "protected"}

(* The recorder knows what is on the wire; our own handlers write once,    *)
(* and return after it.                                                    *)
RecorderSound ==
    \A r \in Requests :
        LET q == req[r] IN
        /\ q.at # "done" =>
              IF q.wrote THEN q.sent = q.status ELSE q.sent = None /\ q.status = 200
        /\ ~q.wrote => q.docs = 0
        /\ q.at \in Routes \cup {"probing", "repository"} => ~q.wrote
        /\ q.at = "returned" /\ q.route # "protected" => q.wrote

(* All of these together, with the database: what the steps preserve.      *)
IndInv == TypeOK /\ AccountsSound /\ ResultsTrue /\ RouteSound /\ RecorderSound

-------------------------------------------------------------------------------
(* Safety. *)

(* The log record tells what the client was sent, also after a panic: the  *)
(* Logger "observes the final status of the request, including one that a  *)
(* recovered panic turned into a 500".                                     *)
LogTellsWhatWasSent ==
    \A r \in Requests :
        req[r].at = "done" /\ req[r].route # "preflight" => req[r].logged = req[r].sent

(* One document per response: a panic adds none to what the handler has    *)
(* begun to send.                                                          *)
OneDocument == \A r \in Requests : req[r].docs <= 1

(* 201 and 409 are true: there is the account that was registered, or the  *)
(* one that has its address.                                               *)
AnswersTrue ==
    \A r \in Requests :
        /\ req[r].sent = 201 /\ req[r].route = "register" =>
              [email |-> tx[r].email, team |-> tx[r].team] \in users
        /\ req[r].sent = 409 /\ req[r].route = "register" =>
              \E u \in users : u.email = tx[r].email

(* A health answer is about every dependency, and 200 only if all of them  *)
(* answered: one that hangs hides no other.                                *)
HealthTellsAll ==
    \A r \in Requests :
        req[r].route = "health" /\ req[r].sent # None =>
            /\ \A c \in Checks : req[r].probes[c] \in {"ok", "unavailable"}
            /\ req[r].sent = HealthStatus(req[r])

OneTransaction == INSTANCE Accounts

(* "A partial failure must leave neither": teams and owners appear         *)
(* together, once per address.                                             *)
RegistrationIsAtomic == OneTransaction!AccountsSpec

-------------------------------------------------------------------------------
(* Liveness. *)

(* Every request ends, although registrations wait for connections and for *)
(* each other and a dependency may hang.                                   *)
RequestsEnd ==
    \A r \in Requests : req[r].at # "none" ~> req[r].at \in {"done", "aborted"}
===============================================================================
