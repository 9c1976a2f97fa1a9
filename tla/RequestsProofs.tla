---------------------------- MODULE RequestsProofs ----------------------------
(***************************************************************************)
(* What requests are told is so, what the log tells is what they were      *)
(* told, and registrations implement Accounts: for any number of requests, *)
(* connections, addresses and probes.                                      *)
(*                                                                         *)
(* The lemmas take a step of the database and a step of the request apart: *)
(* every step of Next is one, the other, or the call that makes both.      *)
(***************************************************************************)
EXTENDS Requests, TLAPS

(* w is q, at another place. *)
Moved(q, w, at) ==
    /\ w.at = at
    /\ w.route = q.route /\ w.sent = q.sent /\ w.docs = q.docs
    /\ w.status = q.status /\ w.wrote = q.wrote /\ w.logged = q.logged
    /\ w.probes = q.probes /\ w.expired = q.expired

(* A request elsewhere has the same response. *)
LEMMA Elsewhere ==
  ASSUME NEW q \in Request, NEW at \in Places
  PROVE  [q EXCEPT !.at = at] \in Request /\ Moved(q, [q EXCEPT !.at = at], at)
  <1>1. [q EXCEPT !.at = at] \in Request
    BY DEF Request
  <1> QED
    BY <1>1 DEF Request, Moved

(* What WriteHeader does to a response, and to nothing else. *)
LEMMA HeaderWritten ==
  ASSUME NEW q \in Request, NEW s \in Status
  PROVE  LET w == WriteHeader(q, s) IN
         /\ w \in Request /\ w.wrote
         /\ w.at = q.at /\ w.route = q.route /\ w.docs = q.docs
         /\ w.logged = q.logged /\ w.probes = q.probes /\ w.expired = q.expired
         /\ q.wrote => w.sent = q.sent /\ w.status = q.status
         /\ ~q.wrote /\ q.sent = None => w.sent = s /\ w.status = s
  <1>1. CASE q.wrote
    BY <1>1 DEF WriteHeader
  <1>2. CASE ~q.wrote
    <2>1. ASSUME NEW o \in Status
          PROVE  LET v == [q EXCEPT !.status = s, !.sent = o] IN
                 /\ v \in Request /\ v.sent = o /\ v.status = s
                 /\ v.at = q.at /\ v.route = q.route /\ v.docs = q.docs
                 /\ v.logged = q.logged /\ v.probes = q.probes /\ v.expired = q.expired
      <3>1. [q EXCEPT !.status = s, !.sent = o] \in Request
        BY DEF Request
      <3> QED
        BY <3>1 DEF Request
    <2>2. ASSUME NEW v \in Request
          PROVE  LET w == [v EXCEPT !.wrote = TRUE] IN
                 /\ w \in Request /\ w.wrote
                 /\ w.sent = v.sent /\ w.status = v.status
                 /\ w.at = v.at /\ w.route = v.route /\ w.docs = v.docs
                 /\ w.logged = v.logged /\ w.probes = v.probes /\ w.expired = v.expired
      <3>1. [v EXCEPT !.wrote = TRUE] \in Request
        BY DEF Request
      <3>2. [v EXCEPT !.wrote = TRUE].wrote
        BY DEF Request
      <3> QED
        BY <3>1, <3>2 DEF Request
    <2>3. OnWire(q, s) \in Status /\ (q.sent = None => OnWire(q, s) = s)
      BY DEF OnWire, Request
    <2> DEFINE v == [q EXCEPT !.status = s, !.sent = OnWire(q, s)]
    <2>4. /\ v \in Request /\ v.sent = OnWire(q, s) /\ v.status = s
          /\ v.at = q.at /\ v.route = q.route /\ v.docs = q.docs
          /\ v.logged = q.logged /\ v.probes = q.probes /\ v.expired = q.expired
      BY <2>1, <2>3, Zenon
    <2>5. WriteHeader(q, s) = [v EXCEPT !.wrote = TRUE]
      BY <1>2 DEF WriteHeader
    <2> DEFINE w == [v EXCEPT !.wrote = TRUE]
    <2> HIDE DEF v
    <2>6. /\ w \in Request /\ w.wrote
          /\ w.sent = v.sent /\ w.status = v.status
          /\ w.at = v.at /\ w.route = v.route /\ w.docs = v.docs
          /\ w.logged = v.logged /\ w.probes = v.probes /\ w.expired = v.expired
      BY <2>2, <2>4, Zenon
    <2> HIDE DEF w
    <2>7. WriteHeader(q, s) = w
      BY <2>5 DEF w
    <2> QED
      BY <1>2, <2>3, <2>4, <2>6, <2>7
  <1> QED
    BY <1>1, <1>2

USE RegistrationAssumption, RequestsAssumption

DatabaseInv == RegistrationTypeOK /\ AccountsSound /\ ResultsTrue

ResponseInv ==
    /\ req \in [Requests -> Request]
    /\ RouteSound /\ RecorderSound
    /\ LogTellsWhatWasSent /\ OneDocument /\ HealthTellsAll

(* The same, of one request. *)
Sound(q) ==
    /\ q \in Request
    /\ q.at = "none" => q = Unsent
    /\ q.at \in Routes => q.route = q.at
    /\ q.at = "probing" => q.route = "health" /\ \A c \in Checks : q.probes[c] # None
    /\ q.at = "repository" => q.route = "register"
    /\ q.at \in {"inner", "aborting"} => q.route = "protected"
    /\ q.at = "panicked" => q.route \in {"register", "protected"}
    /\ q.at # "done" => IF q.wrote THEN q.sent = q.status ELSE q.sent = None /\ q.status = 200
    /\ ~q.wrote => q.docs = 0
    /\ q.at \in Routes \cup {"probing", "repository"} => ~q.wrote
    /\ q.at = "returned" /\ q.route # "protected" => q.wrote
    /\ q.at = "done" /\ q.route # "preflight" => q.logged = q.sent
    /\ q.docs <= 1
    /\ q.route = "health" /\ q.sent # None =>
          /\ \A c \in Checks : q.probes[c] \in {"ok", "unavailable"}
          /\ q.sent = HealthStatus(q)

-------------------------------------------------------------------------------
(* The database. *)

(* The tables start empty, and no call has been made. *)
LEMMA DatabaseInit == RegistrationInit => DatabaseInv
  BY DEF RegistrationInit, DatabaseInv, RegistrationTypeOK, AccountsSound, ResultsTrue, NoTx, Tx, User

(* CreateTeamWithOwner is called. *)
LEMMA CallSound ==
  ASSUME DatabaseInv, NEW r \in Requests, NEW e \in Emails,
         Call(r, e), UNCHANGED <<teams, users, ghosts>>
  PROVE  DatabaseInv'
  <1>1. RegistrationTypeOK'
    <2>1. tx[r] \in Tx
      BY DEF DatabaseInv, RegistrationTypeOK
    <2>2. [tx[r] EXCEPT !.at = "begin", !.email = e] \in Tx
      BY ONLY <2>1, e \in Emails DEF Tx
    <2>3. tx' = [tx EXCEPT ![r] = [tx[r] EXCEPT !.at = "begin", !.email = e]]
      BY DEF Call, DatabaseInv, RegistrationTypeOK
    <2> QED
      BY <2>2, <2>3 DEF DatabaseInv, RegistrationTypeOK
  <1>2. AccountsSound'
    <2>1. \A s \in Requests : tx'[s].at \in {"user", "commit"} => tx'[s] = tx[s]
      BY DEF DatabaseInv, RegistrationTypeOK, Call, Tx
    <2> QED
      BY <2>1 DEF DatabaseInv, AccountsSound
  <1>3. ResultsTrue'
    BY DEF DatabaseInv, RegistrationTypeOK, ResultsTrue, Call, Tx, NoTx
  <1> QED
    BY <1>1, <1>2, <1>3 DEF DatabaseInv

(* The call returns without having changed a table. *)
LEMMA ReturnSound ==
  ASSUME DatabaseInv, NEW r \in Requests, NEW result \in {"conflict", "error", "panic"},
         tx[r].at \in {"begin", "team", "user", "commit"},
         result = "conflict" => \E u \in users : u.email = tx[r].email,
         Return(r, result), UNCHANGED <<teams, users, ghosts>>
  PROVE  DatabaseInv'
  <1>1. RegistrationTypeOK'
    <2>1. tx[r] \in Tx
      BY DEF DatabaseInv, RegistrationTypeOK
    <2>2. [tx[r] EXCEPT !.at = "done", !.result = result, !.team = None] \in Tx
      BY ONLY <2>1, result \in {"conflict", "error", "panic"} DEF Tx
    <2>3. tx' = [tx EXCEPT ![r] = [tx[r] EXCEPT !.at = "done", !.result = result, !.team = None]]
      BY DEF Return, DatabaseInv, RegistrationTypeOK
    <2> QED
      BY <2>2, <2>3 DEF DatabaseInv, RegistrationTypeOK
  <1>2. AccountsSound'
    <2>1. \A s \in Requests : tx'[s].at \in {"user", "commit"} => tx'[s] = tx[s]
      BY DEF DatabaseInv, RegistrationTypeOK, Return, Tx
    <2> QED
      BY <2>1 DEF DatabaseInv, AccountsSound
  <1>3. ResultsTrue'
    BY DEF DatabaseInv, RegistrationTypeOK, ResultsTrue, Return, Tx, NoTx
  <1> QED
    BY <1>1, <1>2, <1>3 DEF DatabaseInv

(* The rows of a transaction, which clash with no others, are committed. *)
LEMMA StatementSound ==
  ASSUME DatabaseInv, NEW r \in Requests, CreateTeamWithOwner(r)
  PROVE  DatabaseInv'
  <1>1. CASE Begin(r)
    BY <1>1 DEF DatabaseInv, RegistrationTypeOK, AccountsSound, ResultsTrue, Begin, Tx, NoTx
  <1>2. CASE InsertTeam(r)
    <2>1. PICK t \in Teams \ (teams \cup TeamsInFlight) :
             tx' = [tx EXCEPT ![r].at = "user", ![r].team = t]
      BY <1>2 DEF InsertTeam
    <2>2. /\ tx[r].at = "team" /\ tx[r].result = None
          /\ UNCHANGED <<teams, users, ghosts>>
      BY <1>2 DEF InsertTeam
    <2>3. t # None
      OBVIOUS
    <2>4. \A u \in users \cup ghosts : u.team # t
      BY DEF TeamsInFlight, DatabaseInv, AccountsSound
    <2>5. \A s \in Requests : tx[s].at \in {"user", "commit"} => tx[s].team # t
      BY DEF TeamsInFlight, Held
    <2>6. RegistrationTypeOK'
      <3>1. tx[r] \in Tx
        BY DEF DatabaseInv, RegistrationTypeOK
      <3>2. [tx[r] EXCEPT !.at = "user", !.team = t] \in Tx
        BY ONLY <3>1, t \in Teams DEF Tx
      <3>3. tx' = [tx EXCEPT ![r] = [tx[r] EXCEPT !.at = "user", !.team = t]]
        BY <2>1 DEF DatabaseInv, RegistrationTypeOK
      <3> QED
        BY <2>2, <3>2, <3>3 DEF DatabaseInv, RegistrationTypeOK
    <2>7. AccountsSound'
      <3>1. \A s \in Requests : s # r => tx'[s] = tx[s]
        BY <2>1 DEF DatabaseInv, RegistrationTypeOK, Tx
      <3>2. tx'[r].at = "user" /\ tx'[r].team = t
        BY <2>1 DEF DatabaseInv, RegistrationTypeOK, Tx
      <3> QED
        BY <2>2, <2>3, <2>4, <2>5, <3>1, <3>2 DEF DatabaseInv, AccountsSound
    <2>8. ResultsTrue'
      BY <2>1, <2>2 DEF DatabaseInv, RegistrationTypeOK, ResultsTrue, Tx, NoTx
    <2> QED
      BY <2>6, <2>7, <2>8 DEF DatabaseInv
  <1>3. CASE InsertUser(r)
    <2>1. CASE \E u \in users : u.email = tx[r].email
      BY <1>3, <2>1, ReturnSound DEF InsertUser
    <2>2. CASE ~ \E u \in users : u.email = tx[r].email
      <3>1. /\ tx[r].at = "user" /\ tx[r].result = None
            /\ tx' = [tx EXCEPT ![r].at = "commit"]
            /\ UNCHANGED <<teams, users, ghosts>>
        BY <1>3, <2>2 DEF InsertUser
      <3>2. /\ \A u \in users \cup ghosts : u.email # tx[r].email
            /\ \A s \in Requests : tx[s].at = "commit" => tx[s].email # tx[r].email
        BY <1>3, <2>2 DEF InsertUser, KeyBusy
      <3>3. RegistrationTypeOK'
        BY <3>1 DEF DatabaseInv, RegistrationTypeOK, Tx
      <3>4. AccountsSound'
        BY <3>1, <3>2 DEF DatabaseInv, RegistrationTypeOK, AccountsSound, Tx
      <3>5. ResultsTrue'
        BY <3>1 DEF DatabaseInv, RegistrationTypeOK, ResultsTrue, Tx, NoTx
      <3> QED
        BY <3>3, <3>4, <3>5 DEF DatabaseInv
    <2> QED
      BY <2>1, <2>2
  <1>4. CASE Commit(r)
    <2> DEFINE u == [email |-> tx[r].email, team |-> tx[r].team]
    <2>1. /\ tx[r].at = "commit" /\ tx[r].result = None
          /\ tx' = [tx EXCEPT ![r].at = "done", ![r].result = "created"]
          /\ teams' = teams \cup {tx[r].team} /\ users' = users \cup {u}
          /\ ghosts' = ghosts
      BY <1>4 DEF Commit, Store, Return, DatabaseInv, RegistrationTypeOK, Tx
    <2>2. u \in User
      BY <2>1 DEF DatabaseInv, RegistrationTypeOK, ResultsTrue, AccountsSound, Tx, User
    <2>3. \A v \in users \cup ghosts : v.email # u.email /\ v.team # u.team
      BY <2>1 DEF DatabaseInv, AccountsSound
    <2>4. RegistrationTypeOK'
      BY <2>1, <2>2 DEF DatabaseInv, RegistrationTypeOK, Tx, User
    <2>5. AccountsSound'
      BY <2>1, <2>2, <2>3 DEF DatabaseInv, RegistrationTypeOK, AccountsSound, Tx, User
    <2>6. ResultsTrue'
      BY <2>1, <2>2 DEF DatabaseInv, RegistrationTypeOK, ResultsTrue, Tx, NoTx
    <2> QED
      BY <2>4, <2>5, <2>6 DEF DatabaseInv
  <1>5. CASE StatementFails(r)
    BY <1>5, ReturnSound DEF StatementFails
  <1>6. CASE ConnectionBreaks(r)
    <2> DEFINE g == [email |-> tx[r].email, team |-> tx[r].team]
    <2>1. /\ tx[r].at = "commit" /\ tx[r].result = None
          /\ tx' = [tx EXCEPT ![r].at = "done", ![r].result = "error", ![r].team = None]
          /\ ghosts' = ghosts \cup {g} /\ UNCHANGED <<teams, users>>
      BY <1>6 DEF ConnectionBreaks, Return, DatabaseInv, RegistrationTypeOK, Tx
    <2>2. g \in User
      BY <2>1 DEF DatabaseInv, RegistrationTypeOK, ResultsTrue, AccountsSound, Tx, User
    <2>3. \A v \in users \cup ghosts : v.email # g.email /\ v.team # g.team
      BY <2>1 DEF DatabaseInv, AccountsSound
    <2>4. RegistrationTypeOK'
      BY <2>1, <2>2 DEF DatabaseInv, RegistrationTypeOK, Tx, User
    <2>5. AccountsSound'
      BY <2>1, <2>2, <2>3 DEF DatabaseInv, RegistrationTypeOK, AccountsSound, Tx, User
    <2>6. ResultsTrue'
      BY <2>1, <2>2 DEF DatabaseInv, RegistrationTypeOK, ResultsTrue, Tx, NoTx
    <2> QED
      BY <2>4, <2>5, <2>6 DEF DatabaseInv
  <1> QED
    BY <1>1, <1>2, <1>3, <1>4, <1>5, <1>6 DEF CreateTeamWithOwner, Statement

(* The server ends an abandoned transaction, either way. *)
LEMMA GhostSound ==
  ASSUME DatabaseInv, NEW g \in ghosts, GhostEnds(g)
  PROVE  DatabaseInv'
  <1>1. g \in User /\ g \notin users
    BY DEF DatabaseInv, RegistrationTypeOK, AccountsSound
  <1>2. RegistrationTypeOK'
    BY <1>1 DEF DatabaseInv, RegistrationTypeOK, GhostEnds, Store, User
  <1>3. AccountsSound'
    <2>1. g = [email |-> g.email, team |-> g.team]
      BY <1>1 DEF User
    <2> QED
      BY <1>1, <2>1 DEF DatabaseInv, RegistrationTypeOK, AccountsSound, GhostEnds, Store, User
  <1>4. ResultsTrue'
    BY DEF DatabaseInv, RegistrationTypeOK, ResultsTrue, GhostEnds, Store
  <1> QED
    BY <1>2, <1>3, <1>4 DEF DatabaseInv
-------------------------------------------------------------------------------
(* The responses. *)

LEMMA EachSound ==
  ResponseInv <=> req = [r \in Requests |-> req[r]] /\ \A r \in Requests : Sound(req[r])
  BY DEF ResponseInv, Sound, RouteSound, RecorderSound, LogTellsWhatWasSent, OneDocument, HealthTellsAll

(* No request has been answered. *)
LEMMA ResponseInit == Init => ResponseInv
  <1> SUFFICES ASSUME Init PROVE ResponseInv
    OBVIOUS
  <1>1. Unsent \in Request
    BY DEF Unsent, Request, Places, Status
  <1>2. Sound(Unsent)
    BY <1>1 DEF Unsent, Sound, Routes
  <1> QED
    BY <1>2, EachSound DEF Init

(* A step that leaves the one request it is about sound. *)
LEMMA OneMoves ==
  ASSUME ResponseInv, NEW r \in Requests, NEW w, Sound(w), req' = [req EXCEPT ![r] = w]
  PROVE  ResponseInv'
  <1>1. \A s \in Requests : Sound(req[s])
    BY EachSound
  <1>2. \A s \in Requests : req'[s] = IF s = r THEN w ELSE req[s]
    BY DEF ResponseInv
  <1>3. \A s \in Requests : Sound(req'[s])
    BY <1>1, <1>2
  <1>4. req' = [s \in Requests |-> req'[s]]
    BY EachSound
  <1> QED
    BY <1>3, <1>4
       DEF ResponseInv, Sound, RouteSound, RecorderSound, LogTellsWhatWasSent, OneDocument, HealthTellsAll

(* The same for a step that Become describes. *)
LEMMA BecomeSound ==
  ASSUME ResponseInv, NEW r \in Requests, NEW q \in Request, NEW at \in Places, Become(r, q, at),
         \A w \in Request : Moved(q, w, at) => Sound(w)
  PROVE  ResponseInv'
  <1> DEFINE w == [q EXCEPT !.at = at]
  <1>1. w \in Request /\ Moved(q, w, at)
    BY Elsewhere, Zenon
  <1>2. req' = [req EXCEPT ![r] = w]
    BY DEF Become
  <1> HIDE DEF w
  <1> QED
    BY <1>1, <1>2, OneMoves

(* And what a whole answer does. *)
LEMMA AnswerWritten ==
  ASSUME NEW q \in Request, NEW s \in Status
  PROVE  LET w == WriteJSON(q, s) IN
         /\ w \in Request /\ w.wrote
         /\ w.at = q.at /\ w.route = q.route /\ w.docs = q.docs + 1
         /\ w.logged = q.logged /\ w.probes = q.probes /\ w.expired = q.expired
         /\ q.wrote => w.sent = q.sent /\ w.status = q.status
         /\ ~q.wrote /\ q.sent = None => w.sent = s /\ w.status = s
  <1> DEFINE h == WriteHeader(q, s)
             k == WriteHeader(h, 200)
  <1>1. 200 \in Status
    BY DEF Status
  <1>2. /\ h \in Request /\ h.wrote
        /\ h.at = q.at /\ h.route = q.route /\ h.docs = q.docs
        /\ h.logged = q.logged /\ h.probes = q.probes /\ h.expired = q.expired
        /\ q.wrote => h.sent = q.sent /\ h.status = q.status
        /\ ~q.wrote /\ q.sent = None => h.sent = s /\ h.status = s
    BY HeaderWritten
  <1>3. k = h
    BY <1>2 DEF WriteHeader
  <1>4. WriteJSON(q, s) = [h EXCEPT !.docs = @ + 1]
    BY <1>3 DEF WriteJSON, Write
  <1> HIDE DEF h, k
  <1> QED
    BY <1>2, <1>4 DEF Request

(* A handler of our own answers, for the first time, and returns. *)
LEMMA AnswerSound ==
  ASSUME ResponseInv, NEW r \in Requests, NEW s \in Status, Answer(r, s),
         req[r].at # "done", req[r].docs = 0, req[r].route # None,
         req[r].route = "health" =>
            /\ ~req[r].wrote
            /\ \A c \in Checks : req[r].probes[c] \in {"ok", "unavailable"}
            /\ s = HealthStatus(req[r])
  PROVE  ResponseInv'
  <1> DEFINE w == WriteJSON(req[r], s)
  <1>1. req[r] \in Request /\ Sound(req[r])
    BY EachSound DEF Sound
  <1>2. /\ w \in Request /\ w.wrote
        /\ w.route = req[r].route /\ w.docs = 1 /\ w.probes = req[r].probes
        /\ w.sent = w.status
        /\ ~req[r].wrote => w.sent = s
    BY <1>1, AnswerWritten DEF Sound
  <1>3. Become(r, w, "returned")
    BY DEF Answer
  <1> HIDE DEF w
  <1>4. ASSUME NEW q \in Request, Moved(w, q, "returned") PROVE Sound(q)
    <2>1. HealthStatus(q) = HealthStatus(req[r])
      BY <1>2, <1>4 DEF HealthStatus, Moved
    <2> QED
      BY <1>1, <1>2, <1>4, <2>1 DEF Sound, Routes, Moved
  <1>5. "returned" \in Places
    BY DEF Places
  <1>6. w \in Request
    BY <1>2
  <1> QED
    BY <1>3, <1>4, <1>5, <1>6, BecomeSound

(* The request stays what it is and goes on elsewhere. *)
LEMMA GoesOn ==
  ASSUME ResponseInv, NEW r \in Requests, NEW at \in Places, Become(r, req[r], at),
         \A w \in Request : Moved(req[r], w, at) => Sound(w)
  PROVE  ResponseInv'
  <1>1. req[r] \in Request
    BY DEF ResponseInv
  <1> QED
    BY <1>1, BecomeSound

(* A request arrives; CORS may answer it at once. *)
LEMMA ArriveSound ==
  ASSUME ResponseInv, NEW r \in Requests, NEW route \in Routes, Arrive(r, route)
  PROVE  ResponseInv'
  <1>1. req[r] = Unsent
    BY DEF Arrive, ResponseInv, RouteSound
  <1>2. Unsent \in Request
    BY <1>1 DEF ResponseInv
  <1>3. CASE route = "preflight"
    <2> DEFINE w == [Unsent EXCEPT !.route = "preflight", !.sent = 200, !.at = "done"]
    <2>1. req' = [req EXCEPT ![r] = w]
      BY <1>1, <1>3 DEF Arrive, Become, Unsent
    <2>2. "preflight" \in Routes /\ "done" \in Places /\ 200 \in Status
      BY DEF Routes, Places, Status
    <2>3. w \in Request
      BY ONLY <1>2, <2>2 DEF Request
    <2>4. Sound(w)
      BY <2>3 DEF Unsent, Sound, Routes
    <2> QED
      BY <2>1, <2>4, OneMoves
  <1>4. CASE route # "preflight"
    <2> DEFINE w == [Unsent EXCEPT !.route = route, !.at = route]
    <2>1. req' = [req EXCEPT ![r] = w]
      BY <1>1, <1>4 DEF Arrive, Become, Unsent
    <2>2. route \in Places
      BY DEF Routes, Places
    <2>3. w \in Request
      BY ONLY <1>2, <2>2, route \in Routes DEF Request
    <2>4. Sound(w)
      BY <1>4, <2>3 DEF Unsent, Sound, Routes
    <2> QED
      BY <2>1, <2>4, OneMoves
  <1> QED
    BY <1>3, <1>4

(* The health check. *)
LEMMA HealthSound ==
  ASSUME ResponseInv, NEW r \in Requests,
         \/ StartProbes(r) \/ ProbesExpire(r) \/ AnswerHealth(r)
         \/ \E c \in Checks : ProbeSucceeds(r, c) \/ ProbeFails(r, c)
  PROVE  ResponseInv'
  <1> DEFINE q == req[r]
  <1>1. q \in Request /\ Sound(q)
    BY EachSound DEF Sound
  <1>2. CASE StartProbes(r)
    <2> DEFINE w == [q EXCEPT !.probes = [c \in Checks |-> "running"], !.at = "probing"]
    <2>1. req' = [req EXCEPT ![r] = w]
      BY <1>1, <1>2 DEF StartProbes, Become, Request
    <2>2. w \in Request
      BY ONLY <1>1 DEF Request, Places
    <2>3. Sound(w)
      BY <1>1, <1>2, <2>2 DEF Sound, Routes, StartProbes, Request
    <2> QED
      BY <2>1, <2>3, OneMoves
  <1>3. CASE ProbesExpire(r)
    <2> DEFINE w == [q EXCEPT !.expired = TRUE]
    <2>1. req' = [req EXCEPT ![r] = w]
      BY <1>3 DEF ProbesExpire
    <2>2. w \in Request
      BY ONLY <1>1 DEF Request
    <2>3. Sound(w)
      BY <1>1, <1>3, <2>2 DEF Sound, Routes, ProbesExpire, Request
    <2> QED
      BY <2>1, <2>3, OneMoves
  <1>4. ASSUME NEW c \in Checks, NEW result \in {"ok", "unavailable"}, SetProbe(r, c, result)
        PROVE  ResponseInv'
    <2> DEFINE w == [q EXCEPT !.probes[c] = result]
    <2>1. req' = [req EXCEPT ![r] = w]
      BY <1>4 DEF SetProbe
    <2>2. w \in Request
      BY <1>1 DEF Request
    <2>3. Sound(w)
      BY <1>1, <1>4, <2>2 DEF Sound, Routes, SetProbe, Request
    <2> QED
      BY <2>1, <2>3, OneMoves
  <1>5. CASE AnswerHealth(r)
    <2>1. /\ q.at = "probing" /\ q.route = "health" /\ ~q.wrote /\ q.docs = 0
          /\ \A c \in Checks : q.probes[c] \in {"ok", "unavailable"}
      BY <1>1, <1>5 DEF AnswerHealth, Sound, Request
    <2>2. HealthStatus(q) \in Status
      BY DEF HealthStatus, Status
    <2> QED
      BY <1>5, <2>1, <2>2, AnswerSound DEF AnswerHealth, Routes
  <1> QED
    BY <1>2, <1>3, <1>4, <1>5 DEF ProbeSucceeds, ProbeFails

(* Our own handlers answer once. *)
LEMMA OwnSound ==
  ASSUME ResponseInv, NEW r \in Requests,
         Unmatched(r) \/ Register(r) \/ Registered(r)
  PROVE  ResponseInv'
  <1> DEFINE q == req[r]
  <1>1. q \in Request /\ Sound(q)
    BY EachSound DEF Sound
  <1>2. /\ q.at \in {"unmatched", "wrong_method", "register", "repository"}
        /\ q.route \in {"unmatched", "wrong_method", "register"} /\ q.docs = 0 /\ ~q.wrote
    BY <1>1 DEF Sound, Routes, Unmatched, Register, Registered
  <1>3. ASSUME NEW s \in {201, 400, 404, 405, 409, 422, 500}, Answer(r, s)
        PROVE  ResponseInv'
    <2>1. s \in Status
      BY DEF Status
    <2> QED
      BY <1>2, <1>3, <2>1, AnswerSound DEF Routes
  <1>4. ASSUME q.route = "register", NEW at \in {"repository", "panicked"}, Become(r, q, at)
        PROVE  ResponseInv'
    <2>1. at \in Places
      BY DEF Places
    <2>2. ASSUME NEW w \in Request, Moved(q, w, at) PROVE Sound(w)
      BY <1>1, <1>2, <1>4, <2>2 DEF Moved, Sound, Routes
    <2> QED
      BY <1>4, <2>1, <2>2, GoesOn
  <1>5. CASE Unmatched(r)
    BY <1>3, <1>5 DEF Unmatched
  <1>6. CASE Register(r)
    <2>1. q.route = "register"
      BY <1>1, <1>6 DEF Register, Sound, Routes
    <2> QED
      BY <1>3, <1>4, <1>6, <2>1 DEF Register
  <1>7. CASE Registered(r)
    <2>1. q.route = "register"
      BY <1>1, <1>7 DEF Registered, Sound
    <2> QED
      BY <1>3, <1>4, <1>7, <2>1 DEF Registered, RegisterStatuses
  <1> QED
    BY <1>5, <1>6, <1>7

(* A handler behind the token writes what it likes, and does not return. *)
LEMMA InnerWritesSound ==
  ASSUME ResponseInv, NEW r \in Requests, InnerWrites(r)
  PROVE  ResponseInv'
  <1> DEFINE q == req[r]
  <1>1. q \in Request /\ Sound(q)
    BY EachSound DEF Sound
  <1>2. q.at = "inner" /\ q.route = "protected"
    BY <1>1 DEF InnerWrites, Sound
  <1>3. "inner" \in Places /\ 200 \in Status /\ InnerStatuses \subseteq Status
    BY DEF Places, Status
  <1>4. ASSUME NEW v \in Request, Become(r, v, "inner"),
               v.wrote, v.sent = v.status, v.docs \in 0..1, v.route = "protected"
        PROVE  ResponseInv'
    <2>1. ASSUME NEW w \in Request, Moved(v, w, "inner") PROVE Sound(w)
      BY <1>4, <2>1 DEF Moved, Sound, Routes
    <2> QED
      BY <1>3, <1>4, <2>1, BecomeSound
  <1>5. ASSUME NEW s \in InnerStatuses, Become(r, WriteHeader(q, s), "inner")
        PROVE  ResponseInv'
    <2> DEFINE v == WriteHeader(q, s)
    <2>1. v \in Request /\ v.wrote /\ v.sent = v.status /\ v.docs \in 0..1 /\ v.route = "protected"
      <3>1. s \in Status
        BY <1>3
      <3>2. /\ v \in Request /\ v.wrote /\ v.docs = q.docs /\ v.route = q.route
            /\ q.wrote => v.sent = q.sent /\ v.status = q.status
            /\ ~q.wrote /\ q.sent = None => v.sent = s /\ v.status = s
        BY <1>1, <3>1, HeaderWritten
      <3>3. q.docs \in 0..1 /\ (IF q.wrote THEN q.sent = q.status ELSE q.sent = None)
        BY <1>1, <1>2 DEF Sound, Request
      <3> QED
        BY <1>2, <3>2, <3>3
    <2> HIDE DEF v
    <2> QED
      BY <1>4, <1>5, <2>1 DEF v
  <1>6. ASSUME q.docs = 0, Become(r, Write(q), "inner")
        PROVE  ResponseInv'
    <2> DEFINE h == WriteHeader(q, 200)
               v == [h EXCEPT !.docs = @ + 1]
    <2>1. h \in Request /\ h.wrote /\ h.sent = h.status /\ h.docs = 0 /\ h.route = "protected"
      BY <1>1, <1>2, <1>3, <1>6, HeaderWritten DEF Sound
    <2>2. Write(q) = v
      BY DEF Write
    <2> HIDE DEF h
    <2>3. v \in Request /\ v.wrote /\ v.sent = v.status /\ v.docs = 1 /\ v.route = "protected"
      BY <2>1 DEF Request
    <2> HIDE DEF v
    <2> QED
      BY <1>4, <1>6, <2>2, <2>3
  <1> QED
    BY <1>5, <1>6 DEF InnerWrites

(* It returns, answers or panics; or there is none, without a token. *)
LEMMA InnerSound ==
  ASSUME ResponseInv, NEW r \in Requests, Authenticate(r) \/ InnerEnds(r)
  PROVE  ResponseInv'
  <1> DEFINE q == req[r]
  <1>1. q \in Request /\ Sound(q)
    BY EachSound DEF Sound
  <1>2. q.at \in {"protected", "inner"} /\ q.route = "protected"
    BY <1>1 DEF Authenticate, InnerEnds, Sound, Routes
  <1>3. ASSUME q.docs = 0, NEW s \in Status, Answer(r, s) PROVE ResponseInv'
    BY <1>2, <1>3, AnswerSound DEF Routes
  <1>4. ASSUME NEW at \in {"inner", "returned", "panicked", "aborting"}, Become(r, q, at)
        PROVE  ResponseInv'
    <2>1. at \in Places
      BY DEF Places
    <2>2. ASSUME NEW w \in Request, Moved(q, w, at) PROVE Sound(w)
      BY <1>1, <1>2, <2>2 DEF Moved, Sound, Routes
    <2> QED
      BY <1>4, <2>1, <2>2, GoesOn
  <1>5. CASE Authenticate(r)
    <2>1. 401 \in Status /\ q.docs = 0
      BY <1>1, <1>5 DEF Status, Authenticate, Sound, Routes
    <2> QED
      BY <1>3, <1>4, <1>5, <2>1 DEF Authenticate
  <1>6. CASE InnerEnds(r)
    <2>1. CASE Become(r, q, "returned") \/ \E at \in {"panicked", "aborting"} : Become(r, q, at)
      BY <1>4, <2>1
    <2>2. CASE q.docs = 0 /\ \E s \in InnerStatuses \cup {500} : Answer(r, s)
      <3>1. InnerStatuses \cup {500} \subseteq Status
        BY DEF Status
      <3> QED
        BY <1>3, <2>2, <3>1
    <2> QED
      BY <1>6, <2>1, <2>2 DEF InnerEnds
  <1> QED
    BY <1>5, <1>6

(* Recoverer and Logger. *)
LEMMA OutermostSound ==
  ASSUME ResponseInv, NEW r \in Requests, Recover(r) \/ Log(r)
  PROVE  ResponseInv'
  <1> DEFINE q == req[r]
  <1>1. q \in Request /\ Sound(q)
    BY EachSound DEF Sound
  <1>2. q.at \in {"panicked", "aborting", "returned"}
    BY DEF Recover, Log
  <1>3. ASSUME NEW at \in {"returned", "aborted"}, q.at # "returned", q.wrote \/ at = "aborted",
               Become(r, q, at)
        PROVE  ResponseInv'
    <2>1. at \in Places
      BY DEF Places
    <2>2. ASSUME NEW w \in Request, Moved(q, w, at) PROVE Sound(w)
      BY <1>1, <1>2, <1>3, <2>2 DEF Moved, Sound, Routes
    <2> QED
      BY <1>3, <2>1, <2>2, GoesOn
  <1>4. CASE Recover(r)
    <2>1. CASE q.at = "panicked" /\ ~q.wrote /\ Answer(r, 500)
      <3>1. 500 \in Status /\ q.docs = 0 /\ q.route \in {"register", "protected"}
        BY <1>1, <2>1 DEF Sound, Status
      <3> QED
        BY <2>1, <3>1, AnswerSound DEF Routes
    <2> QED
      BY <1>3, <1>4, <2>1 DEF Recover
  <1>5. CASE Log(r)
    <2> DEFINE o == OnWire(q, 200)
               v == [q EXCEPT !.logged = q.status, !.sent = o]
    <2>1. o \in Status /\ o = q.status
      BY <1>1, <1>5 DEF OnWire, Log, Sound, Request, Status
    <2>2. Become(r, v, "done")
      BY <1>5 DEF Log
    <2> HIDE DEF o
    <2>3. q \in Request /\ q.status \in Status
      BY <1>1 DEF Request
    <2>4. v \in Request
      BY ONLY <2>1, <2>3 DEF Request
    <2>5. /\ v.logged = v.sent /\ v.sent = q.status /\ v.wrote = q.wrote
          /\ v.docs = q.docs /\ v.route = q.route /\ v.probes = q.probes
      BY ONLY <2>1, <2>3 DEF Request
    <2> HIDE DEF v
    <2>6. "done" \in Places
      BY DEF Places
    <2>7. ASSUME NEW w \in Request, Moved(v, w, "done") PROVE Sound(w)
      <3>1. HealthStatus(w) = HealthStatus(q)
        BY <2>5, <2>7 DEF Moved, HealthStatus
      <3>2. q.wrote => q.sent = q.status
        BY <1>1, <1>5 DEF Log, Sound
      <3>3. q.route = "health" => q.wrote /\ q.sent # None
        BY <1>1, <1>5, <3>2, <2>1 DEF Log, Sound, Status
      <3> QED
        BY <1>1, <1>5, <2>5, <2>7, <3>1, <3>2, <3>3 DEF Moved, Sound, Routes, Log
    <2> QED
      BY <2>2, <2>4, <2>6, <2>7, BecomeSound
  <1> QED
    BY <1>4, <1>5
-------------------------------------------------------------------------------
(* The steps of Next are the database's, the request's or the call. *)

LEMMA NextSound ==
  ASSUME DatabaseInv, ResponseInv, [Next]_vars
  PROVE  DatabaseInv' /\ ResponseInv'
  <1> USE DEF db
  <1>1. ASSUME UNCHANGED db PROVE DatabaseInv'
    BY <1>1 DEF DatabaseInv, RegistrationTypeOK, AccountsSound, ResultsTrue, Held, TeamsInFlight
  <1>2. ASSUME UNCHANGED req PROVE ResponseInv'
    BY <1>2 DEF ResponseInv, RouteSound, RecorderSound, LogTellsWhatWasSent, OneDocument, HealthTellsAll
  <1>3. ASSUME NEW r \in Requests, NEW route \in Asks[r], Arrive(r, route)
        PROVE  DatabaseInv' /\ ResponseInv'
    <2>1. route \in Routes
      OBVIOUS
    <2> QED
      BY <1>1, <1>3, <2>1, ArriveSound DEF Arrive
  <1>4. ASSUME NEW r \in Requests, Handle(r)
        PROVE  DatabaseInv' /\ ResponseInv'
    <2>1. CASE Unmatched(r) \/ Registered(r)
      BY <1>1, <2>1, OwnSound DEF Unmatched, Registered
    <2>2. CASE Register(r)
      <3>1. DatabaseInv'
        BY <1>1, <2>2, CallSound DEF Register
      <3> QED
        BY <2>2, <3>1, OwnSound
    <2>3. CASE StartProbes(r) \/ AnswerHealth(r)
      BY <1>1, <2>3, HealthSound DEF StartProbes, AnswerHealth
    <2>4. CASE Authenticate(r) \/ InnerEnds(r)
      BY <1>1, <2>4, InnerSound DEF Authenticate, InnerEnds
    <2>5. CASE Recover(r) \/ Log(r)
      BY <1>1, <2>5, OutermostSound DEF Recover, Log
    <2> QED
      BY <1>4, <2>1, <2>2, <2>3, <2>4, <2>5 DEF Handle
  <1>5. ASSUME NEW r \in Requests, Repository(r)
        PROVE  DatabaseInv' /\ ResponseInv'
    BY <1>2, <1>5, StatementSound DEF Repository
  <1>6. ASSUME NEW r \in Requests, InnerWrites(r)
        PROVE  DatabaseInv' /\ ResponseInv'
    BY <1>1, <1>6, InnerWritesSound DEF InnerWrites
  <1>7. ASSUME NEW r \in Requests,
               ProbesExpire(r) \/ \E c \in Checks : ProbeSucceeds(r, c) \/ ProbeFails(r, c)
        PROVE  DatabaseInv' /\ ResponseInv'
    BY <1>1, <1>7, HealthSound DEF ProbesExpire, ProbeSucceeds, ProbeFails, SetProbe
  <1>8. CASE GhostsEnd
    BY <1>2, <1>8, GhostSound DEF GhostsEnd
  <1>9. CASE UNCHANGED vars
    BY <1>1, <1>2, <1>9 DEF vars
  <1> QED
    BY <1>3, <1>4, <1>5, <1>6, <1>7, <1>8, <1>9 DEF Next

LEMMA Everything == Spec => [](DatabaseInv /\ ResponseInv)
  <1>1. Init => DatabaseInv /\ ResponseInv
    BY DatabaseInit, ResponseInit DEF Init
  <1>2. DatabaseInv /\ ResponseInv /\ [Next]_vars => (DatabaseInv /\ ResponseInv)'
    BY NextSound
  <1> QED
    BY <1>1, <1>2, PTL DEF Spec

(* Tables, transactions, responses and their log records stay consistent:  *)
(* one account per address, whatever fails, and a recorder that knows what *)
(* was sent.                                                               *)
THEOREM Invariance == Spec => []IndInv
  <1>1. DatabaseInv /\ ResponseInv => IndInv
    BY DEF DatabaseInv, ResponseInv, IndInv, TypeOK
  <1> QED
    BY <1>1, Everything, PTL

(* The log record of a request tells the status its client was sent, also  *)
(* after a panic.                                                          *)
THEOREM LogIsTrue == Spec => []LogTellsWhatWasSent
  BY Everything, PTL DEF ResponseInv

(* No response has two documents, although Recoverer may answer after a    *)
(* handler has begun to.                                                   *)
THEOREM SingleDocument == Spec => []OneDocument
  BY Everything, PTL DEF ResponseInv

(* The health check answers for every dependency, and 200 only for all.    *)
THEOREM HealthVerdict == Spec => []HealthTellsAll
  BY Everything, PTL DEF ResponseInv

-------------------------------------------------------------------------------
(* What is answered about registrations. *)

LEMMA BecomeSays ==
  ASSUME ResponseInv, NEW r \in Requests, NEW q \in Request, NEW at \in Places, Become(r, q, at)
  PROVE  Moved(q, req'[r], at) /\ \A s \in Requests : s # r => req'[s] = req[s]
  <1> DEFINE w == [q EXCEPT !.at = at]
  <1>1. Moved(q, w, at)
    BY Elsewhere, Zenon
  <1>2. req' = [req EXCEPT ![r] = w]
    BY DEF Become
  <1> HIDE DEF w
  <1> QED
    BY <1>1, <1>2 DEF ResponseInv

LEMMA AnswerSays ==
  ASSUME ResponseInv, NEW r \in Requests, NEW s \in Status, Answer(r, s)
  PROVE  /\ req'[r].route = req[r].route
         /\ ~req[r].wrote /\ req[r].sent = None => req'[r].sent = s
         /\ \A t \in Requests : t # r => req'[t] = req[t]
  <1> DEFINE w == WriteJSON(req[r], s)
  <1>1. req[r] \in Request /\ "returned" \in Places
    BY DEF ResponseInv, Places
  <1>2. /\ w \in Request /\ w.route = req[r].route
        /\ ~req[r].wrote /\ req[r].sent = None => w.sent = s
    BY <1>1, AnswerWritten
  <1>3. Become(r, w, "returned")
    BY DEF Answer
  <1> HIDE DEF w
  <1> QED
    BY <1>1, <1>2, <1>3, BecomeSays DEF Moved

(* Accounts stay, and so does a registration whose answer is out. *)
LEMMA AccountsStay ==
  ASSUME DatabaseInv, ResponseInv, [Next]_vars
  PROVE  /\ users \subseteq users'
         /\ \A r \in Requests : req[r].sent # None => tx'[r] = tx[r]
  <1> USE DEF db
  <1>1. \A r \in Requests : req[r].at \in {"register", "repository"} => req[r].sent = None
    BY DEF ResponseInv, RecorderSound, Routes
  <1>2. CASE UNCHANGED db
    BY <1>2
  <1>3. ASSUME NEW r \in Requests, Register(r), ~UNCHANGED db
        PROVE  UNCHANGED users /\ req[r].sent = None /\ \A s \in Requests : s # r => tx'[s] = tx[s]
    <2>1. PICK e \in Emails : Call(r, e) /\ UNCHANGED users
      BY <1>3 DEF Register
    <2>2. \A s \in Requests : s # r => tx'[s] = tx[s]
      BY <2>1 DEF Call, DatabaseInv, RegistrationTypeOK
    <2>3. req[r].sent = None
      BY <1>1, <1>3 DEF Register
    <2> QED
      BY <2>1, <2>2, <2>3
  <1>4. ASSUME NEW r \in Requests, Repository(r)
        PROVE  users \subseteq users' /\ req[r].sent = None /\ \A s \in Requests : s # r => tx'[s] = tx[s]
    <2>1. req[r].sent = None
      BY <1>1, <1>4 DEF Repository
    <2>2. users \subseteq users'
      BY <1>4 DEF Repository, CreateTeamWithOwner, Statement, Begin, InsertTeam, InsertUser,
                  Commit, Store, StatementFails, ConnectionBreaks
    <2>3. \A s \in Requests : s # r => tx'[s] = tx[s]
      BY <1>4 DEF Repository, CreateTeamWithOwner, Statement, Begin, InsertTeam, InsertUser,
                  Commit, StatementFails, ConnectionBreaks, Return, DatabaseInv, RegistrationTypeOK
    <2> QED
      BY <2>1, <2>2, <2>3
  <1>5. CASE GhostsEnd
    BY <1>5 DEF GhostsEnd, GhostEnds, Store
  <1>6. ASSUME NEW r \in Requests, Handle(r), ~Register(r) PROVE UNCHANGED db
    BY <1>6 DEF Handle, Unmatched, StartProbes, AnswerHealth, Registered, Authenticate,
                InnerEnds, Recover, Log
  <1>7. ASSUME Next, ~UNCHANGED db
        PROVE  GhostsEnd \/ \E s \in Requests : Register(s) \/ Repository(s)
    BY <1>6, <1>7 DEF Next, Arrive, InnerWrites, ProbeSucceeds, ProbeFails, SetProbe, ProbesExpire
  <1>8. CASE \E r \in Requests : Register(r) /\ ~UNCHANGED db
    BY <1>3, <1>8
  <1>9. CASE \E r \in Requests : Repository(r)
    BY <1>4, <1>9
  <1> QED
    BY <1>2, <1>5, <1>7, <1>8, <1>9 DEF vars

(* Only Registered gives these answers. *)
LEMMA AnswersStayTrue ==
  ASSUME DatabaseInv, ResponseInv, AnswersTrue, [Next]_vars
  PROVE  AnswersTrue'
  <1> USE DEF db
  <1>1. /\ users \subseteq users'
        /\ \A r \in Requests : req[r].sent # None => tx'[r] = tx[r]
    BY AccountsStay
  <1>2. \A r \in Requests : req[r] \in Request /\ Sound(req[r])
    BY EachSound DEF Sound
  <1> DEFINE Says(q) == q.route = "register" /\ q.sent \in {201, 409}
  <1>3. ASSUME NEW r \in Requests, \A s \in Requests : s # r => req'[s] = req[s],
               Says(req'[r]) => req[r].sent = req'[r].sent /\ req[r].route = "register"
        PROVE  AnswersTrue'
    <2> SUFFICES ASSUME NEW s \in Requests, Says(req'[s])
                 PROVE  /\ req'[s].sent = 201 => [email |-> tx'[s].email, team |-> tx'[s].team] \in users'
                        /\ req'[s].sent = 409 => \E u \in users' : u.email = tx'[s].email
      BY DEF AnswersTrue
    <2>1. req[s].sent = req'[s].sent /\ req[s].route = "register"
      BY <1>3
    <2>2. tx'[s] = tx[s] /\ users \subseteq users'
      BY <1>1, <2>1
    <2> QED
      BY <2>1, <2>2 DEF AnswersTrue
  <1>4. ASSUME NEW r \in Requests, NEW route \in Asks[r], Arrive(r, route) PROVE AnswersTrue'
    <2>1. req[r] = Unsent
      BY <1>2, <1>4 DEF Arrive, Sound
    <2>2. req'[r].route = route /\ (route # "preflight" => req'[r].sent = None)
      <3>1. CASE route = "preflight"
        <4>1. req' = [req EXCEPT ![r] = [Unsent EXCEPT !.route = "preflight", !.sent = 200, !.at = "done"]]
          BY <1>4, <2>1, <3>1 DEF Arrive, Become, Unsent
        <4> QED
          BY <3>1, <4>1 DEF Unsent, ResponseInv
      <3>2. CASE route # "preflight"
        <4>1. req' = [req EXCEPT ![r] = [Unsent EXCEPT !.route = route, !.at = route]]
          BY <1>4, <2>1, <3>2 DEF Arrive, Become, Unsent
        <4> QED
          BY <4>1 DEF Unsent, ResponseInv
      <3> QED
        BY <3>1, <3>2
    <2>3. \A s \in Requests : s # r => req'[s] = req[s]
      BY <1>4 DEF Arrive, Become, ResponseInv
    <2> QED
      BY <1>3, <2>2, <2>3
  <1>5. ASSUME NEW r \in Requests, NEW at \in Places, Become(r, req[r], at) PROVE AnswersTrue'
    <2>1. Moved(req[r], req'[r], at) /\ \A s \in Requests : s # r => req'[s] = req[s]
      BY <1>2, <1>5, BecomeSays
    <2> QED
      BY <1>3, <2>1 DEF Moved
  <1>6. ASSUME NEW r \in Requests, NEW s \in Status, Answer(r, s),
               req[r].route = "register" => s \notin {201, 409} /\ ~req[r].wrote /\ req[r].sent = None
        PROVE  AnswersTrue'
    BY <1>3, <1>6, AnswerSays
  <1>7. ASSUME NEW r \in Requests, Handle(r) PROVE AnswersTrue'
    <2> DEFINE q == req[r]
    <2>1. q \in Request /\ Sound(q)
      BY <1>2
    <2>2. {"returned", "repository", "inner", "panicked", "aborted"} \subseteq Places
      BY DEF Places
    <2>3. {400, 401, 404, 405, 422, 500} \cup InnerStatuses \subseteq Status
      BY DEF Status
    <2>4. CASE Unmatched(r)
      <3>1. q.route # "register"
        BY <2>1, <2>4 DEF Unmatched, Sound, Routes
      <3> QED
        BY <1>6, <2>3, <2>4, <3>1 DEF Unmatched
    <2>5. CASE Register(r)
      <3>1. ~q.wrote /\ q.sent = None
        BY <2>1, <2>5 DEF Register, Sound, Routes
      <3> QED
        BY <1>5, <1>6, <2>2, <2>3, <2>5, <3>1 DEF Register
    <2>6. CASE Registered(r)
      <3>1. ~q.wrote /\ q.sent = None /\ q.route = "register"
        BY <2>1, <2>6 DEF Registered, Sound, Routes
      <3>2. CASE Become(r, q, "panicked")
        BY <1>5, <2>2, <3>2
      <3>3. ASSUME NEW s \in RegisterStatuses(tx[r].result), Answer(r, s) PROVE AnswersTrue'
        <4>1. s \in Status
          BY DEF RegisterStatuses, Status
        <4>2. CASE s \notin {201, 409}
          BY <1>6, <3>1, <3>3, <4>1, <4>2
        <4>3. CASE s \in {201, 409}
          <5>1. /\ s = 201 => tx[r].result = "created"
                /\ s = 409 => tx[r].result = "conflict"
            BY <4>3 DEF RegisterStatuses
          <5>2. /\ s = 201 => [email |-> tx[r].email, team |-> tx[r].team] \in users
                /\ s = 409 => \E u \in users : u.email = tx[r].email
            BY <5>1 DEF DatabaseInv, ResultsTrue
          <5>3. req'[r].sent = s /\ \A t \in Requests : t # r => req'[t] = req[t]
            BY <3>1, <3>3, <4>1, AnswerSays
          <5>4. UNCHANGED <<users, tx>>
            BY <2>6 DEF Registered
          <5> SUFFICES ASSUME NEW t \in Requests, Says(req'[t])
                       PROVE  /\ req'[t].sent = 201 => [email |-> tx'[t].email, team |-> tx'[t].team] \in users'
                              /\ req'[t].sent = 409 => \E u \in users' : u.email = tx'[t].email
            BY DEF AnswersTrue
          <5>5. CASE t = r
            BY <5>2, <5>3, <5>4, <5>5
          <5>6. CASE t # r
            <6>1. Says(req[t]) /\ req'[t].sent = req[t].sent
              BY <5>3, <5>6
            <6>2. tx'[t] = tx[t] /\ users' = users
              BY <5>4
            <6> QED
              BY <6>1, <6>2 DEF AnswersTrue
          <5> QED
            BY <5>5, <5>6
        <4> QED
          BY <4>2, <4>3
      <3> QED
        BY <2>6, <3>2, <3>3 DEF Registered
    <2>7. CASE StartProbes(r)
      <3>1. q.at = "health" /\ req'[r].sent = q.sent /\ req'[r].route = q.route
        BY <2>1, <2>7 DEF StartProbes, Become, Request, ResponseInv
      <3>2. \A s \in Requests : s # r => req'[s] = req[s]
        BY <2>7 DEF StartProbes, Become, ResponseInv
      <3> QED
        BY <1>3, <3>1, <3>2
    <2>8. CASE AnswerHealth(r)
      <3>1. q.route = "health" /\ HealthStatus(q) \in Status
        BY <2>1, <2>8 DEF AnswerHealth, Sound, HealthStatus, Status
      <3> QED
        BY <1>6, <2>8, <3>1 DEF AnswerHealth
    <2>9. CASE Authenticate(r) \/ InnerEnds(r)
      <3>1. q.route = "protected"
        BY <2>1, <2>9 DEF Authenticate, InnerEnds, Sound, Routes
      <3>2. ASSUME NEW s \in Status, Answer(r, s) PROVE AnswersTrue'
        BY <1>6, <3>1, <3>2
      <3>3. CASE Authenticate(r)
        BY <1>5, <2>2, <2>3, <3>2, <3>3 DEF Authenticate
      <3>4. CASE Become(r, q, "returned") \/ \E at \in {"panicked", "aborting"} : Become(r, q, at)
        BY <1>5, <3>4 DEF Places
      <3>5. CASE \E s \in InnerStatuses \cup {500} : Answer(r, s)
        BY <2>3, <3>2, <3>5
      <3> QED
        BY <2>9, <3>3, <3>4, <3>5 DEF InnerEnds
    <2>10. CASE Recover(r)
      <3>1. CASE Answer(r, 500) /\ q.at = "panicked" /\ ~q.wrote
        <4>1. q.sent = None
          BY <2>1, <3>1 DEF Sound
        <4> QED
          BY <1>6, <2>3, <3>1, <4>1
      <3> QED
        BY <1>5, <2>2, <2>10, <3>1 DEF Recover
    <2>11. CASE Log(r)
      <3>1. /\ req'[r].route = q.route /\ req'[r].sent = OnWire(q, 200)
            /\ \A s \in Requests : s # r => req'[s] = req[s]
        BY <2>1, <2>11 DEF Log, Become, Request, ResponseInv
      <3>2. q.route = "register" => q.sent # None
        BY <2>1, <2>11 DEF Log, Sound, Request, Status
      <3> QED
        BY <1>3, <3>1, <3>2 DEF OnWire
    <2> QED
      BY <1>7, <2>4, <2>5, <2>6, <2>7, <2>8, <2>9, <2>10, <2>11 DEF Handle
  <1>8. ASSUME NEW r \in Requests, InnerWrites(r) PROVE AnswersTrue'
    <2>1. req[r].route = "protected"
      BY <1>2, <1>8 DEF InnerWrites, Sound
    <2> DEFINE v(s) == WriteHeader(req[r], s)
               w == [v(200) EXCEPT !.docs = @ + 1]
    <2>2. InnerStatuses \subseteq Status /\ 200 \in Status /\ "inner" \in Places
      BY DEF Status, Places
    <2>3. \A s \in Status : v(s) \in Request /\ v(s).route = "protected"
      BY <1>2, <2>1, HeaderWritten
    <2>4. Write(req[r]) = w
      BY DEF Write
    <2> HIDE DEF v
    <2>5. w \in Request /\ w.route = "protected"
      BY ONLY <2>2, <2>3 DEF Request
    <2> HIDE DEF w
    <2>6. PICK q \in Request : q.route = "protected" /\ Become(r, q, "inner")
      BY <1>8, <2>2, <2>3, <2>4, <2>5 DEF InnerWrites, v
    <2>7. req'[r].route = "protected" /\ \A s \in Requests : s # r => req'[s] = req[s]
      BY <2>2, <2>6, BecomeSays DEF Moved
    <2> QED
      BY <1>3, <2>7
  <1>9. ASSUME NEW r \in Requests,
               ProbesExpire(r) \/ \E c \in Checks : ProbeSucceeds(r, c) \/ ProbeFails(r, c)
        PROVE  AnswersTrue'
    <2>1. /\ req'[r].route = req[r].route /\ req'[r].sent = req[r].sent
          /\ \A s \in Requests : s # r => req'[s] = req[s]
      BY <1>2, <1>9 DEF ProbesExpire, ProbeSucceeds, ProbeFails, SetProbe, Request, ResponseInv
    <2> QED
      BY <1>3, <2>1
  <1>10. CASE UNCHANGED req
    BY <1>1, <1>10 DEF AnswersTrue
  <1> QED
    BY <1>4, <1>7, <1>8, <1>9, <1>10 DEF Next, vars, Repository, GhostsEnd

(* 201 and 409 are true, then and ever after: an answer is given after the *)
(* commit it tells of, and nothing is deleted.                             *)
THEOREM AnswersAreTrue == Spec => []AnswersTrue
  <1>1. Init => AnswersTrue
    BY DEF Init, AnswersTrue, Unsent
  <1>2. DatabaseInv /\ ResponseInv /\ AnswersTrue /\ [Next]_vars => AnswersTrue'
    BY AnswersStayTrue
  <1> QED
    BY <1>1, <1>2, Everything, PTL DEF Spec
-------------------------------------------------------------------------------
(* Registration implements Accounts. *)

OpenOne == \E e \in Emails, t \in Teams : OneTransaction!Open(e, t)

(* A commit, the client's or one the server makes alone, opens one account. *)
LEMMA StoreOpens ==
  ASSUME DatabaseInv, NEW u \in User, Store(u.email, u.team),
         \A v \in users : v.email # u.email /\ v.team # u.team
  PROVE  OpenOne
  <1>1. u.team \notin teams
    BY DEF DatabaseInv, AccountsSound
  <1>2. OneTransaction!Open(u.email, u.team)
    BY <1>1 DEF OneTransaction!Open, Store
  <1> QED
    BY <1>2 DEF OpenOne, User

LEMMA NextOpens ==
  ASSUME DatabaseInv, [Next]_vars
  PROVE  OpenOne \/ UNCHANGED <<teams, users>>
  <1> USE DEF db
  <1>1. ASSUME NEW r \in Requests, Commit(r) PROVE OpenOne
    <2> DEFINE u == [email |-> tx[r].email, team |-> tx[r].team]
    <2>1. u \in User
      <3>1. tx[r].at = "commit"
        BY <1>1 DEF Commit
      <3>2. tx[r].email # None /\ tx[r].team # None
        BY <3>1 DEF DatabaseInv, ResultsTrue, AccountsSound
      <3>3. tx[r].email \in Emails /\ tx[r].team \in Teams
        BY <3>2 DEF DatabaseInv, RegistrationTypeOK, Tx
      <3> QED
        BY <3>3 DEF User
    <2>2. \A v \in users : v.email # u.email /\ v.team # u.team
      BY <1>1 DEF Commit, DatabaseInv, AccountsSound
    <2>3. Store(u.email, u.team)
      BY <1>1 DEF Commit
    <2> HIDE DEF u
    <2> QED
      BY <2>1, <2>2, <2>3, StoreOpens
  <1>2. ASSUME NEW r \in Requests, CreateTeamWithOwner(r), ~Commit(r) PROVE UNCHANGED <<teams, users>>
    BY <1>2 DEF CreateTeamWithOwner, Statement, Begin, InsertTeam, InsertUser, StatementFails, ConnectionBreaks
  <1>3. ASSUME NEW g \in ghosts, GhostEnds(g) PROVE OpenOne \/ UNCHANGED <<teams, users>>
    <2>1. CASE Store(g.email, g.team)
      <3>1. g \in User /\ \A v \in users : v.email # g.email /\ v.team # g.team
        BY DEF DatabaseInv, RegistrationTypeOK, AccountsSound
      <3> QED
        BY <2>1, <3>1, StoreOpens
    <2> QED
      BY <1>3, <2>1 DEF GhostEnds
  <1>4. ASSUME NEW r \in Requests, Handle(r) PROVE UNCHANGED <<teams, users>>
    BY <1>4 DEF Handle, Unmatched, StartProbes, AnswerHealth, Register, Registered, Authenticate,
                InnerEnds, Recover, Log
  <1>5. ASSUME NEW r \in Requests,
               \/ \E route \in Asks[r] : Arrive(r, route)
               \/ InnerWrites(r) \/ ProbesExpire(r)
               \/ \E c \in Checks : ProbeSucceeds(r, c) \/ ProbeFails(r, c)
        PROVE  UNCHANGED <<teams, users>>
    BY <1>5 DEF Arrive, InnerWrites, ProbesExpire, ProbeSucceeds, ProbeFails, SetProbe
  <1>6. ASSUME NEW r \in Requests, Repository(r) PROVE OpenOne \/ UNCHANGED <<teams, users>>
    BY <1>1, <1>2, <1>6 DEF Repository
  <1>7. CASE UNCHANGED vars
    BY <1>7 DEF vars
  <1> QED
    BY <1>3, <1>4, <1>5, <1>6, <1>7 DEF Next, GhostsEnd

(* A team and its owner appear in one step, in a step of the database that *)
(* commits, and one account per address: CreateTeamWithOwner is atomic,    *)
(* whatever fails and whoever else registers.                              *)
THEOREM RegistrationImplementsAccounts == Spec => RegistrationIsAtomic
  <1>1. Init => OneTransaction!AccountsInit
    BY DEF Init, RegistrationInit, OneTransaction!AccountsInit
  <1>2. DatabaseInv /\ [Next]_vars =>
          [\E e \in Emails, t \in Teams : OneTransaction!Open(e, t)]_<<teams, users>>
    BY NextOpens DEF OpenOne
  <1> QED
    BY <1>1, <1>2, Everything, PTL DEF Spec, RegistrationIsAtomic, OneTransaction!AccountsSpec
===============================================================================
