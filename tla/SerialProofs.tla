----------------------------- MODULE SerialProofs -----------------------------
(***************************************************************************)
(* What a serial client may rely on: with one request in flight at a time  *)
(* and no tick inside a handler, a session has at most one live token and  *)
(* a logout ends it, its access tokens within their lifetime.  Run         *)
(* two_tabs shows why the first is needed, run expired_record why the      *)
(* second is.  The last section also bounds what is left of an access      *)
(* token after a deletion, for any number of requests.                     *)
(***************************************************************************)
EXTENDS SessionsProofs, AccessTokens

(* One request in flight; one browser, and nobody else holds its tokens. *)
OneSlot    == \A p, q \in Requests : p = q
OneBrowser == Scripts = {} /\ \A b, c \in Browsers : b = c

(* What a refresh knows of its token at each step.  When IssuePair is      *)
(* called, the whole session is dead.                                      *)
RefreshKnows(q) ==
    q.op = "refresh" =>
        /\ q.pc = "check" => life[q.tok] > 0
        /\ q.pc \in {"load", "revoke"} => Usable(q.tok)
        /\ q.pc = "issue" => \A s \in Issued : root[s] = root[q.tok] => ~Usable(s)

RefreshesKnow == \A r \in Requests : RefreshKnows(req[r])

RotationInv == OneLiveToken /\ (~redisLost => RefreshesKnow)

(* The request in flight carries the browser's cookie, and a session that  *)
(* was logged out is neither renewed nor handed to the browser.            *)
LogoutKnows(q) ==
    /\ q.tok # None => jar[q.by] = q.tok
    /\ q.op = "refresh" /\ q.pc \in {"load", "revoke", "issue"} => root[q.tok] \notin ended
    /\ q.cookie \in Issued => root[q.cookie] \notin ended

LogoutInv ==
    /\ LogoutEndsSession
    /\ ~redisLost => ended \subseteq Issued /\ \A r \in Requests : LogoutKnows(req[r])

-------------------------------------------------------------------------------
(* What the steps have in common. *)

(* A redisLost that is still FALSE was FALSE before. *)
LEMMA LossStays ==
  ASSUME IndInv, [Next]_vars, ~redisLost'
  PROVE  ~redisLost
BY DEF IndInv, TypeOK, Next, Submit, Handle, SendRegister, SendLogin, SendRefresh, SendLogout,
       Send, CreateAccount, VerifyCredentials, ParseRefresh, CheckRevoked, LoadUser, ParseLogout,
       RevokeDone, RevokeFailed, IssueSession, IssueFailed, Deliver, LoseResponse, Crash,
       DeleteAccount, RedisLoses, Tick, vars, stores, history

(* With one slot, every request after r's step is the one r leaves behind. *)
LEMMA OnlyRequest ==
  ASSUME IndInv, OneSlot, NEW r \in Requests, NEW q, req' = [req EXCEPT ![r] = q],
         NEW p \in Requests
  PROVE  p = r /\ req'[p] = q
BY DEF OneSlot, IndInv, TypeOK

(* The answer a handler leaves, whatever its status. *)
LEMMA AnswerShape ==
  ASSUME IndInv, NEW r \in Requests, NEW status, Answer(r, status)
  PROVE  \E q : /\ req' = [req EXCEPT ![r] = q]
                /\ q.pc = "reply" /\ q.tok = None /\ q.cookie \in {None, Keep}
<1> DEFINE q == Request("reply", req[r].op, req[r].by, None, None, SetCookie(req[r], status))
<1>1. q.pc = "reply" /\ q.tok = None /\ q.cookie \in {None, Keep}
  BY DEF Request, SetCookie
<1>2. req' = [req EXCEPT ![r] = q]
  BY DEF Answer, Reply
<1> QED BY <1>1, <1>2

(* Steps that mint nothing and revive nothing keep one token live. *)
LEMMA FewerLive ==
  ASSUME OneLiveToken, UNCHANGED <<minted, root, redisLost>>,
         \A t \in Issued : Usable(t)' => Usable(t)
  PROVE  OneLiveToken'
BY DEF OneLiveToken, Issued

(* Revoke can only withdraw.  Once it has, its token is dead. *)
LEMMA RevokeKills ==
  ASSUME IndInv, NEW r \in Requests, req[r].pc = "revoke", life' = life
  PROVE  /\ entry' \in {entry, Stored(req[r].tok, req[r].ttl)} =>
               \A t \in Issued : Usable(t)' => Usable(t)
         /\ entry' = Stored(req[r].tok, req[r].ttl) =>
               \A t \in Tokens : t = req[r].tok => ~Usable(t)'
<1>1. /\ entry \in [Tokens -> 0..RefreshTTL] /\ life \in [Tokens -> 0..RefreshTTL]
      /\ Issued \subseteq Tokens
  BY SessionsAssumption DEF IndInv, TypeOK, Issued, Tokens
<1>2. /\ req[r] \in RequestType /\ req[r].tok # None /\ req[r].ttl >= life[req[r].tok]
  BY InFlight DEF RequestSound
<1>3. req[r].tok \in Tokens /\ req[r].ttl \in 0..RefreshTTL
  BY <1>2 DEF RequestType
<1>4. life[req[r].tok] \in 0..RefreshTTL
  BY <1>1, <1>3
<1>5. ASSUME entry' \in {entry, Stored(req[r].tok, req[r].ttl)}, NEW t \in Issued, Usable(t)'
      PROVE  Usable(t)
  <2>1. entry'[t] = 0 => entry[t] = 0
    BY <1>1, <1>3, <1>5 DEF Stored
  <2> QED BY <1>5, <2>1 DEF Usable
<1>6. ASSUME entry' = Stored(req[r].tok, req[r].ttl), NEW t \in Tokens, t = req[r].tok
      PROVE  ~Usable(t)'
  <2>1. CASE req[r].ttl = 0
    <3>1. life[t] = 0
      BY <1>2, <1>4, <1>6, <2>1, SessionsAssumption
    <3> QED BY <1>6, <3>1 DEF Usable
  <2>2. CASE req[r].ttl # 0
    <3>1. entry'[t] = req[r].ttl
      BY <1>1, <1>3, <1>6, <2>2 DEF Stored
    <3> QED BY <2>2, <3>1 DEF Usable
  <2> QED BY <2>1, <2>2
<1> QED BY <1>5, <1>6
-------------------------------------------------------------------------------
(* One live token. *)

(* A step of r that mints, withdraws and ages nothing keeps RotationInv if *)
(* it leaves r with what a refresh knows.                                  *)
LEMMA QuietRotation ==
  ASSUME IndInv, RotationInv, OneSlot, NEW r \in Requests, NEW q,
         req' = [req EXCEPT ![r] = q],
         UNCHANGED <<minted, root, life, entry, redisLost>>,
         ~redisLost => RefreshKnows(q)
  PROVE  RotationInv'
<1>1. \A t \in Issued : Usable(t)' = Usable(t)
  BY DEF Usable
<1>2. OneLiveToken'
  BY <1>1, FewerLive DEF RotationInv
<1>3. ASSUME ~redisLost', NEW p \in Requests PROVE RefreshKnows(req[p])'
  <2>1. req'[p] = q
    BY OnlyRequest
  <2>2. RefreshKnows(q)
    BY <1>3
  <2> QED BY <2>1, <2>2 DEF RefreshKnows, Usable, Issued
<1> QED BY <1>2, <1>3 DEF RotationInv, RefreshesKnow

(* An answer has nothing left to know. *)
LEMMA AnswerRotation ==
  ASSUME IndInv, RotationInv, OneSlot, NEW r \in Requests, NEW status, Answer(r, status),
         UNCHANGED <<minted, root, life, entry, redisLost>>
  PROVE  RotationInv'
<1>1. PICK q : req' = [req EXCEPT ![r] = q] /\ q.pc = "reply"
  BY AnswerShape
<1>2. RefreshKnows(q)
  BY <1>1 DEF RefreshKnows
<1> QED BY <1>1, <1>2, QuietRotation

(* The steps that read: a token that passes the check has no entry, and    *)
(* has not expired since it was parsed.                                    *)
LEMMA ReadRotation ==
  ASSUME IndInv, RotationInv, OneSlot, NEW r \in Requests,
         \/ CreateAccount(r) \/ VerifyCredentials(r)
         \/ ParseRefresh(r) \/ CheckRevoked(r) \/ LoadUser(r) \/ ParseLogout(r)
         \/ IssueFailed(r) \/ Deliver(r) \/ LoseResponse(r)
  PROVE  RotationInv'
<1>1. req \in [Requests -> RequestType] /\ req[r] \in RequestType /\ RequestSound(req[r])
  BY InFlight DEF IndInv, TypeOK
<1>2. ~redisLost => RefreshKnows(req[r])
  BY DEF RotationInv, RefreshesKnow
<1>3. UNCHANGED <<minted, root, life, entry, redisLost>>
  BY DEF CreateAccount, VerifyCredentials, ParseRefresh, CheckRevoked, LoadUser, ParseLogout,
         IssueFailed, Deliver, LoseResponse, stores, history
<1>4. ASSUME NEW status, Answer(r, status) PROVE RotationInv'
  BY <1>3, <1>4, AnswerRotation
<1>5. ASSUME NEW q, req' = [req EXCEPT ![r] = q], ~redisLost => RefreshKnows(q)
      PROVE  RotationInv'
  BY <1>3, <1>5, QuietRotation
<1>6. ASSUME NEW next, Goto(r, next)
      PROVE  /\ req' = [req EXCEPT ![r] = [req[r] EXCEPT !.pc = next, !.ttl = 0]]
             /\ LET q == [req[r] EXCEPT !.pc = next, !.ttl = 0]
                IN  q.pc = next /\ q.op = req[r].op /\ q.tok = req[r].tok
  BY <1>1, <1>6 DEF Goto, RequestType
<1>7. CASE CreateAccount(r)
  <2>1. ASSUME NEW u \in Users, req' = [req EXCEPT ![r].pc = "issue", ![r].user = u]
        PROVE  RotationInv'
    <3> DEFINE q == [req[r] EXCEPT !.pc = "issue", !.user = u]
    <3>1. req' = [req EXCEPT ![r] = q] /\ q.op # "refresh"
      BY <1>1, <1>7, <2>1 DEF CreateAccount, At, RequestType
    <3> QED BY <1>5, <3>1 DEF RefreshKnows
  <2> QED BY <1>4, <1>7, <2>1 DEF CreateAccount
<1>8. CASE VerifyCredentials(r)
  <2>1. ASSUME Goto(r, "issue") PROVE RotationInv'
    <3> DEFINE q == [req[r] EXCEPT !.pc = "issue", !.ttl = 0]
    <3>1. req' = [req EXCEPT ![r] = q] /\ q.op # "refresh"
      BY <1>1, <1>6, <1>8, <2>1 DEF VerifyCredentials, At
    <3> QED BY <1>5, <3>1 DEF RefreshKnows
  <2> QED BY <1>4, <1>8, <2>1 DEF VerifyCredentials
<1>9. CASE ParseRefresh(r)
  <2>1. ASSUME Goto(r, "check"), Parses(req[r].tok) PROVE RotationInv'
    <3> DEFINE q == [req[r] EXCEPT !.pc = "check", !.ttl = 0]
    <3>1. req' = [req EXCEPT ![r] = q] /\ q.pc = "check" /\ q.tok = req[r].tok
      BY <1>6, <2>1
    <3>2. RefreshKnows(q)
      BY <2>1, <3>1 DEF RefreshKnows, Parses
    <3> QED BY <1>5, <3>1, <3>2
  <2> QED BY <1>4, <1>9, <2>1 DEF ParseRefresh
<1>10. CASE CheckRevoked(r)
  <2>1. ASSUME entry[req[r].tok] = 0, Goto(r, "load") PROVE RotationInv'
    <3> DEFINE q == [req[r] EXCEPT !.pc = "load", !.ttl = 0]
    <3>1. req' = [req EXCEPT ![r] = q] /\ q.pc = "load" /\ q.tok = req[r].tok
      BY <1>6, <2>1
    <3>2. ~redisLost => life[req[r].tok] > 0
      BY <1>2, <1>10 DEF CheckRevoked, At, RefreshKnows
    <3>3. ~redisLost => RefreshKnows(q)
      BY <2>1, <3>1, <3>2 DEF RefreshKnows, Usable
    <3> QED BY <1>5, <3>1, <3>3
  <2> QED BY <1>4, <1>10, <2>1 DEF CheckRevoked
<1>11. CASE LoadUser(r)
  <2> DEFINE t == req[r].tok
             u == owner[t]
             q == [req[r] EXCEPT !.pc = "revoke", !.user = u, !.ttl = RemainingLife(t)]
  <2>1. ASSUME req' = [req EXCEPT ![r].pc = "revoke", ![r].user = u, ![r].ttl = RemainingLife(t)]
        PROVE  RotationInv'
    <3>1. req' = [req EXCEPT ![r] = q] /\ q.pc = "revoke" /\ q.tok = t
      BY <1>1, <2>1 DEF RequestType
    <3>2. ~redisLost => Usable(t)
      BY <1>2, <1>11 DEF LoadUser, At, RefreshKnows
    <3>3. ~redisLost => RefreshKnows(q)
      BY <3>1, <3>2 DEF RefreshKnows
    <3> QED BY <1>5, <3>1, <3>3
  <2> QED BY <1>4, <1>11, <2>1 DEF LoadUser
<1>12. CASE ParseLogout(r)
  <2> DEFINE q == [req[r] EXCEPT !.pc = "revoke", !.ttl = RemainingLife(req[r].tok)]
  <2>1. ASSUME req' = [req EXCEPT ![r].pc = "revoke", ![r].ttl = RemainingLife(req[r].tok)]
        PROVE  RotationInv'
    <3>1. req' = [req EXCEPT ![r] = q] /\ q.op # "refresh"
      BY <1>1, <1>12, <2>1 DEF ParseLogout, At, RequestType
    <3> QED BY <1>5, <3>1 DEF RefreshKnows
  <2> QED BY <1>4, <1>12, <2>1 DEF ParseLogout
<1>13. CASE IssueFailed(r)
  BY <1>4, <1>13 DEF IssueFailed
<1>14. CASE Deliver(r) \/ LoseResponse(r)
  <2>1. req' = [req EXCEPT ![r] = Idle]
    BY <1>14 DEF Deliver, LoseResponse
  <2>2. RefreshKnows(Idle)
    BY DEF RefreshKnows, Idle, Request
  <2> QED BY <1>5, <2>1, <2>2
<1> QED BY <1>7, <1>8, <1>9, <1>10, <1>11, <1>12, <1>13, <1>14

(* Revoke: the token was the one live token of its session, and is dead    *)
(* when IssuePair is called.                                               *)
LEMMA RevokeRotation ==
  ASSUME IndInv, RotationInv, OneSlot, NEW r \in Requests, RevokeDone(r) \/ RevokeFailed(r)
  PROVE  RotationInv'
<1> DEFINE t == req[r].tok
<1>1. /\ req \in [Requests -> RequestType] /\ req[r] \in RequestType
      /\ req[r].pc = "revoke" /\ t \in Tokens /\ t \in Issued
  BY InFlight DEF RevokeDone, RevokeFailed, IndInv, TypeOK, RequestSound
<1>2. UNCHANGED <<minted, root, life, redisLost>>
  BY DEF RevokeDone, RevokeFailed, history
<1>3. entry' \in {entry, Stored(t, req[r].ttl)}
  BY DEF RevokeDone, RevokeFailed
<1>4. \A s \in Issued : Usable(s)' => Usable(s)
  BY <1>1, <1>2, <1>3, RevokeKills
<1>5. OneLiveToken'
  BY <1>2, <1>4, FewerLive DEF RotationInv
<1>6. ASSUME NEW status, Answer(r, status) PROVE RotationInv'
  <2>1. PICK q : req' = [req EXCEPT ![r] = q] /\ q.pc = "reply"
    BY <1>6, AnswerShape
  <2>2. ASSUME NEW p \in Requests PROVE RefreshKnows(req[p])'
    <3>1. req'[p] = q
      BY <2>1, OnlyRequest
    <3> QED BY <2>1, <3>1 DEF RefreshKnows
  <2> QED BY <1>5, <2>2 DEF RotationInv, RefreshesKnow
<1>7. ASSUME RevokeDone(r), req[r].op = "refresh", Goto(r, "issue") PROVE RotationInv'
  <2> DEFINE q == [req[r] EXCEPT !.pc = "issue", !.ttl = 0]
  <2>1. req' = [req EXCEPT ![r] = q] /\ q.pc = "issue" /\ q.tok = t
    BY <1>1, <1>7 DEF Goto, RequestType
  <2> HIDE DEF q
  <2>2. PICK n \in Tokens : n = t
    BY <1>1
  <2>3. ~Usable(n)'
    BY <1>1, <1>2, <1>7, <2>2, RevokeKills DEF RevokeDone
  <2>4. ASSUME ~redisLost, NEW s \in Issued, root[s] = root[n], Usable(s)' PROVE FALSE
    <3>1. Usable(s) /\ Usable(n)
      BY <1>1, <1>4, <1>7, <2>2, <2>4 DEF RotationInv, RefreshesKnow, RefreshKnows
    <3>2. s = n
      BY <1>1, <2>2, <2>4, <3>1 DEF RotationInv, OneLiveToken
    <3> QED BY <2>3, <2>4, <3>2
  <2>5. ASSUME ~redisLost', NEW p \in Requests PROVE RefreshKnows(req[p])'
    <3>1. req'[p] = q
      BY <2>1, OnlyRequest
    <3>2. ASSUME NEW s \in Issued', root'[s] = root'[n] PROVE ~Usable(s)'
      BY <1>2, <2>4, <2>5, <3>2 DEF Issued
    <3> QED BY <2>1, <2>2, <3>1, <3>2 DEF RefreshKnows
  <2> QED BY <1>5, <2>5 DEF RotationInv, RefreshesKnow
<1> QED BY <1>6, <1>7 DEF RevokeDone, RevokeFailed

(* IssuePair: a new session has no other token, and a renewed one has no   *)
(* live token left.                                                        *)
LEMMA IssueRotation ==
  ASSUME IndInv, RotationInv, OneSlot, NEW r \in Requests, IssueSession(r)
  PROVE  RotationInv'
<1> DEFINE t == minted + 1
           p == req[r].tok
           q == Request("reply", req[r].op, req[r].by, None, None, t)
<1>1. /\ req[r].pc = "issue"
      /\ p # None => req[r].op = "refresh"
      /\ p # None => p \in Issued
  BY InFlight DEF IssueSession, RequestSound
<1>2. /\ t \in Tokens /\ minted \in Nat /\ Issued \subseteq Tokens
      /\ t \notin Issued /\ Issued' = Issued \cup {t}
  BY SessionsAssumption DEF IssueSession, IndInv, TypeOK, Tokens, Issued
<1>3. /\ entry' = entry /\ redisLost' = redisLost
      /\ root' = [root EXCEPT ![t] = IF p = None THEN t ELSE root[p]]
      /\ life' = [life EXCEPT ![t] = RefreshTTL]
      /\ req' = [req EXCEPT ![r] = q]
  BY DEF IssueSession, Reply
<1>4. q.pc = "reply"
  BY DEF Request
<1> HIDE DEF q
<1>5. \A s \in Issued : root'[s] = root[s] /\ root[s] \in Issued /\ (Usable(s)' <=> Usable(s))
  BY <1>2, <1>3 DEF IndInv, TypeOK, TokenShape, Usable, Issued
<1>6. ASSUME ~redisLost, NEW s \in Issued, root'[s] = root'[t]
      PROVE  ~Usable(s)
  <2>1. root'[t] = IF p = None THEN t ELSE root[p]
    BY <1>2, <1>3 DEF IndInv, TypeOK
  <2>2. root[s] = root'[t]
    BY <1>5, <1>6
  <2>3. p # None
    BY <1>2, <1>5, <2>1, <2>2
  <2>4. \A x \in Issued : root[x] = root[p] => ~Usable(x)
    BY <1>1, <1>6, <2>3 DEF RotationInv, RefreshesKnow, RefreshKnows
  <2> QED BY <2>1, <2>2, <2>3, <2>4
<1>7. OneLiveToken'
  <2>1. ASSUME ~redisLost, NEW x \in Issued', NEW y \in Issued',
               root'[x] = root'[y], Usable(x)', Usable(y)'
        PROVE  x = y
    <3>1. CASE x \in Issued /\ y \in Issued
      BY <1>5, <2>1, <3>1 DEF RotationInv, OneLiveToken
    <3>2. CASE x = t \/ y = t
      BY <1>2, <1>5, <1>6, <2>1, <3>2
    <3> QED BY <1>2, <3>1, <3>2
  <2> QED BY <1>3, <2>1 DEF OneLiveToken
<1>8. ASSUME NEW x \in Requests PROVE RefreshKnows(req[x])'
  <2>1. req'[x] = q
    BY <1>3, OnlyRequest
  <2> QED BY <1>4, <2>1 DEF RefreshKnows
<1> QED BY <1>7, <1>8 DEF RotationInv, RefreshesKnow

(* The clock runs between requests, and age revives no token. *)
LEMMA TickRotation ==
  ASSUME IndInv, RotationInv, Prompt, Tick
  PROVE  RotationInv'
<1>1. UNCHANGED <<minted, root, req, redisLost>>
  BY DEF Tick, history
<1>2. ~redisLost => OneLiveToken'
  BY <1>1, TickStep, FewerLive DEF RotationInv
<1>3. ASSUME NEW r \in Requests PROVE RefreshKnows(req[r])'
  BY <1>1 DEF Tick, RefreshKnows
<1> QED BY <1>1, <1>2, <1>3 DEF RotationInv, RefreshesKnow, OneLiveToken

(* What clients, crashes and operators do. *)
LEMMA OutsideRotation ==
  ASSUME IndInv, RotationInv, OneSlot,
         \/ \E r \in Requests, c \in Browsers \cup Scripts : Submit(r, c)
         \/ Crash \/ (\E u \in Users : DeleteAccount(u)) \/ UNCHANGED vars
  PROVE  RotationInv'
<1>1. CASE \E r \in Requests, c \in Browsers \cup Scripts : Submit(r, c)
  <2>1. PICK r \in Requests, c \in Browsers \cup Scripts : Submit(r, c)
    BY <1>1
  <2>2. ASSUME NEW op, NEW pc \in {"create", "verify", "parse"}, NEW u, NEW t,
               Send(r, c, op, pc, u, t)
        PROVE  RotationInv'
    <3> DEFINE q == Request(pc, op, c, u, t, Keep)
    <3>1. req' = [req EXCEPT ![r] = q] /\ UNCHANGED <<minted, root, life, entry, redisLost>>
      BY <2>2 DEF Send, stores, history
    <3>2. RefreshKnows(q)
      BY DEF RefreshKnows, Request
    <3> HIDE DEF q
    <3> QED BY <3>1, <3>2, QuietRotation
  <2> QED BY <2>1, <2>2 DEF Submit, SendRegister, SendLogin, SendRefresh, SendLogout
<1>2. CASE Crash \/ (\E u \in Users : DeleteAccount(u)) \/ UNCHANGED vars
  <2>1. UNCHANGED <<minted, root, life, entry, redisLost>>
    BY <1>2 DEF Crash, DeleteAccount, vars, stores, history
  <2>2. \A t \in Issued : Usable(t)' = Usable(t)
    BY <2>1 DEF Usable
  <2>3. OneLiveToken'
    BY <2>1, <2>2, FewerLive DEF RotationInv
  <2>4. ASSUME NEW r \in Requests, ~redisLost' PROVE RefreshKnows(req[r])'
    <3>1. req'[r] = req[r] \/ req'[r].pc = "idle"
      BY <1>2 DEF Crash, DeleteAccount, vars, Idle, Request
    <3>2. RefreshKnows(req[r])
      BY <2>1, <2>4 DEF RotationInv, RefreshesKnow
    <3> QED BY <2>1, <2>2, <3>1, <3>2 DEF RefreshKnows, Issued, Usable
  <2> QED BY <2>3, <2>4 DEF RotationInv, RefreshesKnow
<1> QED BY <1>1, <1>2

(* Every step keeps one live token per session. *)
LEMMA RotationStep ==
  ASSUME IndInv, RotationInv, OneSlot, Prompt, [Next]_vars
  PROVE  RotationInv'
<1>1. ASSUME NEW r \in Requests, Handle(r) PROVE RotationInv'
  BY <1>1, ReadRotation, RevokeRotation, IssueRotation DEF Handle
<1>2. CASE RedisLoses
  BY <1>2 DEF RedisLoses, RotationInv, OneLiveToken
<1> QED BY <1>1, <1>2, TickRotation, OutsideRotation DEF Next

(* Nothing is minted, nobody is served, nobody was logged out. *)
LEMMA SerialInit == Init => RotationInv /\ LogoutInv
<1> SUFFICES ASSUME Init PROVE RotationInv /\ LogoutInv
  OBVIOUS
<1>1. minted = 0 /\ ended = {} /\ req = [r \in Requests |-> Idle]
  BY DEF Init
<1>2. Issued = {}
  BY <1>1 DEF Issued
<1>3. Idle.tok = None /\ Idle.op = "none"
  BY DEF Idle, Request
<1>4. RefreshesKnow /\ \A r \in Requests : LogoutKnows(req[r])
  BY <1>1, <1>2, <1>3 DEF RefreshesKnow, RefreshKnows, LogoutKnows
<1> QED  BY <1>1, <1>2, <1>4 DEF RotationInv, OneLiveToken, LogoutInv, LogoutEndsSession

(* A client that waits for each answer before it sends the next request,   *)
(* be it a browser or one that keeps every token, has at most one live     *)
(* token per session: Refresh revokes before it issues, and no failure,    *)
(* lost response or crash in between leaves two.                           *)
THEOREM OneLiveTokenWhenSerial ==
  ASSUME OneSlot, Prompt
  PROVE  Spec => []OneLiveToken
<1>1. Init => RotationInv
  BY SerialInit
<1>2. IndInv /\ RotationInv /\ [Next]_vars => RotationInv'
  BY RotationStep
<1>3. RotationInv => OneLiveToken
  BY DEF RotationInv
<1> QED BY <1>1, <1>2, <1>3, Invariance, PTL DEF Spec
-------------------------------------------------------------------------------
(* A logout ends the session. *)

(* With one browser and nobody else, a request in flight is the browser's. *)
LEMMA BrowserSent ==
  ASSUME IndInv, OneBrowser, NEW r \in Requests, req[r].pc # "idle"
  PROVE  req[r].by \in Browsers /\ \A b \in Browsers : b = req[r].by
BY InFlight DEF OneBrowser, RequestSound, RequestType

(* A step that touches neither the browser nor the sessions it logged out, *)
(* and revives nothing, only has to leave its request as LogoutKnows says. *)
LEMMA QuietLogout ==
  ASSUME IndInv, LogoutInv, OneSlot, NEW r \in Requests, NEW q,
         req' = [req EXCEPT ![r] = q],
         UNCHANGED <<minted, root, jar, ended, redisLost>>,
         \A t \in Issued : Usable(t)' => Usable(t),
         ~redisLost => LogoutKnows(q)
  PROVE  LogoutInv'
<1>1. LogoutEndsSession'
  <2>1. \A b \in Browsers : jar[b] \in Issued \cup {None}
    BY DEF IndInv, JarsIssued
  <2> QED BY <2>1 DEF LogoutInv, LogoutEndsSession
<1>2. ASSUME ~redisLost', NEW p \in Requests PROVE LogoutKnows(req[p])'
  <2>1. req'[p] = q
    BY OnlyRequest
  <2>2. LogoutKnows(q)
    BY <1>2
  <2> QED BY <2>1, <2>2 DEF LogoutKnows, Issued
<1> QED BY <1>1, <1>2 DEF LogoutInv, Issued

(* An answer without a new cookie. *)
LEMMA AnswerLogout ==
  ASSUME IndInv, LogoutInv, OneSlot, NEW r \in Requests, NEW status, Answer(r, status),
         UNCHANGED <<minted, root, jar, ended, redisLost>>,
         \A t \in Issued : Usable(t)' => Usable(t)
  PROVE  LogoutInv'
<1>1. PICK q : /\ req' = [req EXCEPT ![r] = q]
               /\ q.pc = "reply" /\ q.tok = None /\ q.cookie \in {None, Keep}
  BY AnswerShape
<1>2. None \notin Issued /\ Keep \notin Issued
  BY SessionsAssumption DEF IndInv, TypeOK, Issued, Tokens
<1>3. LogoutKnows(q)
  BY <1>1, <1>2 DEF LogoutKnows
<1> QED BY <1>1, <1>3, QuietLogout

(* The steps that read.  The check is where a logged-out session stops:    *)
(* the browser's token of it is not usable.                                *)
LEMMA ReadLogout ==
  ASSUME IndInv, RotationInv, LogoutInv, OneSlot, OneBrowser, NEW r \in Requests,
         \/ CreateAccount(r) \/ VerifyCredentials(r)
         \/ ParseRefresh(r) \/ CheckRevoked(r) \/ LoadUser(r) \/ ParseLogout(r)
         \/ IssueFailed(r) \/ LoseResponse(r)
  PROVE  LogoutInv'
<1>1. req \in [Requests -> RequestType] /\ req[r] \in RequestType /\ RequestSound(req[r])
  BY InFlight DEF IndInv, TypeOK
<1>2. ~redisLost => LogoutKnows(req[r])
  BY DEF LogoutInv
<1>3. UNCHANGED <<minted, root, life, entry, jar, ended, redisLost>>
  BY DEF CreateAccount, VerifyCredentials, ParseRefresh, CheckRevoked, LoadUser, ParseLogout,
         IssueFailed, LoseResponse, stores, history
<1>4. \A t \in Issued : Usable(t)' => Usable(t)
  BY <1>3 DEF Usable
<1>5. ASSUME NEW status, Answer(r, status) PROVE LogoutInv'
  BY <1>3, <1>4, <1>5, AnswerLogout
(* The request goes on, as it was but for its step and its user. *)
<1>6. ASSUME NEW q, req' = [req EXCEPT ![r] = q],
             q.tok = req[r].tok, q.by = req[r].by, q.cookie = req[r].cookie,
             ~redisLost /\ q.op = "refresh" /\ q.pc \in {"load", "revoke", "issue"}
                => root[q.tok] \notin ended
      PROVE  LogoutInv'
  <2>1. ~redisLost => LogoutKnows(q)
    BY <1>2, <1>6 DEF LogoutKnows
  <2> QED BY <1>3, <1>4, <1>6, <2>1, QuietLogout
<1>7. ASSUME NEW next, Goto(r, next),
             ~redisLost /\ req[r].op = "refresh" /\ next \in {"load", "revoke", "issue"}
                => root[req[r].tok] \notin ended
      PROVE  LogoutInv'
  <2> DEFINE q == [req[r] EXCEPT !.pc = next, !.ttl = 0]
  <2>1. /\ req' = [req EXCEPT ![r] = q] /\ q.pc = next /\ q.op = req[r].op
        /\ q.tok = req[r].tok /\ q.by = req[r].by /\ q.cookie = req[r].cookie
    BY <1>1, <1>7 DEF Goto, RequestType
  <2> HIDE DEF q
  <2> QED BY <1>6, <1>7, <2>1
<1>8. CASE CreateAccount(r)
  <2>1. ASSUME NEW u \in Users, req' = [req EXCEPT ![r].pc = "issue", ![r].user = u]
        PROVE  LogoutInv'
    <3> DEFINE q == [req[r] EXCEPT !.pc = "issue", !.user = u]
    <3>1. /\ req' = [req EXCEPT ![r] = q] /\ q.op # "refresh"
          /\ q.tok = req[r].tok /\ q.by = req[r].by /\ q.cookie = req[r].cookie
      BY <1>1, <1>8, <2>1 DEF CreateAccount, At, RequestType
    <3> HIDE DEF q
    <3> QED BY <1>6, <3>1
  <2> QED BY <1>5, <1>8, <2>1 DEF CreateAccount
<1>9. CASE VerifyCredentials(r)
  BY <1>5, <1>7, <1>9 DEF VerifyCredentials, At
<1>10. CASE ParseRefresh(r)
  BY <1>5, <1>7, <1>10 DEF ParseRefresh
<1>11. CASE CheckRevoked(r)
  <2> DEFINE t == req[r].tok
  <2>1. ASSUME ~redisLost, entry[t] = 0 PROVE root[t] \notin ended
    <3>1. req[r].pc = "check" /\ req[r].op = "refresh" /\ t # None
      BY <1>1, <1>11 DEF CheckRevoked, At, RequestSound
    <3>2. Usable(t)
      BY <2>1, <3>1 DEF RotationInv, RefreshesKnow, RefreshKnows, Usable
    <3>3. req[r].by \in Browsers /\ jar[req[r].by] = t
      BY <1>2, <2>1, <3>1, BrowserSent DEF LogoutKnows
    <3> QED BY <2>1, <3>1, <3>2, <3>3 DEF LogoutInv, LogoutEndsSession
  <2> QED BY <1>5, <1>7, <1>11, <2>1 DEF CheckRevoked
<1>12. CASE LoadUser(r)
  <2> DEFINE u == owner[req[r].tok]
             q == [req[r] EXCEPT !.pc = "revoke", !.user = u,
                                 !.ttl = RemainingLife(req[r].tok)]
  <2>1. ASSUME req' = [req EXCEPT ![r].pc = "revoke", ![r].user = u,
                                  ![r].ttl = RemainingLife(req[r].tok)]
        PROVE  LogoutInv'
    <3>1. /\ req' = [req EXCEPT ![r] = q]
          /\ q.tok = req[r].tok /\ q.by = req[r].by /\ q.cookie = req[r].cookie
      BY <1>1, <2>1 DEF RequestType
    <3>2. ~redisLost => root[req[r].tok] \notin ended
      BY <1>2, <1>12 DEF LoadUser, At, LogoutKnows
    <3> HIDE DEF q
    <3> QED BY <1>6, <3>1, <3>2
  <2> QED BY <1>5, <1>12, <2>1 DEF LoadUser
<1>13. CASE ParseLogout(r)
  <2> DEFINE q == [req[r] EXCEPT !.pc = "revoke", !.ttl = RemainingLife(req[r].tok)]
  <2>1. ASSUME req' = [req EXCEPT ![r].pc = "revoke", ![r].ttl = RemainingLife(req[r].tok)]
        PROVE  LogoutInv'
    <3>1. /\ req' = [req EXCEPT ![r] = q] /\ q.op # "refresh"
          /\ q.tok = req[r].tok /\ q.by = req[r].by /\ q.cookie = req[r].cookie
      BY <1>1, <1>13, <2>1 DEF ParseLogout, At, RequestType
    <3> HIDE DEF q
    <3> QED BY <1>6, <3>1
  <2> QED BY <1>5, <1>13, <2>1 DEF ParseLogout
<1>14. CASE IssueFailed(r)
  BY <1>5, <1>14 DEF IssueFailed
<1>15. CASE LoseResponse(r)
  <2>1. req' = [req EXCEPT ![r] = Idle]
    BY <1>15 DEF LoseResponse
  <2>2. LogoutKnows(Idle)
    BY SessionsAssumption DEF LogoutKnows, Idle, Request, IndInv, TypeOK, Issued, Tokens
  <2> QED BY <1>3, <1>4, <2>1, <2>2, QuietLogout
<1> QED BY <1>8, <1>9, <1>10, <1>11, <1>12, <1>13, <1>14, <1>15

(* Revoke: the token a logout withdraws is the one the browser holds, so   *)
(* nothing it holds of the session works afterwards.                       *)
LEMMA RevokeLogout ==
  ASSUME IndInv, RotationInv, LogoutInv, OneSlot, OneBrowser, NEW r \in Requests,
         RevokeDone(r) \/ RevokeFailed(r)
  PROVE  LogoutInv'
<1> DEFINE t == req[r].tok
<1>1. /\ req \in [Requests -> RequestType] /\ req[r] \in RequestType
      /\ req[r].pc = "revoke" /\ t \in Tokens /\ t \in Issued /\ t # None
      /\ root[t] \in Issued
  BY InFlight DEF RevokeDone, RevokeFailed, IndInv, TypeOK, RequestSound
<1>2. UNCHANGED <<minted, root, life, jar, redisLost>>
  BY DEF RevokeDone, RevokeFailed, history
<1>3. entry' \in {entry, Stored(t, req[r].ttl)}
  BY DEF RevokeDone, RevokeFailed
<1>4. \A s \in Issued : Usable(s)' => Usable(s)
  BY <1>1, <1>2, <1>3, RevokeKills
<1>5. CASE RevokeFailed(r)
  <2>1. ended' = ended /\ Answer(r, 500)
    BY <1>5 DEF RevokeFailed, history
  <2> QED BY <1>2, <1>4, <2>1, AnswerLogout
<1>6. CASE RevokeDone(r) /\ req[r].op = "refresh"
  <2> DEFINE q == [req[r] EXCEPT !.pc = "issue", !.ttl = 0]
  <2>1. /\ req' = [req EXCEPT ![r] = q] /\ q.op = "refresh"
        /\ q.tok = t /\ q.by = req[r].by /\ q.cookie = req[r].cookie
    BY <1>1, <1>6 DEF RevokeDone, Goto, RequestType
  <2> HIDE DEF q
  <2>2. ended' = ended
    BY <1>6 DEF RevokeDone
  <2>3. ~redisLost => LogoutKnows(req[r])
    BY DEF LogoutInv
  <2>4. ~redisLost => LogoutKnows(q)
    BY <1>1, <1>6, <2>1, <2>3 DEF LogoutKnows
  <2> QED BY <1>2, <1>4, <2>1, <2>2, <2>4, QuietLogout
<1>7. CASE RevokeDone(r) /\ req[r].op = "logout"
  <2>1. PICK q : /\ req' = [req EXCEPT ![r] = q]
                 /\ q.pc = "reply" /\ q.tok = None /\ q.cookie \in {None, Keep}
    BY <1>7, AnswerShape DEF RevokeDone
  <2>2. ended' = ended \cup {root[t]}
    BY <1>7 DEF RevokeDone
  <2>3. PICK n \in Tokens : n = t
    BY <1>1
  <2>4. ~Usable(n)'
    BY <1>1, <1>2, <1>7, <2>3, RevokeKills DEF RevokeDone
  <2>5. ASSUME ~redisLost, NEW b \in Browsers, jar[b] # None, root[jar[b]] \in ended',
               NEW x \in Issued, x = jar[b]
        PROVE  ~Usable(x)'
    <3>1. jar[b] = t
      BY <1>1, <2>5, BrowserSent DEF LogoutInv, LogoutKnows
    <3> QED BY <2>3, <2>4, <2>5, <3>1
  <2>6. LogoutEndsSession'
    <3> SUFFICES ASSUME ~redisLost', NEW b \in Browsers, jar'[b] # None,
                        root'[jar'[b]] \in ended'
                 PROVE  ~(life'[jar'[b]] > 0 /\ entry'[jar'[b]] = 0)
      BY DEF LogoutEndsSession, Usable
    <3>1. PICK x \in Issued : x = jar[b]
      BY <1>2 DEF IndInv, JarsIssued
    <3>2. ~Usable(x)'
      BY <1>2, <2>5, <3>1
    <3> QED BY <1>2, <3>1, <3>2 DEF Usable
  <2>7. ASSUME NEW p \in Requests PROVE LogoutKnows(req[p])'
    <3>1. req'[p] = q
      BY <2>1, OnlyRequest
    <3>2. None \notin Issued /\ Keep \notin Issued /\ Issued' = Issued
      BY <1>2, SessionsAssumption DEF IndInv, TypeOK, Issued, Tokens
    <3> QED BY <2>1, <3>1, <3>2 DEF LogoutKnows
  <2>8. ~redisLost' => ended' \subseteq Issued'
    BY <1>1, <1>2, <2>2 DEF LogoutInv, Issued
  <2> QED BY <2>6, <2>7, <2>8 DEF LogoutInv
<1> QED BY <1>5, <1>6, <1>7 DEF RevokeDone

(* IssuePair: the new token's session is new, or was not logged out. *)
LEMMA IssueLogout ==
  ASSUME IndInv, LogoutInv, OneSlot, NEW r \in Requests, IssueSession(r)
  PROVE  LogoutInv'
<1> DEFINE t == minted + 1
           p == req[r].tok
           q == Request("reply", req[r].op, req[r].by, None, None, t)
<1>1. /\ req[r].pc = "issue"
      /\ p # None => req[r].op = "refresh"
  BY InFlight DEF IssueSession, RequestSound
<1>2. /\ t \in Tokens /\ minted \in Nat /\ Issued \subseteq Tokens
      /\ t \notin Issued /\ Issued' = Issued \cup {t}
  BY SessionsAssumption DEF IssueSession, IndInv, TypeOK, Tokens, Issued
<1>3. /\ UNCHANGED <<entry, jar, ended, redisLost>>
      /\ root' = [root EXCEPT ![t] = IF p = None THEN t ELSE root[p]]
      /\ life' = [life EXCEPT ![t] = RefreshTTL]
      /\ req' = [req EXCEPT ![r] = q]
  BY DEF IssueSession, Reply
<1>4. q.pc = "reply" /\ q.tok = None /\ q.cookie = t
  BY DEF Request
<1> HIDE DEF q
<1>5. \A s \in Issued : root'[s] = root[s] /\ (Usable(s)' <=> Usable(s))
  BY <1>2, <1>3 DEF IndInv, TypeOK, TokenShape, Usable, Issued
<1>6. LogoutEndsSession'
  <2>1. \A b \in Browsers : jar[b] \in Issued \cup {None}
    BY DEF IndInv, JarsIssued
  <2> QED BY <1>3, <1>5, <2>1 DEF LogoutInv, LogoutEndsSession
<1>7. ~redisLost => root'[t] \notin ended
  <2>1. root'[t] = IF p = None THEN t ELSE root[p]
    BY <1>2, <1>3 DEF IndInv, TypeOK
  <2> QED BY <1>1, <1>2, <2>1 DEF LogoutInv, LogoutKnows
<1>8. ASSUME ~redisLost', NEW x \in Requests PROVE LogoutKnows(req[x])'
  <2>1. req'[x] = q
    BY <1>3, OnlyRequest
  <2> QED BY <1>3, <1>4, <1>7, <1>8, <2>1 DEF LogoutKnows
<1>9. ~redisLost' => ended' \subseteq Issued'
  BY <1>2, <1>3 DEF LogoutInv
<1> QED BY <1>6, <1>8, <1>9 DEF LogoutInv

(* The browser takes the cookie of an answer: a token of a session it did  *)
(* not log out, or none.                                                   *)
LEMMA DeliverLogout ==
  ASSUME IndInv, LogoutInv, OneSlot, OneBrowser, NEW r \in Requests, Deliver(r)
  PROVE  LogoutInv'
<1> DEFINE c == req[r].cookie
<1>1. /\ UNCHANGED <<minted, root, life, entry, ended, redisLost>>
      /\ jar' = IF c = Keep \/ req[r].by \in Scripts THEN jar ELSE [jar EXCEPT ![req[r].by] = c]
      /\ req' = [req EXCEPT ![r] = Idle]
  BY DEF Deliver, stores, history
<1>2. /\ c \in Issued \cup {None, Keep} /\ jar \in [Browsers -> Tokens \cup {None}]
      /\ req[r].by \in Browsers /\ \A b \in Browsers : jar[b] \in Issued \cup {None}
  BY InFlight, BrowserSent DEF Deliver, RequestSound, IndInv, TypeOK, JarsIssued
<1>3. ASSUME ~redisLost, NEW b \in Browsers, jar'[b] # None, root[jar'[b]] \in ended
      PROVE  ~Usable(jar[b]) /\ jar'[b] = jar[b]
  BY <1>1, <1>2, <1>3 DEF LogoutInv, LogoutKnows, LogoutEndsSession
<1>4. LogoutEndsSession'
  BY <1>1, <1>3 DEF LogoutEndsSession, Usable
<1>5. ASSUME NEW x \in Requests PROVE LogoutKnows(req[x])'
  <2>1. req'[x] = Idle
    BY <1>1, OnlyRequest
  <2>2. Idle.tok = None /\ Idle.op = "none" /\ Idle.cookie = Keep /\ Keep \notin Issued'
    BY <1>1, SessionsAssumption DEF Idle, Request, IndInv, TypeOK, Issued, Tokens
  <2> QED BY <2>1, <2>2 DEF LogoutKnows
<1> QED BY <1>1, <1>4, <1>5 DEF LogoutInv, Issued

(* A request is sent with the cookie of that moment. *)
LEMMA SubmitLogout ==
  ASSUME IndInv, LogoutInv, OneSlot, OneBrowser,
         NEW r \in Requests, NEW c \in Browsers \cup Scripts, Submit(r, c)
  PROVE  LogoutInv'
<1>1. c \in Browsers
  BY DEF OneBrowser
<1>2. ASSUME NEW op, NEW pc \in {"create", "verify", "parse"}, NEW u, NEW t,
             t # None => t = jar[c],
             Send(r, c, op, pc, u, t)
      PROVE  LogoutInv'
  <2> DEFINE q == Request(pc, op, c, u, t, Keep)
  <2>1. /\ req' = [req EXCEPT ![r] = q]
        /\ UNCHANGED <<minted, root, life, entry, jar, ended, redisLost>>
    BY <1>2 DEF Send, stores, history
  <2>2. \A s \in Issued : Usable(s)' => Usable(s)
    BY <2>1 DEF Usable
  <2>3. q.tok = t /\ q.by = c /\ q.pc = pc /\ q.cookie = Keep /\ Keep \notin Issued
    BY SessionsAssumption DEF Request, IndInv, TypeOK, Issued, Tokens
  <2> HIDE DEF q
  <2>4. LogoutKnows(q)
    BY <1>2, <2>3 DEF LogoutKnows
  <2> QED BY <2>1, <2>2, <2>4, QuietLogout
<1>3. Presentable(c) = {jar[c]}
  BY <1>1 DEF Presentable
<1> QED BY <1>2, <1>3 DEF Submit, SendRegister, SendLogin, SendRefresh, SendLogout

(* Crashes, deletions and age. *)
LEMMA OutsideLogout ==
  ASSUME IndInv, LogoutInv,
         Crash \/ (\E u \in Users : DeleteAccount(u)) \/ UNCHANGED vars \/ Tick
  PROVE  LogoutInv'
<1>1. UNCHANGED <<minted, root, jar, ended, redisLost>>
  BY DEF Crash, DeleteAccount, Tick, vars, stores, history
<1>2. ~redisLost => \A t \in Issued : Usable(t)' => Usable(t)
  <2>1. CASE Tick
    BY <2>1, TickStep
  <2>2. CASE Crash \/ (\E u \in Users : DeleteAccount(u)) \/ UNCHANGED vars
    BY <2>2 DEF Crash, DeleteAccount, vars, stores, Usable
  <2> QED BY <2>1, <2>2
<1>3. LogoutEndsSession'
  <2>1. \A b \in Browsers : jar[b] \in Issued \cup {None}
    BY DEF IndInv, JarsIssued
  <2> QED BY <1>1, <1>2, <2>1 DEF LogoutInv, LogoutEndsSession
<1>4. ASSUME ~redisLost', NEW r \in Requests PROVE LogoutKnows(req[r])'
  <2>1. req'[r] = req[r] \/ req'[r] = Idle
    BY DEF Crash, DeleteAccount, Tick, vars
  <2>2. CASE req'[r] = Idle
    <3>1. Idle.tok = None /\ Idle.op = "none" /\ Idle.cookie = Keep /\ Keep \notin Issued'
      BY <1>1, SessionsAssumption DEF Idle, Request, IndInv, TypeOK, Issued, Tokens
    <3> QED BY <2>2, <3>1 DEF LogoutKnows
  <2>3. CASE req'[r] = req[r]
    BY <1>1, <1>4, <2>3 DEF LogoutInv, LogoutKnows, Issued
  <2> QED BY <2>1, <2>2, <2>3
<1> QED BY <1>1, <1>3, <1>4 DEF LogoutInv, Issued

(* Every step leaves logged-out sessions dead. *)
LEMMA LogoutStep ==
  ASSUME IndInv, RotationInv, LogoutInv, OneSlot, OneBrowser, [Next]_vars
  PROVE  LogoutInv'
<1>1. ASSUME NEW r \in Requests, Handle(r) PROVE LogoutInv'
  BY <1>1, ReadLogout, RevokeLogout, IssueLogout, DeliverLogout DEF Handle
<1>2. CASE RedisLoses
  BY <1>2 DEF RedisLoses, LogoutInv, LogoutEndsSession
<1> QED BY <1>1, <1>2, SubmitLogout, OutsideLogout DEF Next

(* After a logout that answered 204, whatever the browser holds of that    *)
(* session is refused, also when the answer was lost and the cookie stayed *)
(* in its jar.                                                             *)
THEOREM LogoutEndsWhenSerial ==
  ASSUME OneSlot, OneBrowser, Prompt
  PROVE  Spec => []LogoutEndsSession
<1>1. Init => RotationInv /\ LogoutInv
  BY SerialInit
<1>2. IndInv /\ RotationInv /\ [Next]_vars => RotationInv'
  BY RotationStep
<1>3. IndInv /\ RotationInv /\ LogoutInv /\ [Next]_vars => LogoutInv'
  BY LogoutStep
<1>4. LogoutInv => LogoutEndsSession
  BY DEF LogoutInv
<1> QED BY <1>1, <1>2, <1>3, <1>4, Invariance, PTL DEF Spec
-------------------------------------------------------------------------------
(* A browser forgets only what no longer works.  Nothing here rests on     *)
(* Prompt, and there may be other browsers and scripts, one at a time.     *)

(* Refused for good: the token is dead, or its account is deleted. *)
Spent(t) == ~Usable(t) \/ acct[owner[t]] = "gone"

(* A refresh carries the cookie of its browser, and only answers with an   *)
(* empty one when that is spent.                                           *)
ClearKnows(q) ==
    q.by \in Browsers =>
        /\ q.tok # None => jar[q.by] = q.tok
        /\ q.pc = "reply" /\ q.cookie = None =>
              q.op = "logout" \/ jar[q.by] = None \/ Spent(jar[q.by])

OwnersExist == \A t \in Issued : acct[owner[t]] # "none"

ClearInv == ~redisLost => OwnersExist /\ \A r \in Requests : ClearKnows(req[r])

(* Nothing but a loss brings a token back, and no account returns. *)
LEMMA NothingReturns ==
  ASSUME IndInv, [Next]_vars, ~redisLost'
  PROVE  /\ \A t \in Issued : /\ t \in Issued' /\ owner'[t] = owner[t]
                              /\ Usable(t)' => Usable(t)
         /\ \A u \in Users : /\ acct[u] # "none" => acct'[u] # "none"
                             /\ acct[u] = "gone" => acct'[u] = "gone"
<1>1. ~redisLost
  BY LossStays
<1>2. acct \in [Users -> {"none", "live", "gone"}]
  BY DEF IndInv, TypeOK
<1> DEFINE Goal == /\ \A t \in Issued : /\ t \in Issued' /\ owner'[t] = owner[t]
                                        /\ Usable(t)' => Usable(t)
                   /\ \A u \in Users : /\ acct[u] # "none" => acct'[u] # "none"
                                       /\ acct[u] = "gone" => acct'[u] = "gone"
<1>3. ASSUME UNCHANGED <<minted, owner>>, \A t \in Issued : Usable(t)' => Usable(t),
             \/ acct' = acct
             \/ \E u \in Users : \/ acct[u] = "none" /\ acct' = [acct EXCEPT ![u] = "live"]
                                 \/ acct[u] = "live" /\ acct' = [acct EXCEPT ![u] = "gone"]
      PROVE  Goal
  BY <1>2, <1>3 DEF Issued
<1>4. ASSUME UNCHANGED <<life, entry>> PROVE \A t \in Issued : Usable(t)' => Usable(t)
  BY <1>4 DEF Usable
<1>5. ASSUME NEW r \in Requests, NEW c, Submit(r, c) PROVE Goal
  <2>1. UNCHANGED <<acct, minted, owner, life, entry>>
    BY <1>5 DEF Submit, SendRegister, SendLogin, SendRefresh, SendLogout, Send, stores
  <2> HIDE DEF Goal
  <2> QED BY <1>3, <1>4, <2>1
<1>6. ASSUME NEW r \in Requests, Handle(r) PROVE Goal
  <2>1. CASE CreateAccount(r)
    <3>1. UNCHANGED <<minted, owner, life, entry>>
      BY <2>1 DEF CreateAccount
    <3>2. acct' = acct \/ \E u \in Users : acct[u] = "none" /\ acct' = [acct EXCEPT ![u] = "live"]
      BY <2>1 DEF CreateAccount
    <3> HIDE DEF Goal
    <3> QED BY <1>3, <1>4, <3>1, <3>2
  <2>2. CASE \/ VerifyCredentials(r) \/ ParseRefresh(r) \/ CheckRevoked(r) \/ LoadUser(r)
             \/ ParseLogout(r) \/ IssueFailed(r) \/ Deliver(r) \/ LoseResponse(r)
    <3>1. UNCHANGED <<acct, minted, owner, life, entry>>
      BY <2>2 DEF VerifyCredentials, ParseRefresh, CheckRevoked, LoadUser, ParseLogout,
                  IssueFailed, Deliver, LoseResponse, stores
    <3> HIDE DEF Goal
    <3> QED BY <1>3, <1>4, <3>1
  <2>3. CASE RevokeDone(r) \/ RevokeFailed(r)
    <3>1. /\ UNCHANGED <<acct, minted, owner, life>> /\ req[r].pc = "revoke"
          /\ entry' \in {entry, Stored(req[r].tok, req[r].ttl)}
      BY <2>3 DEF RevokeDone, RevokeFailed
    <3>2. \A t \in Issued : Usable(t)' => Usable(t)
      BY <3>1, RevokeKills
    <3> HIDE DEF Goal
    <3> QED BY <1>3, <3>1, <3>2
  <2>4. CASE IssueSession(r)
    <3>1. minted \in Nat /\ minted + 1 \notin Issued /\ Issued \subseteq Issued'
      BY <2>4, SessionsAssumption DEF IssueSession, IndInv, TypeOK, Issued
    <3>2. /\ acct' = acct /\ entry' = entry
          /\ owner' = [owner EXCEPT ![minted + 1] = req[r].user]
          /\ life' = [life EXCEPT ![minted + 1] = RefreshTTL]
      BY <2>4 DEF IssueSession
    <3>3. Issued \subseteq Tokens
      BY SessionsAssumption DEF IndInv, TypeOK, Issued, Tokens
    <3> QED BY <3>1, <3>2, <3>3 DEF IndInv, TypeOK, Usable
  <2> QED BY <1>6, <2>1, <2>2, <2>3, <2>4 DEF Handle
<1>7. CASE (\E u \in Users : DeleteAccount(u)) \/ Crash \/ UNCHANGED vars
  <2>1. UNCHANGED <<minted, owner, life, entry>>
    BY <1>7 DEF DeleteAccount, Crash, vars, stores
  <2>2. acct' = acct \/ \E u \in Users : acct[u] = "live" /\ acct' = [acct EXCEPT ![u] = "gone"]
    BY <1>7 DEF DeleteAccount, Crash, vars, stores
  <2>3. Goal
    BY <1>3, <1>4, <2>1, <2>2
  <2> QED BY <2>3
<1>8. CASE Tick
  <2>1. UNCHANGED <<acct, minted, owner>>
    BY <1>8 DEF Tick
  <2>2. Goal
    BY <1>1, <1>3, <1>8, <2>1, TickStep
  <2> QED BY <2>2
<1>9. ~RedisLoses
  BY DEF RedisLoses
<1> QED BY <1>5, <1>6, <1>7, <1>8, <1>9 DEF Next

(* So what is spent stays spent, and owners keep existing. *)
LEMMA SpentStays ==
  ASSUME IndInv, [Next]_vars, ~redisLost', NEW t \in Issued, Spent(t)
  PROVE  Spent(t)'
<1>1. owner[t] \in Users
  BY SessionsAssumption DEF IndInv, TypeOK, TokenShape, Issued, Tokens
<1>2. /\ owner'[t] = owner[t] /\ (Usable(t)' => Usable(t))
      /\ acct[owner[t]] = "gone" => acct'[owner[t]] = "gone"
  BY <1>1, NothingReturns
<1> QED BY <1>2 DEF Spent

(* A step of r that leaves the jars alone, and r as ClearKnows says. *)
LEMMA QuietClear ==
  ASSUME IndInv, OneSlot, [Next]_vars, ~redisLost', NEW r \in Requests, NEW q,
         req' = [req EXCEPT ![r] = q], jar' = jar, ClearKnows(q),
         NEW p \in Requests
  PROVE  ClearKnows(req[p])'
<1>1. req'[p] = q
  BY OnlyRequest
<1>2. ASSUME NEW b \in Browsers, jar[b] # None, Spent(jar[b])
      PROVE  \E t \in Issued : t = jar[b] /\ Spent(t)'
  <2>1. PICK t \in Issued : t = jar[b]
    BY <1>2 DEF IndInv, JarsIssued
  <2>2. Spent(t)'
    BY <1>2, <2>1, SpentStays
  <2> QED BY <2>1, <2>2
<1>3. \A b \in Browsers : jar[b] # None /\ Spent(jar[b]) => Spent(jar[b])'
  <2> SUFFICES ASSUME NEW b \in Browsers, jar[b] # None, Spent(jar[b]) PROVE Spent(jar[b])'
    OBVIOUS
  <2> QED BY <1>2 DEF Spent, Usable
<1> QED BY <1>1, <1>3 DEF ClearKnows, Spent, Usable

(* An answer clears the cookie for a logout, or with a 401 that is about a *)
(* spent token.                                                            *)
LEMMA AnswerClear ==
  ASSUME IndInv, ClearInv, OneSlot, [Next]_vars, ~redisLost', jar' = jar,
         NEW r \in Requests, req[r].pc # "reply", NEW status, Answer(r, status),
         req[r].op = "refresh" /\ req[r].tok # None /\ status = 401 => Spent(req[r].tok),
         NEW p \in Requests
  PROVE  ClearKnows(req[p])'
<1> DEFINE k == SetCookie(req[r], status)
           q == Request("reply", req[r].op, req[r].by, None, None, k)
<1>1. req' = [req EXCEPT ![r] = q]
  BY DEF Answer, Reply
<1>2. q.op = req[r].op /\ q.by = req[r].by /\ q.tok = None /\ q.cookie = k
  BY DEF Request
<1> HIDE DEF q
<1>3. q.cookie = None =>
        \/ q.op = "logout"
        \/ req[r].op = "refresh" /\ status = 401 /\ req[r].tok # None
  BY <1>2, SessionsAssumption DEF SetCookie, Tokens
<1>4. ClearKnows(req[r])
  BY LossStays DEF ClearInv
<1>5. ClearKnows(q)
  BY <1>2, <1>3, <1>4 DEF ClearKnows
<1> QED BY <1>1, <1>5, QuietClear

(* The handlers' steps up to the answer. *)
LEMMA HandleClear ==
  ASSUME IndInv, ClearInv, OneSlot, [Next]_vars, ~redisLost',
         NEW r \in Requests, Handle(r), NEW p \in Requests
  PROVE  ClearKnows(req[p])'
<1> DEFINE t == req[r].tok
<1>1. /\ req \in [Requests -> RequestType] /\ req[r] \in RequestType /\ RequestSound(req[r])
      /\ ClearKnows(req[r])
  BY InFlight, LossStays DEF IndInv, TypeOK, ClearInv
<1>2. ASSUME NEW q, req' = [req EXCEPT ![r] = q], jar' = jar,
             q.by = req[r].by, q.tok = t, q.pc # "reply"
      PROVE  ClearKnows(req[p])'
  <2>1. ClearKnows(q)
    BY <1>1, <1>2 DEF ClearKnows
  <2> QED BY <1>2, <2>1, QuietClear
<1>3. ASSUME NEW next, next # "reply", Goto(r, next), jar' = jar
      PROVE  ClearKnows(req[p])'
  <2> DEFINE q == [req[r] EXCEPT !.pc = next, !.ttl = 0]
  <2>1. req' = [req EXCEPT ![r] = q] /\ q.by = req[r].by /\ q.tok = t /\ q.pc = next
    BY <1>1, <1>3 DEF Goto, RequestType
  <2> HIDE DEF q
  <2> QED BY <1>2, <1>3, <2>1
<1>4. ASSUME NEW status, Answer(r, status), jar' = jar, req[r].pc # "reply",
             req[r].op = "refresh" /\ t # None /\ status = 401 => Spent(t)
      PROVE  ClearKnows(req[p])'
  BY <1>4, AnswerClear
<1>5. CASE CreateAccount(r)
  <2>1. ASSUME NEW u \in Users, req' = [req EXCEPT ![r].pc = "issue", ![r].user = u]
        PROVE  ClearKnows(req[p])'
    <3> DEFINE q == [req[r] EXCEPT !.pc = "issue", !.user = u]
    <3>1. req' = [req EXCEPT ![r] = q] /\ q.by = req[r].by /\ q.tok = t /\ q.pc = "issue"
      BY <1>1, <2>1 DEF RequestType
    <3>2. jar' = jar
      BY <1>5 DEF CreateAccount
    <3> HIDE DEF q
    <3> QED BY <1>2, <3>1, <3>2
  <2> QED BY <1>4, <1>5, <2>1 DEF CreateAccount, At
<1>6. CASE VerifyCredentials(r)
  BY <1>3, <1>4, <1>6 DEF VerifyCredentials, At
<1>7. CASE ParseRefresh(r)
  <2>1. t # None /\ ~Parses(t) => Spent(t)
    BY DEF Parses, Spent, Usable
  <2> QED BY <1>3, <1>4, <1>7, <2>1 DEF ParseRefresh, At
<1>8. CASE CheckRevoked(r)
  <2>1. entry[t] > 0 => Spent(t)
    BY DEF Spent, Usable
  <2> QED BY <1>3, <1>4, <1>8, <2>1 DEF CheckRevoked, At
<1>9. CASE LoadUser(r)
  <2> DEFINE u == owner[t]
  <2>1. t \in Issued /\ u \in Users /\ acct[u] \in {"none", "live", "gone"} /\ acct[u] # "none"
    BY <1>1, <1>9, InFlight, LossStays DEF LoadUser, At, RequestSound, ClearInv, OwnersExist, IndInv, TypeOK
  <2>2. acct[u] # "live" => Spent(t)
    BY <2>1 DEF Spent
  <2>3. ASSUME req' = [req EXCEPT ![r].pc = "revoke", ![r].user = u,
                                  ![r].ttl = RemainingLife(t)],
               jar' = jar
        PROVE  ClearKnows(req[p])'
    <3> DEFINE q == [req[r] EXCEPT !.pc = "revoke", !.user = u, !.ttl = RemainingLife(t)]
    <3>1. req' = [req EXCEPT ![r] = q] /\ q.by = req[r].by /\ q.tok = t /\ q.pc = "revoke"
      BY <1>1, <2>3 DEF RequestType
    <3> HIDE DEF q
    <3> QED BY <1>2, <2>3, <3>1
  <2> QED BY <1>4, <1>9, <2>2, <2>3 DEF LoadUser, At
<1>10. CASE ParseLogout(r)
  <2>1. ASSUME req' = [req EXCEPT ![r].pc = "revoke", ![r].ttl = RemainingLife(t)], jar' = jar
        PROVE  ClearKnows(req[p])'
    <3> DEFINE q == [req[r] EXCEPT !.pc = "revoke", !.ttl = RemainingLife(t)]
    <3>1. req' = [req EXCEPT ![r] = q] /\ q.by = req[r].by /\ q.tok = t /\ q.pc = "revoke"
      BY <1>1, <2>1 DEF RequestType
    <3> HIDE DEF q
    <3> QED BY <1>2, <2>1, <3>1
  <2> QED BY <1>4, <1>10, <2>1 DEF ParseLogout, At
<1>11. CASE RevokeDone(r)
  BY <1>3, <1>4, <1>11 DEF RevokeDone
<1>12. CASE RevokeFailed(r)
  BY <1>4, <1>12 DEF RevokeFailed
<1>13. CASE IssueSession(r)
  <2> DEFINE q == Request("reply", req[r].op, req[r].by, None, None, minted + 1)
  <2>1. /\ req' = [req EXCEPT ![r] = q] /\ jar' = jar
        /\ q.tok = None /\ q.cookie = minted + 1
    BY <1>13 DEF IssueSession, Reply, Request
  <2> HIDE DEF q
  <2>2. minted + 1 # None
    BY <1>13, SessionsAssumption DEF IssueSession, IndInv, TypeOK, Tokens
  <2>3. ClearKnows(q)
    BY <2>1, <2>2 DEF ClearKnows
  <2> QED BY <2>1, <2>3, QuietClear
<1>14. CASE IssueFailed(r)
  BY <1>4, <1>14 DEF IssueFailed
<1>15. CASE Deliver(r) \/ LoseResponse(r)
  <2>1. req'[p] = Idle
    BY <1>15, OnlyRequest DEF Deliver, LoseResponse
  <2> QED BY <2>1, SessionsAssumption DEF ClearKnows, Idle, Request
<1> QED BY <1>5, <1>6, <1>7, <1>8, <1>9, <1>10, <1>11, <1>12, <1>13, <1>14, <1>15 DEF Handle

(* Every step keeps what an empty cookie says. *)
LEMMA ClearStep ==
  ASSUME IndInv, ClearInv, OneSlot, [Next]_vars
  PROVE  ClearInv'
<1>1. ASSUME ~redisLost', NEW p \in Requests PROVE ClearKnows(req[p])'
  <2>1. ASSUME NEW r \in Requests, NEW c \in Browsers \cup Scripts, Submit(r, c)
        PROVE  ClearKnows(req[p])'
    <3>1. ASSUME NEW op, NEW pc \in {"create", "verify", "parse"}, NEW u, NEW t,
                 c \in Browsers /\ t # None => t = jar[c],
                 Send(r, c, op, pc, u, t)
          PROVE  ClearKnows(req[p])'
      <4> DEFINE q == Request(pc, op, c, u, t, Keep)
      <4>1. req' = [req EXCEPT ![r] = q] /\ jar' = jar /\ q.tok = t /\ q.by = c /\ q.pc = pc
        BY <3>1 DEF Send, Request
      <4> HIDE DEF q
      <4>2. ClearKnows(q)
        BY <3>1, <4>1 DEF ClearKnows
      <4> QED BY <1>1, <4>1, <4>2, QuietClear
    <3>2. c \in Browsers => Presentable(c) = {jar[c]}
      BY DEF Presentable
    <3> QED BY <2>1, <3>1, <3>2 DEF Submit, SendRegister, SendLogin, SendRefresh, SendLogout
  <2>2. CASE \E r \in Requests : Handle(r)
    BY <1>1, <2>2, HandleClear
  <2>3. CASE Crash
    <3>1. req'[p] = Idle
      BY <2>3 DEF Crash
    <3> QED BY <3>1, SessionsAssumption DEF ClearKnows, Idle, Request
  <2>4. CASE (\E u \in Users : DeleteAccount(u)) \/ RedisLoses \/ Tick \/ UNCHANGED vars
    <3>1. req' = req /\ jar' = jar
      BY <2>4 DEF DeleteAccount, RedisLoses, Tick, vars
    <3>2. req' = [req EXCEPT ![p] = req[p]]
      BY <3>1 DEF IndInv, TypeOK
    <3>3. ClearKnows(req[p])
      BY <1>1, LossStays DEF ClearInv
    <3> QED BY <1>1, <3>1, <3>2, <3>3, QuietClear
  <2> QED BY <2>1, <2>2, <2>3, <2>4 DEF Next
<1>2. ASSUME ~redisLost' PROVE OwnersExist'
  <2> SUFFICES ASSUME NEW t \in Issued' PROVE acct'[owner'[t]] # "none"
    BY DEF OwnersExist
  <2>1. OwnersExist
    BY <1>2, LossStays DEF ClearInv
  <2>2. CASE t \in Issued
    <3>1. owner[t] \in Users
      BY <2>2, SessionsAssumption DEF IndInv, TypeOK, TokenShape, Issued, Tokens
    <3> QED BY <1>2, <2>1, <2>2, <3>1, NothingReturns DEF OwnersExist
  <2>3. CASE t \notin Issued
    <3>1. PICK r \in Requests : IssueSession(r)
      <4>1. minted' # minted
        BY <2>3 DEF Issued
      <4> QED BY <4>1 DEF Next, Submit, SendRegister, SendLogin, SendRefresh, SendLogout, Send,
              Handle, CreateAccount, VerifyCredentials, ParseRefresh, CheckRevoked, LoadUser,
              ParseLogout, RevokeDone, RevokeFailed, IssueFailed, Deliver, LoseResponse,
              Crash, DeleteAccount, RedisLoses, Tick, vars, stores
    <3>2. t = minted + 1 /\ t \in Tokens
      BY <2>3, <3>1, SessionsAssumption DEF IssueSession, IndInv, TypeOK, Issued, Tokens
    <3>3. /\ acct' = acct /\ owner' = [owner EXCEPT ![t] = req[r].user]
          /\ acct[req[r].user] # "none"
      BY <3>1, <3>2, InFlight DEF IssueSession, RequestSound
    <3> QED BY <3>2, <3>3 DEF IndInv, TypeOK
  <2> QED BY <2>2, <2>3
<1> QED BY <1>1, <1>2 DEF ClearInv

(* A browser with one request in flight is never signed out by a failure:  *)
(* it loses its cookie to a logout, or to a 401 about a token that is dead *)
(* or whose account is deleted.                                            *)
THEOREM FailuresKeepCookies ==
  ASSUME OneSlot
  PROVE  Spec => OnlyDeadCookiesCleared
<1>1. Init => ClearInv
  <2> SUFFICES ASSUME Init PROVE ClearInv OBVIOUS
  <2>1. minted = 0 /\ req = [r \in Requests |-> Idle]
    BY DEF Init
  <2>2. Issued = {} /\ Idle.by = None /\ None \notin Browsers
    BY <2>1, SessionsAssumption DEF Issued, Idle, Request
  <2> QED BY <2>1, <2>2 DEF ClearInv, OwnersExist, ClearKnows
<1>2. IndInv /\ ClearInv /\ [Next]_vars => ClearInv'
  BY ClearStep
<1>3. IndInv /\ ClearInv /\ [Next]_vars =>
        [\A b \in Browsers :
            ~redisLost /\ jar[b] # None /\ jar'[b] = None =>
                \/ ~Usable(jar[b])
                \/ acct[owner[jar[b]]] # "live"
                \/ \E r \in Requests : req[r].by = b /\ At(r, "logout", "reply")]_vars
  <2> SUFFICES ASSUME IndInv, ClearInv, Next, NEW b \in Browsers,
                      ~redisLost, jar[b] # None, jar'[b] = None
               PROVE  \/ ~Usable(jar[b])
                      \/ acct[owner[jar[b]]] # "live"
                      \/ \E r \in Requests : req[r].by = b /\ At(r, "logout", "reply")
    OBVIOUS
  <2>1. PICK r \in Requests : Deliver(r)
    BY DEF Next, Submit, SendRegister, SendLogin, SendRefresh, SendLogout, Send,
           Handle, CreateAccount, VerifyCredentials, ParseRefresh, CheckRevoked, LoadUser,
           ParseLogout, RevokeDone, RevokeFailed, IssueSession, IssueFailed, LoseResponse,
           Crash, DeleteAccount, RedisLoses, Tick
  <2>2. req[r].pc = "reply" /\ req[r].by = b /\ req[r].cookie = None
    BY <2>1 DEF Deliver, IndInv, TypeOK
  <2>3. ClearKnows(req[r])
    BY DEF ClearInv
  <2> QED BY <2>2, <2>3 DEF ClearKnows, Spent, At
<1> QED BY <1>1, <1>2, <1>3, Invariance, PTL DEF Spec, OnlyDeadCookiesCleared
-------------------------------------------------------------------------------
(* How long an access token outlives a logout or a deletion. *)

(* A request that will be answered with a session, unless it fails. *)
Granted(q) == q.pc = "issue" \/ (q.op = "refresh" /\ q.pc = "revoke")

ClockType ==
    /\ sinceLogout \in [Tokens -> 0..AccessTTL \cup {Never}]
    /\ sinceDeletion \in [Users -> 0..AccessTTL \cup {Never}]

(* What is left of an access token and what has passed since its account   *)
(* was deleted add up to a lifetime at most; a request that read the row   *)
(* before the deletion answers in the tick of the deletion.                *)
DeletionClock ==
    /\ \A u \in Users : acct[u] = "gone" <=> sinceDeletion[u] # Never
    /\ \A t \in Issued :
          acct[owner[t]] = "gone" => AccessLife(t) + sinceDeletion[owner[t]] <= AccessTTL
    /\ \A r \in Requests :
          Granted(req[r]) /\ acct[req[r].user] = "gone" => sinceDeletion[req[r].user] = 0

(* The same of a logout. *)
LogoutClock ==
    /\ \A s \in Tokens : s \in ended <=> sinceLogout[s] # Never
    /\ ~redisLost => \A t \in Issued :
          root[t] \in ended => AccessLife(t) + sinceLogout[root[t]] <= AccessTTL

LEMMA AccessInvariance == AccessSpec => []IndInv
<1>1. AccessInit => IndInv
  BY InitInd DEF AccessInit
<1>2. [Next /\ Clocks]_accessVars => [Next]_vars
  BY DEF accessVars
<1>3. AccessSpec => Spec
  BY <1>2, PTL DEF AccessSpec, AccessInit, Spec
<1> QED  BY <1>3, Invariance

LEMMA TokensNumbered ==
  ASSUME IndInv
  PROVE  /\ Issued \subseteq Tokens
         /\ life \in [Tokens -> 0..RefreshTTL]
         /\ \A t \in Issued : owner[t] \in Users /\ root[t] \in Tokens
BY SessionsAssumption DEF IndInv, TypeOK, TokenShape, Issued, Tokens

LEMMA AccessLifeType ==
  ASSUME NEW t \in Tokens, life \in [Tokens -> 0..RefreshTTL]
  PROVE  AccessLife(t) \in 0..AccessTTL
<1>1. life[t] \in 0..RefreshTTL
  OBVIOUS
<1> QED  BY <1>1, AccessAssumption, SessionsAssumption DEF AccessLife

LEMMA AgingType ==
  ASSUME NEW c \in 0..AccessTTL \cup {Never}
  PROVE  /\ Aging(c) \in 0..AccessTTL \cup {Never}
         /\ Aging(c) = Never <=> c = Never
         /\ ~Tick => Aging(c) = c
<1>1. CASE c = Never \/ c = AccessTTL \/ ~Tick
  BY <1>1 DEF Aging
<1>2. CASE ~(c = Never \/ c = AccessTTL \/ ~Tick)
  <2>1. c \in 0..AccessTTL /\ c # AccessTTL /\ Aging(c) = c + 1
    BY <1>2 DEF Aging
  <2>2. c + 1 \in 0..AccessTTL
    BY <2>1, AccessAssumption, SessionsAssumption
  <2> QED  BY <1>2, <2>1, <2>2, AccessAssumption
<1> QED  BY <1>1, <1>2

(* A tick takes from the token what it adds to the clock. *)
LEMMA TickKeepsSum ==
  ASSUME Tick, life \in [Tokens -> 0..RefreshTTL], NEW t \in Tokens,
         NEW c \in 0..AccessTTL, AccessLife(t) + c <= AccessTTL
  PROVE  AccessLife(t)' + Aging(c) <= AccessTTL
<1>1. life[t] \in 0..RefreshTTL /\ life'[t] = IF life[t] = 0 THEN 0 ELSE life[t] - 1
  BY DEF Tick, Aged
<1>2. AccessTTL \in Nat /\ RefreshTTL \in Nat /\ 1 <= AccessTTL /\ AccessTTL < RefreshTTL
  BY AccessAssumption, SessionsAssumption
<1>3. /\ AccessLife(t) \in Nat /\ AccessLife(t)' \in Nat
      /\ AccessLife(t)' = IF AccessLife(t) = 0 THEN 0 ELSE AccessLife(t) - 1
  BY <1>1, <1>2 DEF AccessLife
<1>4. c # Never
  BY AccessAssumption
<1>5. Aging(c) = IF c = AccessTTL THEN c ELSE c + 1
  BY <1>4 DEF Aging
<1> QED  BY <1>2, <1>3, <1>5

(* What a step does to the tokens: it lets them age, mints one, or leaves  *)
(* them alone.                                                             *)
LEMMA TokenStep ==
  ASSUME IndInv, [Next]_vars
  PROVE  \/ Tick
         \/ ~Tick /\ \E r \in Requests : IssueSession(r)
         \/ ~Tick /\ UNCHANGED <<minted, owner, root, life>>
<1> SUFFICES ASSUME ~Tick, \A r \in Requests : ~IssueSession(r)
             PROVE  UNCHANGED <<minted, owner, root, life>>
  OBVIOUS
<1> QED
  BY DEF Next, Submit, Handle, SendRegister, SendLogin, SendRefresh, SendLogout, Send,
         CreateAccount, VerifyCredentials, ParseRefresh, CheckRevoked, LoadUser, ParseLogout,
         RevokeDone, RevokeFailed, IssueFailed, Deliver, LoseResponse, Crash, DeleteAccount,
         RedisLoses, vars, stores, history

(* A deleted account and a logged-out session stay so. *)
LEMMA EndsStay ==
  ASSUME IndInv, [Next]_vars
  PROVE  /\ ended \subseteq ended'
         /\ \A u \in Users : acct[u] = "gone" => acct'[u] = "gone"
<1> USE DEF IndInv, TypeOK
<1>1. ended \subseteq ended'
  BY DEF Next, Submit, Handle, SendRegister, SendLogin, SendRefresh, SendLogout, Send,
         CreateAccount, VerifyCredentials, ParseRefresh, CheckRevoked, LoadUser, ParseLogout,
         RevokeDone, RevokeFailed, IssueSession, IssueFailed, Deliver, LoseResponse, Crash,
         DeleteAccount, RedisLoses, Tick, vars, stores, history
<1>2. ASSUME NEW u \in Users, acct[u] = "gone" PROVE acct'[u] = "gone"
  <2>1. ASSUME NEW r \in Requests, CreateAccount(r) PROVE acct'[u] = "gone"
    BY <1>2, <2>1 DEF CreateAccount
  <2>2. ASSUME NEW v \in Users, DeleteAccount(v) PROVE acct'[u] = "gone"
    BY <1>2, <2>2 DEF DeleteAccount
  <2>3. CASE UNCHANGED acct
    BY <1>2, <2>3
  <2> QED
    BY <2>1, <2>2, <2>3
       DEF Next, Submit, Handle, SendRegister, SendLogin, SendRefresh, SendLogout, Send,
           VerifyCredentials, ParseRefresh, CheckRevoked, LoadUser, ParseLogout,
           RevokeDone, RevokeFailed, IssueSession, IssueFailed, Deliver, LoseResponse, Crash,
           RedisLoses, Tick, vars, stores, history
<1> QED  BY <1>1, <1>2

(* Who is granted a session was granted it before, or its account exists.  *)
LEMMA GrantStep ==
  ASSUME IndInv, [Next]_vars, NEW r \in Requests, Granted(req'[r])
  PROVE  \/ Granted(req[r]) /\ req'[r].user = req[r].user
         \/ acct'[req'[r].user] = "live"
<1>1. req \in [Requests -> RequestType] /\ RequestSound(req[r])
  BY DEF IndInv, TypeOK, RequestsSound
<1>2. Idle.pc = "idle"
  BY DEF Idle, Request
<1>3. CASE req'[r] = req[r]
  BY <1>3
<1>4. ASSUME NEW p \in Requests, NEW c \in Browsers \cup Scripts, Submit(p, c)
      PROVE  req'[r] = req[r]
  BY <1>1, <1>4
     DEF Granted, Submit, SendRegister, SendLogin, SendRefresh, SendLogout, Send, Request
<1>5. ASSUME NEW p \in Requests, Handle(p), p # r
      PROVE  req'[r] = req[r]
  BY <1>1, <1>5
     DEF Handle, CreateAccount, VerifyCredentials, ParseRefresh, CheckRevoked, LoadUser,
         ParseLogout, RevokeDone, RevokeFailed, IssueSession, IssueFailed, Deliver,
         LoseResponse, Goto, Answer, Reply
<1>6. ASSUME NEW status, Answer(r, status) PROVE FALSE
  BY <1>1, <1>6 DEF Answer, Reply, Granted, Request
<1>7. ASSUME CreateAccount(r) PROVE acct'[req'[r].user] = "live"
  <2>1. PICK u \in Users : /\ acct' = [acct EXCEPT ![u] = "live"]
                           /\ req' = [req EXCEPT ![r].pc = "issue", ![r].user = u]
    BY <1>6, <1>7 DEF CreateAccount
  <2> QED  BY <1>1, <2>1 DEF IndInv, TypeOK, RequestType
<1>8. ASSUME VerifyCredentials(r) PROVE acct'[req'[r].user] = "live"
  <2>1. acct[req[r].user] = "live" /\ Goto(r, "issue") /\ acct' = acct
    BY <1>6, <1>8 DEF VerifyCredentials, stores
  <2> QED  BY <1>1, <2>1 DEF Goto, RequestType
<1>9. ASSUME LoadUser(r) PROVE acct'[req'[r].user] = "live"
  <2>1. /\ acct[owner[req[r].tok]] = "live" /\ acct' = acct
        /\ req' = [req EXCEPT ![r].pc = "revoke", ![r].user = owner[req[r].tok],
                              ![r].ttl = RemainingLife(req[r].tok)]
    BY <1>6, <1>9 DEF LoadUser, stores
  <2> QED  BY <1>1, <2>1 DEF RequestType
<1>10. ASSUME RevokeDone(r) PROVE Granted(req[r]) /\ req'[r].user = req[r].user
  <2>1. req[r].op = "refresh" /\ req[r].pc = "revoke" /\ Goto(r, "issue")
    BY <1>6, <1>10 DEF RevokeDone
  <2> QED  BY <1>1, <2>1 DEF Goto, RequestType, Granted
<1>11. ASSUME ParseLogout(r) PROVE FALSE
  <2>1. req[r].op = "logout"
        /\ req' = [req EXCEPT ![r].pc = "revoke", ![r].ttl = RemainingLife(req[r].tok)]
    BY <1>6, <1>11 DEF ParseLogout, At
  <2> QED  BY <1>1, <2>1 DEF RequestType, Granted
<1>12. ASSUME ParseRefresh(r) \/ CheckRevoked(r) PROVE FALSE
  <2>1. Goto(r, "check") \/ Goto(r, "load")
    BY <1>6, <1>12 DEF ParseRefresh, CheckRevoked
  <2> QED  BY <1>1, <2>1 DEF Goto, RequestType, Granted
<1>13. ASSUME IssueSession(r) PROVE FALSE
  BY <1>1, <1>13 DEF IssueSession, Reply, Granted, Request
<1>14. ASSUME Deliver(r) \/ LoseResponse(r) PROVE FALSE
  BY <1>1, <1>2, <1>14 DEF Deliver, LoseResponse, Granted
<1>15. ASSUME Handle(r)
       PROVE  \/ Granted(req[r]) /\ req'[r].user = req[r].user
              \/ acct'[req'[r].user] = "live"
  BY <1>6, <1>7, <1>8, <1>9, <1>10, <1>11, <1>12, <1>13, <1>14, <1>15
     DEF Handle, RevokeFailed, IssueFailed
<1>16. ASSUME Crash PROVE FALSE
  BY <1>1, <1>2, <1>16 DEF Crash, Granted
<1> QED
  BY <1>3, <1>4, <1>5, <1>15, <1>16 DEF Next, DeleteAccount, RedisLoses, Tick, vars

LEMMA ClockTypeStep ==
  ASSUME ClockType, Clocks
  PROVE  ClockType'
<1>1. 0 \in 0..AccessTTL \cup {Never}
  BY AccessAssumption, SessionsAssumption
<1>2. \A c \in 0..AccessTTL \cup {Never} : Aging(c) \in 0..AccessTTL \cup {Never}
  BY AgingType
<1>3. /\ \A s \in Tokens : sinceLogout[s] \in 0..AccessTTL \cup {Never}
      /\ \A u \in Users : sinceDeletion[u] \in 0..AccessTTL \cup {Never}
  BY DEF ClockType
<1>4. /\ \A s \in Tokens : sinceLogout'[s] \in {0, Aging(sinceLogout[s])}
      /\ \A u \in Users : sinceDeletion'[u] \in {0, Aging(sinceDeletion[u])}
      /\ sinceLogout' = [s \in Tokens |-> sinceLogout'[s]]
      /\ sinceDeletion' = [u \in Users |-> sinceDeletion'[u]]
  BY DEF Clocks
<1>5. /\ \A s \in Tokens : sinceLogout'[s] \in 0..AccessTTL \cup {Never}
      /\ \A u \in Users : sinceDeletion'[u] \in 0..AccessTTL \cup {Never}
  BY <1>1, <1>2, <1>3, <1>4
<1> QED  BY <1>4, <1>5 DEF ClockType

LEMMA DeletionStep ==
  ASSUME IndInv, ClockType, DeletionClock, Prompt, [Next]_vars, Clocks
  PROVE  DeletionClock'
<1>1. /\ 0 \in 0..AccessTTL /\ 0 # Never /\ AccessTTL \in Nat
      /\ \A u \in Users : sinceDeletion[u] \in 0..AccessTTL \cup {Never}
  BY AccessAssumption, SessionsAssumption DEF ClockType
<1>2. \A u \in Users :
         sinceDeletion'[u] = IF acct'[u] = "gone" /\ acct[u] # "gone" THEN 0
                             ELSE Aging(sinceDeletion[u])
  BY DEF Clocks
<1>3. ASSUME NEW u \in Users
      PROVE  acct'[u] = "gone" <=> sinceDeletion'[u] # Never
  <2>1. Aging(sinceDeletion[u]) = Never <=> sinceDeletion[u] = Never
    BY <1>1, AgingType
  <2>2. acct[u] = "gone" => acct'[u] = "gone"
    BY EndsStay
  <2> QED  BY <2>1, <2>2, <1>1, <1>2 DEF DeletionClock
<1>4. ASSUME NEW r \in Requests, Granted(req'[r]), acct'[req'[r].user] = "gone"
      PROVE  ~Tick /\ sinceDeletion'[req'[r].user] = 0
  <2>1. Granted(req[r]) /\ req'[r].user = req[r].user
    BY <1>4, GrantStep
  <2>2. ~Tick
    BY <2>1 DEF Tick, Granted
  <2>3. req[r].user \in Users
    BY <2>1, InFlight DEF RequestSound, Granted
  <2>4. acct[req[r].user] = "gone" => sinceDeletion[req[r].user] = 0
    BY <2>1 DEF DeletionClock
  <2> DEFINE u == req[r].user
  <2>5. u \in Users /\ acct'[u] = "gone" /\ (acct[u] = "gone" => sinceDeletion[u] = 0)
    BY <1>4, <2>1, <2>3, <2>4
  <2> HIDE DEF u
  <2>6. Aging(sinceDeletion[u]) = sinceDeletion[u]
    BY <2>2, <2>5, <1>1, AgingType
  <2>7. sinceDeletion'[u] = 0
    BY <2>5, <2>6, <1>2
  <2> QED  BY <2>1, <2>2, <2>7 DEF u
<1>5. ASSUME NEW t \in Issued', acct'[owner'[t]] = "gone"
      PROVE  AccessLife(t)' + sinceDeletion'[owner'[t]] <= AccessTTL
  <2>1. CASE Tick
    <3> DEFINE u == owner[t]
    <3>1. t \in Issued /\ owner' = owner /\ acct' = acct
      BY <2>1 DEF Tick, Issued
    <3>2. t \in Tokens /\ u \in Users /\ life \in [Tokens -> 0..RefreshTTL]
      BY <3>1, TokensNumbered
    <3>3. acct[u] = "gone" /\ acct' = acct
      BY <1>5, <3>1
    <3>4. AccessLife(t) + sinceDeletion[u] <= AccessTTL
      BY <3>1, <3>3 DEF DeletionClock
    <3> HIDE DEF u
    <3>5. sinceDeletion[u] \in 0..AccessTTL
      BY <3>2, <3>3, <1>1 DEF DeletionClock
    <3>6. sinceDeletion'[u] = Aging(sinceDeletion[u])
      BY <3>2, <3>3, <1>2
    <3>7. AccessLife(t)' + Aging(sinceDeletion[u]) <= AccessTTL
      BY <2>1, <3>2, <3>4, <3>5, TickKeepsSum
    <3> QED  BY <3>1, <3>6, <3>7 DEF u
  <2>2. ASSUME ~Tick, NEW r \in Requests, IssueSession(r)
        PROVE  AccessLife(t)' + sinceDeletion'[owner'[t]] <= AccessTTL
    <3> DEFINE v == req[r].user
    <3>1. /\ minted' = minted + 1 /\ minted \in Nat /\ minted + 1 \in Tokens
          /\ owner' = [owner EXCEPT ![minted + 1] = v]
          /\ life' = [life EXCEPT ![minted + 1] = RefreshTTL]
          /\ acct' = acct /\ req[r].pc = "issue"
      BY <2>2, SessionsAssumption DEF IssueSession, IndInv, TypeOK, Tokens
    <3>2. owner \in [Tokens -> Users \cup {None}] /\ life \in [Tokens -> 0..RefreshTTL]
      BY DEF IndInv, TypeOK
    <3>3. CASE t = minted + 1
      <4>1. owner'[t] = v /\ life'[t] = RefreshTTL
        BY <3>1, <3>2, <3>3
      <4>2. v \in Users
        BY <3>1, InFlight DEF RequestSound
      <4>3. acct[v] = "gone"
        BY <4>1, <3>1, <1>5
      <4>4. sinceDeletion[v] = 0
        BY <4>3, <3>1 DEF DeletionClock, Granted
      <4> HIDE DEF v
      <4>5. sinceDeletion'[v] = 0
        BY <4>2, <4>3, <4>4, <2>2, <1>1, <1>2, AgingType
      <4>6. AccessLife(t)' = AccessTTL
        BY <4>1, AccessAssumption, SessionsAssumption DEF AccessLife
      <4> QED  BY <4>1, <4>5, <4>6, <1>1
    <3>4. CASE t # minted + 1
      <4>1. t \in Issued
        BY <3>1, <3>4 DEF Issued
      <4>2. t \in Tokens /\ owner[t] \in Users
        BY <4>1, TokensNumbered
      <4>3. owner'[t] = owner[t] /\ life'[t] = life[t]
        BY <4>2, <3>1, <3>2, <3>4
      <4> DEFINE u == owner[t]
      <4>4. u \in Users /\ acct[u] = "gone"
        BY <4>2, <4>3, <3>1, <1>5
      <4>5. AccessLife(t) + sinceDeletion[u] <= AccessTTL
        BY <4>1, <4>4 DEF DeletionClock
      <4> HIDE DEF u
      <4>6. sinceDeletion'[u] = sinceDeletion[u]
        BY <4>4, <2>2, <1>1, <1>2, AgingType
      <4>7. AccessLife(t)' = AccessLife(t)
        BY <4>3 DEF AccessLife
      <4> QED  BY <4>3, <4>5, <4>6, <4>7 DEF u
    <3> QED  BY <3>3, <3>4
  <2>3. ASSUME ~Tick, UNCHANGED <<minted, owner, root, life>>
        PROVE  AccessLife(t)' + sinceDeletion'[owner'[t]] <= AccessTTL
    <3> DEFINE u == owner[t]
    <3>1. t \in Issued
      BY <2>3 DEF Issued
    <3>2. t \in Tokens /\ u \in Users /\ AccessLife(t)' = AccessLife(t)
      BY <3>1, <2>3, TokensNumbered DEF AccessLife
    <3>3. AccessLife(t) \in 0..AccessTTL
      BY <3>2, AccessLifeType DEF IndInv, TypeOK
    <3>4. acct'[u] = "gone"
      BY <1>5, <2>3
    <3>5. acct[u] = "gone" => AccessLife(t) + sinceDeletion[u] <= AccessTTL
      BY <3>1 DEF DeletionClock
    <3> HIDE DEF u
    <3>6. CASE acct[u] = "gone"
      <4>1. sinceDeletion'[u] = sinceDeletion[u]
        BY <3>2, <3>6, <2>3, <1>1, <1>2, AgingType
      <4> QED  BY <4>1, <3>2, <3>5, <3>6, <2>3 DEF u
    <3>7. CASE acct[u] # "gone"
      <4>1. sinceDeletion'[u] = 0
        BY <3>2, <3>4, <3>7, <1>2
      <4> QED  BY <4>1, <3>2, <3>3, <2>3, <1>1 DEF u
    <3> QED  BY <3>6, <3>7
  <2> QED  BY <2>1, <2>2, <2>3, TokenStep
<1> QED  BY <1>3, <1>4, <1>5 DEF DeletionClock

LEMMA LogoutStepClock ==
  ASSUME IndInv, LogoutInv, ClockType, LogoutClock, [Next]_vars, Clocks
  PROVE  LogoutClock'
<1>1. /\ 0 \in 0..AccessTTL /\ 0 # Never /\ AccessTTL \in Nat
      /\ \A s \in Tokens : sinceLogout[s] \in 0..AccessTTL \cup {Never}
  BY AccessAssumption, SessionsAssumption DEF ClockType
<1>2. \A s \in Tokens :
         sinceLogout'[s] = IF s \in ended' \ ended THEN 0 ELSE Aging(sinceLogout[s])
  BY DEF Clocks
<1>3. ASSUME NEW s \in Tokens
      PROVE  s \in ended' <=> sinceLogout'[s] # Never
  <2>1. Aging(sinceLogout[s]) = Never <=> sinceLogout[s] = Never
    BY <1>1, AgingType
  <2>2. s \in ended => s \in ended'
    BY EndsStay
  <2> QED  BY <2>1, <2>2, <1>1, <1>2 DEF LogoutClock
<1>4. ASSUME ~Tick, NEW s \in Tokens, s \in ended
      PROVE  sinceLogout'[s] = sinceLogout[s]
  BY <1>1, <1>2, <1>4, AgingType
<1>5. ASSUME ~redisLost', NEW t \in Issued', root'[t] \in ended'
      PROVE  AccessLife(t)' + sinceLogout'[root'[t]] <= AccessTTL
  <2>1. /\ ~redisLost
        /\ \A k \in Issued : root[k] \in ended
              => AccessLife(k) + sinceLogout[root[k]] <= AccessTTL
    BY <1>5, LossStays DEF LogoutClock
  <2>2. CASE Tick
    <3> DEFINE s == root[t]
    <3>1. t \in Issued /\ root' = root /\ ended' = ended
      BY <2>2 DEF Tick, Issued, history
    <3>2. t \in Tokens /\ s \in Tokens /\ life \in [Tokens -> 0..RefreshTTL]
      BY <3>1, TokensNumbered
    <3>3. s \in ended
      BY <1>5, <3>1
    <3>4. AccessLife(t) + sinceLogout[s] <= AccessTTL
      BY <2>1, <3>1, <3>3
    <3> HIDE DEF s
    <3>5. sinceLogout[s] \in 0..AccessTTL
      BY <3>2, <3>3, <1>1 DEF LogoutClock
    <3>6. sinceLogout'[s] = Aging(sinceLogout[s])
      BY <3>2, <3>3, <1>2
    <3>7. AccessLife(t)' + Aging(sinceLogout[s]) <= AccessTTL
      BY <2>2, <3>2, <3>4, <3>5, TickKeepsSum
    <3> QED  BY <3>1, <3>6, <3>7 DEF s
  <2>3. ASSUME ~Tick, NEW r \in Requests, IssueSession(r)
        PROVE  AccessLife(t)' + sinceLogout'[root'[t]] <= AccessTTL
    <3> DEFINE new == minted + 1
    <3>1. /\ minted' = new /\ minted \in Nat /\ new \in Tokens /\ new \notin Issued
          /\ root' = [root EXCEPT ![new] = IF req[r].tok = None THEN new ELSE root[req[r].tok]]
          /\ life' = [life EXCEPT ![new] = RefreshTTL]
          /\ ended' = ended /\ req[r].pc = "issue"
      BY <2>3, SessionsAssumption DEF IssueSession, IndInv, TypeOK, Tokens, Issued
    <3>2. root \in [Tokens -> Tokens \cup {None}] /\ life \in [Tokens -> 0..RefreshTTL]
      BY DEF IndInv, TypeOK
    <3>3. t # new
      <4> SUFFICES ASSUME t = new PROVE FALSE
        OBVIOUS
      <4>1. root'[t] = IF req[r].tok = None THEN new ELSE root[req[r].tok]
        BY <3>1, <3>2
      <4>2. new \notin ended
        BY <2>1, <3>1 DEF LogoutInv
      <4>3. req[r].tok # None => req[r].op = "refresh"
        BY <3>1, InFlight DEF RequestSound
      <4>4. req[r].tok # None => root[req[r].tok] \notin ended
        BY <2>1, <3>1, <4>3 DEF LogoutInv, LogoutKnows
      <4> QED  BY <4>1, <4>2, <4>4, <3>1, <1>5
    <3>4. t \in Issued
      BY <3>1, <3>3 DEF Issued
    <3> HIDE DEF new
    <3>5. t \in Tokens /\ root[t] \in Tokens
      BY <3>4, TokensNumbered
    <3>6. root'[t] = root[t] /\ life'[t] = life[t]
      BY <3>1, <3>2, <3>3, <3>5
    <3>7. root[t] \in ended /\ AccessLife(t)' = AccessLife(t)
      BY <3>1, <3>6, <1>5 DEF AccessLife
    <3>8. sinceLogout'[root[t]] = sinceLogout[root[t]]
      BY <1>4, <2>3, <3>5, <3>7
    <3> QED  BY <2>1, <3>4, <3>6, <3>7, <3>8
  <2>4. ASSUME ~Tick, UNCHANGED <<minted, owner, root, life>>
        PROVE  AccessLife(t)' + sinceLogout'[root'[t]] <= AccessTTL
    <3> DEFINE s == root[t]
    <3>1. t \in Issued
      BY <2>4 DEF Issued
    <3>2. t \in Tokens /\ s \in Tokens /\ AccessLife(t)' = AccessLife(t)
      BY <3>1, <2>4, TokensNumbered DEF AccessLife
    <3>3. AccessLife(t) \in 0..AccessTTL
      BY <3>2, AccessLifeType DEF IndInv, TypeOK
    <3>4. s \in ended'
      BY <1>5, <2>4
    <3>5. s \in ended => AccessLife(t) + sinceLogout[s] <= AccessTTL
      BY <2>1, <3>1
    <3> HIDE DEF s
    <3>6. CASE s \in ended
      <4>1. sinceLogout'[s] = sinceLogout[s]
        BY <1>4, <2>4, <3>2, <3>6
      <4> QED  BY <4>1, <3>2, <3>5, <3>6, <2>4 DEF s
    <3>7. CASE s \notin ended
      <4>1. sinceLogout'[s] = 0
        BY <3>2, <3>4, <3>7, <1>2
      <4> QED  BY <4>1, <3>2, <3>3, <2>4, <1>1 DEF s
    <3> QED  BY <3>6, <3>7
  <2> QED  BY <2>2, <2>3, <2>4, TokenStep
<1> QED  BY <1>3, <1>5 DEF LogoutClock

LEMMA ClocksInit == AccessInit => ClockType /\ DeletionClock /\ LogoutClock
<1> SUFFICES ASSUME AccessInit PROVE ClockType /\ DeletionClock /\ LogoutClock
  OBVIOUS
<1>1. /\ acct = [u \in Users |-> "none"] /\ ended = {} /\ minted = 0
      /\ req = [r \in Requests |-> Idle] /\ Idle.pc = "idle"
      /\ sinceLogout = [s \in Tokens |-> Never]
      /\ sinceDeletion = [u \in Users |-> Never]
  BY DEF AccessInit, Init, Idle, Request
<1>2. Issued = {} /\ \A r \in Requests : ~Granted(req[r])
  BY <1>1 DEF Issued, Granted
<1> QED  BY <1>1, <1>2 DEF ClockType, DeletionClock, LogoutClock

LEMMA StutterClocks ==
  ASSUME UNCHANGED accessVars
  PROVE  UNCHANGED <<ClockType, DeletionClock, LogoutClock, RotationInv, LogoutInv>>
BY DEF accessVars, clocks, vars, stores, history, ClockType, DeletionClock, LogoutClock,
       RotationInv, LogoutInv, Issued, AccessLife, OneLiveToken, RefreshesKnow, RefreshKnows,
       Usable, LogoutEndsSession, LogoutKnows

(* The part of CutoffIsBounded that is about deleted accounts. *)
DeletionCutoff ==
    \A b \in Bearers : ParseAccess(b) => sinceDeletion[owner[b.token]] # AccessTTL

LEMMA DeletionBound ==
  ASSUME IndInv, ClockType, DeletionClock
  PROVE  DeletionCutoff
<1> SUFFICES ASSUME NEW b \in Bearers, ParseAccess(b), sinceDeletion[owner[b.token]] = AccessTTL
             PROVE  FALSE
  BY DEF DeletionCutoff
<1>1. b.token \in Issued /\ AccessLife(b.token) # 0
  BY DEF Bearers, ParseAccess, Expired
<1>2. b.token \in Tokens /\ owner[b.token] \in Users
  BY <1>1, TokensNumbered
<1>3. AccessTTL \in Nat /\ AccessTTL # Never
  BY AccessAssumption, SessionsAssumption
<1>4. AccessLife(b.token) + AccessTTL <= AccessTTL
  BY <1>1, <1>2, <1>3 DEF DeletionClock
<1>5. AccessLife(b.token) \in 0..AccessTTL
  BY <1>2, AccessLifeType DEF IndInv, TypeOK
<1> QED  BY <1>1, <1>3, <1>4, <1>5

LEMMA LogoutBound ==
  ASSUME IndInv, ClockType, LogoutClock, ~redisLost, NEW b \in Bearers, ParseAccess(b)
  PROVE  sinceLogout[root[b.token]] # AccessTTL
<1> SUFFICES ASSUME sinceLogout[root[b.token]] = AccessTTL PROVE FALSE
  OBVIOUS
<1>1. b.token \in Issued /\ AccessLife(b.token) # 0
  BY DEF Bearers, ParseAccess, Expired
<1>2. b.token \in Tokens /\ root[b.token] \in Tokens
  BY <1>1, TokensNumbered
<1>3. AccessTTL \in Nat /\ AccessTTL # Never
  BY AccessAssumption, SessionsAssumption
<1>4. AccessLife(b.token) + AccessTTL <= AccessTTL
  BY <1>1, <1>2, <1>3 DEF LogoutClock
<1>5. AccessLife(b.token) \in 0..AccessTTL
  BY <1>2, AccessLifeType DEF IndInv, TypeOK
<1> QED  BY <1>1, <1>3, <1>4, <1>5

(* Whatever requests overlap, whoever holds the tokens and whatever Redis  *)
(* loses, no bearer is admitted AccessTTL after its account was deleted:   *)
(* also not with a token that a refresh minted which had read the account  *)
(* before.                                                                 *)
THEOREM DeletionCutsOff ==
  ASSUME Prompt
  PROVE  AccessSpec => []DeletionCutoff
<1>1. AccessInit => ClockType /\ DeletionClock
  BY ClocksInit
<1>2. IndInv /\ ClockType /\ DeletionClock /\ [Next /\ Clocks]_accessVars
         => ClockType' /\ DeletionClock'
  <2>1. CASE UNCHANGED accessVars
    BY <2>1, StutterClocks
  <2>2. CASE Next /\ Clocks
    BY <2>2, ClockTypeStep, DeletionStep
  <2> QED  BY <2>1, <2>2
<1>3. IndInv /\ ClockType /\ DeletionClock => DeletionCutoff
  BY DeletionBound
<1> QED  BY <1>1, <1>2, <1>3, AccessInvariance, PTL DEF AccessSpec

(* A bearer is cut off AccessTTL after the logout of its session too, when *)
(* one browser waits for its answers: the logout leaves nothing that could *)
(* be refreshed into another access token.                                 *)
THEOREM CutoffWhenSerial ==
  ASSUME OneSlot, OneBrowser, Prompt
  PROVE  AccessSpec => []CutoffIsBounded
<1> DEFINE Inv == RotationInv /\ LogoutInv /\ ClockType /\ DeletionClock /\ LogoutClock
<1>1. AccessInit => Inv
  BY SerialInit, ClocksInit DEF AccessInit
<1>2. IndInv /\ Inv /\ [Next /\ Clocks]_accessVars => Inv'
  <2>1. CASE UNCHANGED accessVars
    BY <2>1, StutterClocks
  <2>2. CASE Next /\ Clocks
    BY <2>2, RotationStep, LogoutStep, ClockTypeStep, DeletionStep, LogoutStepClock
  <2> QED  BY <2>1, <2>2
<1>3. IndInv /\ Inv => CutoffIsBounded
  BY DeletionBound, LogoutBound DEF CutoffIsBounded, DeletionCutoff
<1> QED  BY <1>1, <1>2, <1>3, AccessInvariance, PTL DEF AccessSpec
===============================================================================
