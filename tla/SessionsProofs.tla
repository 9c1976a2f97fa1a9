---------------------------- MODULE SessionsProofs ----------------------------
(***************************************************************************)
(* IndInv is an invariant of Sessions, for any number of accounts, tokens, *)
(* clients and requests, any refresh TTL, and with or without Redis losing *)
(* entries; the safety properties follow from it.                          *)
(***************************************************************************)
EXTENDS Sessions, TLAPS

(* Initially nothing was minted and no request is in flight. *)
LEMMA InitInd == Init => IndInv
<1> USE SessionsAssumption DEF Tokens, Issued
<1> SUFFICES ASSUME Init PROVE IndInv OBVIOUS
<1>1. Idle \in RequestType
  BY DEF Idle, Request, RequestType
<1>2. TypeOK
  <2>1. acct \in [Users -> {"none", "live", "gone"}] /\ minted \in 0..MaxTokens
    BY DEF Init
  <2>2. /\ owner \in [Tokens -> Users \cup {None}]
        /\ parent \in [Tokens -> Tokens \cup {None}]
        /\ root \in [Tokens -> Tokens \cup {None}]
        /\ life \in [Tokens -> 0..RefreshTTL]
        /\ entry \in [Tokens -> 0..RefreshTTL]
    BY DEF Init
  <2>3. jar \in [Browsers -> Tokens \cup {None}]
    BY DEF Init
  <2>4. req \in [Requests -> RequestType]
    BY <1>1 DEF Init
  <2>5. withdrawn \subseteq Tokens /\ late \subseteq Tokens /\ ended \subseteq Tokens
    BY DEF Init
  <2>6. redisLost \in BOOLEAN
    BY DEF Init
  <2> QED BY <2>1, <2>2, <2>3, <2>4, <2>5, <2>6 DEF TypeOK
<1>3. TokenShape
  BY DEF Init, TokenShape
<1>4. EntryCovers
  BY DEF Init, EntryCovers
<1>5. ParentsWithdrawn
  BY DEF Init, ParentsWithdrawn
<1>6. LateIsOrphan
  BY DEF Init, LateIsOrphan
<1>7. JarsIssued
  BY DEF Init, JarsIssued
<1>8. RequestsSound
  BY DEF Init, RequestsSound, RequestSound, Idle, Request
<1> QED BY <1>2, <1>3, <1>4, <1>5, <1>6, <1>7, <1>8 DEF IndInv

-------------------------------------------------------------------------------
(* Most steps of a handler touch nothing but its own request: they keep    *)
(* IndInv when the request they leave behind is sound.                     *)
LEMMA RequestStep ==
  ASSUME IndInv, NEW r \in Requests, NEW q \in RequestType, RequestSound(q),
         req' = [req EXCEPT ![r] = q],
         jar' \in [Browsers -> Issued \cup {None}],
         UNCHANGED <<stores, history>>
  PROVE  IndInv'
<1> USE DEF IndInv, stores, history
<1>1. Issued \subseteq Tokens
  BY SessionsAssumption DEF TypeOK, Tokens, Issued
<1>2. TypeOK'
  BY <1>1 DEF TypeOK, RequestType, Tokens
<1>3. TokenShape'
  BY DEF TokenShape, Tokens, Issued
<1>4. EntryCovers' /\ ParentsWithdrawn'
  BY DEF EntryCovers, ParentsWithdrawn, Tokens
<1>5. LateIsOrphan'
  BY DEF LateIsOrphan, Tokens, Issued
<1>6. RequestsSound'
  <2> SUFFICES ASSUME NEW s \in Requests PROVE RequestSound(req[s])'
    BY DEF RequestsSound
  <2>1. RequestSound(req'[s])
    BY DEF RequestsSound, TypeOK
  <2> QED BY <2>1 DEF RequestSound, Tokens, Issued
<1>7. JarsIssued'
  BY DEF JarsIssued, Issued
<1> QED BY <1>2, <1>3, <1>4, <1>5, <1>6, <1>7

(* An answer is a sound request whatever it follows. *)
LEMMA ReplySound ==
  ASSUME IndInv, NEW r \in Requests, req[r].pc # "idle",
         NEW c \in Issued \cup {None, Keep}, Reply(r, c),
         jar' = jar, UNCHANGED <<stores, history>>
  PROVE  IndInv'
<1> DEFINE q == Request("reply", req[r].op, req[r].by, None, None, c)
<1>1. req[r] \in RequestType /\ RequestSound(req[r]) /\ Issued \subseteq Tokens
  BY SessionsAssumption DEF IndInv, TypeOK, RequestsSound, Issued, Tokens
<1>2. q \in RequestType
  BY <1>1, SessionsAssumption DEF RequestType, Request
<1>3. RequestSound(q)
  BY <1>1 DEF RequestSound, Request
<1>4. req' = [req EXCEPT ![r] = q] /\ jar' \in [Browsers -> Issued \cup {None}]
  BY DEF Reply, IndInv, TypeOK, JarsIssued
<1> QED BY <1>2, <1>3, <1>4, RequestStep

LEMMA AnswerSound ==
  ASSUME IndInv, NEW r \in Requests, req[r].pc # "idle",
         NEW status, Answer(r, status), jar' = jar, UNCHANGED <<stores, history>>
  PROVE  IndInv'
<1>1. SetCookie(req[r], status) \in Issued \cup {None, Keep}
  BY DEF SetCookie
<1>2. Reply(r, SetCookie(req[r], status))
  BY DEF Answer
<1> QED BY <1>1, <1>2, ReplySound

(* A request in flight, as its handler finds it. *)
LEMMA InFlight ==
  ASSUME IndInv, NEW r \in Requests
  PROVE  /\ req[r] \in RequestType
         /\ RequestSound(req[r])
         /\ req[r].tok # None => /\ req[r].tok \in Tokens
                                 /\ owner[req[r].tok] \in Users
                                 /\ root[req[r].tok] \in Issued
                                 /\ life[req[r].tok] \in 0..RefreshTTL
BY SessionsAssumption
   DEF IndInv, TypeOK, TokenShape, RequestsSound, RequestSound, RequestType, Tokens, Issued

LEMMA SubmitInd ==
  ASSUME IndInv, NEW r \in Requests, NEW c \in Browsers \cup Scripts, Submit(r, c)
  PROVE  IndInv'
<1> DEFINE Sent(op, pc, u, t) == Request(pc, op, c, u, t, Keep)
<1>1. c # None
  BY SessionsAssumption
<1>2. ASSUME NEW op \in {"register", "login", "refresh", "logout"},
             NEW pc \in {"create", "verify", "parse"},
             NEW u \in Users \cup {None}, NEW t \in Issued \cup {None},
             pc = "verify" => u \in Users,
             t # None => op \in {"refresh", "logout"},
             Send(r, c, op, pc, u, t)
      PROVE  IndInv'
  <2>1. Issued \subseteq Tokens
    BY SessionsAssumption DEF IndInv, TypeOK, Tokens, Issued
  <2>2. Sent(op, pc, u, t) \in RequestType
    BY <1>2, <2>1, SessionsAssumption DEF RequestType, Request
  <2>3. RequestSound(Sent(op, pc, u, t))
    BY <1>1, <1>2 DEF RequestSound, Request
  <2>4. /\ req' = [req EXCEPT ![r] = Sent(op, pc, u, t)]
        /\ jar' \in [Browsers -> Issued \cup {None}]
        /\ UNCHANGED <<stores, history>>
    BY <1>2 DEF Send, IndInv, TypeOK, JarsIssued
  <2> HIDE DEF Sent
  <2> QED BY <2>2, <2>3, <2>4, RequestStep
<1>3. Presentable(c) \subseteq Issued \cup {None}
  BY DEF Presentable, IndInv, JarsIssued
<1>4. CASE SendRegister(r, c)
  BY <1>2, <1>4 DEF SendRegister
<1>5. CASE SendLogin(r, c)
  BY <1>2, <1>5 DEF SendLogin
<1>6. CASE SendRefresh(r, c)
  BY <1>2, <1>3, <1>6 DEF SendRefresh
<1>7. CASE SendLogout(r, c)
  BY <1>2, <1>3, <1>7 DEF SendLogout
<1> QED BY <1>4, <1>5, <1>6, <1>7 DEF Submit

-------------------------------------------------------------------------------
(* The steps of the handlers that read the stores. *)

LEMMA VerifyInd ==
  ASSUME IndInv, NEW r \in Requests, VerifyCredentials(r)
  PROVE  IndInv'
<1>1. /\ req[r] \in RequestType /\ RequestSound(req[r])
      /\ req[r].pc = "verify" /\ req[r].op = "login" /\ req[r].pc # "idle"
  BY InFlight DEF VerifyCredentials, At
<1>2. jar' = jar /\ UNCHANGED <<stores, history>>
  BY DEF VerifyCredentials
<1>3. ASSUME NEW status, Answer(r, status) PROVE IndInv'
  BY <1>1, <1>2, <1>3, AnswerSound
<1>4. CASE acct[req[r].user] = "live" /\ Goto(r, "issue")
  <2> DEFINE q == [req[r] EXCEPT !.pc = "issue", !.ttl = 0]
  <2>1. req' = [req EXCEPT ![r] = q]
    BY <1>4 DEF Goto, IndInv, TypeOK, RequestType
  <2>2. 0 \in 0..RefreshTTL
    BY SessionsAssumption
  <2>3. q \in RequestType
    BY <1>1, <2>2 DEF RequestType
  <2>4. q \in RequestType /\ RequestSound(q)
    BY <2>3, <1>1, <1>4 DEF RequestType, RequestSound
  <2>5. jar' \in [Browsers -> Issued \cup {None}]
    BY <1>2 DEF IndInv, TypeOK, JarsIssued
  <2> QED BY <1>2, <2>1, <2>4, <2>5, RequestStep
<1> QED BY <1>3, <1>4 DEF VerifyCredentials

LEMMA ParseRefreshInd ==
  ASSUME IndInv, NEW r \in Requests, ParseRefresh(r)
  PROVE  IndInv'
<1>1. /\ req[r] \in RequestType /\ RequestSound(req[r])
      /\ req[r].pc = "parse" /\ req[r].op = "refresh" /\ req[r].pc # "idle"
  BY InFlight DEF ParseRefresh, At
<1>2. jar' = jar /\ UNCHANGED <<stores, history>>
  BY DEF ParseRefresh
<1>3. CASE ~Parses(req[r].tok)
  BY <1>1, <1>2, <1>3, AnswerSound DEF ParseRefresh
<1>4. CASE Parses(req[r].tok)
  <2> DEFINE q == [req[r] EXCEPT !.pc = "check", !.ttl = 0]
  <2>1. req' = [req EXCEPT ![r] = q]
    BY <1>4 DEF ParseRefresh, Goto, IndInv, TypeOK, RequestType
  <2>2. 0 \in 0..RefreshTTL
    BY SessionsAssumption
  <2>3. q \in RequestType
    BY <1>1, <2>2 DEF RequestType
  <2>4. q \in RequestType /\ RequestSound(q)
    BY <2>3, <1>1, <1>4 DEF RequestType, RequestSound, Parses
  <2>5. jar' \in [Browsers -> Issued \cup {None}]
    BY <1>2 DEF IndInv, TypeOK, JarsIssued
  <2> QED BY <1>2, <2>1, <2>4, <2>5, RequestStep
<1> QED BY <1>3, <1>4

LEMMA CheckRevokedInd ==
  ASSUME IndInv, NEW r \in Requests, CheckRevoked(r)
  PROVE  IndInv'
<1>1. /\ req[r] \in RequestType /\ RequestSound(req[r])
      /\ req[r].pc = "check" /\ req[r].op = "refresh" /\ req[r].pc # "idle"
  BY InFlight DEF CheckRevoked, At
<1>2. jar' = jar /\ UNCHANGED <<stores, history>>
  BY DEF CheckRevoked
<1>3. ASSUME NEW status, Answer(r, status) PROVE IndInv'
  BY <1>1, <1>2, <1>3, AnswerSound
<1>4. CASE Goto(r, "load")
  <2> DEFINE q == [req[r] EXCEPT !.pc = "load", !.ttl = 0]
  <2>1. req' = [req EXCEPT ![r] = q]
    BY <1>4 DEF Goto, IndInv, TypeOK, RequestType
  <2>2. 0 \in 0..RefreshTTL
    BY SessionsAssumption
  <2>3. q \in RequestType
    BY <1>1, <2>2 DEF RequestType
  <2>4. q \in RequestType /\ RequestSound(q)
    BY <2>3, <1>1 DEF RequestType, RequestSound
  <2>5. jar' \in [Browsers -> Issued \cup {None}]
    BY <1>2 DEF IndInv, TypeOK, JarsIssued
  <2> QED BY <1>2, <2>1, <2>4, <2>5, RequestStep
<1> QED BY <1>3, <1>4 DEF CheckRevoked

(* FindByID found the row, so the account is not deleted and the token was *)
(* not minted too late.                                                    *)
LEMMA LoadUserInd ==
  ASSUME IndInv, NEW r \in Requests, LoadUser(r)
  PROVE  IndInv'
<1> DEFINE u == owner[req[r].tok]
<1>1. /\ req[r] \in RequestType /\ RequestSound(req[r])
      /\ req[r].pc = "load" /\ req[r].op = "refresh" /\ req[r].pc # "idle"
      /\ req[r].tok # None /\ req[r].tok \in Tokens /\ u \in Users
      /\ life[req[r].tok] \in 0..RefreshTTL
  BY InFlight DEF LoadUser, At, RequestSound
<1>2. jar' = jar /\ UNCHANGED <<stores, history>>
  BY DEF LoadUser
<1>3. ASSUME NEW status, Answer(r, status) PROVE IndInv'
  BY <1>1, <1>2, <1>3, AnswerSound
<1>4. CASE /\ acct[u] = "live"
           /\ req' = [req EXCEPT ![r].pc = "revoke", ![r].user = u,
                                 ![r].ttl = RemainingLife(req[r].tok)]
  <2> DEFINE q == [req[r] EXCEPT !.pc = "revoke", !.user = u, !.ttl = life[req[r].tok]]
  <2>1. req' = [req EXCEPT ![r] = q]
    BY <1>4 DEF RemainingLife, IndInv, TypeOK, RequestType
  <2>2. q \in RequestType
    BY <1>1 DEF RequestType
  <2>3. req[r].tok \notin late
    BY <1>4 DEF IndInv, LateIsOrphan
  <2>4. RequestSound(q)
    BY <1>1, <1>4, <2>3 DEF RequestType, RequestSound
  <2>5. jar' \in [Browsers -> Issued \cup {None}]
    BY <1>2 DEF IndInv, TypeOK, JarsIssued
  <2> QED BY <1>2, <2>1, <2>2, <2>4, <2>5, RequestStep
<1> QED BY <1>3, <1>4 DEF LoadUser

LEMMA ParseLogoutInd ==
  ASSUME IndInv, NEW r \in Requests, ParseLogout(r)
  PROVE  IndInv'
<1>1. /\ req[r] \in RequestType /\ RequestSound(req[r])
      /\ req[r].pc = "parse" /\ req[r].op = "logout" /\ req[r].pc # "idle"
  BY InFlight DEF ParseLogout, At
<1>2. jar' = jar /\ UNCHANGED <<stores, history>>
  BY DEF ParseLogout
<1>3. CASE ~Parses(req[r].tok)
  BY <1>1, <1>2, <1>3, AnswerSound DEF ParseLogout
<1>4. CASE Parses(req[r].tok)
  <2> DEFINE q == [req[r] EXCEPT !.pc = "revoke", !.ttl = life[req[r].tok]]
  <2>1. req' = [req EXCEPT ![r] = q]
    BY <1>4 DEF ParseLogout, RemainingLife, IndInv, TypeOK, RequestType
  <2>2. req[r].tok # None /\ life[req[r].tok] \in 0..RefreshTTL
    BY <1>4, InFlight DEF Parses
  <2>3. q \in RequestType
    BY <1>1, SessionsAssumption, <2>2 DEF RequestType
  <2>4. q \in RequestType /\ RequestSound(q)
    BY <2>3, <1>1, <2>2 DEF RequestType, RequestSound
  <2>5. jar' \in [Browsers -> Issued \cup {None}]
    BY <1>2 DEF IndInv, TypeOK, JarsIssued
  <2> QED BY <1>2, <2>1, <2>4, <2>5, RequestStep
<1> QED BY <1>3, <1>4

-------------------------------------------------------------------------------
(* The steps that change the stores.  Accounts are not un-created, tokens  *)
(* are not un-minted and only age, withdrawals last: so what a request in  *)
(* another slot has established stays established.                         *)
LEMMA SoundStays ==
  ASSUME IndInv, NEW q \in RequestType, RequestSound(q),
         minted' \in Nat, minted' >= minted, life' \in [Tokens -> 0..RefreshTTL],
         \A u \in Users : acct[u] # "none" => acct'[u] # "none",
         \A t \in Issued : life'[t] <= life[t],
         withdrawn \subseteq withdrawn',
         \A t \in Issued : t \in late' => t \in late
  PROVE  RequestSound(q)'
<1>1. Issued \subseteq Issued' /\ Issued \subseteq Tokens /\ life \in [Tokens -> 0..RefreshTTL]
  BY SessionsAssumption DEF IndInv, TypeOK, Tokens, Issued
<1>2. q.pc = "revoke" => q.ttl >= life'[q.tok]
  <2> SUFFICES ASSUME q.pc = "revoke" PROVE q.ttl >= life'[q.tok]
    OBVIOUS
  <2>1. q.tok \in Issued /\ q.ttl >= life[q.tok] /\ q.ttl \in Nat
    BY DEF RequestSound, RequestType
  <2>2. life'[q.tok] \in Nat /\ life[q.tok] \in Nat /\ life'[q.tok] <= life[q.tok]
    BY <1>1, <2>1
  <2> QED BY <2>1, <2>2
<1>3. /\ q.pc = "idle" \/ q.by # None
      /\ q.cookie \in Issued' \cup {None, Keep}
      /\ q.pc = "verify" => q.user \in Users
      /\ q.tok # None => q.tok \in Issued' /\ q.op \in {"refresh", "logout"}
      /\ q.pc \in {"check", "load"} => q.op = "refresh"
      /\ q.pc \in {"check", "load", "revoke"} => q.tok # None
  BY <1>1 DEF RequestSound
<1>4. /\ q.pc = "issue" =>
            /\ q.user \in Users /\ acct'[q.user] # "none"
            /\ q.op # "logout"
            /\ q.op = "refresh" <=> q.tok # None
            /\ q.op = "refresh" => q.tok \in withdrawn'
      /\ q.op = "refresh" /\ q.pc = "revoke" =>
            q.user \in Users /\ acct'[q.user] # "none"
  BY DEF RequestSound
<1>5. q.op = "refresh" /\ q.pc \in {"revoke", "issue"} => q.tok \notin late'
  BY DEF RequestSound
<1> QED BY <1>2, <1>3, <1>4, <1>5 DEF RequestSound

LEMMA OthersStaySound ==
  ASSUME IndInv, NEW r \in Requests, NEW q \in RequestType,
         req' = [req EXCEPT ![r] = q], RequestSound(q)',
         minted' \in Nat, minted' >= minted, life' \in [Tokens -> 0..RefreshTTL],
         \A u \in Users : acct[u] # "none" => acct'[u] # "none",
         \A t \in Issued : life'[t] <= life[t],
         withdrawn \subseteq withdrawn',
         \A t \in Issued : t \in late' => t \in late
  PROVE  RequestsSound' /\ req' \in [Requests -> RequestType]
<1>1. req' \in [Requests -> RequestType]
  BY DEF IndInv, TypeOK
<1>2. ASSUME NEW s \in Requests PROVE RequestSound(req[s])'
  <2>1. CASE s = r
    <3>1. req'[s] = q
      BY <2>1 DEF IndInv, TypeOK
    <3> QED BY <3>1 DEF RequestSound, Issued
  <2>2. CASE s # r
    <3>1. req'[s] = req[s] /\ req[s] \in RequestType /\ RequestSound(req[s])
      BY <2>2 DEF IndInv, TypeOK, RequestsSound
    <3>2. ASSUME NEW p \in RequestType, RequestSound(p) PROVE RequestSound(p)'
      BY <3>2, SoundStays
    <3>3. PICK p \in RequestType : p = req[s]
      BY <3>1
    <3>4. RequestSound(p)' /\ req'[s] = p
      BY <3>1, <3>2, <3>3
    <3> QED BY <3>4 DEF RequestSound, Issued
  <2> QED BY <2>1, <2>2
<1> QED BY <1>1, <1>2 DEF RequestsSound

(* The record an answer leaves behind. *)
LEMMA ReplyRecord ==
  ASSUME IndInv, NEW r \in Requests, req[r].pc # "idle", NEW c \in Tokens \cup {None, Keep}
  PROVE  Request("reply", req[r].op, req[r].by, None, None, c) \in RequestType
<1>1. req[r] \in RequestType
  BY DEF IndInv, TypeOK
<1>2. 0 \in 0..RefreshTTL
  BY SessionsAssumption
<1> QED BY <1>1, <1>2 DEF RequestType, Request

LEMMA CreateAccountInd ==
  ASSUME IndInv, NEW r \in Requests, CreateAccount(r)
  PROVE  IndInv'
<1>1. /\ req[r] \in RequestType /\ RequestSound(req[r])
      /\ req[r].pc = "create" /\ req[r].op = "register" /\ req[r].pc # "idle"
      /\ req[r].tok = None /\ req[r].by # None
  BY InFlight DEF CreateAccount, At, RequestSound
<1>2. UNCHANGED <<minted, owner, parent, root, life, entry, jar, history>>
  BY DEF CreateAccount
<1>3. ASSUME NEW status, Answer(r, status), UNCHANGED acct PROVE IndInv'
  BY <1>1, <1>2, <1>3, AnswerSound DEF stores
<1>4. ASSUME NEW u \in Users, acct[u] = "none", acct' = [acct EXCEPT ![u] = "live"],
             NEW q \in RequestType, req' = [req EXCEPT ![r] = q], RequestSound(q)'
      PROVE  IndInv'
  <2>1. /\ acct' \in [Users -> {"none", "live", "gone"}]
        /\ \A v \in Users : acct[v] # "none" => acct'[v] = acct[v]
    BY <1>4 DEF IndInv, TypeOK
  <2>2. life' \in [Tokens -> 0..RefreshTTL] /\ minted' \in Nat /\ minted' >= minted
        /\ \A t \in Issued : life'[t] <= life[t]
    BY <1>2, SessionsAssumption DEF IndInv, TypeOK, Issued, Tokens
  <2>3. RequestsSound' /\ req' \in [Requests -> RequestType]
    BY <1>2, <1>4, <2>1, <2>2, OthersStaySound DEF history
  <2>4. TypeOK'
    BY <1>2, <2>1, <2>3 DEF IndInv, TypeOK, history, Tokens
  <2>5. TokenShape' /\ EntryCovers' /\ ParentsWithdrawn' /\ JarsIssued'
    BY <1>2 DEF IndInv, TokenShape, EntryCovers, ParentsWithdrawn, JarsIssued,
                history, Tokens, Issued
  <2>6. LateIsOrphan'
    <3>1. \A t \in late : owner[t] \in Users
      BY SessionsAssumption DEF IndInv, TypeOK, TokenShape, LateIsOrphan, Issued, Tokens
    <3> QED BY <1>2, <2>1, <3>1 DEF IndInv, LateIsOrphan, history, Tokens, Issued
  <2> QED BY <2>3, <2>4, <2>5, <2>6 DEF IndInv
<1>5. ASSUME NEW u \in Users, acct[u] = "none", acct' = [acct EXCEPT ![u] = "live"],
             req' = [req EXCEPT ![r].pc = "issue", ![r].user = u]
      PROVE  IndInv'
  <2>1. PICK q \in RequestType : q = [req[r] EXCEPT !.pc = "issue", !.user = u]
    BY <1>1 DEF RequestType
  <2>2. req' = [req EXCEPT ![r] = q]
    BY <1>1, <1>5, <2>1 DEF RequestType, IndInv, TypeOK
  <2>3. q.user = u /\ q.tok = None /\ q.op = "register" /\ q.pc = "issue"
        /\ q.by # None /\ q.cookie = req[r].cookie
    BY <1>1, <2>1 DEF RequestType
  <2>4. acct'[u] = "live" /\ q.cookie \in Issued \cup {None, Keep}
    BY <1>1, <1>5, <2>3 DEF IndInv, TypeOK, RequestSound
  <2>5. RequestSound(q)'
    BY <1>2, <2>3, <2>4 DEF RequestSound, Issued
  <2> QED BY <1>4, <1>5, <2>2, <2>5
<1>6. ASSUME NEW u \in Users, acct[u] = "none", acct' = [acct EXCEPT ![u] = "live"],
             Answer(r, 500)
      PROVE  IndInv'
  <2>1. PICK q \in RequestType : q = Request("reply", req[r].op, req[r].by, None, None, Keep)
    BY <1>1, ReplyRecord
  <2>2. SetCookie(req[r], 500) = Keep
    BY <1>1 DEF SetCookie
  <2>3. req' = [req EXCEPT ![r] = q]
    BY <1>6, <2>1, <2>2 DEF Answer, Reply
  <2>4. RequestSound(q)'
    BY <1>1, <2>1 DEF RequestSound, Request, Issued
  <2> QED BY <1>4, <1>6, <2>3, <2>4
<1> QED BY <1>3, <1>5, <1>6 DEF CreateAccount

LEMMA RevokeDoneInd ==
  ASSUME IndInv, NEW r \in Requests, RevokeDone(r)
  PROVE  IndInv'
<1> DEFINE t == req[r].tok
<1>1. /\ req[r] \in RequestType /\ RequestSound(req[r]) /\ req[r].pc = "revoke"
      /\ req[r].pc # "idle" /\ t \in Tokens /\ t \in Issued /\ t # None
      /\ root[t] \in Issued /\ root[t] \in Tokens /\ req[r].by # None
      /\ req[r].ttl >= life[t] /\ req[r].ttl \in 0..RefreshTTL /\ life[t] \in 0..RefreshTTL
  <2>1. req[r] \in RequestType /\ RequestSound(req[r]) /\ req[r].pc = "revoke"
    BY InFlight DEF RevokeDone
  <2>2. t # None /\ t \in Issued /\ req[r].ttl >= life[t] /\ req[r].by # None
    BY <2>1 DEF RequestSound
  <2>3. Issued \subseteq Tokens
    BY SessionsAssumption DEF IndInv, TypeOK, Issued, Tokens
  <2> QED BY <2>1, <2>2, <2>3, InFlight DEF RequestType
<1>2. /\ UNCHANGED <<acct, minted, owner, parent, root, life, jar, late, redisLost>>
      /\ entry' = Stored(t, req[r].ttl) /\ withdrawn' = withdrawn \cup {t}
      /\ ended' \in {ended, ended \cup {root[t]}}
  BY DEF RevokeDone
<1>3. /\ entry' \in [Tokens -> 0..RefreshTTL]
      /\ \A s \in Tokens : s # t => entry'[s] = entry[s]
      /\ entry'[t] >= life[t]
  <2>1. CASE req[r].ttl = 0
    <3>1. entry' = entry /\ life[t] = 0
      BY <1>1, <1>2, <2>1, SessionsAssumption DEF Stored
    <3>2. entry[t] \in 0..RefreshTTL
      BY <1>1 DEF IndInv, TypeOK
    <3> QED BY <3>1, <3>2, SessionsAssumption DEF IndInv, TypeOK
  <2>2. CASE req[r].ttl # 0
    BY <1>1, <1>2, <2>2 DEF Stored, IndInv, TypeOK
  <2> QED BY <2>1, <2>2
<1>4. ASSUME NEW q \in RequestType, req' = [req EXCEPT ![r] = q], RequestSound(q)'
      PROVE  IndInv'
  <2>1. life' \in [Tokens -> 0..RefreshTTL] /\ minted' \in Nat /\ minted' >= minted
        /\ \A s \in Issued : life'[s] <= life[s]
    BY <1>2, SessionsAssumption DEF IndInv, TypeOK, Issued, Tokens
  <2>2. RequestsSound' /\ req' \in [Requests -> RequestType]
    BY <1>2, <1>4, <2>1, OthersStaySound
  <2>3. TypeOK'
    BY <1>1, <1>2, <1>3, <2>2 DEF IndInv, TypeOK, Tokens
  <2>4. TokenShape'
    <3>1. \A s \in Tokens : s > minted => s # t
      BY <1>1, SessionsAssumption DEF IndInv, TypeOK, Tokens, Issued
    <3>2. \A s \in Tokens : s > minted => entry'[s] = entry[s] /\ (s \in withdrawn' <=> s \in withdrawn)
      BY <1>2, <1>3, <3>1
    <3> QED BY <1>2, <3>2 DEF IndInv, TokenShape, Tokens, Issued
  <2>5. ParentsWithdrawn' /\ JarsIssued'
    BY <1>1, <1>2 DEF IndInv, ParentsWithdrawn, JarsIssued, Tokens, Issued
  <2>6. LateIsOrphan'
    BY <1>2 DEF IndInv, LateIsOrphan, Tokens, Issued
  <2>7. EntryCovers'
    BY <1>1, <1>2, <1>3 DEF IndInv, EntryCovers, Tokens
  <2> QED BY <2>2, <2>3, <2>4, <2>7, <2>5, <2>6 DEF IndInv
<1>5. CASE req[r].op = "refresh" /\ Goto(r, "issue")
  <2>1. 0 \in 0..RefreshTTL
    BY SessionsAssumption
  <2>2. PICK q \in RequestType : q = [req[r] EXCEPT !.pc = "issue", !.ttl = 0]
    BY <1>1, <2>1 DEF RequestType
  <2>3. req' = [req EXCEPT ![r] = q]
    BY <1>1, <1>5, <2>2 DEF Goto, RequestType, IndInv, TypeOK
  <2>4. q.user = req[r].user /\ q.tok = t /\ q.op = "refresh" /\ q.pc = "issue"
        /\ q.by # None /\ q.cookie = req[r].cookie
    BY <1>1, <1>5, <2>2 DEF RequestType
  <2>5. /\ q.user \in Users /\ acct[q.user] # "none" /\ t \notin late
        /\ q.cookie \in Issued \cup {None, Keep}
    BY <1>1, <1>5, <2>4 DEF RequestSound
  <2>6. RequestSound(q)'
    BY <1>1, <1>2, <2>4, <2>5 DEF RequestSound, Issued
  <2> QED BY <1>4, <2>3, <2>6
<1>6. CASE Answer(r, 204) /\ req[r].op = "logout"
  <2>1. PICK q \in RequestType : q = Request("reply", req[r].op, req[r].by, None, None, None)
    BY <1>1, ReplyRecord
  <2>2. SetCookie(req[r], 204) = None
    BY <1>6 DEF SetCookie
  <2>3. req' = [req EXCEPT ![r] = q]
    BY <1>6, <2>1, <2>2 DEF Answer, Reply
  <2>4. RequestSound(q)'
    BY <1>1, <2>1 DEF RequestSound, Request, Issued
  <2> QED BY <1>4, <2>3, <2>4
<1> QED BY <1>5, <1>6 DEF RevokeDone

LEMMA RevokeFailedInd ==
  ASSUME IndInv, NEW r \in Requests, RevokeFailed(r)
  PROVE  IndInv'
<1> DEFINE t == req[r].tok
<1>1. /\ req[r] \in RequestType /\ RequestSound(req[r]) /\ req[r].pc = "revoke"
      /\ req[r].pc # "idle" /\ t \in Tokens /\ t \in Issued /\ t # None /\ req[r].by # None
      /\ req[r].ttl >= life[t] /\ req[r].ttl \in 0..RefreshTTL /\ req[r].ttl > 0
  <2>1. req[r] \in RequestType /\ RequestSound(req[r]) /\ req[r].pc = "revoke"
        /\ req[r].ttl > 0
    BY InFlight DEF RevokeFailed
  <2>2. t # None /\ t \in Issued /\ req[r].ttl >= life[t] /\ req[r].by # None
    BY <2>1 DEF RequestSound
  <2> QED BY <2>1, <2>2, InFlight DEF RequestType
<1>2. UNCHANGED <<acct, minted, owner, parent, root, life, jar, history>>
  BY DEF RevokeFailed
<1>3. CASE entry' = entry
  BY <1>1, <1>2, <1>3, AnswerSound DEF RevokeFailed, stores
<1>4. CASE entry' = [entry EXCEPT ![t] = req[r].ttl]
  <2>1. PICK c \in {None, Keep} : c = SetCookie(req[r], 500)
    BY DEF SetCookie
  <2>2. PICK q \in RequestType : q = Request("reply", req[r].op, req[r].by, None, None, c)
    BY <1>1, ReplyRecord
  <2>3. req' = [req EXCEPT ![r] = q]
    BY <2>1, <2>2 DEF RevokeFailed, Answer, Reply
  <2>4. RequestSound(q)'
    BY <1>1, <2>2 DEF RequestSound, Request, Issued
  <2>5. life' \in [Tokens -> 0..RefreshTTL] /\ minted' \in Nat /\ minted' >= minted
        /\ \A s \in Issued : life'[s] <= life[s]
    BY <1>2, SessionsAssumption DEF IndInv, TypeOK, Issued, Tokens
  <2>6. RequestsSound' /\ req' \in [Requests -> RequestType]
    BY <1>2, <2>3, <2>4, <2>5, OthersStaySound DEF history
  <2>7. TypeOK'
    BY <1>1, <1>2, <1>4, <2>6 DEF IndInv, TypeOK, Tokens, history
  <2>8. TokenShape'
    <3>1. \A s \in Tokens : s > minted => s # t
      BY <1>1, SessionsAssumption DEF IndInv, TypeOK, Tokens, Issued
    <3>2. \A s \in Tokens : s > minted => entry'[s] = entry[s]
      BY <1>4, <3>1 DEF IndInv, TypeOK
    <3> QED BY <1>2, <3>2 DEF IndInv, TokenShape, Tokens, Issued, history
  <2>9. EntryCovers'
    BY <1>1, <1>2, <1>4 DEF IndInv, TypeOK, EntryCovers, Tokens, history
  <2>10. ParentsWithdrawn' /\ JarsIssued' /\ LateIsOrphan'
    BY <1>2 DEF IndInv, ParentsWithdrawn, JarsIssued, LateIsOrphan, Tokens, Issued, history
  <2> QED BY <2>6, <2>7, <2>8, <2>9, <2>10 DEF IndInv
<1> QED BY <1>1, <1>3, <1>4 DEF RevokeFailed, Stored

(* A new token is fresh, so nothing held about older ones changes; its     *)
(* parent, if any, was withdrawn before, and it is late only if its        *)
(* account is gone.                                                        *)
LEMMA IssueSessionInd ==
  ASSUME IndInv, NEW r \in Requests, IssueSession(r)
  PROVE  IndInv'
<1> DEFINE p == req[r].tok
           u == req[r].user
           t == minted + 1
<1>1. /\ req[r] \in RequestType /\ RequestSound(req[r]) /\ req[r].pc = "issue"
      /\ req[r].pc # "idle" /\ u \in Users /\ acct[u] # "none" /\ req[r].by # None
      /\ p # None => p \in Issued /\ p \in withdrawn /\ p \notin late
      /\ p # None => root[p] \in Issued
      /\ p \in Tokens \cup {None}
  <2>1. req[r] \in RequestType /\ RequestSound(req[r]) /\ req[r].pc = "issue"
    BY InFlight DEF IssueSession
  <2>2. p # None => root[p] \in Issued
    BY InFlight
  <2> QED BY <2>1, <2>2 DEF RequestSound, RequestType
<1>2. /\ t \in Tokens /\ minted \in Nat /\ minted' = t /\ minted' \in 0..MaxTokens
      /\ Issued \subseteq Tokens /\ Issued' = Issued \cup {t} /\ t \notin Issued
  BY SessionsAssumption DEF IssueSession, IndInv, TypeOK, Tokens, Issued
<1>3. /\ UNCHANGED <<acct, entry, jar, withdrawn, ended, redisLost>>
      /\ owner' = [owner EXCEPT ![t] = u]
      /\ parent' = [parent EXCEPT ![t] = p]
      /\ root' = [root EXCEPT ![t] = IF p = None THEN t ELSE root[p]]
      /\ life' = [life EXCEPT ![t] = RefreshTTL]
      /\ late' = IF acct[u] = "live" THEN late ELSE late \cup {t}
      /\ Reply(r, t)
  BY DEF IssueSession
<1>4. PICK q \in RequestType : q = Request("reply", req[r].op, req[r].by, None, None, t)
  BY <1>1, <1>2, ReplyRecord
<1>5. req' = [req EXCEPT ![r] = q]
  BY <1>3, <1>4 DEF Reply
<1>6. RequestSound(q)'
  <2>1. q.cookie \in Issued' \cup {None, Keep}
    BY <1>2, <1>4 DEF Request
  <2> QED BY <1>1, <1>4, <2>1 DEF RequestSound, Request
<1>7. life' \in [Tokens -> 0..RefreshTTL] /\ \A s \in Issued : life'[s] = life[s] /\ life[s] \in Nat
  BY <1>2, <1>3, SessionsAssumption DEF IndInv, TypeOK
<1>8. /\ life' \in [Tokens -> 0..RefreshTTL] /\ minted' \in Nat /\ minted' >= minted
      /\ \A s \in Issued : life'[s] <= life[s]
      /\ \A v \in Users : acct[v] # "none" => acct'[v] # "none"
      /\ withdrawn \subseteq withdrawn'
      /\ \A s \in Issued : s \in late' => s \in late
  BY <1>2, <1>3, <1>7
<1>9. RequestsSound' /\ req' \in [Requests -> RequestType]
  BY <1>5, <1>6, <1>8, OthersStaySound
<1>10. TypeOK'
  <2>1. (IF p = None THEN t ELSE root[p]) \in Tokens \cup {None}
    BY <1>1, <1>2
  <2>2. /\ owner' \in [Tokens -> Users \cup {None}]
        /\ parent' \in [Tokens -> Tokens \cup {None}]
        /\ root' \in [Tokens -> Tokens \cup {None}]
    BY <1>1, <1>2, <1>3, <2>1 DEF IndInv, TypeOK
  <2>3. late' \subseteq Tokens
    BY <1>2, <1>3 DEF IndInv, TypeOK
  <2>4. /\ acct' \in [Users -> {"none", "live", "gone"}]
        /\ entry' \in [Tokens -> 0..RefreshTTL]
        /\ jar' \in [Browsers -> Tokens \cup {None}]
        /\ withdrawn' \subseteq Tokens /\ ended' \subseteq Tokens
        /\ redisLost' \in BOOLEAN
    BY <1>3 DEF IndInv, TypeOK
  <2> QED BY <1>2, <1>7, <1>9, <2>2, <2>3, <2>4 DEF TypeOK, Tokens
<1>11. TokenShape'
  <2> SUFFICES ASSUME NEW s \in Tokens
               PROVE  IF s > minted'
                      THEN /\ owner'[s] = None /\ parent'[s] = None /\ root'[s] = None
                           /\ life'[s] = 0 /\ entry'[s] = 0
                           /\ s \notin withdrawn' /\ s \notin late'
                      ELSE owner'[s] \in Users /\ root'[s] \in Issued' /\ parent'[s] \in Issued' \cup {None}
    BY DEF TokenShape, Tokens, Issued
  <2>1. CASE s = t
    <3>1. owner'[s] = u /\ parent'[s] = p /\ root'[s] = IF p = None THEN t ELSE root[p]
      BY <1>2, <1>3, <2>1 DEF IndInv, TypeOK
    <3> QED BY <1>1, <1>2, <2>1, <3>1
  <2>2. CASE s # t
    <3>1. /\ owner'[s] = owner[s] /\ parent'[s] = parent[s] /\ root'[s] = root[s]
          /\ life'[s] = life[s] /\ entry'[s] = entry[s]
          /\ s \in withdrawn' <=> s \in withdrawn
          /\ s \in late' <=> s \in late
      BY <1>3, <2>2 DEF IndInv, TypeOK
    <3>2. s > minted' <=> s > minted
      BY <1>2, <2>2 DEF Tokens
    <3> QED BY <1>2, <3>1, <3>2 DEF IndInv, TokenShape
  <2> QED BY <2>1, <2>2
<1>12. t \notin withdrawn /\ t \notin late /\ entry[t] = 0
  BY <1>2 DEF IndInv, TokenShape
<1>13. EntryCovers'
  <2>1. \A s \in Tokens : s # t => life'[s] = life[s]
    BY <1>3 DEF IndInv, TypeOK
  <2>2. ASSUME ~redisLost, NEW s \in Tokens, entry[s] > 0 \/ s \in withdrawn
        PROVE  entry[s] >= life'[s]
    <3>1. s # t
      BY <1>12, <2>2
    <3> QED BY <2>1, <2>2, <3>1 DEF IndInv, EntryCovers
  <2> QED BY <1>3, <2>2 DEF EntryCovers, Tokens
<1>14. ParentsWithdrawn'
  BY <1>1, <1>3 DEF IndInv, TypeOK, ParentsWithdrawn, Tokens
<1>15. JarsIssued'
  BY <1>2, <1>3 DEF IndInv, JarsIssued
<1>16. LateIsOrphan'
  <2>1. ASSUME NEW s \in late' PROVE s \in Issued' /\ acct'[owner'[s]] = "gone"
    <3>1. CASE s = t
      <4>1. acct[u] = "gone"
        BY <1>1, <1>3, <1>12, <2>1, <3>1 DEF IndInv, TypeOK
      <4>2. owner'[s] = u
        BY <1>2, <1>3, <3>1 DEF IndInv, TypeOK
      <4> QED BY <1>2, <1>3, <3>1, <4>1, <4>2
    <3>2. CASE s # t
      <4>1. s \in late
        BY <1>3, <2>1, <3>2
      <4>2. s \in Issued /\ acct[owner[s]] = "gone" /\ s \in Tokens
        BY <1>2, <4>1 DEF IndInv, LateIsOrphan
      <4>3. owner'[s] = owner[s]
        BY <1>3, <3>2, <4>2 DEF IndInv, TypeOK
      <4> QED BY <1>2, <1>3, <4>2, <4>3
    <3> QED BY <3>1, <3>2
  <2>2. ASSUME NEW s \in Tokens PROVE parent'[s] \notin late'
    <3>1. parent'[s] = IF s = t THEN p ELSE parent[s]
      BY <1>3 DEF IndInv, TypeOK
    <3>2. parent[s] \notin late /\ p \notin late
      BY <1>1, SessionsAssumption DEF IndInv, TypeOK, LateIsOrphan
    <3>3. t # None /\ parent[s] # t /\ p # t
      <4>1. t # None
        BY <1>2, SessionsAssumption
      <4>2. p # t
        BY <1>1, <1>2, <4>1
      <4>3. parent[s] # t
        BY <1>2, <4>1 DEF IndInv, TokenShape
      <4> QED BY <4>1, <4>2, <4>3
    <3> QED BY <1>3, <3>1, <3>2, <3>3
  <2> QED BY <2>1, <2>2 DEF LateIsOrphan, Tokens
<1> QED BY <1>9, <1>10, <1>11, <1>13, <1>14, <1>15, <1>16 DEF IndInv

LEMMA IssueFailedInd ==
  ASSUME IndInv, NEW r \in Requests, IssueFailed(r)
  PROVE  IndInv'
<1>1. req[r].pc # "idle" /\ Answer(r, 500) /\ jar' = jar /\ UNCHANGED <<stores, history>>
  BY DEF IssueFailed
<1> QED BY <1>1, AnswerSound

(* The slot is free again; the jar holds what the response said. *)
LEMMA IdleSound ==
  ASSUME IndInv
  PROVE  Idle \in RequestType /\ RequestSound(Idle)
<1>1. 0 \in 0..RefreshTTL
  BY SessionsAssumption
<1> QED BY <1>1 DEF RequestType, RequestSound, Idle, Request

LEMMA DeliverInd ==
  ASSUME IndInv, NEW r \in Requests, Deliver(r)
  PROVE  IndInv'
<1>1. req[r].cookie \in Issued \cup {None, Keep}
  BY InFlight DEF RequestSound
<1>2. jar \in [Browsers -> Issued \cup {None}]
  BY DEF IndInv, TypeOK, JarsIssued
<1>3. jar' \in [Browsers -> Issued \cup {None}]
  BY <1>1, <1>2 DEF Deliver
<1>4. req' = [req EXCEPT ![r] = Idle] /\ UNCHANGED <<stores, history>>
  BY DEF Deliver
<1> QED BY <1>3, <1>4, IdleSound, RequestStep

LEMMA LoseResponseInd ==
  ASSUME IndInv, NEW r \in Requests, LoseResponse(r)
  PROVE  IndInv'
<1>1. jar' \in [Browsers -> Issued \cup {None}]
  BY DEF LoseResponse, IndInv, TypeOK, JarsIssued
<1>2. req' = [req EXCEPT ![r] = Idle] /\ UNCHANGED <<stores, history>>
  BY DEF LoseResponse
<1> QED BY <1>1, <1>2, IdleSound, RequestStep

LEMMA CrashInd ==
  ASSUME IndInv, Crash
  PROVE  IndInv'
<1>1. req' = [r \in Requests |-> Idle] /\ UNCHANGED <<stores, jar, history>>
  BY DEF Crash
<1>2. TypeOK'
  BY <1>1, IdleSound DEF IndInv, TypeOK, stores, history, Tokens
<1>3. TokenShape' /\ EntryCovers' /\ ParentsWithdrawn' /\ LateIsOrphan' /\ JarsIssued'
  BY <1>1 DEF IndInv, TokenShape, EntryCovers, ParentsWithdrawn, LateIsOrphan,
              JarsIssued, stores, history, Tokens, Issued
<1>4. RequestsSound'
  BY <1>1 DEF RequestsSound, RequestSound, Idle, Request
<1> QED BY <1>2, <1>3, <1>4 DEF IndInv

-------------------------------------------------------------------------------
(* Steps outside the handlers. *)

(* A step that leaves the requests alone keeps them sound. *)
LEMMA RequestsUnchanged ==
  ASSUME IndInv, req' = req,
         minted' \in Nat, minted' >= minted, life' \in [Tokens -> 0..RefreshTTL],
         \A u \in Users : acct[u] # "none" => acct'[u] # "none",
         \A t \in Issued : life'[t] <= life[t],
         withdrawn \subseteq withdrawn',
         \A t \in Issued : t \in late' => t \in late
  PROVE  RequestsSound' /\ req' \in [Requests -> RequestType]
<1>1. ASSUME NEW s \in Requests PROVE RequestSound(req[s])'
  <2>1. PICK q \in RequestType : q = req[s] /\ RequestSound(q)
    BY DEF IndInv, TypeOK, RequestsSound
  <2>2. RequestSound(q)'
    BY <2>1, SoundStays
  <2>3. req'[s] = q
    BY <2>1
  <2> QED BY <2>2, <2>3 DEF RequestSound, Issued
<1> QED BY <1>1 DEF RequestsSound, IndInv, TypeOK

LEMMA DeleteAccountInd ==
  ASSUME IndInv, NEW u \in Users, DeleteAccount(u)
  PROVE  IndInv'
<1>1. /\ acct[u] = "live" /\ acct' = [acct EXCEPT ![u] = "gone"]
      /\ UNCHANGED <<minted, owner, parent, root, life, entry, jar, req, history>>
  BY DEF DeleteAccount
<1>2. /\ acct' \in [Users -> {"none", "live", "gone"}]
      /\ \A v \in Users : acct[v] # "none" => acct'[v] # "none"
      /\ \A v \in Users : acct[v] = "gone" => acct'[v] = "gone"
  BY <1>1 DEF IndInv, TypeOK
<1>3. life' \in [Tokens -> 0..RefreshTTL] /\ minted' \in Nat /\ minted' >= minted
      /\ \A s \in Issued : life'[s] <= life[s]
  BY <1>1, SessionsAssumption DEF IndInv, TypeOK, Issued, Tokens
<1>4. RequestsSound' /\ req' \in [Requests -> RequestType]
  BY <1>1, <1>2, <1>3, RequestsUnchanged DEF history
<1>5. TypeOK'
  BY <1>1, <1>2, <1>4 DEF IndInv, TypeOK, history, Tokens
<1>6. TokenShape' /\ EntryCovers' /\ ParentsWithdrawn' /\ JarsIssued'
  BY <1>1 DEF IndInv, TokenShape, EntryCovers, ParentsWithdrawn, JarsIssued,
              history, Tokens, Issued
<1>7. LateIsOrphan'
  <2>1. \A t \in late : owner[t] \in Users
    BY SessionsAssumption DEF IndInv, TypeOK, TokenShape, LateIsOrphan, Issued, Tokens
  <2> QED BY <1>1, <1>2, <2>1 DEF IndInv, LateIsOrphan, history, Tokens, Issued
<1> QED BY <1>4, <1>5, <1>6, <1>7 DEF IndInv

LEMMA RedisLosesInd ==
  ASSUME IndInv, RedisLoses
  PROVE  IndInv'
<1>1. /\ redisLost' = TRUE
      /\ UNCHANGED <<acct, minted, owner, parent, root, life, jar, req, withdrawn, late, ended>>
  BY DEF RedisLoses
<1>2. entry' \in [Tokens -> 0..RefreshTTL] /\ \A t \in Tokens : entry[t] = 0 => entry'[t] = 0
  BY SessionsAssumption DEF RedisLoses, IndInv, TypeOK
<1>3. life' \in [Tokens -> 0..RefreshTTL] /\ minted' \in Nat /\ minted' >= minted
      /\ \A s \in Issued : life'[s] <= life[s]
  BY <1>1, SessionsAssumption DEF IndInv, TypeOK, Issued, Tokens
<1>4. RequestsSound' /\ req' \in [Requests -> RequestType]
  BY <1>1, <1>3, RequestsUnchanged
<1>5. TypeOK'
  BY <1>1, <1>2, <1>4 DEF IndInv, TypeOK, Tokens
<1>6. TokenShape'
  BY <1>1, <1>2 DEF IndInv, TokenShape, Tokens, Issued
<1>7. EntryCovers'
  BY <1>1 DEF EntryCovers
<1>8. ParentsWithdrawn' /\ JarsIssued' /\ LateIsOrphan'
  BY <1>1 DEF IndInv, ParentsWithdrawn, JarsIssued, LateIsOrphan, Tokens, Issued
<1> QED BY <1>4, <1>5, <1>6, <1>7, <1>8 DEF IndInv

(* Token and entry age together, so the entry keeps covering the token. *)
LEMMA TickInd ==
  ASSUME IndInv, Tick
  PROVE  IndInv'
<1>1. /\ life' = Aged(life) /\ entry' = Aged(entry)
      /\ UNCHANGED <<acct, minted, owner, parent, root, jar, req, history>>
  BY DEF Tick
<1>2. ASSUME NEW f \in [Tokens -> 0..RefreshTTL]
      PROVE  /\ Aged(f) \in [Tokens -> 0..RefreshTTL]
             /\ \A t \in Tokens : Aged(f)[t] <= f[t] /\ (f[t] = 0 => Aged(f)[t] = 0)
             /\ \A t \in Tokens : Aged(f)[t] = IF f[t] = 0 THEN 0 ELSE f[t] - 1
  BY SessionsAssumption DEF Aged
<1>3. life \in [Tokens -> 0..RefreshTTL] /\ entry \in [Tokens -> 0..RefreshTTL]
  BY DEF IndInv, TypeOK
<1>4. /\ life' \in [Tokens -> 0..RefreshTTL] /\ entry' \in [Tokens -> 0..RefreshTTL]
      /\ \A t \in Tokens : /\ life'[t] <= life[t] /\ (life[t] = 0 => life'[t] = 0)
                           /\ (entry[t] = 0 => entry'[t] = 0)
  BY <1>1, <1>2, <1>3
<1>5. minted' \in Nat /\ minted' >= minted /\ \A s \in Issued : life'[s] <= life[s]
  BY <1>1, <1>4, SessionsAssumption DEF IndInv, TypeOK, Issued, Tokens
<1>6. RequestsSound' /\ req' \in [Requests -> RequestType]
  BY <1>1, <1>4, <1>5, RequestsUnchanged DEF history
<1>7. TypeOK'
  BY <1>1, <1>4, <1>6 DEF IndInv, TypeOK, history, Tokens
<1>8. TokenShape'
  BY <1>1, <1>4 DEF IndInv, TokenShape, history, Tokens, Issued
<1>9. EntryCovers'
  <2>1. ASSUME ~redisLost, NEW t \in Tokens, entry'[t] > 0 \/ t \in withdrawn
        PROVE  entry'[t] >= life'[t]
    <3>1. entry'[t] = (IF entry[t] = 0 THEN 0 ELSE entry[t] - 1)
          /\ life'[t] = (IF life[t] = 0 THEN 0 ELSE life[t] - 1)
      BY <1>1, <1>2, <1>3
    <3>2. entry[t] \in Nat /\ life[t] \in Nat
      BY <1>3
    <3>3. entry[t] > 0 \/ t \in withdrawn
      BY <2>1, <3>1, <3>2
    <3>4. entry[t] >= life[t]
      BY <2>1, <3>3 DEF IndInv, EntryCovers
    <3> QED BY <3>1, <3>2, <3>4
  <2> QED BY <1>1, <2>1 DEF EntryCovers, history, Tokens
<1>10. ParentsWithdrawn' /\ JarsIssued' /\ LateIsOrphan'
  BY <1>1 DEF IndInv, ParentsWithdrawn, JarsIssued, LateIsOrphan, Tokens, Issued, history
<1> QED BY <1>6, <1>7, <1>8, <1>9, <1>10 DEF IndInv

LEMMA StutterInd ==
  ASSUME IndInv, UNCHANGED vars
  PROVE  IndInv'
<1>1. UNCHANGED <<acct, minted, owner, parent, root, life, entry, jar, req,
                  withdrawn, late, ended, redisLost>>
  BY DEF vars, stores, history
<1>2. TypeOK'
  BY <1>1 DEF IndInv, TypeOK, Tokens
<1>3. TokenShape' /\ EntryCovers' /\ ParentsWithdrawn' /\ LateIsOrphan' /\ JarsIssued'
  BY <1>1 DEF IndInv, TokenShape, EntryCovers, ParentsWithdrawn, LateIsOrphan,
              JarsIssued, Tokens, Issued
<1>4. RequestsSound'
  BY <1>1 DEF IndInv, RequestsSound, RequestSound, Issued
<1> QED BY <1>2, <1>3, <1>4 DEF IndInv

-------------------------------------------------------------------------------
(* Theorems. *)

(* IndInv holds in every reachable state: no interleaving, crash, lost     *)
(* response, failed command or Redis loss gets out of it.                  *)
THEOREM Invariance == Spec => []IndInv
<1>1. IndInv /\ [Next]_vars => IndInv'
  <2> SUFFICES ASSUME IndInv, [Next]_vars PROVE IndInv' OBVIOUS
  <2>1. ASSUME NEW r \in Requests, NEW c \in Browsers \cup Scripts, Submit(r, c) PROVE IndInv'
    BY <2>1, SubmitInd
  <2>2. ASSUME NEW r \in Requests, Handle(r) PROVE IndInv'
    BY <2>2, CreateAccountInd, VerifyInd, ParseRefreshInd, CheckRevokedInd, LoadUserInd,
       ParseLogoutInd, RevokeDoneInd, RevokeFailedInd, IssueSessionInd, IssueFailedInd,
       DeliverInd, LoseResponseInd DEF Handle
  <2>3. ASSUME NEW u \in Users, DeleteAccount(u) PROVE IndInv'
    BY <2>3, DeleteAccountInd
  <2> QED BY <2>1, <2>2, <2>3, CrashInd, RedisLosesInd, TickInd, StutterInd DEF Next
<1> QED BY <1>1, InitInd, PTL DEF Spec

(* Every variable of the sessions keeps its type. *)
THEOREM TypeCorrect == Spec => []TypeOK
<1>1. IndInv => TypeOK
  BY DEF IndInv
<1> QED BY <1>1, Invariance, PTL

(* A rotated token is dead once its replacement exists: every parent was   *)
(* withdrawn (RevokeDone came before IssueSession), and the revocation     *)
(* Redis holds lasts as long as the token does.                            *)
THEOREM RotationKillsParent == Spec => []ReplacedIsDead
<1>1. IndInv => ReplacedIsDead
  <2> SUFFICES ASSUME IndInv, ~redisLost, NEW t \in Tokens, parent[t] # None
               PROVE  ~Usable(parent[t])
    BY DEF ReplacedIsDead
  <2>1. parent[t] \in Tokens /\ parent[t] \in withdrawn
    BY DEF IndInv, TypeOK, ParentsWithdrawn
  <2>2. entry[parent[t]] >= life[parent[t]]
    BY <2>1 DEF IndInv, EntryCovers
  <2>3. entry[parent[t]] \in 0..RefreshTTL /\ life[parent[t]] \in 0..RefreshTTL
    BY <2>1 DEF IndInv, TypeOK
  <2> QED BY <2>2, <2>3, SessionsAssumption DEF Usable
<1> QED BY <1>1, Invariance, PTL

(* A token minted for a deleted account is never renewed: FindByID reads   *)
(* the row after the token exists, and a deleted row does not come back.   *)
THEOREM AccountDeletionSticks == Spec => []NoLifeAfterDeletion
<1>1. IndInv => NoLifeAfterDeletion
  BY DEF IndInv, LateIsOrphan, NoLifeAfterDeletion
<1> QED BY <1>1, Invariance, PTL

(* Once Revoke has returned success for a valid token, no check of it      *)
(* passes any more, in whatever request the check is made.                 *)
THEOREM WithdrawalSticks == Spec => WithdrawnRefused
<1>1. IndInv /\ [Next]_vars =>
        [\A r \in Requests :
            /\ ~redisLost
            /\ req[r].pc = "check"
            /\ req[r].tok \in withdrawn /\ life[req[r].tok] > 0
            => req'[r].pc # "load"]_vars
  <2> SUFFICES ASSUME IndInv, Next, NEW r \in Requests, ~redisLost, req[r].pc = "check",
                      req[r].tok \in withdrawn, life[req[r].tok] > 0
               PROVE  req'[r].pc # "load"
    OBVIOUS
  <2>1. req \in [Requests -> RequestType] /\ req[r] \in RequestType /\ req[r].op = "refresh"
    BY InFlight DEF IndInv, TypeOK, RequestSound
  <2>2. entry[req[r].tok] > 0
    <3>1. req[r].tok \in Tokens
      BY DEF IndInv, TypeOK
    <3>2. entry[req[r].tok] >= life[req[r].tok]
      BY <3>1 DEF IndInv, EntryCovers
    <3>3. entry[req[r].tok] \in 0..RefreshTTL /\ life[req[r].tok] \in 0..RefreshTTL
      BY <3>1 DEF IndInv, TypeOK
    <3> QED BY <3>2, <3>3, SessionsAssumption
  <2>3. ASSUME NEW s \in Requests, s # r,
               \E q : req' = [req EXCEPT ![s] = q]
        PROVE  req'[r].pc # "load"
    BY <2>1, <2>3
  <2>4. ASSUME NEW status, Answer(r, status) PROVE req'[r].pc # "load"
    BY <2>1, <2>4 DEF Answer, Reply, Request
  <2>5. ASSUME NEW s \in Requests, NEW c, Submit(s, c) PROVE req'[r].pc # "load"
    <3>1. s # r /\ \E q : req' = [req EXCEPT ![s] = q]
      BY <2>5 DEF Submit, SendRegister, SendLogin, SendRefresh, SendLogout, Send
    <3> QED BY <2>3, <3>1
  <2>6. ASSUME Handle(r) PROVE req'[r].pc # "load"
    <3>1. CheckRevoked(r)
      BY <2>1, <2>6 DEF Handle, At, CreateAccount, VerifyCredentials, ParseRefresh, LoadUser,
         ParseLogout, RevokeDone, RevokeFailed, IssueSession, IssueFailed, Deliver, LoseResponse
    <3> QED BY <2>2, <2>4, <3>1, InFlight DEF CheckRevoked
  <2>7. ASSUME NEW s \in Requests, s # r, Handle(s) PROVE req'[r].pc # "load"
    <3>1. CASE CreateAccount(s)
      BY <2>1, <2>7, <3>1 DEF CreateAccount, Answer, Reply
    <3>2. CASE VerifyCredentials(s)
      BY <2>1, <2>7, <3>2 DEF VerifyCredentials, Answer, Reply, Goto
    <3>3. CASE ParseRefresh(s)
      BY <2>1, <2>7, <3>3 DEF ParseRefresh, Answer, Reply, Goto
    <3>4. CASE CheckRevoked(s)
      BY <2>1, <2>7, <3>4 DEF CheckRevoked, Answer, Reply, Goto
    <3>5. CASE LoadUser(s)
      BY <2>1, <2>7, <3>5 DEF LoadUser, Answer, Reply
    <3>6. CASE ParseLogout(s)
      BY <2>1, <2>7, <3>6 DEF ParseLogout, Answer, Reply
    <3>7. CASE RevokeDone(s)
      BY <2>1, <2>7, <3>7 DEF RevokeDone, Answer, Reply, Goto
    <3>8. CASE RevokeFailed(s)
      BY <2>1, <2>7, <3>8 DEF RevokeFailed, Answer, Reply
    <3>9. CASE IssueSession(s)
      BY <2>1, <2>7, <3>9 DEF IssueSession, Reply
    <3>10. CASE IssueFailed(s)
      BY <2>1, <2>7, <3>10 DEF IssueFailed, Answer, Reply
    <3>11. CASE Deliver(s) \/ LoseResponse(s)
      BY <2>1, <2>7, <3>11 DEF Deliver, LoseResponse
    <3> QED BY <2>7, <3>1, <3>2, <3>3, <3>4, <3>5, <3>6, <3>7, <3>8, <3>9, <3>10, <3>11 DEF Handle
  <2>8. CASE Crash
    BY <2>1, <2>8 DEF Crash, Idle, Request
  <2>9. CASE RedisLoses \/ Tick \/ \E u \in Users : DeleteAccount(u)
    BY <2>1, <2>9 DEF RedisLoses, Tick, DeleteAccount
  <2> QED BY <2>5, <2>6, <2>7, <2>8, <2>9 DEF Next
<1> QED BY <1>1, Invariance, PTL DEF Spec, WithdrawnRefused
-------------------------------------------------------------------------------
(* Sessions implements RefreshLedger, which promises nothing once wiped.    *)

(* A step after which no more tokens are usable than before retires some   *)
(* tokens, or none.                                                        *)
LEMMA RetireStep ==
  ASSUME IndInv, minted' = minted, parent' = parent,
         \A t \in Issued : Usable(t)' => Usable(t)
  PROVE  Ledger!Keeps \/ UNCHANGED <<LedgerStatus, parent>>
<1> DEFINE S == {t \in Issued : Usable(t) /\ ~Usable(t)'}
<1>1. Issued \subseteq Tokens /\ minted \in Nat /\ Tokens \subseteq Nat
  BY SessionsAssumption DEF IndInv, TypeOK, Issued, Tokens
<1>2. \A t \in Tokens : t > minted <=> t \notin Issued
  BY <1>1 DEF Issued, Tokens
<1>3. \A t \in Tokens : LedgerStatus[t] = Status(t)
  BY DEF LedgerStatus
<1>4. LedgerStatus' = [t \in Tokens |-> IF t \in S THEN "dead" ELSE LedgerStatus[t]]
  <2>1. ASSUME NEW t \in Tokens
        PROVE  Status(t)' = IF t \in S THEN "dead" ELSE LedgerStatus[t]
    BY <1>2, <1>3 DEF Status
  <2> QED BY <2>1 DEF LedgerStatus, Tokens
<1>5. \A t \in S : LedgerStatus[t] = "usable"
  BY <1>1, <1>2, <1>3 DEF Status
<1>6. CASE S = {}
  BY <1>4, <1>6 DEF LedgerStatus
<1>7. CASE S # {}
  <2>1. S \in SUBSET {t \in Tokens : LedgerStatus[t] = "usable"}
    BY <1>1, <1>5
  <2>2. Ledger!Retire(S)
    BY <1>4, <1>7 DEF Ledger!Retire
  <2> QED BY <2>1, <2>2 DEF Ledger!Keeps
<1> QED BY <1>6, <1>7

(* IssueSession grants a token or renews a dead one. *)
LEMMA IssueStep ==
  ASSUME IndInv, ~redisLost, NEW r \in Requests, IssueSession(r)
  PROVE  Ledger!Keeps
<1> DEFINE p == req[r].tok
           t == minted + 1
<1>1. /\ p # None => p \in Issued /\ p \in withdrawn
      /\ p \in Tokens \cup {None}
  BY InFlight DEF IssueSession, RequestSound, RequestType
<1>2. /\ t \in Tokens /\ minted \in Nat /\ minted' = t
      /\ Issued \subseteq Tokens /\ Tokens \subseteq Nat /\ t \notin Issued
  BY SessionsAssumption DEF IssueSession, IndInv, TypeOK, Tokens, Issued
<1>3. /\ entry' = entry
      /\ parent' = [parent EXCEPT ![t] = p]
      /\ life' = [life EXCEPT ![t] = RefreshTTL]
  BY DEF IssueSession
<1>4. parent[t] = None /\ entry[t] = 0
  BY <1>2 DEF IndInv, TokenShape
<1>5. \A s \in Tokens : LedgerStatus[s] = Status(s)
  BY DEF LedgerStatus
<1>6. LedgerStatus[t] = "unissued"
  BY <1>2, <1>5 DEF Status
<1>7. LedgerStatus' = [LedgerStatus EXCEPT ![t] = "usable"]
  <2>1. PICK n \in Tokens : n = t
    BY <1>2
  <2>2. ASSUME NEW s \in Tokens, s # n PROVE Status(s)' = Status(s)
    <3>1. life'[s] = life[s] /\ entry'[s] = entry[s]
      BY <1>3, <2>1, <2>2 DEF IndInv, TypeOK
    <3>2. s > minted' <=> s > minted
      BY <1>2, <2>1, <2>2
    <3> QED BY <3>1, <3>2 DEF Status, Usable
  <2>3. Status(n)' = "usable"
    <3>1. life'[n] = RefreshTTL /\ entry'[n] = 0 /\ ~(n > minted')
      BY <1>2, <1>3, <1>4, <2>1 DEF IndInv, TypeOK
    <3> QED BY <1>2, <3>1, SessionsAssumption DEF Status, Usable
  <2>4. LedgerStatus' = [s \in Tokens |-> IF s = n THEN "usable" ELSE Status(s)]
    BY <2>2, <2>3 DEF LedgerStatus, Tokens
  <2> QED BY <1>5, <2>1, <2>4 DEF LedgerStatus
<1>8. CASE p = None
  <2>1. parent' = parent
    BY <1>3, <1>4, <1>8 DEF IndInv, TypeOK
  <2>2. Ledger!Grant(t)
    BY <1>6, <1>7, <2>1 DEF Ledger!Grant
  <2> QED BY <1>2, <2>2 DEF Ledger!Keeps
<1>9. CASE p # None
  <2>1. p \in Tokens /\ p \in Issued /\ p \in withdrawn
    BY <1>1, <1>9
  <2>2. entry[p] >= life[p] /\ entry[p] \in 0..RefreshTTL /\ life[p] \in 0..RefreshTTL
    BY <2>1 DEF IndInv, TypeOK, EntryCovers
  <2>3. ~Usable(p) /\ ~(p > minted)
    BY <1>2, <2>1, <2>2, SessionsAssumption DEF Usable, Issued
  <2>4. LedgerStatus[p] = "dead"
    BY <1>5, <2>1, <2>3 DEF Status
  <2>5. Ledger!Renew(p, t)
    BY <1>3, <1>6, <1>7, <2>4 DEF Ledger!Renew
  <2> QED BY <1>2, <2>1, <2>5 DEF Ledger!Keeps
<1> QED BY <1>8, <1>9

(* Age never brings a token back: its revocation ages no faster. *)
LEMMA TickStep ==
  ASSUME IndInv, ~redisLost, Tick
  PROVE  \A t \in Issued : Usable(t)' => Usable(t)
<1> SUFFICES ASSUME NEW t \in Issued, life'[t] > 0, entry'[t] = 0 PROVE Usable(t)
  BY DEF Usable
<1>1. t \in Tokens
  BY SessionsAssumption DEF IndInv, TypeOK, Issued, Tokens
<1>2. life[t] \in Nat /\ entry[t] \in Nat
  BY <1>1 DEF IndInv, TypeOK
<1>3. /\ life'[t] = IF life[t] = 0 THEN 0 ELSE life[t] - 1
      /\ entry'[t] = IF entry[t] = 0 THEN 0 ELSE entry[t] - 1
  BY <1>1 DEF Tick, Aged
<1>4. entry[t] > 0 => entry[t] >= life[t]
  BY <1>1 DEF IndInv, EntryCovers
<1> QED BY <1>2, <1>3, <1>4 DEF Usable

(* Every step of the sessions is a step of the ledger, or none at all. *)
LEMMA LedgerStep ==
  ASSUME IndInv, ~redisLost, ~redisLost', [Next]_vars
  PROVE  Ledger!Keeps \/ UNCHANGED <<LedgerStatus, parent>>
<1>1. ASSUME UNCHANGED <<minted, parent, life, entry>>
      PROVE  Ledger!Keeps \/ UNCHANGED <<LedgerStatus, parent>>
  <2>1. \A t \in Issued : Usable(t)' => Usable(t)
    BY <1>1 DEF Usable
  <2> QED BY <1>1, <2>1, RetireStep
<1>2. ASSUME NEW r \in Requests, UNCHANGED <<minted, parent, life>>,
             entry' \in {entry, Stored(req[r].tok, req[r].ttl)}
      PROVE  Ledger!Keeps \/ UNCHANGED <<LedgerStatus, parent>>
  <2>1. entry \in [Tokens -> 0..RefreshTTL] /\ Issued \subseteq Tokens
    BY SessionsAssumption DEF IndInv, TypeOK, Issued, Tokens
  <2>2. \A t \in Issued : entry'[t] = 0 => entry[t] = 0
    BY <1>2, <2>1 DEF Stored
  <2>3. \A t \in Issued : Usable(t)' => Usable(t)
    BY <1>2, <2>2 DEF Usable
  <2> QED BY <1>2, <2>3, RetireStep
<1>3. ASSUME NEW r \in Requests, NEW c, Submit(r, c)
      PROVE  UNCHANGED <<minted, parent, life, entry>>
  BY <1>3 DEF Submit, SendRegister, SendLogin, SendRefresh, SendLogout, Send, stores
<1>4. ASSUME NEW r \in Requests, Handle(r)
      PROVE  Ledger!Keeps \/ UNCHANGED <<LedgerStatus, parent>>
  <2>1. CASE \/ CreateAccount(r) \/ VerifyCredentials(r) \/ ParseRefresh(r)
             \/ CheckRevoked(r) \/ LoadUser(r) \/ ParseLogout(r)
             \/ IssueFailed(r) \/ Deliver(r) \/ LoseResponse(r)
    <3>1. UNCHANGED <<minted, parent, life, entry>>
      BY <2>1 DEF CreateAccount, VerifyCredentials, ParseRefresh, CheckRevoked, LoadUser,
                  ParseLogout, IssueFailed, Deliver, LoseResponse, stores
    <3> QED BY <1>1, <3>1
  <2>2. CASE RevokeDone(r) \/ RevokeFailed(r)
    <3>1. /\ UNCHANGED <<minted, parent, life>>
          /\ entry' \in {entry, Stored(req[r].tok, req[r].ttl)}
      BY <2>2 DEF RevokeDone, RevokeFailed
    <3> QED BY <1>2, <3>1
  <2>3. CASE IssueSession(r)
    BY <2>3, IssueStep
  <2> QED BY <1>4, <2>1, <2>2, <2>3 DEF Handle
<1>5. CASE Crash \/ (\E u \in Users : DeleteAccount(u)) \/ UNCHANGED vars
  <2>1. UNCHANGED <<minted, parent, life, entry>>
    BY <1>5 DEF Crash, DeleteAccount, vars, stores
  <2> QED BY <1>1, <2>1
<1>6. CASE RedisLoses
  BY <1>6 DEF RedisLoses
<1>7. CASE Tick
  <2>1. minted' = minted /\ parent' = parent
    BY <1>7 DEF Tick
  <2> QED BY <1>7, <2>1, TickStep, RetireStep
<1> QED BY <1>1, <1>3, <1>4, <1>5, <1>6, <1>7 DEF Next

(* The handlers, the store and the clock together are the ledger: a token  *)
(* is usable once, then dead for good, and is replaced only when dead,     *)
(* however requests interleave, until Redis loses an entry.                *)
THEOREM RotationImplementsLedger == Spec => RotationIsLedger
<1>1. Init => Ledger!LedgerInit
  <2> SUFFICES ASSUME Init PROVE Ledger!LedgerInit OBVIOUS
  <2>1. minted = 0 /\ parent = [t \in Tokens |-> None] /\ redisLost = FALSE
    BY DEF Init
  <2>2. \A t \in Tokens : t > minted
    BY <2>1, SessionsAssumption DEF Tokens
  <2>3. LedgerStatus = [t \in Tokens |-> "unissued"]
    BY <2>2 DEF LedgerStatus, Status
  <2> QED BY <2>1, <2>3 DEF Ledger!LedgerInit
<1>2. IndInv /\ [Next]_vars => redisLost \in BOOLEAN /\ (redisLost => redisLost')
  BY DEF IndInv, TypeOK, Next, Submit, Handle, SendRegister, SendLogin, SendRefresh, SendLogout,
         Send, CreateAccount, VerifyCredentials, ParseRefresh, CheckRevoked, LoadUser, ParseLogout,
         RevokeDone, RevokeFailed, IssueSession, IssueFailed, Deliver, LoseResponse, Crash,
         DeleteAccount, RedisLoses, Tick, vars, stores, history
<1>3. IndInv /\ IndInv' /\ [Next]_vars => [Ledger!LedgerNext]_(Ledger!ledgerVars)
  <2> SUFFICES ASSUME IndInv, IndInv', [Next]_vars
               PROVE  Ledger!LedgerNext \/ UNCHANGED <<LedgerStatus, parent, ~redisLost>>
    BY DEF Ledger!ledgerVars
  <2>1. redisLost \in BOOLEAN /\ redisLost' \in BOOLEAN
    BY DEF IndInv, TypeOK
  <2>2. CASE redisLost'
    BY <2>1, <2>2 DEF Ledger!LedgerNext, Ledger!Wiped
  <2>3. CASE ~redisLost'
    <3>1. ~redisLost /\ (Ledger!Keeps \/ UNCHANGED <<LedgerStatus, parent>>)
      BY <1>2, <2>3, LedgerStep
    <3> QED BY <2>1, <2>3, <3>1 DEF Ledger!LedgerNext
  <2> QED BY <2>2, <2>3
<1> QED BY <1>1, <1>3, Invariance, PTL DEF Spec, RotationIsLedger, Ledger!LedgerSpec
===============================================================================
