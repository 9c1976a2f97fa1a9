----------------------------- MODULE AccessTokens -----------------------------
(***************************************************************************)
(* The access token that IssuePair mints with every refresh token, and the *)
(* middleware that admits its bearer.  Nothing stores it: it is valid by   *)
(* its own expiry, and neither a logout nor a deletion reaches it.         *)
(***************************************************************************)
EXTENDS Sessions

CONSTANTS
    AccessTTL,   \* FLOWCAST_ACCESS_TOKEN_TTL, in ticks
    Never

ASSUME AccessAssumption ==
    /\ AccessTTL \in 1..(RefreshTTL - 1)
    /\ Never \notin 0..AccessTTL

VARIABLES
    sinceLogout,    \* sinceLogout[s]: ticks since session s was logged out
    sinceDeletion   \* sinceDeletion[u]: ticks since account u was deleted

clocks     == <<sinceLogout, sinceDeletion>>
accessVars == <<vars, clocks>>

-------------------------------------------------------------------------------
(* Both tokens of a pair are minted in the same instant. *)
AccessLife(t) ==
    IF life[t] > RefreshTTL - AccessTTL THEN life[t] - (RefreshTTL - AccessTTL) ELSE 0

(* What a client may put into the Authorization header: the tokens of a    *)
(* pair, each naming its kind in a signed claim.                           *)
Bearers == [kind : {"access", "refresh"}, token : Issued]

Expired(b) == IF b.kind = "access" THEN AccessLife(b.token) = 0 ELSE life[b.token] = 0

(* Mutant: the signature and the expiry are enough. *)
ParseAccessAnyKind(b) == ~Expired(b)

ParseAccess(b) == ~Expired(b) /\ b.kind = "access"

-------------------------------------------------------------------------------
(* The clocks run from the step that ends a session or an account, and     *)
(* stop when no access token is left that is older.                        *)
Aging(clock) ==
    IF clock = Never \/ clock = AccessTTL \/ ~Tick THEN clock ELSE clock + 1

Clocks ==
    /\ sinceLogout' = [s \in Tokens |->
          IF s \in ended' \ ended THEN 0 ELSE Aging(sinceLogout[s])]
    /\ sinceDeletion' = [u \in Users |->
          IF acct'[u] = "gone" /\ acct[u] # "gone" THEN 0 ELSE Aging(sinceDeletion[u])]

AccessInit ==
    /\ Init
    /\ sinceLogout = [s \in Tokens |-> Never]
    /\ sinceDeletion = [u \in Users |-> Never]

AccessSpec     == AccessInit /\ [][Next /\ Clocks]_accessVars
FairAccessSpec == AccessSpec /\ Fairness

-------------------------------------------------------------------------------
(* Authenticate asks no revocation store, which "buys at most fifteen      *)
(* minutes of earlier cutoff": a bearer is admitted for less than          *)
(* AccessTTL after the logout of its session, and after the deletion of    *)
(* its account, also when a refresh had read the account before.           *)
CutoffIsBounded ==
    ~redisLost =>
        \A b \in Bearers : ParseAccess(b) =>
            /\ sinceLogout[root[b.token]] # AccessTTL
            /\ sinceDeletion[owner[b.token]] # AccessTTL
===============================================================================
