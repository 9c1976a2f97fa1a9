---------------------------- MODULE RefreshLedger ----------------------------
(***************************************************************************)
(* What rotating refresh tokens is for, with no handler, store or clock in *)
(* sight.  A token is unissued, then usable, then dead, and never goes     *)
(* back; a token that replaces another one is issued only once the token   *)
(* it replaces is dead.  That lasts as long as the store of revocations is *)
(* intact: once it is wiped the ledger promises nothing.                   *)
(***************************************************************************)
CONSTANTS Tokens, None

VARIABLES
    status,   \* status[t]: "unissued", "usable" or "dead"
    parent,   \* parent[t]: the token t replaced, None for a login's token
    intact    \* the store has not been wiped

ledgerVars == <<status, parent, intact>>

LedgerInit ==
    /\ intact = TRUE
    /\ status = [t \in Tokens |-> "unissued"]
    /\ parent = [t \in Tokens |-> None]

(* A login or a registration starts a session. *)
Grant(t) ==
    /\ status[t] = "unissued"
    /\ status' = [status EXCEPT ![t] = "usable"]
    /\ UNCHANGED parent

(* A refresh replaces p, which no longer works. *)
Renew(p, t) ==
    /\ status[p] = "dead"
    /\ status[t] = "unissued"
    /\ status' = [status EXCEPT ![t] = "usable"]
    /\ parent' = [parent EXCEPT ![t] = p]

(* Tokens stop working: one is revoked, or several expire together. *)
Retire(S) ==
    /\ S # {}
    /\ status' = [t \in Tokens |-> IF t \in S THEN "dead" ELSE status[t]]
    /\ UNCHANGED parent

Keeps ==
    \/ \E t \in Tokens : Grant(t)
    \/ \E p, t \in Tokens : Renew(p, t)
    \/ \E S \in SUBSET {t \in Tokens : status[t] = "usable"} : Retire(S)

(* Tokens and parents may do anything from here on. *)
Wiped == intact' = FALSE

LedgerNext == (intact /\ intact' /\ Keeps) \/ Wiped

LedgerSpec == LedgerInit /\ [][LedgerNext]_ledgerVars
==============================================================================
