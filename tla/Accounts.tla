------------------------------- MODULE Accounts -------------------------------
(***************************************************************************)
(* What registration promises: a team and its first user come into being   *)
(* together, and an email address has one account.                         *)
(***************************************************************************)
CONSTANTS Emails, Teams

VARIABLES
    teams,   \* teams that exist
    users    \* their users: records [email, team]

AccountsInit == teams = {} /\ users = {}

Open(e, t) ==
    /\ t \notin teams
    /\ \A u \in users : u.email # e
    /\ teams' = teams \cup {t}
    /\ users' = users \cup {[email |-> e, team |-> t]}

AccountsSpec ==
    AccountsInit /\ [][\E e \in Emails, t \in Teams : Open(e, t)]_<<teams, users>>
===============================================================================
