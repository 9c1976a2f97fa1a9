------------------------------ MODULE TeamShelves ------------------------------
(***************************************************************************)
(* What multi-tenancy promises: every team has a shelf of incidents of its *)
(* own, and what a team does depends on and changes nothing but its shelf. *)
(* Incidents.tla keeps all shelves in one table and is shown to implement  *)
(* this module.                                                            *)
(***************************************************************************)
CONSTANTS Teams, Ids, Bodies, None

VARIABLE shelf   \* shelf[t][i]: team t's incident i, or None

ShelfInit == shelf = [t \in Teams |-> [i \in Ids |-> None]]

Put(t, i, b) == shelf' = [shelf EXCEPT ![t][i] = b]

Taken(s, b) == b.ext # None /\ \E i \in Ids : s[i] # None /\ s[i].ext = b.ext

(* A new incident; no two on a shelf have one external id. *)
Add(t, i, b) ==
    /\ shelf[t][i] = None
    /\ ~Taken(shelf[t], b)
    /\ Put(t, i, b)

(* A change keeps what makes the incident the one it is. *)
Change(t, i, b) ==
    /\ shelf[t][i] # None
    /\ b.ext = shelf[t][i].ext /\ b.started = shelf[t][i].started
    /\ Put(t, i, b)

Remove(t, i) ==
    /\ shelf[t][i] # None
    /\ Put(t, i, None)

ShelfNext ==
    \E t \in Teams, i \in Ids :
        \/ \E b \in Bodies : Add(t, i, b) \/ Change(t, i, b)
        \/ Remove(t, i)

ShelfSpec == ShelfInit /\ [][ShelfNext]_shelf
===============================================================================
