------------------------------- MODULE Incidents -------------------------------
(***************************************************************************)
(* The incident repository of internal/repository/incident.go over the     *)
(* table incidents of migrations/0003_incidents.sql, shared by all teams.  *)
(* Every method is one SQL statement, hence one step; the interesting      *)
(* interleavings are those of teams with each other, and of writers with a *)
(* client that reads a listing page by page.                               *)
(*                                                                         *)
(* An incident's title, description, severity, source and metadata are     *)
(* payload, left out: severity and source filter a listing as the status   *)
(* does.                                                                   *)
(***************************************************************************)
EXTENDS Integers, FiniteSets

CONSTANTS
    Teams,
    Ids,           \* incident ids the database may generate
    ExtIds,        \* identifiers source systems give
    Statuses,
    StartTimes,    \* when incidents may start
    EndTimes,      \* when they may be resolved
    Filters,       \* sets of statuses clients ask for
    Limits,        \* limits clients ask for
    Offsets,       \* offsets clients ask for
    DefaultIncidentLimit,
    MaxIncidentLimit,
    None,          \* NULL, no row
    Keep           \* a field a patch leaves alone

ASSUME IncidentsAssumption ==
    /\ IsFiniteSet(Ids) /\ Ids \subseteq Nat
    /\ StartTimes \subseteq Nat /\ EndTimes \subseteq Nat
    /\ Filters \subseteq SUBSET Statuses
    /\ Limits \subseteq Int /\ Offsets \subseteq Int
    /\ DefaultIncidentLimit \in Nat \ {0}
    /\ MaxIncidentLimit \in Nat /\ DefaultIncidentLimit <= MaxIncidentLimit
    /\ None \notin ExtIds \cup EndTimes \cup Teams
    /\ Keep \notin Statuses \cup EndTimes \cup {None}

(* What the columns hold.  None is not a row. *)
Body == [ext : ExtIds \cup {None}, status : Statuses, started : StartTimes,
         resolved : EndTimes \cup {None}]
Row  == [team : Teams, body : Body]

Table == [Ids -> Row \cup {None}]

ASSUME NoRowAssumption == None \notin Row /\ None \notin Body

VARIABLES
    rows,   \* rows[i]: the row with id i, or None
    used,   \* ids generated so far: never generated again
    walk    \* a client paging through a listing

vars == <<rows, used, walk>>

-------------------------------------------------------------------------------
(* What each method answers, as an operator on the table it runs against.  *)

(* Mutant: the row is looked up by its id alone. *)
VisibleToAll(tab, t, i) == tab[i] # None

(* WHERE id = $1 AND team_id = $2 *)
Visible(tab, t, i) == tab[i] # None /\ tab[i].team = t

(* The row, if any: none is ErrNotFound. *)
GetByID(tab, t, i) == IF Visible(tab, t, i) THEN {tab[i]} ELSE {}

HasExt(tab, t, e) == {i \in Ids : tab[i] # None /\ tab[i].team = t /\ tab[i].body.ext = e}

FindByExternalID(tab, t, e) == {tab[i] : i \in HasExt(tab, t, e)}

(* The constraint incidents_resolved_after_start. *)
Allowed(b) == b.resolved # None => b.resolved >= b.started

(* Mutants: the index spans all teams; there is none. *)
DuplicateAnywhere(tab, t, b) ==
    b.ext # None /\ \E i \in Ids : tab[i] # None /\ tab[i].body.ext = b.ext
DuplicateNever(tab, t, b) == FALSE

(* The partial unique index incidents_team_external_id_key. *)
Duplicate(tab, t, b) == b.ext # None /\ HasExt(tab, t, b.ext) # {}

CreateAnswer(tab, t, b) ==
    IF ~Allowed(b) THEN "error" ELSE IF Duplicate(tab, t, b) THEN "conflict" ELSE "created"

Patch == [status : Statuses \cup {Keep}, resolved : EndTimes \cup {Keep}, clear : BOOLEAN]

(* SET: the fields the patch names; ClearResolvedAt wins over ResolvedAt. *)
Patched(b, p) ==
    [b EXCEPT !.status = IF p.status = Keep THEN @ ELSE p.status,
              !.resolved = IF p.clear THEN None
                           ELSE IF p.resolved = Keep THEN @ ELSE p.resolved]

UpdateAnswer(tab, t, i, p) ==
    IF ~Visible(tab, t, i) THEN "not_found"
    ELSE IF ~Allowed(Patched(tab[i].body, p)) THEN "error" ELSE "updated"

(* bounds *)
Limit(n) ==
    IF n <= 0 THEN DefaultIncidentLimit
    ELSE IF n > MaxIncidentLimit THEN MaxIncidentLimit ELSE n

Offset(n) == IF n < 0 THEN 0 ELSE n

(* WHERE team_id = $1 AND status = ANY(...); no statuses, no constraint. *)
Matching(tab, t, F) ==
    {i \in Ids : Visible(tab, t, i) /\ (F = {} \/ tab[i].body.status \in F)}

(* Mutant: ORDER BY started_at DESC alone; ties come in any order, and in  *)
(* another one the next time.                                              *)
OrdersUntied(tab, S) ==
    {r \in [S -> 0..Cardinality(S) - 1] :
        /\ \A i, j \in S : r[i] = r[j] => i = j
        /\ \A i, j \in S : tab[i].body.started > tab[j].body.started => r[i] < r[j]}

(* ORDER BY started_at DESC, id DESC: each row's place in the listing. *)
Before(tab, j, i) ==
    \/ tab[j].body.started > tab[i].body.started
    \/ tab[j].body.started = tab[i].body.started /\ j > i

Orders(tab, S) == {[i \in S |-> Cardinality({j \in S : Before(tab, j, i)})]}

(* The pages List may return.  The total is a window function, it comes    *)
(* with the rows of the page: a page without rows has no total.            *)
Pages(tab, t, F, limit, offset) ==
    LET S == Matching(tab, t, F)
        Page(r) == {i \in S : Offset(offset) <= r[i] /\ r[i] < Offset(offset) + Limit(limit)}
    IN {[incidents |-> Page(r), total |-> IF Page(r) = {} THEN 0 ELSE Cardinality(S)] :
           r \in Orders(tab, S)}

-------------------------------------------------------------------------------
(* The client that pages: first are the incidents that matched when it     *)
(* began; grown and shrunk say whether any has joined or left them since.  *)

Walk == [pc : {"idle", "paging", "done"}, team : Teams \cup {None}, filter : SUBSET Statuses,
         limit : Limits \cup {0}, first : SUBSET Ids, got : SUBSET Ids, offset : Nat,
         grown : BOOLEAN, shrunk : BOOLEAN, repeated : BOOLEAN]

NoWalk == [pc |-> "idle", team |-> None, filter |-> {}, limit |-> 0, first |-> {},
           got |-> {}, offset |-> 0, grown |-> FALSE, shrunk |-> FALSE, repeated |-> FALSE]

(* What a write does to the listing the client is in the middle of. *)
Watched(new) ==
    LET was == Matching(rows, walk.team, walk.filter)
        is  == Matching(new, walk.team, walk.filter)
    IN IF walk.pc # "paging" THEN walk
       ELSE [walk EXCEPT !.grown = @ \/ is \ was # {}, !.shrunk = @ \/ was \ is # {}]

Write(new) == rows' = new /\ walk' = Watched(new)

Init ==
    /\ rows = [i \in Ids |-> None]
    /\ used = {}
    /\ walk = NoWalk

Create(t, i, b) ==
    /\ i \notin used
    /\ CreateAnswer(rows, t, b) = "created"
    /\ Write([rows EXCEPT ![i] = [team |-> t, body |-> b]])
    /\ used' = used \cup {i}

Update(t, i, p) ==
    /\ UpdateAnswer(rows, t, i, p) = "updated"
    /\ Write([rows EXCEPT ![i].body = Patched(@, p)])
    /\ UNCHANGED used

Delete(t, i) ==
    /\ Visible(rows, t, i)
    /\ Write([rows EXCEPT ![i] = None])
    /\ UNCHANGED used

StartWalk(t, F, limit) ==
    /\ walk.pc = "idle"
    /\ walk' = [NoWalk EXCEPT !.pc = "paging", !.team = t, !.filter = F, !.limit = limit,
                              !.first = Matching(rows, t, F)]
    /\ UNCHANGED <<rows, used>>

(* One page; the client stops when it was given as many as there are, or   *)
(* none.                                                                   *)
NextPage ==
    /\ walk.pc = "paging"
    /\ \E page \in Pages(rows, walk.team, walk.filter, walk.limit, walk.offset) :
          LET next == walk.offset + Cardinality(page.incidents) IN
          walk' = [walk EXCEPT !.pc = IF next >= page.total THEN "done" ELSE @,
                               !.offset = next,
                               !.repeated = @ \/ walk.got \cap page.incidents # {},
                               !.got = @ \cup page.incidents]
    /\ UNCHANGED <<rows, used>>

Next ==
    \/ \E t \in Teams, i \in Ids :
          \/ \E b \in Body : Create(t, i, b)
          \/ \E p \in Patch : Update(t, i, p)
          \/ Delete(t, i)
    \/ \E t \in Teams, F \in Filters, n \in Limits : StartWalk(t, F, n)
    \/ NextPage

Spec == Init /\ [][Next]_vars

-------------------------------------------------------------------------------
(* Invariants. *)

TypeOK ==
    /\ rows \in Table
    /\ used \subseteq Ids
    /\ walk \in Walk

(* An id is used once, the rows satisfy their constraints, and a team has  *)
(* one incident per external id: a redelivered webhook finds it.           *)
TableSound ==
    /\ \A i \in Ids : rows[i] # None => i \in used /\ Allowed(rows[i].body)
    /\ \A i, j \in Ids :
          /\ rows[i] # None /\ rows[j] # None
          /\ rows[i].team = rows[j].team
          /\ rows[i].body.ext = rows[j].body.ext /\ rows[i].body.ext # None
          => i = j

IndInv == TypeOK /\ TableSound

-------------------------------------------------------------------------------
(* Safety. *)

(* The table as it would be if t were the only team. *)
Alone(tab, t) == [i \in Ids |-> IF Visible(tab, t, i) THEN tab[i] ELSE None]

(* "A missing incident and someone else's incident are indistinguishable": *)
(* no method's answer to a team depends on rows of another one.            *)
TeamsAreBlind ==
    \A t \in Teams :
        LET own == Alone(rows, t) IN
        /\ \A i \in Ids : GetByID(rows, t, i) = GetByID(own, t, i)
        /\ \A e \in ExtIds : FindByExternalID(rows, t, e) = FindByExternalID(own, t, e)
        /\ \A b \in Body : CreateAnswer(rows, t, b) = CreateAnswer(own, t, b)
        /\ \A i \in Ids, p \in Patch : UpdateAnswer(rows, t, i, p) = UpdateAnswer(own, t, i, p)
        /\ \A F \in Filters, n \in Limits, m \in Offsets :
              Pages(rows, t, F, n, m) = Pages(own, t, F, n, m)

(* A client that pages through a listing misses nothing that stayed in it, *)
(* however many incidents were created meanwhile: "id breaks ties so       *)
(* paging is stable".                                                      *)
WalkMissesNothing ==
    walk.pc = "done" /\ ~walk.shrunk => walk.first \subseteq walk.got

(* It is shown nothing twice unless something was added to the listing. *)
WalkRepeatsNothing == ~walk.grown => ~walk.repeated

(* Each team's part of the table. *)
Shelf == [t \in Teams |-> [i \in Ids |-> IF Visible(rows, t, i) THEN rows[i].body ELSE None]]

Shelves == INSTANCE TeamShelves WITH shelf <- Shelf, Bodies <- Body

(* Every team works as if it had a table of its own. *)
TeamsApart == Shelves!ShelfSpec
===============================================================================
