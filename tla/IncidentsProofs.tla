---------------------------- MODULE IncidentsProofs ----------------------------
(***************************************************************************)
(* Theorems about the shared table of incidents, for any number of teams   *)
(* and incidents.                                                          *)
(***************************************************************************)
EXTENDS Incidents, FiniteSetTheorems, TLAPS

USE IncidentsAssumption, NoRowAssumption

-------------------------------------------------------------------------------
(* What the operators return. *)

LEMMA MatchingType ==
    ASSUME NEW tab, NEW t, NEW F
    PROVE  Matching(tab, t, F) \subseteq Ids
BY DEF Matching

LEMMA PatchedType ==
    ASSUME NEW b \in Body, NEW p \in Patch
    PROVE  /\ Patched(b, p) \in Body
           /\ Patched(b, p).ext = b.ext
           /\ Patched(b, p).started = b.started
BY DEF Body, Patch, Patched

LEMMA WatchedType ==
    ASSUME walk \in Walk, NEW new
    PROVE  Watched(new) \in Walk
BY DEF Walk, Watched

LEMMA PageType ==
    ASSUME NEW tab, NEW t, NEW F, NEW n, NEW m, NEW page \in Pages(tab, t, F, n, m)
    PROVE  page.incidents \subseteq Ids /\ Cardinality(page.incidents) \in Nat
<1>1. page.incidents \subseteq Ids
  BY MatchingType DEF Pages
<1>2. IsFiniteSet(page.incidents)
  BY <1>1, FS_Subset
<1> QED  BY <1>1, <1>2, FS_CardinalityType

LEMMA PagedType ==
    ASSUME NEW w \in Walk, NEW pc \in {"idle", "paging", "done"}, NEW offset \in Nat,
           NEW again \in BOOLEAN, NEW got \in SUBSET Ids
    PROVE  [w EXCEPT !.pc = pc, !.offset = offset, !.repeated = again, !.got = got] \in Walk
BY DEF Walk

-------------------------------------------------------------------------------
(* The inductive invariant. *)

LEMMA InitInv == Init => IndInv
<1> SUFFICES ASSUME Init PROVE IndInv
  OBVIOUS
<1>1. walk \in Walk
  BY DEF Init, Walk, NoWalk
<1>2. rows \in Table /\ used \subseteq Ids
  BY DEF Init, Table
<1>3. TableSound
  BY DEF Init, TableSound
<1> QED  BY <1>1, <1>2, <1>3 DEF IndInv, TypeOK

LEMMA CreateInv ==
    ASSUME IndInv, NEW t \in Teams, NEW i \in Ids, NEW b \in Body, Create(t, i, b)
    PROVE  IndInv'
<1> DEFINE row == [team |-> t, body |-> b]
<1>1. row \in Row
  BY DEF Row
<1>2. /\ rows \in Table /\ rows' = [rows EXCEPT ![i] = row]
      /\ used' = used \cup {i} /\ used \subseteq Ids
  BY DEF IndInv, TypeOK, Create, Write
<1>3. TypeOK'
  <2>1. walk' = Watched([rows EXCEPT ![i] = row])
    BY DEF Create, Write
  <2>2. walk' \in Walk
    BY <2>1, WatchedType DEF IndInv, TypeOK
  <2>3. rows' \in Table
    BY <1>1, <1>2 DEF Table
  <2> QED  BY <2>2, <2>3, <1>2 DEF TypeOK
<1>4. Allowed(b) /\ ~Duplicate(rows, t, b)
  BY DEF Create, CreateAnswer
<1>5. \A j \in Ids : rows'[j] # None => j \in used' /\ Allowed(rows'[j].body)
  <2> SUFFICES ASSUME NEW j \in Ids, rows'[j] # None
               PROVE  j \in used' /\ Allowed(rows'[j].body)
    OBVIOUS
  <2>1. CASE j = i
    BY <2>1, <1>1, <1>2, <1>4 DEF Table
  <2>2. CASE j # i
    BY <2>2, <1>2 DEF Table, IndInv, TableSound
  <2> QED  BY <2>1, <2>2
<1>6. ASSUME NEW j \in Ids, NEW k \in Ids,
             rows'[j] # None, rows'[k] # None,
             rows'[j].team = rows'[k].team,
             rows'[j].body.ext = rows'[k].body.ext, rows'[j].body.ext # None
      PROVE  j = k
  <2>1. ASSUME NEW l \in Ids, l # i, rows[l] # None, rows[l].team = t
        PROVE  rows[l].body.ext # b.ext \/ b.ext = None
    BY <2>1, <1>4 DEF Duplicate, HasExt
  <2>2. CASE j = i /\ k # i
    BY <2>1, <2>2, <1>2, <1>6 DEF Table
  <2>3. CASE k = i /\ j # i
    BY <2>1, <2>3, <1>2, <1>6 DEF Table
  <2>4. CASE j # i /\ k # i
    BY <2>4, <1>2, <1>6 DEF Table, IndInv, TableSound
  <2> QED  BY <2>2, <2>3, <2>4
<1>7. TableSound'
  BY <1>5, <1>6 DEF TableSound
<1> QED  BY <1>3, <1>7 DEF IndInv

LEMMA UpdateInv ==
    ASSUME IndInv, NEW t \in Teams, NEW i \in Ids, NEW p \in Patch, Update(t, i, p)
    PROVE  IndInv'
<1> DEFINE b == Patched(rows[i].body, p)
           row == [team |-> rows[i].team, body |-> b]
<1>1. rows \in Table /\ rows[i] \in Row /\ Allowed(b)
  BY DEF IndInv, TypeOK, Table, Update, UpdateAnswer, Visible
<1>2. /\ b \in Body /\ b.ext = rows[i].body.ext
      /\ row \in Row
  BY <1>1, PatchedType DEF Row
<1>3. rows' = [rows EXCEPT ![i] = row] /\ used' = used
  <2>1. [rows[i] EXCEPT !.body = b] = row
    BY <1>1 DEF Row
  <2> QED  BY <2>1 DEF Update, Write
<1>4. TypeOK'
  <2>1. walk' = Watched([rows EXCEPT ![i].body = Patched(@, p)])
    BY DEF Update, Write
  <2>2. walk' \in Walk
    BY <2>1, WatchedType DEF IndInv, TypeOK
  <2>3. rows' \in Table
    BY <1>1, <1>2, <1>3 DEF Table
  <2> QED  BY <2>2, <2>3, <1>3 DEF IndInv, TypeOK
<1>5. \A j \in Ids : /\ rows'[j] = None <=> rows[j] = None
                     /\ rows'[j] # None => /\ rows'[j].team = rows[j].team
                                           /\ rows'[j].body.ext = rows[j].body.ext
                                           /\ j = i \/ rows'[j] = rows[j]
  BY <1>1, <1>2, <1>3 DEF Table
<1>6. rows'[i].body = b
  BY <1>1, <1>3 DEF Table
<1>7. TableSound'
  BY <1>1, <1>3, <1>5, <1>6 DEF IndInv, TableSound
<1> QED  BY <1>4, <1>7 DEF IndInv

LEMMA DeleteInv ==
    ASSUME IndInv, NEW t \in Teams, NEW i \in Ids, Delete(t, i)
    PROVE  IndInv'
<1>1. rows \in Table /\ rows' = [rows EXCEPT ![i] = None] /\ used' = used
  BY DEF IndInv, TypeOK, Delete, Write
<1>2. TypeOK'
  BY <1>1, WatchedType DEF IndInv, TypeOK, Table, Delete, Write
<1>3. \A j \in Ids : rows'[j] # None => rows'[j] = rows[j]
  BY <1>1 DEF Table
<1>4. TableSound'
  BY <1>1, <1>3 DEF IndInv, TableSound
<1> QED  BY <1>2, <1>4 DEF IndInv

LEMMA WalkInv ==
    ASSUME IndInv,
           NextPage \/ \E t \in Teams, F \in Filters, n \in Limits : StartWalk(t, F, n)
    PROVE  IndInv'
<1>1. CASE NextPage
  <2> PICK page \in Pages(rows, walk.team, walk.filter, walk.limit, walk.offset) :
        walk' = [walk EXCEPT !.pc = IF walk.offset + Cardinality(page.incidents) >= page.total
                                       THEN "done" ELSE @,
                             !.offset = walk.offset + Cardinality(page.incidents),
                             !.repeated = @ \/ walk.got \cap page.incidents # {},
                             !.got = @ \cup page.incidents]
    BY <1>1 DEF NextPage
  <2>1. page.incidents \subseteq Ids /\ Cardinality(page.incidents) \in Nat
    BY PageType
  <2>2. walk.pc \in {"idle", "paging", "done"} /\ walk.offset \in Nat
        /\ walk.repeated \in BOOLEAN /\ walk.got \subseteq Ids
    BY DEF IndInv, TypeOK, Walk
  <2> DEFINE pc     == IF walk.offset + Cardinality(page.incidents) >= page.total
                          THEN "done" ELSE walk.pc
             offset == walk.offset + Cardinality(page.incidents)
             again  == walk.repeated \/ walk.got \cap page.incidents # {}
             got    == walk.got \cup page.incidents
  <2>3. pc \in {"idle", "paging", "done"} /\ offset \in Nat /\ again \in BOOLEAN
        /\ got \subseteq Ids
    <3>1. offset \in Nat
      BY <2>1, <2>2
    <3>2. pc \in {"idle", "paging", "done"} /\ again \in BOOLEAN /\ got \subseteq Ids
      BY <2>1, <2>2, Zenon
    <3> QED  BY <3>1, <3>2
  <2>4. walk' = [walk EXCEPT !.pc = pc, !.offset = offset, !.repeated = again, !.got = got]
    OBVIOUS
  <2> HIDE DEF pc, offset, again, got
  <2>5. walk \in Walk
    BY DEF IndInv, TypeOK
  <2>6. [walk EXCEPT !.pc = pc, !.offset = offset, !.repeated = again, !.got = got] \in Walk
    BY <2>3, <2>5, PagedType
  <2>7. walk' \in Walk
    BY <2>4, <2>6
  <2> QED  BY <2>7, <1>1 DEF NextPage, IndInv, TypeOK, TableSound
<1>2. ASSUME NEW t \in Teams, NEW F \in Filters, NEW n \in Limits, StartWalk(t, F, n)
      PROVE  IndInv'
  <2>1. walk' \in Walk
    BY <1>2, MatchingType DEF StartWalk, NoWalk, Walk
  <2> QED  BY <2>1, <1>2 DEF StartWalk, IndInv, TypeOK, TableSound
<1> QED  BY <1>1, <1>2

LEMMA NextInv == IndInv /\ [Next]_vars => IndInv'
<1> SUFFICES ASSUME IndInv, [Next]_vars PROVE IndInv'
  OBVIOUS
<1>1. CASE UNCHANGED vars
  BY <1>1 DEF vars, IndInv, TypeOK, TableSound
<1> QED  BY <1>1, CreateInv, UpdateInv, DeleteInv, WalkInv DEF Next

(* Rows keep their constraints, and a team has one incident per external   *)
(* id, whatever its requests overlap with.                                 *)
THEOREM Invariance == Spec => []IndInv
BY InitInv, NextInv, PTL DEF Spec

-------------------------------------------------------------------------------
(* Answers. *)

LEMMA AloneSees ==
    ASSUME NEW t \in Teams, NEW i \in Ids
    PROVE  /\ Visible(Alone(rows, t), t, i) <=> Visible(rows, t, i)
           /\ Visible(rows, t, i) => Alone(rows, t)[i] = rows[i]
BY DEF Alone, Visible

LEMMA AloneHasExt ==
    ASSUME NEW t \in Teams, NEW e
    PROVE  HasExt(Alone(rows, t), t, e) = HasExt(rows, t, e)
BY AloneSees DEF HasExt, Visible

LEMMA AloneMatching ==
    ASSUME NEW t \in Teams, NEW F
    PROVE  Matching(Alone(rows, t), t, F) = Matching(rows, t, F)
BY AloneSees DEF Matching

LEMMA AloneOrders ==
    ASSUME NEW t \in Teams, NEW F
    PROVE  Orders(Alone(rows, t), Matching(rows, t, F)) = Orders(rows, Matching(rows, t, F))
<1> DEFINE own == Alone(rows, t)
           S   == Matching(rows, t, F)
<1>1. \A i \in S : own[i] = rows[i]
  BY AloneSees DEF Matching
<1> HIDE DEF own, S
<1>2. \A i, j \in S : Before(own, j, i) <=> Before(rows, j, i)
  BY <1>1 DEF Before
<1>3. \A i \in S : {j \in S : Before(own, j, i)} = {j \in S : Before(rows, j, i)}
  BY <1>2
<1>4. [i \in S |-> Cardinality({j \in S : Before(own, j, i)})]
        = [i \in S |-> Cardinality({j \in S : Before(rows, j, i)})]
  BY <1>3
<1>5. Orders(own, S) = Orders(rows, S)
  BY <1>4 DEF Orders
<1> QED  BY <1>5 DEF own, S

(* No method's answer to a team depends on rows of another one.            *)
THEOREM AnswersAreBlind == Spec => []TeamsAreBlind
<1>1. TeamsAreBlind
  <2> SUFFICES ASSUME NEW t \in Teams
               PROVE  LET own == Alone(rows, t) IN
        /\ \A i \in Ids : GetByID(rows, t, i) = GetByID(own, t, i)
        /\ \A e \in ExtIds : FindByExternalID(rows, t, e) = FindByExternalID(own, t, e)
        /\ \A b \in Body : CreateAnswer(rows, t, b) = CreateAnswer(own, t, b)
        /\ \A i \in Ids, p \in Patch : UpdateAnswer(rows, t, i, p) = UpdateAnswer(own, t, i, p)
        /\ \A F \in Filters, n \in Limits, m \in Offsets :
              Pages(rows, t, F, n, m) = Pages(own, t, F, n, m)
    BY DEF TeamsAreBlind
  <2> DEFINE own == Alone(rows, t)
  <2>1. ASSUME NEW i \in Ids
        PROVE  GetByID(rows, t, i) = GetByID(own, t, i)
    BY AloneSees DEF GetByID
  <2>2. ASSUME NEW e \in ExtIds
        PROVE  FindByExternalID(rows, t, e) = FindByExternalID(own, t, e)
    <3>1. \A i \in HasExt(rows, t, e) : own[i] = rows[i]
      BY AloneSees DEF HasExt, Visible
    <3> QED  BY <3>1, AloneHasExt DEF FindByExternalID
  <2>3. ASSUME NEW b \in Body
        PROVE  CreateAnswer(rows, t, b) = CreateAnswer(own, t, b)
    BY AloneHasExt DEF CreateAnswer, Duplicate
  <2>4. ASSUME NEW i \in Ids, NEW p \in Patch
        PROVE  UpdateAnswer(rows, t, i, p) = UpdateAnswer(own, t, i, p)
    BY AloneSees DEF UpdateAnswer
  <2>5. ASSUME NEW F \in Filters, NEW n \in Limits, NEW m \in Offsets
        PROVE  Pages(rows, t, F, n, m) = Pages(own, t, F, n, m)
    BY AloneMatching, AloneOrders DEF Pages
  <2> QED  BY <2>1, <2>2, <2>3, <2>4, <2>5
<1> QED  BY <1>1, PTL

-------------------------------------------------------------------------------
(* A listing has a place for each incident, and a page is what stands at   *)
(* the places it asks for.                                                 *)

Ahead(tab, S, i) == {j \in S : Before(tab, j, i)}
Rank(tab, S, i)  == Cardinality(Ahead(tab, S, i))

(* The incidents of S are rows of tab, with a start time. *)
Dated(tab, S) == S \subseteq Ids /\ \A i \in S : tab[i].body.started \in Nat

Placed(tab, S, from, to) == {i \in S : from <= Rank(tab, S, i) /\ Rank(tab, S, i) < to}

LEMMA FiniteIds ==
    ASSUME NEW S \in SUBSET Ids
    PROVE  IsFiniteSet(S) /\ Cardinality(S) \in Nat
BY FS_Subset, FS_CardinalityType

(* Newest first, and the larger id first among those that started together. *)
LEMMA BeforeIsStrictOrder ==
    ASSUME NEW tab, NEW S, Dated(tab, S), NEW i \in S, NEW j \in S, NEW k \in S
    PROVE  /\ ~Before(tab, i, i)
           /\ Before(tab, i, j) /\ Before(tab, j, k) => Before(tab, i, k)
           /\ i # j => Before(tab, i, j) \/ Before(tab, j, i)
<1>1. i \in Nat /\ j \in Nat /\ k \in Nat
  BY DEF Dated
<1> QED  BY <1>1 DEF Dated, Before

LEMMA RankType ==
    ASSUME NEW tab, NEW S, Dated(tab, S), NEW i \in S
    PROVE  /\ Ahead(tab, S, i) \in SUBSET S /\ IsFiniteSet(Ahead(tab, S, i))
           /\ Rank(tab, S, i) \in Nat /\ Rank(tab, S, i) < Cardinality(S)
<1>1. /\ Ahead(tab, S, i) \in SUBSET S
      /\ i \notin Ahead(tab, S, i)
  BY BeforeIsStrictOrder DEF Ahead
<1>2. IsFiniteSet(S) /\ Cardinality(S) \in Nat
  BY FiniteIds DEF Dated
<1>3. /\ IsFiniteSet(Ahead(tab, S, i))
      /\ Cardinality(Ahead(tab, S, i)) <= Cardinality(S)
      /\ Cardinality(S) = Cardinality(Ahead(tab, S, i)) => S = Ahead(tab, S, i)
  BY <1>1, <1>2, FS_Subset
<1>4. Cardinality(Ahead(tab, S, i)) \in Nat
  BY <1>3, FS_CardinalityType
<1> QED  BY <1>1, <1>2, <1>3, <1>4 DEF Rank

LEMMA RankMonotone ==
    ASSUME NEW tab, NEW S, Dated(tab, S), NEW i \in S, NEW j \in S, Before(tab, j, i)
    PROVE  Rank(tab, S, j) < Rank(tab, S, i)
<1> DEFINE A == Ahead(tab, S, i)
           B == Ahead(tab, S, j)
<1>1. B \in SUBSET A /\ j \in A /\ j \notin B
  BY BeforeIsStrictOrder DEF Ahead
<1>2. IsFiniteSet(A) /\ Cardinality(A) \in Nat /\ Cardinality(B) \in Nat
  BY RankType DEF Rank
<1> HIDE DEF A, B
<1>3. Cardinality(B) <= Cardinality(A) /\ (Cardinality(A) = Cardinality(B) => A = B)
  BY <1>1, <1>2, FS_Subset
<1>4. Cardinality(B) < Cardinality(A)
  BY <1>1, <1>2, <1>3
<1> QED  BY <1>4 DEF A, B, Rank

LEMMA RankInjective ==
    ASSUME NEW tab, NEW S, Dated(tab, S), NEW i \in S, NEW j \in S,
           Rank(tab, S, i) = Rank(tab, S, j)
    PROVE  i = j
<1>1. Rank(tab, S, i) \in Nat
  BY RankType
<1> QED  BY <1>1, BeforeIsStrictOrder, RankMonotone

(* No more incidents than places. *)
LEMMA PlacesBound ==
    ASSUME NEW tab, NEW S, Dated(tab, S), NEW from \in Nat, NEW to \in Nat, from <= to
    PROVE  Cardinality(Placed(tab, S, from, to)) <= to - from
<1> DEFINE P == Placed(tab, S, from, to)
           f == [i \in P |-> Rank(tab, S, i)]
           Q == from .. (to - 1)
<1>1. P \subseteq S
  BY DEF Placed
<1>2. f \in [P -> Q]
  <2> SUFFICES ASSUME NEW i \in P PROVE Rank(tab, S, i) \in Q
    OBVIOUS
  <2>1. Rank(tab, S, i) \in Nat /\ from <= Rank(tab, S, i) /\ Rank(tab, S, i) < to
    BY <1>1, RankType DEF Placed
  <2> QED  BY <2>1
<1>3. \A i, j \in P : f[i] = f[j] => i = j
  BY <1>1, RankInjective
<1>4. IsFiniteSet(P) /\ Cardinality(P) \in Nat
  BY <1>1, FiniteIds DEF Dated
<1>5. IsFiniteSet(Q) /\ Cardinality(Q) = to - from
  <2>1. IsFiniteSet(Q)
        /\ Cardinality(Q) = IF from > to - 1 THEN 0 ELSE (to - 1) - from + 1
    BY FS_Interval
  <2> QED  BY <2>1
<1> HIDE DEF P, f, Q
<1>6. ~(Cardinality(Q) < Cardinality(P))
  BY <1>2, <1>3, <1>4, <1>5, FS_PigeonHole
<1> QED  BY <1>4, <1>5, <1>6 DEF P

(* If some incident stands at a place from on, one stands at from. *)
LEMMA PlaceTaken ==
    ASSUME NEW tab, NEW S, Dated(tab, S), NEW from \in Nat,
           NEW k \in S, from <= Rank(tab, S, k)
    PROVE  \E i \in S : Rank(tab, S, i) = from
<1> DEFINE T == {r \in Nat : \E i \in S : r = Rank(tab, S, i) /\ from <= r}
<1>1. Rank(tab, S, k) \in T
  BY RankType
<1>2. \E r \in T : \A q \in T : <<q, r>> \notin OpToRel(<, Nat)
  <2>1. T \subseteq Nat /\ T # {}
    BY <1>1
  <2> HIDE DEF T
  <2> QED  BY <2>1, NatLessThanWellFounded, WFMin
<1>3. PICK r \in T : \A q \in T : ~(q < r)
  BY <1>2 DEF OpToRel
<1>4. PICK i \in S : r = Rank(tab, S, i) /\ from <= r
  OBVIOUS
<1> DEFINE A == Ahead(tab, S, i)
           P == Placed(tab, S, 0, from)
<1>5. A \in SUBSET P
  <2> SUFFICES ASSUME NEW j \in A PROVE j \in P
    OBVIOUS
  <2>1. j \in S /\ Before(tab, j, i)
    BY DEF Ahead
  <2>2. Rank(tab, S, j) < r /\ Rank(tab, S, j) \in Nat
    BY <2>1, <1>4, RankMonotone, RankType
  <2>3. Rank(tab, S, j) \notin T
    BY <2>2, <1>3
  <2>4. ~(from <= Rank(tab, S, j))
    BY <2>1, <2>2, <2>3
  <2> QED  BY <2>1, <2>2, <2>4 DEF Placed
<1>6. IsFiniteSet(P) /\ Cardinality(P) \in Nat
  BY FiniteIds DEF Placed, Dated
<1>7. Cardinality(P) <= from
  <2>1. Cardinality(P) <= from - 0
    BY PlacesBound
  <2> QED  BY <2>1
<1>8. Cardinality(A) <= Cardinality(P) /\ r = Cardinality(A) /\ r \in Nat
  BY <1>4, <1>5, <1>6, FS_Subset DEF Rank
<1> QED  BY <1>4, <1>6, <1>7, <1>8

(* The places of a page are taken from the first on: an incident on it is  *)
(* no further behind the ones before the page than the page is long.       *)
LEMMA PlacesContiguous ==
    ASSUME NEW tab, NEW S, Dated(tab, S), NEW from \in Nat, NEW to \in Nat,
           NEW i \in Placed(tab, S, from, to)
    PROVE  Rank(tab, S, i) < from + Cardinality(Placed(tab, S, from, to))
<1> DEFINE A == Ahead(tab, S, i)
           P == Placed(tab, S, 0, from)
           Q == Placed(tab, S, from, to)
           B == A \cup {i}
<1>1. i \in S /\ Rank(tab, S, i) \in Nat /\ from <= Rank(tab, S, i) /\ Rank(tab, S, i) < to
  BY RankType DEF Placed
<1>2. B \in SUBSET (P \cup Q)
  <2>1. ASSUME NEW j \in A PROVE j \in P \cup Q
    <3>1. j \in S /\ Before(tab, j, i)
      BY DEF Ahead
    <3>2. Rank(tab, S, j) < Rank(tab, S, i) /\ Rank(tab, S, j) \in Nat
      BY <3>1, <1>1, RankMonotone, RankType
    <3> QED  BY <3>1, <3>2, <1>1 DEF Placed
  <2> QED  BY <2>1
<1>3. IsFiniteSet(A) /\ i \notin A /\ Cardinality(A) = Rank(tab, S, i)
  BY <1>1, RankType, BeforeIsStrictOrder DEF Rank, Ahead
<1>4. /\ IsFiniteSet(P) /\ Cardinality(P) \in Nat
      /\ IsFiniteSet(Q) /\ Cardinality(Q) \in Nat
  BY FiniteIds DEF Placed, Dated
<1>5. Cardinality(P) <= from
  <2>1. Cardinality(P) <= from - 0
    BY PlacesBound
  <2> QED  BY <2>1
<1> HIDE DEF A, P, Q
<1>6. Cardinality(B) = Rank(tab, S, i) + 1
  BY <1>3, FS_AddElement
<1>7. /\ IsFiniteSet(P \cup Q)
      /\ Cardinality(P \cup Q) <= Cardinality(P) + Cardinality(Q)
  <2>1. /\ IsFiniteSet(P \cup Q)
        /\ Cardinality(P \cup Q) = Cardinality(P) + Cardinality(Q) - Cardinality(P \cap Q)
    BY <1>4, FS_Union
  <2>2. Cardinality(P \cap Q) \in Nat
    BY <1>4, FS_Subset, FS_CardinalityType
  <2>3. Cardinality(P \cup Q) \in Nat
    BY <2>1, FS_CardinalityType
  <2> QED  BY <2>1, <2>2, <2>3, <1>4
<1>8. Cardinality(B) <= Cardinality(P \cup Q) /\ Cardinality(P \cup Q) \in Nat
  <2> HIDE DEF B
  <2> QED  BY <1>2, <1>7, FS_Subset, FS_CardinalityType
<1>9. Rank(tab, S, i) + 1 <= from + Cardinality(Q)
  BY <1>1, <1>4, <1>5, <1>6, <1>7, <1>8
<1> QED  BY <1>1, <1>4, <1>9 DEF Q

(* Places only go back when incidents join a listing. *)
LEMMA RanksGrow ==
    ASSUME NEW tab, NEW S, Dated(tab, S), NEW new, NEW T, Dated(new, T),
           S \subseteq T, \A i \in S : new[i].body.started = tab[i].body.started,
           NEW i \in S
    PROVE  Rank(tab, S, i) <= Rank(new, T, i)
<1>1. Ahead(tab, S, i) \in SUBSET Ahead(new, T, i)
  BY DEF Ahead, Before
<1>2. IsFiniteSet(Ahead(new, T, i))
  BY RankType
<1> QED  BY <1>1, <1>2, FS_Subset DEF Rank

-------------------------------------------------------------------------------
(* Paging. *)

Listing == Matching(rows, walk.team, walk.filter)

(* While nothing leaves the listing, what was in it from the beginning is  *)
(* still there, and the client has what stands before its offset.          *)
MissInv ==
    ~walk.shrunk =>
      /\ walk.pc = "paging" =>
            /\ walk.first \subseteq Listing
            /\ \A i \in walk.first : Rank(rows, Listing, i) < walk.offset => i \in walk.got
      /\ walk.pc = "done" => walk.first \subseteq walk.got

(* While nothing joins it, what the client has stands before its offset.   *)
RepeatInv ==
    ~walk.grown =>
      /\ ~walk.repeated
      /\ walk.pc = "paging" =>
            \A i \in Listing \cap walk.got : Rank(rows, Listing, i) < walk.offset

LEMMA MatchingDated ==
    ASSUME NEW tab \in Table, NEW t, NEW F
    PROVE  Dated(tab, Matching(tab, t, F))
BY DEF Table, Dated, Matching, Visible, Row, Body

(* What List answers the client: the incidents at the places it asks for.  *)
LEMMA PageIsPlaced ==
    ASSUME NEW tab \in Table, NEW t, NEW F, NEW n \in Int, NEW m \in Nat,
           NEW page \in Pages(tab, t, F, n, m)
    PROVE  /\ Limit(n) \in Nat \ {0}
           /\ page.incidents = Placed(tab, Matching(tab, t, F), m, m + Limit(n))
           /\ page.total = IF page.incidents = {} THEN 0 ELSE Cardinality(Matching(tab, t, F))
<1> DEFINE S == Matching(tab, t, F)
<1>1. Limit(n) \in Nat \ {0} /\ Offset(m) = m
  BY DEF Limit, Offset
<1>2. PICK r \in Orders(tab, S) :
        page = [incidents |-> {i \in S : Offset(m) <= r[i] /\ r[i] < Offset(m) + Limit(n)},
                total |-> IF {i \in S : Offset(m) <= r[i] /\ r[i] < Offset(m) + Limit(n)} = {}
                             THEN 0 ELSE Cardinality(S)]
  BY DEF Pages
<1> DEFINE P == {i \in S : m <= r[i] /\ r[i] < m + Limit(n)}
<1>3. \A i \in S : r[i] = Rank(tab, S, i)
  BY DEF Orders, Rank, Ahead
<1>4. page = [incidents |-> P, total |-> IF P = {} THEN 0 ELSE Cardinality(S)]
  BY <1>1, <1>2
<1>5. P = Placed(tab, S, m, m + Limit(n))
  BY <1>3 DEF Placed
<1> QED  BY <1>1, <1>4, <1>5

(* What a write does to the rows of a listing: it keeps their start times. *)
KeepsStarts(new) ==
    \A i \in Ids : rows[i] # None /\ new[i] # None
                      => new[i].body.started = rows[i].body.started

(* A write leaves the walk as it was but for what it notes. *)
LEMMA WatchedKeeps ==
    ASSUME walk \in Walk, NEW new
    PROVE  LET is == Matching(new, walk.team, walk.filter)
               w == Watched(new) IN
           /\ w.pc = walk.pc /\ w.team = walk.team /\ w.filter = walk.filter
           /\ w.first = walk.first /\ w.got = walk.got /\ w.offset = walk.offset
           /\ w.repeated = walk.repeated
           /\ walk.pc = "paging" => (w.grown <=> walk.grown \/ is \ Listing # {})
           /\ walk.pc = "paging" => (w.shrunk <=> walk.shrunk \/ Listing \ is # {})
           /\ walk.pc # "paging" => w = walk
BY DEF Walk, Watched, Listing

LEMMA WriteKeepsPaging ==
    ASSUME IndInv, IndInv', MissInv, RepeatInv, NEW new, Write(new), KeepsStarts(new)
    PROVE  MissInv' /\ RepeatInv'
<1> DEFINE S == Listing
           T == Listing'
<1>1. CASE walk.pc # "paging"
  BY <1>1, WatchedKeeps DEF IndInv, TypeOK, Write, MissInv, RepeatInv
<1>2. CASE walk.pc = "paging"
  <2>1. /\ walk'.pc = "paging" /\ walk'.first = walk.first /\ walk'.got = walk.got
        /\ walk'.offset = walk.offset /\ walk'.repeated = walk.repeated
        /\ T = Matching(rows', walk.team, walk.filter)
        /\ walk'.grown <=> walk.grown \/ T \ S # {}
        /\ walk'.shrunk <=> walk.shrunk \/ S \ T # {}
    <3>1. rows' = new /\ walk' = Watched(new)
      BY DEF Write
    <3>2. T = Matching(new, walk'.team, walk'.filter)
      BY <3>1 DEF Listing
    <3> QED  BY <3>1, <3>2, <1>2, WatchedKeeps DEF IndInv, TypeOK
  <2>2. Dated(rows, S) /\ Dated(rows', T)
    BY MatchingDated DEF Listing, IndInv, TypeOK
  <2>3. \A i \in S \cap T : rows'[i].body.started = rows[i].body.started
    BY DEF Listing, Matching, Visible, Write, KeepsStarts
  <2>4. walk.offset \in Nat
    BY DEF IndInv, TypeOK, Walk
  <2>5. MissInv'
    <3> SUFFICES ASSUME ~walk'.shrunk
                 PROVE  /\ walk.first \subseteq T
                        /\ \A i \in walk.first :
                              Rank(rows', T, i) < walk.offset => i \in walk.got
      BY <2>1 DEF MissInv
    <3>1. ~walk.shrunk /\ S \subseteq T
      BY <2>1
    <3>2. walk.first \subseteq S
      BY <3>1, <1>2 DEF MissInv
    <3>3. ASSUME NEW i \in walk.first, Rank(rows', T, i) < walk.offset
          PROVE  i \in walk.got
      <4>1. i \in S /\ i \in T
        BY <3>1, <3>2
      <4> HIDE DEF S, T
      <4>2. Rank(rows, S, i) <= Rank(rows', T, i)
        BY <4>1, <3>1, <2>2, <2>3, RanksGrow
      <4>3. Rank(rows, S, i) \in Nat /\ Rank(rows', T, i) \in Nat /\ walk.offset \in Nat
        BY <4>1, <2>2, <2>4, RankType
      <4>4. Rank(rows, S, i) < walk.offset
        BY <3>3, <4>2, <4>3
      <4> QED  BY <4>4, <3>1, <1>2 DEF S, MissInv
    <3> QED  BY <3>1, <3>2, <3>3
  <2>6. RepeatInv'
    <3> SUFFICES ASSUME ~walk'.grown
                 PROVE  /\ ~walk.repeated
                        /\ \A i \in T \cap walk.got : Rank(rows', T, i) < walk.offset
      BY <2>1 DEF RepeatInv
    <3>1. ~walk.grown /\ T \subseteq S
      BY <2>1
    <3>2. ASSUME NEW i \in T \cap walk.got
          PROVE  Rank(rows', T, i) < walk.offset
      <4>1. i \in T /\ i \in S /\ i \in walk.got
        BY <3>1
      <4>2. Rank(rows, S, i) < walk.offset
        BY <4>1, <3>1, <1>2 DEF RepeatInv
      <4> HIDE DEF S, T
      <4>3. Rank(rows', T, i) <= Rank(rows, S, i)
        <5>1. \A j \in T : rows[j].body.started = rows'[j].body.started
          BY <3>1, <2>3
        <5> QED  BY <5>1, <4>1, <3>1, <2>2, RanksGrow
      <4>4. Rank(rows, S, i) \in Nat /\ Rank(rows', T, i) \in Nat /\ walk.offset \in Nat
        BY <4>1, <2>2, <2>4, RankType
      <4> QED  BY <4>2, <4>3, <4>4
    <3> QED  BY <3>1, <3>2, <1>2 DEF RepeatInv
  <2> QED  BY <2>5, <2>6
<1> QED  BY <1>1, <1>2

LEMMA WritesKeepStarts ==
    ASSUME IndInv, NEW t \in Teams, NEW i \in Ids,
           \/ \E b \in Body : Create(t, i, b)
           \/ \E p \in Patch : Update(t, i, p)
           \/ Delete(t, i)
    PROVE  \E new : Write(new) /\ KeepsStarts(new)
<1> USE DEF IndInv, TypeOK
<1>1. ASSUME NEW b \in Body, Create(t, i, b)
      PROVE  KeepsStarts(rows') /\ Write(rows')
  <2>1. rows[i] = None
    BY <1>1 DEF Create, TableSound
  <2>2. \A j \in Ids : j # i => rows'[j] = rows[j]
    BY <1>1 DEF Create, Write, Table
  <2> QED  BY <1>1, <2>1, <2>2 DEF Create, Write, KeepsStarts
<1>2. ASSUME NEW p \in Patch, Update(t, i, p)
      PROVE  KeepsStarts(rows') /\ Write(rows')
  <2>1. rows[i] \in Row
    BY <1>2 DEF Update, UpdateAnswer, Visible, Table
  <2>2. Patched(rows[i].body, p).started = rows[i].body.started
    BY <2>1, PatchedType DEF Row
  <2>3. rows' = [rows EXCEPT ![i].body = Patched(@, p)] /\ Write(rows')
    BY <1>2 DEF Update, Write
  <2>4. rows'[i].body = Patched(rows[i].body, p)
    BY <2>1, <2>3 DEF Table, Row
  <2>5. \A j \in Ids : j # i => rows'[j] = rows[j]
    BY <2>3 DEF Table
  <2> QED  BY <2>2, <2>3, <2>4, <2>5 DEF KeepsStarts
<1>3. ASSUME Delete(t, i)
      PROVE  KeepsStarts(rows') /\ Write(rows')
  <2>1. rows' = [rows EXCEPT ![i] = None] /\ Write(rows')
    BY <1>3 DEF Delete, Write
  <2> QED  BY <2>1 DEF Table, KeepsStarts
<1> QED  BY <1>1, <1>2, <1>3

LEMMA StartKeepsPaging ==
    ASSUME NEW t \in Teams, NEW F \in Filters, NEW n \in Limits, StartWalk(t, F, n), IndInv
    PROVE  MissInv' /\ RepeatInv'
<1>1. /\ walk'.pc = "paging" /\ walk'.first = Matching(rows, t, F) /\ walk'.got = {}
      /\ walk'.offset = 0 /\ walk'.repeated = FALSE
      /\ walk'.team = t /\ walk'.filter = F /\ rows' = rows
  BY DEF StartWalk, NoWalk
<1>2. Listing' = walk'.first
  BY <1>1 DEF Listing
<1>3. Dated(rows, walk'.first)
  BY <1>1, MatchingDated DEF IndInv, TypeOK
<1>4. \A i \in walk'.first : ~(Rank(rows, walk'.first, i) < 0)
  BY <1>3, RankType
<1> QED  BY <1>1, <1>2, <1>4 DEF MissInv, RepeatInv

LEMMA PageKeepsPaging ==
    ASSUME IndInv, MissInv, RepeatInv, NextPage
    PROVE  MissInv' /\ RepeatInv'
<1> PICK page \in Pages(rows, walk.team, walk.filter, walk.limit, walk.offset) :
      walk' = [walk EXCEPT !.pc = IF walk.offset + Cardinality(page.incidents) >= page.total
                                     THEN "done" ELSE @,
                           !.offset = walk.offset + Cardinality(page.incidents),
                           !.repeated = @ \/ walk.got \cap page.incidents # {},
                           !.got = @ \cup page.incidents]
  BY DEF NextPage
<1> DEFINE S    == Listing
           P    == page.incidents
           next == walk.offset + Cardinality(P)
           to   == walk.offset + Limit(walk.limit)
<1>1. /\ walk.pc = "paging" /\ rows' = rows /\ walk.offset \in Nat
      /\ walk.limit \in Int /\ walk \in Walk
  BY DEF NextPage, IndInv, TypeOK, Walk
<1>2. /\ walk'.pc = IF next >= page.total THEN "done" ELSE "paging"
      /\ walk'.offset = next /\ walk'.got = walk.got \cup P
      /\ walk'.repeated <=> walk.repeated \/ walk.got \cap P # {}
      /\ walk'.first = walk.first /\ walk'.team = walk.team /\ walk'.filter = walk.filter
      /\ walk'.grown = walk.grown /\ walk'.shrunk = walk.shrunk
  BY <1>1 DEF Walk
<1>3. S' = S
  BY <1>1, <1>2 DEF Listing
<1>4. Dated(rows, S)
  BY MatchingDated DEF Listing, IndInv, TypeOK
<1>5. /\ Limit(walk.limit) \in Nat \ {0}
      /\ P = Placed(rows, S, walk.offset, to)
      /\ page.total = IF P = {} THEN 0 ELSE Cardinality(S)
  <2>1. rows \in Table
    BY DEF IndInv, TypeOK
  <2>2. /\ Limit(walk.limit) \in Nat \ {0}
        /\ page.incidents = Placed(rows, Matching(rows, walk.team, walk.filter),
                                  walk.offset, walk.offset + Limit(walk.limit))
        /\ page.total = IF page.incidents = {} THEN 0
                        ELSE Cardinality(Matching(rows, walk.team, walk.filter))
    <3> DEFINE n == walk.limit
               m == walk.offset
               t == walk.team
               F == walk.filter
    <3>1. n \in Int /\ m \in Nat /\ page \in Pages(rows, t, F, n, m)
      BY <1>1
    <3> HIDE DEF n, m, t, F
    <3>2. /\ Limit(n) \in Nat \ {0}
          /\ page.incidents = Placed(rows, Matching(rows, t, F), m, m + Limit(n))
          /\ page.total = IF page.incidents = {} THEN 0 ELSE Cardinality(Matching(rows, t, F))
      BY <2>1, <3>1, PageIsPlaced
    <3> QED  BY <3>2 DEF n, m, t, F
  <2> QED  BY <2>2 DEF Listing
<1>6. to \in Nat /\ walk.offset <= to /\ P \subseteq S /\ Cardinality(P) \in Nat
      /\ Cardinality(P) <= to - walk.offset
  <2>1. to \in Nat /\ walk.offset <= to
    BY <1>1, <1>5
  <2>2. P \subseteq S
    BY <1>5 DEF Placed
  <2>3. Cardinality(P) \in Nat
    BY <2>2, <1>4, FiniteIds DEF Dated
  <2> HIDE DEF P, S, to
  <2>4. Cardinality(P) <= to - walk.offset
    BY <2>1, <1>1, <1>4, <1>5, PlacesBound
  <2> QED  BY <2>1, <2>2, <2>3, <2>4
<1>7. next \in Nat /\ walk.offset <= next /\ next <= to
  BY <1>1, <1>6
<1> HIDE DEF S, P, to, next
<1>8. \A i \in S : Rank(rows, S, i) \in Nat /\ Rank(rows, S, i) < Cardinality(S)
  BY <1>4, RankType
<1>9. MissInv'
  <2> SUFFICES ASSUME ~walk.shrunk
               PROVE  /\ walk'.pc = "paging" =>
                           /\ walk.first \subseteq S
                           /\ \A i \in walk.first : Rank(rows, S, i) < next => i \in walk'.got
                      /\ walk'.pc = "done" => walk.first \subseteq walk'.got
    BY <1>1, <1>2, <1>3 DEF MissInv, S
  <2>1. /\ walk.first \subseteq S
        /\ \A i \in walk.first : Rank(rows, S, i) < walk.offset => i \in walk.got
    BY <1>1 DEF MissInv, S
  <2>2. ASSUME NEW i \in walk.first, Rank(rows, S, i) < next
        PROVE  i \in walk'.got
    <3>1. i \in S /\ Rank(rows, S, i) \in Nat
      BY <2>1, <1>8
    <3>2. CASE Rank(rows, S, i) < walk.offset
      BY <3>2, <2>1, <1>2
    <3>3. CASE ~(Rank(rows, S, i) < walk.offset)
      <4>1. walk.offset <= Rank(rows, S, i) /\ Rank(rows, S, i) < to
        BY <3>1, <3>3, <2>2, <1>1, <1>6, <1>7
      <4> QED  BY <4>1, <3>1, <1>2, <1>5 DEF Placed
    <3> QED  BY <3>2, <3>3
  <2>3. ASSUME walk'.pc = "done", NEW i \in walk.first
        PROVE  i \in walk'.got
    <3>1. i \in S /\ Rank(rows, S, i) \in Nat /\ Rank(rows, S, i) < Cardinality(S)
      BY <2>1, <1>8
    <3>2. next >= page.total
      BY <2>3, <1>2
    <3>3. CASE P # {}
      <4>1. Rank(rows, S, i) < next
        <5>1. Cardinality(S) \in Nat
          BY <1>4, FiniteIds DEF Dated
        <5> QED  BY <5>1, <3>1, <3>2, <3>3, <1>5, <1>7
      <4> QED  BY <4>1, <2>2
    <3>4. CASE P = {}
      <4>1. ~(walk.offset <= Rank(rows, S, i))
        <5>1. SUFFICES ASSUME walk.offset <= Rank(rows, S, i) PROVE FALSE
          OBVIOUS
        <5>2. PICK j \in S : Rank(rows, S, j) = walk.offset
          BY <5>1, <3>1, <1>1, <1>4, PlaceTaken
        <5>3. walk.offset <= Rank(rows, S, j) /\ Rank(rows, S, j) < to
          BY <5>2, <1>1, <1>5 DEF to
        <5> QED  BY <5>3, <3>4, <1>5 DEF Placed
      <4> QED  BY <4>1, <3>1, <1>1, <2>1, <1>2
    <3> QED  BY <3>3, <3>4
  <2> QED  BY <2>1, <2>2, <2>3
<1>10. RepeatInv'
  <2> SUFFICES ASSUME ~walk.grown
               PROVE  /\ ~walk'.repeated
                      /\ \A i \in S \cap walk'.got : Rank(rows, S, i) < next
    BY <1>1, <1>2, <1>3 DEF RepeatInv, S
  <2>1. /\ ~walk.repeated
        /\ \A i \in S \cap walk.got : Rank(rows, S, i) < walk.offset
    BY <1>1 DEF RepeatInv, S
  <2>2. walk.got \cap P = {}
    <3> SUFFICES ASSUME NEW i \in P, i \in walk.got PROVE FALSE
      OBVIOUS
    <3>1. i \in S /\ walk.offset <= Rank(rows, S, i)
      BY <1>5 DEF Placed
    <3>2. Rank(rows, S, i) < walk.offset
      BY <3>1, <2>1
    <3> QED  BY <3>1, <3>2, <1>1, <1>8
  <2>3. ASSUME NEW i \in S \cap walk'.got
        PROVE  Rank(rows, S, i) < next
    <3>1. i \in S /\ Rank(rows, S, i) \in Nat
      BY <1>8
    <3>2. CASE i \in walk.got
      BY <3>1, <3>2, <2>1, <1>1, <1>7
    <3>3. CASE i \in P
      <4>1. Rank(rows, S, i) < walk.offset + Cardinality(P)
        BY <3>3, <1>1, <1>4, <1>5, <1>6, PlacesContiguous
      <4> QED  BY <4>1 DEF next
    <3> QED  BY <3>2, <3>3, <1>2
  <2> QED  BY <2>1, <2>2, <2>3, <1>2
<1> QED  BY <1>9, <1>10

LEMMA PagingInit == Init => MissInv /\ RepeatInv
BY DEF Init, NoWalk, MissInv, RepeatInv

LEMMA PagingNext ==
    ASSUME IndInv, IndInv', MissInv, RepeatInv, [Next]_vars
    PROVE  MissInv' /\ RepeatInv'
<1>1. CASE UNCHANGED vars
  BY <1>1 DEF vars, MissInv, RepeatInv, Listing
<1>2. ASSUME NEW t \in Teams, NEW i \in Ids,
             \/ \E b \in Body : Create(t, i, b)
             \/ \E p \in Patch : Update(t, i, p)
             \/ Delete(t, i)
      PROVE  MissInv' /\ RepeatInv'
  BY <1>2, WritesKeepStarts, WriteKeepsPaging
<1> QED  BY <1>1, <1>2, StartKeepsPaging, PageKeepsPaging DEF Next

(* A client that pages through a listing, at offsets the length of what it *)
(* was given, misses nothing that stayed in the listing, however many      *)
(* incidents were created, changed or deleted meanwhile.                   *)
THEOREM PagingMissesNothing == Spec => []WalkMissesNothing
<1>1. MissInv => WalkMissesNothing
  BY DEF MissInv, WalkMissesNothing
<1> QED  BY <1>1, PagingInit, PagingNext, Invariance, PTL DEF Spec

(* It is shown nothing twice unless something joined the listing.          *)
THEOREM PagingRepeatsNothing == Spec => []WalkRepeatsNothing
<1>1. RepeatInv => WalkRepeatsNothing
  BY DEF RepeatInv, WalkRepeatsNothing
<1> QED  BY <1>1, PagingInit, PagingNext, Invariance, PTL DEF Spec

-------------------------------------------------------------------------------
(* Refinement. *)

(* A write to an id that is t's or nobody's changes t's shelf there and no *)
(* other shelf.                                                            *)
LEMMA ShelfWrite ==
    ASSUME rows \in Table, NEW t \in Teams, NEW i \in Ids, NEW new \in Row \cup {None},
           rows' = [rows EXCEPT ![i] = new],
           rows[i] = None \/ rows[i].team = t,
           new = None \/ new.team = t
    PROVE  Shelves!Put(t, i, IF new = None THEN None ELSE new.body)
<1> DEFINE b == IF new = None THEN None ELSE new.body
<1>1. \A u \in Teams, j \in Ids :
         (IF rows'[j] # None /\ rows'[j].team = u THEN rows'[j].body ELSE None)
           = IF u = t /\ j = i THEN b ELSE Shelf[u][j]
  BY DEF Shelf, Visible, Table
<1> HIDE DEF b
<1>2. Shelf' = [u \in Teams |-> [j \in Ids |-> IF u = t /\ j = i THEN b ELSE Shelf[u][j]]]
  BY <1>1 DEF Shelf, Visible
<1>3. /\ Shelf = [u \in Teams |-> Shelf[u]]
      /\ \A u \in Teams : Shelf[u] = [j \in Ids |-> Shelf[u][j]]
  BY DEF Shelf
<1> DEFINE s == Shelf
           s1 == Shelf'
<1> HIDE DEF s, s1
<1>4. s1 = [u \in Teams |-> [j \in Ids |-> IF u = t /\ j = i THEN b ELSE s[u][j]]]
  BY <1>2 DEF s, s1
<1>5. /\ s = [u \in Teams |-> s[u]]
      /\ \A u \in Teams : s[u] = [j \in Ids |-> s[u][j]]
  BY <1>3 DEF s
<1>6. \A u \in Teams : s1[u] = IF u = t THEN [s[t] EXCEPT ![i] = b] ELSE s[u]
  BY <1>4, <1>5
<1>7. s1 = [s EXCEPT ![t] = [s[t] EXCEPT ![i] = b]]
  BY <1>4, <1>5, <1>6
<1> QED  BY <1>7 DEF b, s, s1, Shelves!Put

LEMMA ShelvesInit == Init => Shelves!ShelfInit
BY DEF Init, Shelf, Visible, Shelves!ShelfInit

LEMMA ShelvesNext ==
    ASSUME IndInv, [Next]_vars
    PROVE  [Shelves!ShelfNext]_Shelf
<1> USE DEF IndInv, TypeOK
<1>1. ASSUME NEW t \in Teams, NEW i \in Ids, NEW b \in Body, Create(t, i, b)
      PROVE  Shelves!Add(t, i, b)
  <2> DEFINE row == [team |-> t, body |-> b]
  <2>1. row \in Row /\ rows' = [rows EXCEPT ![i] = row]
    BY <1>1 DEF Create, Write, Row
  <2>2. rows[i] = None
    BY <1>1 DEF Create, TableSound
  <2> HIDE DEF row
  <2>3. Shelves!Put(t, i, b)
    <3>1. row # None /\ row.team = t /\ row.body = b
      BY <2>1, NoRowAssumption DEF row
    <3> QED  BY <3>1, <2>1, <2>2, ShelfWrite
  <2>4. Shelf[t][i] = None
    BY <2>2 DEF Shelf, Visible
  <2>5. ~Shelves!Taken(Shelf[t], b)
    BY <1>1 DEF Create, CreateAnswer, Duplicate, HasExt, Shelf, Visible, Shelves!Taken
  <2> QED  BY <2>3, <2>4, <2>5 DEF Shelves!Add
<1>2. ASSUME NEW t \in Teams, NEW i \in Ids, NEW p \in Patch, Update(t, i, p)
      PROVE  \E b \in Body : Shelves!Change(t, i, b)
  <2> DEFINE b   == Patched(rows[i].body, p)
             row == [team |-> rows[i].team, body |-> b]
  <2>1. Visible(rows, t, i) /\ rows[i] \in Row
    BY <1>2 DEF Update, UpdateAnswer, Visible, Table
  <2>2. b \in Body /\ b.ext = rows[i].body.ext /\ b.started = rows[i].body.started
    BY <2>1, PatchedType DEF Row
  <2>3. row \in Row /\ row.team = t /\ rows[i].team = t
    BY <2>1, <2>2 DEF Row, Visible
  <2>4. rows' = [rows EXCEPT ![i] = row]
    <3>1. [rows[i] EXCEPT !.body = b] = row
      BY <2>1 DEF Row
    <3> QED  BY <3>1, <1>2 DEF Update, Write
  <2> HIDE DEF row
  <2>5. row.body = b
    BY DEF row
  <2>6. Shelves!Put(t, i, b)
    <3> HIDE DEF b
    <3>1. row # None /\ row \in Row \cup {None}
      BY <2>3, NoRowAssumption
    <3>2. Shelves!Put(t, i, IF row = None THEN None ELSE row.body)
      BY <3>1, <2>3, <2>4, ShelfWrite
    <3> QED  BY <3>1, <3>2, <2>5
  <2>7. Shelf[t][i] = rows[i].body
    BY <2>1 DEF Shelf
  <2>8. rows[i].body # None
    BY <2>1 DEF Row
  <2> QED  BY <2>2, <2>6, <2>7, <2>8 DEF Shelves!Change
<1>3. ASSUME NEW t \in Teams, NEW i \in Ids, Delete(t, i)
      PROVE  Shelves!Remove(t, i)
  <2>1. Visible(rows, t, i) /\ rows[i] \in Row /\ rows' = [rows EXCEPT ![i] = None]
    BY <1>3 DEF Delete, Write, Visible, Table
  <2>2. Shelves!Put(t, i, None)
    BY <2>1, ShelfWrite DEF Visible
  <2>3. Shelf[t][i] # None
    BY <2>1 DEF Shelf, Row
  <2> QED  BY <2>2, <2>3 DEF Shelves!Remove
<1>4. CASE \/ \E t \in Teams, F \in Filters, n \in Limits : StartWalk(t, F, n)
           \/ NextPage \/ UNCHANGED vars
  <2>1. rows' = rows
    BY <1>4 DEF StartWalk, NextPage, vars
  <2> QED  BY <2>1 DEF Shelf, Visible
<1> QED  BY <1>1, <1>2, <1>3, <1>4 DEF Next, Shelves!ShelfNext

(* Every team works as if it had a table of its own. *)
THEOREM TableImplementsShelves == Spec => TeamsApart
BY ShelvesInit, ShelvesNext, Invariance, PTL DEF Spec, TeamsApart, Shelves!ShelfSpec
===============================================================================
