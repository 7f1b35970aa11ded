-------------------------- MODULE RideRoutesProofs --------------------------
(***************************************************************************)
(* The page of ride routes, for all stops, fares, ids and bounds. A pair   *)
(* of stops has one row, however checks and writes interleave; the list    *)
(* the page shows is the server's, up to the deletions and saves whose     *)
(* answers are still out; a form is only closed by its own save, unless    *)
(* two of them overlapped.                                                 *)
(***************************************************************************)
EXTENDS RideRoutesPage, ListPagingProofs, FiniteSetTheorems

USE RoutesInputs

LEMMA RenderedType ==
    ASSUME NEW p \in Page, NEW reset \in BOOLEAN
    PROVE  Rendered(p, reset) \in Page
<1> DEFINE n == Cardinality(DOMAIN p.locations)
           tp == TotalPages(n, p.pageSize)
<1>1. DOMAIN p.locations \subseteq Ids
  BY DEF Page, TableOf
<1>2. n \in Nat
  BY <1>1, FS_Subset, FS_CardinalityType
<1>3. p.pageSize \in Nat \ {0} /\ p.currentPage \in Nat \ {0}
  BY DEF Page
<1>4. tp \in Nat \ {0}
  BY <1>2, <1>3, TotalPagesType
<1> HIDE DEF tp
<1>5. Clamp(IF reset THEN 1 ELSE p.currentPage, tp) \in Nat \ {0}
  BY <1>3, <1>4 DEF Clamp
<1>6. Rendered(p, reset) = [p EXCEPT !.currentPage = Clamp(IF reset THEN 1 ELSE p.currentPage, tp)]
  BY DEF Rendered, tp
<1> QED BY <1>5, <1>6 DEF Page

LEMMA RowType ==
    ASSUME NEW t \in TableOf(Route), NEW r \in DOMAIN t
    PROVE  t[r] \in Route
<1>1. PICK D \in SUBSET Ids : t \in [D -> Route]
  BY DEF TableOf
<1> QED BY <1>1

\* A table without one of its rows, and a table with one row more or changed.
LEMMA TableLess ==
    ASSUME NEW t \in TableOf(Route), NEW r
    PROVE  [q \in DOMAIN t \ {r} |-> t[q]] \in TableOf(Route)
<1>1. PICK D \in SUBSET Ids : t \in [D -> Route]
  BY DEF TableOf
<1>2. [q \in DOMAIN t \ {r} |-> t[q]] \in [D \ {r} -> Route]
  BY <1>1
<1> QED BY <1>2 DEF TableOf

LEMMA TableMore ==
    ASSUME NEW t \in TableOf(Route), NEW r \in Ids, NEW route \in Route
    PROVE  [q \in DOMAIN t \cup {r} |-> IF q = r THEN route ELSE t[q]] \in TableOf(Route)
<1>1. PICK D \in SUBSET Ids : t \in [D -> Route]
  BY DEF TableOf
<1> DEFINE E == D \cup {r}
<1>2. E \in SUBSET Ids /\ DOMAIN t \cup {r} = E
  BY <1>1
<1>3. \A q \in E : (IF q = r THEN route ELSE t[q]) \in Route
  BY <1>1
<1>4. [q \in DOMAIN t \cup {r} |-> IF q = r THEN route ELSE t[q]] \in [E -> Route]
  BY <1>2, <1>3
<1> QED BY <1>2, <1>4 DEF TableOf

LEMMA TableChanged ==
    ASSUME NEW t \in TableOf(Route), NEW r, NEW route \in Route
    PROVE  [t EXCEPT ![r] = route] \in TableOf(Route)
<1>1. PICK D \in SUBSET Ids : t \in [D -> Route]
  BY DEF TableOf
<1>2. [t EXCEPT ![r] = route] \in [D -> Route]
  BY <1>1
<1> QED BY <1>2 DEF TableOf

LEMMA MatchingType ==
    ASSUME NEW t \in TableOf(Route), NEW term
    PROVE  Matching(t, term) \in TableOf(Route)
<1>1. PICK D \in SUBSET Ids : t \in [D -> Route]
  BY DEF TableOf
<1> DEFINE E == {r \in DOMAIN t : term = NoStop \/ term \in {t[r].from, t[r].to}}
<1>2. E \in SUBSET Ids /\ Matching(t, term) \in [E -> Route]
  BY <1>1 DEF Matching
<1> QED BY <1>2 DEF TableOf

LEMMA EmptyTable == <<>> \in TableOf(Route)
<1>1. <<>> \in [{} -> Route]
  BY SMT
<1> QED BY <1>1 DEF TableOf

LEMMA CanonicalType ==
    ASSUME NEW route \in Route
    PROVE  /\ Canonical(route) \in Route
           /\ Canonical(route).from <= Canonical(route).to
<1>1. route.from \in Nat /\ route.to \in Nat
  BY DEF Route
<1>2. CASE route.from <= route.to
  BY <1>2 DEF Canonical
<1>3. CASE ~(route.from <= route.to)
  <2> DEFINE swapped == [route EXCEPT !.from = route.to, !.to = route.from]
  <2>1. swapped \in Route /\ swapped.from = route.to /\ swapped.to = route.from
    BY DEF Route
  <2>2. Canonical(route) = swapped
    BY <1>3 DEF Canonical
  <2> QED BY <1>1, <1>3, <2>1, <2>2
<1> QED BY <1>2, <1>3

-----------------------------------------------------------------------------
(* Types. *)

Calls == Fetch \cup Save \cup Deletion

LEMMA FetchType ==
    ASSUME NEW term \in Term
    PROVE  fetchLocations(term) \in Fetch
  BY EmptyTable DEF fetchLocations, Fetch

LEMMA CallKinds ==
    ASSUME NEW k \in Calls
    PROVE  /\ k.op = "fetch" => k \in Fetch
           /\ k.op \in {"create", "update"} => k \in Save
           /\ k.op = "delete" => k \in Deletion
  BY DEF Calls, Fetch, Save, Deletion

\* What a step of the server makes of a request.
LEMMA BackType ==
    ASSUME NEW k \in Calls, NEW ok \in BOOLEAN
    PROVE  /\ [k EXCEPT !.at = "back"] \in Calls
           /\ [k EXCEPT !.at = "back", !.ok = ok] \in Calls
<1>1. CASE k \in Fetch
  BY <1>1 DEF Calls, Fetch
<1>2. CASE k \in Save
  BY <1>2 DEF Calls, Save
<1>3. CASE k \in Deletion
  BY <1>3 DEF Calls, Deletion
<1> QED BY <1>1, <1>2, <1>3 DEF Calls

LEMMA AgedType ==
    ASSUME NEW cs \in SUBSET Calls
    PROVE  Aged(cs) \subseteq Calls
<1>1. ASSUME NEW k \in cs, k.op = "fetch"
      PROVE  [k EXCEPT !.old = TRUE] \in Calls
  <2>1. k \in Fetch
    BY <1>1, CallKinds
  <2>2. [k EXCEPT !.old = TRUE] \in Fetch
    BY <2>1 DEF Fetch
  <2> QED BY <2>2 DEF Calls
<1> QED BY <1>1 DEF Aged

LEMMA RoutesTypeInit == Init => TypeOK
<1> SUFFICES ASSUME Init PROVE TypeOK
  OBVIOUS
<1>1. table \in TableOf(Route)
  BY RoutesFound DEF Init
<1>2. page \in Page
  BY EmptyTable DEF Init, Mounted, Page, Term
<1>3. calls \subseteq Calls
  BY FetchType DEF Init, MountCalls, Calls, Term
<1>4. past \in Past
  <2>1. DOMAIN table \subseteq Ids
    BY <1>1 DEF TableOf
  <2> QED BY <2>1 DEF Init, NoPast, Past
<1> QED BY <1>1, <1>2, <1>3, <1>4 DEF TypeOK, Calls

LEMMA ActType ==
    ASSUME past \in Past, Act
    PROVE  past' \in Past
  BY DEF Act, Past

LEMMA ActOnFormType ==
    ASSUME past \in Past, ActOnForm
    PROVE  past' \in Past
<1> DEFINE b == Saving
<1>1. b \in BOOLEAN
  BY DEF Saving
<1>2. past' = [past EXCEPT !.acts = past.acts + 1, !.overlap = b, !.lostForm = FALSE] /\ past.acts < RouteActs
  BY DEF ActOnForm
<1>3. ASSUME NEW c \in BOOLEAN
      PROVE  [past EXCEPT !.acts = past.acts + 1, !.overlap = c, !.lostForm = FALSE] \in Past
  <2>1. past.acts + 1 \in 0 .. RouteActs
    BY <1>2 DEF Past
  <2>2. \A a \in 0 .. RouteActs : [past EXCEPT !.acts = a, !.overlap = c, !.lostForm = FALSE] \in Past
    BY DEF Past
  <2> QED BY <2>1, <2>2
<1> HIDE DEF b
<1> QED BY <1>1, <1>2, <1>3, Zenon

\* What the admin does on the page leaves the table alone.
LEMMA RoutesTypeAdmin ==
    ASSUME TypeOK,
           \/ \E term \in Searches \cup {NoStop} : Search(term)
           \/ Debounce \/ ClearSearch \/ Retry \/ DismissError \/ ChangePage
           \/ handleAdd \/ handleCloseModal \/ FillForm \/ handleSubmit
           \/ \E r \in Ids : handleEdit(r) \/ AskDelete(r)
           \/ closeDeleteConfirm \/ confirmDeleteRoute
    PROVE  TypeOK'
<1> USE DEF TypeOK
<1>1. CASE \E term \in Searches \cup {NoStop} : Search(term)
  <2>1. page' \in Page
    BY <1>1 DEF Search, Page, Term
  <2> QED BY <1>1, <2>1, ActType DEF Search
<1>2. CASE Debounce
  <2> DEFINE p == [page EXCEPT !.debouncedSearch = page.searchTerm, !.error = FALSE]
  <2>1. p \in Page
    BY DEF Page
  <2>2. page' \in Page
    BY <1>2, <2>1, RenderedType DEF Debounce
  <2>3. RefetchOn(page.searchTerm) \subseteq Fetch
    BY FetchType DEF RefetchOn, Page
  <2> QED BY <1>2, <2>2, <2>3 DEF Debounce, Refetches
<1>3. CASE ClearSearch
  <2> DEFINE p == [page EXCEPT !.searchTerm = NoStop, !.debouncedSearch = NoStop, !.error = FALSE]
  <2>1. p \in Page
    BY DEF Page, Term
  <2>2. page' \in Page
    BY <1>3, <2>1, RenderedType DEF ClearSearch
  <2>3. RefetchOn(NoStop) \subseteq Fetch
    BY FetchType DEF RefetchOn, Term
  <2> QED BY <1>3, <2>2, <2>3, ActType DEF ClearSearch, Refetches
<1>4. CASE Retry
  <2>1. page' \in Page
    BY <1>4 DEF Retry, Page
  <2>2. fetchLocations(page.debouncedSearch) \in Fetch
    BY FetchType DEF Page
  <2> QED BY <1>4, <2>1, <2>2, ActType DEF Retry
<1>5. CASE DismissError
  <2>1. page' \in Page
    BY <1>5 DEF DismissError, Page
  <2> QED BY <1>5, <2>1, ActType DEF DismissError
<1>6. CASE ChangePage
  <2>1. past' \in Past /\ UNCHANGED <<table, calls>>
    BY <1>6, ActType DEF ChangePage
  <2>2. CASE \E cp \in 1 .. TotalPages(Cardinality(DOMAIN page.locations), page.pageSize) :
                 cp # page.currentPage /\ page' = [page EXCEPT !.currentPage = cp]
    <3>1. PICK cp \in 1 .. TotalPages(Cardinality(DOMAIN page.locations), page.pageSize) :
              page' = [page EXCEPT !.currentPage = cp]
      BY <2>2
    <3>2. DOMAIN page.locations \subseteq Ids /\ page.pageSize \in Nat \ {0}
      BY DEF Page, TableOf
    <3>3. TotalPages(Cardinality(DOMAIN page.locations), page.pageSize) \in Nat
      BY <3>2, TotalPagesType, FS_Subset, FS_CardinalityType
    <3>4. cp \in Nat \ {0}
      BY <3>1, <3>3
    <3>5. page' \in Page
      BY <3>1, <3>4 DEF Page
    <3> QED BY <2>1, <3>5
  <2>3. CASE \E n \in PageSizes :
                 n # page.pageSize /\ page' = Rendered([page EXCEPT !.pageSize = n], TRUE)
    <3>1. PICK n \in PageSizes : page' = Rendered([page EXCEPT !.pageSize = n], TRUE)
      BY <2>3
    <3>2. [page EXCEPT !.pageSize = n] \in Page
      BY <3>1 DEF Page
    <3>3. page' \in Page
      BY <3>1, <3>2, RenderedType
    <3> QED BY <2>1, <3>3
  <2> QED BY <1>6, <2>2, <2>3 DEF ChangePage
<1>7. ASSUME NEW form \in Form, OpenForm(form)
      PROVE  TypeOK'
  <2>1. page' \in Page
    BY <1>7 DEF OpenForm, Page
  <2> QED BY <1>7, <2>1, ActOnFormType DEF OpenForm
<1>8. CASE handleAdd
  <2>1. [kind |-> "form", id |-> New, from |-> NoStop, to |-> NoStop, fare |-> 0] \in Form
    BY DEF Form, Term
  <2> QED BY <1>7, <1>8, <2>1 DEF handleAdd
<1>9. CASE handleCloseModal
  <2>1. page' \in Page
    BY <1>9 DEF handleCloseModal, Page
  <2> QED BY <1>9, <2>1, ActType DEF handleCloseModal
<1>10. CASE FillForm
  <2>1. page.modal \in Form
    BY <1>10 DEF FillForm, Page
  <2>2. PICK f \in {[page.modal EXCEPT !.from = s] : s \in Stops}
                   \cup {[page.modal EXCEPT !.to = s] : s \in Stops}
                   \cup {[page.modal EXCEPT !.fare = n] : n \in Fares}
                   \cup {[page.modal EXCEPT !.from = page.modal.to, !.to = page.modal.from]} :
              page' = [page EXCEPT !.modal = f]
    BY <1>10 DEF FillForm
  <2>3. f \in Form
    <3>1. \A a, b \in Term : [page.modal EXCEPT !.from = a, !.to = b] \in Form
      BY <2>1 DEF Form
    <3>2. \A a \in Term : [page.modal EXCEPT !.from = a] \in Form /\ [page.modal EXCEPT !.to = a] \in Form
      BY <2>1 DEF Form
    <3>3. \A n \in Fares : [page.modal EXCEPT !.fare = n] \in Form
      BY <2>1 DEF Form
    <3>4. page.modal.from \in Term /\ page.modal.to \in Term /\ Stops \subseteq Term
      BY <2>1 DEF Form, Term
    <3>5. CASE f = [page.modal EXCEPT !.from = page.modal.to, !.to = page.modal.from]
      <4>1. [page.modal EXCEPT !.from = page.modal.to, !.to = page.modal.from] \in Form
        BY <3>1, <3>4, Zenon
      <4> QED BY <3>5, <4>1
    <3>6. CASE f \in {[page.modal EXCEPT !.from = s] : s \in Stops}
                   \cup {[page.modal EXCEPT !.to = s] : s \in Stops}
      <4>1. PICK s \in Stops : f = [page.modal EXCEPT !.from = s] \/ f = [page.modal EXCEPT !.to = s]
        BY <3>6
      <4>2. s \in Term
        BY <3>4
      <4>3. [page.modal EXCEPT !.from = s] \in Form /\ [page.modal EXCEPT !.to = s] \in Form
        BY <3>2, <4>2, Zenon
      <4> QED BY <4>1, <4>3
    <3>7. CASE f \in {[page.modal EXCEPT !.fare = n] : n \in Fares}
      BY <3>3, <3>7
    <3> QED BY <2>2, <3>5, <3>6, <3>7
  <2>4. page' \in Page
    BY <2>2, <2>3 DEF Page
  <2> QED BY <1>10, <2>4, ActOnFormType DEF FillForm
<1>11. CASE handleSubmit
  <2>1. page.modal \in Form
    BY <1>11 DEF handleSubmit, Page
  <2>2. [from |-> page.modal.from, to |-> page.modal.to, fare |-> page.modal.fare] \in Route
    BY <1>11, <2>1 DEF handleSubmit, Form, Route, Term
  <2>3. [op |-> IF page.modal.id = New THEN "create" ELSE "update", term |-> page.debouncedSearch,
         at |-> "server", ok |-> FALSE, id |-> page.modal.id,
         route |-> [from |-> page.modal.from, to |-> page.modal.to, fare |-> page.modal.fare]] \in Save
    BY <2>1, <2>2 DEF Save, Form, Page
  <2> QED BY <1>11, <2>3, ActOnFormType DEF handleSubmit
<1>12. ASSUME NEW r \in Ids, handleEdit(r)
       PROVE  TypeOK'
  <2>1. r \in DOMAIN page.locations /\ page.locations \in TableOf(Route)
    BY <1>12 DEF handleEdit, paginatedLocations, Page
  <2>2. page.locations[r] \in Route
    BY <2>1 DEF TableOf
  <2>3. [kind |-> "form", id |-> r, from |-> page.locations[r].from, to |-> page.locations[r].to,
         fare |-> page.locations[r].fare] \in Form
    BY <2>2 DEF Form, Route, Term
  <2> QED BY <1>7, <1>12, <2>3 DEF handleEdit
<1>13. ASSUME NEW r \in Ids, AskDelete(r)
       PROVE  TypeOK'
  <2>1. page' \in Page
    BY <1>13 DEF AskDelete, Page
  <2> QED BY <1>13, <2>1, ActType DEF AskDelete
<1>14. CASE closeDeleteConfirm
  <2>1. page' \in Page
    BY <1>14 DEF closeDeleteConfirm, Page
  <2> QED BY <1>14, <2>1, ActType DEF closeDeleteConfirm
<1>15. CASE confirmDeleteRoute
  <2>1. page' \in Page
    BY <1>15 DEF confirmDeleteRoute, Page
  <2>2. [op |-> "delete", at |-> "server", ok |-> FALSE, id |-> page.pendingDelete] \in Deletion
    BY <1>15 DEF confirmDeleteRoute, Deletion, Page
  <2> QED BY <1>15, <2>1, <2>2, ActType DEF confirmDeleteRoute
<1> QED BY <1>1, <1>2, <1>3, <1>4, <1>5, <1>6, <1>8, <1>9, <1>10, <1>11, <1>12, <1>13, <1>14, <1>15

LEMMA MovesType ==
    ASSUME calls \subseteq Calls, NEW k \in calls, NEW j \in Calls, Moves(k, j) \/ MovesAndAges(k, j)
    PROVE  calls' \subseteq Calls
  BY AgedType DEF Moves, MovesAndAges

LEMMA RefuseType ==
    ASSUME TypeOK, NEW k \in calls, Refuse(k)
    PROVE  TypeOK'
<1>1. calls \subseteq Calls
  BY DEF TypeOK, Calls
<1>2. calls' \subseteq Calls
  BY <1>1, BackType, MovesType DEF Refuse
<1> QED BY <1>2 DEF TypeOK, Refuse, Calls

LEMMA RoutesTypeServer ==
    ASSUME TypeOK,
           \/ OtherAdminWrites
           \/ \E k \in calls :
                 \/ GetRideLocations(k) \/ CheckRoute(k) \/ CreateRideLocation(k) \/ UpdateRideLocation(k)
                 \/ DeleteRideLocation(k) \/ RequestFails(k)
    PROVE  TypeOK'
<1>0. calls \subseteq Calls /\ table \in TableOf(Route) /\ past \in Past
  BY DEF TypeOK, Calls
<1>1. CASE OtherAdminWrites
  <2>1. calls' \subseteq Calls
    BY <1>0, <1>1, AgedType DEF OtherAdminWrites
  <2>2. past' \in Past
    <3>1. past.acts < RouteActs /\ past' = [past EXCEPT !.acts = past.acts + 1, !.unsure = TRUE]
      BY <1>1 DEF OtherAdminWrites
    <3>2. past.acts \in 0 .. RouteActs /\ RouteActs \in Nat
      BY <1>0, RoutesInputs DEF Past
    <3>3. past.acts + 1 \in 0 .. RouteActs
      BY <3>1, <3>2
    <3>4. \A n \in 0 .. RouteActs : [past EXCEPT !.acts = n, !.unsure = TRUE] \in Past
      BY <1>0 DEF Past
    <3> QED BY <3>1, <3>3, <3>4
  <2>3. PICK r \in DOMAIN table :
            \/ table' = [q \in DOMAIN table \ {r} |-> table[q]]
            \/ \E route \in Route : table' = [table EXCEPT ![r] = Canonical(route)]
    BY <1>1 DEF OtherAdminWrites
  <2>4. table' \in TableOf(Route)
    BY <1>0, <2>3, CanonicalType, TableLess, TableChanged
  <2> QED BY <1>1, <2>1, <2>2, <2>4 DEF OtherAdminWrites, TypeOK, Calls
<1>2. ASSUME NEW k \in calls, GetRideLocations(k)
      PROVE  TypeOK'
  <2>1. k \in Fetch
    BY <1>0, <1>2, CallKinds DEF GetRideLocations
  <2>2. Matching(table, k.term) \in TableOf(Route)
    BY <1>0, MatchingType
  <2>3. [k EXCEPT !.at = "back", !.ok = TRUE, !.rows = Matching(table, k.term)] \in Calls
    BY <2>1, <2>2 DEF Fetch, Calls
  <2>4. calls' \subseteq Calls
    BY <1>0, <1>2, <2>3, MovesType DEF GetRideLocations
  <2> QED BY <1>2, <2>4 DEF GetRideLocations, TypeOK, Calls
<1>3. ASSUME NEW k \in calls, CheckRoute(k)
      PROVE  TypeOK'
  <2>1. k \in Save
    BY <1>0, <1>3, CallKinds DEF CheckRoute
  <2>2. [k EXCEPT !.at = "checked"] \in Calls
    BY <2>1 DEF Save, Calls
  <2>3. CASE Refuse(k)
    BY <2>3, RefuseType
  <2>4. CASE Moves(k, [k EXCEPT !.at = "checked"]) /\ UNCHANGED <<table, page, past>>
    <3>1. calls' \subseteq Calls
      BY <1>0, <2>2, <2>4, MovesType
    <3> QED BY <2>4, <3>1 DEF TypeOK, Calls
  <2> QED BY <1>3, <2>3, <2>4 DEF CheckRoute
<1>4. ASSUME NEW k \in calls, CreateRideLocation(k)
      PROVE  TypeOK'
  <2>1. k \in Save
    BY <1>0, <1>4, CallKinds DEF CreateRideLocation
  <2>2. CASE Refuse(k)
    BY <2>2, RefuseType
  <2>3. CASE ~Taken(Canonical(k.route), New)
    <3>1. PICK r \in Ids :
              /\ table' = [q \in DOMAIN table \cup {r} |-> IF q = r THEN Canonical(k.route) ELSE table[q]]
              /\ past' = [past EXCEPT !.used = @ \cup {r}]
              /\ MovesAndAges(k, [k EXCEPT !.at = "back", !.ok = TRUE])
              /\ UNCHANGED page
      BY <1>4, <2>3 DEF CreateRideLocation, BreaksUnique
    <3>2. Canonical(k.route) \in Route
      BY <2>1, CanonicalType DEF Save
    <3>3. table' \in TableOf(Route)
      BY <1>0, <3>1, <3>2, TableMore
    <3>4. past' \in Past
      BY <1>0, <3>1 DEF Past
    <3>5. calls' \subseteq Calls
      BY <1>0, <3>1, BackType, MovesType
    <3> QED BY <3>1, <3>3, <3>4, <3>5 DEF TypeOK, Calls
  <2> QED BY <1>4, <2>2, <2>3 DEF CreateRideLocation, BreaksUnique
<1>5. ASSUME NEW k \in calls, UpdateRideLocation(k)
      PROVE  TypeOK'
  <2>1. k \in Save
    BY <1>0, <1>5, CallKinds DEF UpdateRideLocation
  <2>2. CASE Refuse(k)
    BY <2>2, RefuseType
  <2>3. CASE ~(k.id \notin DOMAIN table \/ Taken(Canonical(k.route), k.id))
    <3>1. /\ table' = [table EXCEPT ![k.id] = Canonical(k.route)]
          /\ MovesAndAges(k, [k EXCEPT !.at = "back", !.ok = TRUE])
          /\ UNCHANGED <<page, past>>
      BY <1>5, <2>3 DEF UpdateRideLocation, BreaksUnique
    <3>2. Canonical(k.route) \in Route
      BY <2>1, CanonicalType DEF Save
    <3>3. table' \in TableOf(Route)
      BY <1>0, <3>1, <3>2, TableChanged
    <3>4. calls' \subseteq Calls
      BY <1>0, <3>1, BackType, MovesType
    <3> QED BY <3>1, <3>3, <3>4 DEF TypeOK, Calls
  <2> QED BY <1>5, <2>2, <2>3 DEF UpdateRideLocation, BreaksUnique
<1>6. ASSUME NEW k \in calls, DeleteRideLocation(k)
      PROVE  TypeOK'
  <2>1. CASE Refuse(k)
    BY <2>1, RefuseType
  <2>2. CASE Moves(k, [k EXCEPT !.at = "back", !.ok = TRUE]) /\ UNCHANGED <<table, page, past>>
    <3>1. calls' \subseteq Calls
      BY <1>0, <2>2, BackType, MovesType
    <3> QED BY <2>2, <3>1 DEF TypeOK, Calls
  <2>3. CASE k.id \in DOMAIN table
    <3>1. /\ table' = [q \in DOMAIN table \ {k.id} |-> table[q]]
          /\ MovesAndAges(k, [k EXCEPT !.at = "back", !.ok = TRUE])
          /\ UNCHANGED <<page, past>>
      BY <1>6, <2>3 DEF DeleteRideLocation
    <3>2. table' \in TableOf(Route)
      BY <1>0, <3>1, TableLess
    <3>3. calls' \subseteq Calls
      BY <1>0, <3>1, BackType, MovesType
    <3> QED BY <3>1, <3>2, <3>3 DEF TypeOK, Calls
  <2> QED BY <1>6, <2>1, <2>2, <2>3 DEF DeleteRideLocation
<1>7. ASSUME NEW k \in calls, RequestFails(k)
      PROVE  TypeOK'
  <2>1. calls' \subseteq Calls
    BY <1>0, <1>7, BackType, MovesType DEF RequestFails
  <2>2. past' \in Past
    <3> DEFINE b == past.unsure \/ (k.op # "fetch" /\ k.at = "back")
    <3>1. b \in BOOLEAN /\ past' = [past EXCEPT !.unsure = b]
      BY <1>7 DEF RequestFails
    <3> HIDE DEF b
    <3> QED BY <1>0, <3>1 DEF Past
  <2> QED BY <1>7, <2>1, <2>2 DEF RequestFails, TypeOK, Calls
<1> QED BY <1>1, <1>2, <1>3, <1>4, <1>5, <1>6, <1>7

LEMMA RoutesTypeAnswers ==
    ASSUME TypeOK, NEW k \in calls, FetchAnswers(k) \/ SaveAnswers(k) \/ DeleteAnswers(k)
    PROVE  TypeOK'
<1>0. calls \subseteq Calls /\ table \in TableOf(Route) /\ past \in Past /\ page \in Page
  BY DEF TypeOK, Calls
<1>1. CASE FetchAnswers(k)
  <2>1. k \in Fetch
    BY <1>0, <1>1, CallKinds DEF FetchAnswers
  <2>2. CASE k.ok
    <3> DEFINE p == [page EXCEPT !.locations = k.rows, !.initialFetchDone = TRUE]
               b == k.old \/ k.term # page.debouncedSearch
    <3>1. p \in Page
      BY <1>0, <2>1 DEF Fetch, Page
    <3>2. page' \in Page
      BY <1>1, <2>2, <3>1, RenderedType DEF FetchAnswers
    <3>3. b \in BOOLEAN /\ past' = [past EXCEPT !.unsure = b]
      BY <1>1, <2>2 DEF FetchAnswers
    <3>4. past' \in Past
      <4> HIDE DEF b
      <4> QED BY <1>0, <3>3 DEF Past
    <3> QED BY <1>0, <1>1, <3>2, <3>4 DEF FetchAnswers, TypeOK, Calls
  <2>3. CASE ~k.ok
    <3>1. page' = [page EXCEPT !.error = TRUE, !.initialFetchDone = TRUE] /\ past' = [past EXCEPT !.unsure = TRUE]
      BY <1>1, <2>3 DEF FetchAnswers
    <3>2. page' \in Page
      BY <1>0, <3>1 DEF Page
    <3>3. past' \in Past
      BY <1>0, <3>1 DEF Past
    <3> QED BY <1>0, <1>1, <3>2, <3>3 DEF FetchAnswers, TypeOK, Calls
  <2> QED BY <2>2, <2>3
<1>2. CASE SaveAnswers(k)
  <2>1. k \in Save
    BY <1>0, <1>2, CallKinds DEF SaveAnswers
  <2>2. calls' \subseteq Calls
    <3>1. fetchLocations(k.term) \in Fetch
      BY <2>1, FetchType DEF Save
    <3> QED BY <1>0, <1>2, <3>1 DEF SaveAnswers, Calls
  <2>3. page' \in Page
    <3> DEFINE m == IF ClosesForm(k) THEN Nothing ELSE page.modal
               e == IF k.ok THEN FALSE ELSE page.error
    <3>1. m \in {Nothing} \cup Form /\ e \in BOOLEAN
      BY <1>0 DEF Page
    <3>2. page' = [page EXCEPT !.modal = m, !.error = e]
      BY <1>2 DEF SaveAnswers
    <3> HIDE DEF m, e
    <3> QED BY <1>0, <3>1, <3>2 DEF Page
  <2>4. past' \in Past
    <3> DEFINE b == past.lostForm \/ (ClosesForm(k) /\ page.modal # Nothing
                        /\ ~(k.ok /\ k.id = page.modal.id
                             /\ k.route = [from |-> page.modal.from, to |-> page.modal.to, fare |-> page.modal.fare]))
    <3>1. b \in BOOLEAN /\ past' = [past EXCEPT !.lostForm = b]
      BY <1>2 DEF SaveAnswers
    <3> HIDE DEF b
    <3> QED BY <1>0, <3>1 DEF Past
  <2> QED BY <1>0, <1>2, <2>2, <2>3, <2>4 DEF SaveAnswers, TypeOK, Calls
<1>3. CASE DeleteAnswers(k)
  <2>1. page' \in Page
    <3>1. CASE k.ok
      <4> DEFINE rows == Without(page.locations, k.id)
                 p == [page EXCEPT !.locations = rows, !.pendingDelete = New, !.deleteSubmitting = FALSE]
      <4>1. rows \in TableOf(Route)
        BY <1>0, TableLess DEF Without, Page
      <4>2. page' = Rendered(p, FALSE)
        BY <1>3, <3>1 DEF DeleteAnswers
      <4> HIDE DEF rows
      <4>3. p \in Page
        BY <1>0, <4>1 DEF Page
      <4> QED BY <4>2, <4>3, RenderedType
    <3>2. CASE ~k.ok
      BY <1>0, <1>3, <3>2 DEF DeleteAnswers, Page
    <3> QED BY <3>1, <3>2
  <2> QED BY <1>0, <1>3, <2>1 DEF DeleteAnswers, TypeOK, Calls
<1> QED BY <1>1, <1>2, <1>3

LEMMA RoutesTypeStep ==
    ASSUME TypeOK, [Next]_vars
    PROVE  TypeOK'
<1>1. CASE UNCHANGED vars
  BY <1>1 DEF vars, TypeOK
<1>2. CASE Next
  BY <1>2, RoutesTypeAdmin, RoutesTypeServer, RoutesTypeAnswers DEF Next
<1> QED BY <1>1, <1>2

\* Every state is well typed.
THEOREM RoutesTyped == Spec => []TypeOK
<1>1. Init => TypeOK
  BY RoutesTypeInit
<1>2. TypeOK /\ [Next]_vars => TypeOK'
  BY RoutesTypeStep
<1> QED BY <1>1, <1>2, PTL DEF Spec

-----------------------------------------------------------------------------
(* One fare per pair. *)

\* Rows are stored in canonical order, and no two rows have the same stops in this order.
\* The check of a save may be stale when it writes: what keeps the rows apart is that the
\* pair is UNIQUE in the table.
CanonicalRows(t) ==
    /\ \A r \in DOMAIN t : t[r].from <= t[r].to
    /\ \A q, r \in DOMAIN t : t[q].from = t[r].from /\ t[q].to = t[r].to => q = r

LEMMA CanonicalRowsGiveOneFare ==
    ASSUME table \in TableOf(Route), CanonicalRows(table)
    PROVE  OneFarePerPair
<1>1. \A q \in DOMAIN table : table[q] \in Route
  BY RowType
<1>2. \A q \in DOMAIN table : table[q].from \in Nat /\ table[q].to \in Nat /\ table[q].from <= table[q].to
  BY <1>1, RoutesInputs DEF Route, CanonicalRows
<1>3. ASSUME NEW a \in Nat, NEW b \in Nat, NEW c \in Nat, NEW d \in Nat,
             {a, b} = {c, d}, a <= b, c <= d
      PROVE  a = c /\ b = d
  <2>1. a \in {c, d} /\ b \in {c, d} /\ c \in {a, b} /\ d \in {a, b}
    BY <1>3
  <2> QED BY <1>3, <2>1
<1>4. ASSUME NEW q \in DOMAIN table, NEW r \in DOMAIN table,
             {table[q].from, table[q].to} = {table[r].from, table[r].to}
      PROVE  q = r
  <2>1. table[q].from = table[r].from /\ table[q].to = table[r].to
    BY <1>2, <1>3, <1>4
  <2> QED BY <2>1 DEF CanonicalRows
<1> QED BY <1>4 DEF OneFarePerPair

LEMMA CanonicalRowsStep ==
    ASSUME TypeOK, CanonicalRows(table), [Next]_vars
    PROVE  CanonicalRows(table')
<1>0. calls \subseteq Calls /\ table \in TableOf(Route)
  BY DEF TypeOK, Calls
<1>1. CASE UNCHANGED table
  BY <1>1
<1>2. CASE OtherAdminWrites
  <2>1. PICK r \in DOMAIN table :
            \/ table' = [q \in DOMAIN table \ {r} |-> table[q]]
            \/ \E route \in Route : ~Taken(Canonical(route), r) /\ table' = [table EXCEPT ![r] = Canonical(route)]
    BY <1>2 DEF OtherAdminWrites
  <2>2. CASE table' = [q \in DOMAIN table \ {r} |-> table[q]]
    BY <2>2 DEF CanonicalRows
  <2>3. ASSUME NEW route \in Route, ~Taken(Canonical(route), r), table' = [table EXCEPT ![r] = Canonical(route)]
        PROVE  CanonicalRows(table')
    <3>1. Canonical(route).from <= Canonical(route).to
      BY CanonicalType
    <3>2. \A q \in DOMAIN table :
              q # r => ~(table[q].from = Canonical(route).from /\ table[q].to = Canonical(route).to)
      BY <2>3 DEF Taken
    <3> QED BY <2>3, <3>1, <3>2 DEF CanonicalRows
  <2> QED BY <2>1, <2>2, <2>3
<1>3. ASSUME NEW k \in calls, CreateRideLocation(k), ~Taken(Canonical(k.route), New)
      PROVE  CanonicalRows(table')
  <2>1. k \in Save
    BY <1>0, <1>3, CallKinds DEF CreateRideLocation
  <2>2. PICK r \in Ids : table' = [q \in DOMAIN table \cup {r} |-> IF q = r THEN Canonical(k.route) ELSE table[q]]
    BY <1>3 DEF CreateRideLocation, BreaksUnique
  <2>3. Canonical(k.route).from <= Canonical(k.route).to
    BY <2>1, CanonicalType DEF Save
  <2>4. \A q \in DOMAIN table :
            ~(table[q].from = Canonical(k.route).from /\ table[q].to = Canonical(k.route).to)
    <3>1. \A q \in DOMAIN table : q # New
      BY <1>0 DEF TableOf
    <3> QED BY <1>3, <3>1 DEF Taken
  <2> HIDE <1>3
  <2> QED BY <2>2, <2>3, <2>4 DEF CanonicalRows
<1>4. ASSUME NEW k \in calls, UpdateRideLocation(k), ~Taken(Canonical(k.route), k.id), k.id \in DOMAIN table
      PROVE  CanonicalRows(table')
  <2>1. k \in Save
    BY <1>0, <1>4, CallKinds DEF UpdateRideLocation
  <2>2. table' = [table EXCEPT ![k.id] = Canonical(k.route)]
    BY <1>4 DEF UpdateRideLocation, BreaksUnique
  <2>3. Canonical(k.route).from <= Canonical(k.route).to
    BY <2>1, CanonicalType DEF Save
  <2>4. \A q \in DOMAIN table :
            q # k.id => ~(table[q].from = Canonical(k.route).from /\ table[q].to = Canonical(k.route).to)
    BY <1>4 DEF Taken
  <2> QED BY <2>2, <2>3, <2>4 DEF CanonicalRows
<1>5. ASSUME NEW k \in calls, DeleteRideLocation(k), k.id \in DOMAIN table
      PROVE  CanonicalRows(table')
  <2>1. table' = [q \in DOMAIN table \ {k.id} |-> table[q]]
    BY <1>5 DEF DeleteRideLocation
  <2> QED BY <2>1 DEF CanonicalRows
<1>6. \/ UNCHANGED table
      \/ OtherAdminWrites
      \/ \E k \in calls :
            \/ CreateRideLocation(k) /\ ~Taken(Canonical(k.route), New)
            \/ UpdateRideLocation(k) /\ ~Taken(Canonical(k.route), k.id) /\ k.id \in DOMAIN table
            \/ DeleteRideLocation(k) /\ k.id \in DOMAIN table
  <2>1. ASSUME NEW k \in calls, CreateRideLocation(k)
        PROVE  UNCHANGED table \/ ~Taken(Canonical(k.route), New)
    BY <2>1 DEF CreateRideLocation, BreaksUnique, Refuse
  <2>2. ASSUME NEW k \in calls, UpdateRideLocation(k)
        PROVE  UNCHANGED table \/ (~Taken(Canonical(k.route), k.id) /\ k.id \in DOMAIN table)
    BY <2>2 DEF UpdateRideLocation, BreaksUnique, Refuse
  <2>3. ASSUME NEW k \in calls, DeleteRideLocation(k)
        PROVE  UNCHANGED table \/ k.id \in DOMAIN table
    BY <2>3 DEF DeleteRideLocation, Refuse
  <2>4. ASSUME NEW k \in calls,
               GetRideLocations(k) \/ CheckRoute(k) \/ RequestFails(k) \/ FetchAnswers(k) \/ SaveAnswers(k)
               \/ DeleteAnswers(k)
        PROVE  UNCHANGED table
    BY <2>4 DEF GetRideLocations, CheckRoute, Refuse, RequestFails, FetchAnswers, SaveAnswers, DeleteAnswers
  <2>5. ASSUME \/ \E term \in Searches \cup {NoStop} : Search(term)
               \/ Debounce \/ ClearSearch \/ Retry \/ DismissError \/ ChangePage
               \/ handleAdd \/ handleCloseModal \/ FillForm \/ handleSubmit
               \/ \E r \in Ids : handleEdit(r) \/ AskDelete(r)
               \/ closeDeleteConfirm \/ confirmDeleteRoute
        PROVE  UNCHANGED table
    BY <2>5 DEF Search, Debounce, ClearSearch, Retry, DismissError, ChangePage, handleAdd, handleCloseModal,
                FillForm, handleSubmit, handleEdit, AskDelete, closeDeleteConfirm, confirmDeleteRoute, OpenForm
  <2> QED BY <2>1, <2>2, <2>3, <2>4, <2>5 DEF Next, vars
<1> QED BY <1>1, <1>2, <1>3, <1>4, <1>5, <1>6

LEMMA CanonicalRowsInit == Init => CanonicalRows(table)
<1> SUFFICES ASSUME Init PROVE CanonicalRows(table)
  OBVIOUS
<1>1. table \in TableOf(Route)
  BY RoutesFound DEF Init
<1>2. \A r \in DOMAIN table : table[r] \in Route
  BY <1>1, RowType
<1>3. \A r \in DOMAIN table : table[r].from \in Nat /\ table[r].to \in Nat
  BY <1>2, RoutesInputs DEF Route
<1> QED BY <1>3, RoutesFound DEF Init, CanonicalRows

\* A pair of stops never has two rows, and so two fares, in either direction.
THEOREM OneFare == Spec => []OneFarePerPair
<1>1. Init => CanonicalRows(table)
  BY CanonicalRowsInit
<1>2. TypeOK /\ CanonicalRows(table) /\ [Next]_vars => CanonicalRows(table)'
  BY CanonicalRowsStep DEF CanonicalRows
<1>3. TypeOK /\ CanonicalRows(table) => OneFarePerPair
  BY CanonicalRowsGiveOneFare DEF TypeOK
<1> QED BY <1>1, <1>2, <1>3, RoutesTyped, PTL DEF Spec

-----------------------------------------------------------------------------
(* The page that is shown. *)

\* The current page is one that exists. Whatever changes the rows or the size of a page
\* renders the list again, and a render clamps.
OnAPage(p) == p.currentPage \in 1 .. TotalPages(Cardinality(DOMAIN p.locations), p.pageSize)

LEMMA ListSize ==
    ASSUME NEW p \in Page
    PROVE  /\ DOMAIN p.locations \in SUBSET Nat /\ IsFiniteSet(DOMAIN p.locations)
           /\ Cardinality(DOMAIN p.locations) \in Nat
           /\ p.pageSize \in Nat \ {0} /\ p.currentPage \in Nat \ {0}
<1>1. DOMAIN p.locations \subseteq Ids
  BY DEF Page, TableOf
<1>2. p.pageSize \in Nat \ {0} /\ p.currentPage \in Nat \ {0} /\ DOMAIN p.locations \in SUBSET Nat
  BY <1>1 DEF Page
<1> QED BY <1>1, <1>2, FS_Subset, FS_CardinalityType

LEMMA RenderedOnAPage ==
    ASSUME NEW p \in Page, NEW reset \in BOOLEAN
    PROVE  OnAPage(Rendered(p, reset))
<1> DEFINE tp == TotalPages(Cardinality(DOMAIN p.locations), p.pageSize)
           cp == IF reset THEN 1 ELSE p.currentPage
<1>1. cp \in Nat \ {0}
  BY ListSize
<1>2. Clamp(cp, tp) \in 1 .. tp
  BY <1>1, ListSize, ClampedPage
<1>3. Rendered(p, reset) = [p EXCEPT !.currentPage = Clamp(cp, tp)]
  BY DEF Rendered
<1> HIDE DEF cp
<1>4. /\ Rendered(p, reset).currentPage = Clamp(cp, tp)
      /\ Rendered(p, reset).locations = p.locations /\ Rendered(p, reset).pageSize = p.pageSize
  BY <1>3 DEF Page
<1> QED BY <1>2, <1>4 DEF OnAPage

LEMMA OnAPageStep ==
    ASSUME TypeOK, OnAPage(page), [Next]_vars
    PROVE  OnAPage(page')
<1> DEFINE SameList ==
               page'.locations = page.locations /\ page'.currentPage = page.currentPage /\ page'.pageSize = page.pageSize
<1>0. page \in Page /\ calls \subseteq Calls
  BY DEF TypeOK, Calls
<1>1. CASE SameList
  BY <1>1 DEF OnAPage
<1>2. ASSUME NEW p \in Page, NEW reset \in BOOLEAN, page' = Rendered(p, reset)
      PROVE  OnAPage(page')
  BY <1>2, RenderedOnAPage
<1>3. ASSUME Debounce \/ ClearSearch
      PROVE  OnAPage(page')
  <2>1. [page EXCEPT !.debouncedSearch = page.searchTerm, !.error = FALSE] \in Page
    BY <1>0 DEF Page
  <2>2. [page EXCEPT !.searchTerm = NoStop, !.debouncedSearch = NoStop, !.error = FALSE] \in Page
    BY <1>0 DEF Page, Term
  <2> QED BY <1>2, <1>3, <2>1, <2>2 DEF Debounce, ClearSearch
<1>4. ASSUME ChangePage
      PROVE  OnAPage(page')
  <2>1. CASE \E cp \in 1 .. TotalPages(Cardinality(DOMAIN page.locations), page.pageSize) :
                 page' = [page EXCEPT !.currentPage = cp]
    BY <1>0, <2>1 DEF OnAPage, Page
  <2>2. ASSUME NEW n \in PageSizes, page' = Rendered([page EXCEPT !.pageSize = n], TRUE)
        PROVE  OnAPage(page')
    <3>1. [page EXCEPT !.pageSize = n] \in Page
      BY <1>0 DEF Page
    <3> QED BY <1>2, <2>2, <3>1
  <2> QED BY <1>4, <2>1, <2>2 DEF ChangePage
<1>5. ASSUME NEW k \in calls, FetchAnswers(k)
      PROVE  OnAPage(page')
  <2>1. CASE k.ok
    <3>1. k \in Fetch
      BY <1>0, <1>5, CallKinds DEF FetchAnswers
    <3>2. [page EXCEPT !.locations = k.rows, !.initialFetchDone = TRUE] \in Page
      BY <1>0, <3>1 DEF Fetch, Page
    <3> QED BY <1>2, <1>5, <2>1, <3>2 DEF FetchAnswers
  <2>2. CASE ~k.ok
    <3>1. SameList
      BY <1>0, <1>5, <2>2 DEF FetchAnswers, Page
    <3> QED BY <1>1, <3>1
  <2> QED BY <2>1, <2>2
<1>6. ASSUME NEW k \in calls, DeleteAnswers(k)
      PROVE  OnAPage(page')
  <2>1. CASE k.ok
    <3> DEFINE rows == Without(page.locations, k.id)
               p == [page EXCEPT !.locations = rows, !.pendingDelete = New, !.deleteSubmitting = FALSE]
    <3>1. rows \in TableOf(Route)
      BY <1>0, TableLess DEF Without, Page
    <3>2. page' = Rendered(p, FALSE)
      BY <1>6, <2>1 DEF DeleteAnswers
    <3> HIDE DEF rows
    <3>3. p \in Page
      BY <1>0, <3>1 DEF Page
    <3> QED BY <1>2, <3>2, <3>3
  <2>2. CASE ~k.ok
    <3>1. SameList
      BY <1>0, <1>6, <2>2 DEF DeleteAnswers, Page
    <3> QED BY <1>1, <3>1
  <2> QED BY <2>1, <2>2
<1>7. ASSUME NEW k \in calls, SaveAnswers(k)
      PROVE  SameList
  BY <1>0, <1>7 DEF SaveAnswers, Page
<1>8. ASSUME \/ \E term \in Searches \cup {NoStop} : Search(term)
             \/ Retry \/ DismissError \/ handleAdd \/ handleCloseModal \/ FillForm \/ handleSubmit
             \/ \E r \in Ids : handleEdit(r) \/ AskDelete(r)
             \/ closeDeleteConfirm \/ confirmDeleteRoute
      PROVE  SameList
  <2>1. CASE \E term \in Searches \cup {NoStop} : Search(term)
    BY <1>0, <2>1 DEF Search, Page
  <2>2. CASE Retry \/ DismissError \/ handleCloseModal \/ handleSubmit
    BY <1>0, <2>2 DEF Retry, DismissError, handleCloseModal, handleSubmit, Page
  <2>3. CASE handleAdd \/ FillForm \/ \E r \in Ids : handleEdit(r)
    BY <1>0, <2>3 DEF handleAdd, FillForm, handleEdit, OpenForm, Page
  <2>4. CASE (\E r \in Ids : AskDelete(r)) \/ closeDeleteConfirm \/ confirmDeleteRoute
    BY <1>0, <2>4 DEF AskDelete, closeDeleteConfirm, confirmDeleteRoute, Page
  <2> QED BY <1>8, <2>1, <2>2, <2>3, <2>4
<1>9. ASSUME \/ OtherAdminWrites
             \/ \E k \in calls :
                   \/ GetRideLocations(k) \/ CheckRoute(k) \/ CreateRideLocation(k) \/ UpdateRideLocation(k)
                   \/ DeleteRideLocation(k) \/ RequestFails(k)
      PROVE  UNCHANGED page
  BY <1>9 DEF OtherAdminWrites, GetRideLocations, CheckRoute, CreateRideLocation, UpdateRideLocation,
              DeleteRideLocation, RequestFails, Refuse
<1> HIDE DEF SameList
<1>10. UNCHANGED page => SameList
  BY DEF SameList
<1>11. CASE UNCHANGED vars
  BY <1>1, <1>10, <1>11 DEF vars
<1>12. CASE Next
  BY <1>12, <1>1, <1>3, <1>4, <1>5, <1>6, <1>7, <1>8, <1>9, <1>10 DEF Next
<1> QED BY <1>11, <1>12

LEMMA OnAPageShowsRoutes ==
    ASSUME TypeOK, OnAPage(page)
    PROVE  PageShowsRoutes
<1>1. page \in Page
  BY DEF TypeOK
<1> QED BY <1>1, ListSize, ExistingPageShowsRows, ZenonT(40) DEF OnAPage, PageShowsRoutes, paginatedLocations

LEMMA OnAPageInit ==
    ASSUME Init
    PROVE  OnAPage(page)
<1>1. page.locations = <<>> /\ page.pageSize = 10 /\ page.currentPage = 1
  BY DEF Init, Mounted
<1>2. Cardinality(DOMAIN page.locations) \in Nat
  <2>1. page \in Page
    BY RoutesTypeInit DEF TypeOK
  <2> QED BY <2>1, ListSize
<1>3. TotalPages(Cardinality(DOMAIN page.locations), page.pageSize) \in Nat \ {0}
  BY <1>1, <1>2, TotalPagesType
<1> QED BY <1>1, <1>3 DEF OnAPage

\* Whatever the admin does and whatever is answered, a list that has rows shows some.
THEOREM RoutesPageShowsRows == Spec => []PageShowsRoutes
<1>1. Init => OnAPage(page)
  BY OnAPageInit
<1>2. TypeOK /\ OnAPage(page) /\ [Next]_vars => OnAPage(page)'
  BY OnAPageStep DEF OnAPage
<1>3. TypeOK /\ OnAPage(page) => PageShowsRoutes
  BY OnAPageShowsRoutes
<1> QED BY <1>1, <1>2, <1>3, RoutesTyped, PTL DEF Spec

-----------------------------------------------------------------------------
(* The forms. *)

IsSave(k) == k.op \in {"create", "update"}

\* Request k saves form m as it is.
Saves(k, m) ==
    k.id = m.id /\ k.route = [from |-> m.from, to |-> m.to, fare |-> m.fare]

\* Without an overlap, every save in flight is of the form that is open, as it is, or no
\* form is open: its answer closes nothing else.
OpenFormIsSaved ==
    ~past.overlap =>
        /\ ~past.lostForm
        /\ \A k \in calls : IsSave(k) => page.modal = Nothing \/ Saves(k, page.modal)

\* The saves in flight after the step were before, perhaps at an earlier point.
SavesFrom ==
    \A k \in calls' : IsSave(k) =>
        \E j \in calls : IsSave(j) /\ j.id = k.id /\ j.route = k.route

LEMMA SavesFromKeeps ==
    ASSUME OpenFormIsSaved, SavesFrom,
           page'.modal \in {page.modal, Nothing}, past'.overlap = past.overlap, past'.lostForm = past.lostForm
    PROVE  OpenFormIsSaved'
  BY DEF OpenFormIsSaved, SavesFrom, Saves

\* A request that moves on is what it was.
LEMMA SameSave ==
    ASSUME calls \subseteq Calls, NEW k \in calls, NEW at \in {"server", "checked", "back"}, NEW ok \in BOOLEAN
    PROVE  LET j == [k EXCEPT !.at = at, !.ok = ok]
               i == [k EXCEPT !.at = at]
           IN  /\ j.op = k.op /\ (IsSave(k) => j.id = k.id /\ j.route = k.route)
               /\ i.op = k.op /\ (IsSave(k) => i.id = k.id /\ i.route = k.route)
<1>1. CASE k \in Fetch
  BY <1>1 DEF Fetch, IsSave
<1>2. CASE k \in Save
  BY <1>2 DEF Save, IsSave
<1>3. CASE k \in Deletion
  BY <1>3 DEF Deletion, IsSave
<1> QED BY <1>1, <1>2, <1>3 DEF Calls

LEMMA AgedSaves ==
    ASSUME NEW cs \in SUBSET Calls, NEW k \in Aged(cs), IsSave(k)
    PROVE  k \in cs
<1>1. PICK j \in cs : k = IF j.op = "fetch" /\ j.at = "back" THEN [j EXCEPT !.old = TRUE] ELSE j
  BY DEF Aged
<1>2. CASE j.op = "fetch" /\ j.at = "back"
  <2>1. j \in Fetch
    BY <1>2, CallKinds
  <2>2. k.op = "fetch"
    BY <1>1, <1>2, <2>1 DEF Fetch
  <2> QED BY <2>2 DEF IsSave
<1> QED BY <1>1, <1>2

LEMMA MovesSaves ==
    ASSUME calls \subseteq Calls, NEW k \in calls, NEW j,
           Moves(k, j) \/ MovesAndAges(k, j),
           IsSave(j) => IsSave(k) /\ j.id = k.id /\ j.route = k.route
    PROVE  SavesFrom
<1> SUFFICES ASSUME NEW c \in calls', IsSave(c)
             PROVE  \E b \in calls : IsSave(b) /\ b.id = c.id /\ b.route = c.route
  BY DEF SavesFrom
<1>1. CASE c = j
  BY <1>1
<1>2. CASE c # j
  <2>1. c \in calls \/ c \in Aged(calls \ {k})
    BY <1>2 DEF Moves, MovesAndAges
  <2>2. c \in calls
    BY <2>1, AgedSaves
  <2> QED BY <2>2
<1> QED BY <1>1, <1>2

LEMMA OpenFormIsSavedAdmin ==
    ASSUME TypeOK, OpenFormIsSaved,
           \/ \E term \in Searches \cup {NoStop} : Search(term)
           \/ Debounce \/ ClearSearch \/ Retry \/ DismissError \/ ChangePage
           \/ handleAdd \/ handleCloseModal \/ FillForm \/ handleSubmit
           \/ \E r \in Ids : handleEdit(r) \/ AskDelete(r)
           \/ closeDeleteConfirm \/ confirmDeleteRoute
    PROVE  OpenFormIsSaved'
<1>0. page \in Page /\ past \in Past /\ calls \subseteq Calls
  BY DEF TypeOK, Calls
<1>1. ASSUME Act
      PROVE  past'.overlap = past.overlap /\ past'.lostForm = past.lostForm
  BY <1>0, <1>1 DEF Act, Past
<1>2. calls' = calls => SavesFrom
  BY DEF SavesFrom
<1>3. ASSUME NEW term, calls' = calls \cup RefetchOn(term) \/ calls' = calls \cup {fetchLocations(term)}
      PROVE  SavesFrom
  BY <1>3 DEF SavesFrom, RefetchOn, fetchLocations, IsSave
<1>4. ASSUME NEW p \in Page, NEW reset \in BOOLEAN
      PROVE  Rendered(p, reset).modal = p.modal
  BY <1>4 DEF Rendered, Page
<1>5. CASE \/ (\E term \in Searches \cup {NoStop} : Search(term)) \/ DismissError \/ Retry
           \/ handleCloseModal \/ (\E r \in Ids : AskDelete(r)) \/ closeDeleteConfirm
  <2>1. page'.modal \in {page.modal, Nothing}
    BY <1>0, <1>5 DEF Search, DismissError, Retry, handleCloseModal, AskDelete, closeDeleteConfirm, Page
  <2>2. Act /\ SavesFrom
    BY <1>2, <1>3, <1>5 DEF Search, DismissError, Retry, handleCloseModal, AskDelete, closeDeleteConfirm
  <2> QED BY <1>1, <2>1, <2>2, SavesFromKeeps
<1>6. CASE Debounce \/ ClearSearch
  <2>1. [page EXCEPT !.debouncedSearch = page.searchTerm, !.error = FALSE] \in Page
    BY <1>0 DEF Page
  <2>2. [page EXCEPT !.searchTerm = NoStop, !.debouncedSearch = NoStop, !.error = FALSE] \in Page
    BY <1>0 DEF Page, Term
  <2>3. page'.modal = page.modal
    BY <1>0, <1>4, <1>6, <2>1, <2>2 DEF Debounce, ClearSearch, Page
  <2>4. SavesFrom /\ (Act \/ UNCHANGED past)
    BY <1>3, <1>6 DEF Debounce, ClearSearch, Refetches
  <2> QED BY <1>1, <2>3, <2>4, SavesFromKeeps
<1>7. CASE ChangePage
  <2>1. \A n \in PageSizes : [page EXCEPT !.pageSize = n] \in Page
    BY <1>0 DEF Page
  <2>2. page'.modal = page.modal
    <3>1. CASE \E cp \in 1 .. TotalPages(Cardinality(DOMAIN page.locations), page.pageSize) :
                   page' = [page EXCEPT !.currentPage = cp]
      BY <1>0, <3>1 DEF Page
    <3>2. ASSUME NEW n \in PageSizes, page' = Rendered([page EXCEPT !.pageSize = n], TRUE)
          PROVE  page'.modal = page.modal
      <4>1. [page EXCEPT !.pageSize = n].modal = page.modal
        BY <1>0 DEF Page
      <4> QED BY <1>4, <2>1, <3>2, <4>1
    <3> QED BY <1>7, <3>1, <3>2 DEF ChangePage
  <2> QED BY <1>1, <1>2, <1>7, <2>2, SavesFromKeeps DEF ChangePage
<1>8. CASE confirmDeleteRoute
  <2>1. page'.modal = page.modal
    BY <1>0, <1>8 DEF confirmDeleteRoute, Page
  <2>2. SavesFrom
    BY <1>8 DEF confirmDeleteRoute, SavesFrom, IsSave
  <2> QED BY <1>1, <1>8, <2>1, <2>2, SavesFromKeeps DEF confirmDeleteRoute
<1>9. ASSUME ActOnForm
      PROVE  past'.overlap = Saving /\ ~past'.lostForm
  BY <1>0, <1>9 DEF ActOnForm, Past
<1>10. CASE handleAdd \/ FillForm \/ \E r \in Ids : handleEdit(r)
  <2>1. ActOnForm /\ calls' = calls
    BY <1>10 DEF handleAdd, FillForm, handleEdit, OpenForm
  <2> QED BY <1>9, <2>1 DEF OpenFormIsSaved, Saving, IsSave
<1>11. CASE handleSubmit
  <2> DEFINE k == [op |-> IF page.modal.id = New THEN "create" ELSE "update", term |-> page.debouncedSearch,
                   at |-> "server", ok |-> FALSE, id |-> page.modal.id,
                   route |-> [from |-> page.modal.from, to |-> page.modal.to, fare |-> page.modal.fare]]
  <2>1. ActOnForm /\ calls' = calls \cup {k} /\ page' = page
    BY <1>11 DEF handleSubmit
  <2>2. Saves(k, page.modal)
    BY DEF Saves
  <2> HIDE DEF k
  <2>3. ASSUME ~past'.overlap, NEW c \in calls', IsSave(c)
        PROVE  Saves(c, page.modal)
    <3>1. ~Saving
      BY <1>9, <2>1, <2>3
    <3>2. c = k
      BY <2>1, <2>3, <3>1 DEF Saving, IsSave
    <3> QED BY <2>2, <3>2
  <2> QED BY <1>9, <2>1, <2>3 DEF OpenFormIsSaved, Saves
<1> QED BY <1>5, <1>6, <1>7, <1>8, <1>10, <1>11

LEMMA OpenFormIsSavedStep ==
    ASSUME TypeOK, OpenFormIsSaved, [Next]_vars
    PROVE  OpenFormIsSaved'
<1>0. page \in Page /\ past \in Past /\ calls \subseteq Calls
  BY DEF TypeOK, Calls
<1>1. CASE UNCHANGED vars
  BY <1>1 DEF vars, OpenFormIsSaved, Saves
<1>2. ASSUME NEW k \in calls,
             \/ GetRideLocations(k) \/ CheckRoute(k) \/ CreateRideLocation(k) \/ UpdateRideLocation(k)
             \/ DeleteRideLocation(k) \/ RequestFails(k)
      PROVE  OpenFormIsSaved'
  <2> DEFINE Kept == page' = page /\ past'.overlap = past.overlap /\ past'.lostForm = past.lostForm
  <2>1. ASSUME Refuse(k)
        PROVE  Kept /\ SavesFrom
    BY <1>0, <2>1, SameSave, MovesSaves DEF Refuse, IsSave
  <2>2. ASSUME NEW j, Moves(k, j) \/ MovesAndAges(k, j),
               j = [k EXCEPT !.at = "back", !.ok = TRUE] \/ j = [k EXCEPT !.at = "back", !.ok = FALSE]
               \/ j = [k EXCEPT !.at = "checked"]
        PROVE  SavesFrom
    <3>1. IsSave(j) => IsSave(k) /\ j.id = k.id /\ j.route = k.route
      BY <1>0, <2>2, SameSave, ZenonT(40) DEF IsSave
    <3> QED BY <1>0, <2>2, <3>1, MovesSaves
  <2>3. CASE GetRideLocations(k)
    <3> DEFINE j == [k EXCEPT !.at = "back", !.ok = TRUE, !.rows = Matching(table, k.term)]
    <3>1. k \in Fetch
      BY <1>0, <2>3, CallKinds DEF GetRideLocations
    <3>2. j.op = "fetch"
      BY <3>1 DEF Fetch
    <3>3. Moves(k, j) /\ Kept
      BY <2>3 DEF GetRideLocations
    <3> HIDE DEF j
    <3>4. SavesFrom
      BY <1>0, <3>2, <3>3, MovesSaves DEF IsSave
    <3> QED BY <3>3, <3>4, SavesFromKeeps
  <2>4. CASE CheckRoute(k)
    BY <2>1, <2>2, <2>4, SavesFromKeeps DEF CheckRoute
  <2>5. CASE CreateRideLocation(k)
    <3>1. CASE Refuse(k)
      BY <2>1, <3>1, SavesFromKeeps
    <3>2. ASSUME NEW r \in Ids, past' = [past EXCEPT !.used = @ \cup {r}],
                 MovesAndAges(k, [k EXCEPT !.at = "back", !.ok = TRUE]), UNCHANGED page
          PROVE  OpenFormIsSaved'
      <4>1. Kept
        BY <1>0, <3>2 DEF Past
      <4> QED BY <2>2, <3>2, <4>1, SavesFromKeeps
    <3> QED BY <2>5, <3>1, <3>2 DEF CreateRideLocation
  <2>6. CASE UpdateRideLocation(k)
    BY <2>1, <2>2, <2>6, SavesFromKeeps DEF UpdateRideLocation
  <2>7. CASE DeleteRideLocation(k)
    BY <2>1, <2>2, <2>7, SavesFromKeeps DEF DeleteRideLocation
  <2>8. CASE RequestFails(k)
    <3>1. Kept
      BY <1>0, <2>8 DEF RequestFails, Past
    <3> QED BY <2>2, <2>8, <3>1, SavesFromKeeps DEF RequestFails
  <2> QED BY <1>2, <2>3, <2>4, <2>5, <2>6, <2>7, <2>8
<1>3. CASE OtherAdminWrites
  <2>1. page' = page /\ past'.overlap = past.overlap /\ past'.lostForm = past.lostForm
    BY <1>0, <1>3 DEF OtherAdminWrites, Past
  <2>2. SavesFrom
    BY <1>0, <1>3, AgedSaves DEF OtherAdminWrites, SavesFrom
  <2> QED BY <2>1, <2>2, SavesFromKeeps
<1>4. ASSUME NEW k \in calls, FetchAnswers(k) \/ DeleteAnswers(k)
      PROVE  OpenFormIsSaved'
  <2>1. ASSUME NEW p \in Page, NEW reset \in BOOLEAN
        PROVE  Rendered(p, reset).modal = p.modal
    BY DEF Rendered, Page
  <2>2. page'.modal = page.modal
    <3>1. CASE FetchAnswers(k)
      <4>1. k \in Fetch
        BY <1>0, <3>1, CallKinds DEF FetchAnswers
      <4>2. [page EXCEPT !.locations = k.rows, !.initialFetchDone = TRUE] \in Page
        BY <1>0, <4>1 DEF Fetch, Page
      <4> QED BY <1>0, <2>1, <3>1, <4>2 DEF FetchAnswers, Page
    <3>2. CASE DeleteAnswers(k)
      <4> DEFINE rows == Without(page.locations, k.id)
                 p == [page EXCEPT !.locations = rows, !.pendingDelete = New, !.deleteSubmitting = FALSE]
      <4>1. rows \in TableOf(Route)
        BY <1>0, TableLess DEF Without, Page
      <4>2. page' = Rendered(p, FALSE) \/ page' = [page EXCEPT !.deleteSubmitting = FALSE]
        BY <3>2 DEF DeleteAnswers
      <4> HIDE DEF rows
      <4>3. p \in Page /\ p.modal = page.modal
        BY <1>0, <4>1 DEF Page
      <4>4. [page EXCEPT !.deleteSubmitting = FALSE].modal = page.modal
        BY <1>0 DEF Page
      <4> HIDE DEF p
      <4> QED BY <2>1, <4>2, <4>3, <4>4
    <3> QED BY <1>4, <3>1, <3>2
  <2>3. calls' \subseteq calls
    BY <1>4 DEF FetchAnswers, DeleteAnswers
  <2>4. past'.overlap = past.overlap /\ past'.lostForm = past.lostForm
    BY <1>0, <1>4 DEF FetchAnswers, DeleteAnswers, Past
  <2>5. SavesFrom
    BY <2>3 DEF SavesFrom
  <2> QED BY <2>2, <2>4, <2>5, SavesFromKeeps
<1>5. ASSUME NEW k \in calls, SaveAnswers(k)
      PROVE  OpenFormIsSaved'
  <2>1. k \in Save
    BY <1>0, <1>5, CallKinds DEF SaveAnswers
  <2>2. page'.modal = (IF k.ok THEN Nothing ELSE page.modal)
    BY <1>0, <1>5 DEF SaveAnswers, ClosesForm, Page
  <2>3. past'.overlap = past.overlap
    BY <1>0, <1>5 DEF SaveAnswers, Past
  <2>4. past'.lostForm = (past.lostForm \/ (k.ok /\ page.modal # Nothing /\ ~(k.ok /\ Saves(k, page.modal))))
    BY <1>0, <1>5 DEF SaveAnswers, ClosesForm, Saves, Past
  <2>5. SavesFrom
    BY <1>5 DEF SaveAnswers, SavesFrom, fetchLocations, IsSave
  <2>6. ~past.overlap => ~past'.lostForm
    BY <1>5, <2>4 DEF OpenFormIsSaved, SaveAnswers, IsSave
  <2> QED BY <2>2, <2>3, <2>5, <2>6 DEF OpenFormIsSaved, SavesFrom, Saves
<1>6. CASE Next
  BY <1>6, <1>2, <1>3, <1>4, <1>5, OpenFormIsSavedAdmin DEF Next
<1> QED BY <1>1, <1>6

LEMMA OpenFormIsSavedInit == Init => OpenFormIsSaved
  BY DEF Init, NoPast, MountCalls, fetchLocations, OpenFormIsSaved, IsSave

\* A form is closed unstored only if it overlapped with another save.
THEOREM RouteFormLostToOverlap == Spec => []FormLostOnlyToOverlap
<1>1. Init => OpenFormIsSaved
  BY OpenFormIsSavedInit
<1>2. TypeOK /\ OpenFormIsSaved /\ [Next]_vars => OpenFormIsSaved'
  BY OpenFormIsSavedStep
<1>3. OpenFormIsSaved /\ TypeOK => FormLostOnlyToOverlap
  BY DEF OpenFormIsSaved, FormLostOnlyToOverlap
<1> QED BY <1>1, <1>2, <1>3, RoutesTyped, PTL DEF Spec

-----------------------------------------------------------------------------
(* The list and the table. *)

\* The deletions that the page has not heard of yet.
IsGone(k) == k.op = "delete" /\ k.at = "back" /\ k.ok
GoneUnheard == {k.id : k \in {k \in calls : IsGone(k)}}

WithoutAll(rows, D) == [q \in DOMAIN rows \ D |-> rows[q]]

\* An answer will replace the list: a fetch is in flight, or a save whose handler fetches.
IsStored(k) == IsSave(k) /\ k.at = "back" /\ k.ok
ListWillChange == \E k \in calls : k.op = "fetch" \/ IsStored(k)

\* Ids are given out once: what is deleted stays deleted.
IdsGoneForGood ==
    /\ DOMAIN table \subseteq past.used /\ DOMAIN page.locations \subseteq past.used
    /\ page.pendingDelete \in past.used \cup {New}
    /\ \A k \in calls :
           /\ k.op = "fetch" => DOMAIN k.rows \subseteq past.used
           /\ k.op = "delete" => k.id \in past.used /\ (k.at = "back" /\ k.ok => k.id \notin DOMAIN table)

\* An answer that is not old has what the server has for its term.
FreshAnswers ==
    \A k \in calls : k.op = "fetch" /\ k.at = "back" /\ k.ok /\ ~k.old => k.rows = Matching(table, k.term)

\* The list has what the server has for its term, up to the deletions it has not heard
\* of, unless that is unsure or an answer will replace it.
ListAccountedFor ==
    ~past.unsure /\ ~ListWillChange => WithoutAll(page.locations, GoneUnheard) = Matching(table, page.debouncedSearch)

Current == IdsGoneForGood /\ FreshAnswers /\ ListAccountedFor

\* What a request is after it has moved on, and after it has aged.
LEMMA MovedOn ==
    ASSUME NEW k \in Calls, NEW ok \in BOOLEAN
    PROVE  LET j == [k EXCEPT !.at = "back", !.ok = ok]
               i == [k EXCEPT !.at = "back"]
           IN  /\ j.op = k.op /\ j.at = "back" /\ j.ok = ok
               /\ i.op = k.op /\ i.at = "back" /\ i.ok = k.ok
               /\ k.op = "delete" => j.id = k.id /\ i.id = k.id
               /\ k.op = "fetch" => j.rows = k.rows /\ j.term = k.term /\ j.old = k.old
<1>1. CASE k \in Fetch
  BY <1>1 DEF Fetch
<1>2. CASE k \in Save
  BY <1>2 DEF Save
<1>3. CASE k \in Deletion
  BY <1>3 DEF Deletion
<1> QED BY <1>1, <1>2, <1>3 DEF Calls

LEMMA CheckedOn ==
    ASSUME NEW k \in Calls
    PROVE  [k EXCEPT !.at = "checked"].op = k.op /\ [k EXCEPT !.at = "checked"].at = "checked"
  BY DEF Calls, Fetch, Save, Deletion

LEMMA AgedFrom ==
    ASSUME NEW cs \in SUBSET Calls, NEW k \in Aged(cs)
    PROVE  /\ k.op # "fetch" => k \in cs
           /\ k.op = "fetch" => /\ k.at = "back" => k.old
                                /\ \E j \in cs : j.op = "fetch" /\ j.rows = k.rows
<1>1. PICK j \in cs : k = IF j.op = "fetch" /\ j.at = "back" THEN [j EXCEPT !.old = TRUE] ELSE j
  BY DEF Aged
<1>2. CASE j.op = "fetch" /\ j.at = "back"
  <2>1. j \in Fetch
    BY <1>2, CallKinds
  <2>2. k.op = "fetch" /\ k.old /\ k.rows = j.rows
    BY <1>1, <1>2, <2>1 DEF Fetch
  <2> QED BY <1>2, <2>2
<1>3. CASE ~(j.op = "fetch" /\ j.at = "back")
  BY <1>1, <1>3
<1> QED BY <1>2, <1>3

LEMMA AgedInto ==
    ASSUME NEW cs \in SUBSET Calls, NEW j \in cs
    PROVE  /\ j.op # "fetch" => j \in Aged(cs)
           /\ j.op = "fetch" => \E k \in Aged(cs) : k.op = "fetch"
<1> DEFINE k == IF j.op = "fetch" /\ j.at = "back" THEN [j EXCEPT !.old = TRUE] ELSE j
<1>1. k \in Aged(cs)
  BY DEF Aged
<1>2. j.op = "fetch" => k.op = "fetch"
  <2>1. j.op = "fetch" => j \in Fetch
    BY CallKinds
  <2> QED BY <2>1 DEF Fetch
<1> QED BY <1>1, <1>2

-----------------------------------------------------------------------------
(* Deleted routes. *)

\* What IdsGoneForGood says of a request.
IdKnown(k, t, used) ==
    /\ k.op = "fetch" => DOMAIN k.rows \subseteq used
    /\ k.op = "delete" => k.id \in used /\ (k.at = "back" /\ k.ok => k.id \notin DOMAIN t)

LEMMA IdsGoneKept ==
    ASSUME IdsGoneForGood, UNCHANGED table, past'.used = past.used,
           DOMAIN page'.locations \subseteq past.used, page'.pendingDelete \in past.used \cup {New},
           \A k \in calls' : k \in calls \/ IdKnown(k, table, past.used)
    PROVE  IdsGoneForGood'
  BY DEF IdsGoneForGood, IdKnown

LEMMA IdsGoneAdmin ==
    ASSUME TypeOK, IdsGoneForGood,
           \/ \E term \in Searches \cup {NoStop} : Search(term)
           \/ Debounce \/ ClearSearch \/ Retry \/ DismissError \/ ChangePage
           \/ handleAdd \/ handleCloseModal \/ FillForm \/ handleSubmit
           \/ \E r \in Ids : handleEdit(r) \/ AskDelete(r)
           \/ closeDeleteConfirm \/ confirmDeleteRoute
    PROVE  IdsGoneForGood' /\ UNCHANGED table /\ past'.unsure = past.unsure
<1>0. page \in Page /\ past \in Past
  BY DEF TypeOK
<1>1. UNCHANGED table
  BY DEF Search, Debounce, ClearSearch, Retry, DismissError, ChangePage, handleAdd, handleCloseModal,
         FillForm, handleSubmit, handleEdit, AskDelete, closeDeleteConfirm, confirmDeleteRoute, OpenForm
<1>2. Act \/ ActOnForm \/ UNCHANGED past
  BY DEF Search, Debounce, ClearSearch, Retry, DismissError, ChangePage, handleAdd, handleCloseModal,
         FillForm, handleSubmit, handleEdit, AskDelete, closeDeleteConfirm, confirmDeleteRoute, OpenForm
<1>3. past'.used = past.used /\ past'.unsure = past.unsure
  BY <1>0, <1>2 DEF Act, ActOnForm, Past
<1>4. \A term : IdKnown(fetchLocations(term), table, past.used)
  BY DEF IdKnown, fetchLocations
<1>5. ASSUME NEW p \in Page, NEW reset \in BOOLEAN
      PROVE  Rendered(p, reset).locations = p.locations /\ Rendered(p, reset).pendingDelete = p.pendingDelete
  BY DEF Rendered, Page
<1> DEFINE Same == page'.locations = page.locations /\ page'.pendingDelete = page.pendingDelete
<1>6. ASSUME Same, \A k \in calls' : k \in calls \/ IdKnown(k, table, past.used)
      PROVE  IdsGoneForGood'
  <2>1. DOMAIN page.locations \subseteq past.used /\ page.pendingDelete \in past.used \cup {New}
    BY DEF IdsGoneForGood
  <2> QED BY <1>1, <1>3, <1>6, <2>1, IdsGoneKept
<1>7. CASE Debounce \/ ClearSearch
  <2>1. [page EXCEPT !.debouncedSearch = page.searchTerm, !.error = FALSE] \in Page
    BY <1>0 DEF Page
  <2>2. [page EXCEPT !.searchTerm = NoStop, !.debouncedSearch = NoStop, !.error = FALSE] \in Page
    BY <1>0 DEF Page, Term
  <2>3. Same
    <3>1. ASSUME NEW p \in Page, p.locations = page.locations, p.pendingDelete = page.pendingDelete,
                 page' = Rendered(p, TRUE)
          PROVE  Same
      BY <1>5, <3>1
    <3>2. \A p : p = [page EXCEPT !.debouncedSearch = page.searchTerm, !.error = FALSE]
                \/ p = [page EXCEPT !.searchTerm = NoStop, !.debouncedSearch = NoStop, !.error = FALSE]
              => p.locations = page.locations /\ p.pendingDelete = page.pendingDelete
      BY <1>0 DEF Page
    <3> HIDE DEF Same
    <3> QED BY <1>7, <2>1, <2>2, <3>1, <3>2 DEF Debounce, ClearSearch
  <2>4. \A k \in calls' : k \in calls \/ IdKnown(k, table, past.used)
    <3>1. \A term : RefetchOn(term) \subseteq {fetchLocations(term)}
      BY DEF RefetchOn
    <3>2. PICK term : calls' \subseteq calls \cup {fetchLocations(term)}
      BY <1>7, <3>1 DEF Debounce, ClearSearch, Refetches
    <3> QED BY <1>4, <3>2
  <2> QED BY <1>1, <1>3, <1>6, <2>3, <2>4
<1>8. CASE ChangePage
  <2>1. CASE \E cp \in 1 .. TotalPages(Cardinality(DOMAIN page.locations), page.pageSize) :
                 page' = [page EXCEPT !.currentPage = cp]
    <3>1. Same
      BY <1>0, <2>1 DEF Page
    <3> QED BY <1>1, <1>3, <1>6, <1>8, <3>1 DEF ChangePage
  <2>2. ASSUME NEW n \in PageSizes, page' = Rendered([page EXCEPT !.pageSize = n], TRUE)
        PROVE  Same
    <3>1. /\ [page EXCEPT !.pageSize = n] \in Page
          /\ [page EXCEPT !.pageSize = n].locations = page.locations
          /\ [page EXCEPT !.pageSize = n].pendingDelete = page.pendingDelete
      BY <1>0 DEF Page
    <3> QED BY <1>5, <2>2, <3>1
  <2> QED BY <1>1, <1>3, <1>6, <1>8, <2>1, <2>2 DEF ChangePage
<1>9. CASE \/ (\E term \in Searches \cup {NoStop} : Search(term)) \/ DismissError \/ Retry \/ handleCloseModal
           \/ handleAdd \/ FillForm \/ (\E r \in Ids : handleEdit(r)) \/ handleSubmit
  <2>1. Same
    <3>1. CASE (\E term \in Searches \cup {NoStop} : Search(term)) \/ DismissError \/ Retry \/ handleCloseModal
      BY <1>0, <3>1 DEF Search, DismissError, Retry, handleCloseModal, Page
    <3>2. CASE handleAdd \/ FillForm \/ (\E r \in Ids : handleEdit(r)) \/ handleSubmit
      BY <1>0, <3>2 DEF handleAdd, FillForm, handleEdit, OpenForm, handleSubmit, Page
    <3> QED BY <1>9, <3>1, <3>2
  <2>2. \A k \in calls' : k \in calls \/ IdKnown(k, table, past.used)
    <3>1. CASE handleSubmit
      BY <3>1 DEF handleSubmit, IdKnown
    <3>2. CASE ~handleSubmit
      BY <1>4, <1>9, <3>2 DEF Search, DismissError, Retry, handleCloseModal, handleAdd, FillForm, handleEdit, OpenForm
    <3> QED BY <3>1, <3>2
  <2> QED BY <1>1, <1>3, <1>6, <2>1, <2>2
<1>10. CASE (\E r \in Ids : AskDelete(r)) \/ closeDeleteConfirm
  <2>1. page'.locations = page.locations /\ page'.pendingDelete \in DOMAIN page.locations \cup {New}
    BY <1>0, <1>10 DEF AskDelete, closeDeleteConfirm, paginatedLocations, Page
  <2>2. calls' = calls
    BY <1>10 DEF AskDelete, closeDeleteConfirm
  <2>3. DOMAIN page.locations \subseteq past.used
    BY DEF IdsGoneForGood
  <2> QED BY <1>1, <1>3, <2>1, <2>2, <2>3, IdsGoneKept
<1>11. CASE confirmDeleteRoute
  <2>1. Same
    BY <1>0, <1>11 DEF confirmDeleteRoute, Page
  <2>2. page.pendingDelete \in past.used
    BY <1>11 DEF confirmDeleteRoute, IdsGoneForGood
  <2>3. \A k \in calls' : k \in calls \/ IdKnown(k, table, past.used)
    BY <1>11, <2>2 DEF confirmDeleteRoute, IdKnown
  <2> QED BY <1>1, <1>3, <1>6, <2>1, <2>3
<1> QED BY <1>7, <1>8, <1>9, <1>10, <1>11

\* A step on the table: what is in it afterwards was in it, or has a number nobody had.
LEMMA IdsGoneWritten ==
    ASSUME TypeOK, IdsGoneForGood, UNCHANGED page, past.used \subseteq past'.used,
           DOMAIN table' \subseteq past'.used, DOMAIN table' \cap past.used \subseteq DOMAIN table,
           \A k \in calls' : \/ k \in calls
                             \/ k.op = "fetch" /\ \E j \in calls : j.op = "fetch" /\ j.rows = k.rows
                             \/ IdKnown(k, table', past'.used)
    PROVE  IdsGoneForGood'
<1>1. \A k \in calls : IdKnown(k, table, past.used)
  BY DEF IdsGoneForGood, IdKnown
<1>2. \A k \in calls : IdKnown(k, table', past'.used)
  BY <1>1 DEF IdKnown
<1>3. \A k \in calls' : IdKnown(k, table', past'.used)
  BY <1>2 DEF IdKnown
<1> QED BY <1>3 DEF IdsGoneForGood, IdKnown

\* A request on its way through the server, with the table as it was or changed.
Passes(k, j) == Moves(k, j) \/ MovesAndAges(k, j)

LEMMA PassesFrom ==
    ASSUME calls \subseteq Calls, NEW k \in calls, NEW j, Passes(k, j)
    PROVE  \A c \in calls' : \/ c = j
                             \/ c \in calls
                             \/ c.op = "fetch" /\ \E b \in calls : b.op = "fetch" /\ b.rows = c.rows
  BY AgedFrom DEF Passes, Moves, MovesAndAges

LEMMA IdsGoneRefused ==
    ASSUME TypeOK, IdsGoneForGood, NEW k \in calls, Refuse(k), k.op = "delete" => k.id \notin DOMAIN table
    PROVE  IdsGoneForGood'
<1>0. calls \subseteq Calls
  BY DEF TypeOK, Calls
<1> DEFINE j == [k EXCEPT !.at = "back"]
<1>1. j.op = k.op /\ (k.op = "delete" => j.id = k.id) /\ (k.op = "fetch" => j.rows = k.rows)
  <2>1. k.op = "fetch" => k \in Fetch
    BY <1>0, CallKinds
  <2> QED BY <1>0, <2>1, MovedOn DEF Fetch
<1> HIDE DEF j
<1>2. Passes(k, j) /\ UNCHANGED <<table, page, past>>
  BY DEF Refuse, Passes, j
<1>3. IdKnown(j, table, past.used)
  BY <1>1 DEF IdsGoneForGood, IdKnown
<1>4. DOMAIN table \subseteq past.used
  BY DEF IdsGoneForGood
<1> QED BY <1>0, <1>2, <1>3, <1>4, PassesFrom, IdsGoneWritten

LEMMA IdsGoneServer ==
    ASSUME TypeOK, IdsGoneForGood,
           \/ OtherAdminWrites
           \/ \E k \in calls :
                 \/ GetRideLocations(k) \/ CheckRoute(k) \/ CreateRideLocation(k) \/ UpdateRideLocation(k)
                 \/ DeleteRideLocation(k) \/ RequestFails(k)
    PROVE  IdsGoneForGood'
<1>0. calls \subseteq Calls /\ past \in Past /\ table \in TableOf(Route) /\ DOMAIN table \subseteq past.used
  BY DEF TypeOK, Calls, IdsGoneForGood
<1>1. ASSUME NEW k \in calls, NEW j, Passes(k, j), UNCHANGED page, past'.used = past.used,
             DOMAIN table' \subseteq DOMAIN table, IdKnown(j, table', past.used)
      PROVE  IdsGoneForGood'
  BY <1>0, <1>1, PassesFrom, IdsGoneWritten
<1>2. ASSUME NEW k \in calls, NEW ok \in BOOLEAN, k.op = "delete" => ~ok \/ k.id \notin DOMAIN table'
      PROVE  IdKnown([k EXCEPT !.at = "back", !.ok = ok], table', past.used)
  BY <1>0, <1>2, MovedOn DEF IdsGoneForGood, IdKnown
<1>3. CASE OtherAdminWrites
  <2>1. UNCHANGED page /\ past'.used = past.used
    BY <1>0, <1>3 DEF OtherAdminWrites, Past
  <2>2. DOMAIN table' \subseteq DOMAIN table
    BY <1>3 DEF OtherAdminWrites
  <2>3. \A c \in calls' : \/ c \in calls
                          \/ c.op = "fetch" /\ \E b \in calls : b.op = "fetch" /\ b.rows = c.rows
    BY <1>0, <1>3, AgedFrom DEF OtherAdminWrites
  <2> QED BY <1>0, <2>1, <2>2, <2>3, IdsGoneWritten
<1>4. ASSUME NEW k \in calls, GetRideLocations(k)
      PROVE  IdsGoneForGood'
  <2> DEFINE j == [k EXCEPT !.at = "back", !.ok = TRUE, !.rows = Matching(table, k.term)]
  <2>1. j.op = "fetch" /\ j.rows = Matching(table, k.term)
    <3>1. k \in Fetch
      BY <1>0, <1>4, CallKinds DEF GetRideLocations
    <3> QED BY <3>1 DEF Fetch
  <2>2. Passes(k, j) /\ UNCHANGED <<table, page, past>>
    BY <1>4 DEF GetRideLocations, Passes
  <2> HIDE DEF j
  <2>3. DOMAIN j.rows \subseteq DOMAIN table
    BY <2>1 DEF Matching
  <2>4. IdKnown(j, table, past.used)
    BY <1>0, <2>1, <2>3 DEF IdKnown
  <2> QED BY <1>1, <2>2, <2>4
<1>5. ASSUME NEW k \in calls, CheckRoute(k)
      PROVE  IdsGoneForGood'
  <2>1. CASE Refuse(k)
    BY <1>5, <2>1, IdsGoneRefused DEF CheckRoute
  <2>2. CASE Moves(k, [k EXCEPT !.at = "checked"]) /\ UNCHANGED <<table, page, past>>
    <3>1. [k EXCEPT !.at = "checked"].op \notin {"fetch", "delete"}
      BY <1>0, <1>5, CheckedOn DEF CheckRoute
    <3>2. IdKnown([k EXCEPT !.at = "checked"], table, past.used)
      BY <3>1 DEF IdKnown
    <3> QED BY <1>1, <2>2, <3>2 DEF Passes
  <2> QED BY <1>5, <2>1, <2>2 DEF CheckRoute
<1>6. ASSUME NEW k \in calls, CreateRideLocation(k)
      PROVE  IdsGoneForGood'
  <2>1. CASE Refuse(k)
    BY <1>6, <2>1, IdsGoneRefused DEF CreateRideLocation
  <2>2. ASSUME NEW r \in Ids, \A q \in past.used : q < r, DOMAIN table' = DOMAIN table \cup {r},
               past' = [past EXCEPT !.used = @ \cup {r}],
               MovesAndAges(k, [k EXCEPT !.at = "back", !.ok = TRUE]), UNCHANGED page
        PROVE  IdsGoneForGood'
    <3>1. past'.used = past.used \cup {r}
      BY <1>0, <2>2 DEF Past
    <3>2. r \notin past.used
      <4>1. r \in Nat
        BY RoutesInputs
      <4> QED BY <2>2, <4>1
    <3>3. [k EXCEPT !.at = "back", !.ok = TRUE].op \notin {"fetch", "delete"}
      BY <1>0, <1>6, MovedOn DEF CreateRideLocation
    <3>4. IdKnown([k EXCEPT !.at = "back", !.ok = TRUE], table', past'.used)
      BY <3>3 DEF IdKnown
    <3>5. past.used \subseteq past'.used /\ DOMAIN table' \subseteq past'.used /\ DOMAIN table' \cap past.used \subseteq DOMAIN table
      BY <1>0, <2>2, <3>1, <3>2
    <3>6. Passes(k, [k EXCEPT !.at = "back", !.ok = TRUE])
      BY <2>2 DEF Passes
    <3> QED BY <1>0, <2>2, <3>4, <3>5, <3>6, PassesFrom, IdsGoneWritten, SMTT(30)
  <2>3. Refuse(k) \/ \E r \in Ids :
            /\ \A q \in past.used : q < r
            /\ DOMAIN table' = DOMAIN table \cup {r}
            /\ past' = [past EXCEPT !.used = @ \cup {r}]
            /\ MovesAndAges(k, [k EXCEPT !.at = "back", !.ok = TRUE])
            /\ UNCHANGED page
    BY <1>6 DEF CreateRideLocation
  <2> QED BY <2>1, <2>2, <2>3
<1>7. ASSUME NEW k \in calls, UpdateRideLocation(k)
      PROVE  IdsGoneForGood'
  <2>1. CASE Refuse(k)
    BY <1>7, <2>1, IdsGoneRefused DEF UpdateRideLocation
  <2>2. CASE ~Refuse(k)
    <3>1. /\ DOMAIN table' = DOMAIN table /\ UNCHANGED <<page, past>>
          /\ Passes(k, [k EXCEPT !.at = "back", !.ok = TRUE])
      BY <1>7, <2>2 DEF UpdateRideLocation, Passes
    <3>2. IdKnown([k EXCEPT !.at = "back", !.ok = TRUE], table', past.used)
      BY <1>2, <1>7 DEF UpdateRideLocation
    <3> QED BY <1>1, <3>1, <3>2
  <2> QED BY <2>1, <2>2
<1>8. ASSUME NEW k \in calls, DeleteRideLocation(k)
      PROVE  IdsGoneForGood'
  <2>1. CASE Refuse(k) /\ k.id \notin DOMAIN table
    BY <2>1, IdsGoneRefused
  <2>2. CASE ~(Refuse(k) /\ k.id \notin DOMAIN table)
    <3>1. /\ DOMAIN table' = DOMAIN table \ {k.id} /\ UNCHANGED <<page, past>>
          /\ Passes(k, [k EXCEPT !.at = "back", !.ok = TRUE])
      BY <1>8, <2>2 DEF DeleteRideLocation, Passes
    <3>2. IdKnown([k EXCEPT !.at = "back", !.ok = TRUE], table', past.used)
      BY <1>2, <3>1
    <3> QED BY <1>1, <3>1, <3>2
  <2> QED BY <2>1, <2>2
<1>9. ASSUME NEW k \in calls, RequestFails(k)
      PROVE  IdsGoneForGood'
  <2>1. UNCHANGED <<table, page>> /\ past'.used = past.used /\ Passes(k, [k EXCEPT !.at = "back", !.ok = FALSE])
    BY <1>0, <1>9 DEF RequestFails, Passes, Past
  <2>2. IdKnown([k EXCEPT !.at = "back", !.ok = FALSE], table', past.used)
    BY <1>2
  <2> QED BY <1>1, <2>1, <2>2
<1> QED BY <1>3, <1>4, <1>5, <1>6, <1>7, <1>8, <1>9

LEMMA IdsGoneAnswers ==
    ASSUME TypeOK, IdsGoneForGood, NEW k \in calls, FetchAnswers(k) \/ SaveAnswers(k) \/ DeleteAnswers(k)
    PROVE  IdsGoneForGood'
<1>0. page \in Page /\ calls \subseteq Calls /\ past \in Past
  BY DEF TypeOK, Calls
<1>1. ASSUME NEW p \in Page, NEW reset \in BOOLEAN
      PROVE  Rendered(p, reset).locations = p.locations /\ Rendered(p, reset).pendingDelete = p.pendingDelete
  BY DEF Rendered, Page
<1>2. UNCHANGED table /\ past'.used = past.used
  <2>1. UNCHANGED table
    BY DEF FetchAnswers, SaveAnswers, DeleteAnswers
  <2>2. past'.used = past.used
    <3>1. CASE FetchAnswers(k)
      BY <1>0, <3>1 DEF FetchAnswers, Past
    <3>2. CASE SaveAnswers(k)
      BY <1>0, <3>2 DEF SaveAnswers, Past
    <3>3. CASE DeleteAnswers(k)
      BY <3>3 DEF DeleteAnswers
    <3> QED BY <3>1, <3>2, <3>3
  <2> QED BY <2>1, <2>2
<1>3. \A c \in calls' : c \in calls \/ IdKnown(c, table, past.used)
  <2>1. \A term : IdKnown(fetchLocations(term), table, past.used)
    BY DEF IdKnown, fetchLocations
  <2>2. \E term : calls' \subseteq calls \cup {fetchLocations(term)}
    BY DEF FetchAnswers, SaveAnswers, DeleteAnswers
  <2> QED BY <2>1, <2>2
<1>4. DOMAIN page.locations \subseteq past.used /\ page.pendingDelete \in past.used \cup {New}
  BY DEF IdsGoneForGood
<1>5. DOMAIN page'.locations \subseteq past.used /\ page'.pendingDelete \in past.used \cup {New}
  <2>1. CASE FetchAnswers(k)
    <3>1. k \in Fetch /\ DOMAIN k.rows \subseteq past.used
      BY <1>0, <2>1, CallKinds DEF FetchAnswers, IdsGoneForGood
    <3> DEFINE p == [page EXCEPT !.locations = k.rows, !.initialFetchDone = TRUE]
               e == [page EXCEPT !.error = TRUE, !.initialFetchDone = TRUE]
    <3>2. p \in Page /\ p.locations = k.rows /\ p.pendingDelete = page.pendingDelete
      BY <1>0, <3>1 DEF Fetch, Page
    <3>3. e.locations = page.locations /\ e.pendingDelete = page.pendingDelete
      BY <1>0 DEF Page
    <3>4. page' = Rendered(p, FALSE) \/ page' = e
      BY <2>1 DEF FetchAnswers
    <3> HIDE DEF p, e
    <3> QED BY <1>1, <1>4, <3>1, <3>2, <3>3, <3>4
  <2>2. CASE SaveAnswers(k)
    <3>1. page'.locations = page.locations /\ page'.pendingDelete = page.pendingDelete
      BY <1>0, <2>2 DEF SaveAnswers, Page
    <3> QED BY <1>4, <3>1
  <2>3. CASE DeleteAnswers(k)
    <3> DEFINE rows == Without(page.locations, k.id)
               p == [page EXCEPT !.locations = rows, !.pendingDelete = New, !.deleteSubmitting = FALSE]
               e == [page EXCEPT !.deleteSubmitting = FALSE]
    <3>1. rows \in TableOf(Route) /\ DOMAIN rows \subseteq DOMAIN page.locations
      BY <1>0, TableLess DEF Without, Page
    <3>2. page' = Rendered(p, FALSE) \/ page' = e
      BY <2>3 DEF DeleteAnswers
    <3> HIDE DEF rows
    <3>3. p \in Page /\ p.locations = rows /\ p.pendingDelete = New
      BY <1>0, <3>1 DEF Page
    <3>4. e.locations = page.locations /\ e.pendingDelete = page.pendingDelete
      BY <1>0 DEF Page
    <3> HIDE DEF p, e
    <3> QED BY <1>1, <1>4, <3>1, <3>2, <3>3, <3>4
  <2> QED BY <2>1, <2>2, <2>3
<1> QED BY <1>2, <1>3, <1>5, IdsGoneKept

-----------------------------------------------------------------------------
(* Answers that are not old. *)

Fresh(k, t) == k.op = "fetch" /\ k.at = "back" /\ k.ok /\ ~k.old => k.rows = Matching(t, k.term)

LEMMA FreshKept ==
    ASSUME FreshAnswers, UNCHANGED table, \A k \in calls' : k \in calls \/ Fresh(k, table)
    PROVE  FreshAnswers'
  BY DEF FreshAnswers, Fresh

LEMMA FreshAged ==
    ASSUME calls \subseteq Calls, NEW k \in calls, NEW j, MovesAndAges(k, j), j.op # "fetch"
    PROVE  FreshAnswers'
<1>1. \A c \in calls' : c.op = "fetch" /\ c.at = "back" => c.old
  BY AgedFrom DEF MovesAndAges
<1> QED BY <1>1 DEF FreshAnswers

LEMMA FreshStep ==
    ASSUME TypeOK, FreshAnswers, [Next]_vars
    PROVE  FreshAnswers'
<1>0. calls \subseteq Calls
  BY DEF TypeOK, Calls
<1>1. CASE UNCHANGED vars
  BY <1>1 DEF vars, FreshAnswers
<1>2. \A term : Fresh(fetchLocations(term), table)
  BY DEF Fresh, fetchLocations
<1>3. ASSUME \/ \E term \in Searches \cup {NoStop} : Search(term)
             \/ Debounce \/ ClearSearch \/ Retry \/ DismissError \/ ChangePage
             \/ handleAdd \/ handleCloseModal \/ FillForm
             \/ \E r \in Ids : handleEdit(r) \/ AskDelete(r)
             \/ closeDeleteConfirm
      PROVE  FreshAnswers'
  <2>1. \A term : RefetchOn(term) \subseteq {fetchLocations(term)}
    BY DEF RefetchOn
  <2>2. UNCHANGED table /\ \E term : calls' \subseteq calls \cup {fetchLocations(term)}
    <3>1. CASE \/ \E term \in Searches \cup {NoStop} : Search(term)
               \/ DismissError \/ ChangePage \/ handleAdd \/ handleCloseModal \/ FillForm
               \/ \E r \in Ids : handleEdit(r) \/ AskDelete(r)
               \/ closeDeleteConfirm
      BY <3>1 DEF Search, DismissError, ChangePage, handleAdd, handleCloseModal, FillForm, handleEdit, AskDelete,
                  closeDeleteConfirm, OpenForm
    <3>2. CASE Debounce \/ ClearSearch \/ Retry
      BY <2>1, <3>2 DEF Debounce, ClearSearch, Retry, Refetches
    <3> QED BY <1>3, <3>1, <3>2
  <2> QED BY <1>2, <2>2, FreshKept
<1>4. CASE handleSubmit \/ confirmDeleteRoute
  <2>1. ASSUME NEW k, calls' = calls \cup {k}, k.op # "fetch", UNCHANGED table
        PROVE  FreshAnswers'
    <3>1. Fresh(k, table)
      BY <2>1 DEF Fresh
    <3> QED BY <2>1, <3>1, FreshKept
  <2>2. CASE handleSubmit
    <3> DEFINE k == [op |-> IF page.modal.id = New THEN "create" ELSE "update", term |-> page.debouncedSearch,
                     at |-> "server", ok |-> FALSE, id |-> page.modal.id,
                     route |-> [from |-> page.modal.from, to |-> page.modal.to, fare |-> page.modal.fare]]
    <3>1. calls' = calls \cup {k} /\ UNCHANGED table
      BY <2>2 DEF handleSubmit
    <3>2. k.op # "fetch"
      OBVIOUS
    <3> HIDE DEF k
    <3> QED BY <2>1, <3>1, <3>2
  <2>3. CASE confirmDeleteRoute
    <3> DEFINE k == [op |-> "delete", at |-> "server", ok |-> FALSE, id |-> page.pendingDelete]
    <3>1. calls' = calls \cup {k} /\ UNCHANGED table
      BY <2>3 DEF confirmDeleteRoute
    <3>2. k.op # "fetch"
      OBVIOUS
    <3> HIDE DEF k
    <3> QED BY <2>1, <3>1, <3>2
  <2> QED BY <1>4, <2>2, <2>3
<1>5. CASE OtherAdminWrites
  <2>1. \A c \in calls' : c.op = "fetch" /\ c.at = "back" => c.old
    BY <1>0, <1>5, AgedFrom DEF OtherAdminWrites
  <2> QED BY <2>1 DEF FreshAnswers
<1>6. ASSUME NEW k \in calls, NEW j, Moves(k, j), UNCHANGED table, Fresh(j, table)
      PROVE  FreshAnswers'
  BY <1>6, FreshKept DEF Moves
<1>7. ASSUME NEW k \in calls
      PROVE  /\ k.op # "fetch" => Fresh([k EXCEPT !.at = "back"], table) /\ Fresh([k EXCEPT !.at = "checked"], table)
             /\ k.op # "fetch" => \A ok \in BOOLEAN : Fresh([k EXCEPT !.at = "back", !.ok = ok], table)
             /\ Fresh([k EXCEPT !.at = "back", !.ok = FALSE], table)
  <2>1. \A ok \in BOOLEAN : /\ [k EXCEPT !.at = "back", !.ok = ok].op = k.op
                            /\ [k EXCEPT !.at = "back", !.ok = ok].ok = ok
                            /\ [k EXCEPT !.at = "back"].op = k.op
                            /\ [k EXCEPT !.at = "checked"].op = k.op
    BY <1>0, MovedOn, CheckedOn
  <2> QED BY <2>1 DEF Fresh
<1>8. ASSUME NEW k \in calls, Refuse(k), k.op # "fetch"
      PROVE  FreshAnswers'
  BY <1>6, <1>7, <1>8 DEF Refuse
<1>9. ASSUME NEW k \in calls, GetRideLocations(k)
      PROVE  FreshAnswers'
  <2> DEFINE j == [k EXCEPT !.at = "back", !.ok = TRUE, !.rows = Matching(table, k.term)]
  <2>1. j.rows = Matching(table, k.term) /\ j.term = k.term
    <3>1. k \in Fetch
      BY <1>0, <1>9, CallKinds DEF GetRideLocations
    <3> QED BY <3>1 DEF Fetch
  <2>2. Moves(k, j) /\ UNCHANGED table
    BY <1>9 DEF GetRideLocations
  <2> HIDE DEF j
  <2>3. Fresh(j, table)
    BY <2>1 DEF Fresh
  <2> QED BY <1>6, <2>2, <2>3
<1>10. ASSUME NEW k \in calls, CheckRoute(k) \/ CreateRideLocation(k) \/ UpdateRideLocation(k) \/ DeleteRideLocation(k)
       PROVE  FreshAnswers'
  <2>1. k.op # "fetch"
    BY <1>10 DEF CheckRoute, CreateRideLocation, UpdateRideLocation, DeleteRideLocation
  <2>2. \/ Refuse(k)
        \/ UNCHANGED table /\ (Moves(k, [k EXCEPT !.at = "checked"]) \/ Moves(k, [k EXCEPT !.at = "back", !.ok = TRUE]))
        \/ MovesAndAges(k, [k EXCEPT !.at = "back", !.ok = TRUE])
    <3>1. CASE CheckRoute(k)
      BY <3>1 DEF CheckRoute
    <3>2. CASE CreateRideLocation(k)
      BY <3>2 DEF CreateRideLocation
    <3>3. CASE UpdateRideLocation(k)
      BY <3>3 DEF UpdateRideLocation
    <3>4. CASE DeleteRideLocation(k)
      BY <3>4 DEF DeleteRideLocation
    <3> QED BY <1>10, <3>1, <3>2, <3>3, <3>4
  <2>3. [k EXCEPT !.at = "back", !.ok = TRUE].op = k.op
    BY <1>0, MovedOn
  <2>4. CASE MovesAndAges(k, [k EXCEPT !.at = "back", !.ok = TRUE])
    BY <1>0, <2>1, <2>3, <2>4, FreshAged
  <2> QED BY <1>6, <1>7, <1>8, <2>1, <2>2, <2>4
<1>11. ASSUME NEW k \in calls, RequestFails(k)
       PROVE  FreshAnswers'
  BY <1>6, <1>7, <1>11 DEF RequestFails
<1>12. ASSUME NEW k \in calls, FetchAnswers(k) \/ SaveAnswers(k) \/ DeleteAnswers(k)
       PROVE  FreshAnswers'
  <2>1. UNCHANGED table /\ \E term : calls' \subseteq calls \cup {fetchLocations(term)}
    BY <1>12 DEF FetchAnswers, SaveAnswers, DeleteAnswers
  <2> QED BY <1>2, <2>1, FreshKept
<1>13. CASE Next
  BY <1>13, <1>3, <1>4, <1>5, <1>9, <1>10, <1>11, <1>12 DEF Next
<1> QED BY <1>1, <1>13

-----------------------------------------------------------------------------
(* What the list still owes to the table. *)

LEMMA WithoutAllIs ==
    ASSUME NEW rows, NEW D, NEW m \in TableOf(Route), DOMAIN rows \ D = DOMAIN m,
           \A q \in DOMAIN m : rows[q] = m[q]
    PROVE  WithoutAll(rows, D) = m
<1>1. m = [q \in DOMAIN m |-> m[q]]
  BY DEF TableOf
<1> QED BY <1>1 DEF WithoutAll

LEMMA OwedKept ==
    ASSUME ListAccountedFor, UNCHANGED table, page'.locations = page.locations,
           page'.debouncedSearch = page.debouncedSearch, past.unsure => past'.unsure,
           GoneUnheard' = GoneUnheard, ListWillChange => ListWillChange'
    PROVE  ListAccountedFor'
  BY DEF ListAccountedFor

LEMMA OwedLater ==
    ASSUME past'.unsure \/ ListWillChange'
    PROVE  ListAccountedFor'
  BY DEF ListAccountedFor

LEMMA OwedSent ==
    ASSUME calls \subseteq calls', \A k \in calls' : k \in calls \/ k.at = "server"
    PROVE  GoneUnheard' = GoneUnheard /\ (ListWillChange => ListWillChange')
<1>1. \A k : k \in calls' /\ IsGone(k) <=> k \in calls /\ IsGone(k)
  BY DEF IsGone
<1>2. GoneUnheard' = GoneUnheard
  BY <1>1 DEF GoneUnheard
<1>3. ListWillChange => ListWillChange'
  BY DEF ListWillChange, IsStored, IsSave
<1> QED BY <1>2, <1>3

\* A request that passes through the server leaves the others as they were.
LEMMA PassesOthers ==
    ASSUME calls \subseteq Calls, NEW k \in calls, NEW j, Passes(k, j)
    PROVE  /\ \A c : c.op # "fetch" => (c \in calls' <=> (c \in calls /\ c # k) \/ c = j)
           /\ (\E c \in calls : c # k /\ c.op = "fetch") => \E c \in calls' : c.op = "fetch"
<1>1. CASE Moves(k, j)
  BY <1>1 DEF Moves
<1>2. CASE MovesAndAges(k, j)
  <2>1. calls' = Aged(calls \ {k}) \cup {j} /\ calls \ {k} \in SUBSET Calls
    BY <1>2 DEF MovesAndAges
  <2>2. \A c : c.op # "fetch" => (c \in calls' <=> (c \in calls /\ c # k) \/ c = j)
    BY <2>1, AgedFrom, AgedInto
  <2>3. (\E c \in calls : c # k /\ c.op = "fetch") => \E c \in calls' : c.op = "fetch"
    BY <2>1, AgedInto
  <2> QED BY <2>2, <2>3
<1> QED BY <1>1, <1>2 DEF Passes

LEMMA OwedPasses ==
    ASSUME calls \subseteq Calls, NEW k \in calls, NEW j, Passes(k, j), ~IsGone(k),
           k.op = "fetch" \/ IsStored(k) => j.op = "fetch" \/ IsStored(j)
    PROVE  /\ IsGone(j) => GoneUnheard' = GoneUnheard \cup {j.id}
           /\ ~IsGone(j) => GoneUnheard' = GoneUnheard
           /\ ListWillChange => ListWillChange'
<1>1. /\ \A c : c.op # "fetch" => (c \in calls' <=> (c \in calls /\ c # k) \/ c = j)
      /\ (\E c \in calls : c # k /\ c.op = "fetch") => \E c \in calls' : c.op = "fetch"
  BY PassesOthers
<1>2. \A c : c \in calls' /\ IsGone(c) <=> (c \in calls /\ IsGone(c)) \/ (c = j /\ IsGone(c))
  BY <1>1 DEF IsGone
<1>3. \A i : i \in GoneUnheard' <=> i \in GoneUnheard \/ (i = j.id /\ IsGone(j))
  BY <1>2 DEF GoneUnheard
<1>4. j \in calls'
  BY DEF Passes, Moves, MovesAndAges
<1>5. ListWillChange => ListWillChange'
  <2>1. ASSUME NEW c \in calls, c.op = "fetch" \/ IsStored(c)
        PROVE  ListWillChange'
    <3>1. CASE c = k
      BY <1>4, <2>1, <3>1 DEF ListWillChange, IsStored, IsSave
    <3>2. CASE c # k /\ c.op = "fetch"
      BY <1>1, <3>2 DEF ListWillChange
    <3>3. CASE c # k /\ c.op # "fetch"
      <4>1. c \in calls'
        BY <1>1, <3>3
      <4> QED BY <2>1, <3>3, <4>1 DEF ListWillChange, IsStored, IsSave
    <3> QED BY <3>1, <3>2, <3>3
  <2> QED BY <2>1 DEF ListWillChange
<1>6. (IsGone(j) => GoneUnheard' = GoneUnheard \cup {j.id}) /\ (~IsGone(j) => GoneUnheard' = GoneUnheard)
  BY <1>3
<1> QED BY <1>5, <1>6

LEMMA OwedAdmin ==
    ASSUME TypeOK, ListAccountedFor,
           \/ \E term \in Searches \cup {NoStop} : Search(term)
           \/ Debounce \/ ClearSearch \/ Retry \/ DismissError \/ ChangePage
           \/ handleAdd \/ handleCloseModal \/ FillForm \/ handleSubmit
           \/ \E r \in Ids : handleEdit(r) \/ AskDelete(r)
           \/ closeDeleteConfirm \/ confirmDeleteRoute,
           UNCHANGED table, past'.unsure = past.unsure
    PROVE  ListAccountedFor'
<1>0. page \in Page
  BY DEF TypeOK
<1>1. ASSUME page'.locations = page.locations, page'.debouncedSearch = page.debouncedSearch,
             calls \subseteq calls', \A k \in calls' : k \in calls \/ k.at = "server"
      PROVE  ListAccountedFor'
  BY <1>1, OwedSent, OwedKept
<1>2. CASE Debounce \/ ClearSearch \/ Retry
  <2>1. \A term : fetchLocations(term).op = "fetch"
    BY DEF fetchLocations
  <2>2. CASE \E term : fetchLocations(term) \in calls'
    BY <2>1, <2>2, OwedLater DEF ListWillChange
  <2>3. CASE Debounce
    BY <2>2, <2>3 DEF Debounce, Refetches, RefetchOn
  <2>4. CASE ClearSearch
    BY <2>2, <2>4 DEF ClearSearch, Refetches, RefetchOn
  <2>5. CASE Retry
    BY <2>2, <2>5 DEF Retry
  <2> QED BY <1>2, <2>3, <2>4, <2>5
<1>3. CASE ChangePage
  <2>1. ASSUME NEW p \in Page, NEW reset \in BOOLEAN
        PROVE  Rendered(p, reset).locations = p.locations /\ Rendered(p, reset).debouncedSearch = p.debouncedSearch
    BY DEF Rendered, Page
  <2>2. page'.locations = page.locations /\ page'.debouncedSearch = page.debouncedSearch
    <3>1. ASSUME NEW cp, page' = [page EXCEPT !.currentPage = cp]
          PROVE  page'.locations = page.locations /\ page'.debouncedSearch = page.debouncedSearch
      BY <1>0, <3>1 DEF Page
    <3>2. ASSUME NEW n \in PageSizes, page' = Rendered([page EXCEPT !.pageSize = n], TRUE)
          PROVE  page'.locations = page.locations /\ page'.debouncedSearch = page.debouncedSearch
      <4>1. /\ [page EXCEPT !.pageSize = n] \in Page
            /\ [page EXCEPT !.pageSize = n].locations = page.locations
            /\ [page EXCEPT !.pageSize = n].debouncedSearch = page.debouncedSearch
        BY <1>0 DEF Page
      <4> QED BY <2>1, <3>2, <4>1
    <3> QED BY <1>3, <3>1, <3>2 DEF ChangePage
  <2>3. calls' = calls
    BY <1>3 DEF ChangePage
  <2> QED BY <1>1, <2>2, <2>3
<1>4. CASE \/ (\E term \in Searches \cup {NoStop} : Search(term)) \/ DismissError \/ handleCloseModal
           \/ handleAdd \/ FillForm \/ (\E r \in Ids : handleEdit(r) \/ AskDelete(r)) \/ closeDeleteConfirm
  <2>1. page'.locations = page.locations /\ page'.debouncedSearch = page.debouncedSearch
    <3>1. CASE (\E term \in Searches \cup {NoStop} : Search(term)) \/ DismissError \/ handleCloseModal \/ closeDeleteConfirm
      BY <1>0, <3>1 DEF Search, DismissError, handleCloseModal, closeDeleteConfirm, Page
    <3>2. CASE handleAdd \/ FillForm \/ (\E r \in Ids : handleEdit(r) \/ AskDelete(r))
      BY <1>0, <3>2 DEF handleAdd, FillForm, handleEdit, OpenForm, AskDelete, Page
    <3> QED BY <1>4, <3>1, <3>2
  <2>2. calls' = calls
    BY <1>4 DEF Search, DismissError, handleCloseModal, closeDeleteConfirm, handleAdd, FillForm, handleEdit, OpenForm, AskDelete
  <2> QED BY <1>1, <2>1, <2>2
<1>5. CASE handleSubmit \/ confirmDeleteRoute
  <2>1. page'.locations = page.locations /\ page'.debouncedSearch = page.debouncedSearch
    BY <1>0, <1>5 DEF handleSubmit, confirmDeleteRoute, Page
  <2>2. ASSUME NEW k, calls' = calls \cup {k}, k.at = "server"
        PROVE  ListAccountedFor'
    BY <1>1, <2>1, <2>2
  <2>3. CASE handleSubmit
    <3> DEFINE k == [op |-> IF page.modal.id = New THEN "create" ELSE "update", term |-> page.debouncedSearch,
                     at |-> "server", ok |-> FALSE, id |-> page.modal.id,
                     route |-> [from |-> page.modal.from, to |-> page.modal.to, fare |-> page.modal.fare]]
    <3>1. calls' = calls \cup {k}
      BY <2>3 DEF handleSubmit
    <3>2. k.at = "server"
      OBVIOUS
    <3> HIDE DEF k
    <3> QED BY <2>2, <3>1, <3>2
  <2>4. CASE confirmDeleteRoute
    <3> DEFINE k == [op |-> "delete", at |-> "server", ok |-> FALSE, id |-> page.pendingDelete]
    <3>1. calls' = calls \cup {k}
      BY <2>4 DEF confirmDeleteRoute
    <3>2. k.at = "server"
      OBVIOUS
    <3> HIDE DEF k
    <3> QED BY <2>2, <3>1, <3>2
  <2> QED BY <1>5, <2>3, <2>4
<1> QED BY <1>2, <1>3, <1>4, <1>5

\* A deletion passes through the server: what the list owes to the table grows by one row,
\* and the table has lost it.
LEMMA OwedDeleted ==
    ASSUME TypeOK, ListAccountedFor, NEW k \in calls, NEW j, k.op = "delete", k.at = "server",
           j.op = "delete", j.id = k.id, Passes(k, j), UNCHANGED <<page, past>>,
           IsGone(j) \/ UNCHANGED table, table' \in TableOf(Route),
           table' = [q \in DOMAIN table \ {k.id} |-> table[q]]
    PROVE  ListAccountedFor'
<1>0. calls \subseteq Calls /\ table \in TableOf(Route)
  BY DEF TypeOK, Calls
<1>1. ~IsGone(k) /\ ~(k.op = "fetch" \/ IsStored(k))
  BY DEF IsGone, IsStored, IsSave
<1>2. /\ IsGone(j) => GoneUnheard' = GoneUnheard \cup {j.id}
      /\ ~IsGone(j) => GoneUnheard' = GoneUnheard
      /\ ListWillChange => ListWillChange'
  BY <1>0, <1>1, OwedPasses
<1>3. CASE ~IsGone(j)
  BY <1>2, <1>3, OwedKept
<1>4. CASE IsGone(j)
  <2> DEFINE t == page.debouncedSearch
  <2>1. SUFFICES ASSUME ~past.unsure, ~ListWillChange
                 PROVE  WithoutAll(page.locations, GoneUnheard \cup {k.id}) = Matching(table', t)
    BY <1>2, <1>4 DEF ListAccountedFor
  <2>2. WithoutAll(page.locations, GoneUnheard) = Matching(table, t)
    BY <2>1 DEF ListAccountedFor
  <2>3. Matching(table, t) \in TableOf(Route) /\ Matching(table', t) \in TableOf(Route)
    BY <1>0, MatchingType
  <2>4. /\ DOMAIN Matching(table', t) = DOMAIN Matching(table, t) \ {k.id}
        /\ \A q \in DOMAIN Matching(table', t) : Matching(table', t)[q] = Matching(table, t)[q]
    BY DEF Matching
  <2>5. /\ DOMAIN page.locations \ GoneUnheard = DOMAIN Matching(table, t)
        /\ \A q \in DOMAIN Matching(table, t) : page.locations[q] = Matching(table, t)[q]
    <3> DEFINE m == Matching(table, t)
    <3>1. m \in TableOf(Route) /\ WithoutAll(page.locations, GoneUnheard) = m
      BY <2>2, <2>3
    <3> HIDE DEF m
    <3>2. DOMAIN page.locations \ GoneUnheard = DOMAIN m /\ \A q \in DOMAIN m : page.locations[q] = m[q]
      BY <3>1 DEF WithoutAll
    <3> QED BY <3>2 DEF m
  <2>6. /\ DOMAIN page.locations \ (GoneUnheard \cup {k.id}) = DOMAIN Matching(table', t)
        /\ \A q \in DOMAIN Matching(table', t) : page.locations[q] = Matching(table', t)[q]
    BY <2>4, <2>5
  <2> DEFINE m == Matching(table', t)
             D == GoneUnheard \cup {k.id}
  <2>7. m \in TableOf(Route) /\ DOMAIN page.locations \ D = DOMAIN m /\ \A q \in DOMAIN m : page.locations[q] = m[q]
    BY <2>3, <2>6
  <2> HIDE DEF m, D
  <2>8. WithoutAll(page.locations, D) = m
    BY <2>7, WithoutAllIs
  <2> QED BY <2>8 DEF m, D
<1> QED BY <1>3, <1>4

LEMMA OwedServer ==
    ASSUME TypeOK, TypeOK', ListAccountedFor,
           \/ OtherAdminWrites
           \/ \E k \in calls :
                 \/ GetRideLocations(k) \/ CheckRoute(k) \/ CreateRideLocation(k) \/ UpdateRideLocation(k)
                 \/ DeleteRideLocation(k) \/ RequestFails(k)
    PROVE  ListAccountedFor'
<1>0. calls \subseteq Calls /\ past \in Past /\ table \in TableOf(Route) /\ table' \in TableOf(Route)
  BY DEF TypeOK, Calls
<1>1. CASE OtherAdminWrites
  BY <1>0, <1>1, OwedLater DEF OtherAdminWrites, Past
<1>2. ASSUME NEW k \in calls, GetRideLocations(k)
      PROVE  ListAccountedFor'
  <2> DEFINE j == [k EXCEPT !.at = "back", !.ok = TRUE, !.rows = Matching(table, k.term)]
  <2>1. j.op = "fetch"
    BY <1>0, <1>2, CallKinds DEF GetRideLocations, Fetch
  <2>2. j \in calls'
    BY <1>2 DEF GetRideLocations, Moves
  <2> HIDE DEF j
  <2> QED BY <2>1, <2>2, OwedLater DEF ListWillChange

\* A save that passes is stored, or changes nothing.
<1>3. ASSUME NEW k \in calls, NEW j, IsSave(k), k.at # "back", j.op = k.op, Moves(k, j), UNCHANGED <<table, page, past>>
      PROVE  ListAccountedFor'
  <2>1. ~IsGone(k) /\ ~IsGone(j) /\ k.op # "fetch" /\ ~IsStored(k) /\ Passes(k, j)
    BY <1>3 DEF IsGone, IsSave, IsStored, Passes
  <2>2. GoneUnheard' = GoneUnheard /\ (ListWillChange => ListWillChange')
    BY <1>0, <2>1, OwedPasses
  <2> QED BY <1>3, <2>2, OwedKept
<1>4. ASSUME NEW k \in calls, IsSave(k), k.at # "back", Refuse(k)
      PROVE  ListAccountedFor'
  <2>1. [k EXCEPT !.at = "back"].op = k.op
    BY <1>0, MovedOn
  <2> QED BY <1>3, <1>4, <2>1 DEF Refuse
<1>5. ASSUME NEW k \in calls, IsSave(k), MovesAndAges(k, [k EXCEPT !.at = "back", !.ok = TRUE])
      PROVE  ListAccountedFor'
  <2> DEFINE j == [k EXCEPT !.at = "back", !.ok = TRUE]
  <2>1. j.op = k.op /\ j.at = "back" /\ j.ok
    BY <1>0, MovedOn
  <2>2. j \in calls'
    BY <1>5 DEF MovesAndAges
  <2> HIDE DEF j
  <2> QED BY <1>5, <2>1, <2>2, OwedLater DEF ListWillChange, IsStored, IsSave
<1>6. ASSUME NEW k \in calls, CheckRoute(k)
      PROVE  ListAccountedFor'
  <2>1. [k EXCEPT !.at = "checked"].op = k.op
    BY <1>0, CheckedOn, <1>6, CallKinds DEF CheckRoute, Save
  <2>2. IsSave(k) /\ k.at # "back"
    BY <1>6 DEF CheckRoute, IsSave
  <2>3. CASE Refuse(k)
    BY <1>4, <2>2, <2>3
  <2>4. CASE Moves(k, [k EXCEPT !.at = "checked"]) /\ UNCHANGED <<table, page, past>>
    BY <1>3, <2>1, <2>2, <2>4
  <2> QED BY <1>6, <2>3, <2>4 DEF CheckRoute
<1>7. ASSUME NEW k \in calls, CreateRideLocation(k) \/ UpdateRideLocation(k)
      PROVE  ListAccountedFor'
  <2>1. IsSave(k) /\ k.at # "back"
    BY <1>7 DEF CreateRideLocation, UpdateRideLocation, IsSave
  <2>2. Refuse(k) \/ MovesAndAges(k, [k EXCEPT !.at = "back", !.ok = TRUE])
    BY <1>7 DEF CreateRideLocation, UpdateRideLocation
  <2> QED BY <1>4, <1>5, <2>1, <2>2
<1>8. ASSUME NEW k \in calls, DeleteRideLocation(k)
      PROVE  ListAccountedFor'
  <2> DEFINE j == [k EXCEPT !.at = "back", !.ok = TRUE]
             i == [k EXCEPT !.at = "back"]
  <2>1. k.op = "delete" /\ k.at = "server"
    BY <1>8 DEF DeleteRideLocation
  <2>2. j.op = "delete" /\ j.id = k.id /\ IsGone(j) /\ i.op = "delete" /\ i.id = k.id
    BY <1>0, <2>1, MovedOn DEF IsGone
  <2>3. table = [q \in DOMAIN table |-> table[q]]
    BY <1>0 DEF TableOf
  <2>4. /\ table' = [q \in DOMAIN table \ {k.id} |-> table[q]]
        /\ \/ Passes(k, i) /\ UNCHANGED <<table, page, past>>
           \/ Passes(k, j) /\ UNCHANGED <<page, past>>
    <3>1. CASE k.id \notin DOMAIN table
      <4>1. UNCHANGED table /\ DOMAIN table \ {k.id} = DOMAIN table
        BY <1>8, <3>1 DEF DeleteRideLocation, Refuse
      <4>2. table' = [q \in DOMAIN table \ {k.id} |-> table[q]]
        BY <2>3, <4>1
      <4>3. \/ Passes(k, i) /\ UNCHANGED <<table, page, past>>
            \/ Passes(k, j) /\ UNCHANGED <<page, past>>
        BY <1>8, <3>1 DEF DeleteRideLocation, Refuse, Passes
      <4> QED BY <4>2, <4>3
    <3>2. CASE k.id \in DOMAIN table
      BY <1>8, <3>2 DEF DeleteRideLocation, Passes
    <3> QED BY <3>1, <3>2
  <2> HIDE DEF i, j
  <2>5. CASE Passes(k, i) /\ UNCHANGED <<table, page, past>>
    BY <1>0, <2>1, <2>2, <2>4, <2>5, OwedDeleted
  <2>6. CASE Passes(k, j) /\ UNCHANGED <<page, past>>
    BY <1>0, <2>1, <2>2, <2>4, <2>6, OwedDeleted
  <2> QED BY <2>4, <2>5, <2>6
<1>9. ASSUME NEW k \in calls, RequestFails(k)
      PROVE  ListAccountedFor'
  <2> DEFINE j == [k EXCEPT !.at = "back", !.ok = FALSE]
  <2>1. j.op = k.op /\ ~j.ok
    BY <1>0, MovedOn
  <2>2. Moves(k, j) /\ UNCHANGED <<table, page>>
    BY <1>9 DEF RequestFails
  <2> HIDE DEF j
  <2>3. CASE k.op = "fetch"
    BY <2>1, <2>2, <2>3, OwedLater DEF ListWillChange, Moves
  <2>4. CASE k.op # "fetch" /\ k.at = "back"
    BY <1>0, <1>9, <2>4, OwedLater DEF RequestFails, Past
  <2>5. CASE k.op # "fetch" /\ k.at # "back"
    <3>1. ~IsGone(k) /\ ~IsGone(j) /\ ~IsStored(k) /\ Passes(k, j)
      BY <2>1, <2>2, <2>5 DEF IsGone, IsStored, Passes
    <3>2. GoneUnheard' = GoneUnheard /\ (ListWillChange => ListWillChange')
      BY <1>0, <2>5, <3>1, OwedPasses
    <3>3. past.unsure => past'.unsure
      BY <1>0, <1>9 DEF RequestFails, Past
    <3> QED BY <2>2, <3>2, <3>3, OwedKept
  <2> QED BY <2>3, <2>4, <2>5
<1> QED BY <1>1, <1>2, <1>6, <1>7, <1>8, <1>9

LEMMA OwedAnswers ==
    ASSUME TypeOK, Current, NEW k \in calls, FetchAnswers(k) \/ SaveAnswers(k) \/ DeleteAnswers(k)
    PROVE  ListAccountedFor'
<1>0. page \in Page /\ calls \subseteq Calls /\ past \in Past /\ table \in TableOf(Route)
  BY DEF TypeOK, Calls
<1>1. ASSUME NEW p \in Page
      PROVE  /\ Rendered(p, FALSE).locations = p.locations
             /\ Rendered(p, FALSE).debouncedSearch = p.debouncedSearch
  BY DEF Rendered, Page
<1>2. ASSUME calls' = calls \ {k}, ~IsGone(k)
      PROVE  GoneUnheard' = GoneUnheard
  BY <1>2 DEF GoneUnheard
<1>3. ASSUME calls' = calls \ {k}, k.op # "fetch", ~IsStored(k)
      PROVE  ListWillChange => ListWillChange'
  BY <1>3 DEF ListWillChange, IsStored, IsSave
<1>4. CASE FetchAnswers(k)
  <2>1. CASE ~k.ok
    BY <1>0, <1>4, <2>1, OwedLater DEF FetchAnswers, Past
  <2>2. CASE k.ok
    <3> DEFINE p == [page EXCEPT !.locations = k.rows, !.initialFetchDone = TRUE]
               t == page.debouncedSearch
    <3>1. k \in Fetch /\ k.op = "fetch" /\ k.at = "back"
      BY <1>0, <1>4, CallKinds DEF FetchAnswers
    <3>2. p \in Page /\ p.locations = k.rows /\ p.debouncedSearch = t
      BY <1>0, <3>1 DEF Fetch, Page
    <3>3. page' = Rendered(p, FALSE)
      BY <1>4, <2>2 DEF FetchAnswers
    <3> HIDE DEF p
    <3>4. page'.locations = k.rows /\ page'.debouncedSearch = t
      BY <1>1, <3>2, <3>3
    <3>5. past'.unsure = (k.old \/ k.term # t) /\ UNCHANGED table /\ calls' = calls \ {k}
      BY <1>0, <1>4, <2>2 DEF FetchAnswers, Past
    <3>6. GoneUnheard' = GoneUnheard
      BY <1>2, <3>1, <3>5 DEF IsGone
    <3>7. GoneUnheard \cap DOMAIN table = {}
      BY DEF Current, IdsGoneForGood, GoneUnheard, IsGone
    <3>8. SUFFICES ASSUME ~k.old, k.term = t
                   PROVE  WithoutAll(k.rows, GoneUnheard) = Matching(table, t)
      BY <3>4, <3>5, <3>6 DEF ListAccountedFor
    <3>9. k.rows = Matching(table, t)
      BY <2>2, <3>1, <3>8 DEF Current, FreshAnswers
    <3> DEFINE m == Matching(table, t)
    <3>10. DOMAIN m \subseteq DOMAIN table /\ m \in TableOf(Route)
      BY <1>0, MatchingType DEF Matching
    <3> HIDE DEF m
    <3>11. DOMAIN m \ GoneUnheard = DOMAIN m
      BY <3>7, <3>10
    <3>12. WithoutAll(m, GoneUnheard) = m
      BY <3>10, <3>11, WithoutAllIs
    <3> QED BY <3>9, <3>12 DEF m
  <2> QED BY <2>1, <2>2
<1>5. CASE SaveAnswers(k)
  <2>1. CASE k.ok
    <3>1. fetchLocations(k.term) \in calls' /\ fetchLocations(k.term).op = "fetch"
      BY <1>5, <2>1 DEF SaveAnswers, fetchLocations
    <3> QED BY <3>1, OwedLater DEF ListWillChange
  <2>2. CASE ~k.ok
    <3>1. page'.locations = page.locations /\ page'.debouncedSearch = page.debouncedSearch /\ UNCHANGED table
      BY <1>0, <1>5 DEF SaveAnswers, Page
    <3>2. calls' = calls \ {k} /\ ~IsGone(k) /\ k.op # "fetch" /\ ~IsStored(k)
      BY <1>5, <2>2 DEF SaveAnswers, IsGone, IsStored
    <3>3. past'.unsure = past.unsure
      BY <1>0, <1>5 DEF SaveAnswers, Past
    <3> QED BY <1>2, <1>3, <3>1, <3>2, <3>3, OwedKept DEF Current
  <2> QED BY <2>1, <2>2
<1>6. CASE DeleteAnswers(k)
  <2>0. calls' = calls \ {k} /\ k.op = "delete" /\ k.at = "back" /\ ~IsStored(k) /\ UNCHANGED <<table, past>>
    BY <1>6 DEF DeleteAnswers, IsStored, IsSave
  <2>1. CASE ~k.ok
    <3>1. page'.locations = page.locations /\ page'.debouncedSearch = page.debouncedSearch
      BY <1>0, <1>6, <2>1 DEF DeleteAnswers, Page
    <3>2. ~IsGone(k)
      BY <2>1 DEF IsGone
    <3> QED BY <1>2, <1>3, <2>0, <3>1, <3>2, OwedKept DEF Current
  <2>2. CASE k.ok
    <3> DEFINE rows == Without(page.locations, k.id)
               p == [page EXCEPT !.locations = rows, !.pendingDelete = New, !.deleteSubmitting = FALSE]
               t == page.debouncedSearch
    <3>1. rows \in TableOf(Route)
      BY <1>0, TableLess DEF Without, Page
    <3>2. page' = Rendered(p, FALSE)
      BY <1>6, <2>2 DEF DeleteAnswers
    <3>3. DOMAIN rows = DOMAIN page.locations \ {k.id} /\ \A q \in DOMAIN rows : rows[q] = page.locations[q]
      BY DEF Without
    <3> HIDE DEF rows
    <3>4. p \in Page /\ p.locations = rows /\ p.debouncedSearch = t
      BY <1>0, <3>1 DEF Page
    <3> HIDE DEF p
    <3>5. page'.locations = rows /\ page'.debouncedSearch = t
      BY <1>1, <3>2, <3>4
    <3>6. \A i : i \in GoneUnheard <=> i \in GoneUnheard' \/ i = k.id
      <4>1. \A i : i \in GoneUnheard <=> \E c \in calls : IsGone(c) /\ c.id = i
        BY DEF GoneUnheard
      <4>2. \A i : i \in GoneUnheard' <=> \E c \in calls' : IsGone(c) /\ c.id = i
        BY DEF GoneUnheard
      <4>3. IsGone(k)
        BY <2>0, <2>2 DEF IsGone
      <4> QED BY <2>0, <4>1, <4>2, <4>3
    <3>7. ListWillChange => ListWillChange'
      BY <1>3, <2>0
    <3>8. SUFFICES ASSUME ~past.unsure, ~ListWillChange
                   PROVE  WithoutAll(rows, GoneUnheard') = Matching(table, t)
      BY <2>0, <3>5, <3>7 DEF ListAccountedFor
    <3> DEFINE m == Matching(table, t)
    <3>9. WithoutAll(page.locations, GoneUnheard) = m
      BY <3>8 DEF Current, ListAccountedFor
    <3>10. m \in TableOf(Route)
      BY <1>0, MatchingType
    <3> HIDE DEF m
    <3>11. DOMAIN page.locations \ GoneUnheard = DOMAIN m /\ \A q \in DOMAIN m : page.locations[q] = m[q]
      BY <3>9 DEF WithoutAll
    <3>12. DOMAIN rows \ GoneUnheard' = DOMAIN m /\ \A q \in DOMAIN m : rows[q] = m[q]
      BY <3>3, <3>6, <3>11
    <3> DEFINE D == GoneUnheard'
    <3>13. DOMAIN rows \ D = DOMAIN m
      BY <3>12
    <3> HIDE DEF D
    <3>14. WithoutAll(rows, D) = m
      BY <3>10, <3>12, <3>13, WithoutAllIs
    <3> QED BY <3>14 DEF m, D
  <2> QED BY <2>1, <2>2
<1> QED BY <1>4, <1>5, <1>6

LEMMA CurrentStep ==
    ASSUME TypeOK, TypeOK', Current, [Next]_vars
    PROVE  Current'
<1>1. CASE UNCHANGED vars
  <2>1. IdsGoneForGood' /\ FreshAnswers'
    BY <1>1 DEF vars, Current, IdsGoneForGood, FreshAnswers
  <2>2. ListAccountedFor'
    BY <1>1 DEF vars, Current, ListAccountedFor, GoneUnheard, ListWillChange, IsStored, IsSave
  <2> QED BY <2>1, <2>2 DEF Current
<1>2. FreshAnswers'
  BY FreshStep DEF Current
<1>3. CASE \/ \E term \in Searches \cup {NoStop} : Search(term)
           \/ Debounce \/ ClearSearch \/ Retry \/ DismissError \/ ChangePage
           \/ handleAdd \/ handleCloseModal \/ FillForm \/ handleSubmit
           \/ \E r \in Ids : handleEdit(r) \/ AskDelete(r)
           \/ closeDeleteConfirm \/ confirmDeleteRoute
  <2>1. IdsGoneForGood' /\ UNCHANGED table /\ past'.unsure = past.unsure
    BY <1>3, IdsGoneAdmin DEF Current
  <2>2. ListAccountedFor'
    BY <1>3, <2>1, OwedAdmin DEF Current
  <2> QED BY <1>2, <2>1, <2>2 DEF Current
<1>4. CASE \/ OtherAdminWrites
           \/ \E k \in calls :
                 \/ GetRideLocations(k) \/ CheckRoute(k) \/ CreateRideLocation(k) \/ UpdateRideLocation(k)
                 \/ DeleteRideLocation(k) \/ RequestFails(k)
  BY <1>2, <1>4, IdsGoneServer, OwedServer DEF Current
<1>5. ASSUME NEW k \in calls, FetchAnswers(k) \/ SaveAnswers(k) \/ DeleteAnswers(k)
      PROVE  Current'
  BY <1>2, <1>5, IdsGoneAnswers, OwedAnswers DEF Current
<1>6. CASE Next
  <2>1. CASE \E k \in calls : FetchAnswers(k) \/ SaveAnswers(k) \/ DeleteAnswers(k)
    BY <1>5, <2>1
  <2>2. CASE ~\E k \in calls : FetchAnswers(k) \/ SaveAnswers(k) \/ DeleteAnswers(k)
    BY <1>3, <1>4, <1>6, <2>2 DEF Next
  <2> QED BY <2>1, <2>2
<1> QED BY <1>1, <1>6

LEMMA CurrentInit == Init => Current
<1> SUFFICES ASSUME Init PROVE Current
  OBVIOUS
<1>1. table \in TableOf(Route)
  BY RoutesFound DEF Init
<1>2. IdsGoneForGood
  BY DEF Init, Mounted, MountCalls, NoPast, fetchLocations, IdsGoneForGood
<1>3. FreshAnswers
  BY DEF Init, MountCalls, fetchLocations, FreshAnswers
<1>4. ListWillChange
  BY DEF Init, MountCalls, fetchLocations, ListWillChange
<1>5. ListAccountedFor
  BY <1>4 DEF ListAccountedFor
<1> QED BY <1>2, <1>3, <1>5 DEF Current

LEMMA CurrentAtRest == TypeOK /\ Current => RoutesAreCurrent
<1> SUFFICES ASSUME TypeOK, Current, calls = {}, ~past.unsure
             PROVE  page.locations = Matching(table, page.debouncedSearch)
  BY DEF RoutesAreCurrent
<1>1. page.locations \in TableOf(Route)
  BY DEF TypeOK, Page
<1>2. GoneUnheard = {} /\ ~ListWillChange
  BY DEF GoneUnheard, ListWillChange
<1>3. WithoutAll(page.locations, {}) = Matching(table, page.debouncedSearch)
  BY <1>2 DEF Current, ListAccountedFor
<1>4. DOMAIN page.locations \ {} = DOMAIN page.locations
  OBVIOUS
<1>5. WithoutAll(page.locations, {}) = page.locations
  BY <1>1, <1>4, WithoutAllIs
<1> QED BY <1>3, <1>5

\* At rest the list is what the server has for the term in the box, unless that is unsure.
THEOREM RoutesCurrent == Spec => []RoutesAreCurrent
<1>1. TypeOK /\ TypeOK' /\ Current /\ [Next]_vars => Current'
  BY CurrentStep
<1> QED BY <1>1, CurrentInit, CurrentAtRest, RoutesTyped, PTL DEF Spec

-----------------------------------------------------------------------------
(* All of it, for the modules that use the page. *)

RoutesInv == TypeOK /\ CanonicalRows(table) /\ OnAPage(page) /\ OpenFormIsSaved /\ Current

LEMMA RoutesInvInit == Init => RoutesInv
<1>1. Init => TypeOK /\ CanonicalRows(table)
  BY RoutesTypeInit, CanonicalRowsInit
<1>2. Init => OnAPage(page) /\ OpenFormIsSaved /\ Current
  BY OnAPageInit, OpenFormIsSavedInit, CurrentInit
<1> QED BY <1>1, <1>2 DEF RoutesInv

LEMMA RoutesInvStep == RoutesInv /\ [Next]_vars => RoutesInv'
<1> SUFFICES ASSUME RoutesInv, [Next]_vars PROVE RoutesInv'
  OBVIOUS
<1>1. TypeOK'
  BY RoutesTypeStep DEF RoutesInv
<1>2. CanonicalRows(table')
  BY CanonicalRowsStep DEF RoutesInv
<1>3. OnAPage(page')
  BY OnAPageStep DEF RoutesInv
<1>4. OpenFormIsSaved'
  BY OpenFormIsSavedStep DEF RoutesInv
<1>5. Current'
  BY <1>1, CurrentStep DEF RoutesInv
<1> QED BY <1>1, <1>2, <1>3, <1>4, <1>5 DEF RoutesInv

LEMMA RoutesInvMeans ==
    RoutesInv => TypeOK /\ OneFarePerPair /\ PageShowsRoutes /\ FormLostOnlyToOverlap /\ RoutesAreCurrent
<1> SUFFICES ASSUME RoutesInv
             PROVE  TypeOK /\ OneFarePerPair /\ PageShowsRoutes /\ FormLostOnlyToOverlap /\ RoutesAreCurrent
  OBVIOUS
<1>1. TypeOK /\ table \in TableOf(Route)
  BY DEF RoutesInv, TypeOK
<1>2. OneFarePerPair /\ PageShowsRoutes
  BY <1>1, CanonicalRowsGiveOneFare, OnAPageShowsRoutes DEF RoutesInv
<1>3. FormLostOnlyToOverlap
  BY DEF RoutesInv, OpenFormIsSaved, FormLostOnlyToOverlap
<1>4. RoutesAreCurrent
  BY CurrentAtRest DEF RoutesInv
<1> QED BY <1>1, <1>2, <1>3, <1>4
=============================================================================
