--------------------------- MODULE RideRoutesPage ---------------------------
(***************************************************************************)
(* The admin client's page of ride routes and the server's handlers of     *)
(* ride_locations.                                                         *)
(*                                                                         *)
(* Every search and every save starts a new fetch and cancels none: the    *)
(* page shows the answer that arrives last. A handler keeps the search     *)
(* term and the form of the render it was started from.                    *)
(***************************************************************************)
EXTENDS RouteInputs, ListPaging

Nothing == [kind |-> "nothing"]

VARIABLES
    table,     \* ride_locations: a route for each id in its domain
    page,      \* the state of the component
    calls,     \* the requests in flight, with what their handlers keep
    past       \* history: see Past

vars == <<table, page, calls, past>>

Term == Stops \cup {NoStop}
Form == [kind : {"form"}, id : Ids \cup {New}, from : Term, to : Term, fare : Fares]

Page ==
    [searchTerm : Term, debouncedSearch : Term, locations : TableOf(Route), initialFetchDone : BOOLEAN,
     error : BOOLEAN, modal : {Nothing} \cup Form, pendingDelete : Ids \cup {New},
     deleteSubmitting : BOOLEAN, pageSize : PageSizes, currentPage : Nat \ {0}]

\* A fetch carries its search term; old: the table changed after the answer was read.
Fetch == [op : {"fetch"}, term : Term, at : {"server", "back"}, ok : BOOLEAN, rows : TableOf(Route), old : BOOLEAN]
\* term: what the handler of a save will fetch with when it is done.
Save ==
    [op : {"create", "update"}, term : Term, at : {"server", "checked", "back"}, ok : BOOLEAN,
     id : Ids \cup {New}, route : Route]
Deletion == [op : {"delete"}, at : {"server", "back"}, ok : BOOLEAN, id : Ids]

\* acts: what the admin has done so far. used: ids given out. unsure: the list may
\* differ from the table (an answer was old or for another term, or was lost, or
\* another admin changed the table). overlap: when a form was last opened, changed or
\* submitted, a save was in flight. lostForm: since then, a form was closed that no save
\* had stored.
Past == [acts : 0 .. RouteActs, used : SUBSET Ids, unsure : BOOLEAN, overlap : BOOLEAN, lostForm : BOOLEAN]

TypeOK ==
    /\ table \in TableOf(Route)
    /\ page \in Page
    /\ calls \subseteq Fetch \cup Save \cup Deletion
    /\ past \in Past

Matching(rows, term) ==
    [r \in {r \in DOMAIN rows : term = NoStop \/ term \in {rows[r].from, rows[r].to}} |-> rows[r]]

fetchLocations(term) ==
    [op |-> "fetch", term |-> term, at |-> "server", ok |-> FALSE, rows |-> <<>>, old |-> FALSE]

\* The page as it is mounted.
Mounted ==
    [searchTerm |-> NoStop, debouncedSearch |-> NoStop, locations |-> <<>>, initialFetchDone |-> FALSE,
     error |-> FALSE, modal |-> Nothing, pendingDelete |-> New, deleteSubmitting |-> FALSE,
     pageSize |-> 10, currentPage |-> 1]
MountCalls == {fetchLocations(NoStop)}
NoPast(t) == [acts |-> 0, used |-> DOMAIN t, unsure |-> FALSE, overlap |-> FALSE, lostForm |-> FALSE]

Init ==
    /\ table \in RouteTables
    /\ page = Mounted
    /\ calls = MountCalls
    /\ past = NoPast(table)

-----------------------------------------------------------------------------
(* Rendering. *)

\* The effects of a render: the page resets on reset, and is clamped.
Rendered(p, reset) ==
    [p EXCEPT !.currentPage =
        Clamp(IF reset THEN 1 ELSE @, TotalPages(Cardinality(DOMAIN p.locations), p.pageSize))]

listLoading == ~page.initialFetchDone
listFetchError == page.error /\ DOMAIN page.locations = {}
showMainShell == ~listLoading /\ ~listFetchError

\* The newest route is listed first.
paginatedLocations ==
    {r \in DOMAIN page.locations :
        Cardinality({q \in DOMAIN page.locations : q >= r})
            \in ShownRows(Cardinality(DOMAIN page.locations), page.currentPage, page.pageSize)}

\* What the dialogs do not cover can be clicked.
Uncovered == page.modal = Nothing /\ page.pendingDelete = New

Act == past.acts < RouteActs /\ past' = [past EXCEPT !.acts = @ + 1]
Room == Cardinality(calls) < MaxCalls

-----------------------------------------------------------------------------
(* The toolbar and the pagination. *)

Search(term) ==
    /\ showMainShell /\ Uncovered /\ Act
    /\ term # page.searchTerm
    /\ page' = [page EXCEPT !.searchTerm = term]
    /\ UNCHANGED <<table, calls>>

\* Mutant of RefetchOn: the effect does not depend on the term.
RefetchNever(term) == {}

\* fetchLocations is a new function for a new term, and the effect calls it.
RefetchOn(term) == IF term = page.debouncedSearch THEN {} ELSE {fetchLocations(term)}

Refetches(term) == /\ RefetchOn(term) # {} => Room
                   /\ calls' = calls \cup RefetchOn(term)

\* The timer of the last change of the term fires.
Debounce ==
    /\ page.searchTerm # page.debouncedSearch
    /\ Refetches(page.searchTerm)
    /\ page' = Rendered([page EXCEPT !.debouncedSearch = page.searchTerm, !.error = FALSE], TRUE)
    /\ UNCHANGED <<table, past>>

ClearSearch ==
    /\ showMainShell /\ Uncovered /\ Act
    /\ DOMAIN page.locations = {} /\ page.debouncedSearch # NoStop
    /\ Refetches(NoStop)
    /\ page' = Rendered([page EXCEPT !.searchTerm = NoStop, !.debouncedSearch = NoStop, !.error = FALSE], TRUE)
    /\ UNCHANGED table

\* "Try again": on the error screen, on the banner, on the empty list.
Retry ==
    /\ page.initialFetchDone /\ Uncovered /\ Act /\ Room
    /\ page.error \/ (DOMAIN page.locations = {} /\ page.debouncedSearch = NoStop)
    /\ page' = [page EXCEPT !.error = FALSE]
    /\ calls' = calls \cup {fetchLocations(page.debouncedSearch)}
    /\ UNCHANGED table

DismissError ==
    /\ page.error /\ DOMAIN page.locations # {} /\ Uncovered /\ Act
    /\ page' = [page EXCEPT !.error = FALSE]
    /\ UNCHANGED <<table, calls>>

ChangePage ==
    /\ showMainShell /\ Uncovered /\ Act
    /\ DOMAIN page.locations # {}
    /\ \/ \E cp \in 1 .. TotalPages(Cardinality(DOMAIN page.locations), page.pageSize) :
              cp # page.currentPage /\ page' = [page EXCEPT !.currentPage = cp]
       \/ \E n \in PageSizes :
              n # page.pageSize /\ page' = Rendered([page EXCEPT !.pageSize = n], TRUE)
    /\ UNCHANGED <<table, calls>>

-----------------------------------------------------------------------------
(* The form. *)

Saving == \E k \in calls : k.op \in {"create", "update"}

ActOnForm ==
    /\ past.acts < RouteActs
    /\ past' = [past EXCEPT !.acts = @ + 1, !.overlap = Saving, !.lostForm = FALSE]

OpenForm(form) ==
    /\ showMainShell /\ Uncovered /\ ActOnForm
    /\ page' = [page EXCEPT !.modal = form]
    /\ UNCHANGED <<table, calls>>

handleAdd == OpenForm([kind |-> "form", id |-> New, from |-> NoStop, to |-> NoStop, fare |-> 0])

handleEdit(r) ==
    /\ r \in paginatedLocations
    /\ LET loc == page.locations[r]
       IN  OpenForm([kind |-> "form", id |-> r, from |-> loc.from, to |-> loc.to, fare |-> loc.fare])

\* Cancel, the cross, the backdrop, Escape.
handleCloseModal ==
    /\ page.modal # Nothing /\ Act
    /\ page' = [page EXCEPT !.modal = Nothing]
    /\ UNCHANGED <<table, calls>>

\* One select box, the fare, or the two stops exchanged.
FillForm ==
    /\ page.modal # Nothing /\ ActOnForm
    /\ \E f \in {[page.modal EXCEPT !.from = s] : s \in Stops}
           \cup {[page.modal EXCEPT !.to = s] : s \in Stops}
           \cup {[page.modal EXCEPT !.fare = n] : n \in Fares}
           \cup {[page.modal EXCEPT !.from = page.modal.to, !.to = page.modal.from]} :
           /\ f # page.modal
           /\ page' = [page EXCEPT !.modal = f]
    /\ UNCHANGED <<table, calls>>

sameStop == page.modal.from = page.modal.to

\* Nothing disables the button while the save is in flight.
handleSubmit ==
    /\ page.modal # Nothing /\ ActOnForm /\ Room
    /\ page.modal.from # NoStop /\ page.modal.to # NoStop /\ ~sameStop
    /\ calls' = calls \cup
           {[op |-> IF page.modal.id = New THEN "create" ELSE "update", term |-> page.debouncedSearch,
             at |-> "server", ok |-> FALSE, id |-> page.modal.id,
             route |-> [from |-> page.modal.from, to |-> page.modal.to, fare |-> page.modal.fare]]}
    /\ UNCHANGED <<table, page>>

AskDelete(r) ==
    /\ showMainShell /\ Uncovered /\ Act
    /\ r \in paginatedLocations
    /\ page' = [page EXCEPT !.pendingDelete = r]
    /\ UNCHANGED <<table, calls>>

closeDeleteConfirm ==
    /\ page.pendingDelete # New /\ ~page.deleteSubmitting /\ Act
    /\ page' = [page EXCEPT !.pendingDelete = New]
    /\ UNCHANGED <<table, calls>>

confirmDeleteRoute ==
    /\ page.pendingDelete # New /\ ~page.deleteSubmitting /\ Act /\ Room
    /\ page' = [page EXCEPT !.deleteSubmitting = TRUE]
    /\ calls' = calls \cup
           {[op |-> "delete", at |-> "server", ok |-> FALSE, id |-> page.pendingDelete]}
    /\ UNCHANGED table

-----------------------------------------------------------------------------
(* The server. *)

\* Answers read before a change of the table are old.
Aged(cs) == {IF k.op = "fetch" /\ k.at = "back" THEN [k EXCEPT !.old = TRUE] ELSE k : k \in cs}

Moves(k, j) == calls' = (calls \ {k}) \cup {j}
MovesAndAges(k, j) == calls' = Aged(calls \ {k}) \cup {j}

GetRideLocations(k) ==
    /\ k \in calls /\ k.op = "fetch" /\ k.at = "server"
    /\ Moves(k, [k EXCEPT !.at = "back", !.ok = TRUE, !.rows = Matching(table, k.term)])
    /\ UNCHANGED <<table, page, past>>

\* Stops are stored in canonical order: one fare for both directions.
Canonical(route) ==
    IF route.from <= route.to THEN route ELSE [route EXCEPT !.from = route.to, !.to = route.from]

\* Another row has the pair.
Taken(route, id) == \E q \in DOMAIN table : q # id /\ table[q].from = route.from /\ table[q].to = route.to

Refuse(k) == Moves(k, [k EXCEPT !.at = "back"]) /\ UNCHANGED <<table, page, past>>

\* CreateRideLocation and UpdateRideLocation look for the pair first, ...
CheckRoute(k) ==
    /\ k \in calls /\ k.op \in {"create", "update"} /\ k.at = "server"
    /\ IF (k.op = "update" /\ k.id \notin DOMAIN table) \/ Taken(Canonical(k.route), k.id)
       THEN Refuse(k)
       ELSE Moves(k, [k EXCEPT !.at = "checked"]) /\ UNCHANGED <<table, page, past>>

\* Mutant of BreaksUnique: only the check looks for the pair.
NoIndex(route, id) == FALSE

\* What the index on the two stops refuses.
BreaksUnique(route, id) == Taken(Canonical(route), id)

\* ... and write later: another request may have stored the pair by then.
CreateRideLocation(k) ==
    /\ k \in calls /\ k.op = "create" /\ k.at = "checked"
    /\ IF BreaksUnique(k.route, New) THEN Refuse(k)
       ELSE \E r \in Ids :
                /\ \A q \in past.used : q < r
                /\ table' = [q \in DOMAIN table \cup {r} |-> IF q = r THEN Canonical(k.route) ELSE table[q]]
                /\ past' = [past EXCEPT !.used = @ \cup {r}]
                /\ MovesAndAges(k, [k EXCEPT !.at = "back", !.ok = TRUE])
                /\ UNCHANGED page

UpdateRideLocation(k) ==
    /\ k \in calls /\ k.op = "update" /\ k.at = "checked"
    /\ IF k.id \notin DOMAIN table \/ BreaksUnique(k.route, k.id) THEN Refuse(k)
       ELSE /\ table' = [table EXCEPT ![k.id] = Canonical(k.route)]
            /\ MovesAndAges(k, [k EXCEPT !.at = "back", !.ok = TRUE])
            /\ UNCHANGED <<page, past>>

\* A row that another admin deletes after the check is deleted without effect.
DeleteRideLocation(k) ==
    /\ k \in calls /\ k.op = "delete" /\ k.at = "server"
    /\ IF k.id \notin DOMAIN table
       THEN Refuse(k) \/ (Moves(k, [k EXCEPT !.at = "back", !.ok = TRUE]) /\ UNCHANGED <<table, page, past>>)
       ELSE /\ table' = [q \in DOMAIN table \ {k.id} |-> table[q]]
            /\ MovesAndAges(k, [k EXCEPT !.at = "back", !.ok = TRUE])
            /\ UNCHANGED <<page, past>>

\* A query fails, or the answer is lost on its way back.
RequestFails(k) ==
    /\ k \in calls /\ ~(k.at = "back" /\ ~k.ok)
    /\ Moves(k, [k EXCEPT !.at = "back", !.ok = FALSE])
    /\ past' = [past EXCEPT !.unsure = @ \/ (k.op # "fetch" /\ k.at = "back")]
    /\ UNCHANGED <<table, page>>

\* Another admin deletes a route, or stores other stops or another fare.
OtherAdminWrites ==
    /\ past.acts < RouteActs
    /\ past' = [past EXCEPT !.acts = @ + 1, !.unsure = TRUE]
    /\ \E r \in DOMAIN table :
           \/ table' = [q \in DOMAIN table \ {r} |-> table[q]]
           \/ \E route \in Route :
                  /\ route.from # route.to /\ Canonical(route) # table[r] /\ ~Taken(Canonical(route), r)
                  /\ table' = [table EXCEPT ![r] = Canonical(route)]
    /\ calls' = Aged(calls)
    /\ UNCHANGED page

-----------------------------------------------------------------------------
(* The answers. *)

\* The list is replaced by the answer, whatever it answers.
FetchAnswers(k) ==
    /\ k \in calls /\ k.op = "fetch" /\ k.at = "back"
    /\ calls' = calls \ {k}
    /\ IF k.ok
       THEN /\ page' = Rendered([page EXCEPT !.locations = k.rows, !.initialFetchDone = TRUE], FALSE)
            /\ past' = [past EXCEPT !.unsure = k.old \/ k.term # page.debouncedSearch]
       ELSE /\ page' = [page EXCEPT !.error = TRUE, !.initialFetchDone = TRUE]
            /\ past' = [past EXCEPT !.unsure = TRUE]
    /\ UNCHANGED table

\* Mutant of ClosesForm: the form is closed in any case.
AlwaysClosesForm(k) == TRUE

ClosesForm(k) == k.ok

\* handleSave closes the form that is open, which need not be the one it saved, and
\* fetches with the term of the render it was started from.
SaveAnswers(k) ==
    /\ k \in calls /\ k.op \in {"create", "update"} /\ k.at = "back"
    /\ calls' = (calls \ {k}) \cup (IF k.ok THEN {fetchLocations(k.term)} ELSE {})
    /\ page' = [page EXCEPT !.modal = IF ClosesForm(k) THEN Nothing ELSE @,
                            !.error = IF k.ok THEN FALSE ELSE @]
    /\ past' = [past EXCEPT !.lostForm = @ \/ (ClosesForm(k) /\ page.modal # Nothing
                    /\ ~(k.ok /\ k.id = page.modal.id
                         /\ k.route = [from |-> page.modal.from, to |-> page.modal.to, fare |-> page.modal.fare]))]
    /\ UNCHANGED table

Without(rows, r) == [q \in DOMAIN rows \ {r} |-> rows[q]]

DeleteAnswers(k) ==
    /\ k \in calls /\ k.op = "delete" /\ k.at = "back"
    /\ calls' = calls \ {k}
    /\ page' = IF k.ok
               THEN Rendered([page EXCEPT !.locations = Without(@, k.id), !.pendingDelete = New,
                                          !.deleteSubmitting = FALSE], FALSE)
               ELSE [page EXCEPT !.deleteSubmitting = FALSE]
    /\ UNCHANGED <<table, past>>

-----------------------------------------------------------------------------
Next ==
    \/ \E term \in Searches \cup {NoStop} : Search(term)
    \/ Debounce \/ ClearSearch \/ Retry \/ DismissError \/ ChangePage
    \/ handleAdd \/ handleCloseModal \/ FillForm \/ handleSubmit
    \/ \E r \in Ids : handleEdit(r) \/ AskDelete(r)
    \/ closeDeleteConfirm \/ confirmDeleteRoute
    \/ OtherAdminWrites
    \/ \E k \in calls :
           \/ GetRideLocations(k) \/ CheckRoute(k) \/ CreateRideLocation(k) \/ UpdateRideLocation(k)
           \/ DeleteRideLocation(k) \/ RequestFails(k)
           \/ FetchAnswers(k) \/ SaveAnswers(k) \/ DeleteAnswers(k)

Spec == Init /\ [][Next]_vars
-----------------------------------------------------------------------------
(* Properties. *)

\* At rest the list is what the server has for the term in the box, unless an
\* answer was old, for another term or lost, or another admin wrote meanwhile.
RoutesAreCurrent ==
    calls = {} /\ page.searchTerm = page.debouncedSearch /\ ~past.unsure
        => page.locations = Matching(table, page.debouncedSearch)

\* A form is closed without having been stored only when the last thing the admin did with
\* it was done while a save of another form, or of an earlier state of it, was in flight.
FormLostOnlyToOverlap == past.lostForm => past.overlap

\* A list that has rows shows some.
PageShowsRoutes == DOMAIN page.locations # {} => paginatedLocations # {}

\* A pair of stops has one row, and so one fare, in either direction.
OneFarePerPair ==
    \A q, r \in DOMAIN table :
        {table[q].from, table[q].to} = {table[r].from, table[r].to} => q = r
=============================================================================
