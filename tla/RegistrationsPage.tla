-------------------------- MODULE RegistrationsPage --------------------------
(***************************************************************************)
(* The admin client's page of student registrations and the server's       *)
(* handlers of the review.                                                 *)
(*                                                                         *)
(* The search and the filter are the browser's. A review is sent, then the *)
(* list is fetched, then the banner is shown and the form is closed: the   *)
(* handler waits for each. A view keeps the row of the click and waits for *)
(* the user.                                                               *)
(***************************************************************************)
EXTENDS Integers, FiniteSets, ListPaging

CONSTANTS
    Ids,       \* ids of students: a SERIAL column
    Reasons,   \* the reasons that are typed
    Tables,    \* the tables of students the admin may find
    Searches,  \* the students whose names the admin searches for
    PageSizes,
    MaxActs,   \* bound on what the admin and the others do
    MaxCalls   \* bound on the requests in flight

NoStudent == 0  \* also the empty search
NoReason == ""
All == "all"
None == "none"  \* no decision, no banner
Nothing == [kind |-> "nothing"]
Decisions == {"approved", "rejected"}
Statuses == {"pending"} \cup Decisions

Student == [status : Statuses, reason : Reasons \cup {NoReason}, active : BOOLEAN]
IsTable(t) == \E D \in SUBSET Ids : t \in [D -> Student]

\* Assumed by the modules that use this one.
RegistrationsInputs ==
    /\ Ids \subseteq Nat \ {NoStudent} /\ IsFiniteSet(Ids) /\ Searches \subseteq Ids
    /\ NoReason \notin Reasons
    /\ PageSizes \subseteq Nat \ {0} /\ 10 \in PageSizes /\ MaxActs \in Nat /\ MaxCalls \in Nat
    /\ \A t \in Tables : IsTable(t)

VARIABLES
    table,     \* users: a student for each id in its domain
    page,      \* the state of the component
    calls,     \* the requests in flight, with what their handlers keep
    past       \* history: see Past

vars == <<table, page, calls, past>>

\* expiry: whether a date is given.
Form == [kind : {"review"}, id : Ids, action : Decisions, reason : Reasons \cup {NoReason}, expiry : BOOLEAN]

\* The state but the rows.
Page ==
    [loading : BOOLEAN, error : BOOLEAN, successBanner : Decisions \cup {None},
     searchTerm : Ids \cup {NoStudent}, debouncedSearch : Ids \cup {NoStudent}, statusFilter : Statuses \cup {All},
     viewUser : {Nothing} \cup [id : Ids, active : BOOLEAN], viewRow : {Nothing} \cup [id : Ids, status : Statuses],
     viewLoadingId : Ids \cup {NoStudent}, reviewModal : {Nothing} \cup Form, reviewSubmitting : BOOLEAN,
     pageSize : PageSizes, currentPage : Nat \ {0}]

\* then: the decision whose handler waits for the answer. old: the table changed after
\* the answer was read.
IsFetch(k) ==
    /\ DOMAIN k = {"op", "then", "at", "ok", "rows", "old"}
    /\ k.op = "fetch" /\ k.then \in Decisions \cup {None} /\ k.at \in {"server", "back"}
    /\ k.ok \in BOOLEAN /\ IsTable(k.rows) /\ k.old \in BOOLEAN
\* status: the review of the row that was clicked. reviewed (history): the one the student
\* had when his account was read. mixed (history): the row may have been old at the click,
\* or the student was reviewed or deleted before his account was read.
View ==
    [op : {"view"}, at : {"server", "back"}, ok : BOOLEAN, id : Ids, status : Statuses, active : BOOLEAN,
     reviewed : Statuses, mixed : BOOLEAN]
Review == [op : {"review"}, at : {"server", "back"}, ok : BOOLEAN, form : Form]

\* acts: what the admin and the others have done so far. unsure: the list may differ from
\* the table (not fetched, an answer was old or lost, or others wrote). sent: the form that was sent
\* last. overruled: others have deleted its student, or decided otherwise since. overlap:
\* it was changed after it was sent. lostForm: its answer closed another form. viewed: the
\* answer that the view shows.
Past ==
    [acts : 0 .. MaxActs, unsure : BOOLEAN, sent : {Nothing} \cup Form, overruled : BOOLEAN, overlap : BOOLEAN,
     lostForm : BOOLEAN, viewed : {Nothing} \cup View]

TypeOK ==
    /\ IsTable(table) /\ IsTable(page.rows)
    /\ [f \in DOMAIN page \ {"rows"} |-> page[f]] \in Page
    /\ \A k \in calls : IsFetch(k) \/ k \in View \cup Review
    /\ past \in Past

fetchRows(then) == [op |-> "fetch", then |-> then, at |-> "server", ok |-> FALSE, rows |-> <<>>, old |-> FALSE]

\* What fetchRows does to the page before it waits.
Fetching(p) == [p EXCEPT !.loading = TRUE, !.error = FALSE, !.successBanner = None]

\* The page as it is mounted.
Mounted ==
    [rows |-> <<>>, loading |-> TRUE, error |-> FALSE, successBanner |-> None, searchTerm |-> NoStudent,
     debouncedSearch |-> NoStudent, statusFilter |-> All, viewUser |-> Nothing, viewRow |-> Nothing,
     viewLoadingId |-> NoStudent, reviewModal |-> Nothing, reviewSubmitting |-> FALSE, pageSize |-> 10,
     currentPage |-> 1]
MountCalls == {fetchRows(None)}
NoPast(t) ==
    [acts |-> 0, unsure |-> TRUE, sent |-> Nothing, overruled |-> FALSE, overlap |-> FALSE, lostForm |-> FALSE,
     viewed |-> Nothing]

Init ==
    /\ table \in Tables
    /\ page = Mounted
    /\ calls = MountCalls
    /\ past = NoPast(table)

-----------------------------------------------------------------------------
(* Rendering. *)

filteredRows(p) ==
    {s \in DOMAIN p.rows : p.statusFilter \in {All, p.rows[s].status} /\ p.debouncedSearch \in {NoStudent, s}}

\* The effects of a render: the page resets on reset, and is clamped.
Rendered(p, reset) ==
    [p EXCEPT !.currentPage = Clamp(IF reset THEN 1 ELSE @, TotalPages(Cardinality(filteredRows(p)), p.pageSize))]

\* The newest registration is listed first.
paginatedRows(p) ==
    {s \in filteredRows(p) :
        Cardinality({q \in filteredRows(p) : q >= s})
            \in ShownRows(Cardinality(filteredRows(p)), p.currentPage, p.pageSize)}

\* An empty list hides the toolbar, whatever the state.
listIdle == DOMAIN page.rows # {}
listEmpty == ~page.loading /\ DOMAIN page.rows = {} /\ ~page.error

\* The view is drawn over the form, and both over the page.
ViewShown == page.viewUser # Nothing /\ page.viewRow # Nothing
FormUncovered == page.reviewModal # Nothing /\ ~ViewShown
Uncovered == page.reviewModal = Nothing /\ ~ViewShown

Act == past.acts < MaxActs /\ past' = [past EXCEPT !.acts = @ + 1]
Room == Cardinality(calls) < MaxCalls

-----------------------------------------------------------------------------
(* The toolbar, the banners and the pagination. *)

Search ==
    /\ listIdle /\ Uncovered /\ Act
    /\ \E term \in Searches \cup {NoStudent} :
           term # page.searchTerm /\ page' = [page EXCEPT !.searchTerm = term]
    /\ UNCHANGED <<table, calls>>

\* The timer of the last change of the term fires.
Debounce ==
    /\ page.searchTerm # page.debouncedSearch
    /\ page' = Rendered([page EXCEPT !.debouncedSearch = page.searchTerm], TRUE)
    /\ UNCHANGED <<table, calls, past>>

FilterByStatus ==
    /\ listIdle /\ Uncovered /\ Act
    /\ \E s \in Statuses \cup {All} :
           s # page.statusFilter /\ page' = Rendered([page EXCEPT !.statusFilter = s], TRUE)
    /\ UNCHANGED <<table, calls>>

ClearFilters ==
    /\ listIdle /\ filteredRows(page) = {} /\ Uncovered /\ Act
    /\ page' = Rendered([page EXCEPT !.searchTerm = NoStudent, !.debouncedSearch = NoStudent,
                                     !.statusFilter = All], TRUE)
    /\ UNCHANGED <<table, calls>>

\* "Try again": on the error screen, on the empty screen, on the banner.
Retry ==
    /\ listEmpty \/ page.error
    /\ Uncovered /\ Act /\ Room
    /\ page' = Fetching(page)
    /\ calls' = calls \cup {fetchRows(None)}
    /\ UNCHANGED table

DismissError ==
    /\ page.error /\ listIdle /\ Uncovered /\ Act
    /\ page' = [page EXCEPT !.error = FALSE]
    /\ UNCHANGED <<table, calls>>

\* The admin dismisses the banner, or its timer fires.
HideBanner ==
    /\ page.successBanner # None
    /\ page' = [page EXCEPT !.successBanner = None]
    /\ UNCHANGED <<table, calls, past>>

\* The pagination is hidden while a fetch is in flight.
ChangePage ==
    /\ listIdle /\ ~page.loading /\ filteredRows(page) # {} /\ Uncovered /\ Act
    /\ \/ \E cp \in 1 .. TotalPages(Cardinality(filteredRows(page)), page.pageSize) :
              cp # page.currentPage /\ page' = [page EXCEPT !.currentPage = cp]
       \/ \E n \in PageSizes :
              n # page.pageSize /\ page' = Rendered([page EXCEPT !.pageSize = n], TRUE)
    /\ UNCHANGED <<table, calls>>

-----------------------------------------------------------------------------
(* The view. *)

\* Only the button of the student loading is disabled.
openView(s) ==
    /\ s \in paginatedRows(page) /\ Uncovered /\ Act /\ Room
    /\ s # page.viewLoadingId
    /\ page' = [page EXCEPT !.error = FALSE, !.viewLoadingId = s]
    /\ LET shown == page.rows[s].status
       IN  calls' = calls \cup
               {[op |-> "view", at |-> "server", ok |-> FALSE, id |-> s, status |-> shown, active |-> FALSE,
                 reviewed |-> shown, mixed |-> past.unsure]}
    /\ UNCHANGED table

closeView ==
    /\ ViewShown
    /\ page' = [page EXCEPT !.viewUser = Nothing, !.viewRow = Nothing]
    /\ past' = [past EXCEPT !.viewed = Nothing]
    /\ UNCHANGED <<table, calls>>

-----------------------------------------------------------------------------
(* The review. *)

\* A fresh form, over a page without banners.
openReviewModal(p, s, action) ==
    [p EXCEPT !.error = FALSE, !.successBanner = None,
              !.reviewModal = [kind |-> "review", id |-> s, action |-> action, reason |-> NoReason, expiry |-> FALSE]]

\* The box of a row.
onActionSelect(s) ==
    /\ s \in paginatedRows(page) /\ Uncovered /\ Act
    /\ \E action \in Decisions : page' = openReviewModal(page, s, action)
    /\ UNCHANGED <<table, calls>>

\* Nothing disables the fields while the review is in flight; a rejection has no date.
FillReview ==
    /\ FormUncovered
    /\ \/ \E r \in (Reasons \cup {NoReason}) \ {page.reviewModal.reason} :
              page' = [page EXCEPT !.reviewModal.reason = r]
       \/ page.reviewModal.action = "approved" /\ page' = [page EXCEPT !.reviewModal.expiry = ~@]
    /\ past' = [past EXCEPT !.overlap = @ \/ page.reviewSubmitting]
    /\ UNCHANGED <<table, calls>>

\* Mutant of mayClose: the form can be closed while it is being stored.
mayCloseAlways == TRUE

mayClose == ~page.reviewSubmitting

\* The cross, "Cancel", or a click outside.
closeReviewModal ==
    /\ FormUncovered /\ mayClose
    /\ page' = [page EXCEPT !.reviewModal = Nothing]
    /\ UNCHANGED <<table, calls, past>>

\* What the form must say: why a student is rejected, until when one is approved.
Complete(form) == IF form.action = "rejected" THEN form.reason # NoReason ELSE form.expiry

submitReview ==
    /\ FormUncovered /\ ~page.reviewSubmitting
    /\ IF Complete(page.reviewModal)
       THEN /\ past.acts < MaxActs /\ Room
            /\ page' = [page EXCEPT !.error = FALSE, !.reviewSubmitting = TRUE]
            /\ calls' = calls \cup {[op |-> "review", at |-> "server", ok |-> FALSE, form |-> page.reviewModal]}
            /\ past' = [past EXCEPT !.acts = @ + 1, !.sent = page.reviewModal, !.overlap = FALSE, !.lostForm = FALSE,
                                    !.overruled = page.reviewModal.id \notin DOMAIN table]
       ELSE page' = [page EXCEPT !.error = TRUE] /\ UNCHANGED <<calls, past>>
    /\ UNCHANGED table

-----------------------------------------------------------------------------
(* The server. *)

ReviewIn(t, s) == IF s \in DOMAIN t THEN t[s].status ELSE None

\* An answer read before the table became t is old; a view that waits for a student whose
\* review changes is mixed.
AgedOne(k, t) ==
    IF k.op = "fetch" /\ k.at = "back" THEN [k EXCEPT !.old = TRUE]
    ELSE IF k.op = "view" /\ k.at = "server" /\ ReviewIn(t, k.id) # ReviewIn(table, k.id)
    THEN [k EXCEPT !.mixed = TRUE]
    ELSE k
Aged(cs, t) == {AgedOne(k, t) : k \in cs}

Moves(k, j) == calls' = (calls \ {k}) \cup {j}

GetStudentRegistrationRequests(k) ==
    /\ k \in calls /\ k.op = "fetch" /\ k.at = "server"
    /\ Moves(k, [k EXCEPT !.at = "back", !.ok = TRUE, !.rows = table])
    /\ UNCHANGED <<table, page, past>>

GetUserByID(k) ==
    /\ k \in calls /\ k.op = "view" /\ k.at = "server"
    /\ Moves(k, IF k.id \in DOMAIN table
                THEN [k EXCEPT !.at = "back", !.ok = TRUE, !.active = table[k.id].active,
                               !.reviewed = table[k.id].status]
                ELSE [k EXCEPT !.at = "back"])
    /\ UNCHANGED <<table, page, past>>

\* The student after the review: the account is active when it is approved.
Reviewed(form) == [status |-> form.action, reason |-> form.reason, active |-> form.action = "approved"]

\* The server checks the form again. Whether a row was updated, and what it held, is not
\* looked at.
ReviewStudentRegistration(k) ==
    /\ k \in calls /\ k.op = "review" /\ k.at = "server"
    /\ IF Complete(k.form)
       THEN /\ table' = [s \in DOMAIN table |-> IF s = k.form.id THEN Reviewed(k.form) ELSE table[s]]
            /\ calls' = Aged(calls \ {k}, table') \cup {[k EXCEPT !.at = "back", !.ok = TRUE]}
       ELSE Moves(k, [k EXCEPT !.at = "back"]) /\ UNCHANGED table
    /\ UNCHANGED <<page, past>>

\* A query fails, or the answer is lost on its way back.
RequestFails(k) ==
    /\ k \in calls /\ ~(k.at = "back" /\ ~k.ok)
    /\ Moves(k, [k EXCEPT !.at = "back", !.ok = FALSE])
    /\ past' = [past EXCEPT !.unsure = @ \/ (k.op = "review" /\ k.at = "back")]
    /\ UNCHANGED <<table, page>>

\* A student registers, another admin reviews one, or changes or deletes an account.
OthersWrite ==
    /\ past.acts < MaxActs
    /\ \/ \E s \in Ids :
              /\ \A q \in DOMAIN table : q < s
              /\ table' = [q \in DOMAIN table \cup {s} |-> IF q \in DOMAIN table THEN table[q]
                           ELSE [status |-> "pending", reason |-> NoReason, active |-> FALSE]]
       \/ \E s \in DOMAIN table : \E action \in Decisions, r \in Reasons :
              table' = [table EXCEPT ![s] = [status |-> action, reason |-> r, active |-> action = "approved"]]
       \/ \E s \in DOMAIN table : table' = [table EXCEPT ![s].active = ~@]
       \/ \E s \in DOMAIN table : table' = [q \in DOMAIN table \ {s} |-> table[q]]
    /\ calls' = Aged(calls, table')
    /\ past' = [past EXCEPT !.acts = @ + 1, !.unsure = TRUE,
                            !.overruled = @ \/ (past.sent # Nothing
                                /\ ReviewIn(table', past.sent.id) # ReviewIn(table, past.sent.id))]
    /\ UNCHANGED page

-----------------------------------------------------------------------------
(* The answers. *)

\* The end of submitReview: the form that is open is closed.
Finished(p, action) ==
    [p EXCEPT !.successBanner = action, !.reviewModal = Nothing, !.reviewSubmitting = FALSE]

\* The list is replaced by the answer, and whoever waited for it goes on, with or without
\* new rows.
FetchAnswers(k) ==
    /\ k \in calls /\ k.op = "fetch" /\ k.at = "back"
    /\ calls' = calls \ {k}
    /\ LET p == IF k.ok THEN [page EXCEPT !.rows = k.rows, !.loading = FALSE]
                ELSE [page EXCEPT !.error = TRUE, !.loading = FALSE]
       IN  page' = Rendered(IF k.then = None THEN p ELSE Finished(p, k.then), FALSE)
    /\ past' = [past EXCEPT !.unsure = IF k.ok THEN k.old ELSE TRUE,
                            !.lostForm = IF k.then = None THEN @ ELSE page.reviewModal # past.sent]
    /\ UNCHANGED table

\* Mutant of Viewed: the row is looked up in the list as it is by now.
ViewedLate(p, k) ==
    [p EXCEPT !.viewUser = [id |-> k.id, active |-> k.active], !.viewLoadingId = NoStudent,
              !.viewRow = [id |-> k.id, status |-> IF k.id \in DOMAIN p.rows THEN p.rows[k.id].status ELSE k.status]]

Viewed(p, k) ==
    [p EXCEPT !.viewUser = [id |-> k.id, active |-> k.active], !.viewLoadingId = NoStudent,
              !.viewRow = [id |-> k.id, status |-> k.status]]

\* The user of a view replaces the view that is shown; a failure closes it. Either way no
\* button is disabled any more.
ViewAnswers(k) ==
    /\ k \in calls /\ k.op = "view" /\ k.at = "back"
    /\ calls' = calls \ {k}
    /\ page' = IF k.ok THEN Viewed(page, k)
               ELSE [page EXCEPT !.viewUser = Nothing, !.viewRow = Nothing, !.viewLoadingId = NoStudent,
                                 !.error = TRUE]
    /\ past' = [past EXCEPT !.viewed = IF k.ok THEN k ELSE Nothing]
    /\ UNCHANGED table

\* Mutant of Stored: the answer is not looked at.
StoredAnyhow(k) == TRUE

Stored(k) == k.ok

\* Mutant of FetchAfter: the list is not fetched again.
NoFetchAfter(k) == {}

FetchAfter(k) == IF Stored(k) THEN {fetchRows(k.form.action)} ELSE {}

ReviewAnswers(k) ==
    /\ k \in calls /\ k.op = "review" /\ k.at = "back"
    /\ calls' = (calls \ {k}) \cup FetchAfter(k)
    /\ page' = IF Stored(k) THEN Fetching(page) ELSE [page EXCEPT !.error = TRUE, !.reviewSubmitting = FALSE]
    /\ UNCHANGED <<table, past>>

-----------------------------------------------------------------------------
Next ==
    \/ Search \/ Debounce \/ FilterByStatus \/ ClearFilters \/ Retry \/ DismissError \/ HideBanner \/ ChangePage
    \/ closeView \/ FillReview \/ closeReviewModal \/ submitReview
    \/ \E s \in Ids : openView(s) \/ onActionSelect(s)
    \/ OthersWrite
    \/ \E k \in calls :
           \/ GetStudentRegistrationRequests(k) \/ GetUserByID(k) \/ ReviewStudentRegistration(k) \/ RequestFails(k)
           \/ FetchAnswers(k) \/ ViewAnswers(k) \/ ReviewAnswers(k)

Spec == Init /\ [][Next]_vars
-----------------------------------------------------------------------------
(* Properties. *)

\* submitReview is waiting for k: its review, or the fetch that follows it.
Waiting(k) == k.op = "review" \/ (k.op = "fetch" /\ k.then # None)

\* Except while a review is under way, the list is what the server has, whatever else is in
\* flight, once it is fetched, and unless an answer was old or lost or others wrote.
RegistrationsAreCurrent == ~past.unsure /\ (\A k \in calls : ~Waiting(k)) => page.rows = table

\* "Registration approved successfully." (or rejected) is shown only of a student whose
\* registration is: the decision sent last is stored, and stays, unless another admin
\* deleted that very student or decided otherwise since.
BannerIsTrue ==
    page.successBanner # None /\ ~past.overruled
        => /\ past.sent.id \in DOMAIN table
           /\ table[past.sent.id].status = page.successBanner

\* The answer of a review closes the form it was sent from and no other; what is lost is
\* only what was typed after it was sent.
FormLostOnlyToOverlap == past.lostForm => past.overlap

\* The view puts the account, just read, beside the review of the row that was clicked. They
\* are of one student at one moment, unless the list was unsure at the click, or the student
\* was reviewed or deleted before the account was read.
ViewIsOfOneMoment ==
    ViewShown /\ ~past.viewed.mixed
        => page.viewRow = [id |-> page.viewUser.id, status |-> past.viewed.reviewed]

\* A list that has rows shows some.
PageShowsRegistrations == filteredRows(page) # {} => paginatedRows(page) # {}
=============================================================================
